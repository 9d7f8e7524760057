--------------------------- MODULE CampaignLogProofs ---------------------------
(***************************************************************************)
(* Proofs about the results file of the campaign and its state file across *)
(* kills, interrupts and resumes (CampaignLog), and about the viewer that  *)
(* tails the file (LiveViewer).  Everything is said of the text the        *)
(* program has written, the file and behind it the buffer, and of every    *)
(* prefix of it the file could be cut to.                                  *)
(***************************************************************************)
EXTENDS LiveViewer, SequenceTheorems, FiniteSetTheorems, TLAPS

Pieces == {Newline} \cup [half : {"first", "second"}, rec : Records]

Phases == {"down", "program", "programmed", "loop", "flushed", "close", "reported"}

\* What was written and is not lost: the file and, behind it, the buffer.
Text == file \o buffer

\* The first n pieces of t have a whole line at piece k.
Whole(t, n, k) ==
  /\ k + 1 <= n
  /\ t[k].half = "first"
  /\ t[k + 1].half = "second"
  /\ t[k].rec = t[k + 1].rec
  /\ k = 1 \/ t[k - 1].half = "newline"
  /\ k + 1 = n \/ t[k + 2].half = "newline"

LogTypes ==
  /\ file \in Seq(Pieces)
  /\ buffer \in Seq(Pieces)
  /\ state \in Int
  /\ phase \in Phases
  /\ pending \in SUBSET Wanted
  /\ cycle \in Int
  /\ programmed \in Nat
  /\ kills \in Nat
  /\ phase \in {"down", "reported"} => buffer = <<>>
  /\ phase \in {"close", "reported"} => pending = {}

\* Wherever the text is cut, no image has two whole lines, and none that is
\* still to score in the session has one.
OnceInv ==
  \A n \in Len(file) .. Len(Text) :
    /\ \A k, l \in 1 .. n :
         Whole(Text, n, k) /\ Whole(Text, n, l) /\ Text[k].rec.i = Text[l].rec.i => k = l
    /\ phase # "down" =>
         \A k \in 1 .. n : Whole(Text, n, k) => Text[k].rec.i \notin pending

\* Cycle numbers in the text are at most the saved one, and those of the cycle
\* being scored are of the programming being scored with.
CycleInv ==
  /\ phase = "program" => cycle = state
  /\ phase = "programmed" => cycle = state + 1
  /\ phase \in {"loop", "flushed"} =>
       /\ cycle = state
       /\ \A k \in 1 .. Len(Text) : Text[k].half # "newline" /\ Text[k].rec.cycle = cycle
                                   => Text[k].rec.programming = programmed
  /\ \A k \in 1 .. Len(Text) : Text[k].half # "newline" => Text[k].rec.cycle <= state
  /\ \A k, l \in 1 .. Len(Text) :
       /\ Text[k].half # "newline"
       /\ Text[l].half # "newline"
       /\ Text[k].rec.cycle = Text[l].rec.cycle
       => Text[k].rec.programming = Text[l].rec.programming

\* The images the session takes for scored and the text has no whole line of.
Lost == {i \in Wanted \ pending :
           \A k \in 1 .. Len(Text) : Whole(Text, Len(Text), k) => Text[k].rec.i # i}

Clean == Len(Text) = 0 \/ Text[Len(Text)].half = "newline"

\* Only a kill leaves an unfinished line, and the session that appends behind it
\* loses at most that line and its own first one.
LossInv ==
  /\ kills = 0 => Clean
  /\ phase # "down" =>
       \/ Lost = {}
       \/ Clean /\ kills > 0 /\ \E i, j \in Wanted : Lost \subseteq {i, j}
-------------------------------------------------------------------------------
\* Sequences described by their length and elements are equal when those are.
LEMMA TwoOf ==
  ASSUME NEW s \in Seq(Pieces), NEW k \in 1 .. Len(s), k + 1 <= Len(s), NEW r \in Records
  PROVE  SubSeq(s, k, k + 1) = Halves(r)
           <=> s[k] = [half |-> "first", rec |-> r] /\ s[k + 1] = [half |-> "second", rec |-> r]
<1> DEFINE two == SubSeq(s, k, k + 1)
           h == Halves(r)
<1>1. k \in Nat /\ k + 1 \in 1 .. Len(s) /\ Len(s) \in Nat
  OBVIOUS
<1>2. two \in Seq(Pieces) /\ Len(two) = 2 /\ two[1] = s[k] /\ two[2] = s[k + 1]
  BY <1>1, SubSeqProperties
<1>3. [half |-> "first", rec |-> r] \in Pieces /\ [half |-> "second", rec |-> r] \in Pieces
  BY DEF Pieces
<1>4. /\ h \in Seq(Pieces) /\ Len(h) = 2
      /\ h[1] = [half |-> "first", rec |-> r] /\ h[2] = [half |-> "second", rec |-> r]
  BY <1>3 DEF Halves
<1> HIDE DEF two, h
<1>5. two = h <=> two[1] = h[1] /\ two[2] = h[2]
  <2>1. SUFFICES ASSUME two[1] = h[1], two[2] = h[2]
                 PROVE  two = h
    OBVIOUS
  <2>2. \A n \in 1 .. Len(two) : two[n] = h[n]
    <3>1. \A n \in 1 .. 2 : n = 1 \/ n = 2
      OBVIOUS
    <3>2. QED
      BY <1>2, <2>1, <3>1
  <2>3. QED
    BY <1>2, <1>4, <2>2, SeqEqual
<1>6. QED
  BY <1>2, <1>4, <1>5 DEF two, h

\* The pieces are newlines and halves of records.
LEMMA PieceFacts ==
  ASSUME NEW x \in Pieces
  PROVE  /\ x.half \in {"newline", "first", "second"}
         /\ x = Newline <=> x.half = "newline"
         /\ x.half # "newline" => x.rec \in Records
         /\ \A r \in Records : x = [half |-> "first", rec |-> r] <=> x.half = "first" /\ x.rec = r
         /\ \A r \in Records : x = [half |-> "second", rec |-> r] <=> x.half = "second" /\ x.rec = r
<1>1. CASE x = Newline
  BY <1>1 DEF Newline
<1>2. CASE x \in [half : {"first", "second"}, rec : Records]
  BY <1>2 DEF Newline
<1>3. QED
  BY <1>1, <1>2 DEF Pieces

\* What LinesIn decodes are the whole lines, said piece by piece.
LEMMA WholeLines ==
  ASSUME NEW s \in Seq(Pieces), NEW k
  PROVE  k \in LinesIn(s) <=> k \in 1 .. Len(s) /\ Whole(s, Len(s), k)
<1>1. DOMAIN s = 1 .. Len(s) /\ Len(s) \in Nat
  OBVIOUS
<1>2. SUFFICES ASSUME k \in 1 .. Len(s), k + 1 <= Len(s)
               PROVE  k \in LinesIn(s) <=> Whole(s, Len(s), k)
  BY <1>1 DEF LinesIn, DecodesAt, Whole
<1>3. \A n \in 1 .. Len(s) : s[n] \in Pieces
  BY ElementOfSeq
<1>4. /\ s[k] \in Pieces /\ s[k + 1] \in Pieces
      /\ k # 1 => s[k - 1] \in Pieces
      /\ k + 1 # Len(s) => s[k + 2] \in Pieces
  <2>1. /\ k \in Int /\ k + 1 \in 1 .. Len(s)
        /\ k # 1 => k - 1 \in 1 .. Len(s)
        /\ k + 1 # Len(s) => k + 2 \in 1 .. Len(s)
    <3>1. Len(s) \in Int /\ k \in Int /\ 1 <= k /\ k + 1 <= Len(s)
      BY <1>2
    <3>2. k + 1 \in 1 .. Len(s) /\ (k # 1 => k - 1 \in 1 .. Len(s))
      BY <3>1
    <3>3. k + 1 # Len(s) => k + 2 \in 1 .. Len(s)
      BY <3>1
    <3>4. QED
      BY <3>1, <3>2, <3>3
  <2>2. QED
    BY <1>2, <1>3, <2>1
<1>5. /\ s[k] = Newline <=> s[k].half = "newline"
      /\ k # 1 => (s[k - 1] = Newline <=> s[k - 1].half = "newline")
      /\ k + 1 # Len(s) => (s[k + 2] = Newline <=> s[k + 2].half = "newline")
  BY <1>4, PieceFacts
<1>6. CASE s[k].half = "newline"
  BY <1>5, <1>6, SMTT(30) DEF LinesIn, Whole
<1>7. CASE s[k].half # "newline"
  <2> DEFINE r == s[k].rec
  <2>1. r \in Records
    BY <1>4, <1>7, PieceFacts
  <2>2. SubSeq(s, k, k + 1) = Halves(r)
          <=> s[k] = [half |-> "first", rec |-> r] /\ s[k + 1] = [half |-> "second", rec |-> r]
    BY <1>2, <2>1, TwoOf
  <2>3. s[k] = [half |-> "first", rec |-> r] <=> s[k].half = "first"
    BY <1>4, <2>1, PieceFacts
  <2>4. s[k + 1] = [half |-> "second", rec |-> r] <=> s[k + 1].half = "second" /\ s[k + 1].rec = r
    BY <1>4, <2>1, PieceFacts
  <2>5. DecodesAt(s, k, r) <=> Whole(s, Len(s), k)
    BY <1>2, <1>5, <2>2, <2>3, <2>4 DEF DecodesAt, Whole
  <2>6. QED
    BY <1>1, <1>2, <1>5, <1>7, <2>5, ZenonT(30) DEF LinesIn
<1>8. QED
  BY <1>6, <1>7

\* Two pieces and one piece make three, in that order.
LEMMA ThreeOf ==
  ASSUME NEW S, NEW a \in Seq(S), NEW b \in Seq(S)
  PROVE  /\ a \o b \in Seq(S)
         /\ Len(a) = 2 /\ Len(b) = 1 =>
              /\ Len(a \o b) = 3
              /\ (a \o b)[1] = a[1] /\ (a \o b)[2] = a[2] /\ (a \o b)[3] = b[1]
<1> DEFINE c == a \o b
           m == Len(a)
           n == Len(b)
<1>1. c \in Seq(S) /\ Len(c) = m + n
  BY ConcatProperties
<1>2. \A i \in 1 .. m + n : c[i] = IF i <= m THEN a[i] ELSE b[i - m]
  BY ConcatProperties
<1> HIDE DEF c, m, n
<1>3. m = 2 /\ n = 1 => Len(c) = 3 /\ c[1] = a[1] /\ c[2] = a[2] /\ c[3] = b[1]
  BY <1>1, <1>2
<1>4. QED
  BY <1>1, <1>3 DEF c, m, n

\* A line is three pieces.
LEMMA LineFacts ==
  ASSUME NEW r \in Records
  PROVE  /\ Line(r) \in Seq(Pieces)
         /\ Len(Line(r)) = 3
         /\ Line(r)[1].half = "first" /\ Line(r)[1].rec = r
         /\ Line(r)[2].half = "second" /\ Line(r)[2].rec = r
         /\ Line(r)[3].half = "newline"
<1> DEFINE h == Halves(r)
           e == <<Newline>>
<1>1. /\ [half |-> "first", rec |-> r] \in Pieces
      /\ [half |-> "second", rec |-> r] \in Pieces
      /\ Newline \in Pieces
  BY DEF Pieces
<1>2. /\ h \in Seq(Pieces) /\ Len(h) = 2
      /\ h[1] = [half |-> "first", rec |-> r] /\ h[2] = [half |-> "second", rec |-> r]
  BY <1>1 DEF Halves
<1>3. e \in Seq(Pieces) /\ Len(e) = 1 /\ e[1] = Newline
  BY <1>1
<1> HIDE DEF h, e
<1>4. h \in Seq(Pieces) /\ e \in Seq(Pieces) /\ Len(h) = 2 /\ Len(e) = 1
  BY <1>2, <1>3
<1>5. /\ h \o e \in Seq(Pieces) /\ Len(h \o e) = 3
      /\ (h \o e)[1] = h[1] /\ (h \o e)[2] = h[2] /\ (h \o e)[3] = e[1]
  BY <1>4, ThreeOf
<1>6. Line(r) = h \o e
  BY DEF Line, h, e
<1>7. QED
  BY <1>2, <1>3, <1>5, <1>6 DEF Newline

\* The text is the file and, behind it, the buffer.
LEMMA TextFacts ==
  ASSUME file \in Seq(Pieces), buffer \in Seq(Pieces)
  PROVE  /\ Text \in Seq(Pieces)
         /\ Len(Text) \in Nat /\ Len(file) \in Nat
         /\ Len(Text) = Len(file) + Len(buffer)
         /\ Len(file) <= Len(Text)
         /\ \A k \in 1 .. Len(file) : Text[k] = file[k]
         /\ \A k \in 1 .. Len(Text) :
              /\ Text[k].half \in {"newline", "first", "second"}
              /\ Text[k].half # "newline" => Text[k].rec \in Records
<1>1. Text \in Seq(Pieces) /\ Len(Text) = Len(file) + Len(buffer)
  BY ConcatProperties DEF Text
<1>2. \A k \in 1 .. Len(file) : Text[k] = file[k]
  BY ConcatProperties DEF Text
<1>3. \A k \in 1 .. Len(Text) : Text[k] \in Pieces
  BY <1>1, ElementOfSeq
<1>4. QED
  BY <1>1, <1>2, <1>3, PieceFacts
-------------------------------------------------------------------------------
\* The first session has not begun.
LEMMA InitTypes == Init => LogTypes
<1>1. <<>> \in Seq(Pieces) /\ -1 \in Int /\ {} \in SUBSET Wanted
  OBVIOUS
<1>2. QED
  BY <1>1 DEF Init, LogTypes, Phases

\* Appending the scored image writes one line behind the buffer.
LEMMA AppendFacts ==
  ASSUME LogTypes, AppendRecord
  PROVE  \E i \in pending :
           /\ i \in Wanted
           /\ Scored(i, cycle, programmed) \in Records
           /\ buffer' = buffer \o Line(Scored(i, cycle, programmed))
           /\ buffer' \in Seq(Pieces)
           /\ pending' = pending \ {i}
           /\ phase = "loop"
           /\ UNCHANGED <<file, state, phase, cycle, programmed, kills>>
<1>1. PICK i \in pending : /\ buffer' = buffer \o Line(Scored(i, cycle, programmed))
                           /\ pending' = pending \ {i}
  BY DEF AppendRecord
<1>2. i \in Wanted /\ Scored(i, cycle, programmed) \in Records
  BY <1>1 DEF LogTypes, Scored, Records
<1>3. Line(Scored(i, cycle, programmed)) \in Seq(Pieces)
  BY <1>2, LineFacts
<1>4. buffer' \in Seq(Pieces)
  BY <1>1, <1>3, ConcatProperties DEF LogTypes
<1>5. QED
  BY <1>1, <1>2, <1>4 DEF AppendRecord

\* What a spill moves is a piece, and it leaves the text as it is.
LEMMA SpillFacts ==
  ASSUME LogTypes, Spill
  PROVE  /\ file' \in Seq(Pieces) /\ buffer' \in Seq(Pieces)
         /\ Text' = Text
         /\ Len(file') = Len(file) + 1
         /\ phase \notin {"down", "reported"}
<1> DEFINE head == Head(buffer)
           rest == Tail(buffer)
           longer == Append(file, head)
<1>1. file' = longer /\ buffer' = rest /\ buffer # <<>>
  BY DEF Spill
<1>2. file \in Seq(Pieces) /\ buffer \in Seq(Pieces)
  BY DEF LogTypes
<1>3. /\ head \in Pieces /\ rest \in Seq(Pieces)
      /\ Len(rest) = Len(buffer) - 1 /\ head = buffer[1]
      /\ \A n \in 1 .. Len(rest) : rest[n] = buffer[n + 1]
  BY <1>1, <1>2, HeadTailProperties
<1>4. /\ longer \in Seq(Pieces) /\ Len(longer) = Len(file) + 1
      /\ \A n \in 1 .. Len(file) : longer[n] = file[n]
      /\ longer[Len(file) + 1] = head
  BY <1>2, <1>3, AppendProperties
<1> HIDE DEF head, rest, longer
<1> DEFINE one == file \o buffer
           two == longer \o rest
<1>5. /\ one \in Seq(Pieces) /\ Len(one) = Len(file) + Len(buffer)
      /\ \A n \in 1 .. Len(file) + Len(buffer) :
           one[n] = IF n <= Len(file) THEN file[n] ELSE buffer[n - Len(file)]
  BY <1>2, ConcatProperties
<1>6. /\ two \in Seq(Pieces) /\ Len(two) = Len(longer) + Len(rest)
      /\ \A n \in 1 .. Len(longer) + Len(rest) :
           two[n] = IF n <= Len(longer) THEN longer[n] ELSE rest[n - Len(longer)]
  BY <1>3, <1>4, ConcatProperties
<1> HIDE DEF one, two
<1>7. Len(file) \in Nat /\ Len(buffer) \in Nat /\ Len(rest) \in Nat
  BY <1>2, <1>3
<1>8. Len(one) = Len(two)
  BY <1>3, <1>4, <1>5, <1>6, <1>7
<1>9. \A n \in 1 .. Len(one) : one[n] = two[n]
  <2>1. SUFFICES ASSUME NEW n \in 1 .. Len(one)
                 PROVE  one[n] = two[n]
    OBVIOUS
  <2>2. n \in Int /\ n \in 1 .. Len(file) + Len(buffer) /\ n \in 1 .. Len(longer) + Len(rest)
    BY <1>5, <1>6, <1>8, <2>1
  <2>3. CASE n <= Len(file)
    BY <1>4, <1>5, <1>6, <1>7, <2>2, <2>3
  <2>4. CASE n = Len(file) + 1
    BY <1>3, <1>4, <1>5, <1>6, <1>7, <2>2, <2>4
  <2>5. CASE n > Len(file) + 1
    <3>1. one[n] = buffer[n - Len(file)]
      BY <1>5, <1>7, <2>2, <2>5
    <3>2. two[n] = rest[n - Len(file) - 1]
      BY <1>4, <1>6, <1>7, <2>2, <2>5
    <3>3. n - Len(file) - 1 \in 1 .. Len(rest)
      BY <1>4, <1>7, <2>2, <2>5
    <3>4. rest[n - Len(file) - 1] = buffer[(n - Len(file) - 1) + 1]
      BY <1>3, <3>3
    <3>5. (n - Len(file) - 1) + 1 = n - Len(file)
      BY <1>7, <2>2
    <3>6. QED
      BY <3>1, <3>2, <3>4, <3>5
  <2>6. QED
    BY <1>7, <2>2, <2>3, <2>4, <2>5
<1>10. one = two
  BY <1>5, <1>6, <1>8, <1>9, SeqEqual
<1>11. Text' = Text
  BY <1>1, <1>10 DEF Text, one, two
<1>12. phase \notin {"down", "reported"}
  BY <1>1 DEF LogTypes
<1>13. QED
  BY <1>1, <1>3, <1>4, <1>11, <1>12

\* Every step keeps the types, an empty buffer while no process runs, and no
\* pending image once the campaign closes.
LEMMA NextTypes == LogTypes /\ [Next]_vars => LogTypes'
<1>1. SUFFICES ASSUME LogTypes, [Next]_vars
               PROVE  LogTypes'
  OBVIOUS
<1>2. file \o buffer \in Seq(Pieces) /\ <<>> \in Seq(Pieces)
  BY <1>1, ConcatProperties DEF LogTypes
<1>3. CASE Start
  BY <1>1, <1>3 DEF Start, LogTypes, Phases, Resumed
<1>4. CASE Reprogram
  BY <1>1, <1>4 DEF Reprogram, LogTypes, Phases
<1>5. CASE SaveReprogram
  BY <1>1, <1>5 DEF SaveReprogram, SavedAfterReprogram, LogTypes, Phases
<1>6. CASE SaveBatch
  BY <1>1, <1>6 DEF SaveBatch, LogTypes, Phases
<1>7. CASE AppendRecord
  BY <1>1, <1>7, AppendFacts DEF LogTypes, Phases
<1>8. CASE Spill
  <2>1. /\ file' \in Seq(Pieces) /\ buffer' \in Seq(Pieces)
        /\ phase \notin {"down", "reported"}
    BY <1>1, <1>8, SpillFacts
  <2>2. UNCHANGED <<state, phase, pending, cycle, programmed, kills>>
    BY <1>8 DEF Spill
  <2>3. QED
    BY <1>1, <2>1, <2>2 DEF LogTypes
<1>9. CASE Flush
  BY <1>1, <1>2, <1>9 DEF Flush, LogTypes, Phases
<1>10. CASE Interrupt
  BY <1>1, <1>2, <1>10 DEF Interrupt, LogTypes, Phases
<1>11. CASE Kill
  BY <1>1, <1>2, <1>11 DEF Kill, LogTypes, Phases
<1>12. CASE Report
  BY <1>1, <1>2, <1>12 DEF Report, LogTypes, Phases
<1>13. CASE UNCHANGED vars
  BY <1>1, <1>13 DEF vars, LogTypes
<1>14. QED
  BY <1>1, <1>3, <1>4, <1>5, <1>6, <1>7, <1>8, <1>9, <1>10, <1>11, <1>12, <1>13 DEF Next
-------------------------------------------------------------------------------
\* Closing the file or flushing it leaves the text as it is.
LEMMA FlushedText ==
  ASSUME LogTypes, file' = file \o buffer, buffer' = <<>>
  PROVE  Text' = Text /\ file' = Text
<1>1. file' \in Seq(Pieces)
  BY ConcatProperties DEF LogTypes
<1>2. file' \o <<>> = file'
  BY <1>1, ConcatEmptySeq
<1>3. QED
  BY <1>2 DEF Text

\* With an empty buffer the text is the file.
LEMMA TextOfFile ==
  ASSUME LogTypes, buffer = <<>>
  PROVE  Text = file
<1>1. file \o <<>> = file
  BY ConcatEmptySeq DEF LogTypes
<1>2. QED
  BY <1>1 DEF Text

\* A kill cuts the text to the file.
LEMMA KilledText ==
  ASSUME LogTypes, Kill
  PROVE  /\ Text' = file /\ file' = file
         /\ Len(Text') = Len(file)
         /\ \A k \in 1 .. Len(file) : Text'[k] = Text[k]
<1>1. file \o <<>> = file
  BY ConcatEmptySeq DEF LogTypes
<1>2. Text' = file /\ file' = file
  BY <1>1 DEF Text, Kill
<1>3. \A k \in 1 .. Len(file) : Text[k] = file[k]
  BY TextFacts DEF LogTypes
<1>4. QED
  BY <1>2, <1>3

\* Every step but an append and a kill leaves the text and at most moves its
\* front into the file.
LEMMA KeptText ==
  ASSUME LogTypes, [Next]_vars, ~AppendRecord, ~Kill
  PROVE  /\ Text' = Text
         /\ Len(file) <= Len(file') /\ Len(file') <= Len(Text')
<1>1. LogTypes'
  BY NextTypes
<1>2. Len(file') <= Len(Text') /\ Len(file) \in Nat /\ Len(file') \in Nat
  <2>1. file \in Seq(Pieces) /\ file' \in Seq(Pieces) /\ buffer' \in Seq(Pieces)
    BY <1>1 DEF LogTypes
  <2>2. Text' = file' \o buffer'
    BY DEF Text
  <2>3. Len(file' \o buffer') = Len(file') + Len(buffer') /\ Len(buffer') \in Nat
    BY <2>1, ConcatProperties
  <2>4. QED
    BY <2>1, <2>2, <2>3
<1>3. CASE UNCHANGED <<file, buffer>>
  BY <1>2, <1>3 DEF Text
<1>4. CASE file' = file \o buffer /\ buffer' = <<>>
  <2>1. Text' = Text /\ file' = Text
    BY <1>4, FlushedText
  <2>2. Len(file) <= Len(Text)
    BY TextFacts DEF LogTypes
  <2>3. QED
    BY <1>2, <2>1, <2>2
<1>5. CASE Spill
  <2>1. Text' = Text /\ Len(file') = Len(file) + 1
    BY <1>5, SpillFacts
  <2>2. QED
    BY <1>2, <2>1
<1>6. \/ UNCHANGED <<file, buffer>>
      \/ file' = file \o buffer /\ buffer' = <<>>
      \/ Spill
  BY DEF Next, vars, Start, Reprogram, SaveReprogram, SaveBatch, Flush, Interrupt, Report
<1>7. QED
  BY <1>3, <1>4, <1>5, <1>6

\* An append puts the three pieces of the scored record behind the text.
LEMMA GrownText ==
  ASSUME LogTypes, AppendRecord
  PROVE  \E i \in pending :
           /\ i \in Wanted
           /\ Len(Text') = Len(Text) + 3
           /\ \A k \in 1 .. Len(Text) : Text'[k] = Text[k]
           /\ Text'[Len(Text) + 1].half = "first"
           /\ Text'[Len(Text) + 2].half = "second"
           /\ Text'[Len(Text) + 3].half = "newline"
           /\ Text'[Len(Text) + 1].rec = Scored(i, cycle, programmed)
           /\ Text'[Len(Text) + 2].rec = Scored(i, cycle, programmed)
           /\ pending' = pending \ {i}
           /\ phase = "loop"
           /\ UNCHANGED <<file, state, phase, cycle, programmed, kills>>
<1>1. PICK i \in pending :
        /\ i \in Wanted
        /\ Scored(i, cycle, programmed) \in Records
        /\ buffer' = buffer \o Line(Scored(i, cycle, programmed))
        /\ pending' = pending \ {i}
        /\ phase = "loop"
        /\ UNCHANGED <<file, state, phase, cycle, programmed, kills>>
  BY AppendFacts
<1> DEFINE line == Line(Scored(i, cycle, programmed))
           more == Text \o line
<1>2. /\ line \in Seq(Pieces) /\ Len(line) = 3
      /\ line[1].half = "first" /\ line[1].rec = Scored(i, cycle, programmed)
      /\ line[2].half = "second" /\ line[2].rec = Scored(i, cycle, programmed)
      /\ line[3].half = "newline"
  BY <1>1, LineFacts
<1>3. file \in Seq(Pieces) /\ buffer \in Seq(Pieces) /\ Text \in Seq(Pieces) /\ Len(Text) \in Nat
  BY TextFacts DEF LogTypes
<1>4. Text' = Text \o line
  <2>1. Text' = file \o (buffer \o line)
    BY <1>1 DEF Text
  <2>2. line \in Seq(Pieces)
    BY <1>2
  <2>3. file \o (buffer \o line) = (file \o buffer) \o line
    BY <1>3, <2>2, ConcatAssociative, SMTT(30)
  <2>4. QED
    BY <2>1, <2>3 DEF Text
<1>5. /\ Len(more) = Len(Text) + Len(line)
      /\ \A n \in 1 .. Len(Text) + Len(line) :
           more[n] = IF n <= Len(Text) THEN Text[n] ELSE line[n - Len(Text)]
  BY <1>2, <1>3, ConcatProperties
<1> HIDE DEF line, more
<1>6. /\ Len(more) = Len(Text) + 3
      /\ \A k \in 1 .. Len(Text) : more[k] = Text[k]
      /\ more[Len(Text) + 1] = line[1]
      /\ more[Len(Text) + 2] = line[2]
      /\ more[Len(Text) + 3] = line[3]
  <2>1. Len(line) = 3 /\ Len(Text) \in Nat
    BY <1>2, <1>3
  <2>2. QED
    BY <1>5, <2>1
<1>7. Text' = more
  BY <1>4 DEF more
<1>8. QED
  BY <1>1, <1>2, <1>6, <1>7
-------------------------------------------------------------------------------
\* Behind a text, a whole line of a grown text is either the new one or one of
\* the text as it was.
LEMMA WholeGrown ==
  ASSUME NEW t, NEW u, NEW m \in Nat,
         \A k \in 1 .. m : u[k] = t[k],
         u[m + 1].half = "first", u[m + 2].half = "second", u[m + 3].half = "newline",
         NEW n \in m .. m + 3, NEW k \in 1 .. n, Whole(u, n, k)
  PROVE  k = m + 1 \/ (k \in 1 .. m /\ Whole(t, m, k))
<1>1. /\ k + 1 <= n /\ u[k].half = "first" /\ u[k + 1].half = "second"
      /\ u[k].rec = u[k + 1].rec
      /\ k = 1 \/ u[k - 1].half = "newline"
      /\ k + 1 = n \/ u[k + 2].half = "newline"
  BY DEF Whole
<1>2. k # m + 2 /\ k # m + 3 /\ k # m
  BY <1>1
<1>3. SUFFICES ASSUME k <= m
               PROVE  Whole(t, m, k)
  BY <1>2
<1>4. k < m /\ k \in 1 .. m /\ k + 1 \in 1 .. m
  BY <1>2, <1>3
<1>5. u[k] = t[k] /\ u[k + 1] = t[k + 1]
  BY <1>4
<1>6. k # 1 => u[k - 1] = t[k - 1]
  <2>1. k # 1 => k - 1 \in 1 .. m
    BY <1>4
  <2>2. QED
    BY <2>1
<1>7. k + 1 # m => u[k + 2] = t[k + 2] /\ t[k + 2].half = "newline"
  <2>1. k + 1 # m => k + 2 \in 1 .. m /\ k + 1 # n
    BY <1>4
  <2>2. QED
    BY <1>1, <2>1
<1>8. k + 1 <= m
  BY <1>4
<1>9. QED
  BY <1>1, <1>5, <1>6, <1>7, <1>8 DEF Whole

\* A prefix of a text has the same whole lines as that prefix of another text
\* that agrees with it so far.
LEMMA WholeAgrees ==
  ASSUME NEW t, NEW u, NEW n \in Nat, \A k \in 1 .. n : u[k] = t[k],
         NEW k \in 1 .. n
  PROVE  Whole(u, n, k) <=> Whole(t, n, k)
<1>1. SUFFICES ASSUME k + 1 <= n
               PROVE  Whole(u, n, k) <=> Whole(t, n, k)
  BY DEF Whole
<1>2. k + 1 \in 1 .. n /\ (k # 1 => k - 1 \in 1 .. n) /\ (k + 1 # n => k + 2 \in 1 .. n)
  BY <1>1
<1>3. /\ u[k] = t[k] /\ u[k + 1] = t[k + 1]
      /\ k # 1 => u[k - 1] = t[k - 1]
      /\ k + 1 # n => u[k + 2] = t[k + 2]
  BY <1>2
<1>4. QED
  BY <1>3 DEF Whole

\* An image that has no whole line in the text yet is the only one the append
\* adds, wherever the text is cut behind the file.
LEMMA AppendOnce ==
  ASSUME LogTypes, OnceInv, AppendRecord
  PROVE  OnceInv'
<1>1. PICK i \in pending :
        /\ Len(Text') = Len(Text) + 3
        /\ \A k \in 1 .. Len(Text) : Text'[k] = Text[k]
        /\ Text'[Len(Text) + 1].half = "first"
        /\ Text'[Len(Text) + 2].half = "second"
        /\ Text'[Len(Text) + 3].half = "newline"
        /\ Text'[Len(Text) + 1].rec = Scored(i, cycle, programmed)
        /\ pending' = pending \ {i}
        /\ phase = "loop"
        /\ UNCHANGED <<file, phase>>
  BY GrownText
<1> DEFINE m == Len(Text)
<1>2. m \in Nat /\ Len(file) \in Nat /\ Len(file) <= m
  BY TextFacts DEF LogTypes
<1>3. Text'[m + 1].rec.i = i
  BY <1>1 DEF Scored
<1>4. SUFFICES ASSUME NEW n \in Len(file) .. m + 3
               PROVE  /\ \A k, l \in 1 .. n :
                           /\ Whole(Text', n, k) /\ Whole(Text', n, l)
                           /\ Text'[k].rec.i = Text'[l].rec.i
                           => k = l
                      /\ \A k \in 1 .. n : Whole(Text', n, k) => Text'[k].rec.i \notin pending'
  BY <1>1, <1>2 DEF OnceInv
<1>5. CASE n <= m
  <2>1. n \in Nat /\ n \in Len(file) .. m
    BY <1>2, <1>5
  <2>2. \A k \in 1 .. n : Text'[k] = Text[k]
    BY <1>1, <1>2, <2>1
  <2>3. \A k \in 1 .. n : Whole(Text', n, k) <=> Whole(Text, n, k)
    BY <2>1, <2>2, WholeAgrees
  <2>4. /\ \A k, l \in 1 .. n :
             Whole(Text, n, k) /\ Whole(Text, n, l) /\ Text[k].rec.i = Text[l].rec.i => k = l
        /\ \A k \in 1 .. n : Whole(Text, n, k) => Text[k].rec.i \notin pending
    BY <1>1, <2>1 DEF OnceInv
  <2>5. QED
    BY <1>1, <2>2, <2>3, <2>4
<1>6. CASE n > m
  <2>1. n \in m .. m + 3 /\ m \in Len(file) .. m
    BY <1>2, <1>6
  <2>2. \A k \in 1 .. n : Whole(Text', n, k) => k = m + 1 \/ (k \in 1 .. m /\ Whole(Text, m, k))
    BY <1>1, <1>2, <2>1, WholeGrown
  <2>3. /\ \A k, l \in 1 .. m :
             Whole(Text, m, k) /\ Whole(Text, m, l) /\ Text[k].rec.i = Text[l].rec.i => k = l
        /\ \A k \in 1 .. m : Whole(Text, m, k) => Text[k].rec.i \notin pending
    BY <1>1, <2>1 DEF OnceInv
  <2>4. \A k \in 1 .. m : Whole(Text, m, k) =>
             Text'[k].rec.i = Text[k].rec.i /\ Text'[k].rec.i # i
    BY <1>1, <2>3
  <2>5. \A k \in 1 .. n : Whole(Text', n, k) => Text'[k].rec.i \notin pending'
    BY <1>1, <1>3, <2>2, <2>3, <2>4
  <2>6. SUFFICES ASSUME NEW k \in 1 .. n, NEW l \in 1 .. n,
                        Whole(Text', n, k), Whole(Text', n, l),
                        Text'[k].rec.i = Text'[l].rec.i
                 PROVE  k = l
    BY <2>5
  <2>7. CASE k = m + 1
    BY <1>3, <2>2, <2>4, <2>6, <2>7
  <2>8. CASE l = m + 1
    BY <1>3, <2>2, <2>4, <2>6, <2>8
  <2>9. CASE k # m + 1 /\ l # m + 1
    BY <2>2, <2>3, <2>4, <2>6, <2>9
  <2>10. QED
    BY <2>7, <2>8, <2>9
<1>7. QED
  BY <1>2, <1>5, <1>6

\* A session scores only what the file has no whole line of.
LEMMA StartOnce ==
  ASSUME LogTypes, OnceInv, Start
  PROVE  OnceInv'
<1>1. /\ phase = "down" /\ pending' = Wanted \ DoneIndices
      /\ UNCHANGED <<file, buffer>>
  BY DEF Start
<1>2. Text = file /\ Text' = Text /\ file \in Seq(Pieces) /\ Len(file) \in Nat
  BY <1>1, TextOfFile, TextFacts DEF LogTypes, Text
<1>3. \A k \in 1 .. Len(file) : Whole(file, Len(file), k) => file[k].rec.i \in DoneIndices
  BY <1>2, WholeLines DEF DoneIndices, RecordsIn
<1>4. SUFFICES ASSUME NEW n \in Len(file) .. Len(file)
               PROVE  /\ \A k, l \in 1 .. n :
                           Whole(file, n, k) /\ Whole(file, n, l) /\ file[k].rec.i = file[l].rec.i => k = l
                      /\ \A k \in 1 .. n : Whole(file, n, k) => file[k].rec.i \notin pending'
  BY <1>1, <1>2 DEF OnceInv
<1>5. n = Len(file)
  BY <1>2
<1>6. \A k, l \in 1 .. n :
        Whole(file, n, k) /\ Whole(file, n, l) /\ file[k].rec.i = file[l].rec.i => k = l
  BY <1>2, <1>4 DEF OnceInv
<1>7. \A k \in 1 .. n : Whole(file, n, k) => file[k].rec.i \notin pending'
  BY <1>1, <1>3, <1>5
<1>8. QED
  BY <1>6, <1>7

\* Every step keeps every image to one whole line.
LEMMA NextOnce == LogTypes /\ OnceInv /\ [Next]_vars => OnceInv'
<1>1. SUFFICES ASSUME LogTypes, OnceInv, [Next]_vars
               PROVE  OnceInv'
  OBVIOUS
<1>2. CASE Start
  BY <1>1, <1>2, StartOnce
<1>3. CASE AppendRecord
  BY <1>1, <1>3, AppendOnce
<1>4. CASE Kill
  <2>1. /\ Text' = file /\ file' = file /\ Len(Text') = Len(file)
        /\ \A k \in 1 .. Len(file) : Text'[k] = Text[k]
    BY <1>1, <1>4, KilledText
  <2>2. Len(file) \in Nat /\ Len(file) \in Len(file) .. Len(Text)
    BY <1>1, TextFacts DEF LogTypes
  <2>3. \A k \in 1 .. Len(file) : Whole(Text', Len(file), k) <=> Whole(Text, Len(file), k)
    BY <2>1, <2>2, WholeAgrees
  <2>4. \A k, l \in 1 .. Len(file) :
           /\ Whole(Text, Len(file), k) /\ Whole(Text, Len(file), l)
           /\ Text[k].rec.i = Text[l].rec.i
           => k = l
    BY <1>1, <2>2 DEF OnceInv
  <2>5. \A k, l \in 1 .. Len(file) :
           /\ Whole(Text', Len(file), k) /\ Whole(Text', Len(file), l)
           /\ Text'[k].rec.i = Text'[l].rec.i
           => k = l
    BY <2>1, <2>3, <2>4
  <2>6. phase' = "down"
    BY <1>4 DEF Kill
  <2>7. \A n \in Len(file') .. Len(Text') : n = Len(file)
    BY <2>1, <2>2
  <2>8. QED
    BY <2>5, <2>6, <2>7 DEF OnceInv
<1>5. CASE ~Start /\ ~AppendRecord /\ ~Kill
  <2>1. Text' = Text /\ Len(file) <= Len(file') /\ Len(file') <= Len(Text)
    BY <1>1, <1>5, KeptText
  <2>2. pending' = pending /\ (phase' # "down" => phase # "down")
    BY <1>1, <1>5 DEF Next, vars, Reprogram, SaveReprogram, SaveBatch, Spill, Flush,
                      Interrupt, Report
  <2>3. LogTypes'
    BY <1>1, NextTypes
  <2>4. Len(file) \in Nat /\ Len(file') \in Nat /\ Len(Text) \in Nat
    <3>1. file \in Seq(Pieces) /\ file' \in Seq(Pieces)
      BY <1>1, <2>3 DEF LogTypes
    <3>2. QED
      BY <1>1, <3>1, TextFacts DEF LogTypes
  <2>5. \A n \in Len(file') .. Len(Text) : n \in Len(file) .. Len(Text)
    BY <2>1, <2>4
  <2>6. QED
    BY <1>1, <2>1, <2>2, <2>5 DEF OnceInv
<1>6. QED
  BY <1>2, <1>3, <1>4, <1>5
-------------------------------------------------------------------------------
\* A step that leaves the text, the saved cycle and the session's cycle and
\* programming alone, and enters no phase in which it must match the programming.
LEMMA CycleKept ==
  ASSUME CycleInv, Text' = Text, UNCHANGED <<state, cycle, programmed>>,
         phase' = phase \/ phase' \in {"down", "close", "reported"}
                        \/ (phase = "loop" /\ phase' = "flushed")
  PROVE  CycleInv'
BY DEF CycleInv

\* The record that is appended has the number of the cycle being scored.
LEMMA AppendCycle ==
  ASSUME LogTypes, CycleInv, AppendRecord
  PROVE  CycleInv'
<1> DEFINE m == Len(Text)
<1>1. PICK i \in pending :
        /\ Len(Text') = m + 3
        /\ \A k \in 1 .. m : Text'[k] = Text[k]
        /\ Text'[m + 3].half = "newline"
        /\ Text'[m + 1].rec = Scored(i, cycle, programmed)
        /\ Text'[m + 2].rec = Scored(i, cycle, programmed)
        /\ phase = "loop"
        /\ UNCHANGED <<state, phase, cycle, programmed>>
  BY GrownText
<1>2. m \in Nat /\ state \in Int
  BY TextFacts DEF LogTypes
<1>3. /\ cycle = state
      /\ \A k \in 1 .. m : Text[k].half # "newline" /\ Text[k].rec.cycle = cycle
                             => Text[k].rec.programming = programmed
      /\ \A k \in 1 .. m : Text[k].half # "newline" => Text[k].rec.cycle <= state
      /\ \A k, l \in 1 .. m :
           /\ Text[k].half # "newline" /\ Text[l].half # "newline"
           /\ Text[k].rec.cycle = Text[l].rec.cycle
           => Text[k].rec.programming = Text[l].rec.programming
  BY <1>1 DEF CycleInv
<1>4. \A k \in 1 .. m + 3 : Text'[k].half # "newline" =>
        \/ k \in 1 .. m /\ Text'[k] = Text[k]
        \/ Text'[k].rec.cycle = cycle /\ Text'[k].rec.programming = programmed
  <2>1. /\ Text'[m + 1].rec.cycle = cycle /\ Text'[m + 1].rec.programming = programmed
        /\ Text'[m + 2].rec.cycle = cycle /\ Text'[m + 2].rec.programming = programmed
    BY <1>1 DEF Scored
  <2>2. \A k \in 1 .. m + 3 : k \in 1 .. m \/ k = m + 1 \/ k = m + 2 \/ k = m + 3
    BY <1>2
  <2>3. QED
    BY <1>1, <2>1, <2>2
<1>5. \A k \in 1 .. m + 3 : Text'[k].half # "newline" /\ Text'[k].rec.cycle = cycle
                             => Text'[k].rec.programming = programmed
  BY <1>3, <1>4
<1>6. \A k \in 1 .. m + 3 : Text'[k].half # "newline" => Text'[k].rec.cycle <= state
  BY <1>2, <1>3, <1>4
<1>7. \A k, l \in 1 .. m + 3 :
        /\ Text'[k].half # "newline" /\ Text'[l].half # "newline"
        /\ Text'[k].rec.cycle = Text'[l].rec.cycle
        => Text'[k].rec.programming = Text'[l].rec.programming
  BY <1>3, <1>4
<1>8. QED
  BY <1>1, <1>3, <1>5, <1>6, <1>7 DEF CycleInv

\* Every step keeps the cycle numbers of the text faithful to the programmings.
LEMMA NextCycle == LogTypes /\ CycleInv /\ [Next]_vars => CycleInv'
<1>1. SUFFICES ASSUME LogTypes, CycleInv, [Next]_vars
               PROVE  CycleInv'
  OBVIOUS
<1>2. state \in Int /\ cycle \in Int
  BY <1>1 DEF LogTypes
<1>3. \A k \in 1 .. Len(Text) : Text[k].half # "newline" =>
        Text[k].rec.cycle \in Int /\ Text[k].rec.cycle <= state
  BY <1>1, TextFacts DEF CycleInv, LogTypes, Records
<1>4. CASE Start
  <2>1. Text' = Text
    BY <1>4 DEF Start, Text
  <2>2. /\ phase' \in {"close", "program"} /\ cycle' = state'
        /\ UNCHANGED <<state, programmed>>
    BY <1>4 DEF Start, Resumed
  <2>3. QED
    BY <1>1, <2>1, <2>2 DEF CycleInv
<1>5. CASE Reprogram
  <2>1. Text' = Text
    BY <1>5 DEF Reprogram, Text
  <2>2. /\ phase' = "programmed" /\ cycle' = state' + 1 /\ state' = state
    BY <1>1, <1>5 DEF Reprogram, CycleInv
  <2>3. QED
    BY <1>1, <2>1, <2>2 DEF CycleInv
<1>6. CASE SaveReprogram
  <2>1. Text' = Text
    BY <1>6 DEF SaveReprogram, Text
  <2>2. /\ phase' = "loop" /\ cycle' = state' /\ state' = state + 1
    BY <1>1, <1>6 DEF SaveReprogram, SavedAfterReprogram, CycleInv
  <2>3. \A k \in 1 .. Len(Text) : Text[k].half # "newline" =>
          Text[k].rec.cycle <= state' /\ Text[k].rec.cycle # cycle'
    BY <1>2, <1>3, <2>2
  <2>4. \A k, l \in 1 .. Len(Text) :
          /\ Text[k].half # "newline" /\ Text[l].half # "newline"
          /\ Text[k].rec.cycle = Text[l].rec.cycle
          => Text[k].rec.programming = Text[l].rec.programming
    BY <1>1 DEF CycleInv
  <2>5. QED
    BY <2>1, <2>2, <2>3, <2>4 DEF CycleInv
<1>7. CASE SaveBatch
  <2>1. Text' = Text
    BY <1>7 DEF SaveBatch, Text
  <2>2. /\ phase = "flushed" /\ phase' \in {"close", "loop", "program"}
        /\ cycle' = cycle /\ state' = cycle /\ cycle = state /\ programmed' = programmed
    BY <1>1, <1>7 DEF SaveBatch, CycleInv
  <2>3. QED
    BY <1>1, <2>1, <2>2 DEF CycleInv
<1>8. CASE AppendRecord
  BY <1>1, <1>8, AppendCycle
<1>9. CASE Kill
  <2>1. /\ Len(Text') = Len(file) /\ Len(file) <= Len(Text)
        /\ Len(file) \in Nat /\ Len(Text) \in Nat
        /\ \A k \in 1 .. Len(file) : Text'[k] = Text[k]
    BY <1>1, <1>9, KilledText, TextFacts DEF LogTypes
  <2>2. \A k \in 1 .. Len(Text') : k \in 1 .. Len(Text) /\ Text'[k] = Text[k]
    BY <2>1
  <2>3. phase' = "down" /\ state' = state
    BY <1>9 DEF Kill
  <2>4. QED
    BY <1>1, <2>2, <2>3 DEF CycleInv
<1>10. CASE Spill \/ Flush \/ Interrupt \/ Report \/ UNCHANGED vars
  <2>1. Text' = Text
    <3>1. CASE Spill
      BY <1>1, <3>1, SpillFacts
    <3>2. CASE Flush \/ Interrupt \/ Report
      BY <1>1, <3>2, FlushedText DEF Flush, Interrupt, Report
    <3>3. CASE UNCHANGED vars
      BY <3>3 DEF vars, Text
    <3>4. QED
      BY <1>10, <3>1, <3>2, <3>3
  <2>2. UNCHANGED <<state, cycle, programmed>>
    BY <1>10 DEF Spill, Flush, Interrupt, Report, vars
  <2>3. \/ phase' = phase
        \/ phase' \in {"down", "close", "reported"}
        \/ phase = "loop" /\ phase' = "flushed"
    BY <1>10 DEF Spill, Flush, Interrupt, Report, vars
  <2>4. QED
    BY <1>1, <2>1, <2>2, <2>3, CycleKept
<1>11. QED
  BY <1>1, <1>4, <1>5, <1>6, <1>7, <1>8, <1>9, <1>10 DEF Next
-------------------------------------------------------------------------------
\* Behind a text, a grown text keeps the whole lines it had, but for one that
\* ended it without its newline.
LEMMA WholeStays ==
  ASSUME NEW t, NEW u, NEW m \in Nat,
         \A k \in 1 .. m : u[k] = t[k],
         NEW k \in 1 .. m, Whole(t, m, k), k + 1 # m
  PROVE  Whole(u, m + 3, k)
<1>1. /\ k + 1 <= m /\ t[k].half = "first" /\ t[k + 1].half = "second"
      /\ t[k].rec = t[k + 1].rec
      /\ k = 1 \/ t[k - 1].half = "newline"
      /\ t[k + 2].half = "newline"
  BY DEF Whole
<1>2. k + 1 \in 1 .. m /\ k + 2 \in 1 .. m /\ (k # 1 => k - 1 \in 1 .. m)
  BY <1>1
<1>3. /\ u[k] = t[k] /\ u[k + 1] = t[k + 1] /\ u[k + 2] = t[k + 2]
      /\ k # 1 => u[k - 1] = t[k - 1]
  BY <1>2
<1>4. k + 1 <= m + 3
  BY <1>1
<1>5. QED
  BY <1>1, <1>3, <1>4 DEF Whole

\* Behind a text that ends with a newline, or an empty one, the new line is whole.
LEMMA WholeBehindClean ==
  ASSUME NEW t, NEW u, NEW m \in Nat,
         \A k \in 1 .. m : u[k] = t[k],
         u[m + 1].half = "first", u[m + 2].half = "second", u[m + 3].half = "newline",
         u[m + 1].rec = u[m + 2].rec,
         m = 0 \/ t[m].half = "newline"
  PROVE  Whole(u, m + 3, m + 1)
<1>1. (m + 1) - 1 = m /\ (m + 1) + 1 = m + 2 /\ (m + 1) + 2 = m + 3 /\ m + 2 <= m + 3
  OBVIOUS
<1>2. m + 1 = 1 \/ u[m].half = "newline"
  <2>1. m # 0 => m \in 1 .. m
    OBVIOUS
  <2>2. QED
    BY <2>1
<1>3. QED
  BY <1>1, <1>2 DEF Whole

\* A session that appends behind an unfinished line loses that line and its own;
\* behind a finished one it loses nothing more.
LEMMA AppendLoss ==
  ASSUME LogTypes, LossInv, AppendRecord
  PROVE  LossInv'
<1> DEFINE m == Len(Text)
<1>1. PICK i \in pending :
        /\ i \in Wanted
        /\ Len(Text') = m + 3
        /\ \A k \in 1 .. m : Text'[k] = Text[k]
        /\ Text'[m + 1].half = "first"
        /\ Text'[m + 2].half = "second"
        /\ Text'[m + 3].half = "newline"
        /\ Text'[m + 1].rec = Scored(i, cycle, programmed)
        /\ Text'[m + 2].rec = Scored(i, cycle, programmed)
        /\ pending' = pending \ {i}
        /\ phase = "loop"
        /\ UNCHANGED <<phase, kills>>
  BY GrownText
<1>2. m \in Nat /\ kills \in Nat /\ Text \in Seq(Pieces)
  BY TextFacts DEF LogTypes
<1>3. Text'[m + 1].rec.i = i /\ Text'[m + 1].rec = Text'[m + 2].rec
  BY <1>1 DEF Scored
<1>4. \A k \in 1 .. m : Whole(Text, m, k) /\ k + 1 # m => Whole(Text', m + 3, k)
  BY <1>1, <1>2, WholeStays
<1>5. Clean'
  BY <1>1 DEF Clean
<1>6. Lost' = {j \in Wanted \ pending' :
                 \A k \in 1 .. m + 3 : Whole(Text', m + 3, k) => Text'[k].rec.i # j}
  BY <1>1 DEF Lost
<1>7. Lost = {j \in Wanted \ pending :
                \A k \in 1 .. m : Whole(Text, m, k) => Text[k].rec.i # j}
  BY DEF Lost
<1>8. CASE Clean
  <2>1. m = 0 \/ Text[m].half = "newline"
    BY <1>8 DEF Clean
  <2>2. i \notin Lost'
    <3>1. Whole(Text', m + 3, m + 1) /\ m + 1 \in 1 .. m + 3
      <4> DEFINE t == Text
                 u == Text'
      <4>1. /\ m \in Nat /\ \A k \in 1 .. m : u[k] = t[k]
            /\ u[m + 1].half = "first" /\ u[m + 2].half = "second"
            /\ u[m + 3].half = "newline" /\ u[m + 1].rec = u[m + 2].rec
            /\ m = 0 \/ t[m].half = "newline"
        BY <1>1, <1>2, <1>3, <2>1
      <4> HIDE DEF m, t, u
      <4>2. Whole(u, m + 3, m + 1)
        BY <4>1, WholeBehindClean
      <4>3. m + 1 \in 1 .. m + 3
        BY <4>1
      <4>4. QED
        BY <4>2, <4>3 DEF m, u
    <3>2. QED
      BY <1>3, <1>6, <3>1
  <2>3. ASSUME NEW j \in Lost'
        PROVE  j \in Lost
    <3>1. j \in Wanted \ pending
      BY <1>1, <1>6, <2>2, <2>3
    <3>2. ASSUME NEW k \in 1 .. m, Whole(Text, m, k)
          PROVE  Text[k].rec.i # j
      <4>1. Whole(Text', m + 3, k) /\ k \in 1 .. m + 3
        <5>1. k + 1 # m
          <6>1. Text[k + 1].half = "second" /\ m # 0
            BY <3>2 DEF Whole
          <6>2. QED
            BY <2>1, <6>1
        <5>2. QED
          BY <1>2, <1>4, <3>2, <5>1
      <4>2. Text'[k].rec.i # j
        BY <1>6, <2>3, <4>1
      <4>3. QED
        BY <1>1, <4>2
    <3>3. QED
      BY <1>7, <3>1, <3>2
  <2>4. \/ Lost = {}
        \/ kills > 0 /\ \E a, b \in Wanted : Lost \subseteq {a, b}
    BY <1>1 DEF LossInv
  <2>5. \/ Lost' = {}
        \/ kills > 0 /\ \E a, b \in Wanted : Lost' \subseteq {a, b}
    BY <2>3, <2>4
  <2>6. QED
    BY <1>1, <1>5, <2>5 DEF LossInv
<1>9. CASE ~Clean
  <2>1. Lost = {} /\ kills > 0
    BY <1>1, <1>2, <1>9 DEF LossInv
  <2>2. m # 0
    BY <1>9 DEF Clean
  <2>3. ASSUME NEW j \in Lost', j # i
        PROVE  /\ m - 1 \in 1 .. m /\ Whole(Text, m, m - 1)
               /\ Text[m - 1].rec.i = j /\ j \in Wanted
    <3>1. j \in Wanted \ pending
      BY <1>1, <1>6, <2>3
    <3>2. PICK k \in 1 .. m : Whole(Text, m, k) /\ Text[k].rec.i = j
      BY <1>7, <2>1, <3>1
    <3>3. k + 1 = m
      <4>1. SUFFICES ASSUME k + 1 # m
                     PROVE  FALSE
        OBVIOUS
      <4>2. Whole(Text', m + 3, k) /\ k \in 1 .. m + 3
        BY <1>2, <1>4, <3>2, <4>1
      <4>3. Text'[k].rec.i # j
        BY <1>6, <2>3, <4>2
      <4>4. QED
        BY <1>1, <3>2, <4>3
    <3>4. k = m - 1
      BY <1>2, <3>3
    <3>5. QED
      BY <3>1, <3>2, <3>4
  <2>4. \E a \in Wanted : Lost' \subseteq {i, a}
    <3>1. CASE Lost' \subseteq {i}
      BY <1>1, <3>1
    <3>2. CASE ~(Lost' \subseteq {i})
      <4>1. PICK a \in Lost' : a # i
        BY <3>2
      <4>2. a \in Wanted /\ Text[m - 1].rec.i = a
        BY <2>3, <4>1
      <4>3. \A j \in Lost' : j # i => j = a
        BY <2>3, <4>2
      <4>4. QED
        BY <4>2, <4>3
    <3>3. QED
      BY <3>1, <3>2
  <2>5. QED
    BY <1>1, <1>5, <2>1, <2>4 DEF LossInv
<1>10. QED
  BY <1>8, <1>9

\* Every step keeps what the session can have lost to two images, and to none
\* before the first kill.
LEMMA NextLoss == LogTypes /\ LossInv /\ [Next]_vars => LossInv'
<1>1. SUFFICES ASSUME LogTypes, LossInv, [Next]_vars
               PROVE  LossInv'
  OBVIOUS
<1>2. kills \in Nat
  BY <1>1 DEF LogTypes
<1>3. CASE Start
  <2>1. /\ phase = "down" /\ pending' = Wanted \ DoneIndices
        /\ UNCHANGED <<file, buffer, kills>>
    BY <1>3 DEF Start
  <2>2. Text = file /\ Text' = Text /\ file \in Seq(Pieces)
    BY <1>1, <2>1, TextOfFile DEF LogTypes, Text
  <2>3. ASSUME NEW j \in Lost'
        PROVE  FALSE
    <3>1. j \in DoneIndices /\ \A k \in 1 .. Len(file) :
                                 Whole(file, Len(file), k) => file[k].rec.i # j
      BY <2>1, <2>2, <2>3 DEF Lost
    <3>2. PICK k \in LinesIn(file) : file[k].rec.i = j
      BY <3>1 DEF DoneIndices, RecordsIn
    <3>3. QED
      BY <2>2, <3>1, <3>2, WholeLines
  <2>4. Lost' = {}
    BY <2>3
  <2>5. kills' = 0 => Clean'
    BY <1>1, <2>1, <2>2 DEF LossInv, Clean
  <2>6. QED
    BY <2>4, <2>5 DEF LossInv
<1>4. CASE AppendRecord
  BY <1>1, <1>4, AppendLoss
<1>5. CASE Kill
  <2>1. phase' = "down" /\ kills' # 0
    BY <1>2, <1>5 DEF Kill
  <2>2. QED
    BY <2>1 DEF LossInv
<1>6. CASE Interrupt
  <2>1. phase' = "down" /\ kills' # 0
    BY <1>2, <1>6 DEF Interrupt
  <2>2. QED
    BY <2>1 DEF LossInv
<1>7. CASE ~Start /\ ~AppendRecord /\ ~Kill /\ ~Interrupt
  <2>1. Text' = Text
    BY <1>1, <1>7, KeptText
  <2>2. /\ UNCHANGED <<pending, kills>>
        /\ phase' # "down" => phase # "down"
    BY <1>1, <1>7 DEF Next, vars, Reprogram, SaveReprogram, SaveBatch, Spill, Flush, Report
  <2>3. Lost' = Lost /\ Clean' = Clean
    BY <2>1, <2>2 DEF Lost, Clean
  <2>4. QED
    BY <1>1, <2>2, <2>3 DEF LossInv
<1>8. QED
  BY <1>3, <1>4, <1>5, <1>6, <1>7
-------------------------------------------------------------------------------
\* The three invariants hold while no session has begun.
LEMMA InitLog == Init => OnceInv /\ CycleInv /\ LossInv
<1>1. SUFFICES ASSUME Init
               PROVE  OnceInv /\ CycleInv /\ LossInv
  OBVIOUS
<1>2. Text = <<>> /\ Len(Text) = 0 /\ Len(file) = 0
  <2>1. <<>> \in Seq(Pieces) /\ <<>> \o <<>> = <<>> /\ Len(<<>>) = 0
    OBVIOUS
  <2>2. QED
    BY <1>1, <2>1 DEF Init, Text
<1>3. phase = "down"
  BY <1>1 DEF Init
<1>4. \A n \in Len(file) .. Len(Text) : 1 .. n = {}
  BY <1>2
<1>5. OnceInv
  BY <1>3, <1>4 DEF OnceInv
<1>6. CycleInv
  <2>1. 1 .. Len(Text) = {}
    BY <1>2
  <2>2. QED
    BY <1>3, <2>1 DEF CycleInv
<1>7. LossInv
  BY <1>2, <1>3 DEF LossInv, Clean
<1>8. QED
  BY <1>5, <1>6, <1>7

\* All of them hold of every reachable state.
LEMMA LogInvariant == Spec => [](LogTypes /\ OnceInv /\ CycleInv /\ LossInv)
<1>1. Init => LogTypes /\ OnceInv /\ CycleInv /\ LossInv
  BY InitTypes, InitLog
<1>2. LogTypes /\ OnceInv /\ CycleInv /\ LossInv /\ [Next]_vars
        => (LogTypes /\ OnceInv /\ CycleInv /\ LossInv)'
  BY NextTypes, NextOnce, NextCycle, NextLoss
<1>3. QED
  BY <1>1, <1>2, PTL DEF Spec

\* The file is one of the prefixes OnceInv speaks of.
LEMMA OnceInFile == LogTypes /\ OnceInv => NoImageTwice
<1>1. SUFFICES ASSUME LogTypes, OnceInv,
                      NEW k \in LinesIn(file), NEW l \in LinesIn(file),
                      file[k].rec.i = file[l].rec.i
               PROVE  k = l
  BY DEF NoImageTwice
<1>2. /\ file \in Seq(Pieces) /\ Len(file) \in Len(file) .. Len(Text) /\ Len(file) \in Nat
      /\ \A n \in 1 .. Len(file) : Text[n] = file[n]
  BY <1>1, TextFacts DEF LogTypes
<1>3. /\ k \in 1 .. Len(file) /\ Whole(file, Len(file), k)
      /\ l \in 1 .. Len(file) /\ Whole(file, Len(file), l)
  BY <1>1, <1>2, WholeLines
<1>4. Whole(Text, Len(file), k) /\ Whole(Text, Len(file), l)
  BY <1>2, <1>3, WholeAgrees
<1>5. Text[k].rec.i = Text[l].rec.i
  BY <1>1, <1>2, <1>3
<1>6. QED
  BY <1>1, <1>2, <1>3, <1>4, <1>5 DEF OnceInv

\* However often the campaign was killed, interrupted and resumed, and wherever a
\* full buffer cut a record, no image has two lines that decode in results.jsonl.
THEOREM Once == Spec => []NoImageTwice
<1>1. LogTypes /\ OnceInv => NoImageTwice
  BY OnceInFile
<1>2. QED
  BY <1>1, LogInvariant, PTL

\* Records of results.jsonl with one cycle number were scored by one programming
\* of the board, whatever was killed between programming it, saving its number
\* and flushing its records.
THEOREM CyclesFaithful == Spec => []CyclesAreFaithful
<1>1. LogTypes /\ CycleInv => CyclesAreFaithful
  <2>1. SUFFICES ASSUME LogTypes, CycleInv,
                        NEW k \in LinesIn(file), NEW l \in LinesIn(file),
                        file[k].rec.cycle = file[l].rec.cycle
                 PROVE  file[k].rec.programming = file[l].rec.programming
    BY DEF CyclesAreFaithful, RecordsIn
  <2>2. /\ file \in Seq(Pieces) /\ Len(file) \in Nat /\ Len(Text) \in Nat
        /\ Len(file) <= Len(Text)
        /\ \A n \in 1 .. Len(file) : Text[n] = file[n]
    BY <2>1, TextFacts DEF LogTypes
  <2>3. /\ k \in 1 .. Len(file) /\ file[k].half = "first"
        /\ l \in 1 .. Len(file) /\ file[l].half = "first"
    BY <2>1, <2>2, WholeLines DEF Whole
  <2>4. /\ k \in 1 .. Len(Text) /\ Text[k] = file[k]
        /\ l \in 1 .. Len(Text) /\ Text[l] = file[l]
    BY <2>2, <2>3
  <2>5. QED
    BY <2>1, <2>3, <2>4 DEF CycleInv
<1>2. QED
  BY <1>1, LogInvariant, PTL

\* The report of a finished campaign lacks at most two images for every time the
\* process was killed or interrupted, and none if it never was.
THEOREM LossBounded == Spec => []LossPerKill
<1>1. LogTypes /\ LossInv => LossPerKill
  <2>1. SUFFICES ASSUME LogTypes, LossInv, phase = "reported"
                 PROVE  Cardinality(Wanted \ DoneIndices) <= 2 * kills
    BY DEF LossPerKill
  <2> DEFINE missing == Wanted \ DoneIndices
  <2>2. pending = {} /\ buffer = <<>> /\ file \in Seq(Pieces) /\ kills \in Nat
    BY <2>1 DEF LogTypes
  <2>3. Text = file
    BY <2>1, <2>2, TextOfFile
  <2>4. missing = Lost
    <3>1. \A i \in Wanted : i \in DoneIndices
            <=> \E k \in 1 .. Len(file) : Whole(file, Len(file), k) /\ file[k].rec.i = i
      BY <2>2, WholeLines DEF DoneIndices, RecordsIn
    <3>2. QED
      BY <2>2, <2>3, <3>1 DEF Lost
  <2>5. \/ Lost = {}
        \/ kills > 0 /\ \E i, j \in Wanted : Lost \subseteq {i, j}
    BY <2>1 DEF LossInv
  <2> HIDE DEF missing
  <2>6. CASE Lost = {}
    <3>1. Cardinality(missing) = 0
      BY <2>4, <2>6, FS_EmptySet
    <3>2. QED
      BY <2>2, <3>1 DEF missing
  <2>7. CASE kills > 0 /\ \E i, j \in Wanted : Lost \subseteq {i, j}
    <3>1. PICK i \in Wanted, j \in Wanted : missing \subseteq {i, j}
      BY <2>4, <2>7
    <3>2. IsFiniteSet({i}) /\ Cardinality({i}) = 1
      BY FS_Singleton
    <3>3. /\ IsFiniteSet({i} \cup {j})
          /\ Cardinality({i} \cup {j}) <= 2
      BY <3>2, FS_AddElement
    <3>4. missing \subseteq {i} \cup {j}
      BY <3>1
    <3>5. Cardinality(missing) <= Cardinality({i} \cup {j})
      BY <3>3, <3>4, FS_Subset
    <3>6. IsFiniteSet(missing)
      BY <3>3, <3>4, FS_Subset
    <3>7. Cardinality(missing) \in Nat /\ Cardinality({i} \cup {j}) \in Nat
      BY <3>3, <3>6, FS_CardinalityType
    <3>8. Cardinality(missing) <= 2 * kills
      <4>1. kills \in Nat /\ kills >= 1
        BY <2>2, <2>7
      <4>2. 2 <= 2 * kills
        BY <4>1
      <4>3. Cardinality(missing) <= 2
        BY <3>3, <3>5, <3>7
      <4>4. QED
        BY <3>7, <4>1, <4>2, <4>3
    <3>9. QED
      BY <3>8 DEF missing
  <2>8. QED
    BY <2>5, <2>6, <2>7
<1>2. QED
  BY <1>1, LogInvariant, PTL
-------------------------------------------------------------------------------
(* The viewer.                                                              *)

Seen == taken \o backlog

\* The viewer has read up to the end of a line, and what it has seen is what the lines
\* up to there decode to, each once.
TailInv ==
  /\ pos \in 0 .. Len(file)
  /\ pos # 0 => file[pos].half = "newline"
  /\ mode # "over" =>
       /\ taken \in Seq(Records) /\ backlog \in Seq(Records)
       /\ \A n \in 1 .. Len(Seen) : \E k \in LinesIn(file) : k <= pos /\ file[k].rec = Seen[n]
       /\ \A k \in LinesIn(file) : k <= pos => \E n \in 1 .. Len(Seen) : file[k].rec = Seen[n]
       /\ \A m, n \in 1 .. Len(Seen) : Seen[m] = Seen[n] => m = n

\* Every set of numbers that is not empty has a least one.
LEMMA LeastOf ==
  ASSUME NEW T \in SUBSET Nat, T # {}
  PROVE  \E x \in T : \A y \in T : x <= y
<1> DEFINE below == {ss \in Nat \X Nat : ss[1] < ss[2]}
<1>1. IsWellFoundedOn(below, Nat)
  BY NatLessThanWellFounded DEF OpToRel
<1>2. \A x, y \in T : x <= y \/ <<y, x>> \in below
  OBVIOUS
<1> HIDE DEF below
<1>3. PICK x \in T : \A y \in T : ~ (<<y, x>> \in below)
  BY <1>1, WFMin, Zenon
<1>4. QED
  BY <1>2, <1>3

\* A bounded one has a greatest one.
LEMMA GreatestOf ==
  ASSUME NEW b \in Nat, NEW T \in SUBSET (0 .. b), T # {}
  PROVE  \E x \in T : \A y \in T : y <= x
<1> DEFINE far == {n \in 0 .. b : b - n \in T}
<1>1. far \in SUBSET Nat
  OBVIOUS
<1>2. PICK t \in T : TRUE
  OBVIOUS
<1>3. b - t \in 0 .. b /\ b - (b - t) = t
  OBVIOUS
<1>4. far # {}
  BY <1>3
<1> HIDE DEF far
<1>5. PICK d \in far : \A y \in far : d <= y
  BY <1>1, <1>4, LeastOf
<1>6. b - d \in T /\ d \in 0 .. b
  BY <1>5 DEF far
<1>7. ASSUME NEW y \in T
      PROVE  y <= b - d
  <2>1. y \in 0 .. b /\ b - y \in 0 .. b /\ b - (b - y) = y
    BY <1>7
  <2>2. b - y \in far
    BY <2>1, <1>7 DEF far
  <2>3. d <= b - y
    BY <1>5, <2>2
  <2>4. QED
    BY <1>6, <2>1, <2>3
<1>8. QED
  BY <1>6, <1>7

\* A line that ends below a newline stays what it is while the file grows.
LEMMA LinesStay ==
  ASSUME NEW f \in Seq(Pieces), NEW g \in Seq(Pieces), Len(f) <= Len(g),
         \A n \in 1 .. Len(f) : g[n] = f[n],
         NEW p \in 0 .. Len(f), p # 0 => f[p].half = "newline",
         NEW k \in Int, k <= p
  PROVE  k \in LinesIn(f) <=> k \in LinesIn(g)
<1>1. Len(f) \in Nat /\ Len(g) \in Nat
  OBVIOUS
<1>2. CASE ~ (k \in 1 .. Len(f))
  <2>1. ~ (k \in 1 .. Len(g))
    BY <1>1, <1>2
  <2>2. QED
    BY <1>2, <2>1, WholeLines
<1>3. CASE k \in 1 .. Len(f)
  <2>1. k \in 1 .. Len(g) /\ p # 0 /\ p \in 1 .. Len(f) /\ f[p].half = "newline"
    BY <1>1, <1>3
  <2>2. ASSUME f[k].half = "first", k + 1 <= Len(f), f[k + 1].half = "second"
        PROVE  Whole(f, Len(f), k) <=> Whole(g, Len(g), k)
    <3>1. k # p /\ k + 1 # p
      BY <2>1, <2>2
    <3>2. /\ k + 1 \in 1 .. Len(f) /\ k + 2 \in 1 .. Len(f)
          /\ k + 1 # Len(f) /\ k + 1 <= Len(g) /\ k + 1 # Len(g)
          /\ k # 1 => k - 1 \in 1 .. Len(f)
      BY <1>1, <1>3, <2>1, <3>1
    <3>3. /\ g[k] = f[k] /\ g[k + 1] = f[k + 1] /\ g[k + 2] = f[k + 2]
          /\ k # 1 => g[k - 1] = f[k - 1]
      BY <1>3, <3>2
    <3>4. QED
      BY <3>2, <3>3 DEF Whole
  <2>3. CASE f[k].half = "first" /\ k + 1 <= Len(f) /\ f[k + 1].half = "second"
    BY <1>3, <2>1, <2>2, <2>3, WholeLines
  <2>4. CASE ~ (f[k].half = "first" /\ k + 1 <= Len(f) /\ f[k + 1].half = "second")
    <3>1. ~ Whole(f, Len(f), k)
      BY <2>4 DEF Whole
    <3>2. ~ Whole(g, Len(g), k)
      <4>1. CASE k = p
        <5>1. g[k].half = "newline"
          BY <1>3, <2>1, <4>1
        <5>2. QED
          BY <5>1 DEF Whole
      <4>2. CASE k # p
        <5>1. k + 1 \in 1 .. Len(f)
          BY <1>1, <1>3, <2>1, <4>2
        <5>2. g[k] = f[k] /\ g[k + 1] = f[k + 1] /\ k + 1 <= Len(f)
          BY <1>1, <1>3, <5>1
        <5>3. QED
          BY <2>4, <5>2 DEF Whole
      <4>3. QED
        BY <4>1, <4>2
    <3>3. QED
      BY <1>3, <2>1, <3>1, <3>2, WholeLines
  <2>5. QED
    BY <2>3, <2>4
<1>4. QED
  BY <1>2, <1>3

\* The campaign only appends to the file.
LEMMA FileGrows ==
  ASSUME LogTypes, Next
  PROVE  /\ file' \in Seq(Pieces) /\ Len(file) <= Len(file')
         /\ \A n \in 1 .. Len(file) : file'[n] = file[n]
<1>1. file \in Seq(Pieces) /\ buffer \in Seq(Pieces) /\ Len(file) \in Nat /\ Len(buffer) \in Nat
  BY DEF LogTypes
<1>2. CASE file' = file
  BY <1>1, <1>2
<1>3. CASE file' = file \o buffer
  BY <1>1, <1>3, ConcatProperties
<1>4. CASE Spill
  <2>1. buffer # <<>> /\ file' = Append(file, Head(buffer))
    BY <1>4 DEF Spill
  <2>2. Head(buffer) \in Pieces
    BY <1>1, <2>1, HeadTailProperties
  <2>3. QED
    BY <1>1, <2>1, <2>2, AppendProperties
<1>5. QED
  BY <1>2, <1>3, <1>4 DEF Next, Start, Reprogram, SaveReprogram, SaveBatch, AppendRecord, Flush,
                          Interrupt, Kill, Report

\* Reading stops behind a newline, no earlier than before.
LEMMA ReadToFacts ==
  ASSUME LogTypes, TailInv
  PROVE  /\ ReadTo \in 0 .. Len(file) /\ pos <= ReadTo
         /\ ReadTo # 0 => file[ReadTo].half = "newline"
<1> DEFINE ends == {k \in pos + 1 .. Len(file) : file[k] = Newline}
<1>1. /\ file \in Seq(Pieces) /\ Len(file) \in Nat /\ pos \in 0 .. Len(file)
      /\ pos # 0 => file[pos].half = "newline"
  BY DEF LogTypes, TailInv
<1>2. ReadTo = IF ends = {} THEN pos ELSE CHOOSE k \in ends : \A j \in ends : j <= k
  BY DEF ReadTo
<1>3. ends \in SUBSET (0 .. Len(file))
  BY <1>1
<1>4. \A k \in ends : k \in 0 .. Len(file) /\ pos <= k /\ file[k].half = "newline"
  BY <1>1 DEF Newline
<1> HIDE DEF ends
<1>5. CASE ends = {}
  BY <1>1, <1>2, <1>5
<1>6. CASE ends # {}
  <2>1. \E k \in ends : \A j \in ends : j <= k
    BY <1>1, <1>3, <1>6, GreatestOf
  <2>2. ReadTo \in ends
    BY <1>2, <1>6, <2>1
  <2>3. QED
    BY <1>4, <2>2
<1>7. QED
  BY <1>5, <1>6

\* What a poll returns is what the lines it reads decode to, each once.
LEMMA PollFacts ==
  ASSUME LogTypes, NoImageTwice, NEW polled \in Poll
  PROVE  /\ polled \in Seq(Records)
         /\ \A n \in 1 .. Len(polled) : \E k \in LinesRead : file[k].rec = polled[n]
         /\ \A k \in LinesRead : \E n \in 1 .. Len(polled) : file[k].rec = polled[n]
         /\ \A m, n \in 1 .. Len(polled) : polled[m] = polled[n] => m = n
<1>1. PICK starts \in InOrder(LinesRead) : polled = [n \in DOMAIN starts |-> file[starts[n]].rec]
  BY DEF Poll
<1> DEFINE c == Cardinality(LinesRead)
<1>2. file \in Seq(Pieces) /\ Len(file) \in Nat
  BY DEF LogTypes
<1>3. LinesRead \subseteq LinesIn(file) /\ LinesIn(file) \subseteq 1 .. Len(file)
  BY <1>2, WholeLines DEF LinesRead
<1>4. c \in Nat
  <2>1. IsFiniteSet(1 .. Len(file))
    BY <1>2, FS_Interval
  <2>2. IsFiniteSet(LinesRead)
    BY <1>3, <2>1, FS_Subset
  <2>3. QED
    BY <2>2, FS_CardinalityType
<1>5. /\ starts \in [1 .. c -> LinesRead] /\ ToSet(starts) = LinesRead
      /\ \A m, n \in DOMAIN starts : m < n => starts[m] < starts[n]
  BY <1>1 DEF InOrder
<1> HIDE DEF c
<1>6. \A k \in LinesRead : file[k].rec \in Records
  <2>1. ASSUME NEW k \in LinesRead
        PROVE  file[k].rec \in Records
    <3>1. k \in 1 .. Len(file) /\ Whole(file, Len(file), k)
      BY <1>2, <1>3, WholeLines
    <3>2. file[k] \in Pieces /\ file[k].half # "newline"
      BY <1>2, <3>1, ElementOfSeq DEF Whole
    <3>3. QED
      BY <3>2, PieceFacts
  <2>2. QED
    BY <2>1
<1>7. polled = [n \in 1 .. c |-> file[starts[n]].rec]
  BY <1>1, <1>5
<1>8. /\ polled \in [1 .. c -> Records]
      /\ \A n \in 1 .. c : polled[n] = file[starts[n]].rec
  BY <1>5, <1>6, <1>7
<1>9. polled \in Seq(Records) /\ Len(polled) = c
  BY <1>4, <1>8, IsASeq
<1>10. \A k \in LinesRead : \E n \in 1 .. c : starts[n] = k
  BY <1>5 DEF ToSet
<1>11. ASSUME NEW m \in 1 .. c, NEW n \in 1 .. c, polled[m] = polled[n]
       PROVE  m = n
  <2>1. starts[m] \in LinesIn(file) /\ starts[n] \in LinesIn(file)
    BY <1>3, <1>5
  <2>2. file[starts[m]].rec.i = file[starts[n]].rec.i
    BY <1>8, <1>11
  <2>3. starts[m] = starts[n]
    BY <2>1, <2>2 DEF NoImageTwice
  <2>4. /\ m < n => starts[m] < starts[n] /\ starts[m] \in Int
        /\ n < m => starts[n] < starts[m] /\ starts[m] \in Int
    BY <1>3, <1>5
  <2>5. QED
    BY <1>4, <2>3, <2>4
<1>12. QED
  BY <1>5, <1>8, <1>9, <1>10, <1>11

\* The first element and the tail are the sequence again.
LEMMA FirstAndRest ==
  ASSUME NEW S, NEW s \in Seq(S), 1 <= Len(s)
  PROVE  /\ SubSeq(s, 1, 1) \in Seq(S) /\ Tail(s) \in Seq(S)
         /\ SubSeq(s, 1, 1) \o Tail(s) = s
<1>1. Len(s) \in Nat /\ s # <<>> /\ \A i \in 1 .. 1 : s[i] \in S
  BY EmptySeq
<1>2. /\ SubSeq(s, 1, 1) \in Seq(S) /\ Len(SubSeq(s, 1, 1)) = 1
      /\ SubSeq(s, 1, 1)[1] = s[1]
  BY <1>1, SubSeqProperties
<1>3. /\ Tail(s) \in Seq(S) /\ Len(Tail(s)) = Len(s) - 1
      /\ \A n \in 1 .. Len(Tail(s)) : Tail(s)[n] = s[n + 1]
  BY <1>1, HeadTailProperties
<1> DEFINE one == SubSeq(s, 1, 1)
           rest == Tail(s)
           whole == one \o rest
<1>4. ASSUME NEW x \in Seq(S), NEW y \in Seq(S)
      PROVE  /\ x \o y \in Seq(S)
             /\ Len(x \o y) = Len(x) + Len(y)
             /\ \A n \in 1 .. (Len(x) + Len(y)) :
                  (x \o y)[n] = IF n <= Len(x) THEN x[n] ELSE y[n - Len(x)]
  BY ONLY <1>4, ConcatProperties
<1> HIDE DEF one, rest
<1>5. /\ whole \in Seq(S) /\ Len(whole) = Len(one) + Len(rest)
      /\ \A n \in 1 .. (Len(one) + Len(rest)) :
           whole[n] = IF n <= Len(one) THEN one[n] ELSE rest[n - Len(one)]
  BY <1>2, <1>3, <1>4 DEF one, rest
<1> HIDE DEF whole
<1>6. /\ Len(one) = 1 /\ one[1] = s[1] /\ Len(rest) = Len(s) - 1
      /\ \A n \in 1 .. Len(rest) : rest[n] = s[n + 1]
  BY <1>2, <1>3 DEF one, rest
<1>7. Len(whole) = Len(s)
  BY <1>1, <1>6, <1>5
<1>8. ASSUME NEW n \in 1 .. Len(s)
      PROVE  whole[n] = s[n]
  <2>1. CASE n = 1
    BY <1>1, <1>6, <1>5, <2>1
  <2>2. CASE n # 1
    <3>1. /\ n \in 1 .. Len(one) + Len(rest) /\ ~ (n <= Len(one))
          /\ n - Len(one) \in 1 .. Len(rest) /\ (n - Len(one)) + 1 = n
      BY <1>1, <1>6, <2>2
    <3>2. QED
      BY <1>6, <1>5, <3>1
  <2>3. QED
    BY <2>1, <2>2
<1>9. whole = s
  BY <1>5, <1>7, <1>8, SeqEqual
<1>10. QED
  BY <1>2, <1>3, <1>9 DEF one, rest, whole

\* What is taken and what is left of the records are the records.
LEMMA TakenAndLeft ==
  ASSUME NEW records \in Seq(Records), records # <<>>
  PROVE  /\ Taken(records) \in Seq(Records) /\ Left(records) \in Seq(Records)
         /\ Taken(records) \o Left(records) = records
<1>1. CASE mode # "replay"
  <2>1. records \o <<>> = records /\ <<>> \in Seq(Records)
    BY ConcatEmptySeq
  <2>2. QED
    BY <1>1, <2>1 DEF Taken, Left
<1>2. CASE mode = "replay"
  <2>1. 1 <= Len(records)
    BY EmptySeq
  <2>2. QED
    BY <1>2, <2>1, FirstAndRest DEF Taken, Left
<1>3. QED
  BY <1>1, <1>2

\* What a tick adds to what was seen is what it polls.
LEMMA TickAdds ==
  ASSUME LogTypes, TailInv, Tick, NoImageTwice
  PROVE  \E polled \in Poll : /\ Seen' = Seen \o polled
                             /\ taken' \in Seq(Records) /\ backlog' \in Seq(Records)
<1>1. /\ mode # "over" /\ taken \in Seq(Records) /\ backlog \in Seq(Records)
  BY DEF Tick, TailInv
<1>2. PICK polled \in Poll :
        IF backlog \o polled = <<>> THEN UNCHANGED <<taken, backlog>>
        ELSE taken' = taken \o Taken(backlog \o polled) /\ backlog' = Left(backlog \o polled)
  BY DEF Tick
<1> DEFINE records == backlog \o polled
<1>3. polled \in Seq(Records)
  BY PollFacts
<1>4. records \in Seq(Records)
  BY <1>1, <1>3, ConcatProperties
<1>5. Seen \o polled = taken \o records
  BY <1>1, <1>3, ConcatAssociative DEF Seen
<1>6. CASE records = <<>>
  <2>1. Seen' = Seen /\ UNCHANGED <<taken, backlog>>
    BY <1>2, <1>6 DEF Seen
  <2>2. polled = <<>>
    <3>1. Len(backlog) \in Nat /\ Len(polled) \in Nat /\ Len(records) = Len(backlog) + Len(polled) /\ Len(records) = 0
      BY <1>1, <1>3, <1>6, ConcatProperties
    <3>2. Len(polled) = 0
      BY <3>1
    <3>3. QED
      BY <1>3, <3>2, EmptySeq
  <2>3. Seen \in Seq(Records)
    BY <1>1, ConcatProperties DEF Seen
  <2>4. QED
    BY <1>1, <2>1, <2>2, <2>3, ConcatEmptySeq
<1>7. CASE records # <<>>
  <2>1. taken' = taken \o Taken(records) /\ backlog' = Left(records)
    BY <1>2, <1>7
  <2> HIDE DEF records
  <2>2. /\ Taken(records) \in Seq(Records) /\ Left(records) \in Seq(Records)
        /\ Taken(records) \o Left(records) = records
    BY <1>4, <1>7, TakenAndLeft
  <2>3. (taken \o Taken(records)) \o Left(records) = taken \o records
    <3>1. PICK x \in Seq(Records), y \in Seq(Records) :
            x = Taken(records) /\ y = Left(records) /\ x \o y = records
      BY <2>2
    <3>2. (taken \o x) \o y = taken \o (x \o y)
      BY <1>1, ConcatAssociative
    <3>3. QED
      BY <3>1, <3>2
  <2>4. taken' \in Seq(Records) /\ backlog' \in Seq(Records)
    BY <1>1, <2>1, <2>2, ConcatProperties
  <2>5. Seen' = Seen \o polled
    BY <1>5, <2>1, <2>3 DEF Seen
  <2>6. QED
    BY <2>4, <2>5
<1>8. QED
  BY <1>6, <1>7

\* A tick reads each line that ended since the last one, and none again.
LEMMA TickTail ==
  ASSUME LogTypes, TailInv, NoImageTwice, Tick
  PROVE  TailInv'
<1>1. /\ mode # "over" /\ mode' = mode /\ pos' = ReadTo /\ file' = file
  BY DEF Tick, vars
<1>2. PICK polled \in Poll : /\ Seen' = Seen \o polled
                             /\ taken' \in Seq(Records) /\ backlog' \in Seq(Records)
  BY TickAdds
<1>3. /\ Seen \in Seq(Records) /\ Len(Seen) \in Nat
  <2>1. taken \in Seq(Records) /\ backlog \in Seq(Records)
    BY <1>1 DEF TailInv
  <2>2. QED
    BY <2>1, ConcatProperties DEF Seen
<1>4. /\ \A n \in 1 .. Len(Seen) : \E k \in LinesIn(file) : k <= pos /\ file[k].rec = Seen[n]
      /\ \A k \in LinesIn(file) : k <= pos => \E n \in 1 .. Len(Seen) : file[k].rec = Seen[n]
      /\ \A m, n \in 1 .. Len(Seen) : Seen[m] = Seen[n] => m = n
  BY <1>1 DEF TailInv
<1>5. /\ polled \in Seq(Records) /\ Len(polled) \in Nat
      /\ \A n \in 1 .. Len(polled) : \E k \in LinesRead : file[k].rec = polled[n]
      /\ \A k \in LinesRead : \E n \in 1 .. Len(polled) : file[k].rec = polled[n]
      /\ \A m, n \in 1 .. Len(polled) : polled[m] = polled[n] => m = n
  BY PollFacts
<1>6. /\ LinesRead = {k \in LinesIn(file) : pos < k /\ k <= ReadTo}
      /\ pos \in Nat /\ ReadTo \in Nat /\ pos <= ReadTo
      /\ \A k \in LinesIn(file) : k \in Int
  <2>1. file \in Seq(Pieces) /\ Len(file) \in Nat /\ pos \in 0 .. Len(file)
    BY DEF LogTypes, TailInv
  <2>2. QED
    BY <2>1, ReadToFacts, WholeLines DEF LinesRead
<1> DEFINE longer == Seen \o polled
           a == Len(Seen)
           b == Len(polled)
<1>7. /\ longer \in Seq(Records) /\ Len(longer) = a + b
      /\ \A n \in 1 .. a : longer[n] = Seen[n]
      /\ \A n \in 1 .. b : longer[a + n] = polled[n]
  <2>1. /\ longer \in Seq(Records) /\ Len(longer) = a + b
        /\ \A n \in 1 .. (a + b) : longer[n] = IF n <= a THEN Seen[n] ELSE polled[n - a]
    BY <1>3, <1>5, ConcatProperties
  <2> HIDE DEF longer, a, b
  <2>2. a \in Nat /\ b \in Nat
    BY <1>3, <1>5 DEF a, b
  <2>3. ASSUME NEW n \in 1 .. b
        PROVE  longer[a + n] = polled[n]
    <3>1. a + n \in 1 .. (a + b) /\ ~ (a + n <= a) /\ (a + n) - a = n
      BY <2>2, <2>3
    <3>2. QED
      BY <2>1, <3>1
  <2>4. ASSUME NEW n \in 1 .. a
        PROVE  longer[n] = Seen[n]
    BY <2>1, <2>2, <2>4
  <2>5. QED
    BY <2>1, <2>3, <2>4
<1> HIDE DEF longer
<1>8. ASSUME NEW n \in 1 .. (a + b)
      PROVE  n \in 1 .. a \/ \E m \in 1 .. b : n = a + m
  <2> HIDE DEF a, b
  <2>1. a \in Nat /\ b \in Nat
    BY <1>3, <1>5 DEF a, b
  <2>2. CASE n > a
    <3>1. n - a \in 1 .. b /\ n = a + (n - a)
      BY <1>8, <2>1, <2>2
    <3>2. QED
      BY <3>1
  <2>3. QED
    BY <1>8, <2>1, <2>2
<1>9. ASSUME NEW n \in 1 .. (a + b)
      PROVE  \E k \in LinesIn(file) : k <= ReadTo /\ file[k].rec = longer[n]
  <2>1. CASE n \in 1 .. a
    <3>1. PICK k \in LinesIn(file) : k <= pos /\ file[k].rec = longer[n]
      BY <1>4, <1>7, <2>1
    <3>2. k <= ReadTo
      BY <1>6, <3>1
    <3>3. QED
      BY <3>1, <3>2
  <2>2. ASSUME NEW m \in 1 .. b, n = a + m
        PROVE  \E k \in LinesIn(file) : k <= ReadTo /\ file[k].rec = longer[n]
    BY <1>5, <1>6, <1>7, <2>2
  <2>3. QED
    BY <1>8, <1>9, <2>1, <2>2
<1>10. ASSUME NEW k \in LinesIn(file), k <= ReadTo
       PROVE  \E n \in 1 .. (a + b) : file[k].rec = longer[n]
  <2>1. CASE k <= pos
    <3>1. PICK n \in 1 .. a : file[k].rec = Seen[n]
      BY <1>4, <1>10, <2>1
    <3>2. n \in 1 .. (a + b)
      BY <1>3, <1>5
    <3>3. QED
      BY <1>7, <3>1, <3>2
  <2>2. CASE ~ (k <= pos)
    <3>1. k \in LinesRead
      BY <1>6, <1>10, <2>2
    <3>2. PICK n \in 1 .. b : file[k].rec = polled[n]
      BY <1>5, <3>1
    <3>3. a + n \in 1 .. (a + b)
      BY <1>3, <1>5
    <3>4. QED
      BY <1>7, <3>2, <3>3
  <2>3. QED
    BY <2>1, <2>2
<1>11. ASSUME NEW m \in 1 .. a, NEW n \in 1 .. b
       PROVE  longer[m] # longer[a + n]
  <2>1. PICK k \in LinesIn(file) : k <= pos /\ file[k].rec = longer[m]
    BY <1>4, <1>7
  <2>2. PICK l \in LinesRead : file[l].rec = longer[a + n]
    BY <1>5, <1>7
  <2>3. l \in LinesIn(file) /\ k # l
    BY <1>6, <2>1, <2>2
  <2>4. file[k].rec.i # file[l].rec.i
    BY <2>3 DEF NoImageTwice
  <2>5. QED
    BY <2>1, <2>2, <2>4
<1>12. ASSUME NEW m \in 1 .. (a + b), NEW n \in 1 .. (a + b), longer[m] = longer[n]
       PROVE  m = n
  <2>1. CASE m \in 1 .. a /\ n \in 1 .. a
    BY <1>4, <1>7, <1>12, <2>1
  <2>2. ASSUME NEW i \in 1 .. b, NEW j \in 1 .. b, m = a + i, n = a + j
        PROVE  m = n
    <3>1. polled[i] = polled[j]
      BY <1>7, <1>12, <2>2
    <3>2. QED
      BY <1>5, <2>2, <3>1
  <2>3. QED
    BY <1>8, <1>11, <1>12, <2>1, <2>2
<1>13. Len(longer) = a + b /\ Seen' = longer
  BY <1>2, <1>7 DEF longer
<1>14. /\ \A n \in 1 .. Len(Seen') : \E k \in LinesIn(file) : k <= ReadTo /\ file[k].rec = Seen'[n]
       /\ \A k \in LinesIn(file) : k <= ReadTo => \E n \in 1 .. Len(Seen') : file[k].rec = Seen'[n]
       /\ \A m, n \in 1 .. Len(Seen') : Seen'[m] = Seen'[n] => m = n
  BY <1>9, <1>10, <1>12, <1>13
<1>15. (LinesIn(file))' = LinesIn(file)
  BY <1>1 DEF LinesIn, DecodesAt
<1>16. QED
  BY <1>1, <1>2, <1>14, <1>15, ReadToFacts DEF TailInv

\* The campaign writes behind what the viewer has read, or not at all.
LEMMA CampaignTail ==
  ASSUME LogTypes, TailInv, Next, UNCHANGED viewer
  PROVE  TailInv'
<1>1. /\ mode' = mode /\ pos' = pos /\ Seen' = Seen /\ taken' = taken /\ backlog' = backlog
  BY DEF viewer, Seen
<1>2. /\ file \in Seq(Pieces) /\ Len(file) \in Nat /\ pos \in 0 .. Len(file)
      /\ pos # 0 => file[pos].half = "newline"
  BY DEF LogTypes, TailInv
<1>3. /\ file' \in Seq(Pieces) /\ Len(file') \in Nat /\ Len(file) <= Len(file')
      /\ \A n \in 1 .. Len(file) : file'[n] = file[n]
  BY FileGrows
<1>4. (LinesIn(file))' = LinesIn(file')
  BY DEF LinesIn, DecodesAt
<1>5. /\ \A k \in LinesIn(file) : k \in 1 .. Len(file)
      /\ \A k \in LinesIn(file') : k \in 1 .. Len(file')
  BY <1>2, <1>3, WholeLines
<1>6. ASSUME NEW k \in Int, k <= pos
      PROVE  k \in LinesIn(file) <=> k \in LinesIn(file')
  BY <1>2, <1>3, <1>6, LinesStay
<1>7. ASSUME NEW k \in LinesIn(file), k <= pos
      PROVE  k \in LinesIn(file') /\ file'[k] = file[k]
  BY <1>2, <1>3, <1>5, <1>6, <1>7
<1>8. ASSUME NEW k \in LinesIn(file'), k <= pos
      PROVE  k \in LinesIn(file) /\ file'[k] = file[k]
  <2>1. k \in LinesIn(file)
    BY <1>3, <1>5, <1>6, <1>8
  <2>2. QED
    BY <1>7, <1>8, <2>1
<1>9. pos \in 0 .. Len(file') /\ (pos # 0 => file'[pos].half = "newline")
  <2>1. pos # 0 => pos \in 1 .. Len(file)
    BY <1>2
  <2>2. QED
    BY <1>2, <1>3, <2>1
<1>10. ASSUME mode # "over"
       PROVE  /\ taken \in Seq(Records) /\ backlog \in Seq(Records)
              /\ \A n \in 1 .. Len(Seen) : \E k \in LinesIn(file') : k <= pos /\ file'[k].rec = Seen[n]
              /\ \A k \in LinesIn(file') : k <= pos => \E n \in 1 .. Len(Seen) : file'[k].rec = Seen[n]
              /\ \A m, n \in 1 .. Len(Seen) : Seen[m] = Seen[n] => m = n
  <2>1. /\ taken \in Seq(Records) /\ backlog \in Seq(Records)
        /\ \A n \in 1 .. Len(Seen) : \E k \in LinesIn(file) : k <= pos /\ file[k].rec = Seen[n]
        /\ \A k \in LinesIn(file) : k <= pos => \E n \in 1 .. Len(Seen) : file[k].rec = Seen[n]
        /\ \A m, n \in 1 .. Len(Seen) : Seen[m] = Seen[n] => m = n
    BY <1>10 DEF TailInv
  <2>2. ASSUME NEW n \in 1 .. Len(Seen)
        PROVE  \E k \in LinesIn(file') : k <= pos /\ file'[k].rec = Seen[n]
    <3>1. PICK k \in LinesIn(file) : k <= pos /\ file[k].rec = Seen[n]
      BY <2>1
    <3>2. k \in LinesIn(file') /\ file'[k] = file[k]
      BY <1>7, <3>1
    <3>3. QED
      BY <3>1, <3>2
  <2>3. ASSUME NEW k \in LinesIn(file'), k <= pos
        PROVE  \E n \in 1 .. Len(Seen) : file'[k].rec = Seen[n]
    BY <1>8, <2>1, <2>3
  <2>4. QED
    BY <2>1, <2>2, <2>3
<1>11. QED
  BY <1>1, <1>4, <1>9, <1>10 DEF TailInv

\* Every step of the viewer and of the campaign keeps all of it.
LEMMA NextTail ==
  LogTypes /\ OnceInv /\ TailInv /\ [ViewerNext]_lvars => LogTypes' /\ OnceInv' /\ TailInv'
<1> SUFFICES ASSUME LogTypes, OnceInv, TailInv, [ViewerNext]_lvars
             PROVE  LogTypes' /\ OnceInv' /\ TailInv'
  OBVIOUS
<1>1. [Next]_vars
  BY DEF ViewerNext, CampaignStep, Tick, Smoke, lvars
<1>2. LogTypes' /\ OnceInv'
  BY <1>1, NextTypes, NextOnce
<1>3. TailInv'
  <2>1. CASE CampaignStep
    BY <2>1, CampaignTail DEF CampaignStep
  <2>2. CASE Tick
    BY <2>2, OnceInFile, TickTail
  <2>3. CASE Smoke
    <3>1. mode' = "over" /\ pos' = ReadTo /\ file' = file
      BY <2>3 DEF Smoke, vars
    <3>2. QED
      BY <3>1, ReadToFacts DEF TailInv
  <2>4. CASE UNCHANGED lvars
    <3>1. /\ file' = file /\ mode' = mode /\ pos' = pos /\ taken' = taken /\ backlog' = backlog
          /\ Seen' = Seen /\ (LinesIn(file))' = LinesIn(file)
      BY <2>4 DEF lvars, vars, viewer, Seen, LinesIn, DecodesAt
    <3>2. QED
      BY <3>1 DEF TailInv
  <2>5. QED
    BY <2>1, <2>2, <2>3, <2>4 DEF ViewerNext
<1>4. QED
  BY <1>2, <1>3

\* Nothing is read at the start of a file that is empty.
LEMMA InitTail == ViewerInit => LogTypes /\ OnceInv /\ TailInv
<1> SUFFICES ASSUME ViewerInit
             PROVE  LogTypes /\ OnceInv /\ TailInv
  OBVIOUS
<1>1. LogTypes /\ OnceInv
  BY InitTypes, InitLog DEF ViewerInit
<1>2. pos = 0 /\ taken = <<>> /\ backlog = <<>>
  BY DEF ViewerInit
<1>3. file \in Seq(Pieces) /\ Len(file) \in Nat
  BY <1>1 DEF LogTypes
<1>4. \A k \in LinesIn(file) : ~ (k <= 0)
  BY <1>3, WholeLines
<1>5. <<>> \in Seq(Records) /\ Len(Seen) = 0
  BY <1>2, ConcatEmptySeq DEF Seen
<1>6. QED
  BY <1>1, <1>2, <1>3, <1>4, <1>5 DEF TailInv

\* However the results file grows, is cut by a kill and grows on behind a torn line, what
\* the live viewer has counted or keeps to count is what the file decodes to up to where
\* it has read: no record twice, none half read, none skipped (RecordSource.poll).
THEOREM ViewerFollows == ViewerSpec => []ViewerFollowsTheLog
<1>1. LogTypes /\ TailInv => ViewerFollowsTheLog
  <2> SUFFICES ASSUME LogTypes, TailInv, mode # "over"
               PROVE  /\ ToSet(Seen) = {file[k].rec : k \in {l \in LinesIn(file) : l <= pos}}
                      /\ Len(Seen) = Cardinality(ToSet(Seen))
    BY DEF ViewerFollowsTheLog, Seen
  <2>1. /\ taken \in Seq(Records) /\ backlog \in Seq(Records)
        /\ \A n \in 1 .. Len(Seen) : \E k \in LinesIn(file) : k <= pos /\ file[k].rec = Seen[n]
        /\ \A k \in LinesIn(file) : k <= pos => \E n \in 1 .. Len(Seen) : file[k].rec = Seen[n]
        /\ \A m, n \in 1 .. Len(Seen) : Seen[m] = Seen[n] => m = n
    BY DEF TailInv
  <2>2. Seen \in Seq(Records) /\ Len(Seen) \in Nat /\ DOMAIN Seen = 1 .. Len(Seen)
    <3>1. Seen \in Seq(Records)
      BY <2>1, ConcatProperties DEF Seen
    <3>2. QED
      BY <3>1
  <2>3. ToSet(Seen) = {Seen[n] : n \in 1 .. Len(Seen)}
    BY <2>2 DEF ToSet
  <2> DEFINE count == [n \in 1 .. Len(Seen) |-> Seen[n]]
  <2>4. count \in Bijection(1 .. Len(Seen), ToSet(Seen))
    BY <2>1, <2>3 DEF Bijection, Injection, Surjection, IsInjective
  <2>5. Cardinality(ToSet(Seen)) = Len(Seen)
    <3>1. ExistsBijection(1 .. Len(Seen), ToSet(Seen))
      BY <2>4 DEF ExistsBijection
    <3>2. QED
      BY <2>2, <3>1, FS_CountingElements
  <2>6. ToSet(Seen) = {file[k].rec : k \in {l \in LinesIn(file) : l <= pos}}
    BY <2>1, <2>3
  <2>7. QED
    BY <2>5, <2>6
<1>2. QED
  BY <1>1, InitTail, NextTail, PTL DEF ViewerSpec

================================================================================
