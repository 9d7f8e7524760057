----------------------------- MODULE ReplayProofs -----------------------------
(***************************************************************************)
(* Proofs about the replay datapath: for every shape of the records, burst *)
(* length and depth of engine and label FIFO, the engine gets the words    *)
(* and the labels of the records in order.  The first part is about the    *)
(* two buffers, the last about the cut-through FIFO.                       *)
(***************************************************************************)
EXTENDS MCReplay, SequenceTheorems, TLAPS

\* The base lies in the memory; there are records, and their number is a 32-bit one.
Geometry == \A c \in Configs : c.base < AddrMod /\ c.n \in 1 .. CountMod - 1

\* The labels of the engine's records and of two buffered ones fit.
LabelRoom == LabelDepth >= EngineDepth + 2

\* Word k of record r, and the record behind r, of a setting.
Addr(c, r, k) == (c.base + r * c.stride + k) % AddrMod
Succ(c, r) == IF r + 1 = c.n THEN 0 ELSE r + 1

Fetching == st \in {"REQ", "RECV", "NEXTR"}
Starting == "start" \in pulses

\* The record that is fetched, or will be next.
Upcoming == IF st \in {"IDLE", "FINISH"} THEN 0 ELSE recIdx

FramerTypes ==
  /\ conf \in Configs
  /\ st \in {"IDLE", "REC", "REQ", "RECV", "NEXTR", "FINISH"}
  /\ recIdx \in 0 .. conf.n - 1
  /\ curAddr \in Nat /\ wordIdx \in Nat /\ wordsLeft \in Nat /\ burstRem \in Nat
  /\ data \in Nat
  /\ av \in [read : BOOLEAN, address : Nat, count : Nat]
  /\ resp \in [next : Nat, left : Nat]

\* Where the framer is in the store, and what it owes the buffers this cycle.
PlaceInv ==
  /\ st = "REC" => curAddr = Addr(conf, recIdx, 0)
  /\ st \in {"REQ", "RECV"} =>
       /\ curAddr = Addr(conf, recIdx, wordIdx)
       /\ wordIdx + wordsLeft = conf.stride /\ wordsLeft > 0
  /\ st = "NEXTR" => curAddr = Addr(conf, recIdx, conf.stride) /\ wordIdx = conf.stride
  /\ av.read => st = "REQ" /\ av.address = curAddr /\ av.count = ThisBurst
  /\ st = "RECV" =>
       /\ burstRem > 0 /\ burstRem <= wordsLeft
       /\ resp.next = curAddr /\ resp.left = burstRem

PulseInv ==
  /\ ~Fetching => pulses = {}
  /\ Starting => st = "REQ" /\ wordIdx = 0 /\ "we" \notin pulses /\ "push" \notin pulses
  /\ "commit" \in pulses <=> st = "NEXTR"
  /\ "we" \in pulses =>
       wordIdx > 0 /\ wordIdx <= conf.nwords /\ data = Addr(conf, recIdx, wordIdx - 1)
  /\ "push" \in pulses => wordIdx = conf.nwords + 1 /\ data = Addr(conf, recIdx, conf.nwords)

FramerInv == FramerTypes /\ PlaceInv /\ PulseInv

BufferTypes ==
  /\ status \in [0 .. 1 -> {"EMPTY", "FILLING", "FULL", "DRAINING"}]
  /\ buf \in [0 .. 1 -> [0 .. BufWords - 1 -> Nat]]
  /\ fillSel \in 0 .. 1 /\ fillPtr \in Nat
  /\ drainSel \in 0 .. 1 /\ drainPtr \in 0 .. conf.nwords - 1
  /\ conf.nwords <= BufWords
  /\ want \in [rec : 0 .. conf.n - 1, idx : 0 .. conf.nwords - 1]

\* The first k words, all words of record r are in w.
HoldsTo(w, c, r, k) == \A i \in 0 .. k - 1 : w[i] = Addr(c, r, i)
Holds(w, c, r) == HoldsTo(w, c, r, c.nwords)

FillInv ==
  /\ Starting => FillReady
  /\ \A b \in 0 .. 1 : status[b] = "FILLING" <=> (b = fillSel /\ Fetching /\ ~Starting)
  /\ Fetching /\ ~Starting =>
       /\ fillPtr + (IF "we" \in pulses THEN 1 ELSE 0)
            = (IF wordIdx <= conf.nwords THEN wordIdx ELSE conf.nwords)
       /\ HoldsTo(buf[fillSel], conf, recIdx, fillPtr)

Complete(b) == status[b] \in {"FULL", "DRAINING"}

\* The complete buffers hold the records from the wanted one up to the upcoming one.
DrainInv ==
  /\ \A b \in 0 .. 1 : status[b] = "DRAINING" => b = drainSel
  /\ ~EngValid => want.idx = 0
  /\ EngValid => want.idx = drainPtr /\ Holds(buf[drainSel], conf, want.rec)
  /\ ~EngValid /\ IsStatus("FULL") # {} => ~Fetching
  /\ ~Complete(0) /\ ~Complete(1) => Upcoming = want.rec
  /\ \A b \in 0 .. 1 : Complete(b) /\ ~Complete(1 - b) =>
       Holds(buf[b], conf, want.rec) /\ Upcoming = Succ(conf, want.rec)
  /\ Complete(0) /\ Complete(1) =>
       /\ EngValid
       /\ Holds(buf[1 - drainSel], conf, Succ(conf, want.rec))
       /\ Upcoming = Succ(conf, Succ(conf, want.rec))

Held == (IF Complete(0) THEN 1 ELSE 0) + (IF Complete(1) THEN 1 ELSE 0)
Pushed == Fetching /\ wordIdx > conf.nwords /\ "push" \notin pulses

\* The labels when h complete records wait for the engine.
LabelsOf(h) ==
  /\ inEngine \in 0 .. EngineDepth /\ owed \in 0 .. conf.n - 1
  /\ lbl \in Seq(Nat) /\ ~lblOverflow
  /\ want.rec = (owed + inEngine) % conf.n
  /\ Len(lbl) = inEngine + h + (IF Pushed THEN 1 ELSE 0)
  /\ \A k \in 1 .. Len(lbl) : lbl[k] = Addr(conf, (owed + k - 1) % conf.n, conf.nwords)

LabelInv == LabelsOf(Held)

ReplayInv == FramerInv /\ BufferTypes /\ FillInv /\ DrainInv

-------------------------------------------------------------------------------
(* Addresses.                                                               *)

\* What a number has left over a multiple of m.
LEMMA ModUnique ==
  ASSUME NEW m \in Nat \ {0}, NEW a \in Nat, NEW q \in Nat, NEW r \in 0 .. m - 1,
         a = m * q + r
  PROVE  a % m = r
OBVIOUS

\* A number by its quotient and remainder.
LEMMA ModParts ==
  ASSUME NEW m \in Nat \ {0}, NEW a \in Nat
  PROVE  a \div m \in Nat /\ a % m \in 0 .. m - 1 /\ a = m * (a \div m) + (a % m)
OBVIOUS

\* The rectangle of r and s grows by a row.
LEMMA NextMultiple ==
  ASSUME NEW r \in Nat, NEW s \in Nat
  PROVE  r * s \in Nat /\ (r + 1) * s = r * s + s /\ s * (r + 1) = s * r + s
OBVIOUS

\* Counting on modulo m: from what is left, and past a whole m.
LEMMA ModSteps ==
  ASSUME NEW m \in Nat \ {0}, NEW a \in Nat
  PROVE  /\ (a + m) % m = a % m
         /\ ((a % m) + 1) % m = (a + 1) % m
         /\ (a + 1) % m = IF (a % m) + 1 = m THEN 0 ELSE (a % m) + 1
<1> DEFINE q == a \div m
           r == a % m
<1>1. a = m * q + r /\ q \in Nat /\ r \in 0 .. m - 1
  BY ModParts
<1> HIDE DEF q, r
<1>2. (a + m) % m = r
  <2>1. a + m = m * (q + 1) + r
    BY <1>1, NextMultiple
  <2>2. QED
    BY <1>1, <2>1, ModUnique
<1>3. (a + 1) % m = (IF r + 1 = m THEN 0 ELSE r + 1) /\ (r + 1) % m = (IF r + 1 = m THEN 0 ELSE r + 1)
  <2>1. CASE r + 1 < m
    <3>1. a + 1 = m * q + (r + 1) /\ r + 1 \in 0 .. m - 1
      BY <1>1, <2>1
    <3>2. (a + 1) % m = r + 1
      BY <1>1, <3>1, ModUnique
    <3>3. (r + 1) % m = r + 1
      BY <1>1, <2>1
    <3>4. QED
      BY <1>1, <2>1, <3>2, <3>3
  <2>2. CASE r + 1 = m
    <3>1. a + 1 = m * (q + 1) + 0
      BY <1>1, <2>2, NextMultiple
    <3>2. (a + 1) % m = 0
      BY <1>1, <3>1, ModUnique
    <3>3. (r + 1) % m = 0
      BY <1>1, <2>2
    <3>4. QED
      BY <2>2, <3>2, <3>3
  <2>3. QED
    BY <1>1, <2>1, <2>2
<1>4. QED
  BY <1>2, <1>3 DEF r

\* The words of the store lie one behind the other, from the base on.
LEMMA AddrFacts ==
  ASSUME Geometry, NEW c \in Configs, NEW r \in Nat, NEW k \in Nat
  PROVE  /\ Addr(c, r, k) \in Nat
         /\ Addr(c, r, k + 1) = (Addr(c, r, k) + 1) % AddrMod
         /\ Addr(c, r, c.stride) = Addr(c, r + 1, 0)
         /\ Addr(c, 0, 0) = c.base
<1> DEFINE b == c.base
           s == c.stride
           p == r * s
           a == b + p + k
<1>1. b \in Nat /\ s \in Nat /\ AddrMod \in Nat \ {0} /\ b < AddrMod
  BY FramerAssumption DEF Geometry
<1>2. p \in Nat /\ (r + 1) * s = p + s /\ 0 * s = 0
  <2> HIDE DEF s
  <2>1. QED
    BY <1>1, NextMultiple
<1>3. /\ Addr(c, r, k) = a % AddrMod /\ Addr(c, r, k + 1) = (b + p + (k + 1)) % AddrMod
      /\ Addr(c, r, c.stride) = (b + p + s) % AddrMod
      /\ Addr(c, r + 1, 0) = (b + (r + 1) * s + 0) % AddrMod
      /\ Addr(c, 0, 0) = (b + 0 * s + 0) % AddrMod
      /\ c.base = b
  BY DEF Addr
<1> HIDE DEF b, s, p
<1>4. a \in Nat /\ b + p + (k + 1) = a + 1
  BY <1>1, <1>2
<1> HIDE DEF a
<1>5. Addr(c, r, k) \in Nat
  <2>1. a % AddrMod \in Nat
    BY <1>1, <1>4
  <2>2. QED
    BY <1>3, <2>1
<1>6. Addr(c, r, k + 1) = (Addr(c, r, k) + 1) % AddrMod
  <2>1. (a + 1) % AddrMod = ((a % AddrMod) + 1) % AddrMod
    BY <1>1, <1>4, ModSteps
  <2>2. QED
    BY <1>3, <1>4, <2>1
<1>7. Addr(c, r, c.stride) = Addr(c, r + 1, 0)
  <2>1. b + (r + 1) * s + 0 = b + p + s
    BY <1>1, <1>2
  <2>2. QED
    BY <1>3, <2>1
<1>8. Addr(c, 0, 0) = c.base
  <2>1. b + 0 * s + 0 = b
    BY <1>1, <1>2
  <2>2. b % AddrMod = b
    BY <1>1
  <2>3. QED
    BY <1>3, <2>1, <2>2
<1>9. QED
  BY <1>5, <1>6, <1>7, <1>8

\* The settings and the record they are at.
LEMMA ConfFacts ==
  ASSUME Geometry, NEW c \in Configs
  PROVE  /\ c.base \in Nat /\ c.stride \in Nat /\ c.nwords \in Nat \ {0} /\ c.nwords < c.stride
         /\ c.n \in Nat \ {0} /\ c.n < CountMod /\ CountMod \in Nat \ {0} /\ MaxBurst \in Nat \ {0}
         /\ BufWords \in Nat
         /\ \A r \in 0 .. c.n - 1 :
              /\ Succ(c, r) \in 0 .. c.n - 1
              /\ (r + 1) % CountMod = r + 1
BY FramerAssumption, BufferAssumption DEF Geometry, Succ

-------------------------------------------------------------------------------
(* The framer.                                                              *)

\* What a cycle of the framer is to the buffers and the labels: nothing, the begin
\* of a record, a part of it, or its end.
FetchMoves ==
  /\ conf' = conf
  /\ \/ ~Fetching /\ ~Fetching' /\ pulses' = {} /\ Upcoming' = Upcoming
     \/ /\ st = "REC" /\ st' = "REQ" /\ Starting'
        /\ recIdx' = recIdx /\ wordIdx' = 0
     \/ /\ st \in {"REQ", "RECV"} /\ Fetching' /\ ~Starting' /\ recIdx' = recIdx
        /\ \/ wordIdx' = wordIdx /\ "we" \notin pulses' /\ "push" \notin pulses' /\ st' # "NEXTR"
           \/ /\ st = "RECV" /\ wordIdx' = wordIdx + 1
              /\ "we" \in pulses' <=> wordIdx < conf.nwords
              /\ "push" \in pulses' <=> wordIdx = conf.nwords
     \/ st = "NEXTR" /\ ~Fetching' /\ pulses' = {} /\ Upcoming' = Succ(conf, recIdx)

\* The same, with a buffer that is ready when a record begins.
FetchStep == FetchMoves /\ (st = "REC" /\ Starting' => FillReady)

\* The framer, whatever the buffer says.
AnyFramer ==
  \/ Idle \/ (\E ready \in BOOLEAN : Rec(ready)) \/ (\E room \in BOOLEAN : Req(room))
  \/ RecvWait \/ RecvWord \/ NextRec \/ Finish

\* A word arrives: it is the next one of the record.
LEMMA WordStep ==
  ASSUME Geometry, FramerInv, RecvWord
  PROVE  FramerInv' /\ FetchMoves
<1>1. /\ conf \in Configs /\ recIdx \in 0 .. conf.n - 1 /\ recIdx \in Nat
      /\ wordIdx \in Nat /\ wordsLeft \in Nat /\ burstRem \in Nat /\ curAddr \in Nat
      /\ resp \in [next : Nat, left : Nat] /\ av \in [read : BOOLEAN, address : Nat, count : Nat]
      /\ conf.nwords \in Nat \ {0} /\ conf.stride \in Nat /\ conf.nwords < conf.stride
      /\ AddrMod \in Nat \ {0} /\ conf.n \in Nat \ {0}
  BY ConfFacts, FramerAssumption DEF FramerInv, FramerTypes
<1>2. /\ st = "RECV" /\ resp.left > 0
      /\ data' = resp.next /\ wordIdx' = wordIdx + 1 /\ wordsLeft' = wordsLeft - 1
      /\ curAddr' = (curAddr + 1) % AddrMod /\ burstRem' = burstRem - 1
      /\ pulses' = Route(wordIdx) \cup IF LastOfRecord THEN {"commit"} ELSE {}
      /\ st' = IF LastOfRecord THEN "NEXTR" ELSE IF burstRem = 1 THEN "REQ" ELSE "RECV"
      /\ UNCHANGED <<conf, recIdx, errOverrun, av>>
  BY DEF RecvWord
<1>3. resp' = [next |-> (resp.next + 1) % AddrMod, left |-> resp.left - 1]
  BY DEF RecvWord
<1>4. /\ curAddr = Addr(conf, recIdx, wordIdx) /\ wordIdx + wordsLeft = conf.stride
      /\ wordsLeft > 0 /\ burstRem > 0 /\ burstRem <= wordsLeft
      /\ resp.next = curAddr /\ resp.left = burstRem /\ ~av.read
  BY <1>2 DEF FramerInv, PlaceInv
<1>5. /\ curAddr' \in Nat
      /\ curAddr' = Addr(conf, recIdx, wordIdx + 1)
  BY <1>1, <1>2, <1>4, AddrFacts
<1>6. resp' \in [next : Nat, left : Nat] /\ resp'.next = curAddr' /\ resp'.left = burstRem'
  <2>1. resp.left - 1 \in Nat
    BY <1>1, <1>2
  <2>2. (resp.next + 1) % AddrMod \in Nat
    BY <1>2, <1>4, <1>5
  <2>3. QED
    BY <1>2, <1>3, <1>4, <2>1, <2>2
<1>7. FramerTypes'
  BY <1>1, <1>2, <1>4, <1>5, <1>6 DEF FramerTypes
<1>8. LastOfRecord <=> wordsLeft = 1
  BY <1>1, <1>4 DEF LastOfRecord
<1>9. PlaceInv'
  <2>1. CASE wordsLeft = 1
    <3>1. st' = "NEXTR" /\ wordIdx + 1 = conf.stride
      BY <1>1, <1>2, <1>4, <1>8, <2>1
    <3>2. QED
      BY <1>2, <1>4, <1>5, <3>1 DEF PlaceInv
  <2>2. CASE wordsLeft # 1
    <3>1. /\ st' \in {"REQ", "RECV"} /\ (st' = "REQ" <=> burstRem = 1)
          /\ wordIdx' + wordsLeft' = conf.stride /\ wordsLeft' > 0
      BY <1>1, <1>2, <1>4, <1>8, <2>2
    <3>2. st' = "RECV" => burstRem' > 0 /\ burstRem' <= wordsLeft'
      BY <1>1, <1>2, <1>4, <3>1
    <3>3. QED
      BY <1>2, <1>4, <1>5, <1>6, <3>1, <3>2 DEF PlaceInv
  <2>3. QED
    BY <2>1, <2>2
<1>10. /\ "we" \in pulses' <=> wordIdx < conf.nwords
       /\ "push" \in pulses' <=> wordIdx = conf.nwords
       /\ "commit" \in pulses' <=> wordsLeft = 1
       /\ "start" \notin pulses'
  BY <1>1, <1>2, <1>8 DEF Route
<1>11. PulseInv'
  <2>1. data' = Addr(conf, recIdx, wordIdx) /\ wordIdx' - 1 = wordIdx
    BY <1>1, <1>2, <1>4
  <2>2. st' = "NEXTR" <=> wordsLeft = 1
    BY <1>2, <1>8
  <2>3. /\ Fetching' /\ ~Starting'
        /\ "we" \in pulses' =>
             wordIdx' > 0 /\ wordIdx' <= conf.nwords /\ data' = Addr(conf, recIdx, wordIdx' - 1)
        /\ "push" \in pulses' => wordIdx' = conf.nwords + 1 /\ data' = Addr(conf, recIdx, conf.nwords)
    BY <1>1, <1>2, <1>10, <2>1 DEF Fetching, Starting
  <2>4. QED
    BY <1>2, <1>10, <2>2, <2>3 DEF PulseInv
<1>12. FetchMoves
  <2>1. Fetching' /\ ~Starting'
    BY <1>2, <1>10 DEF Fetching, Starting
  <2>2. QED
    BY <1>2, <1>10, <2>1 DEF FetchMoves
<1>13. QED
  BY <1>7, <1>9, <1>11, <1>12 DEF FramerInv

\* The record is complete: the next one, the first one or none.
LEMMA NextRecStep ==
  ASSUME Geometry, FramerInv, NextRec
  PROVE  FramerInv' /\ FetchMoves
<1>1. /\ conf \in Configs /\ recIdx \in 0 .. conf.n - 1 /\ recIdx \in Nat
      /\ conf.n \in Nat \ {0} /\ conf.base \in Nat /\ conf.stride \in Nat
      /\ (recIdx + 1) % CountMod = recIdx + 1 /\ Succ(conf, recIdx) \in 0 .. conf.n - 1
      /\ curAddr \in Nat
  BY ConfFacts DEF FramerInv, FramerTypes
<1>2. /\ st = "NEXTR" /\ pulses' = {}
      /\ UNCHANGED <<conf, wordIdx, wordsLeft, burstRem, errOverrun, av, data, resp>>
  BY DEF NextRec
<1>3. IF recIdx + 1 = conf.n
      THEN IF conf.loop
           THEN recIdx' = 0 /\ curAddr' = conf.base /\ st' = "REC"
           ELSE st' = "FINISH" /\ UNCHANGED <<recIdx, curAddr>>
      ELSE recIdx' = recIdx + 1 /\ st' = "REC" /\ UNCHANGED curAddr
  BY <1>1 DEF NextRec
<1>4. curAddr = Addr(conf, recIdx, conf.stride) /\ ~av.read
  BY <1>2 DEF FramerInv, PlaceInv
<1>5. st' \in {"REC", "FINISH"} /\ recIdx' \in 0 .. conf.n - 1 /\ curAddr' \in Nat
  BY <1>1, <1>3
<1>6. st' = "REC" => curAddr' = Addr(conf, recIdx', 0) /\ recIdx' = Succ(conf, recIdx)
  BY <1>1, <1>3, <1>4, AddrFacts, ZenonT(60) DEF Succ
<1>7. FramerTypes'
  BY <1>2, <1>5 DEF FramerInv, FramerTypes
<1>8. PlaceInv'
  BY <1>2, <1>4, <1>5, <1>6 DEF PlaceInv
<1>9. PulseInv'
  BY <1>2, <1>5 DEF PulseInv, Fetching, Starting
<1>10. FetchMoves
  <2>1. st' = "FINISH" => Succ(conf, recIdx) = 0
    BY <1>3 DEF Succ
  <2>2. ~Fetching' /\ Upcoming' = Succ(conf, recIdx)
    BY <1>5, <1>6, <2>1 DEF Fetching, Upcoming
  <2>3. QED
    BY <1>2, <2>2 DEF FetchMoves
<1>11. QED
  BY <1>7, <1>8, <1>9, <1>10 DEF FramerInv

\* The next burst is asked for, in one cycle or more.
LEMMA ReqStep ==
  ASSUME Geometry, FramerInv, NEW room \in BOOLEAN, Req(room)
  PROVE  FramerInv' /\ FetchMoves
<1>1. /\ conf \in Configs /\ wordsLeft \in Nat /\ curAddr \in Nat /\ wordIdx \in Nat
      /\ av \in [read : BOOLEAN, address : Nat, count : Nat]
      /\ MaxBurst \in Nat \ {0}
  BY FramerAssumption DEF FramerInv, FramerTypes
<1> DEFINE burst == ThisBurst
<1>2. /\ st = "REQ" /\ wordsLeft > 0
      /\ curAddr = Addr(conf, recIdx, wordIdx) /\ wordIdx + wordsLeft = conf.stride
      /\ av.read => av.address = curAddr /\ av.count = burst
  BY DEF FramerInv, PlaceInv, Req
<1>3. burst \in Nat /\ burst > 0 /\ burst <= wordsLeft
  BY <1>1, <1>2 DEF ThisBurst
<1> DEFINE command == [read |-> TRUE, address |-> curAddr, count |-> burst]
<1>4. /\ pulses' = {}
      /\ UNCHANGED <<conf, recIdx, curAddr, wordIdx, wordsLeft, errOverrun, data>>
      /\ \/ av' \in {command, av} /\ UNCHANGED <<st, burstRem, resp>>
         \/ /\ av.read /\ av' \in {[command EXCEPT !.read = FALSE], [av EXCEPT !.read = FALSE]}
            /\ burstRem' = burst /\ st' = "RECV"
            /\ resp' = [next |-> av.address, left |-> av.count]
  <2>1. CASE room
    BY <2>1 DEF Req
  <2>2. CASE ~room
    BY <2>2 DEF Req
  <2>3. QED
    BY <2>1, <2>2
<1>5. burst' = burst
  BY <1>4 DEF ThisBurst
<1>6. /\ av' \in [read : BOOLEAN, address : Nat, count : Nat]
      /\ av'.read => st' = "REQ" /\ av'.address = curAddr' /\ av'.count = burst
      /\ st' \in {"REQ", "RECV"}
      /\ burstRem' \in Nat /\ resp' \in [next : Nat, left : Nat]
      /\ st' = "RECV" => burstRem' = burst /\ resp'.next = curAddr' /\ resp'.left = burst
  <2> HIDE DEF burst
  <2>1. CASE av' \in {command, av} /\ UNCHANGED <<st, burstRem, resp>>
    <3>1. burstRem \in Nat /\ resp \in [next : Nat, left : Nat]
      BY DEF FramerInv, FramerTypes
    <3>2. /\ av' \in [read : BOOLEAN, address : Nat, count : Nat]
          /\ av'.read => av'.address = curAddr /\ av'.count = burst
      <4>1. CASE av' = command
        BY <1>1, <1>3, <4>1
      <4>2. CASE av' = av
        BY <1>1, <1>2, <4>2
      <4>3. QED
        BY <2>1, <4>1, <4>2
    <3>3. QED
      BY <1>2, <1>4, <2>1, <3>1, <3>2
  <2>2. CASE /\ av.read /\ av' \in {[command EXCEPT !.read = FALSE], [av EXCEPT !.read = FALSE]}
             /\ burstRem' = burst /\ st' = "RECV"
             /\ resp' = [next |-> av.address, left |-> av.count]
    <3>1. av' \in [read : BOOLEAN, address : Nat, count : Nat] /\ ~av'.read
      BY <1>1, <1>3, <2>2
    <3>2. QED
      BY <1>1, <1>2, <1>3, <1>4, <2>2, <3>1
  <2>3. QED
    BY <1>4, <2>1, <2>2
<1> HIDE DEF burst, command
<1>7. FramerTypes'
  <2>1. FramerTypes
    BY DEF FramerInv
  <2>2. QED
    BY <1>4, <1>6, <2>1 DEF FramerTypes
<1>8. PlaceInv'
  BY <1>2, <1>3, <1>4, <1>5, <1>6 DEF PlaceInv, burst
<1>9. PulseInv'
  BY <1>4, <1>6 DEF PulseInv, Fetching, Starting
<1>10. FetchMoves
  BY <1>2, <1>4, <1>6 DEF FetchMoves, Fetching, Starting
<1>11. QED
  BY <1>7, <1>8, <1>9, <1>10 DEF FramerInv

\* Every cycle of the framer.
LEMMA FramerMoves ==
  ASSUME Geometry, FramerInv, AnyFramer
  PROVE  FramerInv' /\ FetchMoves
<1>1. CASE Idle
  <2>1. /\ conf \in Configs /\ conf.n \in Nat \ {0} /\ conf.base \in Nat
    BY ConfFacts DEF FramerInv, FramerTypes
  <2>2. /\ st = "IDLE" /\ pulses' = {} /\ UNCHANGED <<conf, wordIdx, wordsLeft, burstRem, av, data, resp>>
        /\ \/ UNCHANGED <<st, recIdx, curAddr>>
           \/ recIdx' = 0 /\ curAddr' = conf.base /\ st' = "REC"
    BY <1>1 DEF Idle
  <2>3. FramerTypes'
    BY <2>1, <2>2 DEF FramerInv, FramerTypes
  <2>4. PlaceInv'
    <3>1. Addr(conf, 0, 0) = conf.base
      BY <2>1, AddrFacts
    <3>2. QED
      BY <2>2, <3>1 DEF FramerInv, PlaceInv
  <2>5. PulseInv' /\ FetchMoves
    BY <2>2 DEF PulseInv, FetchMoves, Fetching, Starting, Upcoming
  <2>6. QED
    BY <2>3, <2>4, <2>5 DEF FramerInv
<1>2. ASSUME NEW ready \in BOOLEAN, Rec(ready)
      PROVE  FramerInv' /\ FetchMoves
  <2>1. /\ st = "REC" /\ UNCHANGED <<conf, recIdx, curAddr, burstRem, errOverrun, av, data, resp>>
        /\ \/ pulses' = {"start", "issue"} /\ wordIdx' = 0 /\ wordsLeft' = conf.stride /\ st' = "REQ"
           \/ pulses' = {} /\ UNCHANGED <<wordIdx, wordsLeft, st>>
    BY <1>2 DEF Rec
  <2>2. /\ conf \in Configs /\ conf.stride \in Nat \ {0}
    BY FramerAssumption DEF FramerInv, FramerTypes
  <2>3. FramerTypes'
    BY <2>1, <2>2 DEF FramerInv, FramerTypes
  <2>4. PlaceInv'
    BY <2>1, <2>2 DEF FramerInv, PlaceInv
  <2>5. PulseInv' /\ FetchMoves
    BY <2>1 DEF PulseInv, FetchMoves, Fetching, Starting, Upcoming
  <2>6. QED
    BY <2>3, <2>4, <2>5 DEF FramerInv
<1>3. CASE RecvWait
  <2>1. /\ st = "RECV" /\ pulses' = {}
        /\ UNCHANGED <<conf, st, recIdx, curAddr, wordIdx, wordsLeft, burstRem, av, data, resp>>
    BY <1>3 DEF RecvWait
  <2>2. FramerTypes'
    BY <2>1 DEF FramerInv, FramerTypes
  <2>3. PlaceInv'
    BY <2>1 DEF FramerInv, PlaceInv, ThisBurst
  <2>4. PulseInv' /\ FetchMoves
    BY <2>1 DEF PulseInv, FetchMoves, Fetching, Starting
  <2>5. QED
    BY <2>2, <2>3, <2>4 DEF FramerInv
<1>4. CASE Finish
  <2>1. /\ st = "FINISH" /\ pulses' = {} /\ st' \in {"FINISH", "IDLE"}
        /\ UNCHANGED <<conf, recIdx, curAddr, wordIdx, wordsLeft, burstRem, av, data, resp>>
    BY <1>4 DEF Finish
  <2>2. FramerTypes'
    BY <2>1 DEF FramerInv, FramerTypes
  <2>3. PlaceInv'
    BY <2>1 DEF FramerInv, PlaceInv
  <2>4. PulseInv' /\ FetchMoves
    BY <2>1 DEF PulseInv, FetchMoves, Fetching, Starting, Upcoming
  <2>5. QED
    BY <2>2, <2>3, <2>4 DEF FramerInv
<1>5. QED
  BY <1>1, <1>2, <1>3, <1>4, WordStep, NextRecStep, ReqStep DEF AnyFramer

\* With the two buffers.
LEMMA FramerStep ==
  ASSUME Geometry, FramerInv, Framer(FillReady, TRUE)
  PROVE  FramerInv' /\ FetchStep
<1>1. Rec(FillReady) => \E ready \in BOOLEAN : Rec(ready)
  <2>1. CASE FillReady
    <3>1. Rec(FillReady) => Rec(TRUE)
      BY <2>1 DEF Rec
    <3>2. QED
      BY <3>1
  <2>2. CASE ~FillReady
    <3>1. Rec(FillReady) => Rec(FALSE)
      BY <2>2 DEF Rec
    <3>2. QED
      BY <3>1
  <2>3. QED
    BY <2>1, <2>2
<1>2. AnyFramer
  BY <1>1 DEF Framer, AnyFramer
<1>3. FramerInv' /\ FetchMoves
  BY <1>2, FramerMoves
<1>4. st = "REC" /\ Starting' => FillReady
  BY DEF Framer, Idle, Rec, Req, RecvWait, RecvWord, NextRec, Finish, Starting
<1>5. QED
  BY <1>3, <1>4 DEF FetchStep

-------------------------------------------------------------------------------
(* The buffers.                                                             *)

BufInv == BufferTypes /\ FillInv /\ DrainInv

\* The first buffer of a status has it.
LEMMA FirstIn ==
  ASSUME NEW S \in SUBSET (0 .. 1), S # {}
  PROVE  First(S) \in S
<1>1. \A x \in S : x = 0 \/ x = 1
  OBVIOUS
<1>2. QED
  BY <1>1 DEF First

\* Only the buffer that is filled is written.
LEMMA FillKeeps ==
  ASSUME FramerInv, BufInv, Fill
  PROVE  /\ "we" \in pulses => Fetching /\ ~Starting
         /\ \A b \in 0 .. 1 : Complete(b) => buf'[b] = buf[b]
<1>1. "we" \in pulses => Fetching /\ ~Starting
  BY DEF FramerInv, PulseInv
<1>2. \A b \in 0 .. 1 : "we" \in pulses /\ Complete(b) => b # fillSel
  BY <1>1 DEF BufInv, FillInv, Complete
<1>3. buf' = IF "we" \in pulses THEN [buf EXCEPT ![fillSel][fillPtr] = data] ELSE buf
  BY DEF Fill
<1>4. buf \in [0 .. 1 -> [0 .. BufWords - 1 -> Nat]] /\ fillSel \in 0 .. 1
  BY DEF BufInv, BufferTypes
<1>5. QED
  BY <1>1, <1>2, <1>3, <1>4

\* What the framer's pulses make of the buffers.
LEMMA FilledFacts ==
  ASSUME Geometry, FramerInv, BufInv, FetchStep, Fill
  PROVE  /\ Filled \in [0 .. 1 -> {"EMPTY", "FILLING", "FULL", "DRAINING"}]
         /\ fillSel' \in 0 .. 1
         /\ \A b \in 0 .. 1 : Filled[b] = "FILLING" <=> (b = fillSel' /\ Fetching' /\ ~Starting')
         /\ \A b \in 0 .. 1 : Complete(b) => Filled[b] = status[b]
         /\ \A b \in 0 .. 1 : Filled[b] = "DRAINING" <=> status[b] = "DRAINING"
         /\ \A b \in 0 .. 1 : Filled[b] = "FULL" /\ ~Complete(b) <=> b = fillSel /\ st = "NEXTR"
         /\ st = "NEXTR" => ~Complete(fillSel) /\ Filled[fillSel] = "FULL"
         /\ Starting' => Filled = status
<1>1. /\ status \in [0 .. 1 -> {"EMPTY", "FILLING", "FULL", "DRAINING"}] /\ fillSel \in 0 .. 1
      /\ Starting => FillReady
      /\ \A b \in 0 .. 1 : status[b] = "FILLING" <=> (b = fillSel /\ Fetching /\ ~Starting)
  BY DEF BufInv, BufferTypes, FillInv
<1>2. /\ ~Fetching => pulses = {}
      /\ Starting => st = "REQ"
      /\ "commit" \in pulses <=> st = "NEXTR"
  BY DEF FramerInv, PulseInv
<1>3. /\ fillSel' = IF Starting /\ FillReady THEN First(IsStatus("EMPTY")) ELSE fillSel
      /\ Filled = [b \in 0 .. 1 |-> IF st = "NEXTR" /\ b = fillSel THEN "FULL"
                                    ELSE IF Starting /\ FillReady /\ b = First(IsStatus("EMPTY")) THEN "FILLING"
                                    ELSE status[b]]
  BY <1>2 DEF Fill, Filled, Starting
<1>4. Starting => First(IsStatus("EMPTY")) \in 0 .. 1 /\ status[First(IsStatus("EMPTY"))] = "EMPTY"
  <2>1. IsStatus("EMPTY") \in SUBSET (0 .. 1) /\ \A b \in IsStatus("EMPTY") : status[b] = "EMPTY"
    BY DEF IsStatus
  <2>2. QED
    BY <1>1, <2>1, FirstIn DEF FillReady
<1> DEFINE e == First(IsStatus("EMPTY"))
<1> HIDE DEF e
<1>5. CASE Starting
  <2>1. /\ fillSel' = e /\ e \in 0 .. 1 /\ status[e] = "EMPTY" /\ Fetching' /\ ~Starting' /\ st = "REQ"
    BY <1>1, <1>2, <1>3, <1>4, <1>5 DEF FetchStep, FetchMoves, Fetching, e
  <2>2. Filled = [b \in 0 .. 1 |-> IF b = e THEN "FILLING" ELSE status[b]]
    BY <1>1, <1>3, <1>5, <2>1 DEF e
  <2>3. \A b \in 0 .. 1 : status[b] # "FILLING"
    BY <1>1, <1>5
  <2>4. QED
    BY <1>1, <2>1, <2>2, <2>3 DEF Complete
<1>6. CASE ~Starting /\ st = "NEXTR"
  <2>1. /\ fillSel' = fillSel /\ Fetching /\ ~Fetching' /\ status[fillSel] = "FILLING" /\ ~Starting'
    BY <1>1, <1>3, <1>6 DEF FetchStep, FetchMoves, Fetching, Starting
  <2>2. Filled = [b \in 0 .. 1 |-> IF b = fillSel THEN "FULL" ELSE status[b]]
    BY <1>1, <1>3, <1>6, <2>1
  <2>3. QED
    BY <1>1, <1>6, <2>1, <2>2 DEF Complete
<1>7. CASE ~Starting /\ st # "NEXTR"
  <2>1. fillSel' = fillSel /\ Filled = status
    BY <1>1, <1>3, <1>7
  <2>2. Fetching /\ ~Starting <=> Fetching' /\ ~Starting'
    BY <1>7 DEF FetchStep, FetchMoves, Fetching, Starting
  <2>3. QED
    BY <1>1, <1>7, <2>1, <2>2 DEF Complete
<1>8. QED
  BY <1>5, <1>6, <1>7

\* The words of the record that is fetched, in the buffer after this cycle.
LEMMA FillStep ==
  ASSUME Geometry, FramerInv, FramerInv', BufInv, FetchStep, Fill
  PROVE  /\ buf' \in [0 .. 1 -> [0 .. BufWords - 1 -> Nat]] /\ fillPtr' \in Nat
         /\ Fetching' /\ ~Starting' =>
              /\ fillPtr' + (IF "we" \in pulses' THEN 1 ELSE 0)
                   = (IF wordIdx' <= conf.nwords THEN wordIdx' ELSE conf.nwords)
              /\ HoldsTo(buf'[fillSel'], conf, recIdx', fillPtr')
         /\ st = "NEXTR" => Holds(buf'[fillSel], conf, recIdx)
<1>1. /\ conf \in Configs /\ conf' = conf /\ recIdx \in Nat /\ wordIdx \in Nat /\ data \in Nat
      /\ conf.nwords \in Nat \ {0} /\ conf.stride \in Nat /\ conf.nwords < conf.stride
      /\ conf.nwords <= BufWords /\ BufWords \in Nat
  <2>1. conf.nwords <= BufWords
    BY DEF BufInv, BufferTypes
  <2>2. QED
    BY <2>1, ConfFacts DEF FramerInv, FramerTypes, FetchStep, FetchMoves
<1>2. /\ buf \in [0 .. 1 -> [0 .. BufWords - 1 -> Nat]] /\ fillSel \in 0 .. 1 /\ fillPtr \in Nat
      /\ Fetching /\ ~Starting =>
           /\ fillPtr + (IF "we" \in pulses THEN 1 ELSE 0)
                = (IF wordIdx <= conf.nwords THEN wordIdx ELSE conf.nwords)
           /\ \A i \in 0 .. fillPtr - 1 : buf[fillSel][i] = Addr(conf, recIdx, i)
  BY DEF BufInv, BufferTypes, FillInv, HoldsTo
<1>3. /\ "we" \in pulses =>
           /\ Fetching /\ ~Starting
           /\ wordIdx > 0 /\ wordIdx <= conf.nwords /\ data = Addr(conf, recIdx, wordIdx - 1)
      /\ Starting => st = "REQ" /\ wordIdx = 0
  BY DEF FramerInv, PulseInv
<1>4. /\ fillSel' = IF Starting /\ FillReady THEN First(IsStatus("EMPTY")) ELSE fillSel
      /\ fillPtr' = IF "we" \in pulses THEN fillPtr + 1
                    ELSE IF Starting /\ FillReady THEN 0 ELSE fillPtr
      /\ buf' = IF "we" \in pulses THEN [buf EXCEPT ![fillSel][fillPtr] = data] ELSE buf
  BY DEF Fill, Starting
<1>5. "we" \in pulses => fillPtr = wordIdx - 1 /\ fillPtr \in 0 .. BufWords - 1
  BY <1>1, <1>2, <1>3
<1>6. buf' \in [0 .. 1 -> [0 .. BufWords - 1 -> Nat]] /\ fillPtr' \in Nat
  <2>1. CASE "we" \in pulses
    <3>1. [buf[fillSel] EXCEPT ![fillPtr] = data] \in [0 .. BufWords - 1 -> Nat]
      BY <1>1, <1>2
    <3>2. buf' = [buf EXCEPT ![fillSel] = [buf[fillSel] EXCEPT ![fillPtr] = data]]
      BY <1>4, <2>1
    <3>3. QED
      BY <1>2, <1>4, <2>1, <3>1, <3>2
  <2>2. CASE "we" \notin pulses
    BY <1>2, <1>4, <2>2
  <2>3. QED
    BY <2>1, <2>2
<1>7. Fetching /\ ~Starting =>
        /\ fillSel' = fillSel
        /\ fillPtr' = (IF wordIdx <= conf.nwords THEN wordIdx ELSE conf.nwords)
        /\ \A i \in 0 .. fillPtr' - 1 : buf'[fillSel][i] = Addr(conf, recIdx, i)
  <2>1. SUFFICES ASSUME Fetching, ~Starting
                 PROVE  /\ fillSel' = fillSel
                        /\ fillPtr' = (IF wordIdx <= conf.nwords THEN wordIdx ELSE conf.nwords)
                        /\ \A i \in 0 .. fillPtr' - 1 : buf'[fillSel][i] = Addr(conf, recIdx, i)
    OBVIOUS
  <2>2. fillSel' = fillSel /\ fillPtr' = (IF wordIdx <= conf.nwords THEN wordIdx ELSE conf.nwords)
    BY <1>2, <1>4, <2>1
  <2>3. CASE "we" \in pulses
    <3>1. fillPtr' = fillPtr + 1 /\ buf'[fillSel][fillPtr] = Addr(conf, recIdx, fillPtr)
      BY <1>2, <1>3, <1>4, <1>5, <2>3
    <3>2. \A i \in 0 .. fillPtr - 1 : buf'[fillSel][i] = buf[fillSel][i]
      BY <1>1, <1>2, <1>4, <1>5, <2>3
    <3>3. \A i \in 0 .. fillPtr' - 1 : i = fillPtr \/ i \in 0 .. fillPtr - 1
      BY <1>2, <3>1
    <3>4. QED
      BY <1>2, <2>1, <2>2, <3>1, <3>2, <3>3
  <2>4. CASE "we" \notin pulses
    BY <1>2, <1>4, <2>1, <2>2, <2>4
  <2>5. QED
    BY <2>3, <2>4
<1>8. ASSUME Fetching', ~Starting'
      PROVE  /\ fillPtr' + (IF "we" \in pulses' THEN 1 ELSE 0)
                   = (IF wordIdx' <= conf.nwords THEN wordIdx' ELSE conf.nwords)
             /\ HoldsTo(buf'[fillSel'], conf, recIdx', fillPtr')
  <2>1. /\ st \in {"REQ", "RECV"} /\ recIdx' = recIdx /\ Fetching
        /\ \/ wordIdx' = wordIdx /\ "we" \notin pulses' /\ "push" \notin pulses' /\ st' # "NEXTR"
           \/ /\ st = "RECV" /\ wordIdx' = wordIdx + 1
              /\ "we" \in pulses' <=> wordIdx < conf.nwords
              /\ "push" \in pulses' <=> wordIdx = conf.nwords
    BY <1>8 DEF FetchStep, FetchMoves, Fetching
  <2>2. CASE Starting
    <3>1. fillPtr' = 0 /\ wordIdx' = 0 /\ "we" \notin pulses'
      BY <1>2, <1>3, <1>4, <2>1, <2>2 DEF BufInv, FillInv
    <3>2. QED
      BY <1>1, <3>1 DEF HoldsTo
  <2>3. CASE ~Starting
    <3>1. fillPtr' + (IF "we" \in pulses' THEN 1 ELSE 0)
                   = (IF wordIdx' <= conf.nwords THEN wordIdx' ELSE conf.nwords)
      BY <1>1, <1>7, <2>1, <2>3
    <3>2. HoldsTo(buf'[fillSel'], conf, recIdx', fillPtr')
      BY <1>1, <1>7, <2>1, <2>3 DEF HoldsTo
    <3>3. QED
      BY <3>1, <3>2
  <2>4. QED
    BY <2>2, <2>3
<1>9. st = "NEXTR" => Holds(buf'[fillSel], conf, recIdx)
  <2>1. SUFFICES ASSUME st = "NEXTR"
                 PROVE  Holds(buf'[fillSel], conf, recIdx)
    OBVIOUS
  <2>2. Fetching /\ ~Starting /\ wordIdx = conf.stride
    BY <1>3, <2>1 DEF Fetching, FramerInv, PlaceInv
  <2>3. fillPtr = conf.nwords /\ "we" \notin pulses
    BY <1>1, <1>2, <1>3, <2>2
  <2>4. \A i \in 0 .. conf.nwords - 1 : buf'[fillSel][i] = Addr(conf, recIdx, i)
    BY <1>1, <1>2, <1>4, <2>2, <2>3
  <2>5. QED
    BY <2>4 DEF Holds, HoldsTo
<1>10. QED
  BY <1>6, <1>8, <1>9


\* The drain side of a cycle.
Drain(take) == IF take THEN DrainWord \/ DrainLast ELSE DrainIdle \/ DrainStall

\* It stays, moves on by a word, begins with a full buffer, or retires the one it
\* drains and perhaps begins with the other.
LEMMA DrainCases ==
  ASSUME BufInv, NEW take \in BOOLEAN, Drain(take)
  PROVE  /\ EngValid => status[drainSel] = "DRAINING"
         /\ take => EngValid
         /\ \/ /\ status' = Filled /\ drainSel' = drainSel
               /\ \/ ~EngValid /\ IsStatus("FULL") = {} /\ ~take /\ drainPtr' = drainPtr
                  \/ EngValid /\ ~take /\ drainPtr' = drainPtr
                  \/ EngValid /\ take /\ ~EngLast /\ drainPtr' = drainPtr + 1
            \/ \E d \in 0 .. 1 :
                 /\ ~EngValid /\ ~take /\ status[d] = "FULL"
                 /\ status' = [Filled EXCEPT ![d] = "DRAINING"] /\ drainSel' = d /\ drainPtr' = 0
            \/ /\ take /\ EngLast /\ IsStatus("FULL") = {}
               /\ status' = [Filled EXCEPT ![drainSel] = "EMPTY"]
               /\ drainSel' = drainSel /\ drainPtr' = drainPtr
            \/ \E d \in 0 .. 1 :
                 /\ take /\ EngLast /\ status[d] = "FULL"
                 /\ status' = [[Filled EXCEPT ![drainSel] = "EMPTY"] EXCEPT ![d] = "DRAINING"]
                 /\ drainSel' = d /\ drainPtr' = 0
<1> DEFINE f == First(IsStatus("FULL"))
<1>1. IsStatus("FULL") # {} => f \in 0 .. 1 /\ status[f] = "FULL"
  <2>1. IsStatus("FULL") \in SUBSET (0 .. 1) /\ \A b \in IsStatus("FULL") : status[b] = "FULL"
    BY DEF IsStatus
  <2>2. QED
    BY <2>1, FirstIn
<1>2. EngValid => status[drainSel] = "DRAINING"
  BY DEF BufInv, DrainInv, EngValid, IsStatus
<1> HIDE DEF f
<1>3. CASE ~take
  <2>1. DrainIdle \/ DrainStall
    BY <1>3 DEF Drain
  <2>2. CASE DrainIdle /\ IsStatus("FULL") # {}
    <3>1. ~EngValid /\ status' = [Filled EXCEPT ![f] = "DRAINING"] /\ drainSel' = f /\ drainPtr' = 0
      BY <2>2 DEF DrainIdle, Begin, f
    <3>2. QED
      BY <1>1, <1>2, <1>3, <2>2, <3>1
  <2>3. CASE (DrainIdle /\ IsStatus("FULL") = {}) \/ DrainStall
    <3>1. /\ status' = Filled /\ drainSel' = drainSel /\ drainPtr' = drainPtr
          /\ EngValid \/ IsStatus("FULL") = {}
      BY <2>3 DEF DrainIdle, DrainStall
    <3>2. QED
      BY <1>2, <1>3, <3>1
  <2>4. QED
    BY <2>1, <2>2, <2>3
<1>4. CASE take
  <2>1. DrainWord \/ DrainLast
    BY <1>4 DEF Drain
  <2>2. CASE DrainWord
    <3>1. EngValid /\ ~EngLast /\ status' = Filled /\ drainPtr' = drainPtr + 1 /\ drainSel' = drainSel
      BY <2>2 DEF DrainWord
    <3>2. QED
      BY <1>2, <1>4, <3>1
  <2>3. CASE DrainLast /\ IsStatus("FULL") # {}
    <3>1. /\ EngLast
          /\ status' = [[Filled EXCEPT ![drainSel] = "EMPTY"] EXCEPT ![f] = "DRAINING"]
          /\ drainSel' = f /\ drainPtr' = 0
      BY <2>3 DEF DrainLast, Begin, SwitchOnLast, f
    <3>2. EngValid
      BY <3>1 DEF EngLast
    <3>3. QED
      BY <1>1, <1>2, <1>4, <2>3, <3>1, <3>2
  <2>4. CASE DrainLast /\ IsStatus("FULL") = {}
    <3>1. /\ EngLast /\ status' = [Filled EXCEPT ![drainSel] = "EMPTY"]
          /\ drainSel' = drainSel /\ drainPtr' = drainPtr
      BY <2>4 DEF DrainLast, SwitchOnLast
    <3>2. EngValid
      BY <3>1 DEF EngLast
    <3>3. QED
      BY <1>2, <1>4, <2>4, <3>1, <3>2
  <2>5. QED
    BY <2>1, <2>2, <2>3, <2>4
<1>5. QED
  BY <1>3, <1>4

\* The fill side keeps its invariant, whatever the drain side does.
LEMMA FillKept ==
  ASSUME Geometry, FramerInv, FramerInv', BufInv, FetchStep, Fill,
         NEW take \in BOOLEAN, Drain(take)
  PROVE  FillInv' /\ status' \in [0 .. 1 -> {"EMPTY", "FILLING", "FULL", "DRAINING"}]
<1>1. /\ Filled \in [0 .. 1 -> {"EMPTY", "FILLING", "FULL", "DRAINING"}]
      /\ fillSel' \in 0 .. 1
      /\ \A b \in 0 .. 1 : Filled[b] = "FILLING" <=> (b = fillSel' /\ Fetching' /\ ~Starting')
      /\ \A b \in 0 .. 1 : Complete(b) => Filled[b] = status[b]
      /\ Starting' => Filled = status
  BY FilledFacts
<1>2. /\ drainSel \in 0 .. 1 /\ (EngLast => EngValid)
      /\ EngValid => status[drainSel] = "DRAINING" /\ Filled[drainSel] = "DRAINING"
      /\ \A d \in 0 .. 1 : status[d] = "FULL" => Filled[d] = "FULL"
  BY <1>1, DrainCases DEF Complete, EngLast, BufInv, BufferTypes
<1> DEFINE Kept(s) ==
             /\ s \in [0 .. 1 -> {"EMPTY", "FILLING", "FULL", "DRAINING"}]
             /\ \A b \in 0 .. 1 : s[b] = "FILLING" <=> Filled[b] = "FILLING"
             /\ \A b \in 0 .. 1 : Filled[b] = "EMPTY" => s[b] = "EMPTY"
<1> HIDE DEF Filled
<1>3. Kept(Filled)
  BY <1>1
<1>4. \A d \in 0 .. 1 : status[d] = "FULL" => Kept([Filled EXCEPT ![d] = "DRAINING"])
  BY <1>1, <1>2
<1>5. EngLast => Kept([Filled EXCEPT ![drainSel] = "EMPTY"])
  BY <1>1, <1>2
<1>6. \A d \in 0 .. 1 : status[d] = "FULL" /\ EngLast =>
        Kept([[Filled EXCEPT ![drainSel] = "EMPTY"] EXCEPT ![d] = "DRAINING"])
  BY <1>1, <1>2
<1>7. Kept(status')
  <2> HIDE DEF Kept
  <2>1. QED
    BY <1>3, <1>4, <1>5, <1>6, DrainCases
<1>8. Starting' => FillReady'
  <2>1. SUFFICES ASSUME Starting'
                 PROVE  FillReady'
    OBVIOUS
  <2>2. FillReady
    BY <2>1 DEF FetchStep, FetchMoves, Starting
  <2>3. PICK b \in 0 .. 1 : status[b] = "EMPTY"
    BY <2>2 DEF FillReady, IsStatus
  <2>4. status'[b] = "EMPTY"
    BY <1>1, <1>7, <2>1, <2>3
  <2>5. QED
    BY <2>4 DEF FillReady, IsStatus
<1>9. \A b \in 0 .. 1 : status'[b] = "FILLING" <=> (b = fillSel' /\ Fetching' /\ ~Starting')
  BY <1>1, <1>7
<1>10. conf' = conf
  BY DEF FetchStep, FetchMoves
<1>11. FillInv'
  BY <1>8, <1>9, <1>10, FillStep DEF FillInv
<1>12. QED
  BY <1>7, <1>11

\* The complete buffers of a cycle before the drain side moves.
LEMMA LoadStep ==
  ASSUME Geometry, FramerInv, FramerInv', BufInv, FetchStep, Fill,
         NEW L, L = {b \in 0 .. 1 : Filled[b] \in {"FULL", "DRAINING"}}
  PROVE  /\ 0 \notin L /\ 1 \notin L => Upcoming' = want.rec
         /\ \A b \in 0 .. 1 : b \in L /\ 1 - b \notin L =>
              Holds(buf'[b], conf, want.rec) /\ Upcoming' = Succ(conf, want.rec)
         /\ 0 \in L /\ 1 \in L =>
              /\ EngValid
              /\ Holds(buf'[1 - drainSel], conf, Succ(conf, want.rec))
              /\ Upcoming' = Succ(conf, Succ(conf, want.rec))
         /\ EngValid => Holds(buf'[drainSel], conf, want.rec)
         /\ \A b \in 0 .. 1 : b \in L <=> Complete(b) \/ (b = fillSel /\ st = "NEXTR")
<1>1. /\ Filled \in [0 .. 1 -> {"EMPTY", "FILLING", "FULL", "DRAINING"}]
      /\ \A b \in 0 .. 1 : Complete(b) => Filled[b] = status[b]
      /\ \A b \in 0 .. 1 : Filled[b] = "DRAINING" <=> status[b] = "DRAINING"
      /\ \A b \in 0 .. 1 : Filled[b] = "FULL" /\ ~Complete(b) <=> b = fillSel /\ st = "NEXTR"
      /\ st = "NEXTR" => ~Complete(fillSel)
  BY FilledFacts
<1>2. \A b \in 0 .. 1 : b \in L <=> Complete(b) \/ (b = fillSel /\ st = "NEXTR")
  BY <1>1 DEF Complete
<1>3. \A b \in 0 .. 1 : Complete(b) => buf'[b] = buf[b]
  BY FillKeeps
<1>4. /\ \A b \in 0 .. 1 : status[b] = "DRAINING" => b = drainSel
      /\ EngValid => Holds(buf[drainSel], conf, want.rec)
      /\ ~EngValid /\ IsStatus("FULL") # {} => ~Fetching
      /\ ~Complete(0) /\ ~Complete(1) => Upcoming = want.rec
      /\ \A b \in 0 .. 1 : Complete(b) /\ ~Complete(1 - b) =>
           Holds(buf[b], conf, want.rec) /\ Upcoming = Succ(conf, want.rec)
      /\ Complete(0) /\ Complete(1) =>
           /\ EngValid
           /\ Holds(buf[1 - drainSel], conf, Succ(conf, want.rec))
           /\ Upcoming = Succ(conf, Succ(conf, want.rec))
      /\ fillSel \in 0 .. 1 /\ drainSel \in 0 .. 1
  BY DEF BufInv, BufferTypes, DrainInv
<1>5. EngValid => Complete(drainSel)
  BY <1>4 DEF EngValid, IsStatus, Complete
<1>6. EngValid => Holds(buf'[drainSel], conf, want.rec)
  BY <1>3, <1>4, <1>5
<1>7. CASE st # "NEXTR"
  <2>1. Upcoming' = Upcoming
    BY <1>7 DEF FetchStep, FetchMoves, Upcoming, Fetching
  <2>2. \A b \in 0 .. 1 : b \in L <=> Complete(b)
    BY <1>2, <1>7
  <2>3. drainSel = 0 \/ drainSel = 1
    BY <1>4
  <2>4. 0 \in L /\ 1 \in L => EngValid /\ Holds(buf'[1 - drainSel], conf, Succ(conf, want.rec))
    <3>1. 1 - drainSel \in 0 .. 1
      BY <2>3
    <3>2. Complete(0) /\ Complete(1) => buf'[1 - drainSel] = buf[1 - drainSel]
      BY <1>3, <2>3
    <3>3. QED
      BY <1>4, <2>2, <3>2
  <2>5. ASSUME NEW b \in 0 .. 1, b \in L, 1 - b \notin L
        PROVE  Holds(buf'[b], conf, want.rec) /\ Upcoming' = Succ(conf, want.rec)
    <3>1. 1 - b \in 0 .. 1
      OBVIOUS
    <3>2. Complete(b) /\ ~Complete(1 - b)
      BY <2>2, <2>5, <3>1
    <3>3. QED
      BY <1>3, <1>4, <2>1, <3>2
  <2>6. QED
    BY <1>2, <1>4, <1>6, <2>1, <2>2, <2>4, <2>5
<1>8. CASE st = "NEXTR"
  <2>1. /\ Upcoming = recIdx /\ Upcoming' = Succ(conf, recIdx) /\ Fetching
    BY <1>8 DEF FetchStep, FetchMoves, Upcoming, Fetching
  <2>2. Holds(buf'[fillSel], conf, recIdx)
    BY <1>8, FillStep
  <2>3. ~Complete(fillSel) /\ fillSel \in L
    BY <1>1, <1>2, <1>4, <1>8
  <2>4. 1 - fillSel \in 0 .. 1 /\ (fillSel = 0 \/ fillSel = 1)
    BY <1>4
  <2>5. CASE ~Complete(1 - fillSel)
    <3>1. ~Complete(0) /\ ~Complete(1)
      BY <2>3, <2>4, <2>5
    <3>2. 1 - fillSel \notin L
      BY <1>2, <2>4, <2>5
    <3>3. recIdx = want.rec
      BY <1>4, <2>1, <3>1
    <3>4. \A b \in 0 .. 1 : b \in L => b = fillSel
      BY <2>4, <3>2
    <3>5. QED
      BY <1>2, <1>6, <2>1, <2>2, <2>3, <2>4, <3>2, <3>3, <3>4
  <2>6. CASE Complete(1 - fillSel)
    <3>1. EngValid
      BY <1>4, <2>1, <2>4, <2>6 DEF Complete, IsStatus, EngValid
    <3>2. drainSel = 1 - fillSel /\ 1 - drainSel = fillSel
      BY <1>4, <1>5, <2>3, <2>4, <3>1
    <3>3. recIdx = Succ(conf, want.rec)
      <4>1. Complete(drainSel) /\ ~Complete(1 - drainSel) /\ drainSel \in 0 .. 1
        BY <1>4, <2>3, <2>6, <3>2
      <4>2. QED
        BY <1>4, <2>1, <4>1
    <3>4. 0 \in L /\ 1 \in L
      BY <1>2, <2>3, <2>4, <2>6
    <3>5. \A b \in 0 .. 1 : 1 - b \in L
      BY <3>4
    <3>6. QED
      BY <1>2, <1>6, <2>1, <2>2, <3>1, <3>2, <3>3, <3>4, <3>5
  <2>7. QED
    BY <2>5, <2>6
<1>9. QED
  BY <1>7, <1>8


\* The drain side hands out the wanted words, and the complete buffers go on holding
\* the records from the wanted one up to the upcoming one.
LEMMA DrainKept ==
  ASSUME Geometry, FramerInv, FramerInv', BufInv, FetchStep, Fill,
         NEW take \in BOOLEAN, Drain(take), NEW retire, Engine(take, EngLast, retire)
  PROVE  DrainInv' /\ BufferTypes'
<1> DEFINE L == {b \in 0 .. 1 : Filled[b] \in {"FULL", "DRAINING"}}
           now == want.rec
           then == Succ(conf, now)
<1>1. /\ conf' = conf /\ conf \in Configs /\ conf.nwords \in Nat \ {0} /\ conf.n \in Nat \ {0}
      /\ conf.nwords <= BufWords
      /\ want \in [rec : 0 .. conf.n - 1, idx : 0 .. conf.nwords - 1]
      /\ now \in 0 .. conf.n - 1 /\ then \in 0 .. conf.n - 1
      /\ drainSel \in 0 .. 1 /\ drainPtr \in 0 .. conf.nwords - 1
      /\ EngValid => want.idx = drainPtr
      /\ ~EngValid => want.idx = 0
      /\ EngLast <=> EngValid /\ drainPtr = conf.nwords - 1
      /\ \A b \in 0 .. 1 : status[b] = "DRAINING" => b = drainSel
      /\ ~EngValid /\ IsStatus("FULL") # {} => ~Fetching
      /\ Complete(0) /\ Complete(1) => EngValid
  BY ConfFacts DEF FetchStep, FetchMoves, FramerInv, FramerTypes, BufInv, BufferTypes, DrainInv, EngLast
<1>2. /\ Filled \in [0 .. 1 -> {"EMPTY", "FILLING", "FULL", "DRAINING"}]
      /\ fillSel' \in 0 .. 1
      /\ \A b \in 0 .. 1 : Complete(b) => Filled[b] = status[b]
      /\ \A b \in 0 .. 1 : Filled[b] = "DRAINING" <=> status[b] = "DRAINING"
      /\ \A b \in 0 .. 1 : Filled[b] = "FULL" /\ ~Complete(b) <=> b = fillSel /\ st = "NEXTR"
  BY FilledFacts
<1>3. /\ 0 \notin L /\ 1 \notin L => Upcoming' = now
      /\ \A b \in 0 .. 1 : b \in L /\ 1 - b \notin L =>
           Holds(buf'[b], conf, now) /\ Upcoming' = then
      /\ 0 \in L /\ 1 \in L =>
           /\ EngValid
           /\ Holds(buf'[1 - drainSel], conf, then)
           /\ Upcoming' = Succ(conf, then)
      /\ EngValid => Holds(buf'[drainSel], conf, now)
      /\ \A b \in 0 .. 1 : b \in L <=> Complete(b) \/ (b = fillSel /\ st = "NEXTR")
  BY LoadStep
<1>4. \A b \in 0 .. 1 : b \in L <=> Filled[b] \in {"FULL", "DRAINING"}
  OBVIOUS
<1>5. st = "NEXTR" => ~Fetching'
  BY DEF FetchStep, FetchMoves, Fetching
<1>6. want' = IF ~take THEN want
              ELSE IF want.idx + 1 = conf.nwords THEN [rec |-> then, idx |-> 0]
              ELSE [want EXCEPT !.idx = @ + 1]
  BY DEF Engine, NextRecord, Succ
<1>7. /\ buf' \in [0 .. 1 -> [0 .. BufWords - 1 -> Nat]] /\ fillPtr' \in Nat
      /\ status' \in [0 .. 1 -> {"EMPTY", "FILLING", "FULL", "DRAINING"}]
  BY FillStep, FillKept
<1>8. /\ EngValid' <=> \E b \in 0 .. 1 : status'[b] = "DRAINING"
      /\ IsStatus("FULL")' # {} <=> \E b \in 0 .. 1 : status'[b] = "FULL"
      /\ EngValid <=> \E b \in 0 .. 1 : status[b] = "DRAINING"
      /\ IsStatus("FULL") # {} <=> \E b \in 0 .. 1 : status[b] = "FULL"
      /\ \A b \in 0 .. 1 : Complete(b)' <=> status'[b] \in {"FULL", "DRAINING"}
      /\ \A b \in 0 .. 1 : Complete(b) <=> status[b] \in {"FULL", "DRAINING"}
  BY DEF EngValid, IsStatus, Complete
<1>9. \A b \in 0 .. 1 : 1 - b \in 0 .. 1 /\ 1 - (1 - b) = b /\ (b # 1 - b) /\ (b = 0 \/ b = 1)
  OBVIOUS
<1> DEFINE Goal ==
      /\ \A b \in 0 .. 1 : status'[b] = "DRAINING" => b = drainSel'
      /\ ~EngValid' => want'.idx = 0
      /\ EngValid' => want'.idx = drainPtr' /\ Holds(buf'[drainSel'], conf, want'.rec)
      /\ ~EngValid' /\ IsStatus("FULL")' # {} => ~Fetching'
      /\ ~Complete(0)' /\ ~Complete(1)' => Upcoming' = want'.rec
      /\ \A b \in 0 .. 1 : Complete(b)' /\ ~Complete(1 - b)' =>
           Holds(buf'[b], conf, want'.rec) /\ Upcoming' = Succ(conf, want'.rec)
      /\ Complete(0)' /\ Complete(1)' =>
           /\ EngValid'
           /\ Holds(buf'[1 - drainSel'], conf, Succ(conf, want'.rec))
           /\ Upcoming' = Succ(conf, Succ(conf, want'.rec))
      /\ drainSel' \in 0 .. 1 /\ drainPtr' \in 0 .. conf.nwords - 1
      /\ want' \in [rec : 0 .. conf.n - 1, idx : 0 .. conf.nwords - 1]
<1> HIDE DEF L, now, then
<1>10. CASE /\ status' = Filled /\ drainSel' = drainSel
            /\ \/ ~EngValid /\ IsStatus("FULL") = {} /\ ~take /\ drainPtr' = drainPtr
               \/ EngValid /\ ~take /\ drainPtr' = drainPtr
               \/ EngValid /\ take /\ ~EngLast /\ drainPtr' = drainPtr + 1
  <2>1. /\ want'.rec = now /\ want' \in [rec : 0 .. conf.n - 1, idx : 0 .. conf.nwords - 1]
        /\ drainPtr' \in 0 .. conf.nwords - 1
        /\ EngValid => want'.idx = drainPtr'
        /\ ~EngValid => want'.idx = 0
    <3>1. CASE ~take
      BY <1>1, <1>6, <1>10, <3>1 DEF now
    <3>2. CASE take
      <4>1. /\ EngValid /\ drainPtr' = drainPtr + 1 /\ drainPtr # conf.nwords - 1 /\ want.idx = drainPtr
        BY <1>1, <1>10, <3>2
      <4>2. want' = [want EXCEPT !.idx = @ + 1] /\ want.idx + 1 \in 0 .. conf.nwords - 1
        BY <1>1, <1>6, <3>2, <4>1
      <4>3. QED
        BY <1>1, <4>1, <4>2 DEF now
    <3>3. QED
      BY <3>1, <3>2
  <2>2. (EngValid' <=> EngValid) /\ drainSel' = drainSel
    BY <1>2, <1>8, <1>10
  <2>3. \A b \in 0 .. 1 : (Complete(b)' <=> b \in L) /\ (status'[b] = "DRAINING" => b = drainSel')
    BY <1>1, <1>2, <1>4, <1>8, <1>10
  <2>4. ~EngValid' /\ IsStatus("FULL")' # {} => ~Fetching'
    <3>1. SUFFICES ASSUME ~EngValid', IsStatus("FULL")' # {}
                   PROVE  st = "NEXTR"
      BY <1>5
    <3>2. PICK b \in 0 .. 1 : Filled[b] = "FULL"
      BY <1>8, <1>10, <3>1
    <3>3. \A d \in 0 .. 1 : ~Complete(d)
      BY <1>8, <1>10, <2>2, <3>1
    <3>4. QED
      BY <1>2, <3>2, <3>3
  <2>5. Complete(0)' /\ Complete(1)' =>
           /\ EngValid'
           /\ Holds(buf'[1 - drainSel'], conf, Succ(conf, want'.rec))
           /\ Upcoming' = Succ(conf, Succ(conf, want'.rec))
    BY <1>3, <2>1, <2>2, <2>3 DEF then
  <2>6. ASSUME NEW b \in 0 .. 1, Complete(b)', ~Complete(1 - b)'
        PROVE  Holds(buf'[b], conf, want'.rec) /\ Upcoming' = Succ(conf, want'.rec)
    <3>1. b \in L /\ 1 - b \notin L
      BY <1>9, <2>3, <2>6
    <3>2. QED
      BY <1>3, <2>1, <3>1 DEF then
  <2>7. Goal
    BY <1>1, <1>3, <2>1, <2>2, <2>3, <2>4, <2>5, <2>6
  <2>8. QED
    BY <1>1, <1>7, <1>2, <2>7 DEF DrainInv, BufferTypes
<1>11. ASSUME NEW d \in 0 .. 1,
              ~EngValid, ~take, status[d] = "FULL",
              status' = [Filled EXCEPT ![d] = "DRAINING"], drainSel' = d, drainPtr' = 0
       PROVE  DrainInv' /\ BufferTypes'
  <2>1. ~Fetching /\ st # "NEXTR"
    BY <1>1, <1>8, <1>11 DEF Fetching
  <2>2. Complete(d) /\ ~Complete(1 - d) /\ d \in L /\ 1 - d \notin L /\ Filled[d] = "FULL"
    BY <1>1, <1>2, <1>3, <1>8, <1>9, <1>11, <2>1
  <2>3. Holds(buf'[d], conf, now) /\ Upcoming' = then
    BY <1>3, <2>2
  <2>4. want' = want /\ want.idx = 0
    BY <1>1, <1>6, <1>11
  <2>5. status'[d] = "DRAINING" /\ status'[1 - d] \notin {"FULL", "DRAINING"}
    BY <1>2, <1>4, <1>9, <1>11, <2>2
  <2>6. EngValid' /\ Complete(d)' /\ ~Complete(1 - d)' /\ \A b \in 0 .. 1 : b = d \/ b = 1 - d
    BY <1>8, <1>9, <2>5
  <2>7. Goal
    BY <1>1, <1>11, <2>3, <2>4, <2>5, <2>6 DEF now, then
  <2>8. QED
    BY <1>1, <1>7, <1>2, <2>7 DEF DrainInv, BufferTypes
<1>12. CASE /\ take /\ EngLast /\ IsStatus("FULL") = {}
            /\ status' = [Filled EXCEPT ![drainSel] = "EMPTY"]
            /\ drainSel' = drainSel /\ drainPtr' = drainPtr
  <2>0. PICK s \in 0 .. 1, o \in 0 .. 1 : s = drainSel /\ o = 1 - s
    BY <1>1, <1>9
  <2>1. EngValid /\ drainPtr = conf.nwords - 1 /\ want.idx + 1 = conf.nwords
    BY <1>1, <1>12
  <2>2. want' = [rec |-> then, idx |-> 0]
    BY <1>6, <1>12, <2>1
  <2>3. /\ o \in 0 .. 1 /\ o # s /\ (\A b \in 0 .. 1 : b = o \/ b = s)
        /\ 1 - o = s /\ o = 1 - drainSel /\ s = drainSel
    BY <2>0
  <2>4. status[s] = "DRAINING" /\ ~Complete(o) /\ s \in L
    <3>1. status[s] = "DRAINING"
      BY <2>1, <2>3, DrainCases
    <3>2. ~Complete(o)
      BY <1>1, <1>8, <1>12, <2>3
    <3>3. QED
      BY <1>3, <1>8, <3>1, <3>2
  <2>5. status'[s] = "EMPTY" /\ status'[o] = Filled[o] /\ Filled[o] # "DRAINING"
    BY <1>1, <1>2, <1>8, <1>12, <2>3, <2>4
  <2>6. /\ ~EngValid' /\ ~Complete(s)' /\ (Complete(o)' <=> o \in L)
        /\ IsStatus("FULL")' # {} => Filled[o] = "FULL"
    BY <1>4, <1>8, <2>3, <2>5
  <2>7. o \in L => st = "NEXTR"
    BY <1>3, <2>3, <2>4
  <2>8. Filled[o] = "FULL" => o \in L
    BY <1>4, <2>3
  <2>9. CASE o \in L
    <3>1. 0 \in L /\ 1 \in L
      BY <2>3, <2>4, <2>9
    <3>2. Holds(buf'[o], conf, then) /\ Upcoming' = Succ(conf, then)
      BY <1>3, <2>3, <3>1
    <3>3. ~Complete(1 - o)' /\ ~Complete(s)' /\ Complete(o)'
      BY <2>3, <2>6, <2>9
    <3>4. Goal
      BY <1>1, <1>5, <1>12, <2>2, <2>3, <2>5, <2>6, <2>7, <2>9, <3>2, <3>3
    <3>5. QED
      BY <1>1, <1>7, <1>2, <3>4 DEF DrainInv, BufferTypes
  <2>10. CASE o \notin L
    <3>1. Upcoming' = then
      BY <1>1, <1>3, <2>4, <2>10
    <3>2. \A b \in 0 .. 1 : ~Complete(b)'
      BY <2>3, <2>6, <2>10
    <3>3. Goal
      BY <1>1, <1>12, <2>2, <2>3, <2>5, <2>6, <2>8, <2>10, <3>1, <3>2
    <3>4. QED
      BY <1>1, <1>7, <1>2, <3>3 DEF DrainInv, BufferTypes
  <2>11. QED
    BY <2>9, <2>10
<1>13. ASSUME NEW d \in 0 .. 1,
              take, EngLast, status[d] = "FULL",
              status' = [[Filled EXCEPT ![drainSel] = "EMPTY"] EXCEPT ![d] = "DRAINING"],
              drainSel' = d, drainPtr' = 0
       PROVE  DrainInv' /\ BufferTypes'
  <2>1. EngValid /\ want.idx + 1 = conf.nwords /\ status[drainSel] = "DRAINING"
    <3>1. EngValid /\ want.idx + 1 = conf.nwords
      BY <1>1, <1>13
    <3>2. status[drainSel] = "DRAINING"
      BY <1>1, <1>8, <3>1
    <3>3. QED
      BY <3>1, <3>2
  <2>2. want' = [rec |-> then, idx |-> 0]
    BY <1>6, <1>13, <2>1
  <2>3. d = 1 - drainSel /\ drainSel = 1 - d
    BY <1>1, <1>9, <1>13, <2>1
  <2>4. Complete(d) /\ Complete(1 - d) /\ 0 \in L /\ 1 \in L
    BY <1>1, <1>3, <1>8, <1>9, <1>13, <2>1, <2>3
  <2>5. Holds(buf'[d], conf, then) /\ Upcoming' = Succ(conf, then)
    BY <1>3, <2>3, <2>4
  <2>6. status'[d] = "DRAINING" /\ status'[1 - d] = "EMPTY"
    <3> DEFINE r == [Filled EXCEPT ![drainSel] = "EMPTY"]
    <3>1. r \in [0 .. 1 -> {"EMPTY", "FILLING", "FULL", "DRAINING"}] /\ r[1 - d] = "EMPTY"
      BY <1>1, <1>2, <2>3
    <3>2. status' = [r EXCEPT ![d] = "DRAINING"]
      BY <1>13
    <3> HIDE DEF r
    <3>3. QED
      BY <1>9, <3>1, <3>2
  <2>7. EngValid' /\ Complete(d)' /\ ~Complete(1 - d)' /\ \A b \in 0 .. 1 : b = d \/ b = 1 - d
    BY <1>8, <1>9, <2>6
  <2>8. Goal
    BY <1>1, <1>13, <2>2, <2>5, <2>6, <2>7
  <2>9. QED
    BY <1>1, <1>7, <1>2, <2>8 DEF DrainInv, BufferTypes
<1>14. QED
  BY <1>10, <1>11, <1>12, <1>13, DrainCases

-------------------------------------------------------------------------------
(* The labels.                                                              *)

\* How many buffers are complete in a given status.
Count(s) == (IF s[0] \in {"FULL", "DRAINING"} THEN 1 ELSE 0)
          + (IF s[1] \in {"FULL", "DRAINING"} THEN 1 ELSE 0)

\* Draining begins with a full buffer; its end gives one up.
LEMMA CountSteps ==
  ASSUME NEW s \in [0 .. 1 -> {"EMPTY", "FILLING", "FULL", "DRAINING"}], NEW d \in 0 .. 1
  PROVE  /\ Count(s) \in 0 .. 2
         /\ s[d] = "FULL" => Count([s EXCEPT ![d] = "DRAINING"]) = Count(s)
         /\ s[d] = "DRAINING" => Count([s EXCEPT ![d] = "EMPTY"]) = Count(s) - 1
         /\ s[d] = "FILLING" => Count(s) <= 1 /\ Count([s EXCEPT ![d] = "FULL"]) = Count(s) + 1
<1>1. CASE d = 0
  BY <1>1 DEF Count
<1>2. CASE d = 1
  BY <1>2 DEF Count
<1>3. QED
  BY <1>1, <1>2

\* A buffer is complete when its record is, and given up with its last word.
LEMMA HeldStep ==
  ASSUME Geometry, FramerInv, BufInv, FetchStep, Fill, NEW take \in BOOLEAN, Drain(take)
  PROVE  /\ Held \in 0 .. 2 /\ Held' \in 0 .. 2
         /\ Held' = Held + (IF st = "NEXTR" THEN 1 ELSE 0) - (IF take /\ EngLast THEN 1 ELSE 0)
         /\ Fetching /\ ~Starting => Held <= 1
<1>1. Held = Count(status) /\ Held' = Count(status')
  BY DEF Held, Complete, Count
<1>2. /\ status \in [0 .. 1 -> {"EMPTY", "FILLING", "FULL", "DRAINING"}] /\ fillSel \in 0 .. 1
      /\ drainSel \in 0 .. 1
      /\ Fetching /\ ~Starting => status[fillSel] = "FILLING"
  BY DEF BufInv, BufferTypes, FillInv
<1>3. /\ Filled \in [0 .. 1 -> {"EMPTY", "FILLING", "FULL", "DRAINING"}]
      /\ \A b \in 0 .. 1 : status[b] \in {"FULL", "DRAINING"} => Filled[b] = status[b]
      /\ \A b \in 0 .. 1 : Filled[b] = "DRAINING" <=> status[b] = "DRAINING"
      /\ \A b \in 0 .. 1 : Filled[b] = "FULL" /\ status[b] \notin {"FULL", "DRAINING"}
                             <=> b = fillSel /\ st = "NEXTR"
      /\ st = "NEXTR" => status[fillSel] \notin {"FULL", "DRAINING"} /\ Filled[fillSel] = "FULL"
  BY FilledFacts DEF Complete
<1>4. Count(Filled) = Count(status) + (IF st = "NEXTR" THEN 1 ELSE 0)
  <2>1. CASE st = "NEXTR" /\ fillSel = 0
    BY <1>2, <1>3, <2>1 DEF Count
  <2>2. CASE st = "NEXTR" /\ fillSel = 1
    BY <1>2, <1>3, <2>2 DEF Count
  <2>3. CASE st # "NEXTR"
    BY <1>2, <1>3, <2>3 DEF Count
  <2>4. QED
    BY <1>2, <2>1, <2>2, <2>3
<1>5. Count(status) \in 0 .. 2 /\ (Fetching /\ ~Starting => Count(status) <= 1)
  BY <1>2, CountSteps
<1> HIDE DEF Filled
<1>6. /\ EngLast => EngValid
      /\ EngValid => status[drainSel] = "DRAINING"
  BY DrainCases DEF EngLast
<1>7. /\ Count(status') = Count(Filled) - (IF take /\ EngLast THEN 1 ELSE 0)
      /\ status' \in [0 .. 1 -> {"EMPTY", "FILLING", "FULL", "DRAINING"}]
  <2>1. CASE status' = Filled /\ ~(take /\ EngLast)
    BY <1>3, <1>5, <1>4, <2>1
  <2>2. ASSUME NEW d \in 0 .. 1, ~take, status[d] = "FULL", status' = [Filled EXCEPT ![d] = "DRAINING"]
        PROVE  Count(status') = Count(Filled) /\ status' \in [0 .. 1 -> {"EMPTY", "FILLING", "FULL", "DRAINING"}]
    BY <1>3, <2>2, CountSteps
  <2>3. CASE take /\ EngLast /\ status' = [Filled EXCEPT ![drainSel] = "EMPTY"]
    BY <1>2, <1>3, <1>6, <2>3, CountSteps
  <2>4. ASSUME NEW d \in 0 .. 1, take, EngLast, status[d] = "FULL",
               status' = [[Filled EXCEPT ![drainSel] = "EMPTY"] EXCEPT ![d] = "DRAINING"]
        PROVE  /\ Count(status') = Count(Filled) - 1
               /\ status' \in [0 .. 1 -> {"EMPTY", "FILLING", "FULL", "DRAINING"}]
    <3> DEFINE r == [Filled EXCEPT ![drainSel] = "EMPTY"]
    <3>1. /\ r \in [0 .. 1 -> {"EMPTY", "FILLING", "FULL", "DRAINING"}] /\ r[d] = "FULL"
      BY <1>2, <1>3, <1>6, <2>4
    <3>2. Count(r) = Count(Filled) - 1
      BY <1>2, <1>3, <1>6, <2>4, CountSteps
    <3>3. status' = [r EXCEPT ![d] = "DRAINING"]
      BY <2>4
    <3> HIDE DEF r
    <3>4. Count(status') = Count(r)
      BY <3>1, <3>3, CountSteps
    <3>5. QED
      BY <3>1, <3>2, <3>3, <3>4
  <2>5. Count(Filled) \in Int
    BY <1>4, <1>5
  <2> HIDE DEF Count
  <2>6. \/ status' = Filled /\ ~(take /\ EngLast)
        \/ \E d \in 0 .. 1 : ~take /\ status[d] = "FULL" /\ status' = [Filled EXCEPT ![d] = "DRAINING"]
        \/ take /\ EngLast /\ status' = [Filled EXCEPT ![drainSel] = "EMPTY"]
        \/ \E d \in 0 .. 1 :
             /\ take /\ EngLast /\ status[d] = "FULL"
             /\ status' = [[Filled EXCEPT ![drainSel] = "EMPTY"] EXCEPT ![d] = "DRAINING"]
    BY <1>6, DrainCases
  <2>7. QED
    BY <2>1, <2>2, <2>3, <2>4, <2>5, <2>6
<1>8. Count(status') \in 0 .. 2
  BY <1>7 DEF Count
<1>9. QED
  BY <1>1, <1>4, <1>5, <1>7, <1>8

\* The label of the record that is fetched is pushed once.
LEMMA PushedStep ==
  ASSUME Geometry, FramerInv, FetchMoves
  PROVE  /\ (IF Pushed' THEN 1 ELSE 0) + (IF st = "NEXTR" THEN 1 ELSE 0)
              = (IF Pushed THEN 1 ELSE 0) + (IF "push" \in pulses THEN 1 ELSE 0)
         /\ "push" \in pulses => Fetching /\ ~Starting /\ ~Pushed
<1>1. /\ conf' = conf /\ conf.nwords \in Nat \ {0} /\ conf.nwords < conf.stride /\ conf.stride \in Nat
      /\ wordIdx \in Nat
  BY ConfFacts DEF FetchMoves, FramerInv, FramerTypes
<1>2. /\ ~Fetching => pulses = {}
      /\ Starting => st = "REQ" /\ wordIdx = 0 /\ "push" \notin pulses
      /\ "push" \in pulses => wordIdx = conf.nwords + 1
      /\ st = "NEXTR" => wordIdx = conf.stride
  BY DEF FramerInv, PulseInv, PlaceInv
<1>3. "push" \in pulses => Fetching /\ ~Starting /\ ~Pushed
  BY <1>2 DEF Pushed
<1>4. CASE ~Fetching /\ ~Fetching'
  BY <1>2, <1>4 DEF Pushed, Fetching
<1>5. CASE st = "REC" /\ wordIdx' = 0
  BY <1>1, <1>2, <1>5 DEF Pushed, Fetching
<1>6. CASE /\ st \in {"REQ", "RECV"} /\ Fetching'
           /\ \/ wordIdx' = wordIdx /\ "push" \notin pulses'
              \/ wordIdx' = wordIdx + 1 /\ ("push" \in pulses' <=> wordIdx = conf.nwords)
  <2>1. Fetching /\ st # "NEXTR"
    BY <1>6 DEF Fetching
  <2>2. Pushed <=> wordIdx > conf.nwords /\ "push" \notin pulses
    BY <2>1 DEF Pushed
  <2>3. Pushed' <=> wordIdx' > conf.nwords /\ "push" \notin pulses'
    BY <1>1, <1>6 DEF Pushed
  <2>4. Pushed' <=> wordIdx > conf.nwords
    BY <1>1, <1>6, <2>3
  <2>5. QED
    BY <1>1, <1>2, <2>1, <2>2, <2>4
<1>7. CASE st = "NEXTR" /\ ~Fetching'
  BY <1>1, <1>2, <1>7 DEF Pushed, Fetching
<1>8. QED
  BY <1>3, <1>4, <1>5, <1>6, <1>7 DEF FetchMoves


\* One record on in the store is one on modulo the number of records.
LEMMA OneOn ==
  ASSUME NEW c, c.n \in Nat \ {0}, NEW r \in 0 .. c.n - 1, NEW x \in Nat
  PROVE  /\ (Succ(c, r) + x) % c.n = (r + 1 + x) % c.n
         /\ Succ(c, (r + x) % c.n) = (r + x + 1) % c.n
         /\ (r + x) % c.n \in 0 .. c.n - 1
<1> DEFINE m == c.n
           y == r + x
<1>1. m \in Nat \ {0} /\ y \in Nat
  OBVIOUS
<1>2. Succ(c, y % m) = (y + 1) % m /\ y % m \in 0 .. m - 1
  <2> HIDE DEF y
  <2>1. (y + 1) % m = (IF (y % m) + 1 = m THEN 0 ELSE (y % m) + 1)
    BY <1>1, ModSteps
  <2>2. y % m \in 0 .. m - 1
    BY <1>1
  <2>3. QED
    BY <2>1, <2>2 DEF Succ
<1>3. (Succ(c, r) + x) % m = (r + 1 + x) % m
  <2>1. CASE r + 1 = m
    <3>1. (x + m) % m = x % m
      <4> HIDE DEF m
      <4>1. QED
        BY <1>1, ModSteps
    <3>2. Succ(c, r) + x = x /\ r + 1 + x = x + m
      BY <2>1 DEF Succ
    <3>3. QED
      BY <3>1, <3>2
  <2>2. CASE r + 1 # m
    BY <2>2 DEF Succ
  <2>3. QED
    BY <2>1, <2>2
<1>4. QED
  BY <1>2, <1>3

\* The label FIFO of a given depth (LabelFifo of either mode).
LabelsMove(depth, retire) ==
  LET room == Len(lbl) # depth
      kept == IF retire THEN Tail(lbl) ELSE lbl
  IN /\ lbl' = IF "push" \in pulses /\ room THEN Append(kept, data) ELSE kept
     /\ lblOverflow' = (lblOverflow \/ ("push" \in pulses /\ ~room))

LEMMA LabelSum ==
  ASSUME NEW e \in Int, NEW h \in Int, NEW a \in Int, NEW b \in Int, NEW x \in Int, NEW t \in Int,
         NEW v \in Int, NEW p \in Int, b + x = a + p
  PROVE  (e + h + a) - v + p = (e + t - v) + (h + x - t) + b
OBVIOUS

\* The labels of the records from the one to be retired next: the label of the record
\* that is fetched goes behind them, the first goes with its record.
LEMMA LabelCore ==
  ASSUME Geometry, FramerInv, FetchMoves, NEW depth, NEW h \in Int, NEW h2 \in Int,
         LabelsOf(h),
         NEW t \in {0, 1}, NEW retire \in BOOLEAN, retire => CanRetire,
         h2 = h + (IF st = "NEXTR" THEN 1 ELSE 0) - t,
         t = 1 => inEngine < EngineDepth,
         "push" \in pulses => inEngine + h < depth /\ recIdx = (owed + (inEngine + h)) % conf.n,
         LabelsMove(depth, retire),
         inEngine' = inEngine + t - (IF retire THEN 1 ELSE 0),
         owed' = (IF retire THEN Succ(conf, owed) ELSE owed),
         want'.rec = (IF t = 1 THEN Succ(conf, want.rec) ELSE want.rec)
  PROVE  LabelsOf(h2)'
<1> DEFINE n == conf.n
           nw == conf.nwords
           p == IF "push" \in pulses THEN 1 ELSE 0
           v == IF retire THEN 1 ELSE 0
<1>1. /\ conf' = conf /\ conf \in Configs /\ n \in Nat \ {0} /\ nw \in Nat \ {0}
      /\ EngineDepth \in Nat \ {0} /\ recIdx \in 0 .. n - 1
  BY ConfFacts, TopAssumption DEF FetchMoves, FramerInv, FramerTypes
<1>2. /\ inEngine \in 0 .. EngineDepth /\ owed \in 0 .. n - 1
      /\ lbl \in Seq(Nat) /\ ~lblOverflow
      /\ want.rec = (owed + inEngine) % n
      /\ Len(lbl) = inEngine + h + (IF Pushed THEN 1 ELSE 0)
      /\ \A k \in 1 .. Len(lbl) : lbl[k] = Addr(conf, (owed + k - 1) % n, nw)
  BY DEF LabelsOf
<1>4. /\ (IF Pushed' THEN 1 ELSE 0) + (IF st = "NEXTR" THEN 1 ELSE 0)
           = (IF Pushed THEN 1 ELSE 0) + p
      /\ "push" \in pulses => Fetching /\ ~Starting /\ ~Pushed
  BY PushedStep
<1>5. retire => inEngine > 0 /\ lbl # <<>>
  BY DEF CanRetire
<1>6. inEngine' = inEngine + t - v
  OBVIOUS
<1>8. want'.rec = (IF t = 1 THEN Succ(conf, want.rec) ELSE want.rec)
  OBVIOUS
<1>0. /\ t \in {0, 1} /\ v \in {0, 1} /\ p \in {0, 1}
      /\ (v = 1 <=> retire) /\ (p = 1 <=> "push" \in pulses)
  OBVIOUS
<1> HIDE DEF n, nw, v, p
<1>9. "push" \in pulses => Len(lbl) = inEngine + h /\ Len(lbl) # depth
  BY <1>1, <1>2, <1>4
<1>10. "push" \in pulses => data = Addr(conf, (owed + Len(lbl)) % n, nw)
  <2>1. "push" \in pulses => recIdx = (owed + Len(lbl)) % n
    BY <1>9 DEF n
  <2>2. QED
    BY <2>1 DEF FramerInv, PulseInv, nw
<1> DEFINE kept == IF retire THEN Tail(lbl) ELSE lbl
<1>11. /\ lbl' = IF "push" \in pulses THEN Append(kept, data) ELSE kept
       /\ ~lblOverflow'
  BY <1>2, <1>9 DEF LabelsMove
<1>12. /\ kept \in Seq(Nat) /\ Len(kept) = Len(lbl) - v
       /\ \A k \in 1 .. Len(kept) : kept[k] = lbl[k + v]
  <2>1. Len(lbl) \in Nat /\ (retire => Len(lbl) > 0)
    BY <1>1, <1>2, <1>5
  <2> USE <1>0
  <2>2. CASE retire
    <3>1. Tail(lbl) \in Seq(Nat) /\ Len(Tail(lbl)) = Len(lbl) - 1 /\ \A k \in 1 .. Len(Tail(lbl)) : Tail(lbl)[k] = lbl[k + 1]
      BY <1>2, <2>1, <2>2
    <3>2. QED
      BY <2>2, <3>1
  <2>3. CASE ~retire
    BY <1>2, <2>1, <2>3
  <2>4. QED
    BY <2>2, <2>3
<1>13. data \in Nat
  BY DEF FramerInv, FramerTypes
<1> HIDE DEF kept
<1>14. /\ lbl' \in Seq(Nat) /\ Len(lbl') = Len(lbl) - v + p
       /\ \A k \in 1 .. Len(lbl') : lbl'[k] = Addr(conf, (owed + (k + v) - 1) % n, nw)
  <2>1. CASE "push" \notin pulses
    <3>1. \A k \in 1 .. Len(kept) : k + v \in 1 .. Len(lbl)
      <4>1. Len(lbl) \in Nat /\ Len(kept) \in Nat /\ Len(kept) = Len(lbl) - v
        BY <1>2, <1>12
      <4>2. QED
        BY <1>0, <4>1
    <3>2. lbl' = kept /\ p = 0
      BY <1>0, <1>11, <2>1
    <3>3. \A k \in 1 .. Len(kept) : kept[k] = Addr(conf, (owed + (k + v) - 1) % n, nw)
      BY <1>2, <1>12, <3>1
    <3>4. Len(kept) = Len(lbl) - v + p
      BY <1>0, <1>2, <1>12, <3>2
    <3>5. QED
      BY <1>12, <3>2, <3>3, <3>4
  <2>2. CASE "push" \in pulses
    <3>1. lbl' = Append(kept, data) /\ Len(lbl') = Len(kept) + 1
      BY <1>11, <1>12, <1>13, <2>2
    <3>2. \A k \in 1 .. Len(kept) : lbl'[k] = lbl[k + v] /\ k + v \in 1 .. Len(lbl)
      <4>1. \A k \in 1 .. Len(kept) : Append(kept, data)[k] = kept[k]
        BY <1>12, <1>13
      <4>2. Len(lbl) \in Nat /\ Len(kept) \in Nat /\ Len(kept) + v = Len(lbl)
        BY <1>0, <1>2, <1>12
      <4>3. \A k \in 1 .. Len(kept) : k + v \in 1 .. Len(lbl)
        BY <1>0, <4>2
      <4>4. QED
        BY <1>12, <3>1, <4>1, <4>3
    <3>3. lbl'[Len(kept) + 1] = data
      BY <1>12, <1>13, <3>1
    <3>4. owed + ((Len(kept) + 1) + v) - 1 = owed + Len(lbl)
      BY <1>0, <1>2, <1>12
    <3>5. \A k \in 1 .. Len(lbl') : k = Len(kept) + 1 \/ k \in 1 .. Len(kept)
      BY <1>12, <3>1
    <3>6. lbl' \in Seq(Nat) /\ Len(lbl') = Len(lbl) - v + p
      BY <1>0, <1>2, <1>12, <1>13, <2>2, <3>1
    <3>7. ASSUME NEW k \in 1 .. Len(lbl')
          PROVE  lbl'[k] = Addr(conf, (owed + (k + v) - 1) % n, nw)
      <4>1. CASE k = Len(kept) + 1
        BY <1>10, <2>2, <3>3, <3>4, <4>1
      <4>2. CASE k \in 1 .. Len(kept)
        BY <1>2, <3>2, <4>2
      <4>3. QED
        BY <3>5, <4>1, <4>2
    <3>8. QED
      BY <3>6, <3>7
  <2>3. QED
    BY <2>1, <2>2
<1>15. \A x \in Nat : (owed' + x) % n = (owed + v + x) % n
  <2>1. CASE retire
    BY <1>0, <1>1, <1>2, <1>6, <2>1, OneOn, SMTT(30) DEF n
  <2>2. CASE ~retire
    BY <1>0, <1>2, <1>6, <2>2
  <2>3. QED
    BY <2>1, <2>2
<1>16. owed' \in 0 .. n - 1
  BY <1>1, <1>2, <1>6, ConfFacts DEF n
<1>17. inEngine' \in 0 .. EngineDepth
  BY <1>0, <1>1, <1>2, <1>5, <1>6, SMTT(30)
<1>18. want'.rec = (owed' + inEngine') % n'
  <2>1. want'.rec = (owed + inEngine + t) % n
    <3>1. Succ(conf, (owed + inEngine) % n) = (owed + inEngine + 1) % n
      <4>1. conf.n \in Nat \ {0} /\ owed \in 0 .. conf.n - 1 /\ inEngine \in Nat
        BY <1>1, <1>2 DEF n
      <4>2. QED
        BY <4>1, OneOn, Zenon DEF n
    <3>2. CASE t = 1
      BY <1>2, <1>8, <3>1, <3>2
    <3>3. CASE t = 0
      BY <1>1, <1>2, <1>8, <3>3
    <3>4. QED
      BY <1>0, <3>2, <3>3
  <2>2. (owed' + inEngine') % n = (owed + v + inEngine') % n
    BY <1>15, <1>17
  <2>3. owed + v + inEngine' = owed + inEngine + t
    BY <1>0, <1>1, <1>2, <1>6, SMTT(30)
  <2>4. n' = n
    BY <1>1 DEF n
  <2>5. QED
    BY <2>1, <2>2, <2>3, <2>4
<1>19. \A k \in 1 .. Len(lbl') : lbl'[k] = Addr(conf, (owed' + k - 1) % n, nw)
  <2>1. SUFFICES ASSUME NEW k \in 1 .. Len(lbl')
                 PROVE  (owed + (k + v) - 1) % n = (owed' + k - 1) % n
    BY <1>14
  <2>2. (owed' + (k - 1)) % n = (owed + v + (k - 1)) % n
    BY <1>15
  <2>3. /\ owed' + k - 1 = owed' + (k - 1)
        /\ owed + (k + v) - 1 = owed + v + (k - 1)
    BY <1>0, <1>2, <1>16
  <2>4. QED
    BY <2>2, <2>3
<1>20. Len(lbl') = inEngine' + h2 + (IF Pushed' THEN 1 ELSE 0)
  <2>1. PICK a \in 0 .. 1, b \in 0 .. 1, x \in 0 .. 1 :
          /\ a = (IF Pushed THEN 1 ELSE 0) /\ b = (IF Pushed' THEN 1 ELSE 0)
          /\ x = (IF st = "NEXTR" THEN 1 ELSE 0)
    OBVIOUS
  <2>2. /\ Len(lbl) = inEngine + h + a /\ h2 = h + x - t /\ b + x = a + p
        /\ inEngine' = inEngine + t - v /\ Len(lbl') = Len(lbl) - v + p
    BY <1>2, <1>4, <1>6, <1>14, <2>1
  <2>3. h \in Int /\ inEngine \in Int
    BY <1>2
  <2>4. v \in Int /\ t \in Int /\ p \in Int /\ a \in Int /\ b \in Int /\ x \in Int
    BY <1>0, <2>1
  <2>5. Len(lbl') = inEngine' + h2 + b
    <3>1. Len(lbl') = (inEngine + h + a) - v + p /\ b + x = a + p
      BY <2>2
    <3>2. (inEngine + h + a) - v + p = (inEngine + t - v) + (h + x - t) + b
      BY <2>3, <2>4, <3>1, LabelSum
    <3>3. QED
      BY <2>2, <3>1, <3>2
  <2>6. QED
    BY <2>1, <2>5
<1>21. QED
  BY <1>1, <1>11, <1>14, <1>16, <1>17, <1>18, <1>19, <1>20 DEF LabelsOf, n, nw

\* In the buffers of two records.
LEMMA LabelStep ==
  ASSUME Geometry, LabelRoom, FramerInv, BufInv, LabelInv, FetchStep, Fill,
         NEW take \in BOOLEAN, Drain(take), take => CanTake(EngValid),
         NEW retire \in BOOLEAN, retire => CanRetire,
         LabelFifo(retire), Engine(take, EngLast, retire)
  PROVE  LabelInv'
<1> DEFINE n == conf.n
           nw == conf.nwords
           t == IF take /\ EngLast THEN 1 ELSE 0
<1>1. /\ conf' = conf /\ conf \in Configs /\ n \in Nat \ {0} /\ nw \in Nat \ {0}
      /\ LabelDepth \in Nat /\ EngineDepth \in Nat \ {0} /\ LabelDepth >= EngineDepth + 2
      /\ recIdx \in 0 .. n - 1
  BY ConfFacts, TopAssumption DEF LabelRoom, FetchStep, FetchMoves, FramerInv, FramerTypes
<1>2. inEngine \in 0 .. EngineDepth /\ owed \in 0 .. n - 1 /\ want.rec = (owed + inEngine) % n
  BY DEF LabelInv, LabelsOf
<1>3. /\ Held \in 0 .. 2 /\ Held' \in 0 .. 2
      /\ Held' = Held + (IF st = "NEXTR" THEN 1 ELSE 0) - t
      /\ Fetching /\ ~Starting => Held <= 1
  BY HeldStep
<1>4. "push" \in pulses => Fetching /\ ~Starting
  BY PushedStep DEF FetchStep
<1>5. take => inEngine < EngineDepth
  BY DEF CanTake
<1>6. /\ inEngine' = inEngine + t - (IF retire THEN 1 ELSE 0)
      /\ owed' = (IF retire THEN Succ(conf, owed) ELSE owed)
      /\ want' = IF ~take THEN want
                 ELSE IF want.idx + 1 = nw THEN [rec |-> Succ(conf, want.rec), idx |-> 0]
                 ELSE [want EXCEPT !.idx = @ + 1]
  BY DEF Engine, NextRecord, Succ
<1>7. /\ want \in [rec : 0 .. n - 1, idx : 0 .. nw - 1] /\ drainPtr \in Nat
      /\ EngValid => want.idx = drainPtr
      /\ EngLast <=> EngValid /\ drainPtr = nw - 1
      /\ take => EngValid
  BY <1>1, DrainCases DEF BufInv, BufferTypes, DrainInv, EngLast, CanTake
<1>8. want'.rec = (IF t = 1 THEN Succ(conf, want.rec) ELSE want.rec)
  BY <1>1, <1>6, <1>7
<1>9. t \in {0, 1} /\ (t = 1 => inEngine < EngineDepth)
  BY <1>5
<1> HIDE DEF n, nw, t
<1>10. "push" \in pulses => recIdx = (owed + (inEngine + Held)) % n
  <2>1. SUFFICES ASSUME "push" \in pulses
                 PROVE  recIdx = (owed + (inEngine + Held)) % n
    OBVIOUS
  <2>2. Upcoming = recIdx
    BY <1>4, <2>1 DEF Upcoming, Fetching
  <2>3. CASE Held = 0
    <3>1. ~Complete(0) /\ ~Complete(1)
      BY <2>3 DEF Held
    <3>2. Upcoming = want.rec
      BY <3>1 DEF BufInv, DrainInv
    <3>3. inEngine + Held = inEngine
      BY <1>2, <2>3
    <3>4. QED
      BY <1>2, <2>2, <3>2, <3>3
  <2>4. CASE Held = 1
    <3>1. \E b \in 0 .. 1 : Complete(b) /\ ~Complete(1 - b)
      <4>1. (Complete(0) /\ ~Complete(1)) \/ (Complete(1) /\ ~Complete(0))
        BY <2>4 DEF Held
      <4>2. 1 - 0 = 1 /\ 1 - 1 = 0 /\ 0 \in 0 .. 1 /\ 1 \in 0 .. 1
        OBVIOUS
      <4>3. QED
        BY <4>1, <4>2
    <3>2. Upcoming = Succ(conf, want.rec)
      BY <3>1 DEF BufInv, DrainInv
    <3>3. Succ(conf, (owed + inEngine) % n) = (owed + inEngine + 1) % n
      <4>1. conf.n \in Nat \ {0} /\ owed \in 0 .. conf.n - 1 /\ inEngine \in Nat
        BY <1>1, <1>2 DEF n
      <4>2. QED
        BY <4>1, OneOn, Zenon DEF n
    <3>4. owed + (inEngine + Held) = owed + inEngine + 1
      BY <1>2, <2>4
    <3>5. QED
      BY <1>2, <2>2, <3>2, <3>3, <3>4
  <2>5. QED
    BY <1>3, <1>4, <2>1, <2>3, <2>4
<1>11. "push" \in pulses => inEngine + Held < LabelDepth
  BY <1>1, <1>2, <1>3, <1>4
<1>12. LabelsOf(Held)
  BY DEF LabelInv
<1>13. LabelsMove(LabelDepth, retire)
  BY DEF LabelFifo, LabelsMove
<1>14. PICK h \in Int, h2 \in Int : h = Held /\ h2 = Held'
  BY <1>3
<1>15. LabelsOf(h2)'
  <2>1. LabelsOf(h)
    BY <1>12, <1>14
  <2>2. h2 = h + (IF st = "NEXTR" THEN 1 ELSE 0) - t
    BY <1>3, <1>14
  <2>3. "push" \in pulses => inEngine + h < LabelDepth /\ recIdx = (owed + (inEngine + h)) % conf.n
    BY <1>10, <1>11, <1>14 DEF n
  <2>4. QED
    BY <1>6, <1>8, <1>9, <1>13, <2>1, <2>2, <2>3, LabelCore DEF FetchStep
<1>16. QED
  BY <1>14, <1>15 DEF LabelInv, LabelsOf

-------------------------------------------------------------------------------
(* The datapath.                                                            *)

\* Nothing is fetched and the buffers and the label FIFO are empty.
LEMMA InitReplay ==
  ASSUME Geometry, Init
  PROVE  ReplayInv /\ LabelInv
<1>1. /\ conf \in Configs /\ conf.n \in Nat \ {0} /\ conf.nwords \in Nat \ {0}
      /\ conf.nwords <= BufWords /\ BufWords \in Nat /\ EngineDepth \in Nat \ {0}
  BY ConfFacts, TopAssumption DEF Init, TopInit, FramerInit
<1>2. /\ st = "IDLE" /\ recIdx = 0 /\ curAddr = 0 /\ wordIdx = 0 /\ wordsLeft = 0 /\ burstRem = 0
      /\ av = [read |-> FALSE, address |-> 0, count |-> 0] /\ pulses = {} /\ data = 0
      /\ resp = [next |-> 0, left |-> 0]
  BY DEF Init, TopInit, FramerInit
<1>3. /\ lbl = <<>> /\ lblOverflow = FALSE /\ inEngine = 0 /\ want = [rec |-> 0, idx |-> 0] /\ owed = 0
      /\ status = [b \in 0 .. 1 |-> "EMPTY"]
      /\ buf = [b \in 0 .. 1 |-> [k \in 0 .. BufWords - 1 |-> 0]]
      /\ fillSel = 0 /\ fillPtr = 0 /\ drainSel = 0 /\ drainPtr = 0
  BY DEF Init, TopInit, BufferInit
<1>4. FramerInv
  BY <1>1, <1>2 DEF FramerInv, FramerTypes, PlaceInv, PulseInv, Fetching, Starting
<1>5. BufferTypes
  BY <1>1, <1>3 DEF BufferTypes
<1>6. ~Fetching /\ ~Starting /\ \A b \in 0 .. 1 : status[b] = "EMPTY"
  BY <1>2, <1>3 DEF Fetching, Starting
<1>7. FillInv
  BY <1>6 DEF FillInv
<1>8. DrainInv
  BY <1>2, <1>3, <1>6 DEF DrainInv, EngValid, IsStatus, Complete, Upcoming
<1>9. LabelInv
  <2>1. Held = 0 /\ ~Pushed /\ Len(lbl) = 0 /\ lbl \in Seq(Nat)
    BY <1>3, <1>6 DEF Held, Complete, Pushed
  <2>2. want.rec = (owed + inEngine) % conf.n
    BY <1>1, <1>3, SMTT(30)
  <2>3. QED
    BY <1>1, <1>3, <2>1, <2>2 DEF LabelInv, LabelsOf
<1>10. QED
  BY <1>4, <1>5, <1>7, <1>8, <1>9 DEF ReplayInv

\* A cycle: framer, buffers, label FIFO and engine move together.
LEMMA CycleStep ==
  ASSUME Geometry, ReplayInv, [Cycle]_vars
  PROVE  ReplayInv' /\ (LabelRoom /\ LabelInv => LabelInv')
<1>1. CASE Cycle
  <2>1. PICK take \in {FALSE} \cup {CanTake(EngValid)}, retire \in {FALSE} \cup {CanRetire} :
          Tick(Framer(FillReady, TRUE), take, retire)
    BY <1>1 DEF Cycle
  <2>2. /\ take \in BOOLEAN /\ (take => CanTake(EngValid))
        /\ retire \in BOOLEAN /\ (retire => CanRetire)
    BY <2>1 DEF CanTake, EngValid, CanRetire
  <2>3. /\ Framer(FillReady, TRUE) /\ Fill /\ Drain(take) /\ LabelFifo(retire)
        /\ Engine(take, EngLast, retire)
    BY <2>1 DEF Tick, Drain
  <2>4. FramerInv /\ BufInv
    BY DEF ReplayInv, BufInv
  <2>5. FramerInv' /\ FetchStep
    BY <2>3, <2>4, FramerStep
  <2>6. FillInv'
    BY <2>2, <2>3, <2>4, <2>5, FillKept
  <2>7. DrainInv' /\ BufferTypes'
    BY <2>2, <2>3, <2>4, <2>5, DrainKept
  <2>8. LabelRoom /\ LabelInv => LabelInv'
    BY <2>2, <2>3, <2>4, <2>5, LabelStep
  <2>9. QED
    BY <2>5, <2>6, <2>7, <2>8 DEF ReplayInv
<1>2. CASE UNCHANGED vars
  BY <1>2, SMTT(30)
  DEF vars, framerVars, topVars, bufferVars, ReplayInv, FramerInv, FramerTypes, PlaceInv, PulseInv,
      BufferTypes, FillInv, DrainInv, LabelInv, LabelsOf, Fetching, Starting, Upcoming, ThisBurst, Complete,
      Held, Pushed, EngValid, IsStatus, FillReady
<1>3. QED
  BY <1>1, <1>2

\* What the invariant says of the word the engine is offered.
LEMMA Offers ==
  ASSUME ReplayInv
  PROVE  EngineGetsRecords
<1>1. SUFFICES ASSUME EngValid
               PROVE  /\ EngData = WordAt(want.rec, want.idx)
                      /\ EngLast <=> want.idx = conf.nwords - 1
  BY DEF EngineGetsRecords
<1>2. want.idx = drainPtr /\ drainPtr \in 0 .. conf.nwords - 1 /\ Holds(buf[drainSel], conf, want.rec)
  BY <1>1 DEF ReplayInv, BufferTypes, DrainInv
<1>3. buf[drainSel][drainPtr] = Addr(conf, want.rec, want.idx)
  BY <1>2 DEF Holds, HoldsTo
<1>4. QED
  BY <1>1, <1>2, <1>3 DEF EngData, EngLast, WordAt, Addr

\* For every shape of the records, burst length and engine: the two buffers give the
\* engine every tensor word of every record once and in order, eng_last with the last.
THEOREM RecordsDelivered == Geometry /\ Spec => []EngineGetsRecords
<1> SUFFICES ASSUME Geometry
             PROVE  Spec => []EngineGetsRecords
  OBVIOUS
<1>1. Init => ReplayInv
  BY InitReplay
<1>2. ReplayInv /\ [Cycle]_vars => ReplayInv'
  BY CycleStep
<1>3. ReplayInv => EngineGetsRecords
  BY Offers
<1>4. QED
  BY <1>1, <1>2, <1>3, PTL DEF Spec

LEMMA LabelsSay ==
  ASSUME NEW h, LabelsOf(h)
  PROVE  LabelsMatchRecords
<1>1. DOMAIN lbl = 1 .. Len(lbl)
  BY DEF LabelsOf
<1>2. QED
  BY <1>1 DEF LabelsOf, LabelsMatchRecords, WordAt, Addr

\* For every shape of the records, burst length and engine: a label FIFO two deeper than
\* the engine never overflows, and its k-th label is that of the k-th record still to
\* be retired.
THEOREM LabelsMatch == Geometry /\ LabelRoom /\ Spec => []LabelsMatchRecords
<1> SUFFICES ASSUME Geometry, LabelRoom
             PROVE  Spec => []LabelsMatchRecords
  OBVIOUS
<1>1. Init => ReplayInv /\ LabelInv
  BY InitReplay
<1>2. ReplayInv /\ LabelInv /\ [Cycle]_vars => ReplayInv' /\ LabelInv'
  BY CycleStep
<1>3. LabelInv => LabelsMatchRecords
  BY LabelsSay DEF LabelInv
<1>4. QED
  BY <1>1, <1>2, <1>3, PTL DEF Spec

\* For every shape of the records: when the last word of a record goes and the next one
\* is complete, a word is offered in the next cycle.
THEOREM Seamless == Geometry /\ Spec => SeamlessSwitch
<1> SUFFICES ASSUME Geometry
             PROVE  Spec => SeamlessSwitch
  OBVIOUS
<1>1. Init => ReplayInv
  BY InitReplay
<1>2. ReplayInv /\ [Cycle]_vars => ReplayInv'
  BY CycleStep
<1>3. ReplayInv /\ [Cycle]_vars => [want'.idx = 0 /\ want' # want /\ IsStatus("FULL") # {} => EngValid']_vars
  <2>1. SUFFICES ASSUME ReplayInv, Cycle, want'.idx = 0, want' # want, IsStatus("FULL") # {}
                 PROVE  EngValid'
    OBVIOUS
  <2>2. PICK take \in {FALSE} \cup {CanTake(EngValid)}, retire \in {FALSE} \cup {CanRetire} :
          Tick(Framer(FillReady, TRUE), take, retire)
    BY <2>1 DEF Cycle
  <2>3. /\ take \in BOOLEAN /\ Drain(take) /\ Fill /\ Engine(take, EngLast, retire)
        /\ BufInv /\ FramerInv /\ FetchStep
    BY <2>1, <2>2, FramerStep DEF CanTake, EngValid, Tick, Drain, ReplayInv, BufInv
  <2>4. /\ want \in [rec : 0 .. conf.n - 1, idx : 0 .. conf.nwords - 1] /\ conf.nwords \in Nat
        /\ EngValid => want.idx = drainPtr
    BY <2>3, ConfFacts DEF BufInv, BufferTypes, DrainInv, FramerInv, FramerTypes
  <2>5. take /\ want.idx + 1 = conf.nwords
    BY <2>1, <2>3, <2>4 DEF Engine
  <2>6. EngLast
    <3>1. EngValid
      BY <2>3, <2>5, DrainCases
    <3>2. drainPtr \in 0 .. conf.nwords - 1
      BY <2>3 DEF BufInv, BufferTypes
    <3>3. drainPtr = conf.nwords - 1
      BY <2>4, <2>5, <3>1, <3>2
    <3>4. QED
      BY <3>1, <3>3 DEF EngLast
  <2>7. PICK d \in 0 .. 1 :
          status' = [[Filled EXCEPT ![drainSel] = "EMPTY"] EXCEPT ![d] = "DRAINING"]
    BY <2>1, <2>3, <2>5, <2>6, DrainCases
  <2>8. Filled \in [0 .. 1 -> {"EMPTY", "FILLING", "FULL", "DRAINING"}]
    BY <2>3, FilledFacts
  <2>9. status'[d] = "DRAINING"
    BY <2>7, <2>8
  <2>10. QED
    BY <2>9 DEF EngValid, IsStatus
<1>4. QED
  BY <1>1, <1>2, <1>3, PTL DEF Spec, SeamlessSwitch

-------------------------------------------------------------------------------
(* The buffer in cut-through mode.                                          *)

InRecord == Fetching /\ ~Starting
Pending == IF "we" \in pulses THEN 1 ELSE 0

\* The tensor words of the active record that have come into the FIFO.
Arrived ==
  IF Fetching THEN (IF wordIdx <= conf.nwords THEN wordIdx ELSE conf.nwords) - Pending
  ELSE conf.nwords

\* The framer fetches the active record or has it; between two records the FIFO is empty,
\* also while what follows the tensor is fetched.
CutPlaceInv ==
  /\ want \in [rec : 0 .. conf.n - 1, idx : 0 .. conf.nwords - 1]
  /\ words \in Seq(Nat)
  /\ IF active
     THEN /\ ~Starting
          /\ want.rec = recIdx \/ ~Fetching
          /\ Upcoming = Succ(conf, want.rec) \/ Fetching
          /\ remain = conf.nwords - want.idx
     ELSE /\ words = <<>> /\ want.idx = 0
          /\ InRecord => wordIdx >= conf.nwords /\ Pending = 0
          /\ want.rec = IF InRecord THEN Succ(conf, recIdx) ELSE Upcoming

\* The FIFO holds the words of the active record from the wanted one to the last that has
\* come.
CutInv ==
  /\ CutPlaceInv
  /\ active => /\ Len(words) = Arrived - want.idx
               /\ \A k \in 1 .. Len(words) :
                    words[k] = Addr(conf, want.rec, want.idx + k - 1)

\* After a loss there are fewer: the record is never taken to its end.
ShortInv == CutPlaceInv /\ active /\ Len(words) < Arrived - want.idx

FlightInv == IF dropped THEN ShortInv ELSE CutInv

\* How many of the next b words are of the tensor.
OfTensor(b) ==
  IF wordIdx + b <= conf.nwords THEN b
  ELSE IF wordIdx <= conf.nwords THEN conf.nwords - wordIdx ELSE 0

\* Until a burst is asked for one place short there is room for what has been asked for.
\* Such a burst needs more places than the FIFO has, counted from the first of the record.
Asked == IF st = "RECV" THEN OfTensor(burstRem) ELSE IF av.read THEN OfTensor(ThisBurst) ELSE 0
RoomInv ==
  IF tight THEN conf.nwords > CtDepth ELSE ~dropped /\ Len(words) + Pending + Asked <= CtDepth

\* A queue that may lose its head and gain a last element.
Moved(s, x, v, p) ==
  IF p = 1 THEN Append(IF v = 1 THEN Tail(s) ELSE s, x) ELSE IF v = 1 THEN Tail(s) ELSE s

KeepsOrder(r, s, x, v, p) ==
  /\ r \in Seq(Nat)
  /\ Len(r) = Len(s) - v + p
  /\ \A k \in 1 .. Len(r) :
       \/ k + v \in 1 .. Len(s) /\ r[k] = s[k + v]
       \/ p = 1 /\ k + v = Len(s) + 1 /\ r[k] = x

LEMMA QueueStep ==
  ASSUME NEW s \in Seq(Nat), NEW x \in Nat, NEW v \in {0, 1}, NEW p \in {0, 1}, v <= Len(s)
  PROVE  KeepsOrder(Moved(s, x, v, p), s, x, v, p)
<1> DEFINE kept == IF v = 1 THEN Tail(s) ELSE s
           r == Moved(s, x, v, p)
<1>1. Len(s) \in Nat
  OBVIOUS
<1>2. /\ kept \in Seq(Nat) /\ Len(kept) = Len(s) - v
      /\ \A k \in 1 .. Len(kept) : kept[k] = s[k + v]
  <2>1. CASE v = 1
    <3>1. s # <<>>
      BY <1>1, <2>1
    <3>2. QED
      BY <2>1, <3>1, HeadTailProperties
  <2>2. CASE v = 0
    BY <2>2
  <2>3. QED
    BY <2>1, <2>2
<1>3. r = IF p = 1 THEN Append(kept, x) ELSE kept
  BY DEF Moved
<1> HIDE DEF kept, r
<1> SUFFICES KeepsOrder(r, s, x, v, p)
  BY DEF r
<1>4. /\ Append(kept, x) \in Seq(Nat) /\ Len(Append(kept, x)) = Len(kept) + 1
      /\ \A k \in 1 .. Len(kept) : Append(kept, x)[k] = kept[k]
      /\ Append(kept, x)[Len(kept) + 1] = x
  BY <1>2, AppendProperties
<1>5. \A k \in 1 .. Len(kept) : k + v \in 1 .. Len(s)
  BY <1>1, <1>2
<1>6. CASE p = 1
  <2>1. r = Append(kept, x)
    BY <1>3, <1>6
  <2>2. r \in Seq(Nat) /\ Len(r) = Len(s) - v + 1
    BY <1>1, <1>2, <1>4, <2>1
  <2>3. ASSUME NEW k \in 1 .. Len(r)
        PROVE  (k + v \in 1 .. Len(s) /\ r[k] = s[k + v]) \/ (k + v = Len(s) + 1 /\ r[k] = x)
    <3>1. CASE k = Len(kept) + 1
      BY <1>1, <1>2, <1>4, <2>1, <3>1
    <3>2. CASE k # Len(kept) + 1
      <4>1. k \in 1 .. Len(kept)
        BY <1>1, <1>2, <2>2, <3>2
      <4>2. QED
        BY <1>2, <1>4, <1>5, <2>1, <4>1
    <3>3. QED
      BY <3>1, <3>2
  <2>4. QED
    BY <1>6, <2>2, <2>3 DEF KeepsOrder
<1>7. CASE p = 0
  <2>1. r = kept
    BY <1>3, <1>7
  <2>2. r \in Seq(Nat) /\ Len(r) = Len(s) - v + p
    BY <1>1, <1>2, <1>7, <2>1
  <2>3. \A k \in 1 .. Len(r) : k + v \in 1 .. Len(s) /\ r[k] = s[k + v]
    BY <1>2, <1>5, <2>1
  <2>4. QED
    BY <2>2, <2>3 DEF KeepsOrder
<1>8. QED
  BY <1>6, <1>7

\* The framer in front of this buffer.
LEMMA CutFramer ==
  ASSUME Geometry, FramerInv, Framer(Cut!FillReady, Cut!BurstOk)
  PROVE  FramerInv' /\ FetchMoves /\ (st = "REC" /\ Starting' => ~active) /\ AnyFramer
<1>1. Rec(Cut!FillReady) => (active /\ Rec(FALSE)) \/ (~active /\ Rec(TRUE))
  BY DEF Rec, Cut!FillReady
<1>2. Req(Cut!BurstOk) => Req(FALSE) \/ Req(TRUE)
  <2>1. CASE Cut!BurstOk
    BY <2>1 DEF Req
  <2>2. CASE ~Cut!BurstOk
    BY <2>2 DEF Req
  <2>3. QED
    BY <2>1, <2>2
<1>3. AnyFramer
  BY <1>1, <1>2 DEF Framer, AnyFramer
<1>4. FramerInv' /\ FetchMoves
  BY <1>3, FramerMoves
<1>5. st = "REC" /\ Starting' => ~active
  BY DEF Framer, Idle, Rec, Req, RecvWait, RecvWord, NextRec, Finish, Starting, Cut!FillReady
<1>6. QED
  BY <1>3, <1>4, <1>5

\* The numbers of the record that is fetched.
LEMMA CutFacts ==
  ASSUME Geometry, FramerInv, FramerInv', FetchMoves
  PROVE  /\ conf' = conf /\ conf \in Configs /\ conf.nwords \in Nat \ {0} /\ conf.n \in Nat \ {0}
         /\ wordIdx \in Nat /\ wordIdx' \in Nat /\ recIdx \in 0 .. conf.n - 1 /\ data \in Nat
         /\ Succ(conf, recIdx) \in 0 .. conf.n - 1
         /\ ~Fetching => pulses = {}
         /\ Starting => st = "REQ" /\ wordIdx = 0 /\ Pending = 0
         /\ st = "NEXTR" => wordIdx > conf.nwords /\ Pending = 0
         /\ Pending \in {0, 1} /\ Pending' \in {0, 1} /\ (Pending = 1 <=> "we" \in pulses)
         /\ Pending = 1 => /\ InRecord /\ wordIdx > 0 /\ wordIdx <= conf.nwords
                           /\ data = Addr(conf, recIdx, wordIdx - 1)
<1>1. /\ conf' = conf /\ conf \in Configs /\ conf.nwords \in Nat \ {0} /\ conf.n \in Nat \ {0}
      /\ conf.nwords < conf.stride /\ conf.stride \in Nat
      /\ wordIdx \in Nat /\ recIdx \in 0 .. conf.n - 1 /\ data \in Nat
      /\ Succ(conf, recIdx) \in 0 .. conf.n - 1
  BY ConfFacts DEF FetchMoves, FramerInv, FramerTypes
<1>2. /\ ~Fetching => pulses = {}
      /\ Starting => st = "REQ" /\ wordIdx = 0 /\ "we" \notin pulses
      /\ "we" \in pulses => /\ wordIdx > 0 /\ wordIdx <= conf.nwords
                            /\ data = Addr(conf, recIdx, wordIdx - 1)
      /\ st = "NEXTR" => wordIdx = conf.stride
  BY DEF FramerInv, PulseInv, PlaceInv
<1>3. wordIdx' \in Nat
  BY DEF FramerInv, FramerTypes
<1>4. QED
  BY <1>1, <1>2, <1>3 DEF Pending, InRecord

\* The words that come into the FIFO are those the framer has fetched, one cycle later.
LEMMA ArrivedStep ==
  ASSUME Geometry, FramerInv, FramerInv', FetchMoves, ~Starting, ~Starting'
  PROVE  Arrived' = Arrived + Pending
<1>1. /\ conf' = conf /\ conf.nwords \in Nat \ {0} /\ wordIdx \in Nat /\ wordIdx' \in Nat
      /\ ~Fetching => Pending = 0
      /\ st = "NEXTR" => wordIdx > conf.nwords /\ Pending = 0
      /\ Pending \in {0, 1} /\ (Pending = 1 => wordIdx > 0 /\ wordIdx <= conf.nwords)
  BY CutFacts DEF InRecord
<1>2. CASE ~Fetching /\ ~Fetching'
  BY <1>1, <1>2 DEF Arrived
<1>3. CASE st = "REC" /\ Starting'
  BY <1>3
<1>4. CASE /\ Fetching /\ Fetching'
           /\ \/ wordIdx' = wordIdx /\ "we" \notin pulses'
              \/ wordIdx' = wordIdx + 1 /\ ("we" \in pulses' <=> wordIdx < conf.nwords)
  <2>1. Arrived + Pending = IF wordIdx <= conf.nwords THEN wordIdx ELSE conf.nwords
    BY <1>1, <1>4 DEF Arrived
  <2>2. Arrived' = (IF wordIdx' <= conf.nwords THEN wordIdx' ELSE conf.nwords)
                     - (IF "we" \in pulses' THEN 1 ELSE 0)
    BY <1>1, <1>4 DEF Arrived, Pending
  <2>3. QED
    BY <1>1, <1>4, <2>1, <2>2
<1>5. CASE st = "NEXTR" /\ ~Fetching'
  BY <1>1, <1>5 DEF Arrived, Fetching
<1>6. QED
  BY <1>2, <1>3, <1>4, <1>5 DEF FetchMoves, Fetching

\* No record is in flight: the next one begins, or the rest of the last one is fetched.
LEMMA CutResting ==
  ASSUME Geometry, FramerInv, FramerInv', FetchMoves, CutInv, ~active,
         Cut!FifoTick(FALSE), UNCHANGED want
  PROVE  CutInv'
<1>1. /\ conf' = conf /\ conf.nwords \in Nat \ {0} /\ wordIdx \in Nat /\ wordIdx' \in Nat
      /\ ~Fetching => pulses = {} /\ Pending = 0
      /\ Starting => st = "REQ" /\ wordIdx = 0 /\ Pending = 0
      /\ st = "NEXTR" => wordIdx > conf.nwords /\ Pending = 0
      /\ Pending \in {0, 1} /\ (Pending = 1 <=> "we" \in pulses)
  BY CutFacts DEF InRecord
<1>2. /\ want \in [rec : 0 .. conf.n - 1, idx : 0 .. conf.nwords - 1]
      /\ words = <<>> /\ want.idx = 0
      /\ InRecord => wordIdx >= conf.nwords /\ Pending = 0
      /\ want.rec = IF InRecord THEN Succ(conf, recIdx) ELSE Upcoming
  BY DEF CutInv, CutPlaceInv
<1>3. Pending = 0 /\ "we" \notin pulses
  BY <1>1, <1>2 DEF InRecord
<1>4. /\ words' = <<>> /\ want' = want
      /\ active' = Starting
      /\ remain' = IF Starting THEN conf.nwords ELSE remain
  BY <1>2, <1>3 DEF Cut!FifoTick, Cut!Released, Cut!FwLen, Starting
<1>5. <<>> \in Seq(Nat) /\ Len(words') = 0
  BY <1>4
<1>6. CASE Starting
  <2>1. /\ st = "REQ" /\ wordIdx = 0 /\ Fetching' /\ ~Starting' /\ recIdx' = recIdx
        /\ wordIdx' = 0 /\ "we" \notin pulses'
    BY <1>1, <1>6 DEF FetchMoves, Fetching
  <2>2. Arrived' = 0
    BY <1>1, <2>1 DEF Arrived, Pending
  <2>3. want.rec = recIdx
    BY <1>2, <1>6, <2>1 DEF InRecord, Upcoming
  <2>4. active'
    BY <1>4, <1>6
  <2>5. QED
    BY <1>1, <1>2, <1>4, <1>5, <1>6, <2>1, <2>2, <2>3, <2>4 DEF CutInv, CutPlaceInv
<1>7. CASE ~Starting
  <2>1. ~active'
    BY <1>4, <1>7
  <2>2. InRecord' => wordIdx' >= conf.nwords /\ Pending' = 0
    <3>1. SUFFICES ASSUME InRecord'
                   PROVE  wordIdx' >= conf.nwords /\ Pending' = 0
      OBVIOUS
    <3>2. /\ InRecord
          /\ \/ wordIdx' = wordIdx /\ "we" \notin pulses'
             \/ wordIdx' = wordIdx + 1 /\ ("we" \in pulses' <=> wordIdx < conf.nwords)
      BY <1>7, <3>1 DEF FetchMoves, InRecord, Fetching
    <3>3. QED
      BY <1>1, <1>2, <3>2 DEF Pending
  <2>3. want.rec = IF InRecord' THEN Succ(conf, recIdx') ELSE Upcoming'
    <3>1. CASE ~Fetching /\ ~Fetching' /\ Upcoming' = Upcoming
      BY <1>2, <3>1 DEF InRecord
    <3>2. CASE st = "REC" /\ st' = "REQ" /\ Starting' /\ recIdx' = recIdx
      BY <1>2, <3>2 DEF InRecord, Upcoming, Fetching
    <3>3. CASE st \in {"REQ", "RECV"} /\ Fetching' /\ ~Starting' /\ recIdx' = recIdx
      BY <1>2, <1>7, <3>3 DEF InRecord, Fetching
    <3>4. CASE st = "NEXTR" /\ ~Fetching' /\ Upcoming' = Succ(conf, recIdx)
      BY <1>2, <1>7, <3>4 DEF InRecord, Fetching
    <3>5. QED
      BY <3>1, <3>2, <3>3, <3>4 DEF FetchMoves
  <2>4. QED
    BY <1>1, <1>2, <1>4, <1>5, <2>1, <2>2, <2>3 DEF CutInv, CutPlaceInv
<1>8. QED
  BY <1>6, <1>7

\* Where the framer goes from the active record, as far as the wanted one sees it.
LEMMA CutPlace ==
  ASSUME Geometry, FramerInv, FramerInv', FetchMoves, CutPlaceInv, active,
         st = "REC" /\ Starting' => ~active
  PROVE  /\ ~Starting /\ ~Starting'
         /\ want.rec = recIdx' \/ ~Fetching'
         /\ Upcoming' = Succ(conf, want.rec) \/ Fetching'
<1>1. /\ ~Starting
      /\ want.rec = recIdx \/ ~Fetching
      /\ Upcoming = Succ(conf, want.rec) \/ Fetching
      /\ ~Fetching => pulses = {}
  BY CutFacts DEF CutPlaceInv
<1>2. CASE ~Fetching /\ ~Fetching' /\ pulses' = {} /\ Upcoming' = Upcoming
  BY <1>1, <1>2 DEF Starting
<1>3. CASE st = "REC" /\ Starting'
  BY <1>3
<1>4. CASE st \in {"REQ", "RECV"} /\ Fetching' /\ ~Starting' /\ recIdx' = recIdx
  BY <1>1, <1>4 DEF Fetching
<1>5. CASE st = "NEXTR" /\ ~Fetching' /\ pulses' = {} /\ Upcoming' = Succ(conf, recIdx)
  BY <1>1, <1>5 DEF Fetching, Starting
<1>6. QED
  BY <1>2, <1>3, <1>4, <1>5 DEF FetchMoves

\* A record is in flight: a word may come in and a word may go, and with the last one
\* the FIFO is empty.
LEMMA CutActive ==
  ASSUME Geometry, FramerInv, FramerInv', FetchMoves, CutInv, active,
         st = "REC" /\ Starting' => ~active,
         NEW take \in BOOLEAN, take => words # <<>>, NEW retire,
         Cut!FifoTick(take), Engine(take, Cut!EngLast, retire), ~dropped'
  PROVE  CutInv'
<1> DEFINE nw == conf.nwords
           o == want.idx
           v == IF take THEN 1 ELSE 0
           in == "we" \in pulses
<1>1. /\ conf' = conf /\ nw \in Nat \ {0} /\ wordIdx \in Nat /\ wordIdx' \in Nat
      /\ data \in Nat
      /\ Pending \in {0, 1} /\ (Pending = 1 <=> in)
      /\ Pending = 1 => /\ InRecord /\ wordIdx > 0 /\ wordIdx <= nw
                        /\ data = Addr(conf, recIdx, wordIdx - 1)
      /\ \A r \in 0 .. conf.n - 1 : Succ(conf, r) \in 0 .. conf.n - 1
  BY CutFacts, ConfFacts
<1>2. /\ want \in [rec : 0 .. conf.n - 1, idx : 0 .. nw - 1]
      /\ words \in Seq(Nat) /\ Len(words) \in Nat
      /\ want.rec = recIdx \/ ~Fetching
      /\ remain = nw - o
      /\ Len(words) = Arrived - o
      /\ \A k \in 1 .. Len(words) : words[k] = Addr(conf, want.rec, o + k - 1)
  BY DEF CutInv, CutPlaceInv
<1>3. /\ ~Starting /\ ~Starting'
      /\ want.rec = recIdx' \/ ~Fetching'
      /\ Upcoming' = Succ(conf, want.rec) \/ Fetching'
  BY CutPlace DEF CutInv
<1>4. Arrived' = Arrived + Pending
  BY <1>3, ArrivedStep
<1>5. /\ words' = IF in THEN Append(IF take THEN Tail(words) ELSE words, data)
                ELSE IF take THEN Tail(words) ELSE words
      /\ remain' = IF take THEN remain - 1 ELSE remain
      /\ active' = ~(take /\ Cut!EngLast)
      /\ Cut!EngLast <=> words # <<>> /\ remain = 1
  BY <1>3 DEF Cut!FifoTick, Cut!Released, Cut!EngLast, Cut!EngValid, Starting
<1>6. /\ words' \in Seq(Nat) /\ Len(words') = Len(words) - v + Pending
      /\ \A k \in 1 .. Len(words') :
           \/ k + v \in 1 .. Len(words) /\ words'[k] = words[k + v]
           \/ Pending = 1 /\ k + v = Len(words) + 1 /\ words'[k] = data
  <2>1. v <= Len(words)
    BY <1>2, EmptySeq
  <2>2. words' = Moved(words, data, v, Pending)
    BY <1>1, <1>5 DEF Moved
  <2>3. v \in {0, 1}
    OBVIOUS
  <2> HIDE DEF v, in, nw, o
  <2>4. words \in Seq(Nat) /\ data \in Nat /\ Pending \in {0, 1}
    BY <1>1, <1>2
  <2>5. KeepsOrder(Moved(words, data, v, Pending), words, data, v, Pending)
    BY <2>1, <2>3, <2>4, QueueStep
  <2>6. QED
    BY <2>2, <2>5 DEF KeepsOrder
<1>7. want' = IF ~take THEN want
              ELSE IF o + 1 = nw THEN [rec |-> Succ(conf, want.rec), idx |-> 0]
              ELSE [want EXCEPT !.idx = @ + 1]
  BY DEF Engine, NextRecord, Succ
<1>8. v \in {0, 1} /\ (v = 1 <=> take) /\ o \in 0 .. nw - 1
  BY <1>2
<1>9. in => Len(words) + o + 1 = wordIdx /\ want.rec = recIdx
  <2>1. SUFFICES ASSUME in
                 PROVE  Len(words) + o + 1 = wordIdx /\ want.rec = recIdx
    OBVIOUS
  <2>2. Fetching /\ wordIdx <= nw /\ Pending = 1
    BY <1>1, <2>1 DEF InRecord
  <2>3. Arrived = wordIdx - 1
    BY <1>1, <2>2 DEF Arrived
  <2>4. QED
    BY <1>1, <1>2, <1>8, <2>2, <2>3
<1> HIDE DEF v, in, nw, o
<1>10. Len(words') = Arrived' - (o + v)
  <2>1. Len(words) + o = Arrived /\ Arrived \in Int
    <3>1. Arrived \in Int
      BY <1>1 DEF Arrived, nw
    <3>2. QED
      BY <1>2, <1>8, <3>1
  <2>2. QED
    BY <1>1, <1>2, <1>4, <1>6, <1>8, <2>1
<1>11. ASSUME NEW k \in 1 .. Len(words')
       PROVE  words'[k] = Addr(conf, want.rec, (o + v) + k - 1)
  <2>1. CASE k + v \in 1 .. Len(words) /\ words'[k] = words[k + v]
    <3>1. words[k + v] = Addr(conf, want.rec, o + (k + v) - 1)
      BY <1>2, <2>1
    <3>2. o + (k + v) - 1 = (o + v) + k - 1
      BY <1>6, <1>8
    <3>3. QED
      BY <2>1, <3>1, <3>2
  <2>2. CASE Pending = 1 /\ k + v = Len(words) + 1 /\ words'[k] = data
    <3>1. data = Addr(conf, want.rec, wordIdx - 1)
      BY <1>1, <1>9, <2>2
    <3>2. Len(words) + o + 1 = wordIdx /\ Len(words) \in Nat
      BY <1>1, <1>2, <1>9, <2>2
    <3>3. k \in Nat
      BY <1>6
    <3>4. wordIdx - 1 = (o + v) + k - 1
      BY <1>1, <1>8, <2>2, <3>2, <3>3
    <3>5. QED
      BY <2>2, <3>1, <3>4
  <2>3. QED
    BY <1>6, <2>1, <2>2
<1>12. CASE ~take \/ o + 1 # nw
  <2>1. want' = [want EXCEPT !.idx = o + v]
    BY <1>2, <1>7, <1>8, <1>12 DEF o
  <2>2. want'.rec = want.rec /\ want'.idx = o + v
    BY <1>2, <2>1
  <2>3. active' /\ remain' = nw - (o + v)
    <3>1. take => remain # 1
      BY <1>1, <1>2, <1>8, <1>12
    <3>2. active'
      BY <1>5, <3>1
    <3>3. remain' = nw - (o + v)
      BY <1>1, <1>2, <1>5, <1>8
    <3>4. QED
      BY <3>2, <3>3
  <2>4. o + v \in 0 .. nw - 1
    BY <1>1, <1>8, <1>12
  <2>5. want' \in [rec : 0 .. conf.n - 1, idx : 0 .. nw - 1]
    BY <1>2, <2>1, <2>4
  <2>6. QED
    BY <1>1, <1>3, <1>6, <1>10, <1>11, <2>2, <2>3, <2>5 DEF CutInv, CutPlaceInv, nw
<1>13. CASE take /\ o + 1 = nw
  <2>1. want' = [rec |-> Succ(conf, want.rec), idx |-> 0]
    BY <1>7, <1>13
  <2>2. remain = 1 /\ ~active'
    <3>1. remain = 1
      BY <1>1, <1>2, <1>8, <1>13
    <3>2. QED
      BY <1>5, <1>13, <3>1
  <2>3. Arrived = nw /\ Pending = 0 /\ Len(words) = 1
    <3>1. Len(words) >= 1
      BY <1>2, <1>13, EmptySeq
    <3>2. Arrived >= nw
      <4>1. Arrived \in Int
        BY <1>1 DEF Arrived, nw
      <4>2. QED
        BY <1>1, <1>2, <1>8, <1>13, <3>1, <4>1
    <3>3. Arrived <= nw - Pending
      <4>1. ~Fetching => Pending = 0
        BY <1>1 DEF InRecord
      <4>2. QED
        BY <1>1, <4>1 DEF Arrived, nw
    <3>4. Arrived \in Int
      BY <1>1 DEF Arrived, nw
    <3>5. Arrived = nw /\ Pending = 0
      BY <1>1, <3>2, <3>3, <3>4
    <3>6. QED
      BY <1>1, <1>2, <1>8, <1>13, <3>5
  <2>4. words' = <<>>
    <3>1. Len(words') = 0
      BY <1>1, <1>6, <1>8, <1>13, <2>3
    <3>2. QED
      BY <1>6, <3>1, EmptySeq
  <2>5. InRecord' => wordIdx' >= nw /\ Pending' = 0 /\ want.rec = recIdx'
    <3>1. SUFFICES ASSUME InRecord'
                   PROVE  wordIdx' >= nw /\ Pending' = 0 /\ want.rec = recIdx'
      OBVIOUS
    <3>2. Fetching' /\ Arrived' = nw /\ want.rec = recIdx'
      BY <1>1, <1>3, <1>4, <2>3, <3>1 DEF InRecord
    <3>3. Arrived' = (IF wordIdx' <= nw THEN wordIdx' ELSE nw) - Pending' /\ Pending' \in {0, 1}
      BY <1>1, <3>2 DEF Arrived, nw, Pending
    <3>4. nw \in Nat
      BY <1>1
    <3>5. PICK w \in Nat, p \in {0, 1} : w = wordIdx' /\ p = Pending'
      BY <1>1, <3>3
    <3>6. nw = (IF w <= nw THEN w ELSE nw) - p
      BY <3>2, <3>3, <3>5
    <3>7. w >= nw /\ p = 0
      <4>1. CASE p = 0
        BY <3>4, <3>6, <4>1
      <4>2. CASE p = 1
        BY <3>4, <3>6, <4>2
      <4>3. QED
        BY <4>1, <4>2
    <3>8. QED
      BY <3>2, <3>5, <3>7
  <2>6. Upcoming' = Succ(conf, want.rec) \/ InRecord'
    BY <1>3 DEF InRecord
  <2>7. want' \in [rec : 0 .. conf.n - 1, idx : 0 .. nw - 1]
    BY <1>1, <1>2, <2>1
  <2>8. want'.rec = Succ(conf, want.rec) /\ want'.idx = 0
    BY <2>1
  <2>9. want'.rec = IF InRecord' THEN Succ(conf, recIdx') ELSE Upcoming'
    BY <2>5, <2>6, <2>8
  <2>10. QED
    BY <1>1, <1>6, <2>2, <2>4, <2>5, <2>7, <2>8, <2>9 DEF CutInv, CutPlaceInv, nw
<1>14. QED
  BY <1>12, <1>13

\* A word has been lost, or is lost now: the record is never taken to its last word.
LEMMA CutShort ==
  ASSUME Geometry, FramerInv, FramerInv', FetchMoves, CutPlaceInv, active,
         st = "REC" /\ Starting' => ~active,
         NEW take \in BOOLEAN, take => words # <<>>, NEW retire,
         Cut!FifoTick(take), Engine(take, Cut!EngLast, retire),
         \/ Len(words) < Arrived - want.idx
         \/ Len(words) = Arrived - want.idx /\ "we" \in pulses /\ Len(words) = CtDepth
  PROVE  ShortInv'
<1> DEFINE nw == conf.nwords
           o == want.idx
           v == IF take THEN 1 ELSE 0
<1>1. /\ conf' = conf /\ nw \in Nat \ {0} /\ wordIdx \in Nat /\ data \in Nat
      /\ Pending \in {0, 1} /\ (Pending = 1 <=> "we" \in pulses)
      /\ Pending = 1 => Fetching
  BY CutFacts DEF InRecord
<1>2. /\ want \in [rec : 0 .. conf.n - 1, idx : 0 .. nw - 1]
      /\ words \in Seq(Nat) /\ Len(words) \in Nat
      /\ remain = nw - o
  BY DEF CutPlaceInv
<1>3. /\ ~Starting /\ ~Starting'
      /\ want.rec = recIdx' \/ ~Fetching'
      /\ Upcoming' = Succ(conf, want.rec) \/ Fetching'
  BY CutPlace
<1>4. /\ Arrived' = Arrived + Pending
      /\ Arrived \in Int /\ Arrived <= nw - Pending
  <2>1. Arrived \in Int /\ Arrived <= nw - Pending
    BY <1>1 DEF Arrived
  <2>2. QED
    BY <1>3, <2>1, ArrivedStep
<1>5. /\ words' = IF "we" \in pulses /\ Len(words) # CtDepth
                  THEN Append(IF take THEN Tail(words) ELSE words, data)
                  ELSE IF take THEN Tail(words) ELSE words
      /\ remain' = IF take THEN remain - 1 ELSE remain
      /\ active' = ~(take /\ Cut!EngLast)
      /\ Cut!EngLast <=> words # <<>> /\ remain = 1
  BY <1>3 DEF Cut!FifoTick, Cut!Released, Cut!EngLast, Cut!EngValid, Starting
<1>6. want' = IF ~take THEN want
              ELSE IF o + 1 = nw THEN [rec |-> Succ(conf, want.rec), idx |-> 0]
              ELSE [want EXCEPT !.idx = @ + 1]
  BY DEF Engine, NextRecord, Succ
<1>7. /\ v \in {0, 1} /\ (v = 1 <=> take) /\ v <= Len(words)
      /\ o \in 0 .. nw - 1
  BY <1>2, EmptySeq
<1> HIDE DEF nw, o, v
<1>8. \/ Len(words) < Arrived - o
      \/ Len(words) = Arrived - o /\ Pending = 1 /\ Len(words) = CtDepth
  BY <1>1 DEF o
<1>9. take => remain # 1 /\ o + 1 < nw
  BY <1>1, <1>2, <1>4, <1>7, <1>8
<1>10. active' /\ want' = [want EXCEPT !.idx = o + v]
  <2>1. active'
    BY <1>5, <1>9
  <2>2. CASE take
    <3>1. want' = [want EXCEPT !.idx = @ + 1] /\ v = 1 /\ o + 1 # nw
      BY <1>6, <1>7, <1>9, <2>2, <1>1
    <3>2. QED
      BY <2>1, <3>1 DEF o
  <2>3. CASE ~take
    <3>1. want' = want /\ o + v = want.idx
      BY <1>6, <1>7, <2>3 DEF o
    <3>2. QED
      BY <1>2, <2>1, <3>1
  <2>4. QED
    BY <2>2, <2>3
<1>11. /\ want'.rec = want.rec /\ want'.idx = o + v
       /\ want' \in [rec : 0 .. conf.n - 1, idx : 0 .. nw - 1]
  BY <1>1, <1>2, <1>7, <1>9, <1>10
<1>12. /\ words' \in Seq(Nat) /\ Len(words') \in Nat
       /\ Len(words') <= Len(words) - v + Pending
       /\ Len(words) = CtDepth => Len(words') = Len(words) - v
  <2> DEFINE p == IF "we" \in pulses /\ Len(words) # CtDepth THEN 1 ELSE 0
  <2>1. words' = Moved(words, data, v, p)
    <3>1. words' = IF p = 1 THEN Append(IF v = 1 THEN Tail(words) ELSE words, data)
                   ELSE IF v = 1 THEN Tail(words) ELSE words
      BY <1>5, <1>7
    <3>2. QED
      BY <3>1 DEF Moved
  <2>2. p \in {0, 1} /\ p <= Pending /\ (Len(words) = CtDepth => p = 0)
    BY <1>1
  <2> HIDE DEF p
  <2>3. KeepsOrder(Moved(words, data, v, p), words, data, v, p)
    BY <1>1, <1>2, <1>7, <2>2, QueueStep
  <2>4. words' \in Seq(Nat) /\ Len(words') = Len(words) - v + p
    BY <2>1, <2>3 DEF KeepsOrder
  <2>5. QED
    BY <1>1, <1>2, <1>7, <2>2, <2>4
<1>13. Len(words') < Arrived' - (o + v)
  BY <1>1, <1>2, <1>4, <1>7, <1>8, <1>12
<1>14. remain' = nw - (o + v)
  BY <1>1, <1>2, <1>5, <1>7
<1>15. QED
  BY <1>1, <1>3, <1>10, <1>11, <1>12, <1>13, <1>14 DEF ShortInv, CutPlaceInv, nw

\* A word that comes was asked for.  More is asked for by a command only, which is raised
\* when there is room for a burst.
LEMMA AskedStep ==
  ASSUME Geometry, FramerInv, FramerInv', NEW ready, NEW room, Framer(ready, room)
  PROVE  \/ Pending' + Asked' <= Asked
         \/ room /\ st = "REQ" /\ Pending' = 0 /\ Asked' = OfTensor(ThisBurst)
<1> DEFINE nw == conf.nwords
<1>1. /\ conf \in Configs /\ nw \in Nat /\ wordIdx \in Nat /\ wordsLeft \in Nat /\ burstRem \in Nat
      /\ MaxBurst \in Nat \ {0} /\ av.read \in BOOLEAN
  BY ConfFacts DEF FramerInv, FramerTypes
<1>2. /\ av.read => st = "REQ"
      /\ st = "RECV" => burstRem > 0
  BY DEF FramerInv, PlaceInv
<1>3. ASSUME NEW b \in Nat
      PROVE  OfTensor(b) \in Nat
  BY <1>1, <1>3 DEF OfTensor
<1>4. ThisBurst \in Nat
  BY <1>1 DEF ThisBurst
<1>5. Asked \in Nat
  BY <1>1, <1>3, <1>4 DEF Asked
<1>6. CASE Idle \/ Rec(ready) \/ NextRec \/ Finish
  <2>1. "we" \notin pulses' /\ av' = av /\ st' # "RECV" /\ st # "REQ"
    BY <1>6 DEF Idle, Rec, NextRec, Finish
  <2>2. Pending' = 0 /\ Asked' = 0
    BY <1>2, <2>1 DEF Pending, Asked
  <2>3. QED
    BY <1>5, <2>2
<1>7. CASE Req(room)
  <2>1. /\ st = "REQ" /\ Pending' = 0 /\ wordIdx' = wordIdx /\ wordsLeft' = wordsLeft /\ conf' = conf
    BY <1>7 DEF Req, Pending
  <2>2. OfTensor(ThisBurst)' = OfTensor(ThisBurst)
    BY <2>1 DEF OfTensor, ThisBurst
  <2>3. \/ st' = "REQ" /\ av' = av
        \/ st' = "REQ" /\ av'.read /\ room
        \/ st' = "RECV" /\ burstRem' = ThisBurst /\ av.read
    BY <1>7 DEF Req
  <2>4. CASE st' = "REQ" /\ av' = av
    <3>1. Asked' = Asked
      BY <2>1, <2>2, <2>4 DEF Asked
    <3>2. QED
      BY <1>5, <2>1, <3>1
  <2>5. CASE st' = "REQ" /\ av'.read /\ room
    BY <2>1, <2>2, <2>5 DEF Asked
  <2>6. CASE st' = "RECV" /\ burstRem' = ThisBurst /\ av.read
    <3>1. OfTensor(burstRem)' = OfTensor(ThisBurst)
      BY <2>1, <2>6 DEF OfTensor
    <3>2. Asked' = Asked
      BY <2>1, <2>6, <3>1 DEF Asked
    <3>3. QED
      BY <1>5, <2>1, <3>2
  <2>7. QED
    BY <2>3, <2>4, <2>5, <2>6
<1>8. CASE RecvWait
  <2>1. /\ "we" \notin pulses' /\ av' = av /\ st' = st /\ wordIdx' = wordIdx /\ wordsLeft' = wordsLeft
        /\ burstRem' = burstRem /\ conf' = conf
    BY <1>8 DEF RecvWait
  <2>2. Pending' = 0 /\ Asked' = Asked
    BY <2>1 DEF Pending, Asked, OfTensor, ThisBurst
  <2>3. QED
    BY <1>5, <2>2
<1>9. CASE RecvWord
  <2>1. /\ st = "RECV" /\ wordIdx' = wordIdx + 1 /\ burstRem' = burstRem - 1
        /\ av' = av /\ conf' = conf
        /\ st' # "RECV" => burstRem = 1
    BY <1>9 DEF RecvWord, LastOfRecord
  <2>2. "we" \in pulses' <=> wordIdx < nw
    BY <1>1, <1>9 DEF RecvWord, Route
  <2>3. Pending' = IF wordIdx < nw THEN 1 ELSE 0
    BY <2>2 DEF Pending
  <2>4. Asked = OfTensor(burstRem) /\ burstRem > 0
    BY <1>2, <2>1 DEF Asked
  <2>5. CASE st' = "RECV"
    <3>1. Asked' = IF wordIdx' + burstRem' <= nw THEN burstRem'
                   ELSE IF wordIdx' <= nw THEN nw - wordIdx' ELSE 0
      BY <2>1, <2>5 DEF Asked, OfTensor
    <3>2. Pending' + Asked' = Asked
      BY <1>1, <2>1, <2>3, <2>4, <3>1 DEF OfTensor
    <3>3. QED
      BY <1>5, <3>2
  <2>6. CASE st' # "RECV"
    <3>1. Asked' = 0
      BY <1>2, <2>1, <2>6 DEF Asked
    <3>2. Pending' <= Asked
      BY <1>1, <2>1, <2>3, <2>4, <2>6 DEF OfTensor
    <3>3. Pending' + Asked' = Pending'
      BY <2>3, <3>1
    <3>4. QED
      BY <3>2, <3>3
  <2>7. QED
    BY <2>5, <2>6
<1>10. QED
  BY <1>6, <1>7, <1>8, <1>9 DEF Framer

\* A command is raised a cycle after a word may have been written that the FIFO does not
\* count yet.  Unless the burst needs every free place, this word has its own all the same;
\* and if it does, the record is longer than the FIFO.
LEMMA RoomKept ==
  ASSUME Geometry, FramerInv, FramerInv', FetchMoves, FlightInv, RoomInv,
         Framer(Cut!FillReady, Cut!BurstOk),
         NEW take \in BOOLEAN, take => words # <<>>, Cut!FifoTick(take),
         tight' = (tight \/ Cut!OnePlaceShort)
  PROVE  RoomInv'
<1> DEFINE nw == conf.nwords
           v == IF take THEN 1 ELSE 0
           b == ThisBurst
<1>1. /\ conf \in Configs /\ nw \in Nat \ {0} /\ wordIdx \in Nat /\ wordsLeft \in Nat /\ burstRem \in Nat
      /\ data \in Nat /\ MaxBurst \in Nat \ {0} /\ CtDepth \in Nat /\ conf' = conf
      /\ Pending \in {0, 1} /\ (Pending = 1 <=> "we" \in pulses)
      /\ Starting => wordIdx = 0 /\ Pending = 0
  BY CutFacts, ConfFacts, FramerAssumption, CutAssumption DEF FramerInv, FramerTypes
<1>2. CASE tight
  BY <1>1, <1>2 DEF RoomInv
<1> SUFFICES ASSUME ~tight
             PROVE  RoomInv'
  BY <1>2
<1>3. CutInv /\ ~dropped /\ Len(words) + Pending + Asked <= CtDepth
  BY DEF RoomInv, FlightInv
<1>4. /\ words \in Seq(Nat) /\ Len(words) \in Nat
      /\ want \in [rec : 0 .. conf.n - 1, idx : 0 .. nw - 1]
      /\ active => ~Starting /\ Len(words) = Arrived - want.idx
      /\ ~active => words = <<>> /\ (InRecord => Pending = 0)
  BY <1>3 DEF CutInv, CutPlaceInv
<1>5. b \in Nat /\ b <= MaxBurst
  BY <1>1 DEF ThisBurst
<1>6. Asked \in Nat
  <2>1. \A m \in Nat : OfTensor(m) \in Nat
    BY <1>1 DEF OfTensor
  <2>2. QED
    BY <1>1, <1>5, <2>1 DEF Asked
<1> HIDE DEF nw, v, b
<1>7. st = "REQ" => Len(words) + Pending <= wordIdx
  <2>1. CASE st = "REQ" /\ active
    <3>1. Arrived + Pending <= wordIdx /\ Arrived \in Int
      BY <1>1, <2>1 DEF Arrived, Fetching, nw
    <3>2. QED
      BY <1>1, <1>4, <2>1, <3>1
  <2>2. CASE st = "REQ" /\ ~active
    <3>1. Len(words) = 0 /\ Pending = 0
      BY <1>1, <1>4, <2>2 DEF InRecord, Fetching
    <3>2. QED
      BY <1>1, <3>1
  <2>3. QED
    BY <2>1, <2>2
<1>8. CASE Cut!OnePlaceShort
  <2>1. st = "REQ" /\ Pending = 1 /\ CtDepth - Len(words) = MaxBurst /\ wordIdx + MaxBurst <= nw
    BY <1>1, <1>8 DEF Cut!OnePlaceShort, nw
  <2>2. nw > CtDepth
    BY <1>1, <1>4, <1>7, <2>1
  <2>3. QED
    BY <1>1, <1>8, <2>2 DEF RoomInv, nw
<1> SUFFICES ASSUME ~Cut!OnePlaceShort
             PROVE  RoomInv'
  BY <1>8
<1>9. ~("we" \in pulses /\ Len(words) = CtDepth)
  BY <1>1, <1>3, <1>4, <1>6
<1>10. ~dropped' /\ words' = Moved(words, data, v, Pending)
  <2>1. ~dropped'
    BY <1>3, <1>9 DEF Cut!FifoTick
  <2>2. words' = IF "we" \in pulses THEN Append(IF take THEN Tail(words) ELSE words, data)
                 ELSE IF take THEN Tail(words) ELSE words
    BY <1>9 DEF Cut!FifoTick
  <2>3. v = 1 <=> take
    BY DEF v
  <2>4. QED
    BY <1>1, <2>1, <2>2, <2>3 DEF Moved
<1>11. Len(words') \in Nat /\ Len(words') <= Len(words) + Pending
  <2>1. v \in {0, 1} /\ v <= Len(words)
    BY <1>4, EmptySeq DEF v
  <2>2. words \in Seq(Nat) /\ data \in Nat /\ Pending \in {0, 1}
    BY <1>1, <1>4
  <2>3. KeepsOrder(Moved(words, data, v, Pending), words, data, v, Pending)
    BY <2>1, <2>2, QueueStep
  <2>4. words' \in Seq(Nat) /\ Len(words') = Len(words) - v + Pending
    BY <1>10, <2>3 DEF KeepsOrder
  <2>5. QED
    BY <1>1, <1>4, <2>1, <2>4
<1>12. Pending' \in {0, 1} /\ ~tight'
  BY DEF Pending
<1>13. Asked' \in Int
  <2>1. /\ conf' \in Configs /\ conf'.nwords \in Nat /\ wordIdx' \in Nat /\ wordsLeft' \in Nat
        /\ burstRem' \in Nat
    BY ConfFacts DEF FramerInv, FramerTypes
  <2>2. ThisBurst' \in Nat
    BY <1>1, <2>1 DEF ThisBurst
  <2>3. QED
    BY <2>1, <2>2 DEF Asked, OfTensor
<1>14. CASE Pending' + Asked' <= Asked
  <2>1. PICK l \in Nat, p \in Int, a \in Int : l = Len(words') /\ p = Pending' /\ a = Asked'
    BY <1>11, <1>12, <1>13
  <2>2. l <= Len(words) + Pending /\ p + a <= Asked
    BY <1>11, <1>14, <2>1
  <2>3. l + p + a <= CtDepth
    BY <1>1, <1>3, <1>4, <1>6, <2>2
  <2>4. QED
    BY <1>10, <1>12, <2>1, <2>3 DEF RoomInv
<1>15. CASE Cut!BurstOk /\ st = "REQ" /\ Pending' = 0 /\ Asked' = OfTensor(b)
  <2>1. CtDepth - Len(words) >= MaxBurst
    BY <1>15 DEF Cut!BurstOk
  <2>2. OfTensor(b) \in Nat /\ OfTensor(b) <= b
    BY <1>1, <1>5 DEF OfTensor, nw
  <2>3. Len(words) + Pending + OfTensor(b) <= CtDepth
    <3>1. CASE Pending = 0 \/ OfTensor(b) < MaxBurst
      BY <1>1, <1>4, <1>5, <2>1, <2>2, <3>1
    <3>2. CASE Pending = 1 /\ OfTensor(b) = MaxBurst
      <4>1. b = MaxBurst
        BY <1>1, <1>5, <2>2, <3>2
      <4>2. wordIdx + MaxBurst <= nw
        BY <1>1, <3>2, <4>1 DEF OfTensor, nw
      <4>3. CtDepth - Len(words) # MaxBurst
        BY <1>1, <1>15, <3>2, <4>2 DEF Cut!OnePlaceShort, nw
      <4>4. QED
        BY <1>1, <1>4, <2>1, <3>2, <4>3
    <3>3. QED
      BY <1>1, <1>5, <2>2, <3>1, <3>2
  <2>4. OfTensor(b) \in Int
    BY <2>2
  <2>5. Len(words') + Pending' + Asked' <= CtDepth
    BY <1>1, <1>4, <1>11, <1>15, <2>3, <2>4
  <2>6. QED
    BY <1>10, <1>12, <2>5 DEF RoomInv
<1>16. QED
  BY <1>14, <1>15, AskedStep DEF b

\* The labels in cut-through mode: the record that is fetched may have been taken to its
\* last word before its label comes.
CutHeld == IF active /\ ~InRecord THEN 1 ELSE IF ~active /\ InRecord THEN -1 ELSE 0
CutLabelInv == LabelsOf(CutHeld)

\* The labels of the engine's records and of the one in flight fit.
CutLabelRoom == CtLabelDepth \in Nat /\ CtLabelDepth >= EngineDepth + 1

\* A record more waits when its fetch is over, one fewer when its last word is taken.
LEMMA CutHeldStep ==
  ASSUME Geometry, FramerInv, FramerInv', CutPlaceInv, FetchMoves, st = "REC" /\ Starting' => ~active,
         NEW take \in BOOLEAN, take => active /\ words # <<>>, Cut!FifoTick(take)
  PROVE  CutHeld' = CutHeld + (IF st = "NEXTR" THEN 1 ELSE 0) - (IF take /\ Cut!EngLast THEN 1 ELSE 0)
<1> DEFINE done == take /\ Cut!EngLast
<1>1. active' <=> ~done /\ (active \/ Starting)
  BY DEF Cut!FifoTick, Cut!Released, Starting
<1>2. /\ active => ~Starting
      /\ Starting => st = "REQ" /\ Fetching
      /\ done => active
      /\ st = "NEXTR" => Fetching
      /\ st = "REC" => ~Fetching
  BY CutFacts DEF CutPlaceInv, Cut!EngLast, Cut!EngValid, Fetching
<1> HIDE DEF done
<1>3. SUFFICES CutHeld' = CutHeld + (IF st = "NEXTR" THEN 1 ELSE 0) - (IF done THEN 1 ELSE 0)
  BY DEF done
<1>4. CASE ~Fetching /\ ~Fetching'
  BY <1>1, <1>2, <1>4 DEF CutHeld, InRecord
<1>5. CASE st = "REC" /\ Starting'
  BY <1>1, <1>2, <1>5 DEF CutHeld, InRecord
<1>6. CASE st \in {"REQ", "RECV"} /\ Fetching' /\ ~Starting'
  <2>1. Fetching /\ st # "NEXTR" /\ InRecord'
    BY <1>6 DEF Fetching, InRecord
  <2>2. CASE Starting
    <3>1. active' /\ ~done /\ ~active /\ ~InRecord
      BY <1>1, <1>2, <2>2 DEF InRecord
    <3>2. QED
      BY <2>1, <3>1 DEF CutHeld
  <2>3. CASE ~Starting
    <3>1. InRecord /\ (active' <=> active /\ ~done)
      BY <1>1, <2>1, <2>3 DEF InRecord
    <3>2. QED
      BY <1>2, <2>1, <3>1 DEF CutHeld
  <2>4. QED
    BY <2>2, <2>3
<1>7. CASE st = "NEXTR" /\ ~Fetching'
  <2>1. Fetching /\ ~Starting /\ InRecord /\ ~InRecord' /\ (active' <=> active /\ ~done)
    BY <1>1, <1>2, <1>7 DEF InRecord
  <2>2. QED
    BY <1>2, <1>7, <2>1 DEF CutHeld
<1>8. QED
  BY <1>4, <1>5, <1>6, <1>7 DEF FetchMoves

LEMMA CutLabelStep ==
  ASSUME Geometry, CutLabelRoom, FramerInv, FramerInv', CutPlaceInv, CutLabelInv, FetchMoves,
         st = "REC" /\ Starting' => ~active,
         NEW take \in BOOLEAN, Cut!FifoTick(take), take => Cut!CanTake(Cut!EngValid),
         NEW retire \in BOOLEAN, retire => CanRetire,
         Cut!LabelFifo(retire), Engine(take, Cut!EngLast, retire)
  PROVE  CutLabelInv'
<1> DEFINE n == conf.n
           nw == conf.nwords
           t == IF take /\ Cut!EngLast THEN 1 ELSE 0
<1>1. /\ conf \in Configs /\ n \in Nat \ {0} /\ nw \in Nat \ {0}
      /\ CtLabelDepth \in Nat /\ EngineDepth \in Nat \ {0} /\ CtLabelDepth >= EngineDepth + 1
      /\ recIdx \in 0 .. n - 1
  BY ConfFacts, TopAssumption DEF CutLabelRoom, FetchMoves, FramerInv, FramerTypes
<1>2. /\ inEngine \in 0 .. EngineDepth /\ owed \in 0 .. n - 1 /\ want.rec = (owed + inEngine) % n
      /\ Len(lbl) \in Nat /\ Len(lbl) = inEngine + CutHeld + (IF Pushed THEN 1 ELSE 0)
  BY DEF CutLabelInv, LabelsOf
<1>3. /\ CutHeld \in -1 .. 1 /\ CutHeld' \in -1 .. 1
      /\ CutHeld' = CutHeld + (IF st = "NEXTR" THEN 1 ELSE 0) - t
  <2>1. take => active /\ words # <<>>
    BY DEF Cut!CanTake, Cut!EngValid
  <2>2. CutHeld' = CutHeld + (IF st = "NEXTR" THEN 1 ELSE 0) - t
    BY <2>1, CutHeldStep
  <2>3. QED
    BY <2>2 DEF CutHeld
<1>4. "push" \in pulses => InRecord /\ ~Pushed
  BY PushedStep DEF InRecord
<1>5. take => Cut!EngValid /\ inEngine < EngineDepth
  BY DEF Cut!CanTake
<1>6. /\ inEngine' = inEngine + t - (IF retire THEN 1 ELSE 0)
      /\ owed' = (IF retire THEN Succ(conf, owed) ELSE owed)
      /\ want' = IF ~take THEN want
                 ELSE IF want.idx + 1 = nw THEN [rec |-> Succ(conf, want.rec), idx |-> 0]
                 ELSE [want EXCEPT !.idx = @ + 1]
  BY DEF Engine, NextRecord, Succ
<1>7. /\ want \in [rec : 0 .. n - 1, idx : 0 .. nw - 1]
      /\ take => (Cut!EngLast <=> want.idx + 1 = nw)
  <2>1. want \in [rec : 0 .. n - 1, idx : 0 .. nw - 1] /\ (active => remain = nw - want.idx)
    BY DEF CutPlaceInv
  <2>2. take => (Cut!EngLast <=> remain = 1) /\ active
    BY <1>5 DEF Cut!EngLast, Cut!EngValid
  <2>3. want.idx \in Nat
    BY <2>1
  <2>4. QED
    BY <1>1, <2>1, <2>2, <2>3
<1>8. want'.rec = (IF t = 1 THEN Succ(conf, want.rec) ELSE want.rec)
  BY <1>1, <1>6, <1>7
<1>9. t \in {0, 1} /\ (t = 1 => inEngine < EngineDepth)
  BY <1>5
<1> HIDE DEF n, nw, t
<1>10. "push" \in pulses => recIdx = (owed + (inEngine + CutHeld)) % n
  <2>1. SUFFICES ASSUME "push" \in pulses
                 PROVE  recIdx = (owed + (inEngine + CutHeld)) % n
    OBVIOUS
  <2>2. CASE active
    <3>1. CutHeld = 0 /\ want.rec = recIdx
      BY <1>4, <2>1, <2>2 DEF CutHeld, CutPlaceInv, InRecord
    <3>2. inEngine + CutHeld = inEngine
      BY <1>2, <3>1
    <3>3. QED
      BY <1>2, <3>1, <3>2
  <2>3. CASE ~active
    <3> DEFINE x == inEngine + CutHeld
               y == (owed + x) % n
    <3>1. CutHeld = -1 /\ want.rec = Succ(conf, recIdx)
      BY <1>4, <2>1, <2>3 DEF CutHeld, CutPlaceInv
    <3>2. x \in Nat /\ owed + x + 1 = owed + inEngine
      BY <1>2, <1>4, <2>1, <3>1
    <3> HIDE DEF x
    <3>3. Succ(conf, y) = (owed + x + 1) % n /\ y \in 0 .. n - 1
      <4>1. conf.n \in Nat \ {0} /\ owed \in 0 .. conf.n - 1
        BY <1>1, <1>2 DEF n
      <4>2. QED
        BY <4>1, <3>2, OneOn, Zenon DEF n
    <3> HIDE DEF y
    <3>4. Succ(conf, y) = Succ(conf, recIdx)
      BY <1>2, <3>1, <3>2, <3>3
    <3>5. y = recIdx
      BY <1>1, <3>3, <3>4 DEF Succ, n
    <3>6. QED
      BY <3>5 DEF x, y
  <2>4. QED
    BY <2>2, <2>3
<1>11. "push" \in pulses => inEngine + CutHeld < CtLabelDepth
  <2>1. "push" \in pulses => CutHeld \in {-1, 0}
    BY <1>4 DEF CutHeld
  <2>2. QED
    BY <1>1, <1>2, <2>1
<1>12. LabelsMove(CtLabelDepth, retire)
  BY DEF Cut!LabelFifo, LabelsMove
<1>13. PICK h \in Int, h2 \in Int : h = CutHeld /\ h2 = CutHeld'
  BY <1>3
<1>14. LabelsOf(h2)'
  <2>1. LabelsOf(h)
    BY <1>13 DEF CutLabelInv
  <2>2. h2 = h + (IF st = "NEXTR" THEN 1 ELSE 0) - t
    BY <1>3, <1>13
  <2>3. "push" \in pulses => inEngine + h < CtLabelDepth /\ recIdx = (owed + (inEngine + h)) % conf.n
    BY <1>10, <1>11, <1>13 DEF n
  <2>4. QED
    BY <1>6, <1>8, <1>9, <1>12, <2>1, <2>2, <2>3, LabelCore
<1>15. QED
  BY <1>13, <1>14 DEF CutLabelInv, LabelsOf

\* The cycle of the datapath with this buffer.
LEMMA CutCycle ==
  ASSUME Geometry, FramerInv, FlightInv, RoomInv, [Cut!Cycle]_(Cut!vars)
  PROVE  /\ FramerInv' /\ FlightInv' /\ RoomInv'
         /\ CutLabelRoom /\ CutLabelInv => CutLabelInv'
<1>1. CASE Cut!Cycle
  <2>1. PICK take \in {FALSE} \cup {Cut!CanTake(Cut!EngValid)}, retire \in {FALSE} \cup {Cut!CanRetire} :
          Cut!Tick(Cut!Framer(Cut!FillReady, Cut!BurstOk), take, retire)
    BY <1>1 DEF Cut!Cycle
  <2>2. take \in BOOLEAN /\ (take => active /\ words # <<>>)
    BY <2>1 DEF Cut!CanTake, Cut!EngValid
  <2>3. Cut!FifoTick(take)
    BY <2>1 DEF Cut!Tick
  <2>4. Engine(take, Cut!EngLast, retire)
    BY <2>1 DEF Cut!Tick, Cut!Engine, Engine, Cut!NextRecord, NextRecord
  <2>5. Framer(Cut!FillReady, Cut!BurstOk)
    BY <2>1 DEF Cut!Tick, Cut!Framer, Framer, Cut!Idle, Idle, Cut!StoreEnd, StoreEnd, Cut!Rec, Rec,
                Cut!Req, Req, Cut!ThisBurst, ThisBurst, Cut!RecvWait, RecvWait, Cut!RecvWord, RecvWord,
                Cut!Route, Route, Cut!LastOfRecord, LastOfRecord, Cut!NextRec, NextRec,
                Cut!Finish, Finish
  <2>6. FramerInv' /\ FetchMoves /\ (st = "REC" /\ Starting' => ~active) /\ AnyFramer
    BY <2>5, CutFramer
  <2>7. /\ dropped' <=> dropped \/ ("we" \in pulses /\ Len(words) = CtDepth)
        /\ CutPlaceInv
    BY <2>3 DEF Cut!FifoTick, FlightInv, CutInv, ShortInv
  <2>8. FlightInv'
    <3>1. CASE dropped
      <4>1. active /\ Len(words) < Arrived - want.idx
        BY <3>1 DEF FlightInv, ShortInv
      <4>2. ShortInv'
        BY <2>2, <2>3, <2>4, <2>6, <2>7, <4>1, CutShort
      <4>3. QED
        BY <2>7, <3>1, <4>2 DEF FlightInv
    <3>2. CASE ~dropped /\ dropped'
      <4>1. /\ "we" \in pulses /\ Len(words) = CtDepth
            /\ CutInv
        BY <2>7, <3>2 DEF FlightInv
      <4>2. active
        BY <2>6, <4>1, CutFacts DEF CutInv, CutPlaceInv
      <4>3. Len(words) = Arrived - want.idx
        BY <4>1, <4>2 DEF CutInv
      <4>4. ShortInv'
        BY <2>2, <2>3, <2>4, <2>6, <2>7, <4>1, <4>2, <4>3, CutShort
      <4>5. QED
        BY <3>2, <4>4 DEF FlightInv
    <3>3. CASE ~dropped' /\ active
      <4>1. CutInv
        BY <2>7, <3>3 DEF FlightInv
      <4>2. CutInv'
        BY <2>2, <2>3, <2>4, <2>6, <3>3, <4>1, CutActive
      <4>3. QED
        BY <3>3, <4>2 DEF FlightInv
    <3>4. CASE ~dropped' /\ ~active
      <4>1. ~take /\ CutInv
        BY <2>2, <2>7, <3>4 DEF FlightInv
      <4>2. UNCHANGED want /\ Cut!FifoTick(FALSE)
        BY <2>2, <2>3, <2>4, <4>1 DEF Engine
      <4>3. CutInv'
        BY <2>6, <3>4, <4>1, <4>2, CutResting
      <4>4. QED
        BY <3>4, <4>3 DEF FlightInv
    <3>5. QED
      BY <3>1, <3>2, <3>3, <3>4
  <2>9. RoomInv'
    <3>1. tight' = (tight \/ Cut!OnePlaceShort)
      BY <2>1 DEF Cut!Tick
    <3>2. QED
      BY <2>2, <2>3, <2>5, <2>6, <3>1, RoomKept
  <2>10. CutLabelRoom /\ CutLabelInv => CutLabelInv'
    <3>1. Cut!LabelFifo(retire) /\ (take => Cut!CanTake(Cut!EngValid))
      BY <2>1 DEF Cut!Tick, Cut!CanTake, Cut!EngValid
    <3>2. retire \in BOOLEAN /\ (retire => CanRetire)
      BY <2>1 DEF Cut!CanRetire, CanRetire
    <3>3. QED
      BY <2>2, <2>3, <2>4, <2>6, <2>7, <3>1, <3>2, CutLabelStep
  <2>11. QED
    BY <2>6, <2>8, <2>9, <2>10
<1>2. CASE UNCHANGED Cut!vars
  <2>1. /\ UNCHANGED <<conf, st, recIdx, curAddr, wordIdx, wordsLeft, burstRem, errOverrun, av, pulses,
                       data, resp>>
        /\ UNCHANGED <<want, words, remain, active, dropped, tight, lbl, lblOverflow, inEngine, owed>>
    BY <1>2 DEF Cut!vars, Cut!framerVars, Cut!topVars
  <2>2. FramerInv'
    BY <2>1 DEF FramerInv, FramerTypes, PlaceInv, PulseInv, Fetching, Starting, ThisBurst
  <2>3. FlightInv'
    BY <2>1 DEF FlightInv, CutInv, ShortInv, CutPlaceInv, Fetching, Starting, InRecord, Pending, Arrived,
                Upcoming
  <2>4. RoomInv'
    BY <2>1 DEF RoomInv, Pending, Asked, OfTensor, ThisBurst
  <2>5. CutLabelInv => CutLabelInv'
    <3>1. CutHeld' = CutHeld /\ (Pushed' <=> Pushed)
      BY <2>1 DEF CutHeld, InRecord, Fetching, Starting, Pushed
    <3>2. QED
      BY <2>1, <3>1 DEF CutLabelInv, LabelsOf
  <2>6. QED
    BY <2>1, <2>2, <2>3, <2>4, <2>5
<1>3. QED
  BY <1>1, <1>2

LEMMA CutInit ==
  ASSUME Geometry, Cut!Init
  PROVE  FramerInv /\ FlightInv /\ CutLabelInv /\ RoomInv
<1>1. conf \in Configs /\ conf.n \in Nat \ {0} /\ conf.nwords \in Nat \ {0}
  BY ConfFacts DEF Cut!Init, Cut!TopInit, Cut!FramerInit
<1>2. /\ st = "IDLE" /\ recIdx = 0 /\ curAddr = 0 /\ wordIdx = 0 /\ wordsLeft = 0 /\ burstRem = 0
      /\ av = [read |-> FALSE, address |-> 0, count |-> 0] /\ pulses = {} /\ data = 0
      /\ resp = [next |-> 0, left |-> 0]
  BY DEF Cut!Init, Cut!TopInit, Cut!FramerInit
<1>3. want = [rec |-> 0, idx |-> 0] /\ words = <<>> /\ active = FALSE /\ dropped = FALSE /\ tight = FALSE
  BY DEF Cut!Init, Cut!TopInit
<1>4. FramerInv
  BY <1>1, <1>2 DEF FramerInv, FramerTypes, PlaceInv, PulseInv, Fetching, Starting
<1>5. ~InRecord /\ Upcoming = 0
  BY <1>2 DEF InRecord, Fetching, Upcoming
<1>6. CutInv
  <2>1. <<>> \in Seq(Nat)
    OBVIOUS
  <2>2. want \in [rec : 0 .. conf.n - 1, idx : 0 .. conf.nwords - 1]
    BY <1>1, <1>3
  <2>3. QED
    BY <1>3, <1>5, <2>1, <2>2 DEF CutInv, CutPlaceInv
<1>7. RoomInv
  BY <1>2, <1>3, CutAssumption DEF RoomInv, Pending, Asked
<1>8. CutLabelInv
  <2>1. lbl = <<>> /\ lblOverflow = FALSE /\ inEngine = 0 /\ owed = 0
    BY DEF Cut!Init, Cut!TopInit
  <2>2. CutHeld = 0 /\ ~Pushed /\ Len(lbl) = 0 /\ lbl \in Seq(Nat)
    BY <1>2, <1>3, <1>5, <2>1 DEF CutHeld, Fetching, Pushed
  <2>3. want.rec = (owed + inEngine) % conf.n /\ EngineDepth \in Nat
    BY <1>1, <1>3, <2>1, TopAssumption, SMTT(30)
  <2>4. QED
    BY <1>1, <1>3, <2>1, <2>2, <2>3 DEF CutLabelInv, LabelsOf
<1>9. QED
  BY <1>3, <1>4, <1>6, <1>7, <1>8 DEF FlightInv

\* What the invariant says of the word the engine is offered.
LEMMA CutOffers ==
  ASSUME Geometry, FramerInv, CutInv
  PROVE  Cut!EngineGetsRecords
<1> SUFFICES ASSUME Cut!EngValid
             PROVE  /\ Cut!EngData = Cut!WordAt(want.rec, want.idx)
                    /\ Cut!EngLast <=> want.idx = conf.nwords - 1
  BY DEF Cut!EngineGetsRecords
<1>1. /\ conf.nwords \in Nat \ {0} /\ want.idx \in 0 .. conf.nwords - 1
      /\ words \in Seq(Nat) /\ words # <<>>
      /\ remain = conf.nwords - want.idx
      /\ \A k \in 1 .. Len(words) : words[k] = Addr(conf, want.rec, want.idx + k - 1)
  BY ConfFacts DEF FramerInv, FramerTypes, CutInv, CutPlaceInv, Cut!EngValid
<1>2. Head(words) = Addr(conf, want.rec, want.idx)
  <2>1. Head(words) = words[1] /\ 1 \in 1 .. Len(words)
    BY <1>1, EmptySeq
  <2>2. want.idx + 1 - 1 = want.idx
    BY <1>1
  <2>3. QED
    BY <1>1, <2>1, <2>2
<1>3. QED
  BY <1>1, <1>2 DEF Cut!EngData, Cut!EngLast, Cut!WordAt, Addr

\* What the invariants say of a loss.
LEMMA LossSays ==
  ASSUME Geometry, FramerInv, FlightInv, RoomInv
  PROVE  Cut!LossIsTight
<1> SUFFICES ASSUME dropped
             PROVE  tight /\ conf.nwords > CtDepth /\ ~Cut!EngLast
  BY DEF Cut!LossIsTight
<1>1. tight /\ conf.nwords > CtDepth
  BY DEF RoomInv
<1>2. /\ conf.nwords \in Nat \ {0} /\ wordIdx \in Nat /\ Pending \in {0, 1}
      /\ remain = conf.nwords - want.idx /\ want.idx \in 0 .. conf.nwords - 1
      /\ Len(words) \in Nat /\ Len(words) < Arrived - want.idx
  BY ConfFacts DEF FlightInv, ShortInv, CutPlaceInv, FramerInv, FramerTypes, Pending
<1>3. Arrived \in Int /\ Arrived <= conf.nwords
  BY <1>2 DEF Arrived
<1>4. Cut!EngLast => words # <<>> /\ remain = 1
  BY DEF Cut!EngLast, Cut!EngValid
<1>5. words # <<>> => Len(words) > 0
  BY EmptySeq DEF FlightInv, ShortInv, CutPlaceInv
<1>6. QED
  BY <1>1, <1>2, <1>3, <1>4, <1>5

\* In cut-through mode, for every shape of the records, also those longer than the FIFO,
\* and every burst length, depth of the FIFO and engine: until a word is dropped the engine
\* gets every tensor word of every record once and in order, eng_last with the last; and a
\* word is dropped only in a record longer than the FIFO, after a burst was asked for one
\* place short, and then eng_last does not come.
THEOREM CutDelivered ==
  Geometry /\ Cut!Spec => [](Cut!LossIsTight /\ (Cut!NoWordDropped => Cut!EngineGetsRecords))
<1> SUFFICES ASSUME Geometry
             PROVE  Cut!Spec => [](Cut!LossIsTight /\ (Cut!NoWordDropped => Cut!EngineGetsRecords))
  OBVIOUS
<1> DEFINE CutAll == FramerInv /\ FlightInv /\ RoomInv
<1>1. Cut!Init => CutAll
  BY CutInit
<1>2. CutAll /\ [Cut!Cycle]_(Cut!vars) => CutAll'
  BY CutCycle
<1>3. CutAll => Cut!LossIsTight /\ (Cut!NoWordDropped => Cut!EngineGetsRecords)
  BY CutOffers, LossSays DEF FlightInv, Cut!NoWordDropped
<1>4. QED
  BY <1>1, <1>2, <1>3, PTL DEF Cut!Spec

\* In cut-through mode, for every shape of the records, a label FIFO one deeper than the
\* engine does, also when a word has been dropped: the label of a record that streams
\* through comes behind its words.
THEOREM CutLabelsMatch ==
  Geometry /\ CutLabelRoom /\ Cut!Spec => []Cut!LabelsMatchRecords
<1> SUFFICES ASSUME Geometry, CutLabelRoom
             PROVE  Cut!Spec => []Cut!LabelsMatchRecords
  OBVIOUS
<1> DEFINE CutAll == FramerInv /\ FlightInv /\ RoomInv /\ CutLabelInv
<1>1. Cut!Init => CutAll
  BY CutInit
<1>2. CutAll /\ [Cut!Cycle]_(Cut!vars) => CutAll'
  BY CutCycle
<1>3. CutAll => Cut!LabelsMatchRecords
  BY LabelsSay DEF CutLabelInv, Cut!LabelsMatchRecords, LabelsMatchRecords, Cut!WordAt, WordAt
<1>4. QED
  BY <1>1, <1>2, <1>3, PTL DEF Cut!Spec

-------------------------------------------------------------------------------
(* The three ways of the record path, each in behaviours of its own.        *)

ModeInv ==
  \/ mode = "pingpong" /\ ReplayInv /\ LabelInv
  \/ mode = "cut" /\ FramerInv /\ FlightInv /\ RoomInv /\ CutLabelInv
  \/ mode = "fifo" /\ lbl = <<>> /\ ~lblOverflow

LEMMA ModeStep ==
  ASSUME Geometry, LabelRoom, CutLabelRoom, ModeInv,
         [PingPong(Cycle) \/ CutThrough(Cut!Cycle) \/ Fifo(FifoNext)]_allVars
  PROVE  ModeInv'
<1>1. CASE mode = "pingpong"
  <2>1. ReplayInv /\ LabelInv
    BY <1>1 DEF ModeInv
  <2>2. mode' = "pingpong" /\ [Cycle]_vars
    BY <1>1 DEF PingPong, CutThrough, Fifo, allVars
  <2>3. ReplayInv' /\ LabelInv'
    BY <2>1, <2>2, CycleStep
  <2>4. QED
    BY <2>2, <2>3 DEF ModeInv
<1>2. CASE mode = "cut"
  <2>1. FramerInv /\ FlightInv /\ RoomInv /\ CutLabelInv
    BY <1>2 DEF ModeInv
  <2>2. mode' = "cut" /\ [Cut!Cycle]_(Cut!vars)
    BY <1>2 DEF PingPong, CutThrough, Fifo, allVars, vars, cutVars, Cut!vars, framerVars, topVars,
               Cut!framerVars, Cut!topVars
  <2>3. FramerInv' /\ FlightInv' /\ RoomInv' /\ CutLabelInv'
    BY <2>1, <2>2, CutCycle
  <2>4. QED
    BY <2>2, <2>3 DEF ModeInv
<1>3. CASE mode = "fifo"
  <2>1. lbl = <<>> /\ ~lblOverflow
    BY <1>3 DEF ModeInv
  <2>2. mode' = "fifo" /\ UNCHANGED <<lbl, lblOverflow>>
    BY <1>3 DEF PingPong, CutThrough, Fifo, allVars, vars, topVars
  <2>3. QED
    BY <2>1, <2>2 DEF ModeInv
<1>4. QED
  BY <1>1, <1>2, <1>3 DEF ModeInv

LEMMA ModeInit ==
  ASSUME Geometry, ReplayInit
  PROVE  ModeInv
<1>1. CASE mode = "pingpong" /\ Init
  BY <1>1, InitReplay DEF ModeInv
<1>2. CASE mode = "cut" /\ Cut!Init
  BY <1>2, CutInit DEF ModeInv
<1>3. CASE mode = "fifo" /\ RestingReplay
  BY <1>3 DEF ModeInv, RestingReplay, TopInit
<1>4. QED
  BY <1>1, <1>2, <1>3 DEF ReplayInit

\* The record path delivers: in both modes of the buffer, for every shape of the records,
\* burst length, depth of the buffers and engine with room for the labels, the engine gets
\* every tensor word of every record once and in order, and the k-th record it retires is
\* compared with the k-th label.  Records longer than the FIFO are among them: in cut-through
\* mode the words are the right ones until one is dropped, which takes a burst asked for one
\* place short, and the labels are right all the same.
THEOREM WordsDelivered ==
  /\ Geometry /\ LabelRoom /\ CutLabelRoom
  /\ ReplaySpec
  => [](EngineGetsItsWords /\ LabelsMatchRecords)
<1> SUFFICES ASSUME Geometry, LabelRoom, CutLabelRoom
             PROVE  ReplaySpec => [](EngineGetsItsWords /\ LabelsMatchRecords)
  OBVIOUS
<1>1. ReplayInit => ModeInv
  BY ModeInit
<1>2. ModeInv /\ [PingPong(Cycle) \/ CutThrough(Cut!Cycle) \/ Fifo(FifoNext)]_allVars => ModeInv'
  BY ModeStep
<1>3. ModeInv => EngineGetsItsWords
  <2>1. ModeInv /\ mode = "pingpong" => EngineGetsRecords
    BY Offers DEF ModeInv
  <2>2. ModeInv /\ mode = "cut" => Cut!LossIsTight /\ (~dropped => Cut!EngineGetsRecords)
    BY CutOffers, LossSays DEF ModeInv, FlightInv
  <2>3. QED
    BY <2>1, <2>2 DEF EngineGetsItsWords
<1>4. ModeInv => LabelsMatchRecords
  <2>1. ReplayInv /\ LabelInv => LabelsMatchRecords
    BY LabelsSay DEF LabelInv
  <2>2. CutLabelInv => LabelsMatchRecords
    BY LabelsSay DEF CutLabelInv
  <2>3. lbl = <<>> /\ ~lblOverflow => LabelsMatchRecords
    BY DEF LabelsMatchRecords
  <2>4. QED
    BY <2>1, <2>2, <2>3 DEF ModeInv
<1>5. QED
  BY <1>1, <1>2, <1>3, <1>4, PTL DEF ReplaySpec

===============================================================================
