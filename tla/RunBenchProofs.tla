----------------------------- MODULE RunBenchProofs -----------------------------
(***************************************************************************)
(* Proofs about run_bench on the scoreboard: for every number of records,  *)
(* depth of the FIFOs, histogram and pace of the two clocks, what is       *)
(* reported is the run that was started, and a snapshot is one instant.    *)
(***************************************************************************)
EXTENDS RunBench, FiniteSetTheorems, SequenceTheorems, TLAPS

\* A record is not None, and a latency has a bucket.
Shapes ==
  /\ None \notin Nat \X Nat
  /\ \A r \in Nat \X Nat : Bucket(r) \in 0 .. HistEntries - 1

\* The engine holds no more records than there are timestamps.
SlotsFit == Slots <= MaxInflight

\* A clear lasts until the hot clock has seen it, through two flops.
ClearLasts == HistEntries + 1 >= 3 * ClockRatio

\* The host has started this run, with framer and engine at rest.
Active == fresh /\ host \notin {"configure", "start"}

Rec(k) == <<run, k>>

\* The counters after the first k records of the run.
Tally(k) ==
  [done |-> k, passes |-> MatchesOf(k),
   span |-> IF k = 0 THEN <<None, None>> ELSE <<Rec(0), Rec(k - 1)>>,
   lats |-> {<<r, r>> : r \in Records(k)}]

\* How many of them are in bucket b, and below it.
InBucket(k, b) == Cardinality({r \in Records(k) : Bucket(r) = b})
Below(k, b) == Cardinality({r \in Records(k) : Bucket(r) < b})

\* CSR cycles since the last cycle of the hot clock.
Ahead == IF skew > 0 THEN skew ELSE 0

HotIdle == fst \in {"IDLE", "FINISH"} /\ issue = None /\ inflight = <<>> /\ ~offer
HotClean == ts = <<>> /\ first = None /\ wr = 0 /\ ~full /\ rdSeen = <<0, 0>>
CoolClean == rd = 0 /\ empty /\ wrSeen = <<0, 0>> /\ counters = NoCounts
Zeroed(k) == \A b \in 0 .. k - 1 : hist[b] = 0

\* How far a clear has come, whoever asked for it and whatever is under way.  The hot
\* clock follows its level through two flops and cannot be more than three cycles late.
Sweep ==
  /\ clrAddr \in 0 .. HistEntries - 1
  /\ \/ clearHot \in {<<FALSE, FALSE>>, <<FALSE, TRUE>>} /\ clrAddr + 1 <= Ahead
     \/ clearHot = <<TRUE, FALSE>> /\ clrAddr + 1 <= ClockRatio + Ahead
     \/ clearHot = <<TRUE, TRUE>> /\ (HotClean \/ clrAddr + 1 <= 2 * ClockRatio + Ahead)
  /\ clrAddr > 0 => CoolClean

\* The clear that begins a run.
Clearing ==
  /\ clearing /\ pendingStart
  /\ HotIdle /\ startHot = <<runStart, runStart, runStart>>
  /\ Zeroed(clrAddr)
  /\ clrAddr = 0 => host = "latch" /\ ~rested /\ got = NothingRead

\* The start came during the clear of a soft reset and was dropped: nothing will be counted.
Ignored ==
  /\ HotIdle /\ startHot = <<runStart, runStart, runStart>> /\ counters = NoCounts
  /\ clearing => ~pendingStart
  /\ ~clearing => CoolClean /\ (HotClean \/ (clearHot = <<TRUE, TRUE>> /\ skew = ClockRatio))

\* The clear is over and the start on its way, behind the end of the clear.
Starting ==
  /\ ~clearing /\ HotIdle /\ CoolClean /\ Zeroed(HistEntries)
  /\ \/ /\ startHot = <<~runStart, ~runStart, ~runStart>>
        /\ clearHot = <<TRUE, TRUE>> /\ (HotClean \/ skew = ClockRatio)
     \/ startHot = <<runStart, ~runStart, ~runStart>> /\ clearHot = <<FALSE, TRUE>> /\ HotClean
     \/ startHot = <<runStart, runStart, ~runStart>> /\ clearHot = <<FALSE, FALSE>> /\ HotClean

\* The records the engine has retired in this run.
Retired == IF fst = "IDLE" THEN 0 ELSE frec[2] - Len(inflight)

\* The records from k on, in order.
Line(q, k) == \A i \in 1 .. Len(q) : q[i] = Rec(k + i - 1)

\* The issue of the record that is being filled is in the timestamp FIFO.
Issued == fst = "FILL" /\ issue = None

\* The records are issued, filled and retired in order, each paired with its own issue.
HotPath ==
  /\ fst \in {"IDLE", "REC", "FILL", "FINISH"}
  /\ fst = "IDLE" => inflight = <<>>
  /\ fst # "IDLE" => frec[1] = run /\ Len(inflight) <= frec[2]
  /\ Line(inflight, Retired)
  /\ issue = None \/ (fst = "FILL" /\ issue = frec)
  /\ Len(inflight) + (IF fst = "FILL" THEN 1 ELSE 0) <= Slots
  /\ ts = IF Issued THEN Append(inflight, frec) ELSE inflight
  /\ first = IF fst = "IDLE" \/ (frec[2] = 0 /\ ~Issued) THEN None ELSE Rec(0)
  /\ ~conf.loop /\ fst \in {"REC", "FILL"} => frec[2] < N
  /\ fst = "FINISH" => frec[2] = N

Ring(k) == k % (2 * FifoDepth)
EventOf(k) == [issue |-> Rec(k), retire |-> Rec(k), first |-> Rec(0)]

\* The event FIFO holds the events from the next to be counted to the last retired.  a1 and
\* a2, b1 and b2 are what the sides have seen of each other, by the first and second flop.
EventFifo ==
  /\ rd = Ring(counters.done) /\ wr = Ring(Retired)
  /\ \E a1, a2, b1, b2 \in Nat :
       /\ rdSeen = <<Ring(a1), Ring(a2)>> /\ wrSeen = <<Ring(b1), Ring(b2)>>
       /\ a2 <= a1 /\ a1 <= counters.done /\ counters.done <= b2 /\ b2 <= b1 /\ b1 <= Retired
       /\ Retired <= a2 + FifoDepth
       /\ ~full => Retired < a2 + FifoDepth
       /\ ~empty => counters.done < b2
  /\ \A k \in counters.done .. Retired - 1 : mem[k % FifoDepth] = EventOf(k)

\* The counters and the histogram are those of the records counted.
Counting ==
  /\ counters.done \in Nat /\ counters = Tally(counters.done)
  /\ \A b \in 0 .. HistEntries - 1 : hist[b] = InBucket(counters.done, b)

Running ==
  /\ ~clearing /\ clearHot = <<FALSE, FALSE>> /\ startHot = <<runStart, runStart, runStart>>
  /\ HotPath /\ EventFifo /\ Counting

\* What the host has read, at each of its places.
HostInv ==
  /\ host \in {"latch", "rest", "hist", "refused", "reported", "stalled"}
  /\ host \in {"latch", "hist", "refused", "reported"} =>
       got.counts.done = 0 \/ (got.counts.done \in Nat /\ got.counts = Tally(got.counts.done))
  /\ host = "rest" => /\ snap.done \in Nat /\ snap = Tally(snap.done)
                      /\ snap.done <= counters.done
                      /\ got.counts = [NoCounts EXCEPT !.span = snap.span]
  /\ host \in {"hist", "reported"} =>
       /\ got.counts.done = Target
       /\ loops = 1 => counters.done = N
       /\ bucket \in 0 .. HistEntries
       /\ loops = 1 /\ bucket > 0 => got.hist = Below(N, bucket)
  /\ host = "hist" => bucket < HistEntries
  /\ host = "reported" => bucket = HistEntries

\* What holds of any run.
BoardInv ==
  /\ run \in Nat /\ loops \in LoopChoices /\ skew \in Int /\ skew <= ClockRatio
  /\ conf \in [n : Nat, loop : BOOLEAN] /\ (host = "start" => conf.n = N)
  /\ frec \in Nat \X Nat /\ inflight \in Seq(Nat \X Nat) /\ (offer => inflight # <<>>)
  /\ clearing \in BOOLEAN /\ runStart \in BOOLEAN
  /\ startHot = <<startHot[1], startHot[2], startHot[3]>>
  /\ hist \in [0 .. HistEntries - 1 -> Nat]
  /\ mem = [k \in 0 .. FifoDepth - 1 |-> mem[k]]
  /\ got = [counts |-> got.counts, hist |-> got.hist]
  /\ host \in {"configure", "start"} => got = NothingRead
  /\ clearHot \in {<<FALSE, FALSE>>, <<FALSE, TRUE>>, <<TRUE, FALSE>>, <<TRUE, TRUE>>}
  /\ clearing => Sweep

IsCounts(c) == c = [done |-> c.done, passes |-> c.passes, span |-> c.span, lats |-> c.lats]

\* What the host has read in any run is what the counters were when it read CYCLES_LO.
InstantInv ==
  /\ IsCounts(counters) /\ IsCounts(snap)
  /\ host = "rest" => snap = instant /\ got.counts.span = instant.span
  /\ host \in {"latch", "hist", "refused"} => got.counts.done = 0 \/ got.counts = instant

RunInv ==
  /\ conf = [n |-> N, loop |-> loops > 1]
  /\ Clearing \/ Starting \/ Running \/ Ignored
  /\ HostInv

BenchInv == BoardInv /\ InstantInv /\ (Active => RunInv)

-------------------------------------------------------------------------------
(* Pointers.                                                                *)

\* What a number has left over a multiple of m.
LEMMA ModUnique ==
  ASSUME NEW m \in Nat \ {0}, NEW a \in Nat, NEW q \in Nat, NEW r \in 0 .. m - 1,
         a = m * q + r
  PROVE  a % m = r
OBVIOUS

\* A number by its quotient and remainder.
LEMMA ModParts ==
  ASSUME NEW m \in Nat \ {0}, NEW a \in Nat
  PROVE  a \div m \in Nat /\ a % m \in 0 .. m - 1 /\ a = m * (a \div m) + (a % m)
OBVIOUS

\* The rectangle of m and q grows by a row.
LEMMA NextMultiple ==
  ASSUME NEW m \in Nat, NEW q \in Nat
  PROVE  m * q \in Nat /\ m * (q + 1) = m * q + m
OBVIOUS

\* A rectangle of two halves.
LEMMA Halves ==
  ASSUME NEW d \in Nat, NEW q \in Nat
  PROVE  (2 * d) * q = d * (2 * q) /\ (2 * d) * q \in Nat
OBVIOUS

\* Less than m steps ahead of y.
LEMMA ModAhead ==
  ASSUME NEW m \in Nat \ {0}, NEW y \in Nat, NEW t \in 0 .. m - 1
  PROVE  (y + t) % m = IF (y % m) + t < m THEN (y % m) + t ELSE (y % m) + t - m
<1> DEFINE q == y \div m
           r == y % m
<1>1. q \in Nat /\ r \in 0 .. m - 1 /\ y = m * q + r
  BY ModParts
<1> HIDE DEF q, r
<1>2. CASE r + t < m
  <2>1. y + t = m * q + (r + t) /\ r + t \in 0 .. m - 1 /\ y + t \in Nat
    <3>1. m * q \in Nat
      BY <1>1, NextMultiple
    <3>2. QED
      BY <1>1, <1>2, <3>1
  <2>2. (y + t) % m = r + t
    BY <1>1, <2>1, ModUnique
  <2>3. QED
    BY <1>2, <2>2 DEF r
<1>3. CASE r + t >= m
  <2>1. y + t = m * (q + 1) + (r + t - m) /\ r + t - m \in 0 .. m - 1 /\ y + t \in Nat /\ q + 1 \in Nat
    <3>1. m * q \in Nat /\ m * (q + 1) = m * q + m
      BY <1>1, NextMultiple
    <3>2. QED
      BY <1>1, <1>3, <3>1
  <2>2. (y + t) % m = r + t - m
    BY <2>1, ModUnique
  <2>3. ~(r + t < m)
    BY <1>1, <1>3
  <2>4. QED
    BY <2>2, <2>3 DEF r
<1>4. QED
  BY <1>1, <1>2, <1>3

\* The distance of two pointers, as the FIFO takes it.
Apart(x, y, m) == ((x % m) - (y % m)) % m

\* It is that of two counts that are less than a round apart.
LEMMA RingDistance ==
  ASSUME NEW m \in Nat \ {0}, NEW x \in Nat, NEW y \in Nat, y <= x, x < y + m
  PROVE  Apart(x, y, m) = x - y /\ (x % m = y % m <=> x = y)
<1> DEFINE t == x - y
           r == y % m
           s == x % m
<1>1. t \in 0 .. m - 1 /\ x = y + t
  OBVIOUS
<1>2. r \in 0 .. m - 1
  BY ModParts
<1>3. s = IF r + t < m THEN r + t ELSE r + t - m
  BY <1>1, ModAhead
<1> HIDE DEF t, r, s
<1>4. s = r <=> t = 0
  BY <1>1, <1>2, <1>3
<1>5. (s - r) % m = t
  <2>1. CASE s = r + t
    <3>1. s - r = t
      BY <1>1, <1>2, <2>1
    <3>2. t % m = t
      BY <1>1
    <3>3. QED
      BY <3>1, <3>2
  <2>2. CASE s = r + t - m
    <3>1. s - r = t - m
      BY <1>1, <1>2, <2>2
    <3>2. (t - m) % m = t
      BY <1>1
    <3>3. QED
      BY <3>1, <3>2
  <2>3. QED
    BY <1>3, <2>1, <2>2
<1>6. QED
  BY <1>1, <1>4, <1>5 DEF t, r, s, Apart

\* A pointer and its increment, and the place of an event.
LEMMA RingSteps ==
  ASSUME NEW k \in Nat
  PROVE  /\ FifoDepth \in Nat \ {0} /\ 2 * FifoDepth \in Nat \ {0}
         /\ Ring(k) \in 0 .. 2 * FifoDepth - 1
         /\ (Ring(k) + 1) % (2 * FifoDepth) = Ring(k + 1)
         /\ (Ring(k) + 0) % (2 * FifoDepth) = Ring(k)
         /\ Ring(k) % FifoDepth = k % FifoDepth
         /\ k % FifoDepth \in 0 .. FifoDepth - 1
<1> DEFINE m == 2 * FifoDepth
           q == k \div m
           r == k % m
<1>1. FifoDepth \in Nat \ {0} /\ m \in Nat \ {0} /\ m >= 2
  BY ScoreboardAssumption
<1>2. q \in Nat /\ r \in 0 .. m - 1 /\ k = m * q + r
  <2> HIDE DEF m
  <2>1. QED
    BY <1>1, ModParts
<1>3. m * q = FifoDepth * (2 * q) /\ m * q \in Nat
  <2> HIDE DEF q
  <2>1. QED
    BY <1>1, <1>2, Halves
<1>4. FifoDepth * (2 * q + 1) = FifoDepth * (2 * q) + FifoDepth
  <2> DEFINE d == 2 * q
  <2>1. d \in Nat
    BY <1>2
  <2> HIDE DEF d
  <2>2. FifoDepth * (d + 1) = FifoDepth * d + FifoDepth
    BY <1>1, <2>1, NextMultiple
  <2>3. QED
    BY <2>2 DEF d
<1> DEFINE p == FifoDepth * (2 * q)
<1>5. p \in Nat /\ k = p + r /\ FifoDepth * (2 * q + 1) = p + FifoDepth /\ m = FifoDepth + FifoDepth
  BY <1>1, <1>2, <1>3, <1>4
<1>6. 2 * q \in Nat /\ 2 * q + 1 \in Nat /\ p = FifoDepth * (2 * q)
  BY <1>2
<1> HIDE DEF q, r, p, m
<1>7. r % FifoDepth = k % FifoDepth
  <2>1. CASE r < FifoDepth
    <3>1. r % FifoDepth = r
      BY <1>1, <1>2, <2>1
    <3>2. r \in 0 .. FifoDepth - 1
      BY <1>1, <1>2, <2>1
    <3>3. k = FifoDepth * (2 * q) + r
      BY <1>5, <1>6
    <3>4. k % FifoDepth = r
      BY <1>1, <1>6, <3>2, <3>3, ModUnique
    <3>5. QED
      BY <3>1, <3>4
  <2>2. CASE r >= FifoDepth
    <3>1. r - FifoDepth \in 0 .. FifoDepth - 1 /\ r \in Nat
      BY <1>1, <1>2, <1>5, <2>2
    <3>2. r = FifoDepth * 1 + (r - FifoDepth)
      BY <1>1, <3>1
    <3>3. r % FifoDepth = r - FifoDepth
      BY <1>1, <3>1, <3>2, ModUnique
    <3>4. k = FifoDepth * (2 * q + 1) + (r - FifoDepth)
      BY <1>1, <1>2, <1>5
    <3>5. k % FifoDepth = r - FifoDepth
      BY <1>1, <1>6, <3>1, <3>4, ModUnique
    <3>6. QED
      BY <3>3, <3>5
  <2>3. QED
    BY <1>1, <1>2, <2>1, <2>2
<1>8. (r + 1) % m = (k + 1) % m
  <2>1. 1 \in 0 .. m - 1
    BY <1>1
  <2>2. (k + 1) % m = IF r + 1 < m THEN r + 1 ELSE r + 1 - m
    BY <1>1, <2>1, ModAhead DEF r
  <2>3. r % m = r /\ r \in Nat
    BY <1>1, <1>2
  <2>4. (r + 1) % m = IF (r % m) + 1 < m THEN (r % m) + 1 ELSE (r % m) + 1 - m
    BY <1>1, <2>1, <2>3, ModAhead
  <2>5. QED
    BY <2>2, <2>3, <2>4
<1>9. (r + 0) % m = r
  BY <1>1, <1>2
<1>10. k % FifoDepth \in 0 .. FifoDepth - 1
  BY <1>1, ModParts
<1>11. r = Ring(k) /\ (k + 1) % m = Ring(k + 1)
  BY DEF r, m, Ring
<1>12. QED
  BY <1>1, <1>2, <1>7, <1>8, <1>9, <1>10, <1>11 DEF m

-------------------------------------------------------------------------------
(* Counts.                                                                  *)

\* One more record.
LEMMA RecordsGrow ==
  ASSUME NEW k \in Nat
  PROVE  /\ Records(0) = {}
         /\ Records(k + 1) = Records(k) \cup {Rec(k)}
         /\ Rec(k) \notin Records(k)
<1>1. 0 .. k = (0 .. k - 1) \cup {k} /\ k \notin 0 .. k - 1 /\ k + 1 - 1 = k
  OBVIOUS
<1>2. Records(k + 1) = {Rec(j) : j \in (0 .. k - 1) \cup {k}}
  BY <1>1 DEF Records, Rec
<1>3. Records(k + 1) = Records(k) \cup {Rec(k)}
  BY <1>2 DEF Records, Rec
<1>4. Records(0) = {} /\ Rec(k) \notin Records(k)
  BY DEF Records, Rec
<1>5. QED
  BY <1>3, <1>4

\* The first k records are k.
LEMMA RecordsCount ==
  ASSUME NEW k \in Nat
  PROVE  IsFiniteSet(Records(k)) /\ Cardinality(Records(k)) = k
<1> DEFINE f == [j \in 0 .. k - 1 |-> Rec(j)]
<1>1. IsFiniteSet(0 .. k - 1) /\ Cardinality(0 .. k - 1) = k
  BY FS_Interval
<1>2. f \in Bijection(0 .. k - 1, Records(k))
  BY DEF Bijection, Injection, IsInjective, Surjection, Records, Rec
<1>3. ExistsBijection(0 .. k - 1, Records(k))
  BY <1>2 DEF ExistsBijection
<1>4. QED
  BY <1>1, <1>3, FS_Bijection

\* A count of some of them with one more record.
LEMMA PartGrows ==
  ASSUME NEW k \in Nat, NEW S, S \subseteq Records(k), NEW T, T = S \/ T = S \cup {Rec(k)}
  PROVE  /\ IsFiniteSet(S) /\ Cardinality(S) \in Nat
         /\ Cardinality(T) = Cardinality(S) + (IF T = S THEN 0 ELSE 1)
<1>1. IsFiniteSet(S) /\ Cardinality(S) \in Nat
  BY RecordsCount, FS_Subset, FS_CardinalityType
<1>2. Rec(k) \notin S
  BY RecordsGrow
<1>3. Cardinality(S \cup {Rec(k)}) = Cardinality(S) + 1
  BY <1>1, <1>2, FS_AddElement
<1>4. QED
  BY <1>1, <1>2, <1>3

\* The counters go from the records counted to one more.
LEMMA CountedStep ==
  ASSUME NEW k \in Nat, counters = Tally(k)
  PROVE  Counted(EventOf(k)) = Tally(k + 1)
<1> DEFINE S == {r \in Records(k) : Matches(r)}
           T == {r \in Records(k + 1) : Matches(r)}
<1>1. Records(k + 1) = Records(k) \cup {Rec(k)} /\ Rec(k) \notin Records(k)
  BY RecordsGrow
<1>2. T = IF Matches(Rec(k)) THEN S \cup {Rec(k)} ELSE S
  BY <1>1
<1>3. S \subseteq Records(k) /\ Rec(k) \notin S
  BY <1>1
<1>4. (T = S) <=> ~Matches(Rec(k))
  BY <1>2, <1>3
<1> HIDE DEF S, T
<1>5. Cardinality(T) = Cardinality(S) + (IF Matches(Rec(k)) THEN 1 ELSE 0)
  <2>1. T = S \/ T = S \cup {Rec(k)}
    BY <1>2
  <2>2. Cardinality(T) = Cardinality(S) + (IF T = S THEN 0 ELSE 1)
    BY <1>3, <2>1, PartGrows
  <2>3. QED
    BY <1>4, <2>2
<1>6. MatchesOf(k) = Cardinality(S) /\ MatchesOf(k + 1) = Cardinality(T)
  BY DEF MatchesOf, S, T
<1>7. {<<r, r>> : r \in Records(k + 1)} = {<<r, r>> : r \in Records(k)} \cup {<<Rec(k), Rec(k)>>}
  BY <1>1
<1>8. k + 1 # 0 /\ k + 1 - 1 = k
  OBVIOUS
<1>9. /\ counters.done = k /\ counters.passes = MatchesOf(k)
      /\ counters.lats = {<<r, r>> : r \in Records(k)}
  BY DEF Tally
<1>10. Tally(k + 1) = [done |-> k + 1, passes |-> MatchesOf(k + 1), span |-> <<Rec(0), Rec(k)>>,
                       lats |-> {<<r, r>> : r \in Records(k + 1)}]
  <2>1. PICK j \in Nat : j = k + 1 /\ j # 0 /\ j - 1 = k
    BY <1>8
  <2>2. (IF j = 0 THEN <<None, None>> ELSE <<Rec(0), Rec(j - 1)>>) = <<Rec(0), Rec(k)>>
    BY <2>1
  <2>3. Tally(j) = [done |-> j, passes |-> MatchesOf(j),
                    span |-> IF j = 0 THEN <<None, None>> ELSE <<Rec(0), Rec(j - 1)>>,
                    lats |-> {<<r, r>> : r \in Records(j)}]
    BY DEF Tally
  <2>4. QED
    BY <2>1, <2>2, <2>3
<1>11. Counted(EventOf(k)) =
         [done |-> k + 1, passes |-> MatchesOf(k) + (IF Matches(Rec(k)) THEN 1 ELSE 0),
          span |-> <<Rec(0), Rec(k)>>,
          lats |-> {<<r, r>> : r \in Records(k)} \cup {<<Rec(k), Rec(k)>>}]
  BY <1>9 DEF Counted, EventOf
<1>12. QED
  BY <1>5, <1>6, <1>7, <1>10, <1>11

\* A bucket with one more record.
LEMMA BucketStep ==
  ASSUME NEW k \in Nat, NEW b
  PROVE  /\ InBucket(0, b) = 0 /\ InBucket(k, b) \in Nat
         /\ InBucket(k + 1, b) = InBucket(k, b) + (IF Bucket(Rec(k)) = b THEN 1 ELSE 0)
<1> DEFINE S == {r \in Records(k) : Bucket(r) = b}
           T == {r \in Records(k + 1) : Bucket(r) = b}
<1>1. /\ Records(k + 1) = Records(k) \cup {Rec(k)} /\ Rec(k) \notin Records(k)
      /\ Records(0) = {}
  BY RecordsGrow
<1>2. T = IF Bucket(Rec(k)) = b THEN S \cup {Rec(k)} ELSE S
  BY <1>1
<1>3. S \subseteq Records(k) /\ Rec(k) \notin S
  BY <1>1
<1>4. (T = S) <=> Bucket(Rec(k)) # b
  BY <1>2, <1>3
<1> HIDE DEF S, T
<1>5. T = S \/ T = S \cup {Rec(k)}
  BY <1>2
<1>6. Cardinality(S) \in Nat /\ Cardinality(T) = Cardinality(S) + (IF T = S THEN 0 ELSE 1)
  BY <1>3, <1>5, PartGrows
<1>7. {r \in Records(0) : Bucket(r) = b} = {}
  BY <1>1
<1>8. InBucket(0, b) = 0
  BY <1>7, FS_EmptySet DEF InBucket
<1>9. InBucket(k, b) = Cardinality(S) /\ InBucket(k + 1, b) = Cardinality(T)
  BY DEF InBucket, S, T
<1>10. QED
  BY <1>4, <1>6, <1>8, <1>9

\* The buckets from the first on: one more, and all of them.
LEMMA BelowStep ==
  ASSUME Shapes, run \in Nat, NEW k \in Nat
  PROVE  /\ \A b \in Nat : Below(k, b + 1) = Below(k, b) + InBucket(k, b)
         /\ Below(k, 0) = 0 /\ Below(k, HistEntries) = k
<1>1. IsFiniteSet(Records(k)) /\ Cardinality(Records(k)) = k
  BY RecordsCount
<1>2. \A r \in Records(k) : Bucket(r) \in 0 .. HistEntries - 1
  BY DEF Shapes, Records
<1>3. ASSUME NEW b \in Nat
      PROVE  Below(k, b + 1) = Below(k, b) + InBucket(k, b)
  <2> DEFINE S == {r \in Records(k) : Bucket(r) < b}
             T == {r \in Records(k) : Bucket(r) = b}
  <2>1. IsFiniteSet(S) /\ IsFiniteSet(T)
    BY <1>1, FS_Subset
  <2>2. S \cap T = {} /\ {r \in Records(k) : Bucket(r) < b + 1} = S \cup T
    BY <1>2
  <2> HIDE DEF S, T
  <2>3. Cardinality(S \cup T) = Cardinality(S) + Cardinality(T) - Cardinality(S \cap T)
    BY <2>1, FS_Union
  <2>4. Cardinality(S \cap T) = 0 /\ Cardinality(S) \in Nat /\ Cardinality(T) \in Nat
    BY <2>1, <2>2, FS_EmptySet, FS_CardinalityType
  <2>5. Below(k, b + 1) = Cardinality(S \cup T) /\ Below(k, b) = Cardinality(S) /\ InBucket(k, b) = Cardinality(T)
    BY <2>2 DEF Below, InBucket, S, T
  <2>6. QED
    BY <2>3, <2>4, <2>5
<1>4. {r \in Records(k) : Bucket(r) < 0} = {} /\ {r \in Records(k) : Bucket(r) < HistEntries} = Records(k)
  BY <1>2, ScoreboardAssumption
<1>5. Below(k, 0) = 0 /\ Below(k, HistEntries) = k
  BY <1>1, <1>4, FS_EmptySet DEF Below
<1>6. QED
  BY <1>3, <1>5

\* Nothing is counted yet.
LEMMA TallyZero == Tally(0) = NoCounts
<1>1. Records(0) = {}
  BY RecordsGrow
<1>2. {<<r, r>> : r \in Records(0)} = {} /\ {r \in Records(0) : Matches(r)} = {}
  BY <1>1
<1>3. MatchesOf(0) = 0
  BY <1>2, FS_EmptySet DEF MatchesOf
<1>4. QED
  BY <1>2, <1>3 DEF Tally, NoCounts

\* What is said of the run stays said while the run is the same.
LEMMA SameRun ==
  ASSUME run' = run, NEW CONSTANT k, NEW CONSTANT b
  PROVE  /\ Tally(k)' = Tally(k) /\ Rec(k)' = Rec(k) /\ EventOf(k)' = EventOf(k)
         /\ InBucket(k, b)' = InBucket(k, b) /\ Below(k, b)' = Below(k, b)
BY DEF Tally, Rec, EventOf, InBucket, Below, Records, MatchesOf

-------------------------------------------------------------------------------
(* The clear and the start.                                                 *)

\* The hot clock while nothing is under way: what it holds is reset by a clear and stays
\* reset, and a start sets the framer off or re-arms it.
LEMMA HotQuiet ==
  ASSUME BoardInv, HotIdle, HotStep
  PROVE  /\ issue' = None /\ inflight' = <<>> /\ ~offer' /\ mem' = mem
         /\ (ClearSeen \/ (HotClean /\ rd = 0)) => HotClean'
         /\ ~StartSeen => fst' = fst /\ frec' = frec
         /\ StartSeen => (fst' = "REC" /\ frec' = <<run, 0>>) \/ fst' = "IDLE"
         /\ UNCHANGED coolVars /\ UNCHANGED hostVars
         /\ clearHot' = <<clearing, clearHot[1]>>
         /\ startHot' = <<runStart, startHot[1], startHot[2]>>
         /\ skew' \in Int /\ skew' < 0
<1>1. /\ fst \in {"IDLE", "FINISH"} /\ issue = None /\ inflight = <<>> /\ ~offer /\ skew \in Int
  BY DEF HotIdle, BoardInv
<1>2. /\ Synchronize /\ FrontEnd(None, None) /\ WriteSide(None) /\ UNCHANGED coolVars
      /\ Framer /\ Engine /\ UNCHANGED hostVars
      /\ skew' = IF skew > 0 THEN -1 ELSE skew - 1
  BY <1>1 DEF HotStep, HotEdge, Retiring
<1>3. Left = <<>>
  BY <1>1 DEF Left
<1>4. issue' = None /\ inflight' = <<>>
  BY <1>1, <1>2, <1>3 DEF Framer
<1>5. ~offer'
  BY <1>1, <1>2, <1>3 DEF Engine
<1>6. mem' = mem
  BY <1>2 DEF WriteSide
<1>7. ASSUME ClearSeen
      PROVE  HotClean'
  BY <1>2, <1>7 DEF FrontEnd, WriteSide, HotClean
<1>8. ASSUME HotClean, rd = 0, ~ClearSeen
      PROVE  HotClean'
  <2>1. ts' = <<>> /\ first' = None
    BY <1>2, <1>8 DEF FrontEnd, HotClean
  <2>2. FifoDepth \in Nat \ {0} /\ 0 % (2 * FifoDepth) = 0
    BY ScoreboardAssumption
  <2>3. wr' = (0 + 0) % (2 * FifoDepth) /\ rdSeen' = <<0, 0>>
    BY <1>2, <1>8 DEF WriteSide, HotClean
  <2>4. wr' = 0
    BY <2>2, <2>3
  <2>5. ~full'
    <3>1. full' = (~ClearSeen /\ (((0 + 0) % (2 * FifoDepth)) - 0) % (2 * FifoDepth) = FifoDepth)
      BY <1>2, <1>8 DEF WriteSide, HotClean
    <3>2. (((0 + 0) % (2 * FifoDepth)) - 0) % (2 * FifoDepth) # FifoDepth
      BY <2>2
    <3>3. QED
      BY <3>1, <3>2
  <2>6. QED
    BY <2>1, <2>3, <2>4, <2>5 DEF HotClean
<1>9. ~StartSeen => fst' = fst /\ frec' = frec
  BY <1>1, <1>2 DEF Framer
<1>10. StartSeen => (fst' = "REC" /\ frec' = <<run, 0>>) \/ fst' = "IDLE"
  BY <1>1, <1>2 DEF Framer
<1>11. clearHot' = <<clearing, clearHot[1]>> /\ startHot' = <<runStart, startHot[1], startHot[2]>>
  BY <1>2 DEF Synchronize
<1>12. skew' \in Int /\ skew' < 0
  BY <1>1, <1>2
<1>13. QED
  BY <1>2, <1>4, <1>5, <1>6, <1>7, <1>8, <1>9, <1>10, <1>11, <1>12

\* The hot clock follows the clear.
LEMMA SweepHot ==
  ASSUME BoardInv, clearing, HotStep
  PROVE  Sweep'
<1>1. /\ Sweep /\ skew \in Int /\ skew <= ClockRatio /\ ClockRatio \in Nat /\ clearing = TRUE
  BY RunBenchAssumption DEF BoardInv
<1>2. /\ Synchronize /\ FrontEnd(issue, Retiring) /\ WriteSide(Retiring) /\ UNCHANGED coolVars
      /\ skew' = IF skew > 0 THEN -1 ELSE skew - 1
  BY DEF HotStep, HotEdge
<1>3. /\ clrAddr' = clrAddr /\ rd' = rd /\ empty' = empty /\ wrSeen' = wrSeen /\ counters' = counters
  BY <1>2 DEF coolVars
<1>4. Ahead' = 0 /\ Ahead \in Nat /\ Ahead <= ClockRatio /\ clrAddr \in 0 .. HistEntries - 1
  BY <1>1, <1>2 DEF Ahead, Sweep
<1>5. ClearSeen => HotClean'
  BY <1>2 DEF FrontEnd, WriteSide, HotClean
<1>6. clearHot' = <<TRUE, clearHot[1]>>
  BY <1>1, <1>2 DEF Synchronize
<1>7. CASE clearHot \in {<<FALSE, FALSE>>, <<FALSE, TRUE>>} /\ clrAddr + 1 <= Ahead
  <2>1. clearHot' = <<TRUE, FALSE>>
    <3>1. clearHot[1] = FALSE
      <4>1. clearHot = <<FALSE, FALSE>> \/ clearHot = <<FALSE, TRUE>>
        BY <1>7
      <4>2. CASE clearHot = <<FALSE, FALSE>>
        BY <4>2
      <4>3. CASE clearHot = <<FALSE, TRUE>>
        BY <4>3
      <4>4. QED
        BY <4>1, <4>2, <4>3
    <3>2. QED
      BY <1>6, <3>1
  <2>2. clrAddr' + 1 <= ClockRatio + Ahead'
    BY <1>1, <1>3, <1>4, <1>7, ScoreboardAssumption
  <2>3. QED
    BY <1>1, <1>3, <2>1, <2>2 DEF Sweep, CoolClean, NoCounts
<1>8. CASE clearHot = <<TRUE, FALSE>> /\ clrAddr + 1 <= ClockRatio + Ahead
  <2>1. clearHot' = <<TRUE, TRUE>> /\ clrAddr' + 1 <= 2 * ClockRatio + Ahead'
    BY <1>1, <1>3, <1>4, <1>6, <1>8
  <2>2. QED
    BY <1>1, <1>3, <2>1 DEF Sweep, CoolClean, NoCounts
<1>9. CASE clearHot = <<TRUE, TRUE>>
  <2>1. clearHot' = <<TRUE, TRUE>> /\ HotClean'
    BY <1>5, <1>6, <1>9 DEF ClearSeen
  <2>2. QED
    BY <1>1, <1>3, <2>1 DEF Sweep, CoolClean, NoCounts
<1>10. QED
  BY <1>1, <1>7, <1>8, <1>9 DEF Sweep

\* The CSR clock sweeps on, or begins.
LEMMA SweepCool ==
  ASSUME BoardInv, NEW op, CoolStep(op)
  PROVE  /\ clearing' => Sweep'
         /\ clearing => CoolClean' /\ Ahead' = Ahead + 1
<1>1. /\ skew \in Int /\ skew <= ClockRatio /\ ClockRatio \in Nat \ {0} /\ HistEntries \in Nat \ {0}
      /\ clearHot \in {<<FALSE, FALSE>>, <<FALSE, TRUE>>, <<TRUE, FALSE>>, <<TRUE, TRUE>>}
      /\ clearing => Sweep
  BY RunBenchAssumption, ScoreboardAssumption DEF BoardInv
<1>2. /\ CoolEdge(op) /\ skew < ClockRatio /\ skew' = IF skew < 0 THEN 1 ELSE skew + 1
  BY DEF CoolStep
<1>3. ReadSide /\ Accumulate /\ ClearFsm(op) /\ UNCHANGED hotVars
  BY <1>2 DEF CoolEdge
<1>4. /\ clearHot' = clearHot /\ ts' = ts /\ first' = first /\ wr' = wr /\ full' = full /\ rdSeen' = rdSeen
  BY <1>3 DEF hotVars
<1>5. Ahead \in Nat /\ Ahead' = Ahead + 1
  BY <1>1, <1>2 DEF Ahead
<1>6. HotClean => HotClean'
  BY <1>4 DEF HotClean
<1>7. CASE clearing
  <2>1. CoolClean'
    BY <1>3, <1>7 DEF ReadSide, Accumulate, CoolClean, NoCounts
  <2>2. SUFFICES ASSUME clearing'
                 PROVE  Sweep'
    BY <1>5, <2>1
  <2>3. clrAddr' = clrAddr + 1 /\ clrAddr \in 0 .. HistEntries - 1 /\ clrAddr # HistEntries - 1
    BY <1>1, <1>3, <1>7, <2>2 DEF ClearFsm, LastClear, Sweep
  <2>4. clrAddr' \in 0 .. HistEntries - 1
    BY <1>1, <2>3
  <2>5. /\ clrAddr + 1 <= Ahead => clrAddr' + 1 <= Ahead'
        /\ clrAddr + 1 <= ClockRatio + Ahead => clrAddr' + 1 <= ClockRatio + Ahead'
        /\ clrAddr + 1 <= 2 * ClockRatio + Ahead => clrAddr' + 1 <= 2 * ClockRatio + Ahead'
    BY <1>1, <1>5, <2>3
  <2>6. QED
    BY <1>1, <1>4, <1>6, <1>7, <2>1, <2>4, <2>5 DEF Sweep
<1>8. CASE ~clearing
  <2>1. SUFFICES ASSUME clearing'
                 PROVE  Sweep'
    BY <1>8
  <2>2. clrAddr' = 0
    BY <1>3, <1>8, <2>1 DEF ClearFsm
  <2>3. /\ clrAddr' \in 0 .. HistEntries - 1 /\ ~(clrAddr' > 0) /\ clrAddr' + 1 <= Ahead'
        /\ clrAddr' + 1 <= ClockRatio + Ahead' /\ clrAddr' + 1 <= 2 * ClockRatio + Ahead'
    BY <1>1, <1>5, <2>2
  <2>4. QED
    BY <1>1, <1>4, <2>3 DEF Sweep
<1>9. QED
  BY <1>7, <1>8

\* When the clear ends, the hot clock has reset its side, or is bound to before the CSR clock
\* goes on.
LEMMA SweepEnds ==
  ASSUME ClearLasts, BoardInv, clearing, LastClear, NEW op, CoolStep(op)
  PROVE  clearHot' = <<TRUE, TRUE>> /\ (HotClean' \/ skew' = ClockRatio)
<1>1. /\ HistEntries \in Nat \ {0} /\ ClockRatio \in Nat \ {0} /\ HistEntries + 1 >= 3 * ClockRatio
      /\ skew \in Int /\ Sweep
  BY ScoreboardAssumption, RunBenchAssumption DEF ClearLasts, BoardInv
<1>2. /\ CoolEdge(op) /\ skew < ClockRatio /\ skew' = IF skew < 0 THEN 1 ELSE skew + 1
  BY DEF CoolStep
<1>3. UNCHANGED hotVars
  BY <1>2 DEF CoolEdge
<1>4. clearHot' = clearHot /\ (HotClean => HotClean')
  BY <1>3 DEF hotVars, HotClean
<1>5. /\ Ahead \in Nat /\ Ahead <= ClockRatio - 1
      /\ Ahead = ClockRatio - 1 => skew' = ClockRatio
  BY <1>1, <1>2 DEF Ahead
<1>6. clrAddr + 1 = HistEntries
  BY <1>1 DEF LastClear, Sweep
<1>7. ~(clrAddr + 1 <= Ahead) /\ ~(clrAddr + 1 <= ClockRatio + Ahead)
  BY <1>1, <1>5, <1>6
<1>8. clrAddr + 1 <= 2 * ClockRatio + Ahead => Ahead = ClockRatio - 1
  BY <1>1, <1>5, <1>6
<1>9. clearHot = <<TRUE, TRUE>> /\ (HotClean \/ Ahead = ClockRatio - 1)
  BY <1>1, <1>7, <1>8 DEF Sweep
<1>10. QED
  BY <1>4, <1>5, <1>9

\* The clear of a run, seen from the hot clock.
LEMMA ClearingHot ==
  ASSUME BoardInv, Clearing, HotStep
  PROVE  Clearing'
<1>1. /\ clearing /\ pendingStart
      /\ HotIdle /\ startHot = <<runStart, runStart, runStart>>
      /\ Zeroed(clrAddr)
      /\ clrAddr = 0 => host = "latch" /\ ~rested /\ got = NothingRead
  BY DEF Clearing
<1>2. ~StartSeen
  BY <1>1 DEF StartSeen
<1>3. /\ issue' = None /\ inflight' = <<>> /\ ~offer' /\ fst' = fst
      /\ UNCHANGED coolVars /\ UNCHANGED hostVars
      /\ startHot' = <<runStart, startHot[1], startHot[2]>>
  BY <1>1, <1>2, HotQuiet
<1>4. /\ clearing' = clearing /\ pendingStart' = pendingStart /\ clrAddr' = clrAddr /\ runStart' = runStart
      /\ hist' = hist /\ host' = host /\ rested' = rested /\ got' = got
  BY <1>3 DEF coolVars, hostVars
<1>5. HotIdle'
  BY <1>1, <1>3 DEF HotIdle
<1>6. startHot' = <<runStart', runStart', runStart'>>
  BY <1>1, <1>3, <1>4
<1>7. Zeroed(clrAddr)'
  BY <1>1, <1>4 DEF Zeroed
<1>8. clrAddr' = 0 => host' = "latch" /\ ~rested' /\ got' = NothingRead
  BY <1>1, <1>4
<1>9. QED
  BY <1>1, <1>4, <1>5, <1>6, <1>7, <1>8 DEF Clearing, NothingRead

\* What a cycle of the CSR clock does to the other domain and the settings.
LEMMA CoolKeeps ==
  ASSUME NEW op, op.kind \in {"none", "latch"}, CoolStep(op)
  PROVE  /\ UNCHANGED hotVars /\ UNCHANGED envVars /\ conf' = conf
         /\ skew < ClockRatio /\ skew' = IF skew < 0 THEN 1 ELSE skew + 1
         /\ ReadSide /\ Accumulate /\ ClearFsm([kind |-> "none"]) /\ Snapshot(op)
<1>1. CoolEdge(op) /\ UNCHANGED envVars /\ skew < ClockRatio /\ skew' = IF skew < 0 THEN 1 ELSE skew + 1
  BY DEF CoolStep
<1>2. ReadSide /\ Accumulate /\ ClearFsm(op) /\ Registers(op) /\ Snapshot(op) /\ UNCHANGED hotVars
  BY <1>1 DEF CoolEdge
<1>3. conf' = conf
  BY <1>2 DEF Registers
<1>4. ClearFsm([kind |-> "none"])
  BY <1>2 DEF ClearFsm
<1>5. QED
  BY <1>1, <1>2, <1>3, <1>4

\* The clear of a run, seen from the CSR clock.
LEMMA ClearingCool ==
  ASSUME ClearLasts, BoardInv, Clearing, NEW op, op.kind \in {"none", "latch"}, CoolStep(op)
  PROVE  (Clearing' \/ Starting') /\ CoolClean'
<1>1. /\ clearing /\ pendingStart /\ clrAddr \in 0 .. HistEntries - 1
      /\ HotIdle /\ startHot = <<runStart, runStart, runStart>>
      /\ Zeroed(clrAddr)
  BY DEF Clearing, BoardInv, Sweep
<1>2. /\ UNCHANGED hotVars /\ UNCHANGED envVars
      /\ ReadSide /\ Accumulate /\ ClearFsm([kind |-> "none"])
  BY CoolKeeps
<1>3. /\ HistEntries \in Nat \ {0} /\ runStart \in BOOLEAN /\ hist \in [0 .. HistEntries - 1 -> Nat]
  BY ScoreboardAssumption DEF BoardInv
<1>4. /\ startHot' = startHot /\ fst' = fst /\ issue' = issue /\ inflight' = inflight /\ offer' = offer
  BY <1>2 DEF hotVars, envVars
<1>5. HotIdle'
  BY <1>1, <1>4 DEF HotIdle
<1>6. CoolClean'
  BY <1>1, SweepCool
<1>7. hist' = [hist EXCEPT ![clrAddr] = 0]
  BY <1>1, <1>2 DEF Accumulate
<1>8. \A b \in 0 .. clrAddr : hist'[b] = 0
  BY <1>1, <1>3, <1>7 DEF Zeroed
<1>9. /\ clearing' = ~LastClear /\ clrAddr' = (IF LastClear THEN clrAddr ELSE clrAddr + 1)
      /\ runStart' = (runStart # (LastClear /\ pendingStart)) /\ pendingStart' = pendingStart
  BY <1>1, <1>2 DEF ClearFsm
<1>10. CASE LastClear
  <2>1. clrAddr + 1 = HistEntries
    BY <1>1, <1>3, <1>10 DEF LastClear
  <2>2. clearHot' = <<TRUE, TRUE>> /\ (HotClean' \/ skew' = ClockRatio)
    BY <1>1, <1>10, SweepEnds
  <2>3. ~clearing' /\ runStart' = ~runStart
    BY <1>1, <1>3, <1>9, <1>10
  <2>4. startHot' = <<~runStart', ~runStart', ~runStart'>>
    BY <1>1, <1>3, <1>4, <2>3
  <2>5. Zeroed(HistEntries)'
    <3>1. 0 .. HistEntries - 1 = 0 .. clrAddr
      BY <1>1, <1>3, <2>1
    <3>2. \A b \in 0 .. HistEntries - 1 : hist'[b] = 0
      BY <1>8, <3>1
    <3>3. QED
      BY <3>2 DEF Zeroed
  <2>6. QED
    BY <1>5, <1>6, <2>2, <2>3, <2>4, <2>5 DEF Starting
<1>11. CASE ~LastClear
  <2>1. clearing' /\ clrAddr' = clrAddr + 1 /\ runStart' = runStart
    BY <1>3, <1>9, <1>11
  <2>2. clrAddr' # 0
    BY <1>1, <1>3, <2>1
  <2>3. Zeroed(clrAddr)'
    BY <1>1, <1>8, <2>1 DEF Zeroed
  <2>4. pendingStart' /\ startHot' = <<runStart', runStart', runStart'>>
    BY <1>1, <1>4, <1>9, <2>1
  <2>5. QED
    BY <1>5, <1>6, <2>1, <2>2, <2>3, <2>4 DEF Clearing
<1>12. QED
  BY <1>6, <1>10, <1>11

\* Both sides stay clean while nothing arrives.
LEMMA CleanCool ==
  ASSUME ~clearing, HotClean, CoolClean, NEW op, op.kind \in {"none", "latch"}, CoolStep(op)
  PROVE  /\ HotClean' /\ CoolClean' /\ ~clearing' /\ runStart' = runStart /\ hist' = hist
<1>1. rd = 0 /\ empty /\ wrSeen = <<0, 0>> /\ counters = NoCounts
  BY DEF CoolClean
<1>2. /\ UNCHANGED hotVars /\ ReadSide /\ Accumulate /\ ClearFsm([kind |-> "none"])
  BY CoolKeeps
<1>3. HotClean'
  BY <1>2 DEF hotVars, HotClean
<1>4. ~clearing' /\ runStart' = runStart
  BY <1>2 DEF ClearFsm
<1>5. counters' = NoCounts /\ hist' = hist
  BY <1>1, <1>2 DEF Accumulate
<1>6. rd' = 0 /\ empty' /\ wrSeen' = <<0, 0>>
  <2>1. (0 + 0) % (2 * FifoDepth) = 0
    BY ScoreboardAssumption
  <2>2. /\ rd' = (0 + 0) % (2 * FifoDepth)
        /\ empty' = ((0 + 0) % (2 * FifoDepth) = 0)
        /\ wrSeen' = <<wr, 0>>
    BY <1>1, <1>2 DEF ReadSide, Meets
  <2>3. QED
    BY <2>1, <2>2 DEF HotClean
<1>7. CoolClean'
  BY <1>5, <1>6 DEF CoolClean, NoCounts
<1>8. QED
  BY <1>3, <1>4, <1>5, <1>7

\* The CSR clock between clear and start.
LEMMA StartingCool ==
  ASSUME BoardInv, Starting, NEW op, op.kind \in {"none", "latch"}, CoolStep(op)
  PROVE  Starting'
<1>1. ~clearing /\ HotIdle /\ CoolClean /\ Zeroed(HistEntries)
  BY DEF Starting
<1>2. /\ UNCHANGED hotVars /\ UNCHANGED envVars /\ skew < ClockRatio
  BY CoolKeeps
<1>3. /\ clearHot' = clearHot /\ startHot' = startHot
      /\ fst' = fst /\ issue' = issue /\ inflight' = inflight /\ offer' = offer
  BY <1>2 DEF hotVars, envVars
<1>4. skew \in Int /\ ClockRatio \in Nat
  BY RunBenchAssumption DEF BoardInv
<1>5. HotClean
  <2>1. skew # ClockRatio
    BY <1>2, <1>4
  <2>2. QED
    BY <2>1 DEF Starting
<1>6. HotClean' /\ CoolClean' /\ ~clearing' /\ runStart' = runStart /\ hist' = hist
  BY <1>1, <1>5, CleanCool
<1>7. HotIdle'
  BY <1>1, <1>3 DEF HotIdle
<1>8. Zeroed(HistEntries)'
  BY <1>1, <1>6 DEF Zeroed
<1>9. QED
  BY <1>3, <1>6, <1>7, <1>8 DEF Starting

\* A start that was dropped, seen from the CSR clock: once the clear is over both sides are
\* clean, and stay so.
LEMMA IgnoredCool ==
  ASSUME ClearLasts, BoardInv, Ignored, NEW op, op.kind \in {"none", "latch"}, CoolStep(op)
  PROVE  Ignored'
<1>1. HotIdle /\ startHot = <<runStart, runStart, runStart>> /\ counters = NoCounts
  BY DEF Ignored
<1>2. /\ UNCHANGED hotVars /\ UNCHANGED envVars /\ skew < ClockRatio
      /\ ClearFsm([kind |-> "none"])
  BY CoolKeeps
<1>3. /\ startHot' = startHot
      /\ fst' = fst /\ issue' = issue /\ inflight' = inflight /\ offer' = offer
  BY <1>2 DEF hotVars, envVars
<1>4. HotIdle'
  BY <1>1, <1>3 DEF HotIdle
<1>5. CASE clearing
  <2>1. /\ clearing' = ~LastClear /\ ~pendingStart
        /\ runStart' = (runStart # (LastClear /\ pendingStart)) /\ pendingStart' = pendingStart
    BY <1>2, <1>5 DEF ClearFsm, Ignored
  <2>2. CoolClean' /\ counters' = NoCounts
    <3>1. CoolClean'
      BY <1>5, SweepCool
    <3>2. QED
      BY <3>1 DEF CoolClean, NoCounts
  <2>3. runStart' = runStart
    BY <2>1 DEF BoardInv
  <2>4. ~clearing' => HotClean' \/ (clearHot' = <<TRUE, TRUE>> /\ skew' = ClockRatio)
    <3>1. LastClear => clearHot' = <<TRUE, TRUE>> /\ (HotClean' \/ skew' = ClockRatio)
      BY <1>5, SweepEnds
    <3>2. QED
      BY <2>1, <3>1
  <2>5. ~pendingStart' /\ startHot' = <<runStart', runStart', runStart'>>
    BY <1>1, <1>3, <2>1, <2>3
  <2>6. QED
    BY <1>4, <2>2, <2>4, <2>5 DEF Ignored, NoCounts
<1>6. CASE ~clearing
  <2>1. HotClean /\ CoolClean
    <3>1. skew # ClockRatio
      BY <1>2, RunBenchAssumption DEF BoardInv
    <3>2. QED
      BY <1>6, <3>1 DEF Ignored
  <2>2. HotClean' /\ CoolClean' /\ ~clearing' /\ runStart' = runStart
    BY <1>6, <2>1, CleanCool
  <2>3. counters' = NoCounts /\ startHot' = <<runStart', runStart', runStart'>>
    BY <1>1, <1>3, <2>2 DEF CoolClean, NoCounts
  <2>4. QED
    BY <1>4, <2>2, <2>3 DEF Ignored, NoCounts
<1>7. QED
  BY <1>5, <1>6

\* And from the hot clock.
LEMMA IgnoredHot ==
  ASSUME BoardInv, Ignored, HotStep
  PROVE  Ignored'
<1>1. HotIdle /\ startHot = <<runStart, runStart, runStart>> /\ counters = NoCounts
  BY DEF Ignored
<1>2. ~StartSeen
  BY <1>1 DEF StartSeen
<1>3. /\ issue' = None /\ inflight' = <<>> /\ ~offer' /\ fst' = fst
      /\ (ClearSeen \/ (HotClean /\ rd = 0)) => HotClean'
      /\ UNCHANGED coolVars
      /\ startHot' = <<runStart, startHot[1], startHot[2]>>
  BY <1>1, <1>2, HotQuiet
<1>4. /\ clearing' = clearing /\ pendingStart' = pendingStart /\ runStart' = runStart
      /\ rd' = rd /\ empty' = empty /\ wrSeen' = wrSeen /\ counters' = counters
  BY <1>3 DEF coolVars
<1>5. HotIdle' /\ startHot' = <<runStart', runStart', runStart'>> /\ counters' = NoCounts
  BY <1>1, <1>3, <1>4 DEF HotIdle, NoCounts
<1>6. ~clearing => CoolClean' /\ HotClean'
  <2>1. SUFFICES ASSUME ~clearing
                 PROVE  CoolClean' /\ HotClean'
    OBVIOUS
  <2>2. CoolClean /\ (HotClean \/ clearHot = <<TRUE, TRUE>>)
    BY <2>1 DEF Ignored
  <2>3. ClearSeen \/ (HotClean /\ rd = 0)
    <3>1. clearHot = <<TRUE, TRUE>> => ClearSeen
      BY DEF ClearSeen
    <3>2. rd = 0
      BY <2>2 DEF CoolClean
    <3>3. QED
      BY <2>2, <3>1, <3>2
  <2>4. CoolClean'
    BY <1>4, <2>2 DEF CoolClean, NoCounts
  <2>5. QED
    BY <1>3, <2>3, <2>4
<1>7. (clearing => ~pendingStart)'
  BY <1>4 DEF Ignored
<1>8. QED
  BY <1>4, <1>5, <1>6, <1>7 DEF Ignored, NoCounts

\* The hot clock between clear and start: it leaves its reset, and the start begins a run
\* with nothing counted and nothing on the way.
LEMMA StartingHot ==
  ASSUME BoardInv, Starting, HotStep
  PROVE  Starting' \/ Running'
<1>1. /\ ~clearing /\ HotIdle /\ CoolClean /\ Zeroed(HistEntries)
      /\ rd = 0 /\ empty /\ wrSeen = <<0, 0>> /\ counters = NoCounts
  BY DEF Starting, CoolClean
<1>2. /\ issue' = None /\ inflight' = <<>> /\ ~offer'
      /\ (ClearSeen \/ (HotClean /\ rd = 0)) => HotClean'
      /\ ~StartSeen => fst' = fst /\ frec' = frec
      /\ StartSeen => (fst' = "REC" /\ frec' = <<run, 0>>) \/ fst' = "IDLE"
      /\ UNCHANGED coolVars /\ UNCHANGED hostVars
      /\ clearHot' = <<clearing, clearHot[1]>>
      /\ startHot' = <<runStart, startHot[1], startHot[2]>>
  BY <1>1, HotQuiet
<1>3. /\ clearing' = clearing /\ runStart' = runStart /\ conf' = conf
      /\ rd' = rd /\ empty' = empty /\ wrSeen' = wrSeen /\ counters' = counters /\ hist' = hist
      /\ run' = run
  BY <1>2 DEF coolVars, hostVars
<1>4. ~clearing' /\ CoolClean' /\ Zeroed(HistEntries)' /\ runStart \in BOOLEAN /\ clearing = FALSE
  BY <1>1, <1>3 DEF CoolClean, NoCounts, Zeroed, BoardInv
<1>5. CASE startHot = <<~runStart, ~runStart, ~runStart>> /\ clearHot = <<TRUE, TRUE>>
  <2>1. ClearSeen /\ ~StartSeen
    BY <1>5 DEF ClearSeen, StartSeen
  <2>2. HotIdle' /\ HotClean'
    BY <1>1, <1>2, <2>1 DEF HotIdle
  <2>3. startHot' = <<runStart', ~runStart', ~runStart'>> /\ clearHot' = <<FALSE, TRUE>>
    <3>1. startHot[1] = ~runStart /\ startHot[2] = ~runStart /\ clearHot[1] = TRUE
      BY <1>5
    <3>2. startHot' = <<runStart, ~runStart, ~runStart>> /\ clearHot' = <<FALSE, TRUE>>
      BY <1>2, <1>4, <3>1
    <3>3. QED
      BY <1>3, <3>2
  <2>4. QED
    BY <1>4, <2>2, <2>3 DEF Starting
<1>6. CASE startHot = <<runStart, ~runStart, ~runStart>> /\ clearHot = <<FALSE, TRUE>>
  <2>1. ClearSeen /\ ~StartSeen
    BY <1>6 DEF ClearSeen, StartSeen
  <2>2. HotIdle' /\ HotClean'
    BY <1>1, <1>2, <2>1 DEF HotIdle
  <2>3. startHot' = <<runStart', runStart', ~runStart'>> /\ clearHot' = <<FALSE, FALSE>>
    <3>1. startHot[1] = runStart /\ startHot[2] = ~runStart /\ clearHot[1] = FALSE
      BY <1>6
    <3>2. startHot' = <<runStart, runStart, ~runStart>> /\ clearHot' = <<FALSE, FALSE>>
      BY <1>2, <1>4, <3>1
    <3>3. QED
      BY <1>3, <3>2
  <2>4. QED
    BY <1>4, <2>2, <2>3 DEF Starting
<1>7. CASE startHot = <<runStart, runStart, ~runStart>> /\ clearHot = <<FALSE, FALSE>> /\ HotClean
  <2>1. StartSeen
    BY <1>4, <1>7 DEF StartSeen
  <2>2. HotClean' /\ ((fst' = "REC" /\ frec' = <<run', 0>>) \/ fst' = "IDLE")
    BY <1>1, <1>2, <1>3, <1>7, <2>1
  <2>3. startHot' = <<runStart', runStart', runStart'>> /\ clearHot' = <<FALSE, FALSE>>
    <3>1. startHot[1] = runStart /\ startHot[2] = runStart /\ clearHot[1] = FALSE
      BY <1>7
    <3>2. startHot' = <<runStart, runStart, runStart>> /\ clearHot' = <<FALSE, FALSE>>
      BY <1>2, <1>4, <3>1
    <3>3. QED
      BY <1>3, <3>2
  <2>4. inflight' = <<>> /\ issue' = None /\ ts' = <<>> /\ first' = None /\ wr' = 0 /\ rdSeen' = <<0, 0>>
    BY <1>2, <2>2 DEF HotClean
  <2>5. HotPath'
    <3>1. Len(inflight') = 0 /\ N \in Nat \ {0} /\ Slots \in Nat \ {0}
      BY <2>4, RunBenchAssumption
    <3>2. Line(inflight, Retired)'
      BY <3>1 DEF Line
    <3>3. ~Issued'
      BY <2>2 DEF Issued
    <3>4. QED
      BY <2>2, <2>4, <3>1, <3>2, <3>3 DEF HotPath
  <2>6. Retired' = 0
    BY <2>2, <2>4 DEF Retired
  <2>7. counters'.done = 0 /\ counters' = NoCounts
    BY <1>1, <1>3 DEF NoCounts
  <2>8. EventFifo'
    <3>1. Ring(0) = 0 /\ FifoDepth \in Nat \ {0}
      BY ScoreboardAssumption DEF Ring
    <3>2. rd' = 0 /\ wr' = 0 /\ empty' /\ rdSeen' = <<0, 0>> /\ wrSeen' = <<0, 0>>
      BY <1>1, <1>3, <2>4
    <3>3. 0 .. -1 = {}
      OBVIOUS
    <3>4. \E a1, a2, b1, b2 \in Nat :
             /\ <<0, 0>> = <<Ring(a1), Ring(a2)>> /\ <<0, 0>> = <<Ring(b1), Ring(b2)>>
             /\ a2 <= a1 /\ a1 <= 0 /\ 0 <= b2 /\ b2 <= b1 /\ b1 <= 0
             /\ 0 <= a2 + FifoDepth /\ 0 < a2 + FifoDepth
      <4>1. /\ <<0, 0>> = <<Ring(0), Ring(0)>> /\ 0 <= 0 + FifoDepth /\ 0 < 0 + FifoDepth
        BY <3>1
      <4>2. QED
        BY <4>1
    <3>5. PICK a1, a2, b1, b2 \in Nat :
             /\ <<0, 0>> = <<Ring(a1), Ring(a2)>> /\ <<0, 0>> = <<Ring(b1), Ring(b2)>>
             /\ a2 <= a1 /\ a1 <= 0 /\ 0 <= b2 /\ b2 <= b1 /\ b1 <= 0
             /\ 0 <= a2 + FifoDepth /\ 0 < a2 + FifoDepth
      BY <3>4
    <3>6. /\ rdSeen' = <<Ring(a1), Ring(a2)>> /\ wrSeen' = <<Ring(b1), Ring(b2)>>
          /\ a2 <= a1 /\ a1 <= counters'.done /\ counters'.done <= b2 /\ b2 <= b1 /\ b1 <= Retired'
          /\ Retired' <= a2 + FifoDepth /\ (~full' => Retired' < a2 + FifoDepth)
          /\ (~empty' => counters'.done < b2)
      BY <2>6, <2>7, <3>2, <3>5
    <3>7. rd' = Ring(counters'.done) /\ wr' = Ring(Retired')
      BY <2>6, <2>7, <3>1, <3>2
    <3>8. \A k \in counters'.done .. Retired' - 1 : mem'[k % FifoDepth] = EventOf(k)'
      BY <2>6, <2>7
    <3>9. QED
      BY <3>6, <3>7, <3>8 DEF EventFifo, Ring
  <2>9. Counting'
    <3>1. counters' = Tally(0)'
      BY <1>3, <2>7, TallyZero, SameRun
    <3>2. ASSUME NEW b \in 0 .. HistEntries - 1
          PROVE  hist'[b] = InBucket(0, b)'
      <4>1. hist[b] = 0 /\ InBucket(0, b) = 0
        BY <1>1, BucketStep DEF Zeroed
      <4>2. InBucket(0, b)' = InBucket(0, b)
        BY <1>3, SameRun
      <4>3. QED
        BY <1>3, <4>1, <4>2
    <3>3. QED
      BY <2>7, <3>1, <3>2 DEF Counting
  <2>10. QED
    BY <1>4, <2>3, <2>5, <2>8, <2>9 DEF Running
<1>8. QED
  BY <1>5, <1>6, <1>7 DEF Starting

-------------------------------------------------------------------------------
(* The hot clock in a run.                                                  *)

\* The oldest of some records in order is taken.
LEMMA LineTail ==
  ASSUME NEW q \in Seq(Nat \X Nat), q # <<>>, NEW k \in Nat, Line(q, k)
  PROVE  /\ Head(q) = Rec(k) /\ Tail(q) \in Seq(Nat \X Nat) /\ Len(Tail(q)) = Len(q) - 1
         /\ Line(Tail(q), k + 1)
<1>1. Len(q) \in Nat \ {0} /\ Head(q) = q[1] /\ Len(Tail(q)) = Len(q) - 1 /\ Tail(q) \in Seq(Nat \X Nat)
  OBVIOUS
<1>2. ASSUME NEW i \in 1 .. Len(Tail(q))
      PROVE  Tail(q)[i] = Rec(k + 1 + i - 1)
  <2>1. Tail(q)[i] = q[i + 1] /\ i + 1 \in 1 .. Len(q)
    BY <1>1
  <2>2. q[i + 1] = Rec(k + (i + 1) - 1)
    BY <2>1 DEF Line
  <2>3. k + (i + 1) - 1 = k + 1 + i - 1
    BY <1>1
  <2>4. QED
    BY <2>1, <2>2, <2>3
<1>3. q[1] = Rec(k + 1 - 1) /\ k + 1 - 1 = k
  BY <1>1 DEF Line
<1>4. QED
  BY <1>1, <1>2, <1>3 DEF Line

\* The next one joins them.
LEMMA LineAppend ==
  ASSUME NEW q \in Seq(Nat \X Nat), NEW k \in Nat, Line(q, k), NEW r \in Nat \X Nat, r = Rec(k + Len(q))
  PROVE  /\ Append(q, r) \in Seq(Nat \X Nat) /\ Len(Append(q, r)) = Len(q) + 1
         /\ Line(Append(q, r), k)
<1>1. /\ Len(q) \in Nat /\ Append(q, r) \in Seq(Nat \X Nat) /\ Len(Append(q, r)) = Len(q) + 1
      /\ Append(q, r)[Len(q) + 1] = r
      /\ \A i \in 1 .. Len(q) : Append(q, r)[i] = q[i]
  OBVIOUS
<1>2. PICK n \in Nat : n = Len(q)
  BY <1>1
<1>3. ASSUME NEW i \in 1 .. n + 1
      PROVE  Append(q, r)[i] = Rec(k + i - 1)
  <2>1. i = n + 1 \/ i \in 1 .. n
    OBVIOUS
  <2>2. CASE i = n + 1
    <3>1. k + i - 1 = k + n
      BY <2>2
    <3>2. QED
      BY <1>1, <1>2, <2>2, <3>1
  <2>3. CASE i \in 1 .. n
    <3>1. q[i] = Rec(k + i - 1)
      BY <1>2, <2>3 DEF Line
    <3>2. QED
      BY <1>1, <1>2, <2>3, <3>1
  <2>4. QED
    BY <2>1, <2>2, <2>3
<1>4. QED
  BY <1>1, <1>2, <1>3 DEF Line

\* The oldest of a queue that something joined.
LEMMA TailAppend ==
  ASSUME NEW q \in Seq(Nat \X Nat), q # <<>>, NEW r \in Nat \X Nat
  PROVE  /\ Append(q, r) # <<>> /\ Head(Append(q, r)) = Head(q)
         /\ Tail(Append(q, r)) = Append(Tail(q), r)
<1> DEFINE u == Append(q, r)
           v == Tail(q)
<1>1. Len(q) \in Nat /\ Len(q) # 0
  OBVIOUS
<1>2. PICK n \in Nat : n = Len(q) /\ n # 0
  BY <1>1
<1>3. /\ u \in Seq(Nat \X Nat) /\ Len(u) = n + 1 /\ u[n + 1] = r
      /\ \A i \in 1 .. n : u[i] = q[i]
  BY <1>2
<1>4. v \in Seq(Nat \X Nat) /\ Len(v) = n - 1 /\ \A i \in 1 .. n - 1 : v[i] = q[i + 1]
  BY <1>2
<1> HIDE DEF u, v
<1>5. u # <<>> /\ Head(u) = u[1] /\ u[1] = q[1] /\ Head(q) = q[1]
  BY <1>2, <1>3
<1>6. Tail(u) \in Seq(Nat \X Nat) /\ Len(Tail(u)) = n /\ \A i \in 1 .. n : Tail(u)[i] = u[i + 1]
  BY <1>2, <1>3
<1>7. /\ Append(v, r) \in Seq(Nat \X Nat) /\ Len(Append(v, r)) = Len(v) + 1
      /\ Append(v, r)[Len(v) + 1] = r /\ \A i \in 1 .. Len(v) : Append(v, r)[i] = v[i]
  BY <1>4
<1>8. Len(v) + 1 = n
  BY <1>2, <1>4
<1>9. ASSUME NEW i \in 1 .. n
      PROVE  Tail(u)[i] = Append(v, r)[i]
  <2>1. i = n \/ (i \in 1 .. n - 1 /\ i + 1 \in 1 .. n)
    OBVIOUS
  <2>2. CASE i = n
    BY <1>3, <1>6, <1>7, <1>8, <2>2
  <2>3. CASE i \in 1 .. n - 1 /\ i + 1 \in 1 .. n
    <3>1. Append(v, r)[i] = v[i]
      BY <1>4, <1>7, <2>3
    <3>2. u[i + 1] = q[i + 1] /\ v[i] = q[i + 1]
      BY <1>3, <1>4, <2>3
    <3>3. QED
      BY <1>6, <3>1, <3>2
  <2>4. QED
    BY <2>1, <2>2, <2>3
<1>10. Tail(u) = Append(v, r)
  <2>1. ASSUME NEW x \in Seq(Nat \X Nat), NEW y \in Seq(Nat \X Nat), Len(x) = n, Len(y) = n,
               \A i \in 1 .. n : x[i] = y[i]
        PROVE  x = y
    <3>1. x = [i \in 1 .. n |-> x[i]] /\ y = [i \in 1 .. n |-> y[i]]
      BY <2>1
    <3>2. QED
      BY <2>1, <3>1
  <2>2. QED
    BY <1>6, <1>7, <1>8, <1>9, <2>1
<1>11. QED
  BY <1>5, <1>10 DEF u, v

\* Whether a retire is taken in this cycle of the hot clock.
Taken == IF offer /\ ResReady THEN 1 ELSE 0

\* What the front-end and the FIFO make of a record issued and of one retired: the issue
\* has room, and the retire, if one is taken, is of the record whose issue is the oldest.
LEMMA RunningMoves ==
  ASSUME Shapes, SlotsFit, BoardInv, HotPath, ~ClearSeen, HotStep
  PROVE  /\ Retired \in Nat /\ Taken \in {0, 1} /\ (fst # "IDLE" => frec[2] = Retired + Len(inflight))
         /\ Left \in Seq(Nat \X Nat) /\ Len(Left) = Len(inflight) - Taken
         /\ Line(Left, Retired + Taken)
         /\ fst = "IDLE" => Taken = 0
         /\ ts' = IF fst = "FILL" THEN Append(Left, frec) ELSE Left
         /\ first' = IF fst = "IDLE" \/ (frec[2] = 0 /\ fst # "FILL") THEN None ELSE Rec(0)
         /\ wr' = (wr + Taken) % (2 * FifoDepth)
         /\ full' <=> (((wr + Taken) % (2 * FifoDepth)) - rdSeen[2]) % (2 * FifoDepth) = FifoDepth
         /\ rdSeen' = <<rd, rdSeen[1]>>
         /\ Taken = 1 => ~full
         /\ mem' = IF Taken = 1 THEN [mem EXCEPT ![wr % FifoDepth] = EventOf(Retired)] ELSE mem
<1>1. /\ fst \in {"IDLE", "REC", "FILL", "FINISH"}
      /\ fst = "IDLE" => inflight = <<>>
      /\ fst # "IDLE" => frec[1] = run /\ Len(inflight) <= frec[2]
      /\ Line(inflight, Retired)
      /\ issue = None \/ (fst = "FILL" /\ issue = frec)
      /\ Len(inflight) + (IF fst = "FILL" THEN 1 ELSE 0) <= Slots
      /\ ts = IF Issued THEN Append(inflight, frec) ELSE inflight
      /\ first = IF fst = "IDLE" \/ (frec[2] = 0 /\ ~Issued) THEN None ELSE Rec(0)
  BY DEF HotPath
<1>2. /\ run \in Nat /\ frec \in Nat \X Nat /\ inflight \in Seq(Nat \X Nat) /\ (offer => inflight # <<>>)
      /\ None \notin Nat \X Nat
  BY DEF BoardInv, Shapes
<1>3. FrontEnd(issue, Retiring) /\ WriteSide(Retiring)
  BY DEF HotStep, HotEdge
<1>4. Len(inflight) \in Nat /\ frec[2] \in Nat /\ frec = <<frec[1], frec[2]>> /\ Slots <= MaxInflight
      /\ Slots \in Nat /\ MaxInflight \in Nat
  BY <1>2, RunBenchAssumption, ScoreboardAssumption DEF SlotsFit
<1>5. Retired \in Nat /\ (fst # "IDLE" => frec[2] = Retired + Len(inflight) /\ frec = Rec(frec[2]))
  BY <1>1, <1>4 DEF Retired, Rec
<1>6. Taken \in {0, 1} /\ (Taken = 1 <=> offer /\ ~full)
  BY DEF Taken, ResReady
<1>7. offer => /\ fst # "IDLE" /\ Head(inflight) = Rec(Retired) /\ Tail(inflight) \in Seq(Nat \X Nat)
               /\ Len(Tail(inflight)) = Len(inflight) - 1 /\ Line(Tail(inflight), Retired + 1)
               /\ Len(inflight) > 0 /\ frec[2] > 0
  <2>1. SUFFICES ASSUME offer
                 PROVE  /\ fst # "IDLE" /\ Head(inflight) = Rec(Retired) /\ Tail(inflight) \in Seq(Nat \X Nat)
                        /\ Len(Tail(inflight)) = Len(inflight) - 1 /\ Line(Tail(inflight), Retired + 1)
                        /\ Len(inflight) > 0 /\ frec[2] > 0
    OBVIOUS
  <2>2. fst # "IDLE" /\ inflight # <<>>
    BY <1>1, <1>2, <2>1
  <2>3. Len(inflight) > 0
    BY <1>2, <2>2
  <2>4. QED
    BY <1>1, <1>2, <1>4, <1>5, <2>2, <2>3, LineTail
<1>8. Left = IF Taken = 1 THEN Tail(inflight) ELSE inflight
  BY <1>6 DEF Left, ResReady
<1>9. /\ Left \in Seq(Nat \X Nat) /\ Len(Left) = Len(inflight) - Taken
      /\ Line(Left, Retired + Taken)
  <2>1. CASE Taken = 1
    BY <1>6, <1>7, <1>8, <2>1
  <2>2. CASE Taken = 0
    <3>1. Left = inflight /\ Retired + Taken = Retired /\ Len(inflight) - Taken = Len(inflight)
      BY <1>4, <1>5, <1>8, <2>2
    <3>2. QED
      BY <1>1, <1>2, <3>1
  <2>3. QED
    BY <1>6, <2>1, <2>2
<1>10. /\ offer => Retiring = Rec(Retired) /\ Retiring # None
       /\ ~offer => Retiring = None
  <2>1. Rec(Retired) \in Nat \X Nat
    BY <1>2, <1>5 DEF Rec
  <2>2. QED
    BY <1>2, <1>7, <2>1 DEF Retiring
<1>11. offer => ts # <<>> /\ Head(ts) = Rec(Retired) /\ first = Rec(0)
  <2>1. SUFFICES ASSUME offer
                 PROVE  ts # <<>> /\ Head(ts) = Rec(Retired) /\ first = Rec(0)
    OBVIOUS
  <2>2. inflight # <<>> /\ Head(inflight) = Rec(Retired) /\ fst # "IDLE" /\ frec[2] > 0
    BY <1>2, <1>7, <2>1
  <2>3. Append(inflight, frec) # <<>> /\ Head(Append(inflight, frec)) = Head(inflight)
    BY <1>2, <2>2, TailAppend
  <2>4. QED
    BY <1>1, <1>4, <2>2, <2>3
<1>12. (Taken = 1 /\ ts # <<>>) <=> Taken = 1
  BY <1>6, <1>11
<1> DEFINE rest == IF Taken = 1 THEN Tail(ts) ELSE ts
<1>13. rest = IF Issued THEN Append(Left, frec) ELSE Left
  <2>1. CASE Taken = 1
    <3>1. inflight # <<>>
      BY <1>2, <1>6, <2>1
    <3>2. Tail(Append(inflight, frec)) = Append(Tail(inflight), frec)
      BY <1>2, <3>1, TailAppend
    <3>3. QED
      BY <1>1, <1>8, <2>1, <3>2
  <2>2. CASE Taken # 1
    BY <1>1, <1>8, <2>2
  <2>3. QED
    BY <2>1, <2>2
<1>14. issue # None => fst = "FILL" /\ issue = frec /\ ~Issued /\ IssueReady
  <2>1. SUFFICES ASSUME issue # None
                 PROVE  fst = "FILL" /\ issue = frec /\ ~Issued /\ IssueReady
    OBVIOUS
  <2>2. fst = "FILL" /\ issue = frec /\ ~Issued
    BY <1>1, <2>1 DEF Issued
  <2>3. ts = inflight /\ Len(inflight) + 1 <= Slots
    BY <1>1, <2>2
  <2>4. Len(ts) < MaxInflight
    BY <1>4, <2>3
  <2>5. QED
    BY <2>2, <2>4 DEF IssueReady
<1>15. issue # None /\ IssueReady <=> issue # None
  BY <1>14
<1>16. fst = "FILL" <=> (Issued \/ issue # None)
  BY <1>14 DEF Issued
<1>17. (Retiring # None /\ ResReady) <=> Taken = 1
  BY <1>6, <1>10 DEF ResReady
<1>18. /\ ts' = IF issue # None THEN Append(rest, issue) ELSE rest
       /\ first' = IF issue # None /\ first = None THEN issue ELSE first
  BY <1>3, <1>12, <1>15, <1>17 DEF FrontEnd
<1> HIDE DEF rest
<1>19. ts' = IF fst = "FILL" THEN Append(Left, frec) ELSE Left
  BY <1>13, <1>14, <1>16, <1>18
<1>20. first' = IF fst = "IDLE" \/ (frec[2] = 0 /\ fst # "FILL") THEN None ELSE Rec(0)
  <2>1. Rec(0) # None
    BY <1>2 DEF Rec
  <2>2. CASE issue = None
    <3>1. first' = first /\ (Issued <=> fst = "FILL")
      BY <1>16, <1>18, <2>2
    <3>2. QED
      BY <1>1, <3>1
  <2>3. CASE issue # None
    <3>1. fst = "FILL" /\ issue = frec /\ ~Issued /\ frec = Rec(frec[2])
      BY <1>5, <1>14, <2>3
    <3>2. first = IF frec[2] = 0 THEN None ELSE Rec(0)
      BY <1>1, <3>1
    <3>3. first' = IF first = None THEN issue ELSE first
      BY <1>18, <2>3
    <3>4. CASE frec[2] = 0
      BY <3>1, <3>2, <3>3, <3>4
    <3>5. CASE frec[2] # 0
      BY <2>1, <3>1, <3>2, <3>3, <3>5
    <3>6. QED
      BY <3>4, <3>5
  <2>4. QED
    BY <2>2, <2>3
<1>21. /\ wr' = (wr + Taken) % (2 * FifoDepth)
       /\ full' <=> (((wr + Taken) % (2 * FifoDepth)) - rdSeen[2]) % (2 * FifoDepth) = FifoDepth
       /\ rdSeen' = <<rd, rdSeen[1]>>
  <2>1. (IF (Retiring # None /\ ResReady) /\ ~full THEN 1 ELSE 0) = Taken
    BY <1>6, <1>17
  <2>2. QED
    BY <1>3, <2>1 DEF WriteSide
<1>22. Taken = 1 => Event(Retiring) = EventOf(Retired)
  BY <1>6, <1>10, <1>11 DEF Event, EventOf, Paired
<1>23. mem' = IF Taken = 1 THEN [mem EXCEPT ![wr % FifoDepth] = EventOf(Retired)] ELSE mem
  <2>1. mem' = IF Taken = 1 THEN [mem EXCEPT ![wr % FifoDepth] = Event(Retiring)] ELSE mem
    BY <1>3, <1>6, <1>17 DEF WriteSide
  <2>2. QED
    BY <1>22, <2>1
<1>24. fst = "IDLE" => Taken = 0
  BY <1>6, <1>7
<1>25. QED
  BY <1>5, <1>6, <1>9, <1>19, <1>20, <1>21, <1>23, <1>24

\* The framer goes on: the records stay in order, each paired with its own issue.
LEMMA PathGoesOn ==
  ASSUME Shapes, SlotsFit, BoardInv, conf = [n |-> N, loop |-> loops > 1],
         HotPath, ~ClearSeen, ~StartSeen, HotStep
  PROVE  HotPath' /\ Retired' = Retired + Taken
<1>1. /\ Retired \in Nat /\ Taken \in {0, 1} /\ (fst # "IDLE" => frec[2] = Retired + Len(inflight))
      /\ Left \in Seq(Nat \X Nat) /\ Len(Left) = Len(inflight) - Taken
      /\ Line(Left, Retired + Taken)
      /\ fst = "IDLE" => Taken = 0
      /\ ts' = IF fst = "FILL" THEN Append(Left, frec) ELSE Left
      /\ first' = IF fst = "IDLE" \/ (frec[2] = 0 /\ fst # "FILL") THEN None ELSE Rec(0)
  BY RunningMoves
<1>2. /\ fst \in {"IDLE", "REC", "FILL", "FINISH"}
      /\ fst = "IDLE" => inflight = <<>>
      /\ fst # "IDLE" => frec[1] = run /\ Len(inflight) <= frec[2]
      /\ Len(inflight) + (IF fst = "FILL" THEN 1 ELSE 0) <= Slots
      /\ ~conf.loop /\ fst \in {"REC", "FILL"} => frec[2] < N
      /\ fst = "FINISH" => frec[2] = N
  BY DEF HotPath
<1>3. Framer /\ UNCHANGED coolVars /\ UNCHANGED hostVars
  BY DEF HotStep, HotEdge
<1>4. run' = run /\ conf' = conf /\ conf.loop = (loops > 1) /\ conf.n = N
  BY <1>3 DEF coolVars, hostVars
<1>5. /\ None \notin Nat \X Nat /\ frec \in Nat \X Nat /\ frec = <<frec[1], frec[2]>> /\ frec[2] \in Nat
      /\ inflight \in Seq(Nat \X Nat) /\ Len(inflight) \in Nat /\ Slots \in Nat /\ N \in Nat \ {0}
  BY RunBenchAssumption DEF BoardInv, Shapes
<1>6. PICK l \in Nat : l = Len(inflight)
  BY <1>5
<1>7. PICK e \in {0, 1} : e = Taken
  BY <1>1
<1>8. PICK R \in Nat : R = Retired
  BY <1>1
<1>9. PICK ll \in Nat : ll = Len(Left) /\ ll = l - e
  <2>1. Len(Left) \in Nat
    BY <1>1
  <2>2. QED
    BY <1>1, <1>6, <1>7, <2>1
<1>10. PICK m \in Nat : m = frec[2]
  BY <1>5
<1>11. Line(Left, R + e)
  BY <1>1, <1>7, <1>8
<1>12. ASSUME NEW CONSTANT q, NEW CONSTANT k
       PROVE  Rec(k)' = Rec(k) /\ (Line(q, k) => Line(q, k)')
  BY <1>4 DEF Rec, Line
<1>13. fst # "IDLE" => m = R + l /\ ll <= m /\ m - ll = R + e /\ frec[1] = run
  <2>1. fst # "IDLE" => m = R + l /\ frec[1] = run
    BY <1>1, <1>2, <1>6, <1>8, <1>10
  <2>2. ll = l - e /\ (e = 0 \/ e = 1)
    BY <1>9
  <2>3. QED
    BY <2>1, <2>2
<1>14. fst = "IDLE" => R = 0 /\ e = 0 /\ Left = <<>>
  <2>1. fst = "IDLE" => inflight = <<>> /\ e = 0
    BY <1>1, <1>2, <1>7
  <2>2. fst = "IDLE" => R = 0
    BY <1>8 DEF Retired
  <2>3. fst = "IDLE" => ll = 0
    BY <1>6, <1>9, <2>1
  <2>4. ll = 0 => Left = <<>>
    BY <1>1, <1>9
  <2>5. QED
    BY <2>1, <2>2, <2>3, <2>4
<1>15. ll <= l /\ ll <= Slots /\ (fst = "FILL" => ll + 1 <= Slots) /\ Len(Left) = ll
  <2>1. l + (IF fst = "FILL" THEN 1 ELSE 0) <= Slots
    BY <1>2, <1>6
  <2>2. ll <= l
    BY <1>9
  <2>3. Slots \in Nat
    BY <1>5
  <2>4. QED
    BY <1>9, <2>1, <2>2, <2>3
<1>16. CASE fst \in {"IDLE", "FINISH"} /\ fst' = fst /\ frec' = frec /\ issue' = None /\ inflight' = Left
  <2>1. Retired' = R + e
    BY <1>10, <1>13, <1>14, <1>15, <1>16 DEF Retired
  <2>2. fst' = "IDLE" => inflight' = <<>>
    BY <1>16, <1>14
  <2>3. Line(inflight, Retired)'
    BY <1>4, <1>11, <1>16, <2>1 DEF Line, Rec
  <2>4. fst' # "IDLE" => frec'[1] = run' /\ Len(inflight') <= frec'[2]
    BY <1>4, <1>10, <1>13, <1>15, <1>16
  <2>5. ~Issued' /\ Len(inflight') + 0 <= Slots
    BY <1>15, <1>16 DEF Issued
  <2>6. ts' = inflight' /\ first' = IF fst' = "IDLE" \/ frec'[2] = 0 THEN None ELSE Rec(0)'
    BY <1>1, <1>12, <1>16
  <2>7. fst' = "FINISH" => frec'[2] = N
    BY <1>2, <1>16
  <2>8. HotPath'
    BY <1>16, <2>2, <2>3, <2>4, <2>5, <2>6, <2>7 DEF HotPath
  <2>9. QED
    BY <1>7, <1>8, <2>1, <2>8
<1>17. CASE /\ fst = "REC" /\ fst' \in {"REC", "FILL"} /\ frec' = frec /\ inflight' = Left
            /\ fst' = "REC" => issue' = None
            /\ fst' = "FILL" => issue' = frec /\ Len(inflight) < Slots
  <2>1. Retired' = R + e
    BY <1>10, <1>13, <1>14, <1>15, <1>17 DEF Retired
  <2>2. Line(inflight, Retired)'
    BY <1>4, <1>11, <1>17, <2>1 DEF Line, Rec
  <2>3. frec'[1] = run' /\ Len(inflight') <= frec'[2]
    BY <1>4, <1>10, <1>13, <1>15, <1>17
  <2>4. ~Issued'
    BY <1>5, <1>17 DEF Issued
  <2>5. Len(inflight') + (IF fst' = "FILL" THEN 1 ELSE 0) <= Slots
    BY <1>5, <1>6, <1>15, <1>17
  <2>6. ts' = inflight' /\ first' = IF frec'[2] = 0 THEN None ELSE Rec(0)'
    BY <1>1, <1>12, <1>17
  <2>7. ~conf'.loop => frec'[2] < N
    BY <1>2, <1>4, <1>17
  <2>8. HotPath'
    BY <1>17, <2>2, <2>3, <2>4, <2>5, <2>6, <2>7 DEF HotPath
  <2>9. QED
    BY <1>7, <1>8, <2>1, <2>8
<1>18. CASE fst = "FILL" /\ fst' = "FILL" /\ frec' = frec /\ issue' = None /\ inflight' = Left
  <2>1. Retired' = R + e
    BY <1>10, <1>13, <1>14, <1>15, <1>18 DEF Retired
  <2>2. Line(inflight, Retired)'
    BY <1>4, <1>11, <1>18, <2>1 DEF Line, Rec
  <2>3. frec'[1] = run' /\ Len(inflight') <= frec'[2]
    BY <1>4, <1>10, <1>13, <1>15, <1>18
  <2>4. Issued'
    BY <1>18 DEF Issued
  <2>5. Len(inflight') + 1 <= Slots
    BY <1>5, <1>6, <1>15, <1>18
  <2>6. ts' = Append(inflight', frec') /\ first' = Rec(0)'
    BY <1>1, <1>12, <1>18
  <2>7. ~conf'.loop => frec'[2] < N
    BY <1>2, <1>4, <1>18
  <2>8. HotPath'
    BY <1>18, <2>2, <2>3, <2>4, <2>5, <2>6, <2>7 DEF HotPath
  <2>9. QED
    BY <1>7, <1>8, <2>1, <2>8
<1>19. CASE /\ fst = "FILL" /\ fst' = AfterRecord /\ frec' = <<frec[1], frec[2] + 1>> /\ issue' = None
            /\ inflight' = Append(Left, frec)
  <2>1. frec = Rec((R + e) + Len(Left)) /\ R + e \in Nat /\ m = R + l
    <3>1. frec[1] = run /\ frec = <<frec[1], m>> /\ m = R + l
      BY <1>5, <1>10, <1>19, <1>13
    <3>2. (R + e) + Len(Left) = m
      BY <1>6, <1>7, <1>9, <3>1
    <3>3. QED
      BY <3>1, <3>2 DEF Rec
  <2>2. /\ Append(Left, frec) \in Seq(Nat \X Nat) /\ Len(Append(Left, frec)) = Len(Left) + 1
        /\ Line(Append(Left, frec), R + e)
    BY <1>1, <1>5, <1>11, <2>1, LineAppend
  <2>3. Len(inflight') = ll + 1 /\ frec'[2] = m + 1 /\ frec'[1] = run'
    BY <1>2, <1>4, <1>9, <1>10, <1>19, <2>2
  <2>4. fst' \in {"REC", "FINISH"}
    BY <1>19 DEF AfterRecord
  <2>5. Retired' = R + e
    BY <1>9, <2>1, <2>3, <2>4 DEF Retired
  <2>6. Line(inflight, Retired)'
    BY <1>4, <1>19, <2>2, <2>5 DEF Line, Rec
  <2>7. Len(inflight') <= frec'[2] /\ frec'[2] # 0
    BY <1>9, <2>1, <2>3
  <2>8. ~Issued' /\ Len(inflight') + 0 <= Slots
    BY <1>19, <1>15, <2>3, <2>4 DEF Issued
  <2>9. ts' = inflight' /\ first' = Rec(0)'
    BY <1>1, <1>12, <1>19
  <2>10. ~conf'.loop /\ fst' = "REC" => frec'[2] < N
    <3>1. ~conf.loop => m < N
      BY <1>2, <1>10, <1>19
    <3>2. ~conf.loop /\ fst' = "REC" => (m + 1) % N # 0
      BY <1>4, <1>10, <1>19 DEF AfterRecord
    <3>3. m + 1 = N => (m + 1) % N = 0
      <4>1. N % N = 0
        BY <1>5
      <4>2. QED
        BY <4>1
    <3>4. ~conf.loop /\ fst' = "REC" => m + 1 < N
      <4>1. m < N /\ m + 1 # N => m + 1 < N
        BY <1>5
      <4>2. QED
        BY <3>1, <3>2, <3>3, <4>1
    <3>5. QED
      BY <1>4, <2>3, <3>4
  <2>11. fst' = "FINISH" => frec'[2] = N
    <3>1. fst' = "FINISH" => ~conf.loop /\ (m + 1) % N = 0
      BY <1>4, <1>10, <1>19 DEF AfterRecord
    <3>2. ~conf.loop => m < N
      BY <1>2, <1>10, <1>19
    <3>3. m + 1 < N => (m + 1) % N # 0
      <4>1. ASSUME NEW x \in Nat \ {0}, x < N
            PROVE  x % N # 0
        <5>1. x \in 0 .. N - 1 /\ x = N * 0 + x /\ 0 \in Nat /\ x \in Nat
          BY <1>5, <4>1
        <5>2. x % N = x
          BY <1>5, <5>1, ModUnique
        <5>3. QED
          BY <5>2
      <4>2. m + 1 \in Nat \ {0}
        OBVIOUS
      <4>3. QED
        BY <4>1, <4>2
    <3>4. fst' = "FINISH" => m + 1 = N
      <4>1. m < N /\ ~(m + 1 < N) => m + 1 = N
        BY <1>5
      <4>2. QED
        BY <3>1, <3>2, <3>3, <4>1
    <3>5. QED
      BY <2>3, <3>4
  <2>12. HotPath'
    BY <1>19, <2>3, <2>4, <2>6, <2>7, <2>8, <2>9, <2>10, <2>11 DEF HotPath
  <2>13. QED
    BY <1>7, <1>8, <2>5, <2>12
<1>20. QED
  BY <1>2, <1>3, <1>16, <1>17, <1>18, <1>19 DEF Framer

\* The event of the record retired goes where no event waits, and the FIFO says full when
\* the next one would not be free.
LEMMA EventPutIn ==
  ASSUME Shapes, SlotsFit, BoardInv, HotPath, EventFifo, counters.done \in Nat, ~ClearSeen,
         HotStep, Retired' = Retired + Taken
  PROVE  EventFifo'
<1>1. /\ Retired \in Nat /\ Taken \in {0, 1}
      /\ wr' = (wr + Taken) % (2 * FifoDepth)
      /\ full' <=> (((wr + Taken) % (2 * FifoDepth)) - rdSeen[2]) % (2 * FifoDepth) = FifoDepth
      /\ rdSeen' = <<rd, rdSeen[1]>>
      /\ Taken = 1 => ~full
      /\ mem' = IF Taken = 1 THEN [mem EXCEPT ![wr % FifoDepth] = EventOf(Retired)] ELSE mem
  BY RunningMoves
<1>2. UNCHANGED coolVars /\ UNCHANGED hostVars
  BY DEF HotStep, HotEdge
<1>3. /\ rd' = rd /\ empty' = empty /\ wrSeen' = wrSeen /\ counters' = counters /\ run' = run
  BY <1>2 DEF coolVars, hostVars
<1>4. FifoDepth \in Nat \ {0} /\ mem = [k \in 0 .. FifoDepth - 1 |-> mem[k]]
  BY ScoreboardAssumption DEF BoardInv
<1>5. PICK d \in Nat : d = counters.done
  OBVIOUS
<1>6. PICK R \in Nat : R = Retired
  BY <1>1
<1>7. PICK e \in {0, 1} : e = Taken
  BY <1>1
<1>8. rd = Ring(d) /\ wr = Ring(R) /\ \A k \in d .. R - 1 : mem[k % FifoDepth] = EventOf(k)
  BY <1>5, <1>6 DEF EventFifo
<1>9. PICK a1, a2, b1, b2 \in Nat :
        /\ rdSeen = <<Ring(a1), Ring(a2)>> /\ wrSeen = <<Ring(b1), Ring(b2)>>
        /\ a2 <= a1 /\ a1 <= d /\ d <= b2 /\ b2 <= b1 /\ b1 <= R
        /\ R <= a2 + FifoDepth
        /\ ~full => R < a2 + FifoDepth
        /\ ~empty => d < b2
  BY <1>5, <1>6 DEF EventFifo
<1>10. R + e \in Nat /\ R + e <= a2 + FifoDepth
  BY <1>1, <1>4, <1>7, <1>9
<1>11. wr' = Ring(R + e)
  <2>1. wr' = (Ring(R) + e) % (2 * FifoDepth)
    BY <1>1, <1>7, <1>8
  <2>2. /\ (Ring(R) + 1) % (2 * FifoDepth) = Ring(R + 1)
        /\ (Ring(R) + 0) % (2 * FifoDepth) = Ring(R)
    BY RingSteps
  <2>3. R + 0 = R
    OBVIOUS
  <2>4. CASE e = 0
    BY <2>1, <2>2, <2>3, <2>4
  <2>5. CASE e = 1
    BY <2>1, <2>2, <2>5
  <2>6. QED
    BY <2>4, <2>5
<1>12. full' <=> R + e = a2 + FifoDepth
  <2>1. full' <=> (Ring(R + e) - Ring(a2)) % (2 * FifoDepth) = FifoDepth
    <3>1. (wr + Taken) % (2 * FifoDepth) = Ring(R + e) /\ rdSeen[2] = Ring(a2)
      BY <1>1, <1>9, <1>11
    <3>2. QED
      BY <1>1, <3>1
  <2>2. PICK m \in Nat \ {0} : m = 2 * FifoDepth
    BY <1>4
  <2>3. PICK x \in Nat : x = R + e
    BY <1>10
  <2>4. (Ring(R + e) - Ring(a2)) % (2 * FifoDepth) = (R + e) - a2
    <3>1. m \in Nat \ {0} /\ x \in Nat /\ a2 \in Nat /\ a2 <= x /\ x < a2 + m
      BY <1>4, <1>9, <1>10, <2>2, <2>3
    <3>2. Apart(x, a2, m) = x - a2
      BY <3>1, RingDistance
    <3>3. QED
      BY <2>2, <2>3, <3>2 DEF Ring, Apart
  <2>5. (R + e) - a2 = FifoDepth <=> R + e = a2 + FifoDepth
    BY <1>4
  <2>6. QED
    BY <2>1, <2>4, <2>5
<1>13. ASSUME NEW k \in d .. R + e - 1
       PROVE  mem'[k % FifoDepth] = EventOf(k)
  <2>1. k \in Nat /\ (k = R => e = 1) /\ (k # R => k \in d .. R - 1)
    BY <1>13
  <2>2. CASE e = 0
    <3>1. mem' = mem /\ k \in d .. R - 1
      BY <1>1, <1>7, <2>1, <2>2
    <3>2. QED
      BY <1>8, <3>1
  <2>3. CASE e = 1
    <3>1. /\ Ring(R) % FifoDepth = R % FifoDepth /\ R % FifoDepth \in 0 .. FifoDepth - 1
          /\ k % FifoDepth \in 0 .. FifoDepth - 1
      BY <2>1, RingSteps
    <3>2. mem' = [mem EXCEPT ![R % FifoDepth] = EventOf(R)]
      BY <1>1, <1>6, <1>7, <1>8, <2>3, <3>1
    <3>3. CASE k = R
      BY <1>4, <3>1, <3>2, <3>3
    <3>4. CASE k # R
      <4>1. k <= R /\ R < k + FifoDepth
        BY <1>1, <1>4, <1>7, <1>9, <2>1, <2>3, <3>4
      <4>2. R % FifoDepth # k % FifoDepth
        BY <1>4, <2>1, <3>4, <4>1, RingDistance
      <4>3. mem'[k % FifoDepth] = mem[k % FifoDepth]
        BY <1>4, <3>1, <3>2, <4>2
      <4>4. QED
        BY <1>8, <2>1, <3>4, <4>3
    <3>5. QED
      BY <3>3, <3>4
  <2>4. QED
    BY <2>2, <2>3
<1>14. \A k \in counters'.done .. Retired' - 1 : mem'[k % FifoDepth] = EventOf(k)'
  <2>1. \A k : EventOf(k)' = EventOf(k)
    BY <1>3 DEF EventOf, Rec
  <2>2. counters'.done = d /\ Retired' = R + e
    BY <1>3, <1>5, <1>6, <1>7
  <2>3. QED
    BY <1>13, <2>1, <2>2
<1>15. /\ rdSeen' = <<Ring(d), Ring(a1)>> /\ wrSeen' = <<Ring(b1), Ring(b2)>>
       /\ a1 <= d /\ d <= counters'.done /\ counters'.done <= b2 /\ b2 <= b1 /\ b1 <= Retired'
       /\ Retired' <= a1 + FifoDepth
       /\ ~full' => Retired' < a1 + FifoDepth
       /\ ~empty' => counters'.done < b2
  <2>1. counters'.done = d /\ Retired' = R + e
    BY <1>3, <1>5, <1>6, <1>7
  <2>2. rdSeen' = <<Ring(d), Ring(a1)>> /\ wrSeen' = <<Ring(b1), Ring(b2)>>
    BY <1>1, <1>3, <1>8, <1>9
  <2>3. b1 <= R + e /\ R + e <= a1 + FifoDepth /\ (R + e # a2 + FifoDepth => R + e < a1 + FifoDepth)
    BY <1>4, <1>9, <1>10
  <2>4. QED
    BY <1>3, <1>9, <1>12, <2>1, <2>2, <2>3
<1>16. rd' = Ring(counters'.done) /\ wr' = Ring(Retired')
  BY <1>3, <1>5, <1>6, <1>7, <1>8, <1>11
<1>17. QED
  BY <1>14, <1>15, <1>16 DEF EventFifo, Ring

\* The hot clock in a run.
LEMMA RunningHot ==
  ASSUME Shapes, SlotsFit, BoardInv, conf = [n |-> N, loop |-> loops > 1], Running, HotStep
  PROVE  Running'
<1>1. /\ ~clearing /\ clearHot = <<FALSE, FALSE>> /\ startHot = <<runStart, runStart, runStart>>
      /\ HotPath /\ EventFifo /\ Counting
  BY DEF Running
<1>2. ~ClearSeen /\ ~StartSeen
  BY <1>1 DEF ClearSeen, StartSeen
<1>3. HotPath' /\ Retired' = Retired + Taken
  BY <1>1, <1>2, PathGoesOn
<1>4. EventFifo'
  BY <1>1, <1>2, <1>3, EventPutIn DEF Counting
<1>5. Synchronize /\ UNCHANGED coolVars /\ UNCHANGED hostVars
  BY DEF HotStep, HotEdge
<1>6. clearing' = clearing /\ runStart' = runStart /\ counters' = counters /\ hist' = hist /\ run' = run
  BY <1>5 DEF coolVars, hostVars
<1>7. Counting'
  <2>1. \A k, b : Tally(k)' = Tally(k) /\ InBucket(k, b)' = InBucket(k, b)
    BY <1>6 DEF Tally, InBucket, Records, MatchesOf, Rec
  <2>2. QED
    BY <1>1, <1>6, <2>1 DEF Counting
<1>8. clearing = FALSE
  BY <1>1 DEF BoardInv
<1>9. clearHot' = <<FALSE, FALSE>> /\ startHot' = <<runStart', runStart', runStart'>>
  BY <1>1, <1>5, <1>6, <1>8 DEF Synchronize
<1>10. QED
  BY <1>1, <1>3, <1>4, <1>6, <1>7, <1>9 DEF Running

-------------------------------------------------------------------------------
(* The CSR clock in a run.                                                  *)

\* An event is taken out and counted.
LEMMA EventCounted ==
  ASSUME Shapes, BoardInv, EventFifo, Counting, Retired \in Nat, clearing = FALSE,
         ReadSide, Accumulate, UNCHANGED hotVars, UNCHANGED envVars, run' = run
  PROVE  EventFifo' /\ Counting' /\ counters.done <= counters'.done /\ counters'.done <= Retired
<1>1. /\ wr' = wr /\ full' = full /\ rdSeen' = rdSeen /\ mem' = mem
      /\ fst' = fst /\ frec' = frec /\ inflight' = inflight /\ Retired' = Retired
  BY DEF hotVars, envVars, Retired
<1>2. FifoDepth \in Nat \ {0} /\ hist \in [0 .. HistEntries - 1 -> Nat] /\ run \in Nat
  BY ScoreboardAssumption DEF BoardInv
<1>3. PICK d \in Nat : d = counters.done
  BY DEF Counting
<1>4. PICK R \in Nat : R = Retired
  OBVIOUS
<1>5. PICK e \in {0, 1} : e = IF empty THEN 0 ELSE 1
  OBVIOUS
<1>6. rd = Ring(d) /\ wr = Ring(R) /\ \A k \in d .. R - 1 : mem[k % FifoDepth] = EventOf(k)
  BY <1>3, <1>4 DEF EventFifo
<1>7. PICK a1, a2, b1, b2 \in Nat :
        /\ rdSeen = <<Ring(a1), Ring(a2)>> /\ wrSeen = <<Ring(b1), Ring(b2)>>
        /\ a2 <= a1 /\ a1 <= d /\ d <= b2 /\ b2 <= b1 /\ b1 <= R
        /\ R <= a2 + FifoDepth
        /\ ~full => R < a2 + FifoDepth
        /\ ~empty => d < b2
  BY <1>3, <1>4 DEF EventFifo
<1>8. d + e \in Nat /\ d <= d + e /\ d + e <= b2
  BY <1>5, <1>7
<1>9. (rd + (IF empty THEN 0 ELSE 1)) % (2 * FifoDepth) = Ring(d + e)
  <2>1. /\ (Ring(d) + 1) % (2 * FifoDepth) = Ring(d + 1)
        /\ (Ring(d) + 0) % (2 * FifoDepth) = Ring(d)
    BY RingSteps
  <2>2. d + 0 = d
    OBVIOUS
  <2>3. CASE e = 0
    BY <1>5, <1>6, <2>1, <2>2, <2>3
  <2>4. CASE e = 1
    BY <1>5, <1>6, <2>1, <2>4
  <2>5. QED
    BY <2>3, <2>4
<1>10. rd' = Ring(d + e) /\ wrSeen' = <<Ring(R), Ring(b1)>> /\ (empty' <=> Ring(d + e) = Ring(b2))
  BY <1>6, <1>7, <1>9 DEF ReadSide, Meets
<1>11. empty' <=> d + e = b2
  <2>1. PICK m \in Nat \ {0} : m = 2 * FifoDepth
    BY <1>2
  <2>2. PICK x \in Nat : x = d + e
    BY <1>8
  <2>3. x <= b2 /\ b2 < x + m
    <3>1. b2 <= a2 + FifoDepth /\ a2 <= d /\ d <= x
      BY <1>2, <1>7, <1>8, <2>2
    <3>2. QED
      BY <1>2, <1>8, <2>1, <2>2, <3>1
  <2>4. b2 % m = x % m <=> b2 = x
    BY <2>3, RingDistance
  <2>5. QED
    BY <1>10, <2>1, <2>2, <2>4 DEF Ring
<1>12. ~empty => mem[rd % FifoDepth] = EventOf(d) /\ d < R
  <2>1. Ring(d) % FifoDepth = d % FifoDepth
    BY RingSteps
  <2>2. ~empty => d \in d .. R - 1 /\ d < R
    BY <1>7
  <2>3. QED
    BY <1>6, <2>1, <2>2
<1>13. \A k, b : Tally(k)' = Tally(k) /\ InBucket(k, b)' = InBucket(k, b) /\ EventOf(k)' = EventOf(k)
  BY DEF Tally, InBucket, Records, MatchesOf, EventOf, Rec
<1>14. counters = Tally(d) /\ \A b \in 0 .. HistEntries - 1 : hist[b] = InBucket(d, b)
  BY <1>3 DEF Counting
<1>15. counters' = Tally(d + e)
  <2>1. CASE empty
    <3>1. counters' = counters /\ d + e = d
      BY <1>5, <2>1 DEF Accumulate
    <3>2. QED
      BY <1>14, <3>1
  <2>2. CASE ~empty
    <3>1. counters' = Counted(EventOf(d)) /\ e = 1
      BY <1>5, <1>12, <2>2 DEF Accumulate
    <3>2. QED
      BY <1>14, <3>1, CountedStep
  <2>3. QED
    BY <2>1, <2>2
<1>16. counters'.done = d + e
  BY <1>15 DEF Tally
<1>17. ASSUME NEW b \in 0 .. HistEntries - 1
       PROVE  hist'[b] = InBucket(d + e, b)
  <2>1. CASE empty
    <3>1. hist' = hist /\ d + e = d
      BY <1>5, <2>1 DEF Accumulate
    <3>2. QED
      BY <1>14, <3>1
  <2>2. CASE ~empty
    <3>1. hist' = [hist EXCEPT ![Bucket(Rec(d))] = @ + 1] /\ e = 1
      <4>1. hist' = [hist EXCEPT ![Bucket(mem[rd % FifoDepth].retire)] = @ + 1]
        BY <2>2 DEF Accumulate
      <4>2. mem[rd % FifoDepth].retire = Rec(d)
        BY <1>12, <2>2 DEF EventOf
      <4>3. QED
        BY <1>5, <2>2, <4>1, <4>2
    <3>2. Bucket(Rec(d)) \in 0 .. HistEntries - 1
      BY <1>2 DEF Shapes, Rec
    <3>3. hist'[b] = IF Bucket(Rec(d)) = b THEN hist[b] + 1 ELSE hist[b]
      BY <1>2, <3>1, <3>2
    <3>4. /\ InBucket(d, b) \in Nat
          /\ InBucket(d + 1, b) = InBucket(d, b) + (IF Bucket(Rec(d)) = b THEN 1 ELSE 0)
      BY BucketStep
    <3>5. hist[b] = InBucket(d, b)
      BY <1>14
    <3>6. QED
      BY <3>1, <3>3, <3>4, <3>5
  <2>3. QED
    BY <2>1, <2>2
<1>18. Counting'
  <2>1. counters'.done \in Nat /\ counters' = Tally(counters'.done)
    BY <1>8, <1>15, <1>16
  <2>2. QED
    BY <1>13, <1>16, <1>17, <2>1 DEF Counting
<1>19. EventFifo'
  <2>1. \A k \in counters'.done .. Retired' - 1 : mem'[k % FifoDepth] = EventOf(k)'
    <3>1. ASSUME NEW k \in d + e .. R - 1
          PROVE  k \in d .. R - 1
      BY <1>8
    <3>2. QED
      BY <1>1, <1>4, <1>6, <1>13, <1>16, <3>1
  <2>2. rd' = Ring(counters'.done) /\ wr' = Ring(Retired')
    BY <1>1, <1>4, <1>6, <1>10, <1>16
  <2>3. /\ rdSeen' = <<Ring(a1), Ring(a2)>> /\ wrSeen' = <<Ring(R), Ring(b1)>>
        /\ a2 <= a1 /\ a1 <= counters'.done /\ counters'.done <= b1 /\ b1 <= R /\ R <= Retired'
        /\ Retired' <= a2 + FifoDepth
        /\ ~full' => Retired' < a2 + FifoDepth
        /\ ~empty' => counters'.done < b1
    <3>1. a1 <= d + e /\ d + e <= b1 /\ R <= R /\ (d + e # b2 => d + e < b1)
      BY <1>7, <1>8
    <3>2. Retired' = R /\ counters'.done = d + e
      BY <1>1, <1>4, <1>16
    <3>3. QED
      BY <1>1, <1>7, <1>10, <1>11, <3>1, <3>2
  <2>4. QED
    BY <2>1, <2>2, <2>3 DEF EventFifo, Ring
<1>20. d + e <= R
  BY <1>7, <1>8
<1>21. QED
  BY <1>3, <1>4, <1>8, <1>16, <1>18, <1>19, <1>20

\* The CSR clock in a run; what is counted stays below what the framer has issued.
LEMMA RunningCool ==
  ASSUME Shapes, BoardInv, Running, NEW op, op.kind \in {"none", "latch"}, CoolStep(op), run' = run
  PROVE  /\ Running' /\ counters.done <= counters'.done
         /\ ~conf.loop => counters'.done <= N
<1>1. /\ ~clearing /\ clearHot = <<FALSE, FALSE>> /\ startHot = <<runStart, runStart, runStart>>
      /\ HotPath /\ EventFifo /\ Counting
  BY DEF Running
<1>2. /\ UNCHANGED hotVars /\ UNCHANGED envVars /\ conf' = conf
      /\ ReadSide /\ Accumulate /\ ClearFsm([kind |-> "none"])
  BY CoolKeeps
<1>3. clearing = FALSE
  BY <1>1 DEF BoardInv
<1>4. Retired \in Nat
  BY <1>1 DEF BoardInv, HotPath, Retired
<1>5. EventFifo' /\ Counting' /\ counters.done <= counters'.done /\ counters'.done <= Retired
  BY <1>1, <1>2, <1>3, <1>4, EventCounted
<1>6. /\ clearHot' = clearHot /\ startHot' = startHot /\ ts' = ts /\ first' = first
      /\ fst' = fst /\ frec' = frec /\ issue' = issue /\ inflight' = inflight
  BY <1>2 DEF hotVars, envVars
<1>7. HotPath'
  BY <1>1, <1>2, <1>6 DEF HotPath, Line, Retired, Issued, Rec
<1>8. ~clearing' /\ runStart' = runStart
  BY <1>1, <1>2 DEF ClearFsm
<1>9. ~conf.loop => counters'.done <= N
  <2>1. ~conf.loop => Retired <= N
    BY <1>1, RunBenchAssumption DEF BoardInv, HotPath, Retired
  <2>2. counters'.done \in Nat
    BY <1>5 DEF Counting
  <2>3. QED
    BY <1>4, <1>5, <2>1, <2>2, RunBenchAssumption
<1>10. QED
  BY <1>1, <1>5, <1>6, <1>7, <1>8, <1>9 DEF Running

-------------------------------------------------------------------------------
(* The host.                                                                *)

\* The phases of a run on the board.
OnBoard == Clearing \/ Starting \/ Running \/ Ignored

\* What the host may rely on in a cycle of the CSR clock: unless its start has only just
\* been written, the counters are those of the records counted, and they never go back.
LEMMA BoardCool ==
  ASSUME Shapes, ClearLasts, BoardInv, conf = [n |-> N, loop |-> loops > 1], OnBoard,
         NEW op, op.kind \in {"none", "latch"}, CoolStep(op), run' = run
  PROVE  /\ OnBoard' /\ conf' = conf /\ Snapshot(op)
         /\ counters'.done \in Nat /\ (loops = 1 => counters'.done <= N)
         /\ host # "latch" \/ rested =>
              /\ counters.done \in Nat /\ counters = Tally(counters.done)
              /\ counters.done <= counters'.done
              /\ loops = 1 => counters.done <= N
              /\ counters.done = N => Running
<1>1. conf' = conf /\ Snapshot(op)
  BY CoolKeeps
<1>2. N \in Nat \ {0} /\ loops \in Nat \ {0} /\ (loops = 1 => ~conf.loop)
  <2>1. N \in Nat \ {0} /\ loops \in Nat \ {0}
    BY RunBenchAssumption DEF BoardInv
  <2>2. ASSUME loops = 1
        PROVE  ~conf.loop
    <3>1. conf.loop = (loops > 1) /\ ~(loops > 1)
      BY <2>2
    <3>2. QED
      BY <3>1
  <2>3. QED
    BY <2>1, <2>2
<1>3. ASSUME counters = NoCounts
      PROVE  /\ counters.done = 0 /\ counters.done \in Nat /\ counters = Tally(counters.done)
             /\ counters.done <= N /\ counters.done # N
  BY <1>2, <1>3, TallyZero DEF NoCounts
<1>4. CASE Clearing
  <2>1. OnBoard' /\ CoolClean'
    BY <1>4, ClearingCool DEF OnBoard
  <2>2. counters'.done = 0
    BY <2>1 DEF CoolClean, NoCounts
  <2>3. host # "latch" \/ rested => counters = NoCounts
    <3>1. clrAddr \in 0 .. HistEntries - 1 /\ (clrAddr > 0 => CoolClean)
          /\ (clrAddr = 0 => host = "latch" /\ ~rested)
      BY <1>4 DEF Clearing, BoardInv, Sweep
    <3>2. clrAddr > 0 \/ clrAddr = 0
      BY <3>1, ScoreboardAssumption
    <3>3. QED
      BY <3>1, <3>2 DEF CoolClean
  <2>4. QED
    BY <1>1, <1>2, <1>3, <2>1, <2>2, <2>3
<1>5. CASE Starting
  <2>1. Starting'
    BY <1>5, StartingCool
  <2>2. counters = NoCounts /\ counters'.done = 0
    BY <1>5, <2>1 DEF Starting, CoolClean, NoCounts
  <2>3. QED
    BY <1>1, <1>2, <1>3, <2>1, <2>2 DEF OnBoard
<1>6. CASE Running
  <2>1. Running' /\ counters.done <= counters'.done /\ (~conf.loop => counters'.done <= N)
    BY <1>6, RunningCool
  <2>2. counters'.done \in Nat /\ counters.done \in Nat /\ counters = Tally(counters.done)
    BY <1>6, <2>1 DEF Running, Counting
  <2>3. loops = 1 => counters.done <= N
    BY <1>2, <2>1, <2>2
  <2>4. QED
    BY <1>1, <1>2, <1>6, <2>1, <2>2, <2>3 DEF OnBoard
<1>7. CASE Ignored
  <2>1. Ignored'
    BY <1>7, IgnoredCool
  <2>2. counters = NoCounts /\ counters'.done = 0
    BY <1>7, <2>1 DEF Ignored, NoCounts
  <2>3. QED
    BY <1>1, <1>2, <1>3, <2>1, <2>2 DEF OnBoard
<1>8. QED
  BY <1>4, <1>5, <1>6, <1>7 DEF OnBoard

\* Between two accesses, and when only the hot clock moves.
LEMMA HostWaits ==
  ASSUME HostInv, UNCHANGED <<run, loops, got, bucket, snap>>, host' = host,
         host # "latch" => /\ counters.done \in Nat /\ counters'.done \in Nat
                           /\ counters.done <= counters'.done
                           /\ loops = 1 => counters'.done <= N
  PROVE  HostInv'
<1>1. \A k, b : Tally(k)' = Tally(k) /\ Below(k, b)' = Below(k, b)
  BY DEF Tally, Below, Records, MatchesOf, Rec
<1>2. N \in Nat /\ Target' = Target
  BY RunBenchAssumption DEF Target
<1>3. host = "rest" => snap'.done <= counters'.done
  BY DEF HostInv
<1>4. host \in {"hist", "reported"} /\ loops = 1 => counters'.done = N
  BY <1>2 DEF HostInv
<1>5. QED
  BY <1>1, <1>2, <1>3, <1>4 DEF HostInv, NoCounts

\* The reads of the host: what it puts together is of the instant of the latch, and a
\* histogram is read when there is no more to come.
LEMMA HostReads ==
  ASSUME Shapes, ClearLasts, BoardInv, conf = [n |-> N, loop |-> loops > 1], OnBoard, HostInv,
         Latch \/ ReadRest \/ ReadBucket
  PROVE  OnBoard' /\ conf' = conf /\ HostInv'
<1>1. /\ N \in Nat \ {0} /\ loops \in Nat \ {0} /\ Target \in Nat \ {0} /\ (loops = 1 => Target = N)
      /\ HistEntries \in Nat \ {0} /\ run \in Nat
      /\ got = [counts |-> got.counts, hist |-> got.hist]
  <2>1. N \in Nat \ {0} /\ loops \in Nat \ {0}
    BY RunBenchAssumption DEF BoardInv
  <2>2. \A x \in Nat \ {0}, y \in Nat \ {0} : x * y \in Nat \ {0}
    OBVIOUS
  <2>3. N * 1 = N
    BY <2>1
  <2>4. QED
    BY <2>1, <2>2, <2>3, ScoreboardAssumption DEF Target, BoardInv
<1>2. /\ rested /\ run' = run /\ loops' = loops
      /\ \E op : op.kind \in {"none", "latch"} /\ CoolStep(op) /\ (host # "latch" => op.kind = "none")
                 /\ (host = "latch" => op.kind = "latch")
  BY DEF Latch, ReadRest, ReadBucket, Access, NoAccess
<1>3. PICK op : op.kind \in {"none", "latch"} /\ CoolStep(op) /\ (host # "latch" => op.kind = "none")
                /\ (host = "latch" => op.kind = "latch")
  BY <1>2
<1>4. /\ OnBoard' /\ conf' = conf /\ Snapshot(op)
      /\ counters'.done \in Nat /\ (loops = 1 => counters'.done <= N)
      /\ counters.done \in Nat /\ counters = Tally(counters.done)
      /\ counters.done <= counters'.done
      /\ loops = 1 => counters.done <= N
      /\ counters.done = N => Running
  BY <1>2, <1>3, BoardCool
<1>5. (host # "latch" => snap' = snap) /\ (host = "latch" => snap' = counters)
  BY <1>3, <1>4 DEF Snapshot
<1>6. \A k, b : Tally(k)' = Tally(k) /\ Below(k, b)' = Below(k, b)
  BY <1>2 DEF Tally, Below, Records, MatchesOf, Rec
<1>7. Target' = Target
  BY <1>2 DEF Target
<1>8. CASE Latch
  <2>1. /\ host = "latch" /\ host' = "rest"
        /\ got'.counts = [NoCounts EXCEPT !.span = counters.span]
    BY <1>1, <1>8 DEF Latch
  <2>2. snap' = counters
    BY <1>5, <2>1
  <2>3. snap'.done \in Nat /\ snap' = Tally(snap.done)' /\ snap'.done <= counters'.done
    <3>1. PICK d \in Nat : d = counters.done
      BY <1>4
    <3>2. snap'.done = d /\ snap' = Tally(d) /\ d <= counters'.done
      BY <1>4, <2>2, <3>1
    <3>3. snap' = Tally(d)'
      BY <1>6, <3>2
    <3>4. QED
      BY <3>2, <3>3
  <2>4. got'.counts = [NoCounts EXCEPT !.span = snap'.span]
    BY <2>1, <2>2
  <2>5. HostInv'
    BY <2>1, <2>3, <2>4 DEF HostInv
  <2>6. QED
    BY <1>4, <2>5
<1>9. CASE ReadRest
  <2>1. /\ host = "rest" /\ got'.counts = [snap EXCEPT !.span = got.counts.span] /\ bucket' = 0
        /\ host' = CASE snap.done < Target -> "latch"
                     [] snap.done = Target -> "hist"
                     [] OTHER -> "refused"
    BY <1>1, <1>9 DEF ReadRest
  <2>2. /\ snap.done \in Nat /\ snap = Tally(snap.done) /\ snap.done <= counters.done
        /\ got.counts = [NoCounts EXCEPT !.span = snap.span]
    BY <2>1 DEF HostInv
  <2>3. got'.counts = snap
    <3>1. got.counts.span = snap.span
      BY <2>2 DEF NoCounts
    <3>2. [snap EXCEPT !.span = snap.span] = snap
      BY <2>2 DEF Tally
    <3>3. QED
      BY <2>1, <3>1, <3>2
  <2>4. got'.counts.done \in Nat /\ got'.counts = Tally(got.counts.done)'
    <3>1. PICK d \in Nat : d = snap.done
      BY <2>2
    <3>2. got'.counts.done = d /\ got'.counts = Tally(d)
      BY <2>2, <2>3, <3>1
    <3>3. got'.counts = Tally(d)'
      BY <1>6, <3>2
    <3>4. QED
      BY <3>2, <3>3
  <2>5. host' \in {"latch", "hist", "refused"} /\ (host' = "hist" => snap.done = Target)
    BY <1>1, <2>1, <2>2
  <2>6. host' = "hist" /\ loops = 1 => counters'.done = N
    BY <1>1, <1>4, <2>2, <2>5
  <2>7. HostInv'
    BY <1>1, <1>2, <1>7, <2>1, <2>3, <2>4, <2>5, <2>6 DEF HostInv
  <2>8. QED
    BY <1>4, <2>7
<1>10. CASE ReadBucket
  <2>1. /\ host = "hist" /\ bucket < HistEntries /\ bucket' = bucket + 1
        /\ got'.counts = got.counts /\ got'.hist = (IF bucket = 0 THEN 0 ELSE got.hist) + hist[bucket]
        /\ host' = IF bucket + 1 = HistEntries THEN "reported" ELSE "hist"
    BY <1>1, <1>10 DEF ReadBucket
  <2>2. /\ got.counts.done = Target /\ got.counts = Tally(got.counts.done)
        /\ loops = 1 => counters.done = N
        /\ bucket \in 0 .. HistEntries
        /\ loops = 1 /\ bucket > 0 => got.hist = Below(N, bucket)
    BY <1>1, <2>1 DEF HostInv
  <2>3. loops = 1 => counters'.done = N
    BY <1>1, <1>4, <2>2
  <2>4. loops = 1 => got'.hist = Below(N, bucket + 1)
    <3>1. SUFFICES ASSUME loops = 1
                   PROVE  got'.hist = Below(N, bucket + 1)
      OBVIOUS
    <3>2. Counting /\ counters.done = N
      BY <1>4, <2>2, <3>1 DEF Running
    <3>3. bucket \in 0 .. HistEntries - 1 /\ bucket \in Nat
      BY <1>1, <2>1, <2>2
    <3>4. hist[bucket] = InBucket(N, bucket)
      BY <3>2, <3>3 DEF Counting
    <3>5. Below(N, bucket + 1) = Below(N, bucket) + InBucket(N, bucket) /\ Below(N, 0) = 0
      BY <1>1, <3>3, BelowStep
    <3>6. (IF bucket = 0 THEN 0 ELSE got.hist) = Below(N, bucket)
      BY <2>2, <3>1, <3>3, <3>5
    <3>7. QED
      BY <2>1, <3>4, <3>5, <3>6
  <2>5. bucket + 1 \in 1 .. HistEntries /\ (host' = "hist" => bucket + 1 < HistEntries)
        /\ (host' = "reported" => bucket + 1 = HistEntries)
    BY <1>1, <2>1, <2>2
  <2>6. loops' = 1 => got'.hist = Below(N, bucket)'
    <3>1. PICK b \in Nat : b = bucket + 1
      BY <2>5
    <3>2. loops' = 1 => got'.hist = Below(N, b)
      BY <1>2, <2>4, <3>1
    <3>3. Below(N, b)' = Below(N, b) /\ bucket' = b
      BY <1>6, <2>1, <3>1
    <3>4. QED
      BY <3>2, <3>3
  <2>7. HostInv'
    BY <1>2, <1>6, <1>7, <2>1, <2>2, <2>3, <2>5, <2>6 DEF HostInv
  <2>8. QED
    BY <1>4, <2>7
<1>11. QED
  BY <1>8, <1>9, <1>10

\* The hot clock on a board in any state.
LEMMA BoardHot ==
  ASSUME BoardInv, HotStep
  PROVE  BoardInv'
<1>1. /\ run \in Nat /\ skew \in Int /\ skew <= ClockRatio
      /\ frec \in Nat \X Nat /\ inflight \in Seq(Nat \X Nat) /\ (offer => inflight # <<>>)
      /\ mem = [k \in 0 .. FifoDepth - 1 |-> mem[k]]
  BY DEF BoardInv
<1>2. /\ Synchronize /\ WriteSide(Retiring) /\ UNCHANGED coolVars /\ Framer /\ Engine
      /\ UNCHANGED hostVars /\ skew' = IF skew > 0 THEN -1 ELSE skew - 1
  BY DEF HotStep, HotEdge
<1>3. /\ conf' = conf /\ clearing' = clearing /\ runStart' = runStart /\ hist' = hist
      /\ host' = host /\ run' = run /\ loops' = loops /\ got' = got
  BY <1>2 DEF coolVars, hostVars
<1>4. Left \in Seq(Nat \X Nat)
  BY <1>1 DEF Left
<1>5. frec' \in Nat \X Nat
  BY <1>1, <1>2 DEF Framer
<1>6. inflight' = Left \/ inflight' = Append(Left, frec)
  BY <1>2 DEF Framer
<1>7. Append(Left, frec) \in Seq(Nat \X Nat) /\ Append(Left, frec) # <<>>
  BY <1>1, <1>4, AppendProperties
<1>8. offer' => inflight' # <<>>
  <2>1. offer' => Left # <<>>
    BY <1>1, <1>2 DEF Engine, Left
  <2>2. QED
    BY <1>6, <1>7, <2>1
<1>9. mem' = [k \in 0 .. FifoDepth - 1 |-> mem'[k]]
  BY <1>1, <1>2 DEF WriteSide
<1>10. startHot' = <<startHot'[1], startHot'[2], startHot'[3]>>
  BY <1>2 DEF Synchronize
<1>11. skew' \in Int /\ skew' <= ClockRatio
  <2>1. ClockRatio \in Nat
    BY RunBenchAssumption
  <2>2. QED
    BY <1>1, <1>2, <2>1
<1>12. clearHot' \in {<<FALSE, FALSE>>, <<FALSE, TRUE>>, <<TRUE, FALSE>>, <<TRUE, TRUE>>}
  <2>1. clearing \in BOOLEAN /\ clearHot[1] \in BOOLEAN
    <3>1. clearHot \in {<<FALSE, FALSE>>, <<FALSE, TRUE>>, <<TRUE, FALSE>>, <<TRUE, TRUE>>}
      BY DEF BoardInv
    <3>2. CASE clearHot = <<FALSE, FALSE>>
      BY <3>2 DEF BoardInv
    <3>3. CASE clearHot = <<FALSE, TRUE>>
      BY <3>3 DEF BoardInv
    <3>4. CASE clearHot = <<TRUE, FALSE>>
      BY <3>4 DEF BoardInv
    <3>5. CASE clearHot = <<TRUE, TRUE>>
      BY <3>5 DEF BoardInv
    <3>6. QED
      BY <3>1, <3>2, <3>3, <3>4, <3>5
  <2>2. clearHot' = <<clearing, clearHot[1]>>
    BY <1>2 DEF Synchronize
  <2>3. QED
    BY <2>1, <2>2
<1>13. clearing' => Sweep'
  BY <1>3, SweepHot
<1>14. host' \in {"configure", "start"} => got' = NothingRead'
  BY <1>3 DEF BoardInv, NothingRead, NoCounts
<1>15. QED
  BY <1>3, <1>4, <1>5, <1>6, <1>7, <1>8, <1>9, <1>10, <1>11, <1>12, <1>13, <1>14 DEF BoardInv

\* The CSR clock on a board in any state.
LEMMA BoardKeeps ==
  ASSUME BoardInv, NEW op, CoolStep(op),
         \/ op.kind \in {"none", "latch", "softReset"}
         \/ op.kind = "configure" /\ op.n = N
         \/ op.kind = "start" /\ op.loop \in BOOLEAN,
         run' \in Nat, loops' \in LoopChoices,
         host' = "start" => op.kind = "configure" \/ (host = "start" /\ op.kind = "none"),
         got' = [counts |-> got'.counts, hist |-> got'.hist],
         host' \in {"configure", "start"} => got' = NothingRead
  PROVE  BoardInv'
<1>1. /\ skew \in Int /\ skew <= ClockRatio /\ conf \in [n : Nat, loop : BOOLEAN]
      /\ host = "start" => conf.n = N
      /\ clearing \in BOOLEAN /\ runStart \in BOOLEAN /\ hist \in [0 .. HistEntries - 1 -> Nat]
  BY DEF BoardInv
<1>2. /\ CoolEdge(op) /\ UNCHANGED envVars
      /\ skew < ClockRatio /\ skew' = IF skew < 0 THEN 1 ELSE skew + 1
  BY DEF CoolStep
<1>3. Accumulate /\ ClearFsm(op) /\ Registers(op) /\ UNCHANGED hotVars
  BY <1>2 DEF CoolEdge
<1>4. frec' = frec /\ inflight' = inflight /\ offer' = offer /\ startHot' = startHot /\ mem' = mem
  BY <1>2, <1>3 DEF envVars, hotVars
<1>5. conf' \in [n : Nat, loop : BOOLEAN] /\ (host' = "start" => conf'.n = N)
  BY <1>1, <1>3, RunBenchAssumption DEF Registers
<1>6. clearing' \in BOOLEAN
  BY <1>1, <1>3 DEF ClearFsm
<1>7. runStart' \in BOOLEAN
  BY <1>1, <1>3 DEF ClearFsm
<1>8. hist' \in [0 .. HistEntries - 1 -> Nat]
  <2>1. ASSUME NEW f \in [0 .. HistEntries - 1 -> Nat], NEW x
        PROVE  [f EXCEPT ![x] = 0] \in [0 .. HistEntries - 1 -> Nat]
    OBVIOUS
  <2>2. ASSUME NEW f \in [0 .. HistEntries - 1 -> Nat], NEW x
        PROVE  [f EXCEPT ![x] = @ + 1] \in [0 .. HistEntries - 1 -> Nat]
    <3>1. CASE x \in 0 .. HistEntries - 1
      <4>1. f[x] + 1 \in Nat
        BY <3>1
      <4>2. QED
        BY <4>1
    <3>2. CASE x \notin 0 .. HistEntries - 1
      BY <3>2
    <3>3. QED
      BY <3>1, <3>2
  <2>3. \/ hist' = [hist EXCEPT ![clrAddr] = 0] \/ hist' = hist
        \/ hist' = [hist EXCEPT ![Bucket(mem[rd % FifoDepth].retire)] = @ + 1]
    BY <1>3 DEF Accumulate
  <2>4. QED
    BY <1>1, <2>1, <2>2, <2>3
<1>9. skew' \in Int /\ skew' <= ClockRatio
  BY <1>1, <1>2, RunBenchAssumption
<1>10. clearHot' \in {<<FALSE, FALSE>>, <<FALSE, TRUE>>, <<TRUE, FALSE>>, <<TRUE, TRUE>>}
  BY <1>3 DEF hotVars, BoardInv
<1>11. clearing' => Sweep'
  BY SweepCool
<1>12. NothingRead' = NothingRead
  BY DEF NothingRead, NoCounts
<1>13. QED
  BY <1>4, <1>5, <1>6, <1>7, <1>8, <1>9, <1>10, <1>11, <1>12 DEF BoardInv

-------------------------------------------------------------------------------
(* All together.                                                            *)

\* A run started at rest begins with its clear, unless one is under way.
LEMMA RunBegins ==
  ASSUME ClearLasts, BoardInv, Start
  PROVE  Active' => RunInv'
<1>1. /\ host = "start" /\ host' = "latch" /\ fresh' = AtRest /\ got' = got /\ rested' = FALSE
      /\ run' = run /\ loops' = loops /\ CoolStep([kind |-> "start", loop |-> loops > 1])
  BY DEF Start, Access
<1>2. SUFFICES ASSUME AtRest
               PROVE  RunInv'
  BY <1>1 DEF Active
<1>3. /\ conf \in [n : Nat, loop : BOOLEAN] /\ conf.n = N /\ runStart \in BOOLEAN
      /\ startHot = <<startHot[1], startHot[2], startHot[3]>> /\ (offer => inflight # <<>>)
      /\ got = NothingRead
  BY <1>1 DEF BoardInv
<1>4. CoolEdge([kind |-> "start", loop |-> loops > 1]) /\ UNCHANGED envVars
  BY <1>1 DEF CoolStep
<1>5. /\ ClearFsm([kind |-> "start", loop |-> loops > 1]) /\ Registers([kind |-> "start", loop |-> loops > 1])
      /\ UNCHANGED hotVars /\ Accumulate
  BY <1>4 DEF CoolEdge
<1>6. conf' = [n |-> N, loop |-> loops > 1]
  BY <1>3, <1>5 DEF Registers
<1>7. /\ fst' = fst /\ issue' = issue /\ inflight' = inflight /\ offer' = offer /\ startHot' = startHot
  BY <1>4, <1>5 DEF envVars, hotVars
<1>8. HotIdle'
  BY <1>2, <1>3, <1>7 DEF AtRest, HotIdle
<1>9. startHot = <<runStart, runStart, runStart>>
  <2>1. startHot[1] = runStart /\ startHot[2] = runStart /\ startHot[3] = runStart
    BY <1>2 DEF AtRest
  <2>2. QED
    BY <1>3, <2>1
<1>10. HostInv'
  BY <1>1, <1>3 DEF HostInv, NothingRead, NoCounts
<1>11. CASE ~clearing
  <2>1. clearing' /\ clrAddr' = 0 /\ pendingStart' /\ runStart' = runStart
    BY <1>5, <1>11 DEF ClearFsm
  <2>2. Zeroed(clrAddr)'
    BY <2>1 DEF Zeroed
  <2>3. startHot' = <<runStart', runStart', runStart'>>
    BY <1>7, <1>9, <2>1
  <2>4. Clearing'
    BY <1>1, <1>3, <1>8, <2>1, <2>2, <2>3 DEF Clearing, NothingRead, NoCounts
  <2>5. QED
    BY <1>1, <1>6, <1>10, <2>4 DEF RunInv
<1>12. CASE clearing
  <2>1. /\ ~pendingStart /\ pendingStart' = pendingStart /\ clearing' = ~LastClear
        /\ runStart' = (runStart # (LastClear /\ pendingStart))
    BY <1>2, <1>5, <1>12 DEF ClearFsm, AtRest
  <2>2. runStart' = runStart
    BY <1>3, <2>1
  <2>3. counters' = NoCounts /\ startHot' = <<runStart', runStart', runStart'>> /\ ~pendingStart'
    BY <1>5, <1>7, <1>9, <1>12, <2>1, <2>2 DEF Accumulate
  <2>4. CoolClean'
    BY <1>1, <1>12, SweepCool
  <2>5. ~clearing' => HotClean' \/ (clearHot' = <<TRUE, TRUE>> /\ skew' = ClockRatio)
    BY <1>1, <1>12, <2>1, SweepEnds
  <2>6. Ignored'
    BY <1>8, <2>3, <2>4, <2>5 DEF Ignored, NoCounts
  <2>7. QED
    BY <1>1, <1>6, <1>10, <2>6 DEF RunInv
<1>13. QED
  BY <1>11, <1>12

\* A record of the counters is the same with its own span put in.
LEMMA OwnSpan ==
  ASSUME NEW c, IsCounts(c)
  PROVE  [c EXCEPT !.span = c.span] = c
BY DEF IsCounts

\* The counters keep their shape, and only a latch changes the snapshot.
LEMMA CountsKept ==
  ASSUME IsCounts(counters), IsCounts(snap), NEW op, CoolStep(op)
  PROVE  /\ IsCounts(counters)' /\ IsCounts(snap)'
         /\ snap' = IF op.kind = "latch" THEN counters ELSE snap
<1>1. Accumulate /\ Snapshot(op)
  BY DEF CoolStep, CoolEdge
<1>2. snap' = IF op.kind = "latch" THEN counters ELSE snap
  BY <1>1 DEF Snapshot
<1>3. counters' = NoCounts \/ counters' = counters \/ counters' = Counted(mem[rd % FifoDepth])
  BY <1>1 DEF Accumulate
<1>4. IsCounts(counters')
  BY <1>3 DEF IsCounts, NoCounts, Counted
<1>5. QED
  BY <1>2, <1>4 DEF IsCounts

\* What the host puts together is of the instant of its latch, in every run.
LEMMA InstantStep ==
  ASSUME BoardInv, InstantInv, [Next]_vars
  PROVE  InstantInv'
<1>1. /\ IsCounts(counters) /\ IsCounts(snap)
      /\ host = "rest" => snap = instant /\ got.counts.span = instant.span
      /\ host \in {"latch", "hist", "refused"} => got.counts.done = 0 \/ got.counts = instant
      /\ got = [counts |-> got.counts, hist |-> got.hist]
      /\ host \in {"configure", "start"} => got = NothingRead
  BY DEF InstantInv, BoardInv
<1>2. CASE HotStep
  <2>1. UNCHANGED coolVars /\ UNCHANGED hostVars
    BY <1>2 DEF HotStep, HotEdge
  <2>2. counters' = counters /\ snap' = snap /\ host' = host /\ got' = got /\ instant' = instant
    BY <2>1 DEF coolVars, hostVars
  <2>3. QED
    BY <1>1, <2>2 DEF InstantInv, IsCounts
<1>3. CASE Idle \/ TimeOut \/ SoftReset \/ Configure
  <2>1. /\ got' = got /\ instant' = instant /\ (host' = host \/ host' \in {"start", "stalled"})
        /\ \E op : CoolStep(op) /\ op.kind # "latch"
    BY <1>3 DEF Idle, TimeOut, SoftReset, Configure, Access, NoAccess
  <2>2. IsCounts(counters)' /\ IsCounts(snap)' /\ snap' = snap
    BY <1>1, <2>1, CountsKept
  <2>3. QED
    BY <1>1, <2>1, <2>2 DEF InstantInv
<1>4. CASE Start
  <2>1. /\ got' = got /\ host = "start" /\ host' = "latch" /\ CoolStep([kind |-> "start", loop |-> loops > 1])
    BY <1>4 DEF Start, Access
  <2>2. IsCounts(counters)' /\ IsCounts(snap)'
    BY <1>1, <2>1, CountsKept
  <2>3. got'.counts.done = 0
    BY <1>1, <2>1 DEF NothingRead, NoCounts
  <2>4. QED
    BY <2>1, <2>2, <2>3 DEF InstantInv
<1>5. CASE Latch
  <2>1. /\ got' = [got EXCEPT !.counts = [NoCounts EXCEPT !.span = counters.span]]
        /\ instant' = counters /\ host' = "rest" /\ CoolStep([kind |-> "latch"])
    BY <1>5 DEF Latch, Access
  <2>2. IsCounts(counters)' /\ IsCounts(snap)' /\ snap' = counters
    BY <1>1, <2>1, CountsKept
  <2>3. got'.counts.span = counters.span
    BY <1>1, <2>1 DEF NoCounts
  <2>4. QED
    BY <2>1, <2>2, <2>3 DEF InstantInv
<1>6. CASE ReadRest
  <2>1. /\ got' = [got EXCEPT !.counts = [snap EXCEPT !.span = got.counts.span]]
        /\ instant' = instant /\ host = "rest" /\ host' \in {"latch", "hist", "refused"}
        /\ CoolStep(NoAccess)
    BY <1>6 DEF ReadRest, Access
  <2>2. IsCounts(counters)' /\ IsCounts(snap)'
    BY <1>1, <2>1, CountsKept
  <2>3. got'.counts = [snap EXCEPT !.span = got.counts.span]
    BY <1>1, <2>1
  <2>4. got'.counts = instant'
    <3>1. got.counts.span = snap.span /\ snap = instant
      BY <1>1, <2>1
    <3>2. QED
      BY <1>1, <2>1, <2>3, <3>1, OwnSpan
  <2>5. QED
    BY <2>1, <2>2, <2>4 DEF InstantInv
<1>7. CASE ReadBucket
  <2>1. /\ got'.counts = got.counts /\ instant' = instant /\ host = "hist" /\ host' \in {"hist", "reported"}
        /\ CoolStep(NoAccess)
    BY <1>1, <1>7 DEF ReadBucket, Access
  <2>2. IsCounts(counters)' /\ IsCounts(snap)'
    BY <1>1, <2>1, CountsKept
  <2>3. QED
    BY <1>1, <2>1, <2>2 DEF InstantInv
<1>8. CASE NextRun
  <2>1. host' = "configure" /\ CoolStep(NoAccess)
    BY <1>8 DEF NextRun
  <2>2. IsCounts(counters)' /\ IsCounts(snap)'
    BY <1>1, <2>1, CountsKept
  <2>3. QED
    BY <2>1, <2>2 DEF InstantInv
<1>9. CASE UNCHANGED vars
  <2>1. counters' = counters /\ snap' = snap /\ host' = host /\ got' = got /\ instant' = instant
    BY <1>9 DEF vars, coolVars, hostVars
  <2>2. QED
    BY <1>1, <2>1 DEF InstantInv, IsCounts
<1>10. QED
  BY <1>2, <1>3, <1>4, <1>5, <1>6, <1>7, <1>8, <1>9 DEF Next, HostStep

\* Every step keeps the invariant.
LEMMA BenchStep ==
  ASSUME Shapes, SlotsFit, ClearLasts, BenchInv, [Next]_vars
  PROVE  BenchInv'
<1>1. BoardInv /\ (Active => /\ conf = [n |-> N, loop |-> loops > 1] /\ OnBoard /\ HostInv)
  BY DEF BenchInv, RunInv, OnBoard
<1>2. /\ run \in Nat /\ loops \in LoopChoices /\ got = [counts |-> got.counts, hist |-> got.hist]
      /\ host \in {"configure", "start"} => got = NothingRead
      /\ InstantInv'
  BY <1>1, InstantStep DEF BoardInv, BenchInv
<1>3. CASE HotStep
  <2>1. UNCHANGED coolVars /\ UNCHANGED hostVars
    BY <1>3 DEF HotStep, HotEdge
  <2>2. BoardInv'
    BY <1>1, <1>3, BoardHot
  <2>3. SUFFICES ASSUME Active'
                 PROVE  RunInv'
    BY <1>2, <2>2 DEF BenchInv
  <2>4. Active /\ conf = [n |-> N, loop |-> loops > 1] /\ OnBoard /\ HostInv
    BY <1>1, <2>1, <2>3 DEF Active, hostVars
  <2>5. OnBoard'
    BY <1>1, <1>3, <2>4, ClearingHot, StartingHot, RunningHot, IgnoredHot DEF OnBoard
  <2>6. /\ conf' = conf /\ counters' = counters /\ snap' = snap /\ host' = host /\ run' = run
        /\ loops' = loops /\ got' = got /\ bucket' = bucket
    BY <2>1 DEF coolVars, hostVars
  <2>7. HostInv'
    <3>1. \A k, b : Tally(k)' = Tally(k) /\ Below(k, b)' = Below(k, b)
      BY <2>6 DEF Tally, Below, Records, MatchesOf, Rec
    <3>2. QED
      BY <2>4, <2>6, <3>1 DEF HostInv, Target, NoCounts
  <2>8. QED
    BY <2>4, <2>5, <2>6, <2>7 DEF RunInv, OnBoard
<1>4. CASE Idle \/ TimeOut
  <2>1. /\ CoolStep(NoAccess) /\ UNCHANGED <<run, loops, got, bucket, fresh>>
        /\ host' = host \/ (host = "latch" /\ host' = "stalled")
        /\ NoAccess.kind = "none"
    BY <1>4 DEF Idle, TimeOut, NoAccess
  <2>2. BoardInv'
    <3>1. host' = "start" => host = "start"
      BY <2>1
    <3>2. run' \in Nat /\ loops' \in LoopChoices /\ got' = [counts |-> got'.counts, hist |-> got'.hist]
      BY <1>2, <2>1
    <3>3. host' \in {"configure", "start"} => got' = NothingRead
      BY <1>2, <2>1
    <3>4. QED
      BY <1>1, <2>1, <3>1, <3>2, <3>3, BoardKeeps
  <2>3. SUFFICES ASSUME Active'
                 PROVE  RunInv'
    BY <1>2, <2>2 DEF BenchInv
  <2>4. Active /\ conf = [n |-> N, loop |-> loops > 1] /\ OnBoard /\ HostInv
    BY <1>1, <2>1, <2>3 DEF Active
  <2>5. /\ OnBoard' /\ conf' = conf /\ Snapshot(NoAccess)
        /\ counters'.done \in Nat /\ (loops = 1 => counters'.done <= N)
        /\ host # "latch" => counters.done \in Nat /\ counters.done <= counters'.done
    BY <1>1, <2>1, <2>4, BoardCool
  <2>6. snap' = snap
    BY <2>1, <2>5 DEF Snapshot
  <2>7. HostInv'
    <3>1. CASE host' = host
      BY <2>1, <2>4, <2>5, <2>6, <3>1, HostWaits
    <3>2. CASE host' = "stalled"
      BY <3>2 DEF HostInv
    <3>3. QED
      BY <2>1, <3>1, <3>2
  <2>8. QED
    BY <2>1, <2>4, <2>5, <2>7 DEF RunInv, OnBoard
<1>5. CASE Latch \/ ReadRest \/ ReadBucket
  <2>1. /\ run' = run /\ loops' = loops /\ fresh' = fresh /\ host' \notin {"configure", "start"}
        /\ host \notin {"configure", "start"}
        /\ got' = [counts |-> got'.counts, hist |-> got'.hist]
        /\ \E op : op.kind \in {"none", "latch"} /\ CoolStep(op)
    BY <1>2, <1>5 DEF Latch, ReadRest, ReadBucket, Access, NoAccess
  <2>2. BoardInv'
    BY <1>1, <1>2, <2>1, BoardKeeps
  <2>3. Active' => Active
    BY <2>1 DEF Active
  <2>4. Active => OnBoard' /\ conf' = conf /\ HostInv'
    BY <1>1, <1>5, HostReads
  <2>5. QED
    BY <1>1, <1>2, <2>1, <2>2, <2>3, <2>4 DEF BenchInv, RunInv, OnBoard
<1>6. CASE SoftReset
  <2>1. /\ host = "configure" /\ host' = "configure" /\ UNCHANGED <<run, loops, got>>
        /\ CoolStep([kind |-> "softReset"])
    BY <1>6 DEF SoftReset, Access
  <2>2. BoardInv'
    BY <1>1, <1>2, <2>1, BoardKeeps
  <2>3. QED
    BY <1>2, <2>1, <2>2 DEF BenchInv, Active
<1>7. CASE Configure
  <2>1. /\ host = "configure" /\ host' = "start" /\ UNCHANGED <<run, loops, got>>
        /\ CoolStep([kind |-> "configure", n |-> N])
    BY <1>7 DEF Configure, Access
  <2>2. BoardInv'
    BY <1>1, <1>2, <2>1, BoardKeeps
  <2>3. QED
    BY <1>2, <2>1, <2>2 DEF BenchInv, Active
<1>8. CASE Start
  <2>1. /\ host' = "latch" /\ UNCHANGED <<run, loops, got>>
        /\ CoolStep([kind |-> "start", loop |-> loops > 1])
    BY <1>8 DEF Start, Access
  <2>2. BoardInv'
    <3>1. PICK op : op = [kind |-> "start", loop |-> loops > 1]
      OBVIOUS
    <3>2. op.kind = "start" /\ op.loop = (loops > 1)
      BY <3>1
    <3>3. op.loop \in BOOLEAN
      BY <3>2
    <3>4. CoolStep(op)
      BY <2>1, <3>1
    <3>5. run' \in Nat /\ loops' \in LoopChoices /\ got' = [counts |-> got'.counts, hist |-> got'.hist]
      BY <1>2, <2>1
    <3>6. QED
      BY <1>1, <2>1, <3>2, <3>3, <3>4, <3>5, BoardKeeps
  <2>3. QED
    BY <1>1, <1>2, <1>8, <2>2, RunBegins DEF BenchInv
<1>9. CASE NextRun
  <2>1. /\ host' = "configure" /\ run' = run + 1 /\ loops' \in LoopChoices /\ got' = NothingRead
        /\ CoolStep(NoAccess) /\ NoAccess.kind = "none"
    BY <1>9 DEF NextRun, NoAccess
  <2>2. BoardInv'
    <3>1. got' = [counts |-> got'.counts, hist |-> got'.hist] /\ run' \in Nat
      BY <1>2, <2>1 DEF NothingRead
    <3>2. host' # "start"
      BY <2>1
    <3>3. QED
      BY <1>1, <2>1, <3>1, <3>2, BoardKeeps, SMTT(30)
  <2>3. QED
    BY <1>2, <2>1, <2>2 DEF BenchInv, Active
<1>10. CASE UNCHANGED vars
  <2>1. UNCHANGED coolVars /\ UNCHANGED hotVars /\ UNCHANGED envVars /\ UNCHANGED hostVars /\ skew' = skew
    BY <1>10 DEF vars
  <2>2. /\ conf' = conf /\ clearing' = clearing /\ clrAddr' = clrAddr /\ pendingStart' = pendingStart
        /\ runStart' = runStart /\ counters' = counters /\ hist' = hist /\ snap' = snap
        /\ rd' = rd /\ empty' = empty /\ wrSeen' = wrSeen
        /\ clearHot' = clearHot /\ startHot' = startHot /\ ts' = ts /\ first' = first
        /\ wr' = wr /\ full' = full /\ rdSeen' = rdSeen /\ mem' = mem
        /\ fst' = fst /\ frec' = frec /\ issue' = issue /\ inflight' = inflight /\ offer' = offer
        /\ host' = host /\ run' = run /\ loops' = loops /\ got' = got /\ bucket' = bucket
        /\ rested' = rested /\ fresh' = fresh /\ skew' = skew
    BY <2>1 DEF coolVars, hotVars, envVars, hostVars
  <2>4. HotIdle' = HotIdle /\ HotClean' = HotClean /\ CoolClean' = CoolClean /\ Ahead' = Ahead
    BY <2>2 DEF HotIdle, HotClean, CoolClean, Ahead, NoCounts
  <2>3. BoardInv'
    BY <1>1, <2>2, <2>4 DEF BoardInv, Sweep, NothingRead, NoCounts
  <2>5. Clearing => Clearing'
    BY <2>2, <2>4 DEF Clearing, Zeroed, NothingRead, NoCounts
  <2>6. Starting => Starting'
    BY <2>2, <2>4 DEF Starting, Zeroed
  <2>7. Retired' = Retired /\ Issued' = Issued
    BY <2>2 DEF Retired, Issued
  <2>8. \A k, b : Tally(k)' = Tally(k) /\ Below(k, b)' = Below(k, b) /\ InBucket(k, b)' = InBucket(k, b)
    BY <2>2 DEF Tally, Below, InBucket, Records, MatchesOf, Rec
  <2>9. HotPath => HotPath'
    BY <2>2, <2>7 DEF HotPath, Line, Rec
  <2>10. EventFifo => EventFifo'
    BY <2>2, <2>7 DEF EventFifo, EventOf, Rec, Ring
  <2>11. Counting => Counting'
    BY <2>2, <2>8 DEF Counting
  <2>12. Running => Running'
    BY <2>2, <2>9, <2>10, <2>11 DEF Running
  <2>13. HostInv => HostInv'
    BY <2>2, <2>8 DEF HostInv, Target, NoCounts
  <2>14. Active' = Active
    BY <2>2 DEF Active
  <2>15. Ignored => Ignored'
    BY <2>2, <2>4 DEF Ignored, NoCounts
  <2>16. QED
    BY <1>1, <1>2, <2>2, <2>3, <2>5, <2>6, <2>12, <2>13, <2>14, <2>15 DEF BenchInv, RunInv, OnBoard
<1>11. QED
  BY <1>3, <1>4, <1>5, <1>6, <1>7, <1>8, <1>9, <1>10 DEF Next, HostStep

\* The invariant holds of the board at power-up.
LEMMA BenchInit ==
  ASSUME Init
  PROVE  BenchInv
<1>1. SbInit /\ host = "configure"
  BY DEF Init
<1>2. ~Active
  BY <1>1 DEF Active
<1>3. /\ run \in Nat /\ loops \in LoopChoices /\ skew \in Int /\ skew <= ClockRatio
      /\ frec \in Nat \X Nat /\ inflight \in Seq(Nat \X Nat) /\ (offer => inflight # <<>>)
      /\ got = [counts |-> got.counts, hist |-> got.hist]
  BY RunBenchAssumption DEF Init, NothingRead
<1>4. /\ conf \in [n : Nat, loop : BOOLEAN] /\ clearing \in BOOLEAN /\ runStart \in BOOLEAN
      /\ startHot = <<startHot[1], startHot[2], startHot[3]>>
      /\ hist \in [0 .. HistEntries - 1 -> Nat]
      /\ mem = [k \in 0 .. FifoDepth - 1 |-> mem[k]]
  BY <1>1 DEF SbInit
<1>5. got = NothingRead /\ ~clearing /\ clearHot = <<FALSE, FALSE>>
  BY <1>1 DEF Init, SbInit
<1>6. BoardInv
  BY <1>1, <1>3, <1>4, <1>5 DEF BoardInv
<1>7. IsCounts(counters) /\ IsCounts(snap)
  BY <1>1 DEF SbInit, IsCounts, NoCounts
<1>8. QED
  BY <1>1, <1>2, <1>6, <1>7 DEF BenchInv, InstantInv

\* Every reachable state is one of the invariant.
LEMMA BenchInvariant ==
  ASSUME Shapes, SlotsFit, ClearLasts
  PROVE  Spec => []BenchInv
<1>1. Init => BenchInv
  BY BenchInit
<1>2. BenchInv /\ [Next]_vars => BenchInv'
  BY BenchStep
<1>3. QED
  BY <1>1, <1>2, PTL DEF Spec

\* The reads of a snapshot are of one instant, in every run; in one begun at rest the span
\* ends with the record that the count ends with, and the passes are those of the records
\* counted.
THEOREM OneInstant ==
  ASSUME Shapes, SlotsFit, ClearLasts
  PROVE  Spec => []SnapshotIsOneInstant
<1>1. BenchInv => SnapshotIsOneInstant
  <2>1. SUFFICES ASSUME BenchInv, host \in {"latch", "hist", "refused"}, got.counts.done > 0
                 PROVE  /\ got.counts = instant
                        /\ fresh => /\ got.counts.span[2] = <<run, got.counts.done - 1>>
                                    /\ got.counts.passes = MatchesOf(got.counts.done)
    BY DEF SnapshotIsOneInstant
  <2>2. got.counts = instant
    BY <2>1 DEF BenchInv, InstantInv
  <2>3. SUFFICES ASSUME fresh
                 PROVE  /\ got.counts.span[2] = <<run, got.counts.done - 1>>
                        /\ got.counts.passes = MatchesOf(got.counts.done)
    BY <2>2
  <2>4. HostInv
    BY <2>1, <2>3 DEF BenchInv, RunInv, Active
  <2>5. got.counts.done \in Nat /\ got.counts = Tally(got.counts.done) /\ got.counts.done # 0
    BY <2>1, <2>4 DEF HostInv
  <2>6. QED
    BY <2>5 DEF Tally, Rec
<1>2. QED
  BY <1>1, BenchInvariant, PTL

\* What is reported of a run started with framer and engine at rest is that run: every record
\* once in each loop, its latency between its own issue and retire, and one histogram entry for
\* each; a start that a clear made the board drop reports nothing.
THEOREM WholeRuns ==
  ASSUME Shapes, SlotsFit, ClearLasts
  PROVE  Spec => []ReportedRunsAreWhole
<1>1. BenchInv => ReportedRunsAreWhole
  <2>1. SUFFICES ASSUME BenchInv, host = "reported", fresh
                 PROVE  /\ got.counts.lats = {<<r, r>> : r \in Records(Target)}
                        /\ got.counts.span = <<<<run, 0>>, <<run, Target - 1>>>>
                        /\ got.counts.passes = MatchesOf(Target)
                        /\ loops = 1 => got.hist = Target
    BY DEF ReportedRunsAreWhole
  <2>2. HostInv /\ BoardInv
    BY <2>1 DEF BenchInv, RunInv, Active
  <2>3. /\ N \in Nat \ {0} /\ loops \in Nat \ {0} /\ run \in Nat /\ HistEntries \in Nat \ {0}
    BY <2>2, RunBenchAssumption, ScoreboardAssumption DEF BoardInv
  <2>4. Target \in Nat \ {0} /\ (loops = 1 => Target = N)
    <3>1. \A x \in Nat \ {0}, y \in Nat \ {0} : x * y \in Nat \ {0}
      OBVIOUS
    <3>2. N * 1 = N
      BY <2>3
    <3>3. QED
      BY <2>3, <3>1, <3>2 DEF Target
  <2>5. /\ got.counts.done = Target /\ got.counts = Tally(Target)
        /\ loops = 1 => got.hist = Below(N, HistEntries)
    BY <2>1, <2>2, <2>3, <2>4 DEF HostInv
  <2>6. Below(N, HistEntries) = N
    BY <2>3, BelowStep
  <2>7. QED
    BY <2>4, <2>5, <2>6 DEF Tally, Rec
<1>2. QED
  BY <1>1, BenchInvariant, PTL

===============================================================================
