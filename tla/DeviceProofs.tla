----------------------------- MODULE DeviceProofs -----------------------------
(***************************************************************************)
(* Proofs about two parts of the FPGA, and about the host beside a third.  *)
(*                                                                         *)
(* The asynchronous FIFO implements the queue of BoundedQueue and the      *)
(* counted pointers of FifoPointers, for every width of its address.       *)
(* FifoInv says that every bus carries the Gray code of a count, and how   *)
(* far these counts are apart; that a Gray code changes one wire at a time *)
(* and names one pointer of a lap makes it inductive, whatever is caught   *)
(* of a bus in its change.                                                 *)
(*                                                                         *)
(* The AXI bridge implements the memory of BeatMemory, for every window,   *)
(* width of a beat and burst length: BridgeInv says what the refinement    *)
(* mapping needs, what a flush, a transfer or a read has got through of    *)
(* its beat, and that nothing else is buffered meanwhile.                  *)
(*                                                                         *)
(* A run of the tiny benchmark reports what it says, for every number of   *)
(* records and warm-ups, every width of the completion count and every     *)
(* device: the invariant follows the one job of an inference through the   *)
(* device, not started, queued, worked on, finished.  Where a lost reset   *)
(* leaves jobs of earlier runs there, a second one counts them.            *)
(***************************************************************************)
EXTENDS AsyncFifo, HyperBridge, TinyBenchmark, FiniteSetTheorems, SequenceTheorems, TLAPS

-------------------------------------------------------------------------------
(* The counted pointers, for any number of words.                           *)

CONSTANT Words
VARIABLES wr, rd, rdSeen1, rdSeen2, wrSeen1, wrSeen2
Ptr == INSTANCE FifoPointers WITH Depth <- Words

\* The counters of TypeOK, and the order of Conservative, without the flags.
PtrCounters ==
  /\ wr \in Nat /\ rd \in Nat
  /\ rdSeen1 \in Nat /\ rdSeen2 \in Nat
  /\ wrSeen1 \in Nat /\ wrSeen2 \in Nat

PtrInOrder ==
  /\ rdSeen2 <= rdSeen1 /\ rdSeen1 <= rd
  /\ rd <= wrSeen2 /\ wrSeen2 <= wrSeen1 /\ wrSeen1 <= wr
  /\ wr <= rdSeen2 + Words

\* A write edge keeps the pointers in order and the flags conservative.
LEMMA WriteKeeps ==
  ASSUME Words \in Nat \ {0}, Ptr!TypeOK, Ptr!Conservative, Ptr!WriteEdge
  PROVE  Ptr!TypeOK' /\ Ptr!Conservative'
<1>1. PtrCounters /\ PtrInOrder /\ Words \in Nat
  BY DEF Ptr!TypeOK, Ptr!Conservative, PtrCounters, PtrInOrder
<1>2. UNCHANGED Ptr!readVars /\ rdSeen2' = rdSeen1 /\ rdSeen1' \in rdSeen1..rd
  BY DEF Ptr!WriteEdge
<1>3. full' \in BOOLEAN
  BY Zenon DEF Ptr!WriteEdge
<1>4. wr' = wr \/ (wr < rdSeen2 + Words /\ wr' = wr + 1)
  BY Zenon DEF Ptr!WriteEdge, Ptr!Conservative
<1>5. PtrCounters'
  BY <1>1, <1>2, <1>4 DEF PtrCounters, Ptr!readVars
<1>6. PtrInOrder' /\ wr' <= rdSeen2 + Words
  BY <1>1, <1>2, <1>4 DEF PtrCounters, PtrInOrder, Ptr!readVars
<1>7. wr' # rdSeen2 + Words => wr' < rdSeen2' + Words
  BY <1>1, <1>2, <1>5, <1>6 DEF PtrCounters, PtrInOrder
<1>8. ~full' => wr' # rdSeen2 + Words
  BY Zenon DEF Ptr!WriteEdge, Ptr!FullVal
<1>9. empty' = empty /\ rd' = rd /\ wrSeen2' = wrSeen2
  BY <1>2 DEF Ptr!readVars
<1>10. ~empty' => rd' < wrSeen2'
  BY <1>9, Zenon DEF Ptr!Conservative
<1>11. Ptr!TypeOK'
  BY <1>3, <1>5, <1>9, Zenon DEF Ptr!TypeOK, PtrCounters
<1>. QED BY <1>6, <1>7, <1>8, <1>10, <1>11, Zenon DEF PtrInOrder, Ptr!Conservative

\* A read edge keeps the pointers in order and the flags conservative.
LEMMA ReadKeeps ==
  ASSUME Words \in Nat \ {0}, Ptr!TypeOK, Ptr!Conservative, Ptr!ReadEdge
  PROVE  Ptr!TypeOK' /\ Ptr!Conservative'
<1>1. PtrCounters /\ PtrInOrder /\ Words \in Nat
  BY DEF Ptr!TypeOK, Ptr!Conservative, PtrCounters, PtrInOrder
<1>2. UNCHANGED Ptr!writeVars /\ wrSeen2' = wrSeen1 /\ wrSeen1' \in wrSeen1..wr
  BY DEF Ptr!ReadEdge
<1>3. empty' \in BOOLEAN
  BY Zenon DEF Ptr!ReadEdge
<1>4. rd' = rd \/ (rd < wrSeen2 /\ rd' = rd + 1)
  BY Zenon DEF Ptr!ReadEdge, Ptr!Conservative
<1>5. PtrCounters'
  BY <1>1, <1>2, <1>4 DEF PtrCounters, Ptr!writeVars
<1>6. PtrInOrder' /\ rd' <= wrSeen2
  BY <1>1, <1>2, <1>4 DEF PtrCounters, PtrInOrder, Ptr!writeVars
<1>7. rd' # wrSeen2 => rd' < wrSeen2'
  BY <1>1, <1>2, <1>5, <1>6 DEF PtrCounters, PtrInOrder
<1>8. ~empty' => rd' # wrSeen2
  BY Zenon DEF Ptr!ReadEdge, Ptr!EmptyVal
<1>9. full' = full /\ wr' = wr /\ rdSeen2' = rdSeen2
  BY <1>2 DEF Ptr!writeVars
<1>10. ~full' => wr' < rdSeen2' + Words
  BY <1>9, Zenon DEF Ptr!Conservative
<1>11. Ptr!TypeOK'
  BY <1>3, <1>5, <1>9, Zenon DEF Ptr!TypeOK, PtrCounters
<1>. QED BY <1>6, <1>7, <1>8, <1>10, <1>11, Zenon DEF PtrInOrder, Ptr!Conservative

\* At all times each domain's copy of the other's pointer is late, never early
\* (the synchronizers of async_fifo.sv).
THEOREM PointersConservative ==
  ASSUME Words \in Nat \ {0}
  PROVE  Ptr!Spec => [](Ptr!TypeOK /\ Ptr!Conservative)
<1>1. ASSUME Ptr!Init PROVE Ptr!TypeOK /\ Ptr!Conservative
  <2>1. ~empty => rd < wrSeen2
    BY <1>1, Zenon DEF Ptr!Init
  <2>2. PtrInOrder /\ wr < rdSeen2 + Words
    BY <1>1 DEF Ptr!Init, PtrInOrder
  <2>3. Ptr!TypeOK
    BY <1>1 DEF Ptr!Init, Ptr!TypeOK
  <2>. QED BY <2>1, <2>2, <2>3, Zenon DEF PtrInOrder, Ptr!Conservative
<1>2. ASSUME Ptr!TypeOK, Ptr!Conservative, UNCHANGED Ptr!vars PROVE Ptr!TypeOK' /\ Ptr!Conservative'
  BY <1>2, Zenon DEF Ptr!TypeOK, Ptr!Conservative, Ptr!vars, Ptr!writeVars, Ptr!readVars
<1>3. Ptr!TypeOK /\ Ptr!Conservative /\ [Ptr!Next]_(Ptr!vars) => Ptr!TypeOK' /\ Ptr!Conservative'
  BY <1>2, WriteKeeps, ReadKeeps, Zenon DEF Ptr!Next
<1>. QED BY <1>1, <1>3, PTL DEF Ptr!Spec

\* For every depth, the FIFO neither overruns nor underruns.
THEOREM PointersSafe ==
  ASSUME Words \in Nat \ {0}
  PROVE  Ptr!Spec => []Ptr!NoOverrun
<1>1. ASSUME Ptr!TypeOK, Ptr!Conservative PROVE Ptr!NoOverrun
  <2>1. PtrCounters /\ PtrInOrder /\ Words \in Nat
    BY <1>1 DEF Ptr!TypeOK, Ptr!Conservative, PtrCounters, PtrInOrder
  <2>2. rd <= wr /\ wr <= rd + Words
    BY <2>1 DEF PtrCounters, PtrInOrder
  <2>3. wr < rdSeen2 + Words => wr < rd + Words
    BY <2>1 DEF PtrCounters, PtrInOrder
  <2>4. rd < wrSeen2 => rd < wr
    BY <2>1 DEF PtrCounters, PtrInOrder
  <2>. QED BY <1>1, <2>2, <2>3, <2>4, Zenon DEF Ptr!Conservative, Ptr!NoOverrun
<1>. QED BY <1>1, PointersConservative, PTL

-------------------------------------------------------------------------------
(* Powers of two and Gray codes.                                            *)

\* A set of naturals that is not empty has a least element; induction over
\* counters goes by it.
LEMMA Least ==
  ASSUME NEW S \in SUBSET Nat, S # {}
  PROVE  \E x \in S : \A y \in S : x <= y
<1> DEFINE R == OpToRel(<, Nat)
<1>1. IsWellFoundedOn(R, Nat)
  BY NatLessThanWellFounded, Zenon
<1>2. \A x, y \in Nat : x < y => <<x, y>> \in R
  BY Zenon DEF OpToRel
<1> HIDE DEF R
<1>3. PICK x \in S : \A y \in S : ~(<<y, x>> \in R)
  BY <1>1, WFMin, Zenon
<1>4. \A y \in S : ~(y < x)
  BY <1>2, <1>3, Zenon
<1>5. \A y \in S : x <= y
  BY <1>4
<1>6. QED
  BY <1>5, Zenon

\* A set with another element has twice as many subsets.
LEMMA PowerStep ==
  ASSUME NEW k \in Nat
  PROVE  2 ^ k \in Nat \ {0} /\ 2 ^ (k + 1) = 2 * 2 ^ k
<1> DEFINE S == 1 .. k
           x == k + 1
           A == SUBSET S
           B == {T \cup {x} : T \in A}
           f == [T \in A |-> T \cup {x}]
<1>1. IsFiniteSet(S) /\ Cardinality(S) = k
  BY FS_Interval
<1>2. IsFiniteSet(S \cup {x}) /\ Cardinality(S \cup {x}) = k + 1
  BY <1>1, FS_AddElement
<1>3. IsFiniteSet(A) /\ Cardinality(A) = 2 ^ k
  BY <1>1, FS_SUBSET
<1>4. Cardinality(SUBSET (S \cup {x})) = 2 ^ (k + 1)
  BY <1>2, FS_SUBSET
<1>5. x \notin S
  OBVIOUS
<1>6. SUBSET (S \cup {x}) = A \cup B
  <2>1. ASSUME NEW T \in SUBSET (S \cup {x}), T \notin A
        PROVE  T \in B
    <3>1. x \in T /\ T \ {x} \in A /\ T = (T \ {x}) \cup {x}
      BY <2>1
    <3>2. QED
      BY <3>1
  <2>2. QED
    BY <2>1
<1>7. A \cap B = {}
  BY <1>5
<1>8. f \in Bijection(A, B)
  <2>1. \A T, U \in A : T \cup {x} = U \cup {x} => T = U
    BY <1>5
  <2>2. f \in [A -> B] /\ DOMAIN f = A /\ \A T \in A : f[T] = T \cup {x}
    OBVIOUS
  <2>3. \A t \in B : \E T \in A : f[T] = t
    BY <2>2
  <2> HIDE DEF A, B, f
  <2>4. QED
    BY <2>1, <2>2, <2>3, ZenonT(60) DEF Bijection, Injection, Surjection, IsInjective
<1>9. IsFiniteSet(B) /\ Cardinality(B) = Cardinality(A)
  <2>1. ExistsBijection(A, B)
    BY <1>8, Zenon DEF ExistsBijection
  <2>2. QED
    BY <1>3, <2>1, FS_Bijection, Zenon
<1>10. Cardinality(A \cup B) = Cardinality(A) + Cardinality(B) - Cardinality(A \cap B)
  BY <1>3, <1>9, FS_Union, Zenon
<1>11. Cardinality({}) = 0
  BY FS_EmptySet, Zenon
<1>12. Cardinality(A) \in Nat /\ A # {}
  BY <1>3, FS_CardinalityType
<1>13. Cardinality(A) # 0
  BY <1>3, <1>12, FS_EmptySet, Zenon
<1> HIDE DEF S, x, A, B, f
<1>14. 2 ^ (k + 1) = Cardinality(A) + Cardinality(A) - 0
  BY <1>4, <1>6, <1>7, <1>9, <1>10, <1>11, Zenon
<1>15. 2 ^ (k + 1) = 2 * Cardinality(A) /\ Cardinality(A) \in Nat \ {0}
  BY <1>12, <1>13, <1>14
<1>16. QED
  BY <1>3, <1>15, Zenon

-----------------------------------------------------------------------------
(* Halving.                                                                *)

Shifted(b, k) == b \div 2 ^ k

LEMMA DivDiv ==
  ASSUME NEW b \in Nat, NEW m \in Nat \ {0}
  PROVE  b \div (2 * m) = (b \div m) \div 2
<1> DEFINE q == b \div m
           r == b % m
           h == q \div 2
<1>1. q \in Nat /\ r \in 0 .. m - 1 /\ b = m * q + r
  OBVIOUS
<1> HIDE DEF q, r
<1>2. h \in Nat /\ (q = 2 * h \/ q = 2 * h + 1)
  BY <1>1
<1> HIDE DEF h
<1>3. m * q = 2 * m * h \/ m * q = 2 * m * h + m
  BY <1>2
<1>4. \E s \in 0 .. 2 * m - 1 : b = (2 * m) * h + s
  <2>1. CASE m * q = 2 * m * h
    BY <1>1, <1>2, <2>1
  <2>2. CASE m * q = 2 * m * h + m
    BY <1>1, <1>2, <2>2
  <2>3. QED
    BY <1>3, <2>1, <2>2
<1>5. ASSUME NEW u \in Nat \ {0}, NEW s \in 0 .. u - 1, b = u * h + s
      PROVE  b \div u = h
  BY <1>2, <1>5
<1>6. b \div (2 * m) = h
  BY <1>4, <1>5
<1>7. QED
  BY <1>6 DEF q, h

LEMMA ShiftStep ==
  ASSUME NEW b \in Nat, NEW k \in Nat
  PROVE  /\ Shifted(b, k) \in Nat
         /\ Shifted(b, k + 1) = Shifted(b, k) \div 2
         /\ Shifted(b, 0) = b
<1>1. 2 ^ k \in Nat \ {0} /\ 2 ^ (k + 1) = 2 * 2 ^ k
  BY PowerStep
<1>2. 2 ^ 0 = 1
  OBVIOUS
<1>3. b \div 1 = b
  OBVIOUS
<1>4. ASSUME NEW m \in Nat \ {0}
      PROVE  b \div m \in Nat
  OBVIOUS
<1>5. QED
  BY <1>1, <1>2, <1>3, <1>4, DivDiv, Zenon DEF Shifted

LEMMA Widths == AddrW \in Nat /\ AddrW >= 2 /\ Depth \in Nat \ {0} /\ 2 * Depth = 2 ^ (AddrW + 1)
                /\ Pointers = 0 .. 2 * Depth - 1
<1>1. AddrW \in Nat /\ AddrW >= 2
  BY AsyncFifoAssumption
<1>2. 2 ^ AddrW \in Nat \ {0} /\ 2 ^ (AddrW + 1) = 2 * 2 ^ AddrW
  BY <1>1, PowerStep
<1>3. QED
  BY <1>1, <1>2, Zenon DEF Depth, Pointers

\* Nothing is left of a pointer beyond its top bit.
LEMMA TopShift ==
  ASSUME NEW b \in Pointers
  PROVE  b \in Nat /\ Shifted(b, AddrW + 1) = 0
<1>1. b \in Nat /\ 2 * Depth \in Nat \ {0} /\ b < 2 * Depth
  BY Widths
<1>2. ASSUME NEW m \in Nat \ {0}, b < m
      PROVE  b \div m = 0
  BY <1>1, <1>2
<1>3. QED
  BY <1>1, <1>2, Widths, Zenon DEF Shifted

LEMMA GrayWires ==
  ASSUME NEW b \in Pointers
  PROVE  /\ Gray(b) \in SUBSET Wires
         /\ \A k \in Wires : k \in Gray(b) <=> Shifted(b, k) % 2 # Shifted(b, k + 1) % 2
BY DEF Gray, GrayCode, Bit, Shifted

\* A carry that is out at a bit is out at all above: what b and b + 1 have in
\* common from one bit on.
LEMMA Carry ==
  ASSUME NEW b \in Nat
  PROVE  /\ \A k \in Nat : Shifted(b + 1, k) \in {Shifted(b, k), Shifted(b, k) + 1}
         /\ \A j, k \in Nat : j <= k /\ Shifted(b + 1, k) # Shifted(b, k)
                               => Shifted(b + 1, j) # Shifted(b, j)
<1> DEFINE q(k) == Shifted(b, k)
           r(k) == Shifted(b + 1, k)
<1>1. /\ q(0) = b /\ r(0) = b + 1
      /\ \A k \in Nat : q(k) \in Nat /\ r(k) \in Nat /\ q(k + 1) = q(k) \div 2 /\ r(k + 1) = r(k) \div 2
  <2>1. b + 1 \in Nat /\ 0 \in Nat
    OBVIOUS
  <2>2. QED
    BY <2>1, ShiftStep, Zenon
<1> HIDE DEF q, r
<1>2. ASSUME NEW k \in Nat, r(k) \in {q(k), q(k) + 1}
      PROVE  r(k + 1) \in {q(k + 1), q(k + 1) + 1}
  <2>1. \A a \in Nat : (a + 1) \div 2 \in {a \div 2, (a \div 2) + 1}
    OBVIOUS
  <2>2. QED
    BY <1>1, <1>2, <2>1
<1>3. \A k \in Nat : r(k) \in {q(k), q(k) + 1}
  <2> DEFINE S == {k \in Nat : r(k) \notin {q(k), q(k) + 1}}
  <2>1. SUFFICES ASSUME S # {} PROVE FALSE
    OBVIOUS
  <2>2. PICK k \in S : \A i \in S : k <= i
    BY <2>1, Least
  <2>3. k # 0
    BY <1>1, <2>2
  <2>4. k - 1 \in Nat /\ (k - 1) + 1 = k /\ k - 1 \notin S
    BY <2>2, <2>3
  <2>5. r(k) \in {q(k), q(k) + 1}
    BY <1>2, <2>4
  <2>6. QED
    BY <2>2, <2>5
<1>4. ASSUME NEW j \in Nat, NEW k \in Nat, j <= k, r(k) # q(k), r(j) = q(j)
      PROVE  FALSE
  <2> DEFINE S == {i \in Nat : j <= i /\ r(i) # q(i)}
  <2>1. k \in S
    BY <1>4
  <2>2. PICK i \in S : \A h \in S : i <= h
    BY <2>1, Least
  <2>3. i # j
    BY <1>4, <2>2
  <2>4. i - 1 \in Nat /\ (i - 1) + 1 = i /\ i - 1 \notin S /\ j <= i - 1
    BY <2>2, <2>3
  <2>5. r(i - 1) = q(i - 1)
    BY <2>4
  <2>6. r(i) = q(i)
    BY <1>1, <2>4, <2>5
  <2>7. QED
    BY <2>2, <2>6
<1>5. QED
  BY <1>3, <1>4 DEF q, r

\* One wire changes from a pointer to the next.
LEMMA OneWire ==
  ASSUME NEW b \in Pointers
  PROVE  /\ (b + 1) % (2 * Depth) \in Pointers
         /\ \E j \in Wires : Gray((b + 1) % (2 * Depth)) \ {j} = Gray(b) \ {j}
<1>1. b \in Nat /\ AddrW \in Nat /\ Wires = 0 .. AddrW
  BY TopShift, Widths DEF Wires
<1> DEFINE q(k) == Shifted(b, k)
           r(k) == Shifted(b + 1, k)
           u == (b + 1) % (2 * Depth)
<1>2. \A k \in Nat : q(k) \in Nat /\ r(k) \in Nat /\ q(k + 1) = q(k) \div 2 /\ r(k + 1) = r(k) \div 2
  <2>1. b + 1 \in Nat
    BY <1>1
  <2>2. QED
    BY <1>1, <2>1, ShiftStep, Zenon
<1>3. /\ \A k \in Nat : r(k) \in {q(k), q(k) + 1}
      /\ \A j, k \in Nat : j <= k /\ r(k) # q(k) => r(j) # q(j)
  BY <1>1, Carry
<1>4. u \in Pointers /\ (b + 1 \in Pointers => u = b + 1) /\ (b + 1 \notin Pointers => u = 0 /\ b + 1 = 2 * Depth)
  BY Widths
<1>5. \A k \in Wires : k \in Gray(b) <=> q(k) % 2 # q(k + 1) % 2
  BY GrayWires
<1>6. Gray(b) \in SUBSET Wires /\ Gray(u) \in SUBSET Wires
  BY <1>4, GrayWires, Zenon
<1> HIDE DEF q
<1>7. CASE b + 1 \in Pointers
  <2>1. \A k \in Wires : k \in Gray(u) <=> r(k) % 2 # r(k + 1) % 2
    BY <1>4, <1>7, GrayWires
  <2> HIDE DEF r, u
  <2>2. ASSUME NEW j \in Wires, NEW k \in Wires, j < k,
               ~(j \in Gray(u) <=> j \in Gray(b)), ~(k \in Gray(u) <=> k \in Gray(b))
        PROVE  FALSE
    <3>1. \A i \in Wires : ~(i \in Gray(u) <=> i \in Gray(b)) => r(i) # q(i) /\ r(i + 1) = q(i + 1)
      <4>1. SUFFICES ASSUME NEW i \in Wires, r(i) = q(i) \/ r(i + 1) # q(i + 1)
                     PROVE  i \in Gray(u) <=> i \in Gray(b)
        BY Zenon
      <4>2. i \in Nat /\ i + 1 \in Nat
        BY <1>1
      <4>3. r(i + 1) = q(i + 1) => r(i) % 2 = q(i) % 2
        BY <4>1
      <4>4. r(i + 1) # q(i + 1) => r(i) = q(i) + 1 /\ r(i + 1) = q(i + 1) + 1
        BY <1>1, <1>3, <4>2
      <4>5. \A x, y \in Nat : (x + 1) % 2 # (y + 1) % 2 <=> x % 2 # y % 2
        OBVIOUS
      <4>6. q(i) \in Nat /\ q(i + 1) \in Nat
        BY <1>2, <4>2
      <4>7. r(i) % 2 # r(i + 1) % 2 <=> q(i) % 2 # q(i + 1) % 2
        <5>1. CASE r(i + 1) = q(i + 1)
          BY <4>3, <5>1, Zenon
        <5>2. CASE r(i + 1) # q(i + 1)
          BY <4>4, <4>5, <4>6, <5>2, Zenon
        <5>3. QED
          BY <5>1, <5>2
      <4>8. QED
        BY <1>5, <2>1, <4>7, Zenon
    <3>2. j + 1 \in Nat /\ k \in Nat /\ j + 1 <= k
      BY <1>1, <2>2
    <3>3. QED
      BY <1>3, <2>2, <3>1, <3>2, Zenon
  <2>3. ASSUME NEW j \in Wires, NEW k \in Wires,
               ~(j \in Gray(u) <=> j \in Gray(b)), ~(k \in Gray(u) <=> k \in Gray(b))
        PROVE  j = k
    <3>1. j < k \/ k < j \/ j = k
      BY <1>1
    <3>2. QED
      BY <2>2, <2>3, <3>1, Zenon
  <2>4. \E j \in Wires : \A k \in Wires : k # j => (k \in Gray(u) <=> k \in Gray(b))
    <3>1. CASE \E j \in Wires : ~(j \in Gray(u) <=> j \in Gray(b))
      BY <2>3, <3>1, Zenon
    <3>2. CASE \A j \in Wires : (j \in Gray(u) <=> j \in Gray(b))
      <4>1. 0 \in Wires
        BY <1>1
      <4>2. QED
        BY <3>2, <4>1, Zenon
    <3>3. QED
      BY <3>1, <3>2, Zenon
  <2>5. PICK j \in Wires : \A k \in Wires : k # j => (k \in Gray(u) <=> k \in Gray(b))
    BY <2>4
  <2>6. Gray(u) \ {j} = Gray(b) \ {j}
    BY <1>6, <2>5
  <2>7. QED
    BY <1>4, <2>6, Zenon DEF u
<1>8. CASE b + 1 \notin Pointers
  <2>1. u = 0 /\ b + 1 = 2 * Depth /\ 0 \in Pointers
    BY <1>4, <1>8, Widths
  <2>2. q(AddrW + 1) = 0
    BY TopShift, Zenon DEF q
  <2>3. r(AddrW + 1) = 1
    <3>1. \A m \in Nat \ {0} : m \div m = 1
      OBVIOUS
    <3>2. 2 * Depth \in Nat \ {0}
      BY Widths
    <3>3. QED
      BY <2>1, <3>1, <3>2, Widths, Zenon DEF r, Shifted
  <2>4. \A k \in 0 .. AddrW + 1 : r(k) = q(k) + 1
    <3>1. AddrW + 1 \in Nat /\ r(AddrW + 1) # q(AddrW + 1)
      BY <1>1, <2>2, <2>3
    <3>2. \A k \in 0 .. AddrW + 1 : k \in Nat /\ k <= AddrW + 1
      BY <1>1
    <3>3. QED
      BY <1>3, <3>1, <3>2
  <2>5. \A k \in 0 .. AddrW : q(k) % 2 = 1
    <3>1. SUFFICES ASSUME NEW k \in 0 .. AddrW PROVE q(k) % 2 = 1
      OBVIOUS
    <3>2. k \in Nat /\ k \in 0 .. AddrW + 1 /\ k + 1 \in 0 .. AddrW + 1
      BY <1>1
    <3>3. q(k) \in Nat /\ (q(k) + 1) \div 2 = (q(k) \div 2) + 1
      BY <1>2, <2>4, <3>2
    <3>4. QED
      BY <3>3
  <2>6. \A k \in Wires : k # AddrW => k \notin Gray(b)
    <3>1. SUFFICES ASSUME NEW k \in Wires, k # AddrW PROVE k \notin Gray(b)
      OBVIOUS
    <3>2. k \in 0 .. AddrW /\ k + 1 \in 0 .. AddrW
      BY <1>1, <3>1
    <3>3. QED
      BY <1>5, <2>5, <3>2, Zenon
  <2>7. \A k \in Wires : k \notin Gray(0)
    <3>1. SUFFICES ASSUME NEW k \in Wires PROVE k \notin Gray(0)
      OBVIOUS
    <3>2. \A m \in Nat \ {0} : 0 \div m = 0
      OBVIOUS
    <3>3. k \in Nat /\ k + 1 \in Nat
      BY <1>1
    <3>4. 2 ^ k \in Nat \ {0} /\ 2 ^ (k + 1) \in Nat \ {0}
      BY <3>3, PowerStep, Zenon
    <3>5. Shifted(0, k) = 0 /\ Shifted(0, k + 1) = 0
      BY <3>2, <3>4, Zenon DEF Shifted
    <3>6. QED
      BY <2>1, <3>5, GrayWires, Zenon
  <2>8. AddrW \in Wires
    BY <1>1
  <2>9. Gray(u) \ {AddrW} = Gray(b) \ {AddrW}
    BY <1>6, <2>1, <2>6, <2>7
  <2>10. QED
    BY <1>4, <2>8, <2>9, Zenon DEF u
<1>9. QED
  BY <1>7, <1>8, Zenon

\* A bus that is caught in a change of one wire shows the old or the new word.
LEMMA CaughtOne ==
  ASSUME NEW old \in SUBSET Wires, NEW new \in SUBSET Wires,
         NEW j \in Wires, new \ {j} = old \ {j},
         NEW v \in Caught(old, new)
  PROVE  v = old \/ v = new
<1>1. v \in SUBSET (old \cup new) /\ old \cap new \subseteq v
  BY DEF Caught
<1>2. \A k \in Wires : k # j => (k \in v <=> k \in old) /\ (k \in v <=> k \in new)
  BY <1>1
<1>3. (j \in v <=> j \in old) \/ (j \in v <=> j \in new)
  BY <1>1
<1>4. v \in SUBSET Wires
  BY <1>1
<1>5. CASE j \in v <=> j \in old
  BY <1>2, <1>4, <1>5
<1>6. CASE j \in v <=> j \in new
  BY <1>2, <1>4, <1>6
<1>7. QED
  BY <1>3, <1>5, <1>6

\* A Gray code is that of one pointer only.
LEMMA GrayInjective ==
  ASSUME NEW a \in Pointers, NEW b \in Pointers, Gray(a) = Gray(b)
  PROVE  a = b
<1> DEFINE T == AddrW + 1
           p(k) == Shifted(a, k)
           q(k) == Shifted(b, k)
           S == {i \in Nat : i <= T /\ p(T - i) # q(T - i)}
<1>1. AddrW \in Nat /\ T \in Nat /\ Wires = 0 .. AddrW
  BY Widths DEF Wires
<1>2. \A k \in Nat : p(k) \in Nat /\ q(k) \in Nat /\ p(k + 1) = p(k) \div 2 /\ q(k + 1) = q(k) \div 2
  BY TopShift, ShiftStep, Zenon
<1>3. p(T) = 0 /\ q(T) = 0
  BY TopShift, Zenon
<1>4. p(0) = a /\ q(0) = b
  <2>1. 0 \in Nat
    OBVIOUS
  <2>2. QED
    BY <2>1, TopShift, ShiftStep, Zenon
<1>5. \A k \in Wires : p(k) % 2 # p(k + 1) % 2 <=> q(k) % 2 # q(k + 1) % 2
  BY GrayWires, Zenon
<1> HIDE DEF p, q
<1>6. S = {}
  <2>1. SUFFICES ASSUME S # {} PROVE FALSE
    OBVIOUS
  <2>2. PICK i \in S : \A h \in S : i <= h
    BY <2>1, Least
  <2>3. i \in Nat /\ i <= T /\ p(T - i) # q(T - i)
    OBVIOUS
  <2>4. i # 0
    <3>1. T - 0 = T
      BY <1>1
    <3>2. QED
      BY <1>3, <2>3, <3>1
  <2>5. i - 1 \in Nat /\ i - 1 <= T /\ ~(i <= i - 1)
    BY <1>1, <2>3, <2>4
  <2>6. p(T - (i - 1)) = q(T - (i - 1))
    BY <2>2, <2>5
  <2> DEFINE k == T - i
  <2>7. k \in Wires /\ k \in Nat /\ T - (i - 1) = k + 1
    BY <1>1, <2>3, <2>4
  <2>8. p(k + 1) = q(k + 1) /\ p(k) # q(k)
    BY <2>3, <2>6, <2>7
  <2> HIDE DEF k
  <2>9. p(k) % 2 # q(k) % 2
    BY <1>2, <2>7, <2>8
  <2>10. p(k) % 2 \in {0, 1} /\ q(k) % 2 \in {0, 1} /\ p(k + 1) % 2 \in {0, 1}
    <3>1. \A x \in Nat : x % 2 \in {0, 1}
      OBVIOUS
    <3>2. k \in Nat /\ k + 1 \in Nat
      BY <2>7
    <3>3. p(k) \in Nat /\ q(k) \in Nat /\ p(k + 1) \in Nat
      BY <1>2, <3>2, Zenon
    <3>4. QED
      BY <3>1, <3>3, Zenon
  <2>11. p(k) % 2 # p(k + 1) % 2 <=> q(k) % 2 # p(k + 1) % 2
    BY <1>5, <2>7, <2>8, Zenon
  <2>12. QED
    BY <2>9, <2>10, <2>11
<1>7. p(0) = q(0)
  <2>1. T \in Nat /\ T <= T /\ T - T = 0
    BY <1>1
  <2>2. T \notin S
    BY <1>6, Zenon
  <2>3. p(T - T) = q(T - T)
    BY <2>1, <2>2, Zenon
  <2>4. QED
    BY <2>1, <2>3, Zenon
<1>8. QED
  BY <1>4, <1>7, Zenon

\* A lap ahead, the Gray code differs in the two top wires.
LEMMA LapBelow ==
  ASSUME NEW b \in 0 .. Depth - 1
  PROVE  /\ b \in Pointers /\ b + Depth \in Pointers
         /\ Gray(b + Depth) = Inverted(Gray(b), {AddrW - 1, AddrW})
<1>1. /\ b \in Nat /\ AddrW \in Nat /\ AddrW >= 2 /\ Wires = 0 .. AddrW
      /\ b \in Pointers /\ b + Depth \in Pointers /\ b + Depth \in Nat
  BY Widths DEF Wires
<1> DEFINE q(k) == Shifted(b, k)
           r(k) == Shifted(b + Depth, k)
           S == {k \in Nat : k <= AddrW /\ r(k) # q(k) + 2 ^ (AddrW - k)}
<1>2. \A k \in Nat : q(k) \in Nat /\ r(k) \in Nat /\ q(k + 1) = q(k) \div 2 /\ r(k + 1) = r(k) \div 2
  BY <1>1, ShiftStep, Zenon
<1>3. q(0) = b /\ r(0) = b + Depth
  <2>1. 0 \in Nat
    OBVIOUS
  <2>2. QED
    BY <1>1, <2>1, ShiftStep, Zenon
<1>4. q(AddrW) = 0 /\ q(AddrW + 1) = 0 /\ r(AddrW + 1) = 0
  <2>1. ASSUME NEW m \in Nat \ {0}, b < m
        PROVE  b \div m = 0
    BY <1>1, <2>1
  <2>2. b < 2 ^ AddrW /\ 2 ^ AddrW \in Nat \ {0}
    BY Widths DEF Depth
  <2>3. q(AddrW) = 0
    BY <2>1, <2>2, Zenon DEF Shifted
  <2>4. QED
    BY <1>1, <2>3, TopShift, Zenon
<1> HIDE DEF q, r
<1>5. ASSUME NEW k \in Nat, k + 1 <= AddrW, r(k) = q(k) + 2 ^ (AddrW - k)
      PROVE  r(k + 1) = q(k + 1) + 2 ^ (AddrW - (k + 1)) /\ r(k) % 2 = q(k) % 2
  <2> DEFINE m == 2 ^ (AddrW - (k + 1))
  <2>1. AddrW - (k + 1) \in Nat /\ AddrW - k = (AddrW - (k + 1)) + 1
    BY <1>1, <1>5
  <2>2. m \in Nat /\ 2 ^ (AddrW - k) = 2 * m
    BY <2>1, PowerStep
  <2> HIDE DEF m
  <2>3. \A x \in Nat : (x + 2 * m) \div 2 = (x \div 2) + m /\ (x + 2 * m) % 2 = x % 2
    BY <2>2
  <2>4. r(k + 1) = q(k + 1) + m /\ r(k) % 2 = q(k) % 2
    BY <1>2, <1>5, <2>2, <2>3, ZenonT(60)
  <2>5. QED
    BY <2>4 DEF m
<1>6. S = {}
  <2>1. SUFFICES ASSUME S # {} PROVE FALSE
    OBVIOUS
  <2>2. PICK k \in S : \A i \in S : k <= i
    BY <2>1, Least
  <2>3. k # 0
    <3>1. AddrW - 0 = AddrW
      BY <1>1
    <3>2. QED
      BY <1>3, <2>2, <3>1 DEF Depth
  <2>4. k - 1 \in Nat /\ (k - 1) + 1 = k /\ (k - 1) + 1 <= AddrW /\ ~(k <= k - 1)
    BY <1>1, <2>2, <2>3
  <2>5. r(k - 1) = q(k - 1) + 2 ^ (AddrW - (k - 1))
    BY <1>1, <2>2, <2>4
  <2>6. r(k) = q(k) + 2 ^ (AddrW - k)
    BY <1>5, <2>4, <2>5
  <2>7. QED
    BY <2>2, <2>6
<1>7. \A k \in Nat : k <= AddrW => r(k) = q(k) + 2 ^ (AddrW - k)
  BY <1>6
<1>8. r(AddrW) = 1
  <2>1. AddrW - AddrW = 0 /\ AddrW <= AddrW /\ 2 ^ 0 = 1
    BY <1>1
  <2>2. r(AddrW) = q(AddrW) + 2 ^ (AddrW - AddrW)
    BY <1>1, <1>7, <2>1, Zenon
  <2>3. r(AddrW) = 0 + 1
    BY <1>4, <2>1, <2>2, Zenon
  <2>4. QED
    BY <2>3
<1>9. \A k \in 0 .. AddrW - 1 : r(k) % 2 = q(k) % 2
  BY <1>1, <1>5, <1>7
<1>10. \A k \in Wires : /\ k \in Gray(b) <=> q(k) % 2 # q(k + 1) % 2
                        /\ k \in Gray(b + Depth) <=> r(k) % 2 # r(k + 1) % 2
  BY <1>1, GrayWires, Zenon DEF q, r
<1> DEFINE top == {AddrW - 1, AddrW}
<1>11. \A k \in Wires : k \notin top => (k \in Gray(b + Depth) <=> k \in Gray(b))
  <2>1. SUFFICES ASSUME NEW k \in Wires, k \notin top
                 PROVE  k \in Gray(b + Depth) <=> k \in Gray(b)
    OBVIOUS
  <2>2. k \in 0 .. AddrW - 1 /\ k + 1 \in 0 .. AddrW - 1
    BY <1>1, <2>1
  <2>3. QED
    BY <1>9, <1>10, <2>2, Zenon
<1>12. AddrW \in Gray(b + Depth) <=> AddrW \notin Gray(b)
  <2>1. AddrW \in Wires
    BY <1>1
  <2>2. 0 % 2 = 0 /\ 1 % 2 = 1
    OBVIOUS
  <2>3. QED
    BY <1>4, <1>8, <1>10, <2>1, <2>2
<1>13. AddrW - 1 \in Gray(b + Depth) <=> AddrW - 1 \notin Gray(b)
  <2>1. AddrW - 1 \in Wires /\ AddrW - 1 \in 0 .. AddrW - 1 /\ (AddrW - 1) + 1 = AddrW /\ AddrW - 1 \in Nat
    BY <1>1
  <2>2. 0 % 2 = 0 /\ 1 % 2 = 1 /\ \A x \in Nat : x % 2 \in {0, 1}
    OBVIOUS
  <2>3. r(AddrW - 1) % 2 = q(AddrW - 1) % 2 /\ q(AddrW - 1) % 2 \in {0, 1}
    BY <1>2, <1>9, <2>1, <2>2
  <2>4. /\ AddrW - 1 \in Gray(b) <=> q(AddrW - 1) % 2 # 0
        /\ AddrW - 1 \in Gray(b + Depth) <=> q(AddrW - 1) % 2 # 1
    BY <1>4, <1>8, <1>10, <2>1, <2>2, <2>3
  <2>5. QED
    BY <2>3, <2>4
<1>14. top \in SUBSET Wires
  BY <1>1
<1>15. Gray(b) \in SUBSET Wires /\ Gray(b + Depth) \in SUBSET Wires
  BY <1>1, GrayWires, Zenon
<1>16. \A k \in top : k \in Gray(b + Depth) <=> k \notin Gray(b)
  BY <1>12, <1>13
<1> HIDE DEF top
<1>17. Gray(b + Depth) = (Gray(b) \ top) \cup (top \ Gray(b))
  BY <1>11, <1>14, <1>15, <1>16
<1>18. QED
  BY <1>1, <1>17 DEF Inverted, top

LEMMA LapAhead ==
  ASSUME NEW b \in Pointers
  PROVE  /\ (b + Depth) % (2 * Depth) \in Pointers
         /\ Gray((b + Depth) % (2 * Depth)) = Inverted(Gray(b), {AddrW - 1, AddrW})
<1>1. Depth \in Nat \ {0} /\ b \in 0 .. 2 * Depth - 1
  BY Widths
<1>2. CASE b < Depth
  <2>1. b \in 0 .. Depth - 1 /\ (b + Depth) % (2 * Depth) = b + Depth
    BY <1>1, <1>2
  <2>2. QED
    BY <2>1, LapBelow
<1>3. CASE b >= Depth
  <2> DEFINE a == b - Depth
  <2>1. a \in 0 .. Depth - 1 /\ (b + Depth) % (2 * Depth) = a /\ a + Depth = b
    BY <1>1, <1>3
  <2> HIDE DEF a
  <2>2. a \in Pointers /\ Gray(b) = Inverted(Gray(a), {AddrW - 1, AddrW})
    BY <2>1, LapBelow
  <2>3. \A w, t : Inverted(Inverted(w, t), t) = w
    BY DEF Inverted
  <2>4. QED
    BY <2>1, <2>2, <2>3, Zenon
<1>4. QED
  BY <1>1, <1>2, <1>3

LEMMA GrayZero == 0 \in Pointers /\ Gray(0) = {}
<1>1. 0 \in Pointers /\ Wires = 0 .. AddrW /\ AddrW \in Nat
  BY Widths DEF Wires
<1>2. \A k \in Wires : k \notin Gray(0)
  <2>1. SUFFICES ASSUME NEW k \in Wires PROVE k \notin Gray(0)
    OBVIOUS
  <2>2. \A m \in Nat \ {0} : 0 \div m = 0
    OBVIOUS
  <2>3. k \in Nat /\ k + 1 \in Nat
    BY <1>1
  <2>4. 2 ^ k \in Nat \ {0} /\ 2 ^ (k + 1) \in Nat \ {0}
    BY <2>3, PowerStep, Zenon
  <2>5. Shifted(0, k) = 0 /\ Shifted(0, k + 1) = 0
    BY <2>2, <2>4, Zenon DEF Shifted
  <2>6. QED
    BY <1>1, <2>5, GrayWires, Zenon
<1>3. Gray(0) \in SUBSET Wires
  BY <1>1, GrayWires, Zenon
<1>4. QED
  BY <1>1, <1>2, <1>3
-------------------------------------------------------------------------------
(* The asynchronous FIFO.                                                   *)

\* The pointer that a count has come to.
Turn(c) == c % (2 * Depth)

RdSeen1 == CountOf(rdGrayW1, gets)
RdSeen2 == CountOf(rdGrayW2, gets)
WrSeen1 == CountOf(wrGrayR1, puts)
WrSeen2 == CountOf(wrGrayR2, puts)

Counters ==
  /\ puts \in Nat /\ gets \in Nat
  /\ RdSeen1 \in Nat /\ RdSeen2 \in Nat
  /\ WrSeen1 \in Nat /\ WrSeen2 \in Nat

\* Unwrapped!Conservative without the flags.
InOrder ==
  /\ RdSeen2 <= RdSeen1 /\ RdSeen1 <= gets
  /\ gets <= WrSeen2 /\ WrSeen2 <= WrSeen1 /\ WrSeen1 <= puts
  /\ puts <= RdSeen2 + Depth

Flags ==
  /\ full \in BOOLEAN /\ empty \in BOOLEAN
  /\ ~full => puts < RdSeen2 + Depth
  /\ ~empty => gets < WrSeen2

\* Every bus carries the Gray code of a count.
OnWires ==
  /\ wrBin = Turn(puts) /\ wrGray = Gray(Turn(puts))
  /\ rdBin = Turn(gets) /\ rdGray = Gray(Turn(gets))
  /\ rdGrayW1 = Gray(Turn(RdSeen1)) /\ rdGrayW2 = Gray(Turn(RdSeen2))
  /\ wrGrayR1 = Gray(Turn(WrSeen1)) /\ wrGrayR2 = Gray(Turn(WrSeen2))

\* What a bus may still show in part is at most one count old, and not older
\* than what the other side has got.
InChange ==
  /\ \E c \in Nat : rdGrayWas = Gray(Turn(c)) /\ RdSeen1 <= c /\ c <= gets /\ gets <= c + 1
  /\ \E c \in Nat : wrGrayWas = Gray(Turn(c)) /\ WrSeen1 <= c /\ c <= puts /\ puts <= c + 1

FifoInv == Counters /\ InOrder /\ Flags /\ OnWires /\ InChange

\* What a number has left over a multiple of m, and the number by its parts.
LEMMA ModUnique ==
  ASSUME NEW m \in Nat \ {0}, NEW a \in Nat, NEW q \in Nat, NEW r \in 0 .. m - 1,
         a = m * q + r
  PROVE  a % m = r
OBVIOUS

LEMMA ModParts ==
  ASSUME NEW m \in Nat \ {0}, NEW a \in Nat
  PROVE  a \div m \in Nat /\ a % m \in 0 .. m - 1 /\ a = m * (a \div m) + (a % m)
OBVIOUS

\* The remainder of a sum comes from the remainders.
LEMMA ModSum ==
  ASSUME NEW m \in Nat \ {0}, NEW a \in Nat, NEW b \in Nat
  PROVE  (a + b) % m = ((a % m) + b) % m
<1> DEFINE q == a \div m
           r == a % m
           p == (r + b) \div m
           s == (r + b) % m
<1>1. q \in Nat /\ r \in 0 .. m - 1 /\ a = m * q + r
  BY ModParts
<1>2. p \in Nat /\ s \in 0 .. m - 1 /\ r + b = m * p + s
  <2>1. r + b \in Nat
    BY <1>1
  <2>2. QED
    BY <2>1, ModParts, Zenon
<1> HIDE DEF q, r, p, s
<1>3. a + b = m * (q + p) + s
  <2>1. m * (q + p) = m * q + m * p
    BY <1>1, <1>2
  <2>2. QED
    BY <1>1, <1>2, <2>1
<1>4. (a + b) % m = s
  <2>1. a + b \in Nat /\ q + p \in Nat
    BY <1>1, <1>2
  <2>2. QED
    BY <1>2, <1>3, <2>1, ModUnique, Zenon
<1>5. QED
  BY <1>4 DEF s, r

\* Numbers less than m apart have the same remainder only if they are the same.
LEMMA ModApart ==
  ASSUME NEW m \in Nat \ {0}, NEW a \in Nat, NEW d \in 0 .. m - 1, a % m = (a + d) % m
  PROVE  d = 0
<1> DEFINE q == a \div m
           r == a % m
<1>1. q \in Nat /\ r \in 0 .. m - 1 /\ a = m * q + r
  BY ModParts
<1> HIDE DEF q, r
<1>2. (a + d) % m = r
  BY DEF r
<1>3. CASE r + d < m
  <2>1. a + d = m * q + (r + d) /\ r + d \in 0 .. m - 1
    BY <1>1, <1>3
  <2>2. (a + d) % m = r + d
    BY <1>1, <2>1, ModUnique
  <2>3. QED
    BY <1>1, <1>2, <2>2
<1>4. CASE m <= r + d
  <2>1. m * (q + 1) = m * q + m
    BY <1>1
  <2>2. a + d = m * (q + 1) + (r + d - m) /\ r + d - m \in 0 .. m - 1
    BY <1>1, <1>4, <2>1
  <2>3. (a + d) % m = r + d - m
    <3>1. a + d \in Nat /\ q + 1 \in Nat
      BY <1>1
    <3>2. QED
      BY <2>2, <3>1, ModUnique, Zenon
  <2>4. QED
    BY <1>1, <1>2, <2>3
<1>5. QED
  BY <1>1, <1>3, <1>4

\* From a number, and the remainder of one less than m below it, that one.
LEMMA ModBack ==
  ASSUME NEW m \in Nat \ {0}, NEW c \in Nat, NEW d \in 0 .. m - 1
  PROVE  ((c + d) - (c % m)) % m = d
<1> DEFINE q == c \div m
           r == c % m
<1>1. q \in Nat /\ r \in 0 .. m - 1 /\ c = m * q + r
  BY ModParts
<1> HIDE DEF q, r
<1>2. (c + d) - r = m * q + d
  BY <1>1
<1>3. m * q \in Nat
  BY <1>1
<1>4. ((c + d) - r) % m = d
  BY <1>1, <1>2, <1>3, ModUnique
<1>5. QED
  BY <1>4 DEF r

LEMMA TurnFacts ==
  ASSUME NEW c \in Nat
  PROVE  /\ Turn(c) \in Pointers
         /\ Turn(c + 1) = (Turn(c) + 1) % (2 * Depth)
         /\ Turn(c + Depth) = (Turn(c) + Depth) % (2 * Depth)
<1>1. 2 * Depth \in Nat \ {0} /\ Depth \in Nat /\ Pointers = 0 .. 2 * Depth - 1
  BY Widths
<1>2. ASSUME NEW m \in Nat \ {0}, NEW d \in Nat
      PROVE  c % m \in 0 .. m - 1 /\ (c + d) % m = ((c % m) + d) % m
  BY <1>2, ModParts, ModSum, Zenon
<1>3. QED
  BY <1>1, <1>2, Zenon DEF Turn

\* Within a lap, counts have the same pointer only if they are the same.
LEMMA TurnInjective ==
  ASSUME NEW a \in Nat, NEW b \in Nat, a <= b, b < a + 2 * Depth, Turn(a) = Turn(b)
  PROVE  a = b
<1>1. 2 * Depth \in Nat \ {0}
  BY Widths
<1>2. ASSUME NEW m \in Nat \ {0}, b < a + m, a % m = b % m
      PROVE  a = b
  <2>1. b - a \in 0 .. m - 1 /\ a + (b - a) = b
    BY <1>2
  <2>2. b - a = 0
    BY <1>2, <2>1, ModApart, Zenon
  <2>3. QED
    BY <2>2
<1>3. QED
  BY <1>1, <1>2 DEF Turn

\* A count that is less than a lap behind is got back from its Gray code.
LEMMA CountIs ==
  ASSUME NEW c \in Nat, NEW top \in Nat, c <= top, top < c + 2 * Depth
  PROVE  CountOf(Gray(Turn(c)), top) = c
<1>1. Turn(c) \in Pointers
  BY TurnFacts
<1>2. Gray(Turn(c)) \in SUBSET Wires
  BY <1>1, GrayWires, Zenon
<1>3. Counted[Gray(Turn(c))] = CHOOSE b \in Pointers : Gray(b) = Gray(Turn(c))
  BY <1>2, Zenon DEF Counted
<1>4. Counted[Gray(Turn(c))] = Turn(c)
  <2>1. \A b \in Pointers : Gray(b) = Gray(Turn(c)) => b = Turn(c)
    BY <1>1, GrayInjective, Zenon
  <2>2. QED
    BY <1>1, <1>3, <2>1, Zenon
<1>5. 2 * Depth \in Nat \ {0}
  BY Widths
<1>6. ASSUME NEW m \in Nat \ {0}, top < c + m
      PROVE  top - ((top - (c % m)) % m) = c
  <2>1. top - c \in 0 .. m - 1 /\ c + (top - c) = top
    BY <1>6
  <2>2. (top - (c % m)) % m = top - c
    BY <2>1, ModBack, Zenon
  <2>3. QED
    BY <2>2
<1>7. QED
  BY <1>4, <1>5, <1>6, Zenon DEF CountOf, Turn

\* A pointer is caught as it was or as it is.
LEMMA CaughtCount ==
  ASSUME NEW c \in Nat, NEW d \in Nat, d = c \/ d = c + 1,
         NEW v \in Caught(Gray(Turn(c)), Gray(Turn(d)))
  PROVE  v = Gray(Turn(c)) \/ v = Gray(Turn(d))
<1>1. Turn(c) \in Pointers /\ Turn(d) \in Pointers
  BY TurnFacts
<1>2. Gray(Turn(c)) \in SUBSET Wires /\ Gray(Turn(d)) \in SUBSET Wires
  BY <1>1, GrayWires, Zenon
<1>3. \E j \in Wires : Gray(Turn(d)) \ {j} = Gray(Turn(c)) \ {j}
  <2>1. CASE d = c
    <3>1. 0 \in Wires
      BY Widths DEF Wires
    <3>2. QED
      BY <2>1, <3>1, Zenon
  <2>2. CASE d = c + 1
    BY <1>1, <2>2, TurnFacts, OneWire, Zenon
  <2>3. QED
    BY <2>1, <2>2
<1>4. QED
  BY <1>2, <1>3, CaughtOne, Zenon

\* The full flag compares the counts.
LEMMA FullIs ==
  ASSUME NEW u \in Nat, NEW c \in Nat, c <= u, u <= c + Depth, rdGrayW2 = Gray(Turn(c))
  PROVE  FullVal(Turn(u)) <=> u = c + Depth
<1>1. Depth \in Nat \ {0} /\ c + Depth \in Nat
  BY Widths
<1>2. Turn(c) \in Pointers /\ Turn(u) \in Pointers /\ Turn(c + Depth) \in Pointers
  BY <1>1, TurnFacts, Zenon
<1>3. Gray(Turn(c + Depth)) = Inverted(Gray(Turn(c)), {AddrW - 1, AddrW})
  BY <1>2, TurnFacts, LapAhead, Zenon
<1>4. FullVal(Turn(u)) <=> Gray(Turn(u)) = Gray(Turn(c + Depth))
  BY <1>3, Zenon DEF FullVal
<1>5. Gray(Turn(u)) = Gray(Turn(c + Depth)) => u = c + Depth
  <2>1. ASSUME Turn(u) = Turn(c + Depth)
        PROVE  u = c + Depth
    <3>1. u <= c + Depth /\ c + Depth < u + 2 * Depth
      BY <1>1
    <3>2. QED
      BY <1>1, <2>1, <3>1, TurnInjective
  <2>2. QED
    BY <1>2, <2>1, GrayInjective, Zenon
<1>6. QED
  BY <1>4, <1>5, Zenon

\* The empty flag compares the counts.
LEMMA EmptyIs ==
  ASSUME NEW u \in Nat, NEW c \in Nat, u <= c, c < u + 2 * Depth, wrGrayR2 = Gray(Turn(c))
  PROVE  EmptyVal(Turn(u)) <=> u = c
<1>1. Turn(c) \in Pointers /\ Turn(u) \in Pointers
  BY TurnFacts, Zenon
<1>2. EmptyVal(Turn(u)) <=> Gray(Turn(u)) = Gray(Turn(c))
  BY Zenon DEF EmptyVal
<1>3. QED
  BY <1>1, <1>2, GrayInjective, TurnInjective, Zenon

LEMMA FifoWrites ==
  ASSUME FifoInv, NEW doWr \in BOOLEAN, NEW v, WriteEdge(doWr, v)
  PROVE  FifoInv' /\ Unwrapped!WriteEdge
<1> DEFINE D == Depth
<1>1. Counters /\ InOrder /\ Flags /\ OnWires /\ D \in Nat \ {0}
  BY Widths DEF FifoInv
<1>2. PICK c \in Nat : rdGrayWas = Gray(Turn(c)) /\ RdSeen1 <= c /\ c <= gets /\ gets <= c + 1
  BY Zenon DEF FifoInv, InChange
<1>3. PICK w \in Nat : wrGrayWas = Gray(Turn(w)) /\ WrSeen1 <= w /\ w <= puts /\ puts <= w + 1
  BY Zenon DEF FifoInv, InChange
<1>4. /\ UNCHANGED <<rdBin, rdGray, empty, wrGrayR1, wrGrayR2, gets, out>>
      /\ rdGrayW2' = rdGrayW1 /\ rdGrayW1' \in Caught(rdGrayWas, rdGray)
      /\ rdGrayWas' = rdGray /\ wrGrayWas' = wrGray
  BY Zenon DEF WriteEdge
<1>5. /\ puts' = IF doWr THEN puts + 1 ELSE puts
      /\ doWr => ~full
      /\ wrBin' = IF doWr THEN (wrBin + 1) % (2 * D) ELSE wrBin
      /\ wrGray' = Gray(wrBin') /\ full' = FullVal(wrBin')
  BY Zenon DEF WriteEdge
<1>6. puts' \in Nat /\ (puts' = puts \/ puts' = puts + 1) /\ puts' <= RdSeen2 + D
  BY <1>1, <1>5 DEF Counters, InOrder, Flags
<1>7. wrBin' = Turn(puts') /\ wrGray' = Gray(Turn(puts'))
  <2>1. CASE doWr
    BY <1>1, <1>5, <2>1, TurnFacts, Zenon DEF OnWires, Counters
  <2>2. CASE ~doWr
    BY <1>1, <1>5, <2>2, Zenon DEF OnWires
  <2>3. QED
    BY <2>1, <2>2
<1>8. full' <=> puts' = RdSeen2 + D
  <2>1. RdSeen2 <= puts'
    BY <1>1, <1>6 DEF Counters, InOrder
  <2>2. full' <=> FullVal(Turn(puts'))
    BY <1>5, <1>7, Zenon
  <2>3. RdSeen2 \in Nat /\ rdGrayW2 = Gray(Turn(RdSeen2))
    BY <1>1, Zenon DEF Counters, OnWires
  <2> HIDE DEF D
  <2>4. FullVal(Turn(puts')) <=> puts' = RdSeen2 + Depth
    BY <1>6, <2>1, <2>3, FullIs DEF D
  <2>5. QED
    BY <2>2, <2>4 DEF D
<1>9. full' \in BOOLEAN
  BY <1>5, Zenon DEF FullVal
<1>10. \E u \in {c, gets} : rdGrayW1' = Gray(Turn(u))
  <2>1. gets \in Nat /\ (gets = c \/ gets = c + 1)
    BY <1>1, <1>2 DEF Counters
  <2>2. rdGrayW1' \in Caught(Gray(Turn(c)), Gray(Turn(gets)))
    BY <1>1, <1>2, <1>4, Zenon DEF OnWires
  <2>3. QED
    BY <2>1, <2>2, CaughtCount, Zenon
<1>11. PICK u \in {c, gets} : rdGrayW1' = Gray(Turn(u))
  BY <1>10
<1>12. u \in Nat /\ RdSeen1 <= u /\ u <= gets /\ gets <= u + 1
  BY <1>1, <1>2 DEF Counters, InOrder
<1>13. RdSeen1' = u
  <2>1. gets \in Nat /\ gets < u + 2 * Depth
    BY <1>1, <1>12 DEF Counters
  <2>2. QED
    BY <1>4, <1>11, <1>12, <2>1, CountIs, Zenon DEF RdSeen1
<1>14. RdSeen2' = RdSeen1
  BY <1>4, Zenon DEF RdSeen1, RdSeen2
<1>15. WrSeen1' = WrSeen1 /\ WrSeen2' = WrSeen2
  <2>1. /\ WrSeen1 \in Nat /\ WrSeen1 <= puts' /\ puts' < WrSeen1 + 2 * Depth
        /\ WrSeen2 \in Nat /\ WrSeen2 <= puts' /\ puts' < WrSeen2 + 2 * Depth
    BY <1>1, <1>6 DEF Counters, InOrder
  <2>2. /\ wrGrayR1' = Gray(Turn(WrSeen1)) /\ wrGrayR2' = Gray(Turn(WrSeen2))
        /\ WrSeen1' = CountOf(wrGrayR1', puts') /\ WrSeen2' = CountOf(wrGrayR2', puts')
    BY <1>1, <1>4, Zenon DEF OnWires, WrSeen1, WrSeen2
  <2>3. QED
    BY <1>6, <2>1, <2>2, CountIs, Zenon
<1>16. Counters'
  BY <1>1, <1>4, <1>6, <1>12, <1>13, <1>14, <1>15 DEF Counters
<1>17. InOrder'
  BY <1>1, <1>4, <1>6, <1>12, <1>13, <1>14, <1>15 DEF Counters, InOrder
<1>18. Flags'
  <2>1. puts' # RdSeen2 + Depth => puts' < RdSeen2' + Depth
    BY <1>1, <1>6, <1>14 DEF Counters, InOrder
  <2>2. QED
    BY <1>1, <1>4, <1>8, <1>9, <1>15, <2>1, Zenon DEF Flags
<1>19. OnWires'
  BY <1>1, <1>4, <1>7, <1>11, <1>13, <1>14, <1>15, Zenon DEF OnWires
<1>20. InChange'
  <2>1. gets' \in Nat /\ rdGrayWas' = Gray(Turn(gets')) /\ RdSeen1' <= gets' /\ gets' <= gets' /\ gets' <= gets' + 1
    <3>1. rdGrayWas' = Gray(Turn(gets'))
      BY <1>1, <1>4, Zenon DEF OnWires
    <3>2. QED
      BY <1>4, <1>12, <1>13, <1>16, <3>1 DEF Counters
  <2>2. puts \in Nat /\ wrGrayWas' = Gray(Turn(puts)) /\ WrSeen1' <= puts /\ puts <= puts' /\ puts' <= puts + 1
    <3>1. wrGrayWas' = Gray(Turn(puts))
      BY <1>1, <1>4, Zenon DEF OnWires
    <3>2. QED
      BY <1>1, <1>6, <1>15, <3>1 DEF Counters, InOrder
  <2>3. QED
    BY <2>1, <2>2, Zenon DEF InChange
<1>21. Unwrapped!WriteEdge
  <2>1. puts' = puts \/ (~full /\ puts' = puts + 1)
    BY <1>5, Zenon
  <2>2. IF Unwrapped!FullVal(puts') THEN full' = TRUE ELSE full' = FALSE
    <3>1. Unwrapped!FullVal(puts') <=> full'
      BY <1>8, Zenon DEF Unwrapped!FullVal, RdSeen2
    <3>2. QED
      BY <1>9, <3>1
  <2>3. RdSeen1' \in RdSeen1 .. gets
    BY <1>1, <1>12, <1>13 DEF Counters
  <2>4. UNCHANGED <<gets, empty, WrSeen1, WrSeen2>>
    BY <1>4, <1>15, Zenon
  <2>5. QED
    BY <1>14, <2>1, <2>2, <2>3, <2>4, Zenon
       DEF Unwrapped!WriteEdge, Unwrapped!readVars, RdSeen1, RdSeen2, WrSeen1, WrSeen2
<1>22. QED
  BY <1>16, <1>17, <1>18, <1>19, <1>20, <1>21, Zenon DEF FifoInv
LEMMA FifoReads ==
  ASSUME FifoInv, NEW doRd \in BOOLEAN, ReadEdge(doRd)
  PROVE  FifoInv' /\ Unwrapped!ReadEdge
<1> DEFINE D == Depth
<1>1. Counters /\ InOrder /\ Flags /\ OnWires /\ D \in Nat \ {0}
  BY Widths DEF FifoInv
<1>2. PICK c \in Nat : wrGrayWas = Gray(Turn(c)) /\ WrSeen1 <= c /\ c <= puts /\ puts <= c + 1
  BY Zenon DEF FifoInv, InChange
<1>3. /\ UNCHANGED <<mem, wrBin, wrGray, full, rdGrayW1, rdGrayW2, puts>>
      /\ wrGrayR2' = wrGrayR1 /\ wrGrayR1' \in Caught(wrGrayWas, wrGray)
      /\ rdGrayWas' = rdGray /\ wrGrayWas' = wrGray
  BY Zenon DEF ReadEdge
<1>4. /\ gets' = IF doRd THEN gets + 1 ELSE gets
      /\ doRd => ~empty
      /\ rdBin' = IF doRd THEN (rdBin + 1) % (2 * D) ELSE rdBin
      /\ rdGray' = Gray(rdBin') /\ empty' = EmptyVal(rdBin')
  BY Zenon DEF ReadEdge
<1>5. gets' \in Nat /\ (gets' = gets \/ gets' = gets + 1) /\ gets' <= WrSeen2
  BY <1>1, <1>4 DEF Counters, InOrder, Flags
<1>6. rdBin' = Turn(gets') /\ rdGray' = Gray(Turn(gets'))
  <2>1. CASE doRd
    BY <1>1, <1>4, <2>1, TurnFacts, Zenon DEF OnWires, Counters
  <2>2. CASE ~doRd
    BY <1>1, <1>4, <2>2, Zenon DEF OnWires
  <2>3. QED
    BY <2>1, <2>2
<1>7. empty' <=> gets' = WrSeen2
  <2>1. WrSeen2 < gets' + 2 * Depth
    <3>1. WrSeen2 <= gets + Depth /\ WrSeen2 \in Nat /\ gets \in Nat /\ Depth \in Nat \ {0}
      BY <1>1 DEF Counters, InOrder
    <3>2. gets <= gets'
      BY <1>5, <3>1
    <3>3. ASSUME NEW m \in Nat, gets <= m
          PROVE  WrSeen2 < m + 2 * Depth
      BY <3>1, <3>3
    <3>4. QED
      BY <1>5, <3>2, <3>3, Zenon
  <2>2. empty' <=> EmptyVal(Turn(gets'))
    BY <1>4, <1>6, Zenon
  <2>3. WrSeen2 \in Nat /\ wrGrayR2 = Gray(Turn(WrSeen2))
    BY <1>1, Zenon DEF Counters, OnWires
  <2>4. EmptyVal(Turn(gets')) <=> gets' = WrSeen2
    BY <1>5, <2>1, <2>3, EmptyIs, Zenon
  <2>5. QED
    BY <2>2, <2>4, Zenon
<1>8. empty' \in BOOLEAN
  BY <1>4, Zenon DEF EmptyVal
<1>9. PICK u \in {c, puts} : wrGrayR1' = Gray(Turn(u))
  <2>1. puts \in Nat /\ (puts = c \/ puts = c + 1)
    BY <1>1, <1>2 DEF Counters
  <2>2. wrGrayR1' \in Caught(Gray(Turn(c)), Gray(Turn(puts)))
    BY <1>1, <1>2, <1>3, Zenon DEF OnWires
  <2>3. QED
    BY <2>1, <2>2, CaughtCount, Zenon
<1>10. u \in Nat /\ WrSeen1 <= u /\ u <= puts /\ puts <= u + 1
  BY <1>1, <1>2 DEF Counters, InOrder
<1>11. WrSeen1' = u
  <2>1. puts \in Nat /\ puts < u + 2 * Depth
    BY <1>1, <1>10 DEF Counters
  <2>2. QED
    BY <1>3, <1>9, <1>10, <2>1, CountIs, Zenon DEF WrSeen1
<1>12. WrSeen2' = WrSeen1
  BY <1>3, Zenon DEF WrSeen1, WrSeen2
<1>13. RdSeen1' = RdSeen1 /\ RdSeen2' = RdSeen2
  <2>1. /\ RdSeen1 \in Nat /\ RdSeen1 <= gets' /\ gets' < RdSeen1 + 2 * Depth
        /\ RdSeen2 \in Nat /\ RdSeen2 <= gets' /\ gets' < RdSeen2 + 2 * Depth
    BY <1>1, <1>5 DEF Counters, InOrder
  <2>2. /\ rdGrayW1' = Gray(Turn(RdSeen1)) /\ rdGrayW2' = Gray(Turn(RdSeen2))
        /\ RdSeen1' = CountOf(rdGrayW1', gets') /\ RdSeen2' = CountOf(rdGrayW2', gets')
    BY <1>1, <1>3, Zenon DEF OnWires, RdSeen1, RdSeen2
  <2>3. QED
    BY <1>5, <2>1, <2>2, CountIs, Zenon
<1>14. Counters'
  BY <1>1, <1>3, <1>5, <1>10, <1>11, <1>12, <1>13 DEF Counters
<1>15. InOrder'
  BY <1>1, <1>3, <1>5, <1>10, <1>11, <1>12, <1>13 DEF Counters, InOrder
<1>16. Flags'
  <2>1. gets' # WrSeen2 => gets' < WrSeen2'
    BY <1>1, <1>5, <1>12 DEF Counters, InOrder
  <2>2. QED
    BY <1>1, <1>3, <1>7, <1>8, <1>13, <2>1, Zenon DEF Flags
<1>17. OnWires'
  BY <1>1, <1>3, <1>6, <1>9, <1>11, <1>12, <1>13, Zenon DEF OnWires
<1>18. InChange'
  <2>1. puts' \in Nat /\ wrGrayWas' = Gray(Turn(puts')) /\ WrSeen1' <= puts' /\ puts' <= puts' /\ puts' <= puts' + 1
    <3>1. wrGrayWas' = Gray(Turn(puts'))
      BY <1>1, <1>3, Zenon DEF OnWires
    <3>2. QED
      BY <1>3, <1>10, <1>11, <1>14, <3>1 DEF Counters
  <2>2. gets \in Nat /\ rdGrayWas' = Gray(Turn(gets)) /\ RdSeen1' <= gets /\ gets <= gets' /\ gets' <= gets + 1
    <3>1. rdGrayWas' = Gray(Turn(gets))
      BY <1>1, <1>3, Zenon DEF OnWires
    <3>2. QED
      BY <1>1, <1>5, <1>13, <3>1 DEF Counters, InOrder
  <2>3. QED
    BY <2>1, <2>2, Zenon DEF InChange
<1>19. Unwrapped!ReadEdge
  <2>1. gets' = gets \/ (~empty /\ gets' = gets + 1)
    BY <1>4, Zenon
  <2>2. IF Unwrapped!EmptyVal(gets') THEN empty' = TRUE ELSE empty' = FALSE
    <3>1. Unwrapped!EmptyVal(gets') <=> empty'
      BY <1>7, Zenon DEF Unwrapped!EmptyVal, WrSeen2
    <3>2. QED
      BY <1>8, <3>1
  <2>3. WrSeen1' \in WrSeen1 .. puts
    BY <1>1, <1>10, <1>11 DEF Counters
  <2>4. UNCHANGED <<puts, full, RdSeen1, RdSeen2>>
    BY <1>3, <1>13, Zenon
  <2>5. QED
    BY <1>12, <2>1, <2>2, <2>3, <2>4, Zenon
       DEF Unwrapped!ReadEdge, Unwrapped!writeVars, RdSeen1, RdSeen2, WrSeen1, WrSeen2
<1>20. QED
  BY <1>14, <1>15, <1>16, <1>17, <1>18, <1>19, Zenon DEF FifoInv

LEMMA FifoStarts ==
  ASSUME FifoInit
  PROVE  FifoInv /\ Unwrapped!Init
<1>1. Turn(0) = 0 /\ Depth \in Nat \ {0}
  <2>1. Depth \in Nat \ {0} /\ 2 * Depth \in Nat \ {0}
    BY Widths
  <2>2. ASSUME NEW m \in Nat \ {0} PROVE 0 % m = 0
    OBVIOUS
  <2>3. QED
    BY <2>1, <2>2, Zenon DEF Turn
<1>2. Gray(Turn(0)) = {}
  BY <1>1, GrayZero, Zenon
<1>3. CountOf({}, 0) = 0
  <2>1. 0 \in Nat /\ 0 <= 0 /\ 0 < 0 + 2 * Depth
    BY <1>1
  <2>2. QED
    BY <1>2, <2>1, CountIs, Zenon
<1>4. RdSeen1 = 0 /\ RdSeen2 = 0 /\ WrSeen1 = 0 /\ WrSeen2 = 0
  BY <1>3, Zenon DEF FifoInit, RdSeen1, RdSeen2, WrSeen1, WrSeen2
<1>5. puts = 0 /\ gets = 0 /\ full = FALSE /\ empty = TRUE
  BY Zenon DEF FifoInit
<1>6. Counters /\ InOrder
  BY <1>1, <1>4, <1>5 DEF Counters, InOrder
<1>7. Flags
  <2>1. puts < RdSeen2 + Depth
    BY <1>1, <1>4, <1>5
  <2>2. QED
    BY <1>5, <2>1, Zenon DEF Flags
<1>8. OnWires
  BY <1>1, <1>2, <1>4, <1>5, Zenon DEF FifoInit, OnWires
<1>9. InChange
  <2>1. 0 \in Nat /\ 0 <= 0 /\ 0 <= 0 + 1
    OBVIOUS
  <2>2. QED
    BY <1>2, <1>4, <1>5, <2>1, Zenon DEF FifoInit, InChange
<1>10. Unwrapped!Init
  BY <1>4, <1>5, Zenon DEF Unwrapped!Init, RdSeen1, RdSeen2, WrSeen1, WrSeen2
<1>11. QED
  BY <1>6, <1>7, <1>8, <1>9, <1>10, Zenon DEF FifoInv

LEMMA FifoStutters ==
  ASSUME FifoInv, UNCHANGED fifoVars
  PROVE  FifoInv' /\ UNCHANGED Unwrapped!vars
<1>1. /\ puts' = puts /\ gets' = gets /\ wrBin' = wrBin /\ rdBin' = rdBin
      /\ wrGray' = wrGray /\ rdGray' = rdGray /\ full' = full /\ empty' = empty
      /\ rdGrayW1' = rdGrayW1 /\ rdGrayW2' = rdGrayW2 /\ wrGrayR1' = wrGrayR1
      /\ wrGrayR2' = wrGrayR2 /\ wrGrayWas' = wrGrayWas /\ rdGrayWas' = rdGrayWas
  BY Zenon DEF fifoVars, writeVars, readVars
<1>2. RdSeen1' = RdSeen1 /\ RdSeen2' = RdSeen2 /\ WrSeen1' = WrSeen1 /\ WrSeen2' = WrSeen2
  BY <1>1, Zenon DEF RdSeen1, RdSeen2, WrSeen1, WrSeen2
<1>3. Counters' /\ InOrder' /\ Flags'
  BY <1>1, <1>2, Zenon DEF FifoInv, Counters, InOrder, Flags
<1>4. OnWires' /\ InChange'
  BY <1>1, <1>2, Zenon DEF FifoInv, OnWires, InChange
<1>5. UNCHANGED Unwrapped!vars
  BY <1>1, <1>2, Zenon DEF Unwrapped!vars, Unwrapped!writeVars, Unwrapped!readVars, RdSeen1, RdSeen2, WrSeen1, WrSeen2
<1>6. QED
  BY <1>3, <1>4, <1>5, Zenon DEF FifoInv

LEMMA FifoSteps ==
  ASSUME FifoInv, [FifoNext]_fifoVars
  PROVE  FifoInv' /\ [Unwrapped!Next]_(Unwrapped!vars)
<1>1. ASSUME NEW v \in Data, WriteEdge(TRUE, v)
      PROVE  FifoInv' /\ Unwrapped!WriteEdge
  BY <1>1, FifoWrites, Zenon
<1>2. ASSUME WriteEdge(FALSE, out)
      PROVE  FifoInv' /\ Unwrapped!WriteEdge
  BY <1>2, FifoWrites, Zenon
<1>3. ASSUME NEW doRd \in BOOLEAN, ReadEdge(doRd)
      PROVE  FifoInv' /\ Unwrapped!ReadEdge
  BY <1>3, FifoReads, Zenon
<1>4. QED
  BY <1>1, <1>2, <1>3, FifoStutters, Zenon DEF FifoNext, Unwrapped!Next

\* Wrapped Gray pointers that may be caught in the middle of a change do, for
\* every depth, what counted pointers do (async_fifo.sv).
THEOREM GrayPointersCount == FifoSpec => ImplementsPointers
<1>1. FifoInit => FifoInv /\ Unwrapped!Init
  BY FifoStarts
<1>2. FifoInv /\ [FifoNext]_fifoVars => FifoInv' /\ [Unwrapped!Next]_(Unwrapped!vars)
  BY FifoSteps
<1>3. QED
  BY <1>1, <1>2, PTL DEF FifoSpec, ImplementsPointers, Unwrapped!Spec

\* The FIFO itself neither overruns nor underruns, for every depth.
THEOREM FifoSafe == FifoSpec => [](Unwrapped!Conservative /\ Unwrapped!NoOverrun)
<1>1. FifoInit => FifoInv
  BY FifoStarts
<1>2. FifoInv /\ [FifoNext]_fifoVars => FifoInv'
  BY FifoSteps
<1>3. ASSUME FifoInv PROVE Unwrapped!Conservative /\ Unwrapped!NoOverrun
  <2>1. Counters /\ InOrder /\ Flags
    BY <1>3 DEF FifoInv
  <2>2. Unwrapped!Conservative
    BY <2>1, Zenon DEF InOrder, Flags, RdSeen1, RdSeen2, WrSeen1, WrSeen2, Unwrapped!Conservative
  <2>3. gets <= puts /\ puts <= gets + Depth
    BY <2>1, Widths DEF Counters, InOrder
  <2>4. puts < RdSeen2 + Depth => puts < gets + Depth
    BY <2>1, Widths DEF Counters, InOrder
  <2>5. gets < WrSeen2 => gets < puts
    BY <2>1 DEF Counters, InOrder
  <2>6. QED
    BY <2>1, <2>2, <2>3, <2>4, <2>5, Zenon DEF Flags, Unwrapped!NoOverrun
<1>4. QED
  BY <1>1, <1>2, <1>3, PTL DEF FifoSpec
\* The u words from the count g on.
WordsFrom(m, g, u) == [k \in 1 .. u |-> m[(g + k - 1) % Depth]]

Stored == mem \in [0 .. Depth - 1 -> Data] /\ out \in Data

LEMMA FromSeq ==
  ASSUME NEW m \in [0 .. Depth - 1 -> Data], NEW g \in Nat, NEW u \in Nat
  PROVE  /\ WordsFrom(m, g, u) \in Seq(Data) /\ Len(WordsFrom(m, g, u)) = u
         /\ \A k \in 1 .. u : WordsFrom(m, g, u)[k] = m[(g + k - 1) % Depth]
<1>1. \A k \in 1 .. u : (g + k - 1) % Depth \in 0 .. Depth - 1
  <2>1. Depth \in Nat \ {0}
    BY Widths
  <2>2. SUFFICES ASSUME NEW k \in 1 .. u PROVE (g + k - 1) % Depth \in 0 .. Depth - 1
    OBVIOUS
  <2>3. g + k - 1 \in Nat
    OBVIOUS
  <2>4. QED
    BY <2>1, <2>3, ModParts, Zenon
<1>2. WordsFrom(m, g, u) \in [1 .. u -> Data]
  BY <1>1, Zenon DEF WordsFrom
<1>3. WordsFrom(m, g, u) \in Seq(Data)
  BY <1>2, SeqDef
<1>4. Len(WordsFrom(m, g, u)) = u
  <2>1. DOMAIN WordsFrom(m, g, u) = 1 .. u
    BY Zenon DEF WordsFrom
  <2>2. DOMAIN WordsFrom(m, g, u) = 1 .. Len(WordsFrom(m, g, u)) /\ Len(WordsFrom(m, g, u)) \in Nat
    BY <1>3, LenProperties, Zenon
  <2>3. QED
    BY <2>1, <2>2
<1>5. QED
  BY <1>3, <1>4, Zenon DEF WordsFrom

\* A word that is written after u others comes last, and lands on none of them.
LEMMA FromPut ==
  ASSUME NEW m \in [0 .. Depth - 1 -> Data], NEW g \in Nat, NEW u \in Nat, u < Depth, NEW v \in Data
  PROVE  WordsFrom([m EXCEPT ![(g + u) % Depth] = v], g, u + 1) = Append(WordsFrom(m, g, u), v)
<1> DEFINE d == Depth
           m2 == [m EXCEPT ![(g + u) % Depth] = v]
<1>1. d \in Nat \ {0} /\ u < d
  BY Widths
<1>2. (g + u) % d \in 0 .. d - 1
  <2>1. g + u \in Nat
    OBVIOUS
  <2>2. QED
    BY <1>1, <2>1, ModParts, Zenon
<1>3. m2 \in [0 .. d - 1 -> Data] /\ m2[(g + u) % d] = v
  BY <1>2, Zenon
<1>4. ASSUME NEW k \in 1 .. u
      PROVE  m2[(g + k - 1) % d] = m[(g + k - 1) % d]
  <2>1. (g + k - 1) % d # (g + u) % d
    <3> HIDE DEF d
    <3>1. g + k - 1 \in Nat /\ u - k + 1 \in 0 .. d - 1 /\ (g + k - 1) + (u - k + 1) = g + u /\ u - k + 1 # 0
      BY <1>1
    <3>2. QED
      BY <1>1, <3>1, ModApart, Zenon
  <2>2. (g + k - 1) % d \in 0 .. d - 1
    <3>1. g + k - 1 \in Nat
      OBVIOUS
    <3>2. QED
      BY <1>1, <3>1, ModParts, Zenon
  <2>3. QED
    BY <2>1, <2>2, Zenon
<1> HIDE DEF m2
<1>5. u + 1 \in Nat
  OBVIOUS
<1>6. /\ WordsFrom(m2, g, u + 1) \in Seq(Data) /\ Len(WordsFrom(m2, g, u + 1)) = u + 1
      /\ \A k \in 1 .. u + 1 : WordsFrom(m2, g, u + 1)[k] = m2[(g + k - 1) % d]
  BY <1>3, <1>5, FromSeq, Zenon
<1>7. /\ WordsFrom(m, g, u) \in Seq(Data) /\ Len(WordsFrom(m, g, u)) = u
      /\ \A k \in 1 .. u : WordsFrom(m, g, u)[k] = m[(g + k - 1) % d]
  BY FromSeq, Zenon
<1>8. /\ Append(WordsFrom(m, g, u), v) \in Seq(Data) /\ Len(Append(WordsFrom(m, g, u), v)) = u + 1
      /\ \A k \in 1 .. u : Append(WordsFrom(m, g, u), v)[k] = WordsFrom(m, g, u)[k]
      /\ Append(WordsFrom(m, g, u), v)[u + 1] = v
  BY <1>7, AppendProperties
<1>9. ASSUME NEW k \in 1 .. u + 1
      PROVE  WordsFrom(m2, g, u + 1)[k] = Append(WordsFrom(m, g, u), v)[k]
  <2>1. CASE k \in 1 .. u
    BY <1>4, <1>6, <1>7, <1>8, <2>1, Zenon
  <2>2. CASE k = u + 1
    <3>1. g + k - 1 = g + u
      BY <2>2
    <3>2. QED
      BY <1>3, <1>6, <1>8, <2>2, <3>1, Zenon
  <2>3. k \in 1 .. u \/ k = u + 1
    OBVIOUS
  <2>4. QED
    BY <2>1, <2>2, <2>3, Zenon
<1>10. WordsFrom(m2, g, u + 1) = Append(WordsFrom(m, g, u), v)
  BY <1>6, <1>8, <1>9, SeqEqual, Zenon
<1>11. QED
  BY <1>10, Zenon DEF m2

\* The word that is read is the first, and the others stay.
LEMMA FromGet ==
  ASSUME NEW m \in [0 .. Depth - 1 -> Data], NEW g \in Nat, NEW u \in Nat \ {0}
  PROVE  /\ WordsFrom(m, g, u) # <<>> /\ Head(WordsFrom(m, g, u)) = m[g % Depth]
         /\ WordsFrom(m, g + 1, u - 1) = Tail(WordsFrom(m, g, u))
<1>1. g + 1 \in Nat /\ u - 1 \in Nat /\ u \in Nat /\ g + 1 - 1 = g /\ 1 \in 1 .. u
  OBVIOUS
<1>2. /\ WordsFrom(m, g, u) \in Seq(Data) /\ Len(WordsFrom(m, g, u)) = u
      /\ \A k \in 1 .. u : WordsFrom(m, g, u)[k] = m[(g + k - 1) % Depth]
  BY <1>1, FromSeq, Zenon
<1>3. WordsFrom(m, g, u) # <<>>
  <2>1. Len(<<>>) = 0
    OBVIOUS
  <2>2. QED
    BY <1>2, <2>1
<1>4. Head(WordsFrom(m, g, u)) = m[g % Depth]
  <2>1. Head(WordsFrom(m, g, u)) = WordsFrom(m, g, u)[1]
    BY <1>2, <1>3
  <2>2. QED
    BY <1>1, <1>2, <2>1, Zenon
<1>5. /\ WordsFrom(m, g + 1, u - 1) \in Seq(Data) /\ Len(WordsFrom(m, g + 1, u - 1)) = u - 1
      /\ \A k \in 1 .. u - 1 : WordsFrom(m, g + 1, u - 1)[k] = m[(g + 1 + k - 1) % Depth]
  BY <1>1, FromSeq, Zenon
<1>6. /\ Tail(WordsFrom(m, g, u)) \in Seq(Data) /\ Len(Tail(WordsFrom(m, g, u))) = u - 1
      /\ \A k \in 1 .. u - 1 : Tail(WordsFrom(m, g, u))[k] = WordsFrom(m, g, u)[k + 1]
  BY <1>2, <1>3, HeadTailProperties, Zenon
<1>7. ASSUME NEW k \in 1 .. u - 1
      PROVE  WordsFrom(m, g + 1, u - 1)[k] = Tail(WordsFrom(m, g, u))[k]
  <2>1. k + 1 \in 1 .. u /\ g + 1 + k - 1 = g + (k + 1) - 1
    OBVIOUS
  <2>2. QED
    BY <1>2, <1>5, <1>6, <2>1, Zenon
<1>8. WordsFrom(m, g + 1, u - 1) = Tail(WordsFrom(m, g, u))
  BY <1>5, <1>6, <1>7, SeqEqual, Zenon
<1>9. QED
  BY <1>3, <1>4, <1>8, Zenon

\* What lies between two pointers that are less than a lap apart, by the counts.
LEMMA Between ==
  ASSUME NEW g \in Nat, NEW d \in Nat, d < 2 * Depth
  PROVE  (Turn(g + d) - Turn(g)) % (2 * Depth) = d
<1>1. 2 * Depth \in Nat \ {0}
  BY Widths
<1>2. ASSUME NEW m \in Nat \ {0}, d < m
      PROVE  (((g + d) % m) - (g % m)) % m = d
  <2> DEFINE q == g \div m
             r == g % m
  <2>1. q \in Nat /\ r \in 0 .. m - 1 /\ g = m * q + r
    BY ModParts
  <2>2. d \in 0 .. m - 1
    BY <1>2
  <2> HIDE DEF q, r
  <2>3. CASE r + d < m
    <3>1. g + d \in Nat /\ g + d = m * q + (r + d) /\ r + d \in 0 .. m - 1
      BY <2>1, <2>3
    <3>2. (g + d) % m = r + d
      BY <2>1, <3>1, ModUnique, Zenon
    <3>3. (r + d) - r = d /\ d % m = d
      BY <2>1, <2>2
    <3>4. QED
      BY <3>2, <3>3 DEF r
  <2>4. CASE m <= r + d
    <3>1. m * (q + 1) = m * q + m
      BY <2>1
    <3>2. g + d \in Nat /\ q + 1 \in Nat /\ g + d = m * (q + 1) + (r + d - m) /\ r + d - m \in 0 .. m - 1
      BY <2>1, <2>2, <2>4, <3>1
    <3>3. (g + d) % m = r + d - m
      BY <3>2, ModUnique, Zenon
    <3>4. (r + d - m) - r = d - m /\ (d - m) % m = d
      BY <2>1, <2>2
    <3>5. QED
      BY <3>3, <3>4 DEF r
  <2>5. QED
    BY <2>1, <2>2, <2>3, <2>4
<1>3. QED
  BY <1>1, <1>2, Zenon DEF Turn

\* A pointer on the memory is the count on the memory.
LEMMA Place ==
  ASSUME NEW c \in Nat, NEW k \in Nat
  PROVE  (Turn(c) + k) % Depth = (c + k) % Depth
<1>1. Depth \in Nat \ {0}
  BY Widths
<1>2. ASSUME NEW d \in Nat \ {0}
      PROVE  ((c % (2 * d)) + k) % d = (c + k) % d
  <2> DEFINE m == 2 * d
             q == c \div m
             r == c % m
             p == (r + k) \div d
             s == (r + k) % d
  <2>1. m \in Nat \ {0}
    OBVIOUS
  <2>2. q \in Nat /\ r \in 0 .. m - 1 /\ c = m * q + r
    BY <2>1, ModParts, Zenon
  <2>3. r + k \in Nat
    BY <2>1, <2>2
  <2>4. p \in Nat /\ s \in 0 .. d - 1 /\ r + k = d * p + s
    BY <2>3, ModParts, Zenon
  <2> HIDE DEF q, r, p, s
  <2>5. m * q = d * (2 * q) /\ d * (2 * q + p) = d * (2 * q) + d * p
    BY <2>2, <2>4
  <2>6. c + k \in Nat /\ 2 * q + p \in Nat /\ c + k = d * (2 * q + p) + s
    BY <2>2, <2>4, <2>5
  <2>7. (c + k) % d = s
    BY <2>4, <2>6, ModUnique, Zenon
  <2>8. QED
    BY <2>7 DEF s, r
<1>3. QED
  BY <1>1, <1>2, Zenon DEF Turn

InsideFacts ==
  /\ puts - gets \in Nat /\ Inside = WordsFrom(mem, gets, puts - gets)
  /\ wrBin % Depth = (gets + (puts - gets)) % Depth /\ rdBin % Depth = gets % Depth

LEMMA InsideIs == FifoInv => InsideFacts
<1> SUFFICES ASSUME FifoInv PROVE InsideFacts
  OBVIOUS
<1>1. Counters /\ InOrder /\ OnWires /\ Depth \in Nat \ {0}
  BY Widths DEF FifoInv
<1>2. puts - gets \in Nat /\ puts - gets < 2 * Depth /\ gets + (puts - gets) = puts /\ puts \in Nat /\ gets \in Nat
  BY <1>1 DEF Counters, InOrder
<1>3. (wrBin - rdBin) % (2 * Depth) = puts - gets
  BY <1>1, <1>2, Between, Zenon DEF OnWires
<1>4. ASSUME NEW k \in 1 .. puts - gets
      PROVE  (rdBin + k - 1) % Depth = (gets + k - 1) % Depth
  <2>1. k - 1 \in Nat /\ gets + (k - 1) = gets + k - 1
    BY <1>2
  <2>2. rdBin + (k - 1) = rdBin + k - 1
    <3>1. rdBin \in Nat
      BY <1>1, <1>2, TurnFacts, Widths DEF OnWires
    <3>2. QED
      BY <1>2, <3>1
  <2>3. QED
    BY <1>1, <1>2, <2>1, <2>2, Place, Zenon DEF OnWires
<1>5. Inside = WordsFrom(mem, gets, puts - gets)
  BY <1>3, <1>4, Zenon DEF Inside, WordsFrom
<1>6. wrBin % Depth = puts % Depth /\ rdBin % Depth = gets % Depth
  <2>1. ASSUME NEW c \in Nat PROVE Turn(c) % Depth = c % Depth
    <3>1. Turn(c) \in Nat
      <4>1. Turn(c) \in Pointers
        BY TurnFacts, Zenon
      <4>2. QED
        BY <4>1, Widths
    <3>2. Turn(c) + 0 = Turn(c) /\ c + 0 = c /\ 0 \in Nat
      BY <3>1
    <3>3. QED
      BY <3>2, Place, Zenon
  <2>2. QED
    BY <1>1, <1>2, <2>1, Zenon DEF OnWires
<1>7. QED
  BY <1>2, <1>5, <1>6, Zenon DEF InsideFacts

LEMMA QueueStarts ==
  ASSUME FifoInit
  PROVE  Stored /\ Queue!Init
<1>1. Depth \in Nat \ {0}
  BY Widths
<1>2. 0 \in 0 .. Depth - 1
  BY <1>1
<1>3. Stored
  BY <1>2, Zenon DEF FifoInit, Stored
<1>4. FifoInv
  BY FifoStarts
<1>5. puts - gets = 0 /\ gets = 0
  BY DEF FifoInit
<1>6. Inside = WordsFrom(mem, 0, 0)
  BY <1>4, <1>5, InsideIs, Zenon DEF InsideFacts
<1>7. WordsFrom(mem, 0, 0) \in Seq(Data) /\ Len(WordsFrom(mem, 0, 0)) = 0
  <2>1. 0 \in Nat
    OBVIOUS
  <2>2. QED
    BY <1>3, <2>1, FromSeq, Zenon DEF Stored
<1>8. WordsFrom(mem, 0, 0) = <<>>
  BY <1>7
<1>9. QED
  BY <1>3, <1>6, <1>8, Zenon DEF Queue!Init, Stored

LEMMA QueueWrites ==
  ASSUME FifoInv, Stored, NEW doWr \in BOOLEAN, NEW v \in Data, WriteEdge(doWr, v)
  PROVE  Stored' /\ (Queue!Put \/ UNCHANGED <<Inside, out>>)
<1> DEFINE u == puts - gets
<1>1. FifoInv'
  BY FifoWrites, Zenon
<1>2. Inside' = WordsFrom(mem', gets', puts' - gets')
  <2>1. InsideFacts'
    BY <1>1, InsideIs, PTL
  <2>2. QED
    BY <2>1, Zenon DEF InsideFacts, WordsFrom
<1>3. Inside = WordsFrom(mem, gets, u) /\ u \in Nat /\ wrBin % Depth = (gets + u) % Depth
  BY InsideIs, Zenon DEF InsideFacts
<1>4. /\ gets' = gets /\ out' = out /\ gets \in Nat /\ puts \in Nat
      /\ puts' = IF doWr THEN puts + 1 ELSE puts
      /\ mem' = IF doWr THEN [mem EXCEPT ![wrBin % Depth] = v] ELSE mem
      /\ doWr => ~full
  BY Zenon DEF WriteEdge, FifoInv, Counters
<1>5. CASE ~doWr
  <2>1. Inside' = Inside /\ mem' = mem
    BY <1>2, <1>3, <1>4, <1>5, Zenon
  <2>2. QED
    BY <1>4, <2>1, Zenon DEF Stored
<1>6. CASE doWr
  <2>1. u < Depth
    <3>1. Counters /\ InOrder /\ (~full => puts < RdSeen2 + Depth) /\ ~full /\ Depth \in Nat \ {0}
      BY <1>4, <1>6, Widths DEF FifoInv, Flags
    <3>2. QED
      BY <3>1 DEF Counters, InOrder
  <2>2. puts' - gets' = u + 1
    BY <1>4, <1>6
  <2>3. mem' = [mem EXCEPT ![(gets + u) % Depth] = v]
    BY <1>3, <1>4, <1>6, Zenon
  <2> HIDE DEF u
  <2>4. Inside' = Append(Inside, v)
    <3>1. WordsFrom([mem EXCEPT ![(gets + u) % Depth] = v], gets, u + 1) = Append(WordsFrom(mem, gets, u), v)
      BY <1>3, <1>4, <2>1, FromPut, Zenon DEF Stored
    <3>2. Inside' = WordsFrom(mem', gets, u + 1)
      <4>1. gets' = gets
        BY <1>4
      <4>2. QED
        BY <1>2, <2>2, <4>1, Zenon
    <3>3. QED
      BY <1>3, <2>3, <3>1, <3>2, Zenon
  <2>5. Len(Inside) = u
    BY <1>3, <1>4, FromSeq, Zenon DEF Stored
  <2>6. Stored'
    BY <1>4, <2>3, Zenon DEF Stored
  <2>7. QED
    BY <1>4, <2>1, <2>4, <2>5, <2>6, Zenon DEF Queue!Put
<1>7. QED
  BY <1>5, <1>6

LEMMA QueueReads ==
  ASSUME FifoInv, Stored, NEW doRd \in BOOLEAN, ReadEdge(doRd)
  PROVE  Stored' /\ (Queue!Get \/ UNCHANGED <<Inside, out>>)
<1> DEFINE u == puts - gets
<1>1. FifoInv'
  BY FifoReads, Zenon
<1>2. Inside' = WordsFrom(mem', gets', puts' - gets')
  <2>1. InsideFacts'
    BY <1>1, InsideIs, PTL
  <2>2. QED
    BY <2>1, Zenon DEF InsideFacts, WordsFrom
<1>3. Inside = WordsFrom(mem, gets, u) /\ u \in Nat /\ rdBin % Depth = gets % Depth
  BY InsideIs, Zenon DEF InsideFacts
<1>4. /\ puts' = puts /\ mem' = mem /\ gets \in Nat /\ puts \in Nat
      /\ gets' = IF doRd THEN gets + 1 ELSE gets
      /\ out' = IF doRd THEN mem[rdBin % Depth] ELSE out
      /\ doRd => ~empty
  BY Zenon DEF ReadEdge, FifoInv, Counters
<1>5. CASE ~doRd
  BY <1>2, <1>3, <1>4, <1>5, Zenon DEF Stored
<1>6. CASE doRd
  <2>1. u \in Nat \ {0}
    <3>1. Counters /\ InOrder /\ (~empty => gets < WrSeen2) /\ ~empty
      BY <1>4, <1>6, Zenon DEF FifoInv, Flags
    <3>2. QED
      BY <3>1 DEF Counters, InOrder
  <2>2. puts' - gets' = u - 1 /\ gets' = gets + 1
    BY <1>4, <1>6
  <2> HIDE DEF u
  <2>3. Inside # <<>> /\ Head(Inside) = mem[gets % Depth] /\ Inside' = Tail(Inside)
    BY <1>2, <1>3, <1>4, <2>1, <2>2, FromGet, Zenon DEF Stored
  <2>4. out' = Head(Inside)
    BY <1>3, <1>4, <1>6, <2>3, Zenon
  <2>5. out' \in Data
    <3>1. gets % Depth \in 0 .. Depth - 1
      BY <1>4, Widths, ModParts, Zenon
    <3>2. QED
      BY <2>3, <2>4, <3>1, Zenon DEF Stored
  <2>6. QED
    BY <1>4, <2>3, <2>4, <2>5, Zenon DEF Queue!Get, Stored
<1>7. QED
  BY <1>5, <1>6

LEMMA QueueSteps ==
  ASSUME FifoInv, Stored, [FifoNext]_fifoVars
  PROVE  Stored' /\ [Queue!Put \/ Queue!Get]_<<Inside, out>>
<1>1. ASSUME NEW v \in Data, WriteEdge(TRUE, v)
      PROVE  Stored' /\ (Queue!Put \/ UNCHANGED <<Inside, out>>)
  BY <1>1, QueueWrites, Zenon
<1>2. ASSUME WriteEdge(FALSE, out)
      PROVE  Stored' /\ (Queue!Put \/ UNCHANGED <<Inside, out>>)
  BY <1>2, QueueWrites, Zenon DEF Stored
<1>3. ASSUME NEW doRd \in BOOLEAN, ReadEdge(doRd)
      PROVE  Stored' /\ (Queue!Get \/ UNCHANGED <<Inside, out>>)
  BY <1>3, QueueReads, Zenon
<1>4. ASSUME UNCHANGED fifoVars
      PROVE  Stored' /\ UNCHANGED <<Inside, out>>
  BY <1>4, Zenon DEF fifoVars, writeVars, readVars, Inside, Stored
<1>5. QED
  BY <1>1, <1>2, <1>3, <1>4, Zenon DEF FifoNext

\* For every depth and every set of words, the FIFO is a queue that holds at most
\* Depth words: each is delivered once, in order and unharmed (async_fifo.sv).
THEOREM FifoIsAQueue == FifoSpec => ImplementsQueue
<1>1. FifoInit => FifoInv /\ Stored /\ Queue!Init
  BY FifoStarts, QueueStarts
<1>2. FifoInv /\ Stored /\ [FifoNext]_fifoVars
        => FifoInv' /\ Stored' /\ [Queue!Put \/ Queue!Get]_<<Inside, out>>
  BY FifoSteps, QueueSteps
<1>3. QED
  BY <1>1, <1>2, PTL DEF FifoSpec, ImplementsQueue, Queue!Spec

-------------------------------------------------------------------------------
(* The AXI bridge.                                                          *)

BridgeTypes ==
  /\ state \in {"IDLE", "W_DATA", "W_FLUSH", "W_XFER", "W_RESP", "R_XFER", "R_COLLECT", "R_RESP"}
  /\ wordAddr \in Beat /\ cbaddr \in Beat
  /\ len \in 0..MaxLen /\ beatCnt \in 0..len
  /\ index \in Word
  /\ chas \in BOOLEAN /\ afterFlush \in {"NONE", "LOAD", "FULL", "READ"}
  /\ cbuf \in Line /\ wbeat \in Line /\ rbeat \in Line /\ wstrb \in SUBSET Word
  /\ stored \in [Beat -> Line]

\* The first index words of the beat at b are those of line.
Through(b, line) == \A w \in Word : w < index => stored[b][w] = line[w]

FlushInv ==
  state = "W_FLUSH" =>
    /\ chas /\ afterFlush # "NONE"
    /\ afterFlush # "READ" => cbaddr # wordAddr
    /\ Through(cbaddr, cbuf)

XferInv == state = "W_XFER" => ~chas /\ Through(wordAddr, wbeat)

ReadInv ==
  /\ state \in {"R_XFER", "R_COLLECT", "R_RESP"} => ~chas
  /\ state = "R_COLLECT" => Through(wordAddr, rbeat)

BridgeInv == BridgeTypes /\ FlushInv /\ XferInv /\ ReadInv
-------------------------------------------------------------------------------
\* A beat with strobes taken over another is a beat.
LEMMA MaskedType ==
  ASSUME NEW s \in SUBSET Word, NEW d \in Line, NEW below \in Line
  PROVE  Masked(s, d, below) \in Line /\ Zeros \in Line
BY BridgeAssumption DEF Masked, Line, Zeros

\* The next beat is in the window.
LEMMA NextBeatType == ASSUME wordAddr \in Beat PROVE NextBeat \in Beat
BY BridgeAssumption DEF Beat, NextBeat

\* A word that is written changes one word of one beat (S_W_FLUSH, S_W_XFER).
LEMMA OneWord ==
  ASSUME stored \in [Beat -> Line], index \in Word,
         NEW b \in Beat, NEW line \in Line, WriteWord(b, line)
  PROVE  /\ stored' \in [Beat -> Line]
         /\ \A c \in Beat : c # b => stored'[c] = stored[c]
         /\ \A w \in Word : stored'[b][w] = IF w = index THEN line[w] ELSE stored[b][w]
BY DEF WriteWord, Line

\* After the last word the beat is the line.
LEMMA WholeBeat ==
  ASSUME stored \in [Beat -> Line], index \in Word, LastWord,
         NEW b \in Beat, NEW line \in Line, Through(b, line), WriteWord(b, line)
  PROVE  stored'[b] = line
<1>1. stored'[b] \in Line
  BY OneWord
<1>2. \A w \in Word : stored'[b][w] = line[w]
  <2> SUFFICES ASSUME NEW w \in Word PROVE stored'[b][w] = line[w]
    OBVIOUS
  <2>1. w = index \/ w < index
    BY BridgeAssumption DEF Word, LastWord
  <2> QED
    BY <2>1, OneWord DEF Through
<1> QED
  BY <1>1, <1>2 DEF Line

\* One more word is through.
LEMMA OneMore ==
  ASSUME stored \in [Beat -> Line], index \in Word, ~LastWord, index' = index + 1,
         NEW b \in Beat, NEW line \in Line, Through(b, line), WriteWord(b, line)
  PROVE  /\ index' \in Word
         /\ \A w \in Word : w < index' => stored'[b][w] = line[w]
<1>1. index' \in Word
  BY BridgeAssumption DEF Word, LastWord
<1>2. ASSUME NEW w \in Word, w < index' PROVE stored'[b][w] = line[w]
  <2>1. w = index \/ w < index
    BY <1>2 DEF Word
  <2> QED
    BY <2>1, OneWord DEF Through
<1> QED
  BY <1>1, <1>2
-------------------------------------------------------------------------------
LEMMA InitInv == BridgeInit => BridgeInv
<1> SUFFICES ASSUME BridgeInit PROVE BridgeInv
  OBVIOUS
<1>1. 0 \in Beat /\ 0 \in Word /\ \A u \in 0..MaxLen : 0 \in 0..u
  BY BridgeAssumption DEF Beat, Word
<1>2. BridgeTypes
  BY <1>1 DEF BridgeInit, BridgeTypes
<1> QED
  BY <1>2 DEF BridgeInit, BridgeInv, FlushInv, XferInv, ReadInv

\* Every transfer keeps the invariant.
LEMMA NextInv == BridgeInv /\ [BridgeNext]_bridgeVars => BridgeInv'
<1> SUFFICES ASSUME BridgeInv, [BridgeNext]_bridgeVars PROVE BridgeInv'
  OBVIOUS
<1> USE DEF BridgeInv, BridgeTypes, FlushInv, XferInv, ReadInv, Through, bufferRegs
<1>0. 0 \in Word /\ (\A w \in Word : ~(w < 0)) /\ 0 \in 0..len /\ NextBeat \in Beat
  BY BridgeAssumption, NextBeatType DEF Word
<1>1. CASE AcceptWrite
  BY <1>0, <1>1 DEF AcceptWrite
<1>2. CASE AcceptRead
  <2>1. len' \in 0..MaxLen /\ beatCnt' \in 0..len'
    BY <1>2 DEF AcceptRead
  <2>2. CASE FlushBeforeRead
    BY <1>0, <1>2, <2>1, <2>2 DEF AcceptRead, Flush, FlushBeforeRead
  <2>3. CASE ~FlushBeforeRead
    BY <1>2, <2>1, <2>3 DEF AcceptRead, FlushBeforeRead
  <2> QED
    BY <2>2, <2>3
<1>3. CASE TakeFull
  BY <1>0, <1>3 DEF TakeFull, Flush, Superseded
<1>4. CASE MasterPartial
  <2>1. PICK s \in SUBSET Word, d \in Line : TakePartial(s, d)
    BY <1>4 DEF MasterPartial
  <2>2. Masked(s, d, cbuf) \in Line /\ Masked(s, d, Zeros) \in Line
    BY MaskedType
  <2> QED
    <3>1. CASE chas /\ cbaddr = wordAddr
      BY <2>1, <2>2, <3>1 DEF TakePartial
    <3>2. CASE ~chas
      BY <2>1, <2>2, <3>2 DEF TakePartial, LoadBuffer
    <3>3. CASE chas /\ cbaddr # wordAddr
      BY <1>0, <2>1, <3>3 DEF TakePartial, Flush
    <3> QED
      BY <3>1, <3>2, <3>3
<1>5. CASE FlushWord
  <2>1. stored' \in [Beat -> Line]
    BY <1>5, OneWord DEF FlushWord
  <2>2. CASE LastWord
    <3>1. Masked(wstrb, wbeat, Zeros) \in Line
      BY MaskedType
    <3>2. CASE afterFlush = "LOAD"
      BY <1>5, <2>1, <2>2, <3>1, <3>2 DEF FlushWord, LoadBuffer
    <3>3. CASE afterFlush = "FULL"
      BY <1>0, <1>5, <2>1, <2>2, <3>3 DEF FlushWord
    <3>4. CASE afterFlush = "READ"
      BY <1>5, <2>1, <2>2, <3>4 DEF FlushWord
    <3> QED
      BY <1>5, <3>2, <3>3, <3>4 DEF FlushWord
  <2>3. CASE ~LastWord
    <3>1. index' \in Word /\ \A w \in Word : w < index' => stored'[cbaddr][w] = cbuf[w]
      BY <1>5, <2>3, OneMore DEF FlushWord
    <3> QED
      BY <1>5, <2>1, <2>3, <3>1 DEF FlushWord
  <2> QED
    BY <2>2, <2>3
<1>6. CASE XferWord
  <2>1. stored' \in [Beat -> Line]
    BY <1>6, OneWord DEF XferWord
  <2>2. CASE LastWord
    BY <1>0, <1>6, <2>1, <2>2 DEF XferWord
  <2>3. CASE ~LastWord
    <3>1. index' \in Word /\ \A w \in Word : w < index' => stored'[wordAddr][w] = wbeat[w]
      BY <1>6, <2>3, OneMore DEF XferWord
    <3> QED
      BY <1>6, <2>1, <2>3, <3>1 DEF XferWord
  <2> QED
    BY <2>2, <2>3
<1>7. CASE WriteResp
  BY <1>7 DEF WriteResp
<1>8. CASE ReadCommand
  BY <1>0, <1>8 DEF ReadCommand
<1>9. CASE ReadWord
  <2>1. rbeat' \in Line
    BY <1>9 DEF ReadWord, Line
  <2>2. CASE LastWord
    BY <1>9, <2>1, <2>2 DEF ReadWord
  <2>3. CASE ~LastWord
    <3>1. index' \in Word
      BY <1>9, <2>3, BridgeAssumption DEF ReadWord, LastWord, Word
    <3>2. ASSUME NEW w \in Word, w < index' PROVE rbeat'[w] = stored[wordAddr][w]
      <4>1. w = index \/ w < index
        BY <1>9, <2>3, <3>2 DEF ReadWord, Word
      <4> QED
        BY <1>9, <2>3, <4>1 DEF ReadWord, Line
    <3> QED
      BY <1>9, <2>1, <2>3, <3>1, <3>2 DEF ReadWord
  <2> QED
    BY <2>2, <2>3
<1>10. CASE ReadResp
  BY <1>0, <1>10 DEF ReadResp
<1>11. CASE UNCHANGED bridgeVars
  BY <1>11 DEF bridgeVars
<1> QED
  BY <1>1, <1>2, <1>3, <1>4, <1>5, <1>6, <1>7, <1>8, <1>9, <1>10, <1>11 DEF BridgeNext
-------------------------------------------------------------------------------
\* The rest of a burst seen by the bridge is that of the memory.
LEMMA RestOfBurst ==
  ASSUME BridgeInv, NEW op \in {"read", "write"}
  PROVE  /\ Burst(op, wordAddr, beatCnt) = [op |-> op, beat |-> wordAddr, left |-> len - beatCnt]
         /\ Burst(op, wordAddr, beatCnt) # None
         /\ Memory!Rest(Burst(op, wordAddr, beatCnt)) = Burst(op, NextBeat, beatCnt + 1)
         /\ beatCnt = len => Burst(op, NextBeat, beatCnt + 1) = None
         /\ beatCnt # len => beatCnt + 1 \in 0..len
<1>1. beatCnt \in 0..len /\ len \in 0..MaxLen /\ wordAddr \in Beat
  BY DEF BridgeInv, BridgeTypes
<1>2. /\ ~(beatCnt > len) /\ len - beatCnt \in 0..MaxLen
      /\ (beatCnt + 1 > len) <=> (len - beatCnt = 0)
      /\ len - (beatCnt + 1) = (len - beatCnt) - 1
      /\ beatCnt = len => beatCnt + 1 > len
      /\ beatCnt # len => beatCnt + 1 \in 0..len
  BY <1>1, BridgeAssumption
<1>3. Burst(op, wordAddr, beatCnt) = [op |-> op, beat |-> wordAddr, left |-> len - beatCnt]
  BY <1>2 DEF Burst
<1>4. Burst(op, wordAddr, beatCnt) # None
  BY <1>1, <1>2, <1>3, BridgeAssumption
<1>5. Memory!Rest(Burst(op, wordAddr, beatCnt)) = Burst(op, NextBeat, beatCnt + 1)
  BY <1>2, <1>3 DEF Memory!Rest, Burst, NextBeat
<1> QED
  BY <1>2, <1>3, <1>4, <1>5 DEF Burst

\* A transfer that moves only words on their way is invisible to the masters.
LEMMA Invisible ==
  ASSUME Held' = Held, Serving' = Serving, Collecting' = Collecting, Answering' = Answering
  PROVE  UNCHANGED Memory!memoryVars
BY DEF Memory!memoryVars

LEMMA InitMemory == BridgeInit => Memory!Init
<1> SUFFICES ASSUME BridgeInit PROVE Memory!Init
  OBVIOUS
<1>1. Held = [b \in Beat |-> stored[b]]
  BY DEF BridgeInit, Held
<1>2. Held \in [Memory!Beat -> Memory!Line]
  BY <1>1 DEF BridgeInit, Memory!Beat, Memory!Line, Beat, Line
<1> QED
  BY <1>2 DEF BridgeInit, Memory!Init, Serving, Collecting, Answering

\* Every transfer is a step of the memory or invisible.
LEMMA NextMemory ==
  BridgeInv /\ BridgeInv' /\ [BridgeNext]_bridgeVars => [Memory!Next]_Memory!memoryVars
<1> SUFFICES ASSUME BridgeInv, BridgeInv', [BridgeNext]_bridgeVars
             PROVE  Memory!Next \/ UNCHANGED Memory!memoryVars
  OBVIOUS
<1> USE DEF bufferRegs
<1>0. BridgeTypes /\ FlushInv /\ XferInv /\ ReadInv
  BY DEF BridgeInv
<1>a. Memory!Beat = Beat /\ Memory!Line = Line
  BY DEF Memory!Beat, Memory!Line, Beat, Line
<1>1. CASE AcceptWrite
  <2>1. Held' = Held /\ Collecting' = Collecting /\ Answering = None /\ Answering' = None
    BY <1>1 DEF AcceptWrite, Held, Collecting, Answering
  <2>2. Serving = None /\ Serving' = [op |-> "write", beat |-> wordAddr', left |-> len']
    <3>1. ~(0 > len') /\ len' - 0 = len'
      BY <1>1, BridgeAssumption DEF AcceptWrite
    <3> QED
      BY <1>1, <3>1 DEF AcceptWrite, Serving, Burst
  <2> QED
    BY <1>1, <1>a, <2>1, <2>2 DEF AcceptWrite, Memory!Next, Memory!BeginWrite
<1>2. CASE AcceptRead
  <2>1. Held' = Held /\ Collecting' = None /\ Answering = None /\ Answering' = None
    BY <1>2 DEF AcceptRead, FlushBeforeRead, Flush, Held, Collecting, Answering
  <2>2. Serving = None /\ Serving' = [op |-> "read", beat |-> wordAddr', left |-> len']
    <3>1. ~(0 > len') /\ len' - 0 = len'
      BY <1>2, BridgeAssumption DEF AcceptRead
    <3> QED
      BY <1>2, <3>1 DEF AcceptRead, FlushBeforeRead, Flush, Serving, Burst
  <2> QED
    BY <1>2, <1>a, <2>1, <2>2 DEF AcceptRead, Memory!Next, Memory!BeginRead
<1>3. CASE TakeFull
  <2>1. Held' = [Held EXCEPT ![wordAddr] = wbeat']
    <3>1. CASE chas /\ cbaddr # wordAddr
      BY <1>0, <1>3, <3>1 DEF TakeFull, Flush, Held, BridgeTypes
    <3>2. CASE ~(chas /\ cbaddr # wordAddr)
      BY <1>0, <1>3, <3>2 DEF TakeFull, Superseded, Held, BridgeTypes
    <3> QED
      BY <3>1, <3>2
  <2>2. Serving = Burst("write", wordAddr, beatCnt) /\ Serving' = Burst("write", NextBeat, beatCnt + 1)
    BY <1>3 DEF TakeFull, Flush, Serving, Burst, NextBeat
  <2>3. Collecting' = None /\ Answering = None /\ Answering' = None
    BY <1>3 DEF TakeFull, Flush, Superseded, Collecting, Answering
  <2>4. /\ Serving # None /\ Serving.op = "write" /\ Serving.beat = wordAddr
        /\ Serving' = Memory!Rest(Serving)
    BY <1>0, <2>2, RestOfBurst
  <2>5. wbeat' \in Memory!Line
    BY <1>3, <1>a DEF TakeFull
  <2>6. \E d \in Memory!Line : Held' = [Held EXCEPT ![Serving.beat] = d]
    <3>1. Held' = [Held EXCEPT ![Serving.beat] = wbeat']
      BY <2>1, <2>4
    <3> QED
      BY <2>5, <3>1
  <2>7. Memory!WriteFull
    BY <2>3, <2>4, <2>6 DEF Memory!WriteFull
  <2> QED
    BY <2>7 DEF Memory!Next
<1>4. CASE MasterPartial
  <2>1. PICK s \in SUBSET Word, d \in Line : TakePartial(s, d)
    BY <1>4 DEF MasterPartial
  <2>2. len = 0 /\ beatCnt = len
    BY <1>0, <1>4 DEF MasterPartial, BridgeTypes
  <2>3. Held' = [Held EXCEPT ![wordAddr] =
          Masked(s, d, IF Collecting = wordAddr THEN Held[wordAddr] ELSE Zeros)]
    <3>1. CASE chas /\ cbaddr = wordAddr
      BY <1>0, <2>1, <3>1 DEF TakePartial, Held, Collecting, BridgeTypes
    <3>2. CASE ~chas
      BY <1>0, <2>1, <3>2, BridgeAssumption DEF TakePartial, LoadBuffer, Held, Collecting, BridgeTypes
    <3>3. CASE chas /\ cbaddr # wordAddr
      BY <1>0, <2>1, <3>3 DEF TakePartial, Flush, Held, Collecting, BridgeTypes
    <3> QED
      BY <3>1, <3>2, <3>3
  <2>4. Masked(s, d, IF Collecting = wordAddr THEN Held[wordAddr] ELSE Zeros)
          = [w \in Word |-> IF w \in s THEN d[w]
                            ELSE IF Collecting = wordAddr THEN Held[wordAddr][w] ELSE Zero]
    BY DEF Masked, Zeros
  <2>5. Serving = Burst("write", wordAddr, beatCnt) /\ Serving' = None
    BY <2>1 DEF TakePartial, LoadBuffer, Flush, Serving
  <2>6. Collecting' = wordAddr /\ Answering = None /\ Answering' = None
    BY <2>1 DEF TakePartial, LoadBuffer, Flush, Collecting, Answering
  <2>7. Serving # None /\ Serving.op = "write" /\ Serving.left = 0 /\ Serving.beat = wordAddr
    BY <1>0, <2>2, <2>5, RestOfBurst DEF BridgeTypes
  <2>8. Held' = [Held EXCEPT ![Serving.beat] =
          [w \in Word |-> IF w \in s THEN d[w]
                          ELSE IF Collecting = Serving.beat THEN Held[Serving.beat][w] ELSE Zero]]
    BY <2>3, <2>4, <2>7
  <2>9. \E t \in SUBSET Word, e \in Memory!Line :
          Held' = [Held EXCEPT ![Serving.beat] =
            [w \in Word |-> IF w \in t THEN e[w]
                            ELSE IF Collecting = Serving.beat THEN Held[Serving.beat][w] ELSE Zero]]
    BY <1>a, <2>8
  <2>10. Memory!WritePartial
    BY <2>5, <2>6, <2>7, <2>9 DEF Memory!WritePartial
  <2> QED
    BY <2>10 DEF Memory!Next
<1>5. CASE FlushWord
  <2>1. /\ \A b \in Beat : b # cbaddr => stored'[b] = stored[b]
        /\ LastWord => stored'[cbaddr] = cbuf
    BY <1>0, <1>5, OneWord, WholeBeat DEF FlushWord, BridgeTypes, FlushInv
  <2>2. Answering' = Answering
    BY <1>5 DEF FlushWord, LoadBuffer, Answering
  <2>3. CASE ~LastWord
    <3>1. Held' = Held
      BY <1>0, <1>5, <2>1, <2>3 DEF FlushWord, FlushInv, Held
    <3>2. Serving' = Serving /\ Collecting' = Collecting
      BY <1>5, <2>3 DEF FlushWord, Serving, Collecting, Burst, NextBeat
    <3> QED
      BY <2>2, <3>1, <3>2, Invisible
  <2>4. CASE LastWord /\ afterFlush = "LOAD"
    <3>1. Held' = Held
      BY <1>0, <1>5, <2>1, <2>4 DEF FlushWord, LoadBuffer, FlushInv, Held
    <3>2. Serving' = Serving /\ Collecting' = Collecting
      BY <1>5, <2>4 DEF FlushWord, LoadBuffer, Serving, Collecting
    <3> QED
      BY <2>2, <3>1, <3>2, Invisible
  <2>5. CASE LastWord /\ afterFlush = "FULL"
    <3>1. Held' = Held
      BY <1>0, <1>5, <2>1, <2>5 DEF FlushWord, FlushInv, Held
    <3>2. Serving' = Serving /\ Collecting' = Collecting
      BY <1>5, <2>5 DEF FlushWord, Serving, Collecting, Burst, NextBeat
    <3> QED
      BY <2>2, <3>1, <3>2, Invisible
  <2>6. CASE LastWord /\ afterFlush = "READ"
    <3>1. Held' = Held
      BY <1>0, <1>5, <2>1, <2>6 DEF FlushWord, FlushInv, Held
    <3>2. Serving' = Serving /\ Collecting' = Collecting
      BY <1>5, <2>6 DEF FlushWord, Serving, Collecting, Burst
    <3> QED
      BY <2>2, <3>1, <3>2, Invisible
  <2> QED
    BY <1>5, <2>3, <2>4, <2>5, <2>6 DEF FlushWord
<1>6. CASE XferWord
  <2>1. /\ \A b \in Beat : b # wordAddr => stored'[b] = stored[b]
        /\ LastWord => stored'[wordAddr] = wbeat
    BY <1>0, <1>6, OneWord, WholeBeat DEF XferWord, BridgeTypes, XferInv
  <2>2. Answering' = Answering /\ Collecting' = Collecting
    BY <1>6 DEF XferWord, Answering, Collecting
  <2>3. CASE ~LastWord
    <3>1. Held' = Held
      BY <1>0, <1>6, <2>1, <2>3 DEF XferWord, XferInv, Held
    <3>2. Serving' = Serving
      BY <1>6, <2>3 DEF XferWord, Serving, Burst, NextBeat
    <3> QED
      BY <2>2, <3>1, <3>2, Invisible
  <2>4. CASE LastWord
    <3>1. Held' = Held
      BY <1>0, <1>6, <2>1, <2>4 DEF XferWord, XferInv, Held
    <3>2. Serving = Burst("write", NextBeat, beatCnt + 1)
      BY <1>6 DEF XferWord, Serving
    <3>3. Serving' = Serving
      <4>1. CASE beatCnt = len
        BY <1>6, <2>4, <3>2, <4>1, RestOfBurst DEF XferWord, Serving
      <4>2. CASE beatCnt # len
        BY <1>6, <2>4, <3>2, <4>2 DEF XferWord, Serving, Burst
      <4> QED
        BY <4>1, <4>2
    <3> QED
      BY <2>2, <3>1, <3>3, Invisible
  <2> QED
    BY <2>3, <2>4
<1>7. CASE WriteResp
  <2>1. Held' = Held /\ Serving' = Serving /\ Collecting' = Collecting /\ Answering' = Answering
    BY <1>7 DEF WriteResp, Held, Serving, Collecting, Answering
  <2> QED
    BY <2>1, Invisible
<1>8. CASE ReadCommand
  <2>1. Held' = Held /\ Serving' = Serving /\ Collecting' = Collecting /\ Answering' = Answering
    BY <1>8 DEF ReadCommand, Held, Serving, Collecting, Answering, Burst
  <2> QED
    BY <2>1, Invisible
<1>9. CASE ReadWord
  <2>1. Held' = Held /\ Collecting = None /\ Collecting' = None
    BY <1>0, <1>9 DEF ReadWord, ReadInv, Held, Collecting
  <2>2. CASE ~LastWord
    <3>1. Serving' = Serving /\ Answering' = Answering
      BY <1>9, <2>2 DEF ReadWord, Serving, Answering, Burst
    <3> QED
      BY <2>1, <3>1, Invisible
  <2>3. CASE LastWord
    <3>1. rbeat' = stored[wordAddr]
      <4>1. ASSUME NEW w \in Word PROVE rbeat'[w] = stored[wordAddr][w]
        <5>1. w = index \/ w < index
          BY <1>0, <2>3, BridgeAssumption DEF BridgeTypes, LastWord, Word
        <5> QED
          BY <1>0, <1>9, <5>1 DEF ReadWord, ReadInv, Through, BridgeTypes, Line
      <4>2. rbeat' \in Line /\ stored[wordAddr] \in Line
        BY <1>0, <1>9 DEF ReadWord, BridgeTypes, Line
      <4> QED
        BY <4>1, <4>2 DEF Line
    <3>2. Held[wordAddr] = stored[wordAddr]
      BY <1>0, <1>9 DEF ReadWord, ReadInv, BridgeTypes, Held
    <3>3. Answering = None /\ Answering' = Held[wordAddr]
      BY <1>9, <2>3, <3>1, <3>2 DEF ReadWord, Answering
    <3>4. Serving = Burst("read", wordAddr, beatCnt) /\ Serving' = Burst("read", NextBeat, beatCnt + 1)
      BY <1>9, <2>3 DEF ReadWord, Serving, Burst, NextBeat
    <3>5. Memory!Answer
      BY <2>1, <3>3, <3>4, RestOfBurst DEF Memory!Answer
    <3> QED
      BY <3>5 DEF Memory!Next
  <2> QED
    BY <2>2, <2>3
<1>10. CASE ReadResp
  <2>1. Held' = Held /\ Collecting' = Collecting
    BY <1>0, <1>10 DEF ReadResp, ReadInv, Held, Collecting
  <2>2. Answering # None /\ Answering' = None
    BY <1>0, <1>10, BridgeAssumption DEF ReadResp, Answering, BridgeTypes
  <2>3. Serving = Burst("read", NextBeat, beatCnt + 1)
    BY <1>10 DEF ReadResp, Serving
  <2>4. Serving' = Serving
    <3>1. CASE beatCnt = len
      BY <1>10, <2>3, <3>1, RestOfBurst DEF ReadResp, Serving
    <3>2. CASE beatCnt # len
      BY <1>10, <2>3, <3>2 DEF ReadResp, Serving, Burst
    <3> QED
      BY <3>1, <3>2
  <2>5. Memory!Answered
    BY <2>1, <2>2, <2>4 DEF Memory!Answered
  <2> QED
    BY <2>5 DEF Memory!Next
<1>11. CASE UNCHANGED bridgeVars
  <2>1. Held' = Held /\ Serving' = Serving /\ Collecting' = Collecting /\ Answering' = Answering
    BY <1>11 DEF bridgeVars, Held, Serving, Collecting, Answering, Burst, NextBeat, Masked
  <2> QED
    BY <2>1, Invisible
<1> QED
  BY <1>1, <1>2, <1>3, <1>4, <1>5, <1>6, <1>7, <1>8, <1>9, <1>10, <1>11 DEF BridgeNext

\* Read-your-writes, for every window, width of a beat and burst length: what the
\* masters see of axi4_hbmc_bridge is a memory whose writes take effect at once.
THEOREM ReadYourWrites == BridgeSpec => ImplementsMemory
<1>1. BridgeSpec => []BridgeInv
  BY InitInv, NextInv, PTL DEF BridgeSpec
<1> QED
  BY <1>1, InitMemory, NextMemory, PTL DEF BridgeSpec, ImplementsMemory, Memory!Spec

-------------------------------------------------------------------------------
(* The tiny benchmark: runs, one after the other, on one device.            *)

Tensors == Nat \X Nat
Writes == {"reset", "write", "ingress", "egress", "configure", "startTimer", "go", "stopTimer"}
Job(T) == [job : T, configured : BOOLEAN]
Piece(T) == [job : T, in : Tensors]
Result == [out : Tensors, cycles : Nat, whole : BOOLEAN, missing : SUBSET Writes]
ScoreEntry == [record : Nat, out : Tensors]

\* The host's places: before the write that starts the job of an inference,
\* after it, and after the completion was seen.
Preparing == {"write", "startTimer", "go"}
             \cup (IF Streaming THEN {"ingress", "egress"} ELSE {"baseline", "configure"})
Waiting == {"poll", "health", "deadline"}
           \cup (IF Streaming THEN {"baseline"} ELSE {})
Done == {"stopTimer", "readTimer", "read"}
Reporting == {"summary", "latency", "accuracy"}

TypeInv ==
  /\ path \in {"hyperram", "ddrfree"}
  /\ pc \in {"closed"} \cup Preparing \cup Waiting \cup Done \cup Reporting
  /\ run \in 0 .. MaxRuns /\ n \in Nat /\ cycles \in Nat
  /\ baseline \in 0 .. CountMod - 1 /\ count \in 0 .. CountMod - 1
  /\ queue \in Seq(Job(Tensors))
  /\ work \in Piece(Tensors) \cup {Idle}
  /\ configured \in BOOLEAN /\ finished \in BOOLEAN
  /\ input \in Tensors /\ output \in Tensors
  /\ timer.count \in Nat /\ timer = [on |-> timer.on, count |-> timer.count]
  /\ elapsed \in Nat /\ ran \in Nat
  /\ missing \subseteq Writes

\* The inferences before the present one, over all runs.
Earlier == {t \in Tensors : t[1] < run \/ (t[1] = run /\ t[2] < n)}

\* Whose jobs are in the device: those of earlier inferences, and the present
\* one's once it was started.
AgeInv ==
  /\ pc \in Preparing => /\ queue \in Seq(Job(Earlier))
                         /\ work \in Piece(Earlier) \cup {Idle}
                         /\ finished = FALSE
  /\ queue \in Seq(Job(Earlier \cup {Tensor}))
  /\ work \in Piece(Earlier \cup {Tensor}) \cup {Idle}

\* The jobs in the device.
Jobs == Len(queue) + (IF work = Idle THEN 0 ELSE 1)

\* A run may leave one job behind it.  The completions since the baseline are d of
\* those and the present one's.
CountInv ==
  /\ pc = "closed" => Jobs <= run
  /\ pc \in Preparing \cup Done \cup Reporting => Jobs <= run - 1
  /\ pc \in {"configure", "startTimer", "go"} =>
       \E d \in Nat : count = (baseline + d) % CountMod /\ Jobs <= run - 1 - d
  /\ pc \in {"poll", "health", "deadline"} =>
       \E d \in Nat : /\ count = (baseline + d) % CountMod /\ Jobs <= run - d
                      /\ finished = TRUE => d >= 1

\* A host that has not seen the count move has not missed a completion.
SeenInv ==
  /\ pc # "closed" => failure = "none"
  /\ pc \in {"health", "deadline"} /\ ~Streaming => ~seen
  /\ HyperramCompletionSeen

\* At most one job is in the device, the present inference's, and the completion
\* count says whether it is complete.
OneJob ==
  /\ pc \in Preparing => queue = <<>> /\ work = Idle /\ finished = FALSE /\ ran = 0
  /\ pc \in Waiting =>
       \/ finished = TRUE /\ queue = <<>> /\ work = Idle
       \/ /\ finished = FALSE /\ Len(queue) <= 1 /\ (work # Idle => queue = <<>>)
          /\ \A k \in DOMAIN queue : queue[k].job = Tensor
          /\ work # Idle => work.job = Tensor
  /\ pc \in Done => finished = TRUE /\ queue = <<>> /\ work = Idle
  /\ pc \in {"configure", "startTimer", "go"} /\ ~Streaming => count = baseline
  /\ pc \in {"poll", "health", "deadline"} =>
       /\ finished = FALSE => count = baseline
       /\ finished = TRUE => \/ count = (baseline + 1) % CountMod
                             \/ Streaming /\ count = baseline

\* That is so in a run whose reset was not missed.
JobInv == "reset" \notin missing => OneJob

\* The job works on the input of its inference, and what is finished is its
\* output.
OwnTensor ==
  /\ pc \in (Preparing \ {"write"}) \cup Waiting /\ "write" \notin missing => input = Tensor
  /\ "configure" \notin missing =>
       /\ pc \in {"startTimer", "go"} \cup Waiting /\ ~Streaming => configured = TRUE
       /\ pc \in Waiting => \A k \in DOMAIN queue : queue[k].configured = TRUE
  /\ missing \cap {"write", "configure"} = {} =>
       /\ pc \in Waiting /\ work # Idle => work.in = Tensor
       /\ pc \in Waiting \cup Done /\ finished = TRUE => output = Tensor

TensorInv == "reset" \notin missing => OwnTensor

\* The timer runs from before the job to after it, and within the inference.
OwnTime ==
  /\ pc \in {"go", "stopTimer"} \cup Waiting => timer.on
  /\ pc \in {"go", "stopTimer", "readTimer"} \cup Waiting => timer.count <= elapsed
  /\ pc \in {"stopTimer", "readTimer"} \cup Waiting => ran <= timer.count
  /\ pc = "read" => cycles \in ran .. elapsed

TimeInv == missing \cap {"reset", "startTimer"} = {} => OwnTime

\* What has been kept of the run so far.
KeptInv ==
  /\ pc \in Preparing \cup Waiting \cup Done => n < Warmups + Planned
  /\ pc \in Reporting => n = Warmups + Planned
  /\ results \in Seq(Result)
  /\ Len(results) = IF n <= Warmups THEN 0 ELSE n - Warmups
  /\ \A k \in DOMAIN results :
       /\ results[k].missing \cap {"reset", "write", "configure"} = {} =>
            results[k].out = <<run, Warmups + k - 1>>
       /\ results[k].missing \cap {"reset", "startTimer"} = {} => results[k].whole = TRUE
  /\ pc \in {"latency", "accuracy"} => \A k \in DOMAIN results : results[k].cycles > 0
  /\ files \in [{"latency", "accuracy"} -> Seq(Result) \cup Seq(ScoreEntry)]
  /\ pc # "closed" => files["accuracy"] = <<>>
  /\ ResultsAreOwn
-------------------------------------------------------------------------------
\* A count that moved d on, less than a lap, reads d further, whether it wrapped
\* or not.
LEMMA CountFacts ==
  ASSUME NEW c \in 0 .. CountMod - 1, NEW d \in Nat, d < CountMod
  PROVE  /\ (c + d) % CountMod \in 0 .. CountMod - 1
         /\ (((c + d) % CountMod) - c) % CountMod = d
         /\ (((c + d) % CountMod) + 1) % CountMod = (c + (d + 1)) % CountMod
<1>1. CountMod \in Nat /\ CountMod > 1
  BY TinyAssumption DEF TinyAssumption
<1>2. (c + d) % CountMod \in 0 .. CountMod - 1
  BY <1>1
<1>3. CASE c + d < CountMod
  <2>1. (c + d) % CountMod = c + d
    BY <1>1, <1>3
  <2>2. QED
    BY <1>1, <1>2, <2>1
<1>4. CASE c + d >= CountMod
  <2>1. (c + d) % CountMod = c + d - CountMod
    BY <1>1, <1>4
  <2>2. (d - CountMod) % CountMod = d
    BY <1>1
  <2>3. c + (d + 1) - CountMod \in 0 .. CountMod - 1
    BY <1>1, <1>4
  <2>4. (c + (d + 1)) % CountMod = c + (d + 1) - CountMod
    BY <1>1, <2>3
  <2>5. (c + (d + 1) - CountMod) % CountMod = c + (d + 1) - CountMod
    BY <1>1, <2>3
  <2>6. (((c + d) % CountMod) + 1) % CountMod = (c + (d + 1)) % CountMod
    BY <1>1, <2>1, <2>4, <2>5
  <2>7. QED
    BY <1>1, <1>2, <2>1, <2>2, <2>6
<1>5. QED
  BY <1>1, <1>3, <1>4

\* A member of a set of jobs is one of a larger set.
LEMMA MoreJobs ==
  ASSUME NEW S, NEW T, S \subseteq T
  PROVE  /\ Seq(Job(S)) \subseteq Seq(Job(T))
         /\ Piece(S) \subseteq Piece(T)
<1>1. Job(S) \subseteq Job(T) /\ Piece(S) \subseteq Piece(T)
  BY DEF Job, Piece
<1>2. QED
  BY <1>1

\* The queue of one job.
LEMMA OnlyJob ==
  ASSUME NEW S, NEW q \in Seq(S), q # <<>>, Len(q) <= 1
  PROVE  Tail(q) = <<>> /\ Head(q) = q[1] /\ 1 \in DOMAIN q
OBVIOUS

\* The reset is missed by a whole run.
LEMMA ResetKept ==
  ASSUME [Next]_vars, ~Open PROVE "reset" \in missing' <=> "reset" \in missing
<1>1. missing' \in {missing, missing \cup {"write"}, missing \cup {"configure"},
                    missing \cup {"startTimer"}, missing \cap {"reset"}}
  BY Zenon
  DEF Next, Host, WriteInput, QueueIngress, QueueEgress, ReadBaseline, Configure, StartTimer,
      Go, PollCount, CheckHealth, CheckDeadline, StopTimer, ReadTimer, ReadOutput, Summarize,
      ReportLatency, ReportAccuracy, Report, Abort, Load, Finish, Tick, Missed, vars, lossVars
<1>2. QED
  BY <1>1

\* The initial values are of their types.
LEMMA InitType == Init => TypeInv
<1> SUFFICES ASSUME Init PROVE TypeInv
  OBVIOUS
<1>1. path \in {"hyperram", "ddrfree"} /\ 0 \in 0 .. CountMod - 1 /\ 0 \in 0 .. MaxRuns
  BY TinyAssumption DEF TinyAssumption, Init
<1>2. queue \in Seq(Job(Tensors)) /\ work = Idle /\ missing \subseteq Writes
  BY DEF Init
<1>3. input \in Tensors /\ output \in Tensors
  BY DEF Init, Garbage, Tensors
<1>4. QED
  BY <1>1, <1>2, <1>3 DEF Init, TypeInv

\* Every step keeps the types.
LEMMA NextType == ASSUME TypeInv, [Next]_vars PROVE TypeInv'
<1> USE DEF TypeInv, Preparing, Waiting, Done, Reporting, Streaming
<1> USE DEF hostVars, jobVars, feedVars, clocks, Then, Goto, Fail
<1>15. missing' \subseteq Writes
  <2>1. missing' \in {{}, {"reset"}, missing, missing \cup {"write"},
                      missing \cup {"configure"}, missing \cup {"startTimer"},
                      missing \cap {"reset"}}
    BY Zenon
    DEF Next, Host, Open, Reset, ResetLost, WriteInput, QueueIngress, QueueEgress, ReadBaseline,
        Configure, StartTimer, Go, PollCount, CheckHealth, CheckDeadline, StopTimer, ReadTimer,
        ReadOutput, Summarize, ReportLatency, ReportAccuracy, Report, Abort, Load, Finish, Tick,
        Missed, vars, lossVars
  <2>2. QED
    BY <2>1 DEF Writes
<1>1. CASE Open
  <2>1. 0 \in 0 .. CountMod - 1
    BY TinyAssumption, SMTT(30) DEF TinyAssumption
  <2>2. run' = run + 1 /\ run < MaxRuns
    BY <1>1 DEF Open
  <2>3. run' \in 0 .. MaxRuns
    BY <2>2, TinyAssumption, SMTT(30) DEF TinyAssumption
  <2>4. /\ queue' \in {<<>>, queue} /\ work' \in {Idle, work} /\ count' \in {0, count}
    BY <1>1, Zenon DEF Open, Reset, ResetLost, AfterReset, Idle
  <2>5. queue' \in Seq(Job(Tensors))
    <3>1. <<>> \in Seq(Job(Tensors))
      OBVIOUS
    <3>2. QED
      BY <2>4, <3>1, Zenon
  <2>6. /\ pc' = "write" /\ configured' = FALSE /\ finished' = FALSE /\ n' = 0 /\ cycles' = 0
        /\ baseline' = 0 /\ elapsed' = 0 /\ ran' = 0 /\ UNCHANGED <<path, output, input, timer>>
    BY <1>1 DEF Open, NextInference
  <2>7. QED
    BY <1>15, <2>1, <2>3, <2>4, <2>5, <2>6
<1>2. CASE WriteInput
  <2>1. Tensor \in Tensors
    BY DEF Tensor, Tensors
  <2>2. QED
    BY <1>15, <1>2, <2>1, SMTT(30) DEF WriteInput
<1>3. CASE QueueIngress \/ QueueEgress
  BY <1>15, <1>3 DEF QueueIngress, QueueEgress
<1>13. CASE ReadBaseline \/ Configure
  BY <1>15, <1>13 DEF ReadBaseline, Configure
<1>4. CASE StartTimer \/ StopTimer
  BY <1>15, <1>4 DEF StartTimer, StopTimer, Started
<1>5. CASE Go
  <2> DEFINE j == [job |-> Tensor, configured |-> Streaming \/ configured]
  <2>1. queue' \in {queue, Append(queue, j)}
    BY <1>5, Zenon DEF Go
  <2>2. j \in Job(Tensors)
    <3>1. Tensor \in Tensors
      BY DEF Tensor, Tensors
    <3>2. (Streaming \/ configured) \in BOOLEAN
      BY Zenon
    <3>3. QED
      BY <3>1, <3>2 DEF Job
  <2> HIDE DEF j
  <2>3. queue' \in Seq(Job(Tensors))
    BY <2>1, <2>2, SMTT(30)
  <2>4. QED
    BY <1>15, <1>5, <2>3 DEF Go
<1>6. CASE PollCount \/ CheckHealth \/ CheckDeadline \/ Abort \/ Summarize
  BY <1>15, <1>6 DEF PollCount, CheckHealth, CheckDeadline, Abort, Summarize
<1>7. CASE ReadTimer \/ ReportLatency \/ ReportAccuracy
  BY <1>15, <1>7 DEF ReadTimer, ReportLatency, ReportAccuracy, Report
<1>14. CASE ReadOutput
  <2>1. 0 \in 0 .. CountMod - 1
    BY TinyAssumption, SMTT(30) DEF TinyAssumption
  <2>2. /\ pc' \in {"summary", "write"} /\ n' \in Nat /\ cycles' = 0 /\ baseline' = 0
        /\ elapsed' = 0 /\ ran' = 0 /\ finished' = FALSE
        /\ UNCHANGED <<path, run, timer, queue, work, count, output, input>>
    BY <1>14 DEF ReadOutput, NextInference
  <2>3. configured' \in BOOLEAN
    BY <1>14, Zenon DEF ReadOutput, feedVars
  <2>4. QED
    BY <1>15, <2>1, <2>2, <2>3
<1>8. CASE Load
  <2>1. queue # <<>> /\ queue' = Tail(queue) /\ queue \in Seq(Job(Tensors))
    BY <1>8, Zenon DEF Load
  <2>2. Head(queue) \in Job(Tensors) /\ queue' \in Seq(Job(Tensors))
    BY <2>1, HeadTailProperties, Zenon
  <2>3. work' \in Piece(Tensors)
    <3>1. (IF Head(queue).configured THEN input ELSE Garbage) \in Tensors
      BY DEF Garbage, Tensors
    <3>2. Head(queue).job \in Tensors
      BY <2>2 DEF Job
    <3>3. QED
      BY <1>8, <3>1, <3>2 DEF Load, Piece
  <2>4. UNCHANGED <<pc, path, run, n, cycles, baseline, count, configured, finished,
                    input, output, timer, elapsed, ran, missing>>
    BY <1>8, Zenon DEF Load, lossVars
  <2>5. QED
    BY <1>15, <2>2, <2>3, <2>4
<1>9. CASE Finish
  <2>1. (count + 1) % CountMod \in 0 .. CountMod - 1
    <3>1. CountMod \in Nat /\ CountMod > 1
      BY TinyAssumption DEF TinyAssumption
    <3>2. QED
      BY <3>1, CountFacts
  <2>2. output' \in Tensors
    BY <1>9 DEF Finish, Piece
  <2>3. finished' \in BOOLEAN
    BY <1>15, <1>9, Zenon DEF Finish
  <2>4. QED
    BY <1>15, <1>9, <2>1, <2>2, <2>3 DEF Finish, Idle
<1>10. CASE Tick
  BY <1>15, <1>10, SMTT(30) DEF Tick
<1>11. CASE UNCHANGED vars
  BY <1>15, <1>11 DEF vars
<1>12. QED
  BY <1>1, <1>2, <1>3, <1>4, <1>5, <1>6, <1>7, <1>8, <1>9, <1>10, <1>11, <1>13, <1>14
  DEF Next, Host

\* A device that was never opened has no job.
LEMMA InitAge == Init => AgeInv
<1> SUFFICES ASSUME Init PROVE AgeInv
  OBVIOUS
<1>1. queue = <<>> /\ work = Idle /\ pc = "closed"
  BY DEF Init
<1>2. QED
  BY <1>1 DEF AgeInv, Preparing

\* The jobs in the device are no younger than the present inference, and before
\* it is started older, after every step.
LEMMA NextAge == ASSUME TypeInv, AgeInv, [Next]_vars PROVE AgeInv'
<1> DEFINE all == Earlier \cup {Tensor}
<1>13. run \in Nat /\ n \in Nat
  BY TinyAssumption DEF TypeInv, TinyAssumption
<1>1. /\ Earlier \subseteq all /\ all \subseteq Tensors
      /\ Tensor \in Tensors /\ run \in Nat /\ n \in Nat
  BY <1>13 DEF Earlier, Tensor, Tensors
<1>2. queue \in Seq(Job(all)) /\ work \in Piece(all) \cup {Idle}
  BY DEF AgeInv
<1>3. ASSUME all \subseteq Earlier', finished' = FALSE,
             queue' \in {<<>>, queue}, work' \in {Idle, work}
      PROVE  AgeInv'
  <2> HIDE DEF all
  <2>1. Earlier' \subseteq (Earlier \cup {Tensor})'
    OBVIOUS
  <2>2. queue' \in Seq(Job(all)) /\ work' \in Piece(all) \cup {Idle}
    <3>1. <<>> \in Seq(Job(all))
      OBVIOUS
    <3>2. QED
      BY <1>2, <1>3, <3>1, Zenon
  <2>3. queue' \in Seq(Job(Earlier')) /\ work' \in Piece(Earlier') \cup {Idle}
    BY <1>3, <2>2, MoreJobs, Zenon
  <2>4. /\ queue' \in Seq(Job((Earlier \cup {Tensor})'))
        /\ work' \in Piece((Earlier \cup {Tensor})') \cup {Idle}
    BY <2>1, <2>3, MoreJobs, Zenon
  <2>5. QED
    BY <1>3, <2>3, <2>4 DEF AgeInv, Idle
<1>4. CASE Open
  <2>1. all \subseteq Earlier'
    <3>1. run' = run + 1 /\ n' = 0
      BY <1>4 DEF Open
    <3>2. \A t \in all : t \in Tensors /\ t[1] <= run
      BY <1>1 DEF Earlier, Tensor, Tensors
    <3>3. \A t \in all : t[1] < run'
      BY <1>1, <3>1, <3>2 DEF Tensors
    <3>4. QED
      BY <3>2, <3>3 DEF Earlier
  <2>2. queue' \in {<<>>, queue} /\ work' \in {Idle, work} /\ finished' = FALSE
    BY <1>4, Zenon DEF Open, Reset, ResetLost, AfterReset, NextInference, Idle
  <2>3. QED
    BY <1>3, <2>1, <2>2
<1>5. CASE ReadOutput
  <2>1. all \subseteq Earlier'
    <3>1. run' = run /\ n' = n + 1
      BY <1>5 DEF ReadOutput
    <3>2. \A t \in all : t \in Tensors /\ (t[1] < run \/ (t[1] = run /\ t[2] <= n))
      BY <1>1 DEF Earlier, Tensor, Tensors
    <3>3. \A t \in all : t[1] < run' \/ (t[1] = run' /\ t[2] < n')
      BY <1>1, <3>1, <3>2 DEF Tensors
    <3>4. QED
      BY <3>2, <3>3 DEF Earlier
  <2>2. queue' = queue /\ work' = work /\ finished' = FALSE
    BY <1>5 DEF ReadOutput, NextInference
  <2>3. QED
    BY <1>3, <2>1, <2>2
<1>6. ASSUME UNCHANGED <<path, run, n>>,
             queue' \in Seq(Job(all)), work' \in Piece(all) \cup {Idle},
             \/ pc' \notin Preparing
             \/ pc \in Preparing /\ queue' \in Seq(Job(Earlier)) /\ work' \in Piece(Earlier) \cup {Idle}
                /\ finished' = FALSE
      PROVE  AgeInv'
  <2>1. Earlier' = Earlier /\ Tensor' = Tensor /\ Preparing' = Preparing
    BY <1>6 DEF Earlier, Tensor, Preparing, Streaming
  <2>2. QED
    BY <1>6, <2>1 DEF AgeInv, Idle
<1>7. CASE Load
  <2>1. queue # <<>> /\ queue' = Tail(queue)
    BY <1>7 DEF Load
  <2>2. \A S : queue \in Seq(Job(S)) => Head(queue) \in Job(S) /\ queue' \in Seq(Job(S))
    BY <2>1, HeadTailProperties, Zenon
  <2>3. \A S : queue \in Seq(Job(S)) => work' \in Piece(S)
    <3>1. (IF Head(queue).configured THEN input ELSE Garbage) \in Tensors
      BY DEF Garbage, Tensors, TypeInv
    <3>2. work' = [job |-> Head(queue).job,
                   in |-> IF Head(queue).configured THEN input ELSE Garbage]
      BY <1>7 DEF Load
    <3>3. ASSUME NEW S, queue \in Seq(Job(S)) PROVE work' \in Piece(S)
      <4>1. Head(queue).job \in S
        BY <2>2, <3>3 DEF Job
      <4>2. QED
        BY <3>1, <3>2, <4>1 DEF Piece
    <3>4. QED
      BY <3>3
  <2>4. UNCHANGED <<path, run, n, pc, finished>>
    BY <1>7 DEF Load, hostVars
  <2>5. pc' \in Preparing => pc \in Preparing
    BY <2>4
  <2>6. pc \in Preparing => queue \in Seq(Job(Earlier)) /\ finished = FALSE
    BY DEF AgeInv
  <2> HIDE DEF all
  <2>7. QED
    BY <1>2, <1>6, <2>2, <2>3, <2>4, <2>5, <2>6
<1>8. CASE Finish
  <2>1. work # Idle /\ work' = Idle /\ queue' = queue /\ finished' = (finished \/ work.job = Tensor)
    BY <1>8 DEF Finish
  <2>2. UNCHANGED <<path, run, n, pc>>
    BY <1>8 DEF Finish, hostVars
  <2>3. pc \in Preparing => work.job # Tensor
    <3>1. pc \in Preparing => work \in Piece(Earlier)
      BY <2>1 DEF AgeInv
    <3>2. Tensor \notin Earlier
      BY <1>1 DEF Earlier, Tensor
    <3>3. QED
      BY <3>1, <3>2 DEF Piece
  <2>4. pc \in Preparing => finished' = FALSE
    BY <2>1, <2>3 DEF AgeInv
  <2>5. pc' \in Preparing => pc \in Preparing /\ queue' \in Seq(Job(Earlier))
    BY <2>1, <2>2 DEF AgeInv
  <2> HIDE DEF all
  <2>6. QED
    BY <1>2, <1>6, <2>1, <2>2, <2>4, <2>5
<1>9. CASE Go
  <2> DEFINE j == [job |-> Tensor, configured |-> Streaming \/ configured]
  <2>1. queue' \in {queue, Append(queue, j)} /\ work' = work
    BY <1>9, Zenon DEF Go
  <2>2. j \in Job(all)
    <3>1. (Streaming \/ configured) \in BOOLEAN
      BY Zenon DEF TypeInv
    <3>2. QED
      BY <3>1 DEF Job
  <2> HIDE DEF j, all
  <2>3. queue' \in Seq(Job(all))
    BY <1>2, <2>1, <2>2
  <2>4. UNCHANGED <<path, run, n>> /\ pc' \notin Preparing
    BY <1>9 DEF Go, Then, Goto, Preparing, Streaming
  <2>5. QED
    BY <1>2, <1>6, <2>1, <2>3, <2>4
<1>10. CASE UNCHANGED <<path, run, n, queue, work, finished>> /\ (pc' \in Preparing => pc \in Preparing)
  <2> HIDE DEF all
  <2>1. pc \in Preparing => queue \in Seq(Job(Earlier)) /\ work \in Piece(Earlier) \cup {Idle}
                            /\ finished = FALSE
    BY DEF AgeInv
  <2>2. QED
    BY <1>2, <1>6, <1>10, <2>1
<1>14. CASE QueueIngress \/ QueueEgress \/ Configure
  <2>1. pc \in Preparing
    BY <1>14 DEF QueueIngress, QueueEgress, Configure, TypeInv, Preparing, Waiting, Done, Reporting
  <2>2. UNCHANGED <<path, run, n, queue, work, finished>>
    BY <1>14 DEF QueueIngress, QueueEgress, Configure, Then, Fail, jobVars
  <2>3. QED
    BY <1>10, <2>1, <2>2
<1>11. CASE WriteInput \/ ReadBaseline \/ StartTimer
            \/ PollCount \/ CheckHealth \/ CheckDeadline \/ StopTimer \/ ReadTimer
            \/ Summarize \/ ReportLatency \/ ReportAccuracy \/ Abort \/ Tick \/ UNCHANGED vars
  <2>1. UNCHANGED <<path, run, n, queue, work, finished>> /\ (pc' \in Preparing => pc \in Preparing)
    BY <1>11
    DEF WriteInput, ReadBaseline, StartTimer, PollCount, CheckHealth, CheckDeadline, StopTimer, ReadTimer,
        Summarize, ReportLatency, ReportAccuracy, Report, Abort, Tick, Then, Goto, Fail,
        vars, hostVars, jobVars, feedVars, clocks, Preparing, Streaming
  <2>2. QED
    BY <1>10, <2>1
<1>12. QED
  BY <1>4, <1>5, <1>7, <1>8, <1>9, <1>11, <1>14 DEF Next, Host

\* A device that was never opened has no job.
LEMMA InitCount == Init => CountInv
<1> SUFFICES ASSUME Init PROVE CountInv
  OBVIOUS
<1>1. queue = <<>> /\ work = Idle /\ pc = "closed" /\ run = 0
  BY DEF Init
<1>2. QED
  BY <1>1 DEF CountInv, Jobs, Preparing, Done, Reporting

\* The jobs in the device, whichever step is taken.
LEMMA JobsFacts ==
  ASSUME TypeInv, [Next]_vars
  PROVE  /\ Jobs' \in Nat /\ run' \in Nat
         /\ Jobs \in Nat /\ run \in 0 .. MaxRuns
         /\ Load => Jobs' <= Jobs
         /\ Finish => Jobs' = Jobs - 1
         /\ Go => Jobs' <= Jobs + 1
         /\ Open => Jobs' <= Jobs
         /\ UNCHANGED <<queue, work>> => Jobs' = Jobs
<1>1. queue \in Seq(Job(Tensors)) /\ Len(queue) \in Nat /\ run \in 0 .. MaxRuns
  BY DEF TypeInv
<1>2. Load => Jobs' <= Jobs
  <2> SUFFICES ASSUME Load PROVE Jobs' <= Jobs
    OBVIOUS
  <2>1. queue # <<>> /\ work = Idle /\ queue' = Tail(queue)
    BY DEF Load
  <2>2. Len(queue') = Len(queue) - 1
    BY <1>1, <2>1
  <2>3. QED
    BY <1>1, <2>1, <2>2 DEF Jobs
<1>3. Finish => Jobs' = Jobs - 1
  BY <1>1 DEF Finish, Jobs, Idle
<1>4. Go => Jobs' <= Jobs + 1
  <2> SUFFICES ASSUME Go PROVE Jobs' <= Jobs + 1
    OBVIOUS
  <2> DEFINE j == [job |-> Tensor, configured |-> Streaming \/ configured]
  <2>1. queue' \in {queue, Append(queue, j)} /\ work' = work
    BY Zenon DEF Go
  <2> HIDE DEF j
  <2>2. Len(queue') <= Len(queue) + 1
    BY <1>1, <2>1
  <2>3. Len(queue') \in Nat
    BY <1>1, <2>1
  <2>4. QED
    BY <1>1, <2>1, <2>2, <2>3 DEF Jobs, Idle
<1>5. Open => Jobs' <= Jobs
  <2> SUFFICES ASSUME Open PROVE Jobs' <= Jobs
    OBVIOUS
  <2>1. (queue' = <<>> /\ work' = Idle) \/ (queue' = queue /\ work' = work)
    BY DEF Open, Reset, ResetLost, AfterReset, Idle
  <2>2. QED
    BY <1>1, <2>1 DEF Jobs, Idle
<1>6. UNCHANGED <<queue, work>> => Jobs' = Jobs
  BY DEF Jobs, Idle
<1>7. Jobs \in Nat
  BY <1>1 DEF Jobs
<1>9. Jobs' \in Nat /\ run' \in Nat
  <2>1. queue' \in Seq(Job(Tensors)) /\ run' \in 0 .. MaxRuns
    BY NextType DEF TypeInv
  <2>2. Len(queue') \in Nat
    BY <2>1
  <2>3. QED
    BY <2>1, <2>2, TinyAssumption DEF Jobs, TinyAssumption
<1>8. QED
  BY <1>9, <1>1, <1>2, <1>3, <1>4, <1>5, <1>6, <1>7

\* A run leaves at most one job behind, after every step.
LEMMA NextCount ==
  ASSUME MaxRuns < CountMod, ~Streaming, TypeInv, AgeInv, CountInv, [Next]_vars
  PROVE  CountInv'
<1> USE DEF Preparing, Waiting, Done, Reporting, Streaming
<1>1. /\ Jobs \in Nat /\ run \in 0 .. MaxRuns /\ run \in Nat /\ Jobs' \in Nat /\ run' \in Nat
      /\ CountMod \in Nat /\ CountMod > 1 /\ MaxRuns \in Nat
  BY JobsFacts, TinyAssumption DEF TinyAssumption
<1>2. baseline \in 0 .. CountMod - 1 /\ count \in 0 .. CountMod - 1
  BY DEF TypeInv
<1>3. CASE Open
  <2>1. pc = "closed" /\ pc' = "write" /\ run' = run + 1 /\ Jobs' <= Jobs
    BY <1>3, JobsFacts DEF Open, Goto
  <2>2. QED
    BY <1>1, <2>1 DEF CountInv
<1>4. CASE ReadBaseline
  <2>1. pc = "baseline" /\ pc' = "configure" /\ baseline' = count /\ UNCHANGED <<run, count>>
    BY <1>4 DEF ReadBaseline, Goto, jobVars
  <2>2. UNCHANGED <<queue, work>>
    BY <1>4 DEF ReadBaseline, jobVars
  <2>3. Jobs' = Jobs
    BY <2>2, JobsFacts
  <2>4. count' = (baseline' + 0) % CountMod
    BY <1>1, <1>2, <2>1
  <2>5. Jobs' <= run' - 1 - 0 /\ Jobs' <= run' - 1
    BY <1>1, <2>1, <2>3 DEF CountInv
  <2>6. \E d \in Nat : count' = (baseline' + d) % CountMod /\ Jobs' <= run' - 1 - d
    BY <2>4, <2>5
  <2>7. QED
    BY <2>1, <2>5, <2>6 DEF CountInv
<1>5. CASE Go
  <2>1. pc = "go" /\ pc' = "poll" /\ UNCHANGED <<run, count, baseline, finished>>
    BY <1>5 DEF Go, Then, Goto
  <2>2. finished' = FALSE
    BY <2>1 DEF AgeInv
  <2>3. PICK d \in Nat : count = (baseline + d) % CountMod /\ Jobs <= run - 1 - d
    BY <2>1 DEF CountInv
  <2>4. Jobs' <= Jobs + 1
    BY <1>5, JobsFacts
  <2>7. count' = (baseline' + d) % CountMod
    BY <2>1, <2>3
  <2>5. Jobs' <= run' - d
    <3>1. Jobs <= run - 1 - d /\ run' = run
      BY <2>1, <2>3
    <3>2. QED
      BY <1>1, <2>4, <3>1
  <2>6. QED
    BY <2>1, <2>2, <2>5, <2>7 DEF CountInv
<1>6. CASE PollCount
  <2>1. /\ pc = "poll" /\ pc' = (IF Advanced THEN "stopTimer" ELSE "health")
        /\ UNCHANGED <<run, count, baseline, finished, queue, work>>
    BY <1>6 DEF PollCount, Goto, jobVars
  <2>2. PICK d \in Nat : /\ count = (baseline + d) % CountMod /\ Jobs <= run - d
                         /\ finished = TRUE => d >= 1
    BY <2>1 DEF CountInv
  <2>3. Jobs' = Jobs
    BY <2>1, JobsFacts
  <2>4. CASE Advanced
    <3>1. d >= 1
      <4>1. d = 0 => count = baseline
        BY <1>1, <1>2, <2>2
      <4>2. count # baseline
        BY <1>1, <1>2, <2>4 DEF Advanced
      <4>3. QED
        BY <4>1, <4>2
    <3>2. Jobs' <= run' - 1
      BY <1>1, <2>1, <2>2, <2>3, <3>1
    <3>3. QED
      BY <2>1, <2>4, <3>2 DEF CountInv
  <2>5. CASE ~Advanced
    <3>1. count' = (baseline' + d) % CountMod /\ Jobs' <= run' - d /\ (finished' = TRUE => d >= 1)
      BY <2>1, <2>2, <2>3
    <3>2. QED
      BY <2>1, <2>5, <3>1 DEF CountInv
  <2>6. QED
    BY <2>4, <2>5
<1>7. CASE Finish
  <2>1. UNCHANGED <<pc, run, baseline, path>> /\ count' = (count + 1) % CountMod
    BY <1>7 DEF Finish, hostVars
  <2>2. Jobs' = Jobs - 1
    BY <1>7, JobsFacts
  <2>3. ASSUME NEW d \in Nat, count = (baseline + d) % CountMod, Jobs <= run - d
        PROVE  count' = (baseline' + (d + 1)) % CountMod /\ Jobs' <= run' - (d + 1)
               /\ (Jobs <= run - 1 - d => Jobs' <= run' - 1 - (d + 1))
    <3>1. d < CountMod
      BY <1>1, <2>3
    <3>2. count' = (baseline + (d + 1)) % CountMod
      BY <1>2, <2>1, <2>3, <3>1, CountFacts
    <3>3. QED
      BY <1>1, <2>1, <2>2, <2>3, <3>2
  <2>4. pc \in {"configure", "startTimer", "go"} =>
          \E d \in Nat : count' = (baseline' + d) % CountMod /\ Jobs' <= run' - 1 - d
    <3> SUFFICES ASSUME pc \in {"configure", "startTimer", "go"}
                 PROVE  \E d \in Nat : count' = (baseline' + d) % CountMod /\ Jobs' <= run' - 1 - d
      OBVIOUS
    <3>1. PICK d \in Nat : count = (baseline + d) % CountMod /\ Jobs <= run - 1 - d
      BY DEF CountInv
    <3>2. Jobs <= run - d /\ d + 1 \in Nat
      BY <1>1, <3>1
    <3>3. count' = (baseline' + (d + 1)) % CountMod /\ Jobs' <= run' - 1 - (d + 1)
      BY <2>3, <3>1, <3>2
    <3>4. QED
      BY <3>2, <3>3
  <2>5. pc \in {"poll", "health", "deadline"} =>
          \E d \in Nat : /\ count' = (baseline' + d) % CountMod /\ Jobs' <= run' - d
                         /\ finished' = TRUE => d >= 1
    <3> SUFFICES ASSUME pc \in {"poll", "health", "deadline"}
                 PROVE  \E d \in Nat : /\ count' = (baseline' + d) % CountMod /\ Jobs' <= run' - d
                                       /\ finished' = TRUE => d >= 1
      OBVIOUS
    <3>1. PICK d \in Nat : count = (baseline + d) % CountMod /\ Jobs <= run - d
      BY DEF CountInv
    <3>2. count' = (baseline' + (d + 1)) % CountMod /\ Jobs' <= run' - (d + 1)
      BY <2>3, <3>1
    <3>3. d + 1 \in Nat /\ d + 1 >= 1
      OBVIOUS
    <3>4. QED
      BY <3>2, <3>3
  <2>6. QED
    BY <1>1, <2>1, <2>2, <2>4, <2>5 DEF CountInv
<1>8. CASE Load
  <2>1. UNCHANGED <<pc, run, baseline, count, finished, path>>
    BY <1>8 DEF Load, hostVars
  <2>2. Jobs' <= Jobs
    BY <1>8, JobsFacts
  <2>3. \A d \in Nat : /\ Jobs <= run - 1 - d => Jobs' <= run' - 1 - d
                       /\ Jobs <= run - d => Jobs' <= run' - d
    BY <1>1, <2>1, <2>2
  <2>4. /\ pc = "closed" => Jobs' <= run
        /\ pc \in Preparing \cup Done \cup Reporting => Jobs' <= run - 1
    BY <1>1, <2>2 DEF CountInv
  <2>5. pc \in {"configure", "startTimer", "go"} =>
          \E d \in Nat : count = (baseline + d) % CountMod /\ Jobs' <= run' - 1 - d
    BY <2>3, Zenon DEF CountInv
  <2>6. pc \in {"poll", "health", "deadline"} =>
          \E d \in Nat : /\ count = (baseline + d) % CountMod /\ Jobs' <= run' - d
                         /\ finished = TRUE => d >= 1
    BY <2>3, Zenon DEF CountInv
  <2>7. QED
    BY <2>1, <2>4, <2>5, <2>6 DEF CountInv
<1>9. ASSUME UNCHANGED <<path, run, baseline, count, queue, work, finished>>,
             \/ pc' = pc
             \/ pc' = "closed"
             \/ pc \in Preparing /\ pc' \in Preparing \ {"configure", "startTimer", "go"}
             \/ pc \in {"configure", "startTimer"} /\ pc' \in {"startTimer", "go"}
             \/ pc \in {"health", "deadline"} /\ pc' \in {"poll", "deadline"}
             \/ pc \in Done \cup Reporting /\ pc' \in Done \cup Reporting
      PROVE  CountInv'
  <2>1. Jobs' = Jobs
    BY <1>9, JobsFacts
  <2>2. /\ pc = "closed" => Jobs <= run
        /\ pc \in Preparing \cup Done \cup Reporting => Jobs <= run - 1
        /\ pc \in {"poll", "health", "deadline"} => Jobs <= run
    BY <1>1 DEF CountInv
  <2>3. pc' = "closed" => Jobs <= run
    BY <1>1, <1>9, <2>2 DEF TypeInv
  <2>4. QED
    BY <1>9, <2>1, <2>2, <2>3 DEF CountInv
<1>10. CASE WriteInput \/ Configure \/ StartTimer \/ CheckHealth \/ CheckDeadline \/ StopTimer
            \/ ReadTimer \/ Summarize \/ ReportLatency \/ ReportAccuracy \/ Abort \/ Tick
            \/ UNCHANGED vars
  <2>1. UNCHANGED <<path, run, baseline, count, queue, work, finished>>
    BY <1>10
    DEF WriteInput, Configure, StartTimer, CheckHealth, CheckDeadline, StopTimer,
        ReadTimer, Summarize, ReportLatency, ReportAccuracy, Report, Abort, Tick, Then, Fail,
        vars, hostVars, jobVars
  <2>2. \/ pc' = pc
        \/ pc' = "closed"
        \/ pc \in Preparing /\ pc' \in Preparing \ {"configure", "startTimer", "go"}
        \/ pc \in {"configure", "startTimer"} /\ pc' \in {"startTimer", "go"}
        \/ pc \in {"health", "deadline"} /\ pc' \in {"poll", "deadline"}
        \/ pc \in Done \cup Reporting /\ pc' \in Done \cup Reporting
    BY <1>10
    DEF WriteInput, Configure, StartTimer, CheckHealth, CheckDeadline, StopTimer,
        ReadTimer, Summarize, ReportLatency, ReportAccuracy, Report, Abort, Tick, Then, Fail, Goto,
        vars, hostVars
  <2>3. QED
    BY <1>9, <2>1, <2>2
<1>11. QueueIngress \/ QueueEgress => FALSE
  BY DEF QueueIngress, QueueEgress, TypeInv
<1>12. CASE ReadOutput
  <2>1. /\ pc = "read" /\ pc' \in {"summary", "write"} /\ UNCHANGED <<run, queue, work, path>>
    BY <1>12 DEF ReadOutput, Goto
  <2>2. Jobs' = Jobs
    BY <2>1, JobsFacts
  <2>3. QED
    BY <1>1, <2>1, <2>2 DEF CountInv
<1>13. QED
  BY <1>3, <1>4, <1>5, <1>6, <1>7, <1>8, <1>10, <1>11, <1>12 DEF Next, Host

\* A completion is never missed by the host that reads its baseline first.
LEMMA InitSeen == Init => SeenInv
BY DEF Init, SeenInv, HyperramCompletionSeen, NoCompletionLost

\* Every step keeps it so.
LEMMA NextSeen ==
  ASSUME MaxRuns < CountMod, TypeInv, ~Streaming => CountInv, SeenInv, [Next]_vars
  PROVE  SeenInv'
<1> USE DEF SeenInv, HyperramCompletionSeen, NoCompletionLost, Streaming
<1> USE DEF hostVars, jobVars, feedVars, clocks, Then, Goto, Fail
<1>1. CASE Open
  BY <1>1 DEF Open, NextInference
<1>2. CASE WriteInput \/ QueueIngress \/ QueueEgress \/ Configure \/ ReadBaseline
  BY <1>2 DEF WriteInput, QueueIngress, QueueEgress, Configure, ReadBaseline
<1>3. CASE StartTimer \/ StopTimer \/ Go
  BY <1>3 DEF StartTimer, StopTimer, Go
<1>4. CASE PollCount
  <2>1. pc = "poll" /\ seen' = finished /\ UNCHANGED <<path, failure>>
    BY <1>4 DEF PollCount
  <2>2. pc' = IF Advanced THEN "stopTimer" ELSE "health"
    BY <1>4 DEF PollCount
  <2>3. ~Streaming /\ finished = TRUE => Advanced
    <3> SUFFICES ASSUME ~Streaming, finished = TRUE PROVE Advanced
      OBVIOUS
    <3>1. PICK d \in Nat : count = (baseline + d) % CountMod /\ Jobs <= run - d /\ d >= 1
      BY <2>1 DEF CountInv
    <3>2. d < CountMod
      <4>1. Jobs \in Nat /\ run \in 0 .. MaxRuns /\ MaxRuns \in Nat /\ CountMod \in Nat
        BY JobsFacts, TinyAssumption DEF TinyAssumption
      <4>2. QED
        BY <3>1, <4>1
    <3>3. (count - baseline) % CountMod = d
      BY <3>1, <3>2, CountFacts DEF TypeInv
    <3>4. QED
      BY <3>1, <3>3 DEF Advanced
  <2>4. finished \in BOOLEAN
    BY DEF TypeInv
  <2>5. pc' = "health" /\ ~Streaming => ~seen'
    BY <2>1, <2>2, <2>3, <2>4
  <2>6. pc' # "closed" /\ pc' # "deadline" /\ failure' = "none" /\ (pc' = "health" => ~Advanced)
    BY <2>1, <2>2
  <2>7. QED
    BY <2>1, <2>5, <2>6
<1>5. CASE CheckHealth \/ CheckDeadline \/ Abort \/ Summarize
  <2>1. UNCHANGED <<path, seen>>
    BY <1>5 DEF CheckHealth, CheckDeadline, Abort, Summarize
  <2>2. pc # "closed"
    BY <1>5 DEF CheckHealth, CheckDeadline, Abort, Summarize
  <2>3. \/ failure' = failure /\ (pc' \in {"health", "deadline"} => pc = "health")
        \/ pc' = "closed" /\ (failure' # "timeout" \/ pc = "deadline")
    BY <1>5 DEF CheckHealth, CheckDeadline, Abort, Summarize
  <2>4. QED
    BY <2>1, <2>2, <2>3
<1>6. CASE ReadTimer \/ ReportLatency \/ ReportAccuracy
  BY <1>6 DEF ReadTimer, ReportLatency, ReportAccuracy, Report
<1>12. CASE ReadOutput
  BY <1>12 DEF ReadOutput, NextInference
<1>7. CASE Load
  BY <1>7 DEF Load
<1>8. CASE Finish
  BY <1>8 DEF Finish
<1>9. CASE Tick
  BY <1>9 DEF Tick
<1>10. CASE UNCHANGED vars
  BY <1>10 DEF vars
<1>11. QED
  BY <1>1, <1>2, <1>3, <1>4, <1>5, <1>6, <1>7, <1>8, <1>9, <1>10, <1>12 DEF Next, Host

\* The path is chosen once.
LEMMA SamePath == ASSUME [Next]_vars PROVE Streaming' <=> Streaming
<1>1. path' = path
  BY DEF Next, Host, Open, WriteInput, QueueIngress, QueueEgress, ReadBaseline, Configure,
         StartTimer, Go, PollCount, CheckHealth, CheckDeadline, StopTimer, ReadTimer, ReadOutput,
         Summarize, ReportLatency, ReportAccuracy, Report, Abort, Load, Finish, Tick, Then, Fail,
         vars, hostVars
<1>2. QED
  BY <1>1 DEF Streaming

\* In every run, whatever the device does and whichever writes are lost, the reset
\* among them, a timeout under the hyperram path is raised for a job that was not
\* complete: what earlier runs left in the device cannot bring the count back to
\* the baseline.
THEOREM CompletionSeen == MaxRuns < CountMod /\ Spec => []HyperramCompletionSeen
<1> SUFFICES ASSUME MaxRuns < CountMod PROVE Spec => []HyperramCompletionSeen
  OBVIOUS
<1> DEFINE Inv == TypeInv /\ AgeInv /\ (~Streaming => CountInv) /\ SeenInv
<1>1. Init => Inv
  BY InitType, InitAge, InitCount, InitSeen
<1>2. Inv /\ [Next]_vars => Inv'
  <2> SUFFICES ASSUME Inv, [Next]_vars PROVE Inv'
    OBVIOUS
  <2>1. TypeInv' /\ AgeInv'
    BY NextType, NextAge
  <2>2. ~Streaming' => CountInv'
    BY NextCount, SamePath
  <2>3. SeenInv'
    BY NextSeen
  <2>4. QED
    BY <2>1, <2>2, <2>3
<1>3. Inv => HyperramCompletionSeen
  BY DEF SeenInv
<1>4. QED
  BY <1>1, <1>2, <1>3, PTL DEF Spec

\* A device that was never opened has no job.
LEMMA InitJob == Init => JobInv
BY DEF Init, JobInv, OneJob, Preparing, Waiting, Done

\* At most one job, and the count tells of it, after every step of a run whose
\* reset was not missed.
LEMMA NextJob == ASSUME TypeInv, JobInv, [Next]_vars PROVE JobInv'
<1> SUFFICES ASSUME "reset" \notin missing' PROVE OneJob'
  BY DEF JobInv
<1> USE DEF OneJob, Preparing, Waiting, Done, Streaming
<1> USE DEF hostVars, jobVars, feedVars, clocks, Then, Goto, Fail
<1>1. CASE Open
  <2>1. pc' = "write" /\ finished' = FALSE /\ ran' = 0
    BY <1>1 DEF Open, NextInference
  <2>2. queue' = <<>> /\ work' = Idle
    BY <1>1, Zenon DEF Open, Reset, ResetLost, AfterReset, Idle
  <2>3. QED
    BY <2>1, <2>2 DEF Idle
<1>20. ASSUME ~Open PROVE OneJob
  BY <1>20, ResetKept DEF JobInv
<1>2. CASE ~Open /\ WriteInput
  BY <1>2, <1>20 DEF WriteInput, Idle, Tensor
<1>13. CASE ~Open /\ (QueueIngress \/ QueueEgress)
  <2>1. pc \in {"ingress", "egress"} /\ UNCHANGED <<path, queue, work, finished, ran>>
    BY <1>13 DEF QueueIngress, QueueEgress
  <2>2. pc \in Preparing /\ Streaming
    BY <2>1 DEF TypeInv, Reporting
  <2>3. pc' \in {"closed", "egress", "startTimer"}
    BY <1>13 DEF QueueIngress, QueueEgress
  <2>4. QED
    BY <1>13, <1>20, <2>1, <2>2, <2>3 DEF Idle
<1>14. CASE ~Open /\ Configure
  <2>1. /\ pc = "configure" /\ pc' = "startTimer"
        /\ UNCHANGED <<path, queue, work, finished, ran, count, baseline>>
    BY <1>14 DEF Configure
  <2>2. pc \in Preparing
    BY <2>1 DEF TypeInv, Reporting
  <2>3. QED
    BY <1>14, <1>20, <2>1, <2>2 DEF Idle
<1>15. CASE ~Open /\ StartTimer
  BY <1>15, <1>20 DEF StartTimer, Idle, Tensor
<1>3. CASE ~Open /\ ReadBaseline
  BY <1>3, <1>20 DEF ReadBaseline, TypeInv, Idle, Tensor
<1>4. CASE ~Open /\ Go
  <2> DEFINE j == [job |-> Tensor, configured |-> Streaming \/ configured]
  <2>1. queue' \in {queue, Append(queue, j)}
    BY <1>4, Zenon DEF Go
  <2>2. queue = <<>> /\ work = Idle /\ finished = FALSE
    BY <1>4, <1>20 DEF Go
  <2>3. j.job = Tensor
    OBVIOUS
  <2>4. UNCHANGED <<path, run, n, work, finished, count, baseline>> /\ pc = "go" /\ pc' \in Waiting
    BY <1>4 DEF Go
  <2> HIDE DEF j
  <2>5. Len(queue') <= 1 /\ \A k \in DOMAIN queue' : queue'[k].job = Tensor
    BY <2>1, <2>2, <2>3
  <2>6. ~Streaming => count = baseline
    BY <1>20, <1>4, <2>4
  <2>7. work' = Idle' /\ Tensor' = Tensor
    BY <2>2, <2>4 DEF Idle, Tensor
  <2>8. finished' = FALSE /\ count' = count /\ baseline' = baseline /\ path' = path
    BY <2>2, <2>4
  <2>9. pc' = (IF Streaming THEN "baseline" ELSE "poll")
    BY <1>4 DEF Go
  <2>10. QED
    BY <2>5, <2>6, <2>7, <2>8, <2>9
<1>5. CASE ~Open /\ PollCount
  <2>1. Advanced => finished = TRUE
    <3>1. (count - count) % CountMod = 0
      BY TinyAssumption, SMTT(30) DEF TinyAssumption, TypeInv
    <3>2. Advanced => count # baseline
      BY <3>1 DEF Advanced
    <3>3. finished = FALSE => count = baseline
      BY <1>5, <1>20 DEF PollCount
    <3>4. QED
      BY <3>2, <3>3 DEF TypeInv
  <2>2. /\ pc = "poll" /\ pc' = (IF Advanced THEN "stopTimer" ELSE "health")
        /\ UNCHANGED <<path, run, n, queue, work, count, baseline, finished>>
    BY <1>5 DEF PollCount
  <2>3. QED
    BY <1>5, <1>20, <2>1, <2>2 DEF Idle, Tensor
<1>6. CASE ~Open /\ (CheckHealth \/ CheckDeadline \/ Abort \/ Summarize)
  <2>1. pc' = "closed" \/ (pc \in {"health", "deadline"} /\ pc' \in {"deadline", "poll"})
                         \/ pc' = "latency"
    BY <1>6 DEF CheckHealth, CheckDeadline, Abort, Summarize
  <2>2. UNCHANGED <<path, run, n, queue, work, finished, count, baseline, path>>
    BY <1>6 DEF CheckHealth, CheckDeadline, Abort, Summarize
  <2>3. QED
    BY <1>6, <1>20, <2>1, <2>2 DEF Idle, Tensor
<1>7. CASE ~Open /\ (StopTimer \/ ReadTimer \/ ReportLatency \/ ReportAccuracy)
  BY <1>7, <1>20 DEF StopTimer, ReadTimer, ReportLatency, ReportAccuracy, Report, Idle
<1>16. CASE ~Open /\ ReadOutput
  <2>1. pc = "read" /\ pc' \in {"summary", "write"} /\ finished' = FALSE /\ ran' = 0
        /\ UNCHANGED <<queue, work>>
    BY <1>16 DEF ReadOutput, NextInference
  <2>2. QED
    BY <1>16, <1>20, <2>1 DEF Idle
<1>8. CASE ~Open /\ Load
  <2>1. queue # <<>> /\ work = Idle /\ queue' = Tail(queue) /\ work'.job = Head(queue).job
    BY <1>8 DEF Load
  <2>2. UNCHANGED <<pc, path, run, n, finished, count, baseline>>
    BY <1>8 DEF Load
  <2>3. pc \in Waiting => /\ finished = FALSE /\ queue' = <<>> /\ work'.job = Tensor
    <3> SUFFICES ASSUME pc \in Waiting
                 PROVE  finished = FALSE /\ queue' = <<>> /\ work'.job = Tensor
      OBVIOUS
    <3>1. finished = FALSE /\ Len(queue) <= 1 /\ \A k \in DOMAIN queue : queue[k].job = Tensor
      BY <1>8, <1>20, <2>1
    <3>2. queue \in Seq(Job(Tensors))
      BY DEF TypeInv
    <3>3. Tail(queue) = <<>> /\ Head(queue) = queue[1] /\ 1 \in DOMAIN queue
      BY <2>1, <3>1, <3>2, OnlyJob, Zenon
    <3>4. QED
      BY <2>1, <3>1, <3>3
  <2>4. pc \notin Preparing \cup Done
    BY <1>8, <1>20, <2>1
  <2>5. pc \in {"poll", "health", "deadline"} => count = baseline
    BY <1>8, <1>20, <2>3
  <2>6. Tensor' = Tensor /\ Idle' = Idle
    BY <2>2 DEF Idle, Tensor
  <2>7. QED
    BY <2>2, <2>3, <2>4, <2>5, <2>6
<1>9. CASE ~Open /\ Finish
  <2>1. /\ work # Idle /\ work' = Idle /\ count' = (count + 1) % CountMod
        /\ finished' = (finished \/ work.job = Tensor)
        /\ UNCHANGED <<pc, path, run, n, queue, baseline>>
    BY <1>9 DEF Finish
  <2>2. pc \notin Preparing \cup Done
    BY <1>9, <1>20, <2>1
  <2>3. pc \in Waiting => finished = FALSE /\ queue = <<>> /\ work.job = Tensor
    BY <1>9, <1>20, <2>1
  <2>4. pc \in Waiting => finished' = TRUE
    BY <2>1, <2>3
  <2>5. pc \in {"poll", "health", "deadline"} => count' = (baseline' + 1) % CountMod
    BY <1>9, <1>20, <2>1, <2>3
  <2>6. pc' \notin Preparing' \cup Done' /\ Waiting' = Waiting /\ pc' = pc /\ work' = Idle'
        /\ queue' = queue
    BY <2>1, <2>2 DEF Idle
  <2>7. QED
    BY <2>3, <2>4, <2>5, <2>6 DEF Idle
<1>10. CASE ~Open /\ Tick
  <2>1. UNCHANGED <<pc, path, run, n, queue, work, count, baseline, finished>>
    BY <1>10 DEF Tick
  <2>2. ran' = IF work # Idle /\ work.job = Tensor THEN ran + 1 ELSE ran
    BY <1>10 DEF Tick, Working
  <2>3. QED
    BY <1>10, <1>20, <2>1, <2>2 DEF Idle, Tensor
<1>11. CASE ~Open /\ UNCHANGED vars
  BY <1>11, <1>20 DEF vars, Idle, Tensor
<1>12. QED
  BY <1>1, <1>2, <1>3, <1>4, <1>5, <1>6, <1>7, <1>8, <1>9, <1>10, <1>11,
     <1>13, <1>14, <1>15, <1>16
  DEF Next, Host

\* A device that was never opened works on nothing.
LEMMA InitTensor == Init => TensorInv
BY DEF Init, TensorInv, OwnTensor, Preparing, Waiting, Done

\* The job works on the input of the inference, unless that or the configuration
\* was lost, after every step of a run whose reset was not missed.
LEMMA NextTensor == ASSUME TypeInv, JobInv, TensorInv, [Next]_vars PROVE TensorInv'
<1> SUFFICES ASSUME "reset" \notin missing' PROVE OwnTensor'
  BY DEF TensorInv
<1> USE DEF Preparing, Waiting, Done, Streaming
<1> USE DEF hostVars, jobVars, feedVars, clocks, lossVars, Then, Goto, Fail
<1>1. CASE Open
  BY <1>1 DEF Open, OwnTensor
<1>20. ASSUME ~Open PROVE OneJob /\ OwnTensor
  BY <1>20, ResetKept DEF JobInv, TensorInv
<1>21. \* What the present inference rests on does not change, nor does its job.
       ASSUME ~Open,
              UNCHANGED <<path, run, n, input, output, queue, work, missing>>,
              configured' = configured, finished' = finished,
              \/ pc' = pc
              \/ pc' \notin Preparing \cup Waiting \cup Done
              \/ pc \in Preparing \ {"write"}
                 /\ pc' \in Preparing \ {"write", "startTimer", "go"}
              \/ pc = "startTimer" /\ pc' = "go"
              \/ pc \in Waiting /\ pc' \in Waiting \cup Done
              \/ pc \in Done /\ pc' \in Done
       PROVE  OwnTensor'
  <2>1. Tensor' = Tensor /\ Idle' = Idle
    BY <1>21 DEF Tensor, Idle
  <2>2. OwnTensor
    BY <1>20, <1>21
  <2>3. QED
    BY <1>21, <2>1, <2>2 DEF OwnTensor
<1>2. CASE ~Open /\ WriteInput
  <2>1. /\ pc = "write" /\ pc' \in Preparing \ {"write", "startTimer", "go"}
        /\ input' = Tensor \/ "write" \in missing'
        /\ UNCHANGED <<path, run, n>>
    BY <1>2 DEF WriteInput, Missed
  <2>2. Tensor' = Tensor
    BY <2>1 DEF Tensor
  <2>3. QED
    BY <2>1, <2>2 DEF OwnTensor
<1>3. CASE ~Open /\ (QueueIngress \/ QueueEgress)
  <2>1. /\ pc \in {"ingress", "egress"} /\ pc' \in {"closed", "egress", "startTimer"}
        /\ UNCHANGED <<path, run, n, input, missing>>
    BY <1>3 DEF QueueIngress, QueueEgress
  <2>2. Streaming
    BY <2>1 DEF TypeInv, Reporting
  <2>3. pc \in Preparing \ {"write"} /\ Tensor' = Tensor
    BY <2>1, <2>2 DEF Tensor
  <2>4. "write" \notin missing => input = Tensor
    BY <1>3, <1>20, <2>3 DEF OwnTensor
  <2>5. QED
    BY <2>1, <2>2, <2>3, <2>4 DEF OwnTensor
<1>4. CASE ~Open /\ ReadBaseline
  <2>1. /\ pc = "baseline" /\ pc' = (IF Streaming THEN "poll" ELSE "configure")
        /\ UNCHANGED <<path, run, n, input, output, queue, work, missing>>
    BY <1>4 DEF ReadBaseline
  <2>2. configured' = configured /\ finished' = finished
    BY <1>4, Zenon DEF ReadBaseline
  <2>3. QED
    BY <1>4, <1>21, <2>1, <2>2
<1>5. CASE ~Open /\ Configure
  <2>1. /\ pc = "configure" /\ pc' = "startTimer" /\ UNCHANGED <<path, run, n, input>>
    BY <1>5 DEF Configure
  <2>2. configured' = TRUE \/ "configure" \in missing'
    <3>1. \/ configured' = TRUE
          \/ configured /\ configured' = configured
          \/ missing' = missing \cup {"configure"}
      BY <1>5, Zenon DEF Configure, Missed
    <3>2. configured /\ configured' = configured => configured' = TRUE
      BY Zenon DEF TypeInv
    <3>3. QED
      BY <3>1, <3>2
  <2>3. missing \subseteq missing'
    BY <1>5 DEF Configure, Missed
  <2>4. ~Streaming /\ pc \in Preparing \ {"write"} /\ Tensor' = Tensor
    BY <2>1 DEF TypeInv, Reporting, Tensor
  <2>5. "write" \notin missing => input = Tensor
    BY <1>5, <1>20, <2>4 DEF OwnTensor
  <2>6. QED
    BY <2>1, <2>2, <2>3, <2>4, <2>5 DEF OwnTensor
<1>6. CASE ~Open /\ StartTimer
  <2>1. /\ pc = "startTimer" /\ pc' = "go" /\ UNCHANGED <<path, run, n, input>>
        /\ missing \subseteq missing'
    BY <1>6 DEF StartTimer, Missed
  <2>2. configured' = configured /\ Tensor' = Tensor
    BY <1>6, <2>1, Zenon DEF StartTimer, Tensor
  <2>3. /\ "write" \notin missing => input = Tensor
        /\ "configure" \notin missing /\ ~Streaming => configured = TRUE
    BY <1>6, <1>20, <2>1 DEF OwnTensor
  <2>4. QED
    BY <2>1, <2>2, <2>3 DEF OwnTensor
<1>7. CASE ~Open /\ Go
  <2> DEFINE j == [job |-> Tensor, configured |-> Streaming \/ configured]
  <2>1. queue' \in {queue, Append(queue, j)}
    BY <1>7, Zenon DEF Go
  <2>2. /\ pc = "go" /\ pc' = (IF Streaming THEN "baseline" ELSE "poll")
        /\ UNCHANGED <<path, run, n, input, work, missing>>
    BY <1>7 DEF Go
  <2>3. configured' = configured /\ finished' = finished
    BY <1>7, Zenon DEF Go
  <2>4. queue = <<>> /\ work = Idle /\ finished = FALSE
    BY <1>7, <1>20, <2>2 DEF OneJob
  <2>5. /\ "write" \notin missing => input = Tensor
        /\ "configure" \notin missing /\ ~Streaming => configured = TRUE
    BY <1>7, <1>20, <2>2 DEF OwnTensor
  <2>6. "configure" \notin missing => j.configured = TRUE
    <3>1. "configure" \notin missing => (Streaming \/ configured) = TRUE
      BY <2>5, Zenon
    <3>2. QED
      BY <3>1
  <2> HIDE DEF j
  <2>7. "configure" \notin missing => \A k \in DOMAIN queue' : queue'[k].configured = TRUE
    BY <2>1, <2>4, <2>6
  <2>8. Tensor' = Tensor /\ Idle' = Idle
    BY <2>2 DEF Tensor, Idle
  <2>9. QED
    BY <2>2, <2>3, <2>4, <2>5, <2>7, <2>8 DEF OwnTensor
<1>8. CASE ~Open /\ (PollCount \/ CheckHealth \/ CheckDeadline \/ Abort \/ Summarize \/ StopTimer
                     \/ ReadTimer \/ ReportLatency \/ ReportAccuracy)
  <2>1. \/ pc' \in {"closed", "latency", "accuracy"}
        \/ pc \in {"poll", "health", "deadline"} /\ pc' \in {"poll", "health", "deadline"}
        \/ pc = "poll" /\ pc' = "stopTimer"
        \/ pc \in Done /\ pc' \in Done
    BY <1>8 DEF PollCount, CheckHealth, CheckDeadline, Abort, Summarize, StopTimer, ReadTimer,
                ReportLatency, ReportAccuracy, Report
  <2>2. UNCHANGED <<path, run, n, input, output, queue, work, missing>>
    BY <1>8 DEF PollCount, CheckHealth, CheckDeadline, Abort, Summarize, StopTimer, ReadTimer,
                ReportLatency, ReportAccuracy, Report
  <2>3. configured' = configured /\ finished' = finished
    BY <1>8, Zenon
    DEF PollCount, CheckHealth, CheckDeadline, Abort, Summarize, StopTimer, ReadTimer,
        ReportLatency, ReportAccuracy, Report
  <2>4. QED
    BY <1>8, <1>21, <2>1, <2>2, <2>3
<1>9. CASE ~Open /\ ReadOutput
  <2>1. pc' \in {"summary", "write"} /\ path' = path
    BY <1>9 DEF ReadOutput
  <2>2. QED
    BY <2>1 DEF OwnTensor
<1>10. CASE ~Open /\ Load
  <2>1. /\ queue # <<>> /\ work = Idle /\ queue' = Tail(queue)
        /\ work'.in = IF Head(queue).configured THEN input ELSE Garbage
        /\ UNCHANGED <<pc, path, run, n, input, output, missing>>
    BY <1>10 DEF Load
  <2>2. configured' = configured /\ finished' = finished
    BY <1>10, Zenon DEF Load
  <2>3. pc \notin Preparing \cup Done
    BY <1>10, <1>20, <2>1 DEF OneJob
  <2>4. CASE pc \in Waiting
    <3>1. finished = FALSE /\ Len(queue) <= 1 /\ queue \in Seq(Job(Tensors))
      BY <1>10, <1>20, <2>1, <2>4 DEF OneJob, TypeInv
    <3>2. queue' = <<>> /\ Head(queue) = queue[1] /\ 1 \in DOMAIN queue
      BY <2>1, <3>1, OnlyJob, Zenon
    <3>3. OwnTensor
      BY <1>10, <1>20
    <3>4. "configure" \notin missing => Head(queue).configured = TRUE
      BY <2>4, <3>2, <3>3 DEF OwnTensor
    <3>5. "configure" \notin missing => work'.in = input
      BY <2>1, <3>4, Zenon
    <3>6. Tensor' = Tensor
      BY <2>1 DEF Tensor
    <3>7. QED
      BY <2>1, <2>2, <2>4, <3>1, <3>2, <3>3, <3>5, <3>6 DEF OwnTensor
  <2>5. CASE pc \notin Waiting
    BY <2>1, <2>3, <2>5 DEF OwnTensor
  <2>6. QED
    BY <2>4, <2>5
<1>11. CASE ~Open /\ Finish
  <2>1. /\ work # Idle /\ work' = Idle /\ output' = work.in
        /\ UNCHANGED <<pc, path, run, n, input, queue, missing>>
    BY <1>11 DEF Finish
  <2>2. configured' = configured
    BY <1>11, Zenon DEF Finish
  <2>3. pc \notin Preparing \cup Done
    BY <1>11, <1>20, <2>1 DEF OneJob
  <2>4. Tensor' = Tensor /\ Idle' = Idle
    BY <2>1 DEF Tensor, Idle
  <2>5. OwnTensor
    BY <1>11, <1>20
  <2>6. QED
    BY <2>1, <2>2, <2>3, <2>4, <2>5 DEF OwnTensor
<1>12. CASE ~Open /\ Tick
  <2>1. UNCHANGED <<pc, path, run, n, input, output, queue, work, missing>>
    BY <1>12 DEF Tick
  <2>2. configured' = configured /\ finished' = finished
    BY <1>12, Zenon DEF Tick
  <2>3. QED
    BY <1>12, <1>21, <2>1, <2>2
<1>13. CASE ~Open /\ UNCHANGED vars
  <2>1. UNCHANGED <<pc, path, run, n, input, output, queue, work, missing>>
    BY <1>13 DEF vars
  <2>2. configured' = configured /\ finished' = finished
    BY <1>13, Zenon DEF vars
  <2>3. QED
    BY <1>13, <1>21, <2>1, <2>2
<1>14. QED
  BY <1>1, <1>2, <1>3, <1>4, <1>5, <1>6, <1>7, <1>8, <1>9, <1>10, <1>11, <1>12, <1>13
  DEF Next, Host

\* A timer that was never started has measured nothing.
LEMMA InitTime == Init => TimeInv
BY DEF Init, TimeInv, OwnTime, Preparing, Waiting, Done

\* What is missing of an inference stays so until its output is read.
LEMMA MissingKept ==
  ASSUME [Next]_vars, ~Open, ~ReadOutput PROVE missing \subseteq missing'
<1>1. missing' \in {missing, missing \cup {"write"}, missing \cup {"configure"},
                    missing \cup {"startTimer"}}
  BY Zenon
  DEF Next, Host, WriteInput, QueueIngress, QueueEgress, ReadBaseline, Configure, StartTimer,
      Go, PollCount, CheckHealth, CheckDeadline, StopTimer, ReadTimer, Summarize,
      ReportLatency, ReportAccuracy, Report, Abort, Load, Finish, Tick, Missed, vars, lossVars
<1>2. QED
  BY <1>1

\* A host that loses no start of the timer measures all of its job and nothing
\* else, also when the stop is lost, in a run whose reset was not missed.
LEMMA NextTime == ASSUME TypeInv, JobInv, TimeInv, [Next]_vars PROVE TimeInv'
<1> SUFFICES ASSUME missing' \cap {"reset", "startTimer"} = {} PROVE OwnTime'
  BY DEF TimeInv
<1> USE DEF Waiting, Streaming
<1> USE DEF hostVars, jobVars, feedVars, clocks, Then, Goto, Fail
<1>1. CASE Open
  BY <1>1 DEF Open, OwnTime
<1>2. CASE ReadOutput
  BY <1>2 DEF ReadOutput, OwnTime
<1>20. ASSUME ~Open, ~ReadOutput PROVE OneJob /\ OwnTime
  BY <1>20, MissingKept DEF JobInv, TimeInv
<1>3. CASE ~Open /\ ~ReadOutput /\ (WriteInput \/ Configure \/ QueueIngress \/ QueueEgress)
  BY <1>3 DEF WriteInput, Configure, QueueIngress, QueueEgress, OwnTime
<1>4. CASE ~Open /\ ~ReadOutput /\ ReadBaseline
  <2>1. /\ pc = "baseline" /\ pc' = (IF Streaming THEN "poll" ELSE "configure")
        /\ UNCHANGED <<path, timer, elapsed, ran>>
    BY <1>4 DEF ReadBaseline
  <2>2. QED
    BY <1>4, <1>20, <2>1 DEF OwnTime
<1>5. CASE ~Open /\ ~ReadOutput /\ StartTimer
  <2>1. timer' = [on |-> TRUE, count |-> 0] /\ pc' = "go" /\ UNCHANGED <<path, elapsed>>
    BY <1>5 DEF StartTimer, Started, Missed
  <2>2. QED
    BY <2>1 DEF OwnTime, TypeInv
<1>6. CASE ~Open /\ ~ReadOutput /\ StopTimer
  <2>1. /\ pc = "stopTimer" /\ pc' = "readTimer" /\ timer'.count = timer.count
        /\ UNCHANGED <<path, elapsed, ran>>
    BY <1>6 DEF StopTimer, TypeInv
  <2>2. QED
    BY <1>6, <1>20, <2>1 DEF OwnTime
<1>7. CASE ~Open /\ ~ReadOutput /\ Go
  <2>1. pc = "go" /\ pc' \in Waiting /\ UNCHANGED <<path, timer, elapsed, ran>>
    BY <1>7 DEF Go
  <2>2. ran = 0
    BY <1>7, <1>20, <2>1 DEF OneJob, Preparing
  <2>3. QED
    BY <1>7, <1>20, <2>1, <2>2 DEF OwnTime, TypeInv
<1>8. CASE ~Open /\ ~ReadOutput
           /\ (PollCount \/ CheckHealth \/ CheckDeadline \/ Abort \/ Summarize)
  <2>1. \/ pc' \in {"closed", "latency"}
        \/ pc \in {"poll", "health", "deadline"} /\ pc' \in {"poll", "health", "deadline"}
        \/ pc = "poll" /\ pc' = "stopTimer"
    BY <1>8 DEF PollCount, CheckHealth, CheckDeadline, Abort, Summarize
  <2>2. UNCHANGED <<path, timer, elapsed, ran>>
    BY <1>8 DEF PollCount, CheckHealth, CheckDeadline, Abort, Summarize
  <2>3. QED
    BY <1>8, <1>20, <2>1, <2>2 DEF OwnTime
<1>9. CASE ~Open /\ ~ReadOutput /\ ReadTimer
  <2>1. /\ pc = "readTimer" /\ pc' = "read" /\ cycles' = timer.count
        /\ UNCHANGED <<path, timer, elapsed, ran>>
    BY <1>9 DEF ReadTimer
  <2>2. QED
    BY <1>9, <1>20, <2>1 DEF OwnTime, TypeInv
<1>10. CASE ~Open /\ ~ReadOutput /\ (ReportLatency \/ ReportAccuracy)
  BY <1>10 DEF ReportLatency, ReportAccuracy, Report, OwnTime
<1>11. CASE ~Open /\ ~ReadOutput /\ (Load \/ Finish \/ UNCHANGED vars)
  <2>1. UNCHANGED <<pc, path, cycles, timer, elapsed, ran>>
    BY <1>11 DEF Load, Finish, vars
  <2>2. QED
    BY <1>11, <1>20, <2>1 DEF OwnTime
<1>12. CASE ~Open /\ ~ReadOutput /\ Tick
  <2>1. elapsed' = elapsed + 1 /\ UNCHANGED <<pc, path, cycles>>
    BY <1>12 DEF Tick
  <2>2. ran' \in {ran, ran + 1} /\ (work = Idle => ran' = ran)
    BY <1>12 DEF Tick, Working
  <2>3. timer.on => timer'.on /\ timer'.count = timer.count + 1
    BY <1>12 DEF Tick, TypeInv
  <2>4. timer'.count \in {timer.count, timer.count + 1}
    BY <1>12 DEF Tick, TypeInv
  <2>5. pc \in Done => work = Idle
    BY <1>12, <1>20 DEF OneJob
  <2>6. OwnTime
    BY <1>12, <1>20
  <2>7. QED
    BY <2>1, <2>2, <2>3, <2>4, <2>5, <2>6 DEF TypeInv, OwnTime, Done
<1>13. QED
  BY <1>1, <1>2, <1>3, <1>4, <1>5, <1>6, <1>7, <1>8, <1>9, <1>10, <1>11, <1>12
  DEF Next, Host

\* The records of a run are counted, and there is at least one.
LEMMA PlannedFacts == Warmups \in Nat /\ Planned \in Nat /\ Planned > 0
BY TinyAssumption DEF TinyAssumption, Planned

\* Before the first run there are no results and no files.
LEMMA InitKept == Init => KeptInv
<1> SUFFICES ASSUME Init PROVE KeptInv
  OBVIOUS
<1>1. results = <<>> /\ n = 0 /\ pc = "closed"
  BY DEF Init
<1>2. files = NoFiles
  BY DEF Init
<1>3. ResultsAreOwn
  BY <1>2 DEF ResultsAreOwn, NoFiles
<1>4. files \in [{"latency", "accuracy"} -> Seq(Result) \cup Seq(ScoreEntry)]
  BY <1>2 DEF NoFiles
<1>5. QED
  BY <1>1, <1>3, <1>4, PlannedFacts DEF KeptInv, Preparing, Waiting, Done, Reporting

\* An output that was read is put at the place of its record; the warm-ups leave
\* no trace.
LEMMA KeptByRead ==
  ASSUME TypeInv, JobInv, TensorInv, TimeInv, KeptInv, ReadOutput PROVE KeptInv'
<1> DEFINE r == [out |-> output, cycles |-> cycles,
                 whole |-> cycles \in ran..elapsed, missing |-> missing]
<1>1. /\ pc = "read" /\ n' = n + 1 /\ UNCHANGED <<run, files>>
      /\ results' = IF n < Warmups THEN results ELSE Append(results, r)
      /\ pc' = IF n + 1 = Warmups + Planned THEN "summary" ELSE "write"
  BY DEF ReadOutput, Goto, Kept, IsWarmup
<1>2. n \in Nat /\ r \in Result
  <2>1. (cycles \in ran..elapsed) \in BOOLEAN
    <3>1. CASE cycles \in ran..elapsed
      BY <3>1
    <3>2. CASE cycles \notin ran..elapsed
      BY <3>2
    <3>3. QED
      BY <3>1, <3>2
  <2>2. output \in Tensors /\ cycles \in Nat /\ missing \in SUBSET Writes /\ n \in Nat
    BY DEF TypeInv
  <2>3. QED
    BY <2>1, <2>2 DEF Result
<1>3. n < Warmups + Planned /\ results \in Seq(Result)
  BY <1>1 DEF KeptInv, Done
<1>4. /\ r.missing \cap {"reset", "write", "configure"} = {} => r.out = <<run, n>>
      /\ r.missing \cap {"reset", "startTimer"} = {} => r.whole = TRUE
  <2>1. ASSUME missing \cap {"reset", "write", "configure"} = {} PROVE output = Tensor
    BY <1>1, <2>1 DEF TensorInv, OwnTensor, JobInv, OneJob, Done
  <2>2. ASSUME missing \cap {"reset", "startTimer"} = {} PROVE cycles \in ran..elapsed
    BY <1>1, <2>2 DEF TimeInv, OwnTime
  <2>3. (cycles \in ran..elapsed) => (cycles \in ran..elapsed) = TRUE
    BY Zenon
  <2>4. r.missing = missing /\ r.out = output /\ r.whole = (cycles \in ran..elapsed)
    OBVIOUS
  <2> HIDE DEF r
  <2>5. missing \cap {"reset", "startTimer"} = {} => r.whole = TRUE
    BY <2>2, <2>3, <2>4, Zenon
  <2>6. QED
    BY <2>1, <2>4, <2>5, Zenon DEF Tensor
<1> HIDE DEF r
<1>5. results' \in Seq(Result)
  BY <1>1, <1>2, <1>3
<1>6. Len(results') = IF n' <= Warmups THEN 0 ELSE n' - Warmups
  BY <1>1, <1>2, <1>3, PlannedFacts DEF KeptInv
<1>7. \A k \in DOMAIN results' :
        /\ results'[k].missing \cap {"reset", "write", "configure"} = {} =>
             results'[k].out = <<run, Warmups + k - 1>>
        /\ results'[k].missing \cap {"reset", "startTimer"} = {} => results'[k].whole = TRUE
  <2>1. CASE n < Warmups
    BY <1>1, <2>1 DEF KeptInv
  <2>2. CASE ~(n < Warmups)
    <3>1. Len(results) = n - Warmups
      BY <1>2, <2>2, PlannedFacts DEF KeptInv
    <3>2. results' = Append(results, r)
      BY <1>1, <2>2
    <3>3. TAKE k \in DOMAIN results'
    <3>4. CASE k \in DOMAIN results
      <4>1. results'[k] = results[k]
        BY <1>3, <3>2, <3>4
      <4>2. QED
        BY <3>4, <4>1 DEF KeptInv
    <3>5. CASE k = Len(results) + 1
      <4>1. results'[k] = r /\ Warmups + k - 1 = n
        BY <1>2, <1>3, <3>1, <3>2, <3>5, PlannedFacts
      <4>2. QED
        BY <1>4, <4>1
    <3>6. k \in DOMAIN results \/ k = Len(results) + 1
      BY <1>2, <1>3, <3>2
    <3>7. QED
      BY <3>4, <3>5, <3>6
  <2>3. QED
    BY <2>1, <2>2
<1>8. ResultsAreOwn'
  <2>1. files["latency"] = files'["latency"] /\ files["accuracy"] = files'["accuracy"] /\ run' = run
    BY <1>1
  <2>2. files["accuracy"] = <<>>
    BY <1>1 DEF KeptInv
  <2>3. QED
    BY <2>1, <2>2 DEF KeptInv, ResultsAreOwn
<1>9. pc' \in Preparing' \cup Waiting' \cup Done' => n' < Warmups + Planned
  BY <1>1, <1>2, <1>3, PlannedFacts DEF Preparing, Waiting, Done
<1>10. pc' \in Reporting' => n' = Warmups + Planned
  BY <1>1 DEF Reporting
<1>11. files' \in [{"latency", "accuracy"} -> Seq(Result) \cup Seq(ScoreEntry)] /\ run' = run
  BY <1>1 DEF KeptInv
<1>13. files'["accuracy"] = <<>>
  BY <1>1 DEF KeptInv
<1>12. QED
  BY <1>1, <1>5, <1>6, <1>7, <1>8, <1>9, <1>10, <1>11, <1>13 DEF KeptInv

\* Both files are written from the results of the run, whole and in order.
LEMMA KeptByReport ==
  ASSUME TypeInv, KeptInv, ReportLatency \/ ReportAccuracy PROVE KeptInv'
<1>1. /\ UNCHANGED <<run, n, results>>
      /\ \/ ReportLatency /\ pc = "latency" /\ pc' = "accuracy"
         \/ ReportAccuracy /\ pc = "accuracy" /\ pc' = "closed"
  BY DEF ReportLatency, ReportAccuracy, Report, Goto
<1>2. n = Warmups + Planned /\ results \in Seq(Result) /\ Len(results) = Planned
  BY <1>1, PlannedFacts DEF KeptInv, Reporting
<1>3. files \in [{"latency", "accuracy"} -> Seq(Result) \cup Seq(ScoreEntry)]
  BY DEF KeptInv
<1>4. /\ files' \in [{"latency", "accuracy"} -> Seq(Result) \cup Seq(ScoreEntry)]
      /\ pc' # "closed" => files'["accuracy"] = <<>>
      /\ ResultsAreOwn'
  <2>1. CASE ReportLatency /\ pc = "latency" /\ pc' = "accuracy"
    <3>1. files' = [files EXCEPT !["latency"] = results]
      BY <2>1 DEF ReportLatency, Report
    <3>2. files'["latency"] = results /\ files'["accuracy"] = <<>>
      BY <1>3, <2>1, <3>1 DEF KeptInv
    <3>3. \A k \in DOMAIN results :
            /\ results[k].cycles > 0
            /\ results[k].missing \cap {"reset", "startTimer"} = {} => results[k].whole
      <4>1. \A k \in DOMAIN results : results[k].cycles > 0
        BY <2>1 DEF KeptInv
      <4>2. \A k \in DOMAIN results :
              results[k].missing \cap {"reset", "startTimer"} = {} => results[k].whole = TRUE
        BY DEF KeptInv
      <4>3. QED
        BY <4>1, <4>2, Zenon
    <3>4. ResultsAreOwn'
      BY <1>1, <3>2, <3>3, Zenon DEF ResultsAreOwn
    <3>5. QED
      BY <1>2, <1>3, <3>1, <3>2, <3>4
  <2>2. CASE ReportAccuracy /\ pc = "accuracy" /\ pc' = "closed"
    <3>1. files' = [files EXCEPT !["accuracy"] = Scores]
      BY <2>2 DEF ReportAccuracy, Report
    <3>2. files'["latency"] = files["latency"] /\ files'["accuracy"] = Scores
      BY <1>3, <3>1
    <3>3. \A k \in 1 .. Planned : results[k] \in Result
      BY <1>2, PlannedFacts
    <3>4. /\ Scores \in Seq(ScoreEntry) /\ Len(Scores) = Planned
          /\ DOMAIN Scores = 1 .. Planned
      <4>1. \A k \in 1 .. Planned : [record |-> k, out |-> results[k].out] \in ScoreEntry
        BY <3>3, PlannedFacts DEF Result, ScoreEntry
      <4>2. QED
        BY <4>1, PlannedFacts DEF Scores
    <3>5. \A k \in 1 .. Planned :
            results[k].missing \cap {"reset", "write", "configure"} = {} =>
              Scores[k].out = <<run, Warmups + Scores[k].record - 1>>
      <4>1. \A k \in 1 .. Planned :
              results[k].missing \cap {"reset", "write", "configure"} = {} =>
                results[k].out = <<run, Warmups + k - 1>>
        <5>1. DOMAIN results = 1 .. Planned
          BY <1>2, PlannedFacts
        <5>2. QED
          BY <5>1, Zenon DEF KeptInv
      <4>2. QED
        BY <4>1 DEF Scores
    <3>6. \A k \in DOMAIN files["latency"] :
            /\ files["latency"][k].cycles > 0
            /\ files["latency"][k].missing \cap {"reset", "startTimer"} = {} =>
                 files["latency"][k].whole
      BY Zenon DEF KeptInv, ResultsAreOwn
    <3>7. ResultsAreOwn'
      <4>1. \A k \in DOMAIN files'["accuracy"] :
              results'[k].missing \cap {"reset", "write", "configure"} = {} =>
                files'["accuracy"][k].out = <<run', Warmups + files'["accuracy"][k].record - 1>>
        BY <1>1, <3>2, <3>4, <3>5
      <4>2. Len(files'["accuracy"]) = Planned
        BY <3>2, <3>4
      <4>3. QED
        BY <3>2, <3>6, <4>1, <4>2, Zenon DEF ResultsAreOwn, Planned
    <3>8. QED
      BY <1>3, <2>2, <3>1, <3>4, <3>7
  <2>3. QED
    BY <1>1, <2>1, <2>2
<1>5. pc' = "accuracy" => \A k \in DOMAIN results : results[k].cycles > 0
  BY <1>1 DEF KeptInv
<1>6. QED
  BY <1>1, <1>2, <1>4, <1>5 DEF KeptInv, Preparing, Waiting, Done, Reporting

\* What is kept stays right with every step.
LEMMA NextKept ==
  ASSUME TypeInv, JobInv, TensorInv, TimeInv, KeptInv, [Next]_vars PROVE KeptInv'
<1>1. CASE Open
  <2>1. results' = <<>> /\ n' = 0 /\ pc' = "write" /\ files' = NoFiles
    BY <1>1 DEF Open, Goto
  <2>2. ResultsAreOwn'
    BY <2>1 DEF ResultsAreOwn, NoFiles
  <2>3. /\ files' \in [{"latency", "accuracy"} -> Seq(Result) \cup Seq(ScoreEntry)]
        /\ files'["accuracy"] = <<>>
    BY <2>1 DEF NoFiles
  <2>4. QED
    BY <2>1, <2>2, <2>3, PlannedFacts DEF KeptInv, Reporting
<1>2. CASE ReadOutput
  BY <1>2, KeptByRead
<1>3. CASE ReportLatency \/ ReportAccuracy
  BY <1>3, KeptByReport
<1>4. CASE Summarize
  <2>1. /\ pc = "summary" /\ UNCHANGED <<run, n, results, files>>
        /\ \/ pc' = "closed"
           \/ pc' = "latency" /\ ~(\E k \in DOMAIN results : results[k].cycles <= 0)
    BY <1>4 DEF Summarize, Then, Fail, Goto
  <2>2. n = Warmups + Planned
    BY <2>1 DEF KeptInv, Reporting
  <2>3. \A k \in DOMAIN results : results[k].cycles \in Nat
    <3>1. \A k \in DOMAIN results : results[k] \in Result
      BY DEF KeptInv
    <3>2. QED
      BY <3>1 DEF Result
  <2>4. ResultsAreOwn'
    BY <2>1 DEF KeptInv, ResultsAreOwn
  <2>5. pc' = "latency" => \A k \in DOMAIN results : results[k].cycles > 0
    BY <2>1, <2>3
  <2>6. QED
    BY <2>1, <2>2, <2>4, <2>5 DEF KeptInv, Preparing, Waiting, Done, Reporting
<1>5. CASE UNCHANGED <<run, n, results, files>> /\ pc' \notin Reporting
           /\ (pc' = "closed" \/ pc \in Preparing \cup Waiting \cup Done) /\ pc # "closed"
  <2>1. ResultsAreOwn'
    BY <1>5 DEF KeptInv, ResultsAreOwn
  <2>2. QED
    BY <1>5, <2>1 DEF KeptInv, Preparing, Waiting, Done, Reporting
<1>6. CASE UNCHANGED <<pc, path, run, n, results, files>>
  <2>1. ResultsAreOwn'
    BY <1>6 DEF KeptInv, ResultsAreOwn
  <2>2. QED
    BY <1>6, <2>1 DEF KeptInv, Preparing, Waiting, Done, Reporting, Streaming
<1>7. Load \/ Finish \/ Tick \/ UNCHANGED vars => UNCHANGED <<pc, path, run, n, results, files>>
  BY DEF Load, Finish, Tick, vars, hostVars
<1>8. WriteInput \/ ReadBaseline \/ StartTimer
        \/ Go \/ PollCount \/ CheckHealth \/ CheckDeadline \/ StopTimer \/ ReadTimer \/ Abort
      => /\ UNCHANGED <<run, n, results, files>> /\ pc' \notin Reporting /\ pc # "closed"
         /\ pc' = "closed" \/ pc \in Preparing \cup Waiting \cup Done
  BY DEF WriteInput, ReadBaseline, StartTimer, Go, PollCount, CheckHealth, CheckDeadline,
         StopTimer, ReadTimer, Abort, Then, Goto, Fail,
         Reporting, Preparing, Waiting, Done, Streaming
<1>10. QueueIngress \/ QueueEgress \/ Configure
      => /\ UNCHANGED <<run, n, results, files>> /\ pc' \notin Reporting
         /\ pc \in Preparing /\ pc # "closed"
  BY DEF QueueIngress, QueueEgress, Configure, Then, Goto, Fail,
         Reporting, Preparing, Waiting, Done, TypeInv
<1>9. QED
  BY <1>1, <1>2, <1>3, <1>4, <1>5, <1>6, <1>7, <1>8, <1>10 DEF Next, Host

\* In every run the reported outputs and times are those of the records: whatever
\* an earlier run left in the device, wherever the count wraps, and whichever
\* writes are lost.  A lost write of an input or of the configuration spoils the
\* outputs it belongs to and no others, a lost start of the timer its time, a lost
\* reset a run that found jobs in the device, a lost descriptor, trigger or stop of
\* the timer nothing.
THEOREM ResultsOwn == Spec => []ResultsAreOwn
<1>1. KeptInv => ResultsAreOwn
  BY DEF KeptInv
<1>2. QED
  BY <1>1, InitType, NextType, InitJob, NextJob, InitTensor, NextTensor, InitTime, NextTime,
     InitKept, NextKept, PTL
  DEF Spec
===============================================================================
