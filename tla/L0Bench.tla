------------------------------- MODULE L0Bench -------------------------------
(* The L0 microbenchmark: l0_tensor_chain feeds a cascade of dot products   *)
(* and folds what leaves it; run_l0 starts it, waits, and reads one         *)
(* snapshot; l0_golden replays the same run in software.                    *)
(*                                                                          *)
(* The dot product of block b at the t-th state of the shift registers is   *)
(* the pair <<b, t>>, a sum of products the set of them, and the checksum   *)
(* the set of sums folded an odd number of times.                           *)
EXTENDS Integers, FiniteSets, FiniteSetsExt

CONSTANTS
  Blocks,       \* N_BLOCKS
  FillMargin,   \* FILL_MARGIN
  Vectors,      \* n_vectors that are asked for
  MaxL0Runs     \* runs in a behaviour

ASSUME L0Assumption == Blocks \in Nat \ {0} /\ FillMargin \in Nat /\ Vectors \subseteq Nat \ {0}

FillCycles == Blocks + FillMargin
LastBlock == Blocks - 1

VARIABLES
  running, done, cycle, vector, sum, nVectors,  \* l0_tensor_chain
  shifted, cascade,     \* clocks since clear, and each block's accumulator
  snap,                 \* what the read of CYCLES_LO latched
  l0pc, l0Asked, l0Runs \* run_l0: where it is, what it was asked, what came out

chainVars == <<running, done, cycle, vector, sum, nVectors, shifted, cascade, snap>>
l0vars == <<chainVars, l0pc, l0Asked, l0Runs>>

Empty == [b \in 0..LastBlock |-> {}]

\* l0_mac_block: each block adds its product to what the block before it held.
Advanced0(acc, t) ==
  [b \in 0..LastBlock |-> {<<b, t>>} \cup (IF b = 0 THEN {} ELSE acc[b - 1])]

-----------------------------------------------------------------------------
(* l0_tensor_chain, clock by clock.                                         *)

Retire_Late == cycle > FillCycles
Retire == cycle >= FillCycles

\* At rest the registers shift on, but nothing reads them before the next clear.
L0Edge ==
  /\ running
  /\ cycle' = cycle + 1
  /\ cascade' = Advanced0(cascade, shifted) /\ shifted' = shifted + 1
  /\ IF Retire
     THEN /\ sum' = SymDiff(sum, {cascade[LastBlock]})
          /\ vector' = vector + 1
          /\ running' = (vector' < nVectors) /\ done' = (vector' >= nVectors)
     ELSE UNCHANGED <<sum, vector, running, done>>
  /\ UNCHANGED <<nVectors, snap, l0pc, l0Asked, l0Runs>>

\* START is taken at any time, and clears registers and accumulators too.
StartChain ==
  /\ running' = TRUE /\ done' = FALSE /\ cycle' = 0 /\ vector' = 0 /\ sum' = {}
  /\ shifted' = 0 /\ cascade' = Empty
  /\ UNCHANGED <<nVectors, snap>>

Latched == [cycles |-> cycle, done |-> vector, checksum |-> sum]

-----------------------------------------------------------------------------
(* l0_golden.run: the loop, one iteration after the other.                  *)

GoldenStart == [cycles |-> 0, done |-> 0, checksum |-> {}, acc |-> Empty]

GoldenStep(g, n) ==
  LET retires == g.cycles >= FillCycles
      after == g.done + (IF retires THEN 1 ELSE 0)
  IN IF g.done >= n THEN g
     ELSE [cycles |-> g.cycles + 1, done |-> after,
           checksum |-> IF retires THEN SymDiff(g.checksum, {g.acc[LastBlock]}) ELSE g.checksum,
           acc |-> IF after >= n THEN g.acc ELSE Advanced0(g.acc, g.cycles)]

GoldenLoop(n) ==
  LET loop[i \in Nat] == IF i = 0 THEN GoldenStart ELSE GoldenStep(loop[i - 1], n) IN loop

GoldenL0(n) ==
  LET end == GoldenLoop(n)[FillCycles + n + 1]
  IN [cycles |-> end.cycles, done |-> end.done, checksum |-> end.checksum]

-----------------------------------------------------------------------------
(* run_l0.run_microbench over l0_regs.                                      *)

L0Init ==
  /\ running = FALSE /\ done = FALSE /\ cycle = 0 /\ vector = 0 /\ sum = {} /\ nVectors = 0
  /\ shifted = 0 /\ cascade = Empty
  /\ snap = [cycles |-> 0, done |-> 0, checksum |-> {}]
  /\ l0pc = "ended" /\ l0Asked = [n |-> 1, verify |-> FALSE] /\ l0Runs = {}

\* N_BLOCKS says which bitstream is loaded; then N_VECTORS is written.
BeginL0(n, verify) ==
  /\ l0pc = "ended" /\ Cardinality(l0Runs) < MaxL0Runs
  /\ l0Asked' = [n |-> n, verify |-> verify] /\ l0pc' = "start"
  /\ nVectors' = n
  /\ UNCHANGED <<running, done, cycle, vector, sum, shifted, cascade, snap, l0Runs>>

StartL0 == l0pc = "start" /\ StartChain /\ l0pc' = "poll" /\ UNCHANGED <<l0Asked, l0Runs>>

PollL0 == l0pc = "poll" /\ done /\ l0pc' = "latch" /\ UNCHANGED <<chainVars, l0Asked, l0Runs>>

TimeOutL0 == l0pc = "poll" /\ ~done /\ l0pc' = "ended" /\ UNCHANGED <<chainVars, l0Asked, l0Runs>>

LatchL0 ==
  /\ l0pc = "latch"
  /\ snap' = Latched /\ l0pc' = "conclude"
  /\ UNCHANGED <<running, done, cycle, vector, sum, nVectors, shifted, cascade, l0Asked, l0Runs>>

\* A wrong DONE_COUNT, no cycles, or with --verify-golden another checksum or
\* number of cycles: the run is refused.
Accepts ==
  /\ snap.done = l0Asked.n /\ snap.cycles # 0
  /\ l0Asked.verify => /\ snap.checksum = GoldenL0(l0Asked.n).checksum
                       /\ snap.cycles = GoldenL0(l0Asked.n).cycles

ConcludeL0 ==
  /\ l0pc = "conclude"
  /\ l0Runs' = l0Runs \cup {[n |-> l0Asked.n, verify |-> l0Asked.verify, counters |-> snap, reported |-> Accepts]}
  /\ l0pc' = "ended"
  /\ UNCHANGED <<chainVars, l0Asked>>

L0Next ==
  \/ L0Edge
  \/ \E n \in Vectors, verify \in BOOLEAN : BeginL0(n, verify)
  \/ StartL0 \/ PollL0 \/ TimeOutL0 \/ LatchL0 \/ ConcludeL0

L0Spec == L0Init /\ [][L0Next]_l0vars

-----------------------------------------------------------------------------
(* Properties.                                                              *)

\* Every run that gets as far as its counters, also one begun while a run that was
\* given up still keeps the chain busy, retires the vectors it asked for and has
\* the cycles and the checksum l0_golden replays, so none is refused.
L0RunsAreGolden ==
  \A r \in l0Runs : r.reported /\ r.counters = GoldenL0(r.n)
==============================================================================
