------------------------------- MODULE L2Bench -------------------------------
(* The L2 microbenchmark: m20k_bw reads Banks memories, all at once or in   *)
(* turns, and folds what it reads; run_l2 starts it, waits, and reads the   *)
(* counters; l2_golden predicts them; record_l2_measured takes typed        *)
(* numbers and the golden model's word for them.                            *)
(*                                                                          *)
(* A memory word is the pair of its bank and address and a checksum is the  *)
(* set of words folded an odd number of times, which is what XOR keeps.     *)
EXTENDS Integers, FiniteSets, FiniteSetsExt

CONSTANTS
  Banks,        \* NUM_BANKS
  Depth,        \* words of a bank
  Ks,           \* reads per reader that are asked for
  CounterSize,  \* values of the 32-bit counters
  MaxL2Runs     \* runs in a behaviour

ASSUME L2Assumption ==
  /\ Banks \in Nat /\ Banks >= 3   \* 32 in every build
  /\ Depth \in Nat \ {0} /\ CounterSize \in Nat /\ CounterSize >= 2
  /\ Ks \subseteq 1..CounterSize - 1

Bank == 0..Banks - 1

VARIABLES
  geometry, outputReg,  \* parameters the bitstream was built with
  st, kReg, pulses, drain, rr, elapsedQ, agg,  \* m20k_bw
  addr, checksum, landed,  \* its banks; landed: the output register, while valid
  l2pc, l2Asked,        \* run_l2: where it is, and what it was called with
  l2Taken,              \* whether the core was at rest when K was written
  l2Seen,               \* what it has read so far
  l2Runs,               \* runs that got their counters, reported or refused
  l2Records             \* the run record_l2_measured wrote down last

coreVars == <<geometry, outputReg, st, kReg, pulses, drain, rr, elapsedQ, agg, addr, checksum, landed>>
l2vars == <<coreVars, l2pc, l2Asked, l2Taken, l2Seen, l2Runs, l2Records>>

-----------------------------------------------------------------------------
(* m20k_bw, clock by clock.                                                 *)

Fold(a, b) == SymDiff(a, b)

\* All that f maps to, folded: the words in an odd number of its values.
Folded(f) ==
  {w \in UNION {f[x] : x \in DOMAIN f} : Cardinality({x \in DOMAIN f : w \in f[x]}) % 2 = 1}

Busy == st \in {"run", "drain"}

TotalPulses == IF geometry = "shared" THEN (kReg * Banks) % CounterSize ELSE kReg

DrainCycles_Late == IF outputReg THEN 1 ELSE 0

DrainCycles == IF outputReg THEN 2 ELSE 1

\* The banks whose read port is enabled this cycle.
Reading == IF st # "run" THEN {} ELSE IF geometry = "shared" THEN {rr} ELSE Bank

Word(b) == {<<b, addr[b]>>}

\* m20k_bw_bank: the word a read enables reaches the checksum at this edge, or
\* one edge later through the output register.
BanksEdge ==
  /\ addr' = [b \in Bank |-> IF b \in Reading THEN (addr[b] + 1) % Depth ELSE addr[b]]
  /\ landed' = [b \in Bank |-> IF b \in Reading THEN Word(b) ELSE {}]
  /\ checksum' = [b \in Bank |-> Fold(checksum[b], IF outputReg THEN landed[b]
                                                   ELSE IF b \in Reading THEN Word(b) ELSE {})]

RunEdge ==
  /\ st = "run"
  /\ rr' = (rr + 1) % Banks
  /\ pulses' = (pulses + 1) % CounterSize
  /\ st' = IF pulses' = TotalPulses THEN "drain" ELSE "run"
  /\ UNCHANGED <<drain, agg>>

DrainEdge ==
  /\ st = "drain"
  /\ IF drain + 1 >= DrainCycles
     THEN /\ st' = "done"
          /\ agg' = Folded(checksum)
          /\ UNCHANGED drain
     ELSE drain' = drain + 1 /\ UNCHANGED <<st, agg>>
  /\ UNCHANGED <<rr, pulses>>

\* At rest an edge changes nothing the host can see.
L2Edge ==
  /\ RunEdge \/ DrainEdge
  /\ BanksEdge
  /\ elapsedQ' = elapsedQ + 1
  /\ UNCHANGED <<geometry, outputReg, kReg, l2pc, l2Asked, l2Taken, l2Seen, l2Runs, l2Records>>

\* A write to K or START while the core is busy is ignored.
SetK(k) ==
  /\ kReg' = IF Busy THEN kReg ELSE k
  /\ UNCHANGED <<geometry, outputReg, st, pulses, drain, rr, elapsedQ, agg, addr, checksum, landed>>

StartCore ==
  /\ IF Busy THEN UNCHANGED <<st, pulses, drain, rr, elapsedQ, addr, checksum>>
     ELSE /\ st' = "run" /\ pulses' = 0 /\ drain' = 0 /\ rr' = 0 /\ elapsedQ' = 0
          /\ addr' = [b \in Bank |-> 0] /\ checksum' = [b \in Bank |-> {}]
  /\ UNCHANGED <<geometry, outputReg, kReg, agg, landed>>

-----------------------------------------------------------------------------
(* l2_golden.run: the pulses replayed in order.                             *)

\* The bank and the address of the reads of a run, pulse by pulse.
Replayed(k, g) ==
  IF g = "shared" THEN {<<p % Banks, p \div Banks, p>> : p \in 0..k * Banks - 1}
                  ELSE {<<b, p, p>> : b \in Bank, p \in 0..k - 1}

Golden(k, g, o) ==
  [cycles |-> (IF g = "shared" THEN k * Banks ELSE k) + (IF o THEN 2 ELSE 1),
   sums   |-> [b \in Bank |-> Folded([r \in {r \in Replayed(k, g) : r[1] = b} |-> {<<b, r[2] % Depth>>}])]]

GoldenAgg(k, g, o) == Folded(Golden(k, g, o).sums)

-----------------------------------------------------------------------------
(* run_l2.run_microbench.                                                   *)

NothingSeen == [cycles |-> 0, sums |-> <<>>]

L2Init ==
  /\ geometry \in {"banked", "shared"} /\ outputReg \in BOOLEAN
  /\ st = "idle" /\ kReg = 1 /\ pulses = 0 /\ drain = 0 /\ rr = 0 /\ elapsedQ = 0 /\ agg = {}
  /\ addr = [b \in Bank |-> 0] /\ checksum = [b \in Bank |-> {}] /\ landed = [b \in Bank |-> {}]
  /\ l2pc = "ended" /\ l2Asked = [k |-> 1, verify |-> FALSE] /\ l2Taken = FALSE
  /\ l2Seen = NothingSeen /\ l2Runs = {} /\ l2Records = {}

\* DIMS says which bitstream is loaded; then K is written, and START.
BeginL2(k, verify) ==
  /\ l2pc = "ended" /\ Cardinality(l2Runs) < MaxL2Runs
  /\ SetK(k)
  /\ l2Asked' = [k |-> k, verify |-> verify] /\ l2Seen' = NothingSeen /\ l2pc' = "start"
  /\ l2Taken' = ~Busy
  /\ UNCHANGED <<l2Runs, l2Records>>

StartL2 ==
  /\ l2pc = "start" /\ StartCore
  /\ l2pc' = "poll"
  /\ UNCHANGED <<l2Asked, l2Taken, l2Seen, l2Runs, l2Records>>

PollL2 ==
  /\ l2pc = "poll" /\ st = "done"
  /\ l2pc' = "read"
  /\ UNCHANGED <<coreVars, l2Asked, l2Taken, l2Seen, l2Runs, l2Records>>

\* poll_timeout_s, which a shared geometry with many reads may well exceed.
TimeOutL2 ==
  /\ l2pc = "poll" /\ st # "done"
  /\ l2pc' = "ended"
  /\ UNCHANGED <<coreVars, l2Asked, l2Taken, l2Seen, l2Runs, l2Records>>

\* CYCLES, then CS_ADDR and CS_DATA bank by bank.
ReadCountersL2 ==
  /\ l2pc = "read"
  /\ IF l2Seen.cycles = 0
     THEN elapsedQ # 0 /\ l2Seen' = [l2Seen EXCEPT !.cycles = elapsedQ]
     ELSE l2Seen' = [l2Seen EXCEPT !.sums = [b \in 0..Cardinality(DOMAIN @) |->
                       IF b \in DOMAIN @ THEN @[b] ELSE checksum[b]]]
  /\ l2pc' = IF DOMAIN l2Seen'.sums = Bank THEN "conclude" ELSE "read"
  /\ UNCHANGED <<coreVars, l2Asked, l2Taken, l2Runs, l2Records>>

\* The run equals the golden model's: every bank's checksum, AGG_CS and CYCLES.
Agrees ==
  \E gold \in {Golden(l2Asked.k, geometry, outputReg)} :
    /\ l2Seen.sums = gold.sums /\ l2Seen.cycles = gold.cycles
    /\ agg = GoldenAgg(l2Asked.k, geometry, outputReg)

\* AGG_CS, and with --verify-golden a refusal unless all agree.
ConcludeL2 ==
  /\ l2pc = "conclude"
  /\ l2Runs' = l2Runs \cup
       {[k |-> l2Asked.k, cycles |-> l2Seen.cycles, taken |-> l2Taken,
         agrees |-> Agrees, reported |-> l2Asked.verify => Agrees]}
  /\ l2pc' = "ended"
  /\ UNCHANGED <<coreVars, l2Asked, l2Taken, l2Seen, l2Records>>

\* The integrity gate of record_l2_measured.
Matches_AggOnly(k, g, o, seen) == seen.agg = GoldenAgg(k, g, o)

Matches(k, g, o, seen) ==
  seen.agg = GoldenAgg(k, g, o) /\ seen.cycles = Golden(k, g, o).cycles

\* record_l2_measured: the numbers l2_read.tcl printed, with the geometry, the
\* output register and the k somebody types beside them.

RecordL2(k, g, o) ==
  /\ st = "done" /\ l2pc = "ended"
  /\ Matches(k, g, o, [agg |-> agg, cycles |-> elapsedQ])
  /\ l2Records' = {[k |-> k, geometry |-> g, outputReg |-> o, of |-> kReg]}
  /\ UNCHANGED <<coreVars, l2pc, l2Asked, l2Taken, l2Seen, l2Runs>>

L2Next ==
  \/ L2Edge
  \/ \E k \in Ks, verify \in BOOLEAN : BeginL2(k, verify)
  \/ StartL2 \/ PollL2 \/ TimeOutL2 \/ ReadCountersL2 \/ ConcludeL2
  \/ \E k \in Ks, g \in {"banked", "shared"}, o \in BOOLEAN : RecordL2(k, g, o)

L2Spec == L2Init /\ [][L2Next]_l2vars

-----------------------------------------------------------------------------
(* Properties.                                                              *)

\* The number of pulses of a run fits the core's counter.
Fits(k) == geometry = "banked" \/ k * Banks < CounterSize

\* A run begun on a core at rest measures exactly the cycles and folds exactly the
\* words the golden model replays, whatever ran or was given up before it, so that
\* --verify-golden never refuses it and the bandwidth reported is of its own k.
\* And record_l2_measured, to which k, geometry and output register are typed: when
\* the k or the geometry is right its gate passes the run only as it was made.
\* (With both wrong, cycles and aggregate can agree: 33 reads shared and 1057
\* banked on the real bitstreams.)
L2NumbersAreGolden ==
  /\ \A r \in l2Runs : (r.taken /\ Fits(r.k)) => r.agrees /\ r.reported
  /\ \A r \in l2Records :
       (Fits(r.of) /\ (r.k = r.of \/ r.geometry = geometry)) =>
         r.k = r.of /\ r.geometry = geometry /\ r.outputReg = outputReg
==============================================================================
