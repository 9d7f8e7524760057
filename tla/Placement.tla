------------------------------- MODULE Placement -------------------------------
(***************************************************************************)
(* Where a network lies in HyperRAM and whether it survives there:         *)
(* aot_layout.py lays out what dla_compiler reports, hyperram_loader.py    *)
(* writes weights and inputs and runs the device.  A write wounds the      *)
(* words below its base, so the layout keeps dead space there.             *)
(***************************************************************************)
EXTENDS Integers, Sequences, FiniteSets

CONSTANTS
  Networks, InfoOf(_),  \* the networks, and what the compiler reports of each
  Aligns, Guards,       \* --align-bytes and --guard-bytes
  Wound,                \* how many words a write destroys below its base
  Capacity,             \* words of the HyperRAM
  Dumpdirs,             \* "own" for each network or "shared" by all
  MaxJobs,              \* bound: inferences
  Nothing

VARIABLES
  network, align, guard, dumpdir,  \* the arguments
  dumps,    \* the networks whose ddr_buffer_info is in the dump directory
  place,    \* the resolved layout
  mem, at,  \* the memory; the next step of the host
  job,      \* the inference under way
  out       \* what was read back for it
placeVars == <<network, align, guard, dumpdir, dumps, place, mem, at, job, out>>

RoundUp(n, a) == IF a <= 0 THEN n ELSE ((n + a - 1) \div a) * a

\* parse_ddr_buffer_info: the region lines of a name, and the names that are
\* not the compiler's own.
Lines(info, name) == SelectSeq(info.lines, LAMBDA l : l.name = name)
Reserved == {"Output", "Config", "Filter", "Bias+Scale"}
Inputs(info) == SelectSeq(info.lines, LAMBDA l : l.name \notin Reserved)
Parses(info) == Inputs(info) # <<>> /\ \A name \in Reserved : Len(Lines(info, name)) = 1

\* single_input.
Usable(info) == Parses(info) /\ Len(Inputs(info)) = 1

\* resolve_hyperram_layout: scratch, weights, input with output, upwards, with
\* the guard below what the host writes.
Resolved_NoGuard(n, a, g) ==
  LET info == InfoOf(n)
      config == RoundUp(RoundUp(info.inter, a), a)
      input == RoundUp(config + RoundUp(info.configFilter, a), a)
  IN [network |-> n, scratch |-> 0, config |-> config, input |-> input,
      output |-> input + Lines(info, "Output")[1].offset]
Resolved(n, a, g) ==
  LET info == InfoOf(n)
      scratch == RoundUp(0, a)
      config == RoundUp(scratch + RoundUp(info.inter, a) + g, a)
      input == RoundUp(config + RoundUp(info.configFilter, a) + g, a)
  IN [network |-> n, scratch |-> scratch, config |-> config, input |-> input,
      output |-> input + Lines(info, "Output")[1].offset]

Size(n, name) == Lines(InfoOf(n), name)[1].size
InputSize(n) == Inputs(InfoOf(n))[1].size

\* The config reader counts words of ReaderWidth bytes down to -1.
ReaderWidth == 2
RangeMinusTwo(bytes) == bytes \div ReaderWidth - 2
RangeValid(bytes) == bytes % ReaderWidth = 0 /\ RangeMinusTwo(bytes) >= 0

Blob(what, k, n) == [i \in 0..n - 1 |-> <<what, k, i>>]
Put(m, base, data) ==
  [a \in DOMAIN m |->
     IF a - base \in DOMAIN data THEN data[a - base]
     ELSE IF data # <<>> /\ a \in base - Wound..base - 1 THEN Nothing
     ELSE m[a]]
Holds(base, data) == \A i \in DOMAIN data : mem[base + i] = data[i]

Weights(n) == Blob("weights", n, InfoOf(n).configFilter)
InputOf(n, j) == Blob("input", <<n, j>>, InputSize(n))
OutputOf(n, j) == Blob("output", <<n, j>>, Size(n, "Output"))
-------------------------------------------------------------------------------
Go(l) == at' = l
Raise == Go("raised") /\ UNCHANGED <<place, mem>>
Arguments == UNCHANGED <<network, align, guard, dumpdir>>

PlaceInit ==
  /\ network \in Networks /\ align \in Aligns /\ guard \in Guards
  /\ dumpdir \in Dumpdirs
  /\ dumps = {} /\ place = Nothing
  /\ mem = [a \in 0..Capacity - 1 |-> Nothing]
  /\ at = "compile" /\ job = 0 /\ out = Nothing

\* regenerate_ddr_buffer_info and the two steps after it: the compiler fails, or
\* writes its dump over an older one of that network; the dump that is found
\* must be the only one.
Found(ds) == Cardinality(ds) = 1

Compile ==
  /\ at = "compile"
  /\ \/ Raise /\ UNCHANGED dumps
     \/ /\ dumps' = dumps \cup {network}
        /\ IF Found(dumps') /\ Usable(InfoOf(network))
           THEN /\ \E n \in {CHOOSE d \in dumps' : TRUE} : place' = Resolved(n, align, guard)
                /\ Go("weights")
                /\ UNCHANGED mem
           ELSE Raise
  /\ Arguments /\ UNCHANGED <<job, out>>

\* load_config_filter and load_input check the length against the layout.
LoadConfigFilter ==
  /\ at = "weights"
  /\ IF InfoOf(network).configFilter = InfoOf(place.network).configFilter
     THEN mem' = Put(mem, place.config, Weights(network)) /\ Go("input") /\ UNCHANGED place
     ELSE Raise
  /\ Arguments /\ UNCHANGED <<dumps, job, out>>

LoadInput ==
  /\ at = "input" /\ job < MaxJobs
  /\ IF InputSize(network) = InputSize(place.network)
     THEN /\ mem' = Put(mem, place.input, InputOf(network, job + 1))
          /\ job' = job + 1
          /\ Go("run")
          /\ UNCHANGED place
     ELSE Raise /\ UNCHANGED job
  /\ Arguments /\ UNCHANGED <<dumps, out>>

\* The device: it reads weights and input, fills its scratch space and writes
\* the output, right behind the input.
Device ==
  LET computed == IF Holds(place.config, Weights(network)) /\ Holds(place.input, InputOf(network, job))
                  THEN OutputOf(network, job)
                  ELSE Blob("garbage", 0, Size(network, "Output"))
      scratched == Put(mem, place.scratch, Blob("scratch", job, InfoOf(network).inter))
  IN mem' = Put(scratched, place.output, computed)

\* The configuration's length is checked in the middle of the register writes.
RunInference ==
  /\ at = "run"
  /\ IF RangeValid(Size(place.network, "Config")) THEN Device /\ Go("read") /\ UNCHANGED place
     ELSE Raise
  /\ Arguments /\ UNCHANGED <<dumps, job, out>>

ReadBack ==
  /\ at = "read"
  /\ out' = [i \in 0..Size(place.network, "Output") - 1 |-> mem[place.output + i]]
  /\ Go("parity")
  /\ Arguments /\ UNCHANGED <<dumps, place, mem, job>>

\* The next inference: of the same network with its input alone, with the
\* weights as well (load_and_run), or of another network after a new layout.
Again(l) ==
  /\ at = "parity"
  /\ Go(l)
  /\ out' = Nothing
  /\ UNCHANGED <<align, guard, dumpdir, mem, job>>
SameNetwork ==
  /\ \E l \in {"input", "weights"} : Again(l)
  /\ UNCHANGED <<network, dumps, place>>
NextNetwork ==
  /\ Again("compile")
  /\ network' \in Networks \ {network}
  /\ dumps' = IF dumpdir = "own" THEN {} ELSE dumps
  /\ place' = Nothing

PlaceNext ==
  \/ Compile \/ LoadConfigFilter \/ LoadInput \/ RunInference \/ ReadBack
  \/ SameNetwork \/ NextNetwork

PlaceSpec == PlaceInit /\ [][PlaceNext]_placeVars
-------------------------------------------------------------------------------
\* What is read back is the network's own output for its own input, whatever was
\* written or wounded before: the guard bands keep every live word ("cannot
\* clobber anything live", hyperram_loader.py:58), and the layout is never one
\* of another network ("never guessed around", aot_layout.py:286).
OutputsSurvive ==
  at = "parity" => place.network = network /\ out = OutputOf(network, job)
===============================================================================
