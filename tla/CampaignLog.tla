------------------------------ MODULE CampaignLog ------------------------------
(***************************************************************************)
(* What survives a crash of the CIFAR-10 campaign: results.jsonl, written  *)
(* through a buffer, and state.json, replaced whole (class Progress of     *)
(* run_cifar10_jtag.py), as Runner.run, Runner.reprogram and main use      *)
(* them.  The file is a sequence of pieces: a record is written as its two *)
(* halves and a newline, so that a kill can leave a record cut in two or   *)
(* one without its newline.  Campaign says which images a batch reports;   *)
(* here any number of the pending ones, in order.  A definition whose name *)
(* ends in _X is the definition before the underscore with the slip X.     *)
(***************************************************************************)
EXTENDS Integers, Sequences, FiniteSets

CONSTANTS
  Wanted,           \* the image indices to score
  MaxProgrammings,  \* bound: programmings over all sessions
  MaxKills,         \* bound: how often the process is killed
  Spills            \* does the buffer overflow into the file before a flush?

ASSUME LogAssumption ==
  /\ Wanted \subseteq Nat
  /\ IsFiniteSet(Wanted)
  /\ MaxProgrammings \in Nat
  /\ MaxKills \in Nat
  /\ Spills \in BOOLEAN

VARIABLES
  file,      \* results.jsonl
  buffer,    \* the pieces written and not yet in the file
  state,     \* prog_cycle of state.json, -1 while there is no such file
  phase,     \* where the process is, "down" if there is none
  pending,   \* images the session has still to score
  cycle,     \* runner.prog_cycle
  programmed,\* history: programmings of the board so far
  kills      \* history: kills so far

vars == <<file, buffer, state, phase, pending, cycle, programmed, kills>>

\* The record of image i, scored in cycle c, by the p-th programming (which the
\* file does not say).
Scored(i, c, p) == [i |-> i, cycle |-> c, programming |-> p]
Records == [i : Wanted, cycle : Int, programming : Nat]
Newline == [half |-> "newline"]
Halves(r) == <<[half |-> "first", rec |-> r], [half |-> "second", rec |-> r]>>
Line_Bare(r) == Halves(r)
Line(r) == Halves(r) \o <<Newline>>

\* A line decodes when it is one whole record; the last may lack its newline.
DecodesAt(s, k, r) ==
  /\ k + 1 <= Len(s)
  /\ SubSeq(s, k, k + 1) = Halves(r)
  /\ k = 1 \/ s[k - 1] = Newline
  /\ k + 1 = Len(s) \/ s[k + 2] = Newline
LinesIn(s) == {k \in DOMAIN s : s[k] # Newline /\ DecodesAt(s, k, s[k].rec)}
RecordsIn(s) == {s[k].rec : k \in LinesIn(s)}
DoneIndices_None == {}      \* every session starts from scratch
DoneIndices == {r.i : r \in RecordsIn(file)}

Init ==
  /\ file = <<>>
  /\ buffer = <<>>
  /\ state = -1
  /\ phase = "down"
  /\ pending = {}
  /\ cycle = -1
  /\ programmed = 0
  /\ kills = 0
-------------------------------------------------------------------------------
Resumed == state

\* main with --resume: what the file decodes to is not scored again, and the
\* cycle numbering goes on.
Start ==
  /\ phase = "down"
  /\ pending' = Wanted \ DoneIndices
  /\ cycle' = Resumed
  /\ phase' = IF pending' = {} THEN "close" ELSE "program"
  /\ UNCHANGED <<file, buffer, state, programmed, kills>>

\* Runner.reprogram up to its last statement.
Reprogram ==
  /\ phase = "program"
  /\ programmed < MaxProgrammings
  /\ programmed' = programmed + 1
  /\ cycle' = cycle + 1
  /\ phase' = "programmed"
  /\ UNCHANGED <<file, buffer, state, pending, kills>>

\* save_state, at the end of reprogram and of every batch.
SavedAfterReprogram_Not == state
SavedAfterReprogram == cycle

SaveReprogram ==
  /\ phase = "programmed"
  /\ state' = SavedAfterReprogram
  /\ phase' = "loop"
  /\ UNCHANGED <<file, buffer, pending, cycle, programmed, kills>>

SaveBatch ==
  /\ phase = "flushed"
  /\ state' = cycle
  /\ phase' \in IF pending = {} THEN {"close"} ELSE {"loop", "program"}
  /\ UNCHANGED <<file, buffer, pending, cycle, programmed, kills>>

\* The next pending image came back good and is appended.
AppendRecord ==
  /\ phase = "loop"
  /\ \E i \in pending :
       /\ \A j \in pending : i <= j
       /\ buffer' = buffer \o Line(Scored(i, cycle, programmed))
       /\ pending' = pending \ {i}
  /\ UNCHANGED <<file, state, phase, cycle, programmed, kills>>

\* A full buffer writes its front to the file, wherever that cuts a record.
Spill ==
  /\ Spills
  /\ buffer # <<>>
  /\ file' = Append(file, Head(buffer))
  /\ buffer' = Tail(buffer)
  /\ UNCHANGED <<state, phase, pending, cycle, programmed, kills>>

\* The end of a batch: flush and fsync.
Flush ==
  /\ phase = "loop"
  /\ file' = file \o buffer
  /\ buffer' = <<>>
  /\ phase' = "flushed"
  /\ UNCHANGED <<state, pending, cycle, programmed, kills>>

\* A WorkerError or a KeyboardInterrupt: the finally clause closes the file.
Interrupt ==
  /\ phase \in {"program", "programmed", "loop", "flushed"}
  /\ kills < MaxKills
  /\ kills' = kills + 1
  /\ file' = file \o buffer
  /\ buffer' = <<>>
  /\ phase' = "down"
  /\ UNCHANGED <<state, pending, cycle, programmed>>

\* The process is killed: what is in its buffer is gone.
Kill ==
  /\ phase \notin {"down", "reported"}
  /\ kills < MaxKills
  /\ kills' = kills + 1
  /\ buffer' = <<>>
  /\ phase' = "down"
  /\ UNCHANGED <<file, state, pending, cycle, programmed>>

\* Everything is scored: the file is closed and the final report is computed
\* from what it decodes to.
Report ==
  /\ phase = "close"
  /\ file' = file \o buffer
  /\ buffer' = <<>>
  /\ phase' = "reported"
  /\ UNCHANGED <<state, pending, cycle, programmed, kills>>

Next ==
  \/ Start \/ Reprogram \/ SaveReprogram \/ SaveBatch \/ AppendRecord \/ Spill
  \/ Flush \/ Interrupt \/ Kill \/ Report

Spec == Init /\ [][Next]_vars
-------------------------------------------------------------------------------
\* No image counts twice in the report, however often the campaign was cut and
\* resumed: accuracy is computed over images, not over lines.
NoImageTwice ==
  \A k, l \in LinesIn(file) : file[k].rec.i = file[l].rec.i => k = l

\* "Images per cycle stays a faithful account of the whole campaign"
\* (run_cifar10_jtag.py:808): records with the same cycle number were scored by
\* the same programming, across crashes and resumes.
CyclesAreFaithful ==
  \A r, s \in RecordsIn(file) :
    r.cycle = s.cycle => r.programming = s.programming

\* A kill costs the report at most the two images of a line that was run into
\* another, and a campaign without kills loses none, wherever the buffer cuts.
LossPerKill ==
  phase = "reported" => Cardinality(Wanted \ DoneIndices) <= 2 * kills

\* "A resumed run and an uninterrupted run produce identical reports"
\* (run_cifar10_jtag.py:714): the report of a finished campaign has every image.
ReportIsComplete == phase = "reported" => DoneIndices = Wanted
===============================================================================
