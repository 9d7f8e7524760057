------------------------------- MODULE Sweeps -------------------------------
(***************************************************************************)
(* The compile sweeps that turn Quartus reports into result files: L1      *)
(* (scripts/sweep_l1.py) and L0b (scripts/sweep_l0b.py), and the summary   *)
(* over all results (scripts/make_report.py).                              *)
(*                                                                         *)
(* A number in a report is represented by the version of the design it was *)
(* measured on, Missing when the report or the number is not there.  The   *)
(* design may be edited, a tool may fail and a sweep may be killed at any  *)
(* point; what is on disk stays, and the next sweep finds it.              *)
(***************************************************************************)
EXTENDS Integers, Sequences, FiniteSets

CONSTANTS
    Grid,       \* the grid points of a sweep, in its order
    Dates,      \* the dates a result file may carry
    MaxDesign,  \* bound: versions of the design
    MaxSweeps   \* bound: invocations of the sweeps

\* A grid lists each of its points once (DEFAULT_GRID, grid).
ASSUME GridAssumption == \A i, j \in 1..Len(Grid) : Grid[i] = Grid[j] => i = j

VARIABLES
    design,   \* the version of the RTL in the working tree
    report,   \* sweep, point, kind of report -> the version it describes
    result,   \* sweep, date, point -> the numbers of the result file
    curve,    \* sweep -> the generated curve: point -> number
    summary,  \* results/reports/summary.md: the result files it shows
    sweep,    \* the invocation that is running, Idle when none is
    sweeps    \* invocations so far

sweepVars == <<design, report, result, curve, summary, sweep, sweeps>>

Missing == 0
Tools == {"l1", "l0b"}
Points == {Grid[i] : i \in 1..Len(Grid)}
Reports == {"syn", "fit", "retime", "sta"}
Idle == [tool |-> "none"]
NoResult == [none |-> TRUE]

(* The reports a successful stage of the flow rewrites, and the stages.     *)
Stages == <<"syn", "fit", "sta">>
Rewrites(stage) == IF stage = "fit" THEN {"fit", "retime"} ELSE {stage}

SweepsInit ==
    /\ design = 1
    /\ report = [t \in Tools |-> [p \in Points |-> [k \in Reports |-> Missing]]]
    /\ result = [t \in Tools |-> [d \in Dates |-> [p \in Points |-> NoResult]]]
    /\ curve = [t \in Tools |-> [p \in Points |-> Missing]]
    /\ summary = {}
    /\ sweep = Idle
    /\ sweeps = 0

-----------------------------------------------------------------------------
(* The arguments: the points wanted (a name outside the grid is refused or  *)
(* ignored), whether the reports are only parsed again, and the date; the   *)
(* project and the revisions' settings are written before anything runs.    *)
BeginSweep(t, wanted, skip, d) ==
    /\ sweep = Idle
    /\ sweeps < MaxSweeps
    /\ sweeps' = sweeps + 1
    /\ sweep' = [tool |-> t, skip |-> skip, date |-> d, since |-> design,
                 wanted |-> wanted, todo |-> wanted,
                 pc |-> IF t = "l1" /\ ~ skip THEN "compile" ELSE "point",
                 stage |-> [p \in Points |-> IF p \in wanted /\ ~ skip THEN 1 ELSE 4],
                 built |-> [p \in Points |-> Missing],
                 obtained |-> [p \in Points |-> NoResult], failed |-> {}]
    /\ UNCHANGED <<design, report, result, curve, summary>>

BeginL1 == \E wanted \in SUBSET Points, skip \in BOOLEAN, d \in Dates : BeginSweep("l1", wanted, skip, d)

BeginL0b == \E wanted \in (SUBSET Points) \ {{}}, skip \in BOOLEAN, d \in Dates :
                BeginSweep("l0b", wanted, skip, d)

(* The point a sweep is at: the first in the grid of those it has still to  *)
(* do.                                                                      *)
Current(p) ==
    /\ p \in sweep.todo
    /\ \E i \in 1..Len(Grid) : Grid[i] = p /\ \A j \in 1..(i - 1) : Grid[j] \notin sweep.todo

(* One stage of the flow for p: it takes up the design when it synthesizes, *)
(* and rewrites its reports when it succeeds.  A failing stage leaves each  *)
(* of its reports as it was or without the numbers, and ends the flow.      *)
Works(p, version) ==
    LET t == sweep.tool  stage == Stages[sweep.stage[p]]
    IN  report' = [report EXCEPT ![t][p] =
                      [k \in Reports |-> IF k \in Rewrites(stage) THEN version ELSE @[k]]]

Breaks(p) ==
    LET t == sweep.tool  stage == Stages[sweep.stage[p]]
    IN  \E kept \in BOOLEAN :
            report' = [report EXCEPT ![t][p] =
                [k \in Reports |-> IF k \in Rewrites(stage) /\ ~ kept THEN Missing ELSE @[k]]]

(* A plausible bug: the return codes of the tools are not looked at.        *)
AfterFailure_Ignored(p) == [sweep EXCEPT !.stage[p] = 4]

(* L1 ignores the return code of the flow, L0b gives the point up.          *)
AfterFailure(p) ==
    IF sweep.tool = "l1" THEN [sweep EXCEPT !.stage[p] = 4]
    ELSE [sweep EXCEPT !.stage[p] = 4, !.failed = @ \union {p}, !.todo = @ \ {p}]

RunStage(p) ==
    LET version == IF sweep.stage[p] = 1 THEN design ELSE sweep.built[p]
    IN  \/ /\ Works(p, version)
           /\ sweep' = [sweep EXCEPT !.stage[p] = @ + 1, !.built[p] = version]
        \/ /\ Breaks(p)
           /\ sweep' = AfterFailure(p)

(* L1 compiles all its points, several at a time; L0b the one it is at.     *)
CompileStage ==
    /\ \E p \in Points :
          /\ sweep.stage[p] < 4
          /\ sweep.tool = "l0b" => Current(p)
          /\ RunStage(p)
    /\ UNCHANGED <<design, result, curve, summary, sweeps>>

Compiled ==
    /\ sweep.pc = "compile"
    /\ \A p \in Points : sweep.stage[p] = 4
    /\ sweep' = [sweep EXCEPT !.pc = "point"]
    /\ UNCHANGED <<design, report, result, curve, summary, sweeps>>

-----------------------------------------------------------------------------
(* What the reports of a point say.  L1 takes what it can find, L0b raises  *)
(* when the fit summary or the timing report lacks its numbers.             *)
NumbersL1(r) == [util |-> r["fit"], fmax |-> r["sta"], text |-> r["retime"]]
NumbersL0b(r) == [util |-> r["fit"], fmax |-> r["sta"], text |-> r["syn"]]

ReportsParse(t, p) == t = "l1" \/ (report[t][p]["fit"] # Missing /\ report[t][p]["sta"] # Missing)

Write(p, numbers) ==
    /\ result' = [result EXCEPT ![sweep.tool][sweep.date][p] = numbers]
    /\ sweep' = [sweep EXCEPT !.todo = @ \ {p}, !.obtained[p] = numbers]

EmitJson(p) == sweep.tool = "l1" /\ Write(p, NumbersL1(report["l1"][p]))

WriteResultJson(p) ==
    /\ sweep.tool = "l0b" /\ ReportsParse(sweep.tool, p)
    /\ Write(p, NumbersL0b(report["l0b"][p]))

(* A plausible bug: a point whose reports do not parse is only warned of.   *)
ParseError_Warns(p) ==
    /\ ~ ReportsParse(sweep.tool, p)
    /\ sweep' = [sweep EXCEPT !.todo = @ \ {p}]
    /\ UNCHANGED result

ParseError(p) ==
    /\ ~ ReportsParse(sweep.tool, p)
    /\ sweep' = [sweep EXCEPT !.todo = @ \ {p}, !.failed = @ \union {p}]
    /\ UNCHANGED result

Extract ==
    /\ sweep.pc = "point"
    /\ \E p \in Points :
          /\ Current(p)
          /\ sweep.stage[p] = 4
          /\ EmitJson(p) \/ WriteResultJson(p) \/ ParseError(p)
    /\ UNCHANGED <<design, report, curve, summary, sweeps>>

Shown(r) == IF r = NoResult THEN Missing ELSE r.fmax

(* A plausible bug: L1 too draws only the points of this run.               *)
CurveOfL1_ThisRun == [p \in Points |-> Shown(sweep.obtained[p])]

(* L1 draws its curve from the result files of the date, whichever run      *)
(* wrote them; L0b from the points of this run, if it has any.              *)
CurveOfL1 == [p \in Points |-> Shown(result["l1"][sweep.date][p])]

CurveOfL0b ==
    IF \A p \in Points : sweep.obtained[p] = NoResult THEN curve["l0b"]
    ELSE [p \in Points |-> Shown(sweep.obtained[p])]

DrawCurve ==
    /\ sweep.pc = "point" /\ sweep.todo = {}
    /\ curve' = [curve EXCEPT ![sweep.tool] = IF sweep.tool = "l1" THEN CurveOfL1 ELSE CurveOfL0b]
    /\ sweep' = [sweep EXCEPT !.pc = IF sweep.failed = {} THEN "exit0" ELSE "exit1"]
    /\ UNCHANGED <<design, report, result, summary, sweeps>>

Exit ==
    /\ sweep.pc \in {"exit0", "exit1"}
    /\ sweep' = Idle
    /\ UNCHANGED <<design, report, result, curve, summary, sweeps>>

KillSweep ==
    /\ sweep' = Idle
    /\ UNCHANGED <<design, report, result, curve, summary, sweeps>>

-----------------------------------------------------------------------------
(* results/schema/result.schema.json: the numbers, when given, are numbers. *)
Valid(r) == r.fmax # Missing /\ r.util # Missing

ResultFiles == {f \in Tools \X Dates \X Points : result[f[1]][f[2]][f[3]] # NoResult}

Summary == {<<f, result[f[1]][f[2]][f[3]]>> : f \in ResultFiles}

(* make_report refuses to write while any result is invalid.                *)
MakeReport ==
    /\ sweep = Idle
    /\ \A f \in ResultFiles : Valid(result[f[1]][f[2]][f[3]])
    /\ summary' = Summary
    /\ UNCHANGED <<design, report, result, curve, sweep, sweeps>>

Edit ==
    /\ design < MaxDesign
    /\ design' = design + 1
    /\ UNCHANGED <<report, result, curve, summary, sweep, sweeps>>

SweepsNext ==
    \/ BeginL1 \/ BeginL0b
    \/ Edit
    \/ MakeReport
    \/ sweep # Idle /\ (CompileStage \/ Compiled \/ Extract \/ DrawCurve \/ Exit \/ KillSweep)

SweepsSpec == SweepsInit /\ [][SweepsNext]_sweepVars

-----------------------------------------------------------------------------
(* The result file an L0b run that compiles writes takes all its numbers    *)
(* from one compile of this run: a stage that fails must not let the        *)
(* reports of an earlier design through (compile_point, extract_point).     *)
ResultIsOneCompile ==
    [][(sweep # Idle /\ sweep.tool = "l0b" /\ ~ sweep.skip) =>
         \A d \in Dates, p \in Points : result'["l0b"][d][p] # result["l0b"][d][p] =>
            LET r == result'["l0b"][d][p]
            IN  r.util = r.fmax /\ r.text = r.fmax /\ r.fmax >= sweep.since]_sweepVars

(* A sweep that exits with 0 leaves the files and the curve in step: after   *)
(* L0b every point asked for has a result with all numbers, and the curve   *)
(* shows just these; after L1 the curve shows what the files of its date    *)
(* hold, those of earlier, other and killed runs included (failed, main,    *)
(* generate_report).                                                        *)
CleanExitIsComplete ==
    (sweep # Idle /\ sweep.pc = "exit0") =>
        IF sweep.tool = "l0b"
        THEN \A p \in sweep.wanted :
               /\ result["l0b"][sweep.date][p] # NoResult
               /\ Valid(result["l0b"][sweep.date][p])
               /\ curve["l0b"][p] = result["l0b"][sweep.date][p].fmax
        ELSE \A p \in Points : curve["l1"][p] = Shown(result["l1"][sweep.date][p])

=============================================================================
