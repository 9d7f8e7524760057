------------------------------ MODULE Estimate ------------------------------
(* estimate.py: a tool compiles a network only to estimate its throughput,  *)
(* its report is parsed, and the number goes into a result file with the    *)
(* hashes of the network's two files.  Estimates run side by side, may be   *)
(* killed, and the network is regenerated meanwhile.                        *)
EXTENDS Integers, FiniteSets, Sequences

CONSTANTS
  Callers,          \* estimates that run at a time
  Bandwidths,       \* what tells one estimate's file name from another's
  Splits,           \* subgraphs the tool may split the network into
  MaxGenerations,   \* times the network's files are written
  MaxEstimates      \* estimates begun in a behaviour

ASSUME EstimateAssumption ==
  /\ Splits \subseteq Nat \ {0}
  /\ MaxGenerations \in Nat \ {0}
  /\ MaxEstimates \in Nat

VARIABLES
  ir,          \* generation of the network's xml and bin files, and of its manifest (0: none)
  workDirs,    \* the work directories that were made, each with the reports in it
  estep,       \* per caller: where build_estimate is
  held,        \* per caller: its arguments and variables
  estimates    \* the result files

estimateVars == <<ir, workDirs, estep, held, estimates>>

NoCall == [membw |-> 0, dir |-> 0, fps |-> <<>>, xml |-> 0, bin |-> 0, touched |-> FALSE]

EstimateInit ==
  /\ ir = [xml |-> 1, bin |-> 1, manifest |-> 1]
  /\ workDirs = <<>> /\ estimates = {}
  /\ estep = [c \in Callers |-> "idle"] /\ held = [c \in Callers |-> NoCall]

To(c, step, call) == estep' = [estep EXCEPT ![c] = step] /\ held' = [held EXCEPT ![c] = call]

\* An EstimatorError or a kill: nothing is written.
GiveUpEstimate(c) == To(c, "idle", NoCall)

\* A throughput line: of which generation, at which bandwidth, for which part.
WholeGraph == 0
Line(i, w, part) == <<i, w, part>>

\* The reports of a compile into n subgraphs: one of the whole graph; or one of each
\* subgraph, and perhaps a merged one, which ends in the line of the whole graph.
Reports0(i, w, n, merged) ==
  IF n = 1 THEN {[merged |-> FALSE, lines |-> <<Line(i, w, WholeGraph)>>]}
  ELSE {[merged |-> FALSE, lines |-> <<Line(i, w, j)>>] : j \in 1..n}
       \cup {[merged |-> TRUE, lines |-> [j \in 1..n |-> Line(i, w, j)] \o <<Line(i, w, WholeGraph)>>] :
               m \in {merged} \cap {TRUE}}

-----------------------------------------------------------------------------
(* run_estimator.                                                           *)

\* mkdtemp: a directory nobody has; a plain name would be everybody's.
WorkDir_ByModel == 1

WorkDir == Len(workDirs) + 1

BeginEstimate(c, w) ==
  /\ estep[c] = "idle" /\ Len(workDirs) < MaxEstimates
  /\ workDirs' = Append(workDirs, {})
  /\ To(c, "compile", [NoCall EXCEPT !.membw = w, !.dir = WorkDir])
  /\ UNCHANGED <<ir, estimates>>

\* dla_compiler reads the files as they are and adds its reports to the directory.
CompileEstimate(c) ==
  /\ estep[c] = "compile" /\ ir.xml = ir.bin
  /\ \E n \in Splits, merged \in BOOLEAN :
       workDirs' = [workDirs EXCEPT ![held[c].dir] = @ \cup Reports0(ir.xml, held[c].membw, n, merged)]
  /\ To(c, "parse", [held[c] EXCEPT !.touched = FALSE])
  /\ UNCHANGED <<ir, estimates>>

\* The finally clause removes the directory, unless --keep-work-dir.
Cleaned(c, keep) == IF keep THEN workDirs ELSE [workDirs EXCEPT ![held[c].dir] = {}]

CompileFails(c, keep) ==
  /\ estep[c] = "compile"
  /\ workDirs' = Cleaned(c, keep) /\ GiveUpEstimate(c)
  /\ UNCHANGED <<ir, estimates>>

\* A merged report, or the only one; several without a merged one are refused.
Reported(reports) ==
  IF \E r \in reports : r.merged THEN {r \in reports : r.merged}
  ELSE {r \in reports : Cardinality(reports) = 1}

\* parse_performance_report: the last throughput of the file.
Headline(r) == r.lines[Len(r.lines)]

ParseReport(c, keep) ==
  /\ estep[c] = "parse"
  /\ workDirs' = Cleaned(c, keep)
  /\ \/ \E r \in Reported(workDirs[held[c].dir]) : To(c, "hash", [held[c] EXCEPT !.fps = Headline(r)])
     \/ Reported(workDirs[held[c].dir]) = {} /\ GiveUpEstimate(c)
  /\ UNCHANGED <<ir, estimates>>

-----------------------------------------------------------------------------
(* build_estimate and main.                                                 *)

HashXml(c) ==
  /\ estep[c] = "hash" /\ To(c, "hashBin", [held[c] EXCEPT !.xml = ir.xml])
  /\ UNCHANGED <<ir, workDirs, estimates>>

HashBin(c) ==
  /\ estep[c] = "hashBin" /\ To(c, "write", [held[c] EXCEPT !.bin = ir.bin])
  /\ UNCHANGED <<ir, workDirs, estimates>>

\* The tool's version cannot be found out: an EstimatorError too.
VersionFails(c) ==
  /\ estep[c] = "write" /\ GiveUpEstimate(c)
  /\ UNCHANGED <<ir, workDirs, estimates>>

\* The manifest's hashes, if it is there, are compared with the fresh ones.
Mismatch(c) == ir.manifest # 0 /\ ~(held[c].xml = ir.manifest /\ held[c].bin = ir.manifest)

Result(c) ==
  [membw |-> held[c].membw, fps |-> held[c].fps, xml |-> held[c].xml, bin |-> held[c].bin,
   mismatch |-> Mismatch(c), touched |-> held[c].touched]

\* The result replaces an earlier one of the same name.
WriteEstimate(c) ==
  /\ estep[c] = "write"
  /\ estimates' = {e \in estimates : e.membw # held[c].membw} \cup {Result(c)}
  /\ To(c, "idle", NoCall)
  /\ UNCHANGED <<ir, workDirs>>

-----------------------------------------------------------------------------
(* Around it.                                                               *)

KillEstimate(c) == estep[c] # "idle" /\ GiveUpEstimate(c) /\ UNCHANGED <<ir, workDirs, estimates>>

\* Quantisation writes xml and bin, the manifest is another program's and may lack.
Touch(file) ==
  /\ ir' = [ir EXCEPT ![file] = @ + 1] /\ ir'[file] <= MaxGenerations
  /\ file = "xml" => ir.xml = ir.bin
  /\ file = "bin" => ir.bin < ir.xml
  /\ held' = [c \in Callers |-> [held[c] EXCEPT !.touched = estep[c] # "idle"]]
  /\ UNCHANGED <<workDirs, estep, estimates>>

Manifest(i) ==
  /\ i \in {0, ir.xml} \ {ir.manifest} /\ ir.xml = ir.bin
  /\ ir' = [ir EXCEPT !.manifest = i]
  /\ UNCHANGED <<workDirs, estep, held, estimates>>

EstimateNext ==
  \/ \E c \in Callers :
       \/ \E w \in Bandwidths : BeginEstimate(c, w)
       \/ CompileEstimate(c) \/ HashXml(c) \/ HashBin(c) \/ VersionFails(c) \/ WriteEstimate(c) \/ KillEstimate(c)
       \/ \E keep \in BOOLEAN : CompileFails(c, keep) \/ ParseReport(c, keep)
  \/ Touch("xml") \/ Touch("bin") \/ \E i \in 0..MaxGenerations : Manifest(i)

EstimateSpec == EstimateInit /\ [][EstimateNext]_estimateVars

-----------------------------------------------------------------------------
(* Properties.                                                              *)

\* A result file holds the throughput of the whole graph at the bandwidth it is named
\* for, with the hashes of the files it was compiled from unless they were written
\* between the compile and the hashing, for which they are read again.
EstimateIsTraceable ==
  \A e \in estimates : \E i \in 1..MaxGenerations :
    /\ e.fps = Line(i, e.membw, WholeGraph)
    /\ e.touched \/ (e.xml = i /\ e.bin = i)
=============================================================================
