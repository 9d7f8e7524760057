------------------------------ MODULE LiveViewer ------------------------------
(***************************************************************************)
(* The live viewer of a campaign (live_viewer.py) next to the campaign it  *)
(* watches: it tails results.jsonl while the file grows, is cut by kills   *)
(* and grows on after a resume, and counts what it has seen.  The runner's *)
(* own report counts the same file when the campaign is over.              *)
(***************************************************************************)
EXTENDS CampaignLog, SequencesExt

CONSTANTS
  Verdict,    \* how the record of an image ends: "ok", "miss" or "stale"
  Modes       \* of "live", "replay" and "smoke", how the viewer is started

ASSUME ViewerAssumption ==
  /\ Verdict \in [Wanted -> {"ok", "miss", "stale"}]
  /\ Modes \subseteq {"live", "replay", "smoke"}

VARIABLES
  mode,      \* how it runs, "over" after a smoke test
  pos,       \* RecordSource._pos: the pieces read so far
  backlog,   \* records read and not yet taken
  taken,     \* history: the records added to the statistics, in order
  stats,     \* Stats
  panel,     \* the record on display
  report     \* what the runner's report counted, once there is one

viewer == <<mode, pos, backlog, taken, stats, panel>>
lvars == <<vars, viewer, report>>

NoRecord == [i |-> -1]
NoReport == [scored |-> 0, stale |-> 0, correct |-> 0]
-------------------------------------------------------------------------------
(* RecordSource.poll *)

\* A line counts once its newline is there: a torn tail waits for its rest.
ReadTo_End == Len(file)
ReadTo ==
  LET ends == {k \in pos + 1..Len(file) : file[k] = Newline}
  IN IF ends = {} THEN pos ELSE CHOOSE k \in ends : \A j \in ends : j <= k

\* The first pieces of the lines that decode, up to there.
LinesRead == {k \in LinesIn(file) : pos < k /\ k <= ReadTo}
\* They come in their order; of a finite set there is one such sequence.
InOrder(S) ==
  {s \in [1..Cardinality(S) -> S] :
     ToSet(s) = S /\ \A m, n \in DOMAIN s : m < n => s[m] < s[n]}
Poll == {[n \in DOMAIN starts |-> file[starts[n]].rec] : starts \in InOrder(LinesRead)}
-------------------------------------------------------------------------------
(* Stats, the panel, and the timer that drives them *)

Add_StaleIsMiss(s, r) ==
  [s EXCEPT !.n = @ + 1, !.correct = @ + (IF Verdict[r.i] = "ok" THEN 1 ELSE 0)]
Add(s, r) ==
  CASE Verdict[r.i] = "stale" -> [s EXCEPT !.n = @ + 1, !.stale = @ + 1]
    [] Verdict[r.i] = "ok" -> [s EXCEPT !.n = @ + 1, !.correct = @ + 1]
    [] OTHER -> [s EXCEPT !.n = @ + 1]
AddAll(s, records) == FoldLeft(Add, s, records)

\* Live, everything new counts and the newest is shown; a replay takes one.
Taken(records) == IF mode = "replay" THEN SubSeq(records, 1, 1) ELSE records
Left(records) == IF mode = "replay" THEN Tail(records) ELSE <<>>

Tick ==
  /\ mode \in {"live", "replay"}
  /\ pos' = ReadTo
  /\ \E polled \in Poll :
       LET records == backlog \o polled
       IN IF records = <<>> THEN UNCHANGED <<backlog, taken, stats, panel>>
          ELSE /\ taken' = taken \o Taken(records)
               /\ stats' = AddAll(stats, Taken(records))
               /\ panel' = Last(Taken(records))
               /\ backlog' = Left(records)
  /\ UNCHANGED <<vars, mode, report>>

\* --smoke: what the file holds now, once, and no window.
Smoke ==
  /\ mode = "smoke"
  /\ pos' = ReadTo
  /\ taken' \in Poll
  /\ stats' = AddAll(stats, taken')
  /\ mode' = "over"
  /\ UNCHANGED <<vars, backlog, panel, report>>
-------------------------------------------------------------------------------
(* report() over what the log decodes to *)

HowMany(records, v) == Cardinality({r \in records : Verdict[r.i] = v})
ReportOn(records) ==
  [scored |-> HowMany(records, "ok") + HowMany(records, "miss"),
   stale |-> HowMany(records, "stale"), correct |-> HowMany(records, "ok")]

CampaignStep ==
  /\ Next
  /\ report' = IF phase' = "reported" THEN ReportOn(RecordsIn(file')) ELSE NoReport
  /\ UNCHANGED viewer

ViewerInit ==
  /\ Init
  /\ mode \in Modes
  /\ pos = 0
  /\ backlog = <<>>
  /\ taken = <<>>
  /\ stats = [n |-> 0, correct |-> 0, stale |-> 0]
  /\ panel = NoRecord
  /\ report = NoReport

ViewerNext == CampaignStep \/ Tick \/ Smoke

ViewerSpec == ViewerInit /\ [][ViewerNext]_lvars
FairViewerSpec == ViewerSpec /\ WF_lvars(Tick)
-------------------------------------------------------------------------------
\* However the file grows, is cut and is appended to behind a torn line, what
\* the viewer has counted or keeps is what the file decodes to up to where it
\* read: no record twice, none half read, none skipped.
ViewerFollowsTheLog ==
  mode # "over" =>
    /\ ToSet(taken \o backlog) =
         {file[k].rec : k \in {l \in LinesIn(file) : l <= pos}}
    /\ Len(taken \o backlog) = Cardinality(ToSet(taken \o backlog))

\* A viewer that keeps running ends with the figures of the campaign's report,
\* but for a last line that never got its newline, which only the report reads.
ViewerReachesTheReport ==
  [](phase = "reported" /\ mode \in {"live", "replay"} /\ Last(file) = Newline =>
       <>(stats = [n |-> report.scored + report.stale, correct |-> report.correct,
                   stale |-> report.stale]))
===============================================================================
