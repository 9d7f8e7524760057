------------------------------- MODULE RunBench -------------------------------
(***************************************************************************)
(* The host's run_bench.py on a scoreboard, a record framer and an engine. *)
(*                                                                         *)
(* The framer is record_framer.sv seen record by record; its starts come   *)
(* from run_start through a pulse_sync.  The engine holds Slots records    *)
(* and retires them in order, when it likes.  The host makes one register  *)
(* access at a time, with at least one idle CSR cycle in between.          *)
(***************************************************************************)
EXTENDS Scoreboard

CONSTANTS
  N,             \* records of the image
  LoopChoices,   \* the loops arguments that run_benchmark is called with
  MaxRuns,       \* so many calls
  Slots,         \* records that fit in buffers and engine
  ClockRatio,    \* edges of one clock between two of the other, at most
  MaxIssued,     \* a looping framer is followed for that many records
  SoftResets     \* whether a client resets the scoreboard before a run

ASSUME RunBenchAssumption ==
  /\ N \in Nat \ {0} /\ Slots \in Nat \ {0} /\ ClockRatio \in Nat \ {0}
  /\ LoopChoices \subseteq Nat \ {0} /\ MaxRuns \in Nat \ {0}
  /\ MaxIssued \in Nat /\ SoftResets \in BOOLEAN

VARIABLES
  fst, frec,     \* the framer's state and its current record
  issue,         \* the record whose issue pulse is up
  inflight,      \* records filled and not yet retired
  offer,         \* the engine offers the retire of the oldest
  host, run,     \* where run_benchmark is, and in which call
  loops,         \* that call's argument
  got,           \* what the host has read
  instant,       \* history: the counters when it last read CYCLES_LO
  bucket,        \* the next bucket to read
  rested,        \* a CSR cycle has passed since the last access
  fresh,         \* framer and engine were at rest when this run was started
  skew           \* edges since the other clock's last one

envVars == <<fst, frec, issue, inflight, offer>>
hostVars == <<host, run, loops, got, instant, bucket, rested, fresh>>
vars == <<coolVars, hotVars, envVars, hostVars, skew>>

NothingRead == [counts |-> NoCounts, hist |-> 0]
NoAccess == [kind |-> "none"]
Target == N * loops

Init ==
  /\ SbInit
  /\ fst = "IDLE" /\ frec = <<0, 0>> /\ issue = None
  /\ inflight = <<>> /\ offer = FALSE
  /\ host = "configure" /\ run = 1 /\ loops \in LoopChoices /\ bucket = 0 /\ rested = TRUE /\ fresh = TRUE
  /\ got = NothingRead /\ instant = NoCounts
  /\ skew = 0
-------------------------------------------------------------------------------
(* The hot clock: front-end, framer and engine.                            *)

Retiring == IF offer THEN Head(inflight) ELSE None
Left == IF offer /\ ResReady THEN Tail(inflight) ELSE inflight

\* A framer that loops goes on and on: it is followed for MaxIssued records and
\* another pass in every later call.
Followed == frec[2] < MaxIssued + N * (run - frec[1])

\* NEXTR: where the framer goes after a record.  Records are counted over
\* the passes of a loop.
AfterRecord ==
  IF (frec[2] + 1) % conf.n # 0 \/ conf.loop THEN "REC" ELSE "FINISH"

Framer ==
  \/ /\ fst = "IDLE"
     /\ IF StartSeen THEN fst' = "REC" /\ frec' = <<run, 0>>
        ELSE UNCHANGED <<fst, frec>>
     /\ issue' = None /\ inflight' = Left
  \/ /\ fst = "REC"
     /\ IF Len(inflight) < Slots /\ Followed THEN fst' = "FILL" /\ issue' = frec
        ELSE fst' = "REC" /\ issue' = None
     /\ inflight' = Left
     /\ UNCHANGED frec
  \/ /\ fst = "FILL"
     /\ issue' = None /\ inflight' = Left
     /\ UNCHANGED <<fst, frec>>
  \/ /\ fst = "FILL"
     /\ inflight' = Append(Left, frec)
     /\ fst' = AfterRecord /\ frec' = <<frec[1], frec[2] + 1>>
     /\ issue' = None
  \/ /\ fst = "FINISH"
     /\ fst' = IF StartSeen THEN "IDLE" ELSE "FINISH"
     /\ issue' = None /\ inflight' = Left
     /\ UNCHANGED frec

\* A retire once offered is held until it is taken.
Engine ==
  offer' \in IF offer /\ ~ResReady THEN {TRUE}
             ELSE IF Left = <<>> THEN {FALSE} ELSE BOOLEAN

HotStep ==
  /\ skew > -ClockRatio
  /\ skew' = IF skew > 0 THEN -1 ELSE skew - 1
  /\ HotEdge(issue, Retiring)
  /\ Framer
  /\ Engine
  /\ UNCHANGED hostVars
-------------------------------------------------------------------------------
(* The cool clock, with or without an access of the host.                  *)

CoolStep(op) ==
  /\ skew < ClockRatio
  /\ skew' = IF skew < 0 THEN 1 ELSE skew + 1
  /\ CoolEdge(op)
  /\ UNCHANGED envVars

\* Framer and engine are done with the earlier runs, and no start is on its
\* way to them.  The clear of a soft reset may still be under way.
AtRest ==
  /\ fst \in {"IDLE", "FINISH"} /\ issue = None /\ inflight = <<>>
  /\ \A k \in 1..3 : startHot[k] = runStart
  /\ ~(clearing /\ pendingStart)

\* Nothing at all is under way.
Quiet ==
  /\ AtRest /\ InFifo = 0
  /\ ~clearing /\ clearHot = <<FALSE, FALSE>>

Idle ==
  /\ CoolStep(NoAccess)
  /\ rested' = TRUE
  /\ UNCHANGED <<host, run, loops, got, instant, bucket, fresh>>

Access(op) == rested /\ rested' = FALSE /\ CoolStep(op)

\* Scoreboard.soft_reset, by whoever used the board before.
SoftReset ==
  /\ host = "configure" /\ SoftResets
  /\ Access([kind |-> "softReset"])
  /\ UNCHANGED <<host, run, loops, got, instant, bucket, fresh>>

\* Scoreboard.configure.
Configure ==
  /\ host = "configure"
  /\ Access([kind |-> "configure", n |-> N])
  /\ host' = "start"
  /\ UNCHANGED <<run, loops, got, instant, bucket, fresh>>

\* Scoreboard.start.
Start ==
  /\ host = "start"
  /\ Access([kind |-> "start", loop |-> loops > 1])
  /\ host' = "latch"
  /\ fresh' = AtRest
  /\ UNCHANGED <<run, loops, got, instant, bucket>>

\* Scoreboard.snapshot: CYCLES_LO comes from the register, ...
Latch ==
  /\ host = "latch"
  /\ Access([kind |-> "latch"])
  /\ got' = [got EXCEPT !.counts = [NoCounts EXCEPT !.span = counters.span]]
  /\ instant' = counters
  /\ host' = "rest"
  /\ UNCHANGED <<run, loops, bucket, fresh>>

\* ... the rest from the snapshot, which only the host's own next latch
\* changes; then the loop decides.
ReadRest ==
  /\ host = "rest"
  /\ Access(NoAccess)
  /\ got' = [got EXCEPT !.counts = [snap EXCEPT !.span = got.counts.span]]
  /\ host' = CASE snap.done < Target -> "latch"
               [] snap.done = Target -> "hist"
               [] OTHER -> "refused"
  /\ bucket' = 0
  /\ UNCHANGED <<run, loops, instant, fresh>>

\* The deadline is minutes away: it passes only when nothing moves any more.
TimeOut ==
  /\ host = "latch" /\ Quiet
  /\ CoolStep(NoAccess)
  /\ host' = "stalled"
  /\ UNCHANGED <<run, loops, got, instant, bucket, rested, fresh>>

\* Scoreboard.read_histogram, bucket by bucket.
ReadBucket ==
  /\ host = "hist" /\ bucket < HistEntries
  /\ Access(NoAccess)
  /\ got' = [got EXCEPT !.hist = (IF bucket = 0 THEN 0 ELSE @) + hist[bucket]]
  /\ bucket' = bucket + 1
  /\ host' = IF bucket + 1 = HistEntries THEN "reported" ELSE "hist"
  /\ UNCHANGED <<run, loops, instant, fresh>>

\* The next call of run_benchmark.
NextRun ==
  /\ host \in {"reported", "refused", "stalled"}
  /\ run < MaxRuns
  /\ run' = run + 1
  /\ loops' \in LoopChoices
  /\ host' = "configure"
  /\ CoolStep(NoAccess)
  /\ got' = NothingRead /\ instant' = NoCounts
  /\ UNCHANGED <<bucket, rested, fresh>>

HostStep == Configure \/ Start \/ Latch \/ ReadRest \/ ReadBucket \/ NextRun
Next == HotStep \/ Idle \/ SoftReset \/ HostStep \/ TimeOut

Spec == Init /\ [][Next]_vars

\* Both clocks run, the memory fills what it was asked for, and the engine
\* retires what it holds.  The host owes nothing.
FairSpec ==
  /\ Spec
  /\ WF_vars(HotStep) /\ WF_vars(Idle)
  /\ SF_vars(HotStep /\ fst = "FILL" /\ fst' # "FILL")
  /\ SF_vars(HotStep /\ ~offer /\ offer')
-------------------------------------------------------------------------------
\* The first k records of this run.
Records(k) == {<<run, j>> : j \in 0..k - 1}
MatchesOf(k) == Cardinality({r \in Records(k) : Matches(r)})

\* What run_bench reports of a run begun with framer and engine at rest is that
\* run: every record scored as often as asked, each latency between a record's
\* own issue and retire, the span from the first issue to the last retire, and,
\* unless the framer loops on, as many histogram entries as inferences.  A clear
\* may be under way: then the START is dropped, and nothing is reported.  Of a
\* run begun over the records of an earlier one nothing is claimed: its own
\* START is ignored, and what is counted are the earlier run's.
ReportedRunsAreWhole ==
  host = "reported" /\ fresh =>
    /\ got.counts.lats = {<<r, r>> : r \in Records(Target)}
    /\ got.counts.span = <<<<run, 0>>, <<run, Target - 1>>>>
    /\ got.counts.passes = MatchesOf(Target)
    /\ loops = 1 => got.hist = Target

\* The six reads of a snapshot are of one instant, that of the first, though
\* events go on being counted between them; and in a run begun at rest they are
\* the counts of the records retired by then.
SnapshotIsOneInstant ==
  host \in {"latch", "hist", "refused"} /\ got.counts.done > 0 =>
    /\ got.counts = instant
    /\ fresh => /\ got.counts.span[2] = <<run, got.counts.done - 1>>
                /\ got.counts.passes = MatchesOf(got.counts.done)

\* The measurement path never clogs: whatever the engine holds is retired, and
\* whatever crossed into the event FIFO is taken out, with both clears and full
\* FIFOs on the way.
PathDrains == []<>(inflight = <<>> /\ InFifo = 0)

\* "clearing happens at run boundaries with no in-flight events"
\* (scoreboard.sv:143).
NoEventsInFlightAtAClear == clearing => inflight = <<>> /\ ts = <<>>
===============================================================================
