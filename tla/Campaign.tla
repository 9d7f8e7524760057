------------------------------- MODULE Campaign -------------------------------
(***************************************************************************)
(* The CIFAR-10 campaign of sw/ph4_jtag_host: the Runner of                *)
(* run_cifar10_jtag.py, the batch loop of jtag_worker.tcl, and the device  *)
(* as the two use it.  The unlicensed accelerator stops after a fixed      *)
(* number of jobs per programming; the Runner budgets its jobs, reprograms *)
(* in time, retries what a fault invalidated and records the rest.         *)
(*                                                                         *)
(* The worker and the device run while the Runner waits for a batch; the   *)
(* device may finish a job at any moment, late ones included.              *)
(***************************************************************************)
EXTENDS Integers, Sequences, FiniteSets

CONSTANTS
  Wanted,           \* the image indices to score
  BatchSize,        \* batch_size
  ReprogramAt,      \* the configured reprogram_at
  WarmupJobs,       \* warmup_jobs
  MaxRetries,       \* max_retries_per_image
  MaxProgrammings,  \* max_programmings
  Floor, Margin,    \* 100 and 500 in max(100, hit - 500)
  Limits,           \* how many jobs the device may allow per programming
  Backends,         \* which of "syscon" and "sim" a campaign may use
  JobTicks,         \* what a job adds to the clocks_active counter
  CounterWrap,      \* where that counter wraps (2^32)
  Poison            \* the sentinel in the output window

ASSUME CampaignAssumption ==
  /\ Wanted \subseteq Nat
  /\ IsFiniteSet(Wanted)
  /\ BatchSize \in Nat \ {0}
  /\ ReprogramAt \in Nat
  /\ WarmupJobs \in Nat
  /\ MaxRetries \in Nat \ {0}
  /\ MaxProgrammings \in Nat
  /\ Floor \in Nat
  /\ Margin \in Nat
  /\ Limits \subseteq Nat
  /\ Backends \subseteq {"syscon", "sim"}
  /\ CounterWrap \in Nat \ {0}
  /\ JobTicks \in 0 .. CounterWrap - 1
  /\ Poison \notin Nat

VARIABLES
  \* Runner
  phase,          \* where Runner.run and Runner.reprogram are
  pending,        \* images still to score
  jobs,           \* jobs_since_program
  reprogramAt,    \* cfg.reprogram_at, lowered once the limit is met
  retries,        \* retries[i]: how often image i failed
  abandoned,      \* images given up
  results,        \* the records appended to results.jsonl
  programmings,   \* programmer.count
  warmLeft,       \* warm-up jobs still to run in this reprogramming
  \* the batch and the worker that runs it
  batch,          \* its first image, its length, the budget spent before it
  recs,           \* the RES lines so far
  wpc,            \* where do_job is
  compl0,         \* the completion count do_job read before queueing
  before,         \* and the counter then
  \* the device
  devJobs,        \* jobs queued since it was programmed
  outstanding,    \* jobs queued and not finished
  compl,          \* its completion count
  input, output,  \* what the input and the output window hold
  diag,           \* diagnostics bit 2: out of inferences
  ticks,          \* its clocks_active counter
  limit,          \* how many jobs it allows
  backend,        \* "sim" when SimBackend plays the worker and the device
  \* history
  limitHits       \* eval_limit events

runner == <<phase, pending, jobs, reprogramAt, retries, abandoned, results,
            programmings, warmLeft>>
worker == <<batch, recs, wpc, compl0, before>>
device == <<devJobs, outstanding, compl, input, output, diag, ticks, limit, backend>>
vars == <<runner, worker, device, limitHits>>

Record == [i : Nat, out : Nat \cup {Poison},
           err : {"none", "timeout", "eval_limit", "exception"},
           before : Nat, after : Nat]

(* A definition whose name ends in _X, with X a slip, is the definition     *)
(* before the underscore with that slip.  No action uses it: it shows what *)
(* a run detects.                                                          *)
Larger(a, b) == IF a > b THEN a ELSE b

Init ==
  /\ pending = Wanted
  /\ phase = IF Wanted = {} THEN "done" ELSE "program"
  /\ jobs = 0
  /\ reprogramAt = ReprogramAt
  /\ retries = [i \in Wanted |-> 0]
  /\ abandoned = {}
  /\ results = <<>>
  /\ programmings = 0
  /\ warmLeft = 0
  /\ batch = [first |-> 0, count |-> 0, base |-> 0]
  /\ recs = <<>>
  /\ wpc = "idle"
  /\ compl0 = 0
  /\ before = 0
  /\ devJobs = 0
  /\ outstanding = 0
  /\ compl = 0
  /\ input = Poison
  /\ output = Poison
  /\ diag = FALSE
  /\ ticks = 0
  /\ limit \in Limits
  /\ backend \in Backends
  /\ limitHits = 0
-------------------------------------------------------------------------------
(* Runner.reprogram *)

\* A device that was just programmed has run nothing.
Erased ==
  /\ devJobs' = 0
  /\ outstanding' = 0
  /\ compl' = 0
  /\ input' = Poison
  /\ output' = Poison
  /\ diag' = FALSE
  /\ ticks' = 0
  /\ UNCHANGED <<limit, backend>>

\* quartus_pgm, which a simulated campaign replaces by a sleep.  The count is
\* taken before the outcome is known.
Program ==
  /\ phase = "program"
  /\ programmings' = programmings + 1
  /\ \/ /\ backend = "syscon"
        /\ phase' = "died"
        /\ UNCHANGED <<jobs, warmLeft, device>>
     \/ /\ phase' = "bringup"
        /\ jobs' = 0
        /\ warmLeft' = WarmupJobs
        /\ Erased
  /\ UNCHANGED <<pending, reprogramAt, retries, abandoned, results, worker,
                 limitHits>>

\* A new worker, OPEN, CFG, CAL, the parameter readback, CSRINIT: each may
\* raise and end the campaign.
BringUp ==
  /\ phase = "bringup"
  /\ phase' \in IF backend = "sim" THEN {"warmup"} ELSE {"warmup", "died"}
  /\ UNCHANGED <<pending, jobs, reprogramAt, retries, abandoned, results,
                 programmings, warmLeft, worker, device, limitHits>>

Ticked == (ticks + JobTicks) % CounterWrap

WarmupCharge_None == jobs
WarmupCharge == jobs + 1

\* One warm-up is charged, then run: it is skipped when the stimulus file is
\* missing or the backend simulated, and any result but the golden one ends the campaign.
Warmup ==
  /\ phase = "warmup"
  /\ warmLeft > 0
  /\ jobs' = WarmupCharge
  /\ warmLeft' = warmLeft - 1
  /\ \/ UNCHANGED <<phase, devJobs, compl, ticks, diag>>
     \/ /\ backend = "syscon"
        /\ devJobs < limit
        /\ devJobs' = devJobs + 1
        /\ compl' = compl + 1
        /\ ticks' = Ticked
        /\ UNCHANGED <<phase, diag>>
     \/ /\ backend = "syscon"
        /\ devJobs' = devJobs + 1
        /\ diag' = IF devJobs >= limit THEN TRUE ELSE diag
        /\ phase' = "died"
        /\ UNCHANGED <<compl, ticks>>
  /\ UNCHANGED <<pending, reprogramAt, retries, abandoned, results,
                 programmings, worker, outstanding, input, output, limit,
                 backend, limitHits>>

EndReprogram ==
  /\ phase = "warmup"
  /\ warmLeft = 0
  /\ phase' = "loop"
  /\ UNCHANGED <<pending, jobs, reprogramAt, retries, abandoned, results,
                 programmings, warmLeft, worker, device, limitHits>>
-------------------------------------------------------------------------------
(* The head of the main loop *)

Headroom == reprogramAt - jobs

Finish ==
  /\ phase = "loop"
  /\ pending = {}
  /\ phase' = "done"
  /\ UNCHANGED <<pending, jobs, reprogramAt, retries, abandoned, results,
                 programmings, warmLeft, worker, device, limitHits>>

BudgetSpent ==
  /\ phase = "loop"
  /\ pending # {}
  /\ Headroom <= 0
  /\ phase' = "program"
  /\ UNCHANGED <<pending, jobs, reprogramAt, retries, abandoned, results,
                 programmings, warmLeft, worker, device, limitHits>>

IsRun_NoBudget(f, n) == f .. (f + n - 1) \subseteq pending /\ n <= BatchSize
IsRun_Strict(f, n) ==
  f .. (f + n - 1) \subseteq pending /\ n <= BatchSize /\ n < Headroom

\* n contiguous pending images from f on, within the batch size and the budget.
IsRun(f, n) ==
  /\ f .. (f + n - 1) \subseteq pending
  /\ n <= BatchSize
  /\ n <= Headroom

Charged_After(n) == jobs
Charged(n) == jobs + n

\* The longest run is issued, and charged in full before the worker starts.
IssueBatch ==
  /\ phase = "loop"
  /\ Headroom > 0
  /\ \E f \in pending, n \in 1 .. BatchSize :
       /\ \A i \in pending : f <= i
       /\ IsRun(f, n)
       /\ ~IsRun(f, n + 1)
       /\ batch' = [first |-> f, count |-> n, base |-> jobs]
       /\ jobs' = Charged(n)
  /\ phase' = "batch"
  /\ recs' = <<>>
  /\ wpc' = "input"
  /\ UNCHANGED <<pending, reprogramAt, retries, abandoned, results,
                 programmings, warmLeft, compl0, before, device, limitHits>>
-------------------------------------------------------------------------------
(* cmd_batch and do_job: one image after the other, until one fails. *)

Image == batch.first + Len(recs)

Poisoned_Never == output
Poisoned == Poison

\* The input tensor, then the sentinel over the previous output.
WriteInput ==
  /\ phase = "batch"
  /\ backend = "syscon"
  /\ wpc = "input"
  /\ input' = Image
  /\ output' = Poisoned
  /\ wpc' = "queue"
  /\ UNCHANGED <<runner, batch, recs, compl0, before, devJobs, outstanding, compl,
                 diag, ticks, limit, backend, limitHits>>

\* Past its limit the device counts the job, raises bit 2 and runs nothing.
Queue ==
  /\ phase = "batch"
  /\ wpc = "queue"
  /\ compl0' = compl
  /\ before' = ticks
  /\ devJobs' = devJobs + 1
  /\ \/ /\ devJobs < limit
        /\ outstanding' = outstanding + 1
        /\ UNCHANGED diag
     \/ /\ devJobs >= limit
        /\ diag' = TRUE
        /\ UNCHANGED outstanding
  /\ wpc' = "poll"
  /\ UNCHANGED <<runner, batch, recs, compl, input, output, ticks, limit, backend,
                 limitHits>>

\* The device finishes a job on what the input window holds now.  A job may
\* complete without writing its output.
DeviceFinish ==
  /\ outstanding > 0
  /\ outstanding' = outstanding - 1
  /\ compl' = compl + 1
  /\ output' \in {input, output}
  /\ ticks' = Ticked
  /\ UNCHANGED <<runner, worker, devJobs, input, diag, limit, backend, limitHits>>

\* A RES line; the batch goes on only after a good one.
Emit(out, err, from, to) ==
  /\ recs' = Append(recs, [i |-> Image, out |-> out, err |-> err,
                           before |-> from, after |-> to])
  /\ LET over == err # "none" \/ Len(recs) + 1 = batch.count IN
       /\ wpc' = IF over THEN "idle" ELSE "input"
       /\ phase' = IF over THEN "settle" ELSE "batch"

\* The poll saw the count move, or gave up at the deadline; either way the
\* diagnostics are read, and err=eval_limit overrides err=timeout.
Collect ==
  /\ phase = "batch"
  /\ wpc = "poll"
  /\ Emit(output, IF diag THEN "eval_limit"
                  ELSE IF compl # compl0 THEN "none" ELSE "timeout", before, ticks)
  /\ UNCHANGED <<pending, jobs, reprogramAt, retries, abandoned, results,
                 programmings, warmLeft, batch, compl0, before, device, limitHits>>

\* A JTAG access throws: caught around do_job, reported as a RES line.
WorkerException ==
  /\ phase = "batch"
  /\ backend = "syscon"
  /\ Emit(Poison, "exception", 0, 0)
  /\ UNCHANGED <<pending, jobs, reprogramAt, retries, abandoned, results,
                 programmings, warmLeft, batch, compl0, before, device, limitHits>>

\* SimBackend._batch: past the limit a job fails with the sentinel, below it one
\* may time out; the first failure ends the batch.
SimJob ==
  /\ phase = "batch"
  /\ backend = "sim"
  /\ wpc = "input"
  /\ devJobs' = devJobs + 1
  /\ ticks' = Ticked
  /\ \/ /\ devJobs >= limit
        /\ Emit(Poison, "eval_limit", ticks, Ticked)
        /\ diag' = TRUE
        /\ UNCHANGED compl
     \/ /\ devJobs < limit
        /\ Emit(Image, "timeout", ticks, Ticked)
        /\ UNCHANGED <<compl, diag>>
     \/ /\ devJobs < limit
        /\ Emit(Image, "none", ticks, Ticked)
        /\ compl' = compl + 1
        /\ UNCHANGED diag
  /\ UNCHANGED <<pending, jobs, reprogramAt, retries, abandoned, results,
                 programmings, warmLeft, batch, compl0, before, outstanding,
                 input, output, limit, backend, limitHits>>

\* The worker dies, or answers with an error that is no batch_aborted.
TransportDeath ==
  /\ phase = "batch"
  /\ backend = "syscon"
  /\ phase' = "died"
  /\ wpc' = "idle"
  /\ UNCHANGED <<pending, jobs, reprogramAt, retries, abandoned, results,
                 programmings, warmLeft, batch, recs, compl0, before, device,
                 limitHits>>
-------------------------------------------------------------------------------
(* The rest of the loop body: what the batch reported. *)

Failed == {k \in DOMAIN recs : recs[k].err # "none"}
Good == {k \in DOMAIN recs : recs[k].err = "none"}
ReportedOk_All == {recs[k].i : k \in DOMAIN recs}
ReportedOk == {recs[k].i : k \in Good}
\* The loop over the records stops at the first that failed: the last one.
Scored == SubSeq(recs, 1, Cardinality(Good))

\* A record of the log: stale when the sentinel is still there, with the ticks
\* the counter moved by, modulo its width.
Latency(r) == (r.after - r.before) % CounterWrap
Score(r) == [i |-> r.i, pred |-> r.out, stale |-> r.out = Poison,
             latency |-> Latency(r)]

\* Which job of this programming met the limit, by the Runner's own count, and
\* the threshold that keeps clear of it.
Hit(k) == batch.base + k
Lowered_Hit(k) == Larger(Floor, Hit(k))
Lowered(k) == Larger(Floor, Hit(k) - Margin)

Settle ==
  /\ phase = "settle"
  /\ jobs' = batch.base + Len(recs)
  /\ results' = results \o [k \in DOMAIN Scored |-> Score(Scored[k])]
  /\ \/ /\ Failed = {}
        /\ UNCHANGED <<reprogramAt, retries, abandoned, limitHits>>
     \/ \E k \in Failed :
          LET i == recs[k].i IN
            /\ retries' = [retries EXCEPT ![i] = @ + 1]
            /\ abandoned' = IF retries[i] + 1 >= MaxRetries
                            THEN abandoned \cup {i} ELSE abandoned
            /\ IF recs[k].err = "eval_limit"
               THEN /\ reprogramAt' = Lowered(k)
                    /\ limitHits' = limitHits + 1
               ELSE UNCHANGED <<reprogramAt, limitHits>>
  /\ pending' = pending \ (ReportedOk \cup abandoned')
  /\ phase' = IF Failed = {} \/ pending' = {} THEN "loop"
              ELSE IF programmings >= MaxProgrammings THEN "gaveup"
              ELSE "program"
  /\ UNCHANGED <<programmings, warmLeft, worker, device>>

Stopped == phase \in {"done", "died", "gaveup"}

Next ==
  \/ Program \/ BringUp \/ Warmup \/ EndReprogram
  \/ Finish \/ BudgetSpent \/ IssueBatch
  \/ WriteInput \/ Queue \/ DeviceFinish \/ Collect \/ WorkerException
  \/ SimJob \/ TransportDeath \/ Settle

Spec == Init /\ [][Next]_vars

(***************************************************************************)
(* The Runner and the worker are sequential programs that wait for nothing *)
(* but commands with a deadline (the poll has job_timeout_ms, the command  *)
(* 600 s), so they never stop for good.  The device owes nothing.          *)
(***************************************************************************)
FairSpec ==
  /\ Spec
  /\ WF_vars(Program) /\ WF_vars(BringUp) /\ WF_vars(Warmup)
  /\ WF_vars(EndReprogram) /\ WF_vars(Finish) /\ WF_vars(BudgetSpent)
  /\ WF_vars(IssueBatch) /\ WF_vars(WriteInput) /\ WF_vars(Queue)
  /\ WF_vars(Collect) /\ WF_vars(SimJob) /\ WF_vars(Settle)
-------------------------------------------------------------------------------
(* What a campaign promises. *)

\* The Runner's count never falls behind the jobs the device has counted, so
\* a budget in jobs_since_program is a budget for the device: "under-counting
\* silently runs past the eval limit" (run_cifar10_jtag.py:976).
NeverUndercounted == devJobs <= jobs

\* A batch never straddles the reprogram threshold, counted by the device and
\* whatever was charged, refunded, skipped or aborted before it.
ThresholdHolds == phase = "batch" => devJobs <= reprogramAt

\* A device that allows what the configuration says it allows never runs out
\* of inferences.  One that allows less does so once: the threshold learnt then
\* keeps clear of the limit in every later programming, although the Runner
\* learns it in its own count, which a skipped warm-up puts ahead of the device's.
LimitMetOnce ==
  /\ limit >= ReprogramAt => ~diag
  /\ limitHits > 0 =>
       /\ limitHits = 1
       /\ phase \in {"warmup", "batch", "settle"} => ~diag

Recorded == {results[k].i : k \in DOMAIN results}

\* Between batches every image is in exactly one place: recorded, pending or
\* given up.  Aborts and retries lose none and repeat none.
NothingLostOrRepeated ==
  phase \in {"loop", "program", "bringup", "warmup", "done", "gaveup"} =>
    /\ Recorded \cup pending \cup abandoned = Wanted
    /\ Recorded \cap pending = {}
    /\ Recorded \cap abandoned = {}
    /\ pending \cap abandoned = {}
    /\ Len(results) = Cardinality(Recorded)

\* A recorded output is that of its own image, or the record is marked stale: it
\* is never the logits of a job that finished late.  And "the before/after delta
\* across a queue+complete is the device-side job latency"
\* (run_cifar10_jtag.py:168): it has no ticks of another job, and the wrap of the
\* counter does not show.
ResultsAreOwn ==
  \A k \in DOMAIN results :
    /\ results[k].stale \/ results[k].pred = results[k].i
    /\ results[k].latency = JobTicks

\* max_programmings is a "hard stop" (run_cifar10_jtag.py:214).
HardStop == programmings <= MaxProgrammings

\* Whatever the device and the worker do, the campaign comes to an end.
Terminates == <>Stopped
===============================================================================
