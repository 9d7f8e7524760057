----------------------------- MODULE TinyBenchmark -----------------------------
(***************************************************************************)
(* sw/host: a run of run_tiny_benchmark.py over a CoreDlaCsrTransport, the *)
(* CSR handshake of coredla_csr_handshake.py under its hyperram path and   *)
(* the sequence of streaming_driver.py under its ddrfree path.  Every      *)
(* access to the device is a step; the device works in between.  A run     *)
(* that meets an error is over, and the next one opens the device as it    *)
(* was left.  A run that meets none writes its two result files.           *)
(*                                                                         *)
(* A definition whose name ends in _X is the definition before the         *)
(* underscore with the slip X; no action uses it.                          *)
(***************************************************************************)
EXTENDS Integers, Sequences

CONSTANTS
  Paths,       \* the --path arguments considered
  Warmups,     \* --warmup
  Records,     \* how many records the bundle has
  MaxRecords,  \* --max-records, or the cap of an unlicensed device
  LostWrites,  \* the accesses whose write may fail without the host's notice
  CountMod,    \* 2^32: where the completion count wraps
  Allowed,     \* inferences the device runs until it is programmed again
  SgdmaDepth,  \* descriptors an mSGDMA holds
  MaxRuns,     \* bound: runs, one after the other
  MaxLost,     \* bound: writes that fail so, over all runs
  MaxPolls,    \* bound: polls until the deadline has surely passed
  MaxTicks     \* bound: clk_dla cycles counted

ASSUME TinyAssumption ==
  /\ Paths \subseteq {"hyperram", "ddrfree"}
  /\ Warmups \in Nat
  /\ Records \in Nat \ {0} /\ MaxRecords \in Nat \ {0}
  /\ LostWrites \subseteq {"reset", "write", "ingress", "egress", "configure",
                           "startTimer", "go", "stopTimer"}
  /\ CountMod \in Nat /\ CountMod > 1
  /\ Allowed \in Nat
  /\ SgdmaDepth \in Nat \ {0}
  /\ MaxRuns \in Nat /\ MaxLost \in Nat /\ MaxPolls \in Nat /\ MaxTicks \in Nat

VARIABLES
  \* the host
  path,       \* --path
  pc,         \* its next access
  run,        \* which run this is
  n,          \* inferences finished in this run, warm-ups included
  baseline,   \* COMPLETION_COUNT as read for this job
  polls,      \* polls of this job that saw nothing
  cycles,     \* what the timer said
  results,    \* the run's lists of outputs and cycles
  failure,    \* why the last run ended
  files,      \* the run's two result files
  \* the device
  configured, \* has this run written the three configuration registers?
  queue,      \* the jobs in its descriptor queue: whose, and was it configured?
  work,       \* the job in its pipeline, if any, and its tensor
  count,      \* COMPLETION_COUNT
  spent,      \* inferences since it was programmed
  exhausted,  \* DESC_DIAGNOSTICS.out_of_inferences
  ingress, egress,  \* descriptors queued in the mSGDMAs
  input, output,    \* what the two tensors hold
  timer,      \* hw_timer: is it running, its counter
  \* history
  elapsed,    \* cycles since the input of this inference was written
  ran,        \* cycles its job has been worked on
  finished,   \* the job of this inference is complete
  seen,       \* it was, when COMPLETION_COUNT was read last
  missing,    \* the writes this inference rests on that had no effect
  losses      \* how many had none so far

hostVars == <<path, pc, run, n, baseline, polls, cycles, results, failure, files, seen>>
jobVars == <<queue, work, count, spent, exhausted, output, ran, finished>>
feedVars == <<configured, ingress, egress, input>>
clocks == <<timer, elapsed>>
lossVars == <<missing, losses>>
vars == <<hostVars, jobVars, feedVars, clocks, lossVars>>

Streaming == path = "ddrfree"
Goto(l) == pc' = l
\* The host makes one access and goes on to the next, and nothing else changes in it.
Then(l) ==
  /\ Goto(l)
  /\ UNCHANGED <<path, run, n, baseline, polls, cycles, results, failure, files, seen>>

\* The present inference, over all runs: its input tensor and its job.
Tensor == <<run, n>>
Garbage == <<0, 0>>
Idle == <<>>

NoFiles == [kind \in {"latency", "accuracy"} |-> <<>>]

Init ==
  /\ path \in Paths
  /\ pc = "closed" /\ run = 0 /\ n = 0
  /\ baseline = 0 /\ polls = 0 /\ cycles = 0
  /\ results = <<>> /\ failure = "none"
  /\ files = NoFiles
  /\ configured = FALSE
  /\ queue = <<>> /\ work = Idle /\ count = 0 /\ spent = 0 /\ exhausted = FALSE
  /\ ingress = 0 /\ egress = 0
  /\ input = Garbage /\ output = Garbage
  /\ timer = [on |-> FALSE, count |-> 0]
  /\ ran = 0 /\ elapsed = 0 /\ finished = FALSE /\ seen = FALSE
  /\ missing = {} /\ losses = 0
-------------------------------------------------------------------------------
(* A run *)

\* What is local to an inference, and what the history says of it.
NextInference ==
  /\ baseline' = 0 /\ polls' = 0 /\ cycles' = 0 /\ seen' = FALSE
  /\ elapsed' = 0 /\ ran' = 0 /\ finished' = FALSE

AfterReset_Kept(jobs) == jobs
AfterReset(jobs) == <<>>

\* A write whose Tcl command fails: its reply is not looked at.
Lost(l) ==
  /\ l \in LostWrites
  /\ losses < MaxLost
  /\ losses' = losses + 1

\* It is one the present inference rests on.
Missed(l) == Lost(l) /\ missing' = missing \cup {l}

\* IP_RESET.  It is not known whether that gives the device new inferences.
Reset ==
  /\ queue' = AfterReset(queue)
  /\ work' = AfterReset(work)
  /\ count' = 0
  /\ spent' \in {0, spent}
  /\ exhausted' = FALSE
  /\ missing' = {}
  /\ UNCHANGED losses

\* It is lost, and what an earlier run left in the device is still there.
ResetLost ==
  /\ Lost("reset")
  /\ missing' = IF queue = <<>> /\ work = Idle THEN {} ELSE {"reset"}
  /\ UNCHANGED <<queue, work, count, spent, exhausted>>

\* SystemConsoleTransport.open ends with a soft reset; the mSGDMAs and the timer
\* are not part of it.
Open ==
  /\ pc = "closed" /\ run < MaxRuns
  /\ run' = run + 1
  /\ n' = 0
  /\ results' = <<>>
  /\ failure' = "none"
  /\ Goto("write")
  /\ configured' = FALSE
  /\ Reset \/ ResetLost
  /\ files' = NoFiles
  /\ NextInference
  /\ UNCHANGED <<path, output, ingress, egress, input, timer>>

WriteInput ==
  /\ pc = "write"
  /\ \/ input' = Tensor /\ UNCHANGED lossVars
     \/ Missed("write") /\ UNCHANGED input
  /\ elapsed' = 0
  /\ Then(IF Streaming THEN "ingress" ELSE "baseline")
  /\ UNCHANGED <<jobVars, configured, ingress, egress, timer>>

\* An error: an exception nothing catches, and the process is over.
Fail(why) ==
  /\ Goto("closed")
  /\ failure' = why
  /\ UNCHANGED <<path, run, n, baseline, polls, cycles, results, files, seen>>

\* A JTAG access fails, or the process is killed.
Abort ==
  /\ pc # "closed"
  /\ Fail("abort")
  /\ UNCHANGED <<jobVars, feedVars, clocks, lossVars>>

Full(q) == q = SgdmaDepth

QueueIngress ==
  /\ pc = "ingress"
  /\ \/ /\ Full(ingress)
        /\ Fail("full")
        /\ UNCHANGED <<ingress, losses>>
     \/ /\ ~Full(ingress)
        /\ \/ ingress' = ingress + 1 /\ UNCHANGED losses
           \/ Lost("ingress") /\ UNCHANGED ingress
        /\ Then("egress")
  /\ UNCHANGED <<jobVars, configured, egress, input, clocks, missing>>

QueueEgress ==
  /\ pc = "egress"
  /\ \/ /\ Full(egress)
        /\ Fail("full")
        /\ UNCHANGED <<egress, losses>>
     \/ /\ ~Full(egress)
        /\ \/ egress' = egress + 1 /\ UNCHANGED losses
           \/ Lost("egress") /\ UNCHANGED egress
        /\ Then("startTimer")
  /\ UNCHANGED <<jobVars, configured, ingress, input, clocks, missing>>

\* The baseline: before the configuration under hyperram, after the trigger
\* under ddrfree (_poll_completion).
ReadBaseline ==
  /\ pc = "baseline"
  /\ baseline' = count
  /\ polls' = 0
  /\ Goto(IF Streaming THEN "poll" ELSE "configure")
  /\ UNCHANGED <<path, run, n, cycles, results, failure, files, seen>>
  /\ UNCHANGED <<jobVars, feedVars, clocks, lossVars>>

\* Intermediate base, configuration base and range, in that order.
Configure ==
  /\ pc = "configure"
  /\ \/ configured' = TRUE /\ UNCHANGED lossVars
     \/ Lost("configure") /\ configured /\ UNCHANGED <<configured, missing>>
     \/ Missed("configure") /\ ~configured /\ UNCHANGED configured
  /\ Then("startTimer")
  /\ UNCHANGED <<jobVars, ingress, egress, input, clocks>>

Started_Resumed == [timer EXCEPT !.on = TRUE]
Started == [on |-> TRUE, count |-> 0]

StartTimer ==
  /\ pc = "startTimer"
  /\ \/ timer' = Started /\ UNCHANGED lossVars
     \/ Missed("startTimer") /\ UNCHANGED timer
  /\ Then("go")
  /\ UNCHANGED <<jobVars, feedVars, elapsed>>

\* The write that starts the job: INPUT_OUTPUT_BASE_ADDR or READY_STREAMING_IFACE.
\* A device without inferences left says so and runs nothing.
Go ==
  /\ pc = "go"
  /\ \/ /\ spent < Allowed
        /\ spent' = spent + 1
        /\ queue' = Append(queue, [job |-> Tensor, configured |-> Streaming \/ configured])
        /\ UNCHANGED <<exhausted, losses>>
     \/ /\ spent >= Allowed
        /\ exhausted' = TRUE
        /\ UNCHANGED <<spent, queue, losses>>
     \/ /\ Lost("go")
        /\ UNCHANGED <<spent, queue, exhausted>>
  /\ Then(IF Streaming THEN "baseline" ELSE "poll")
  /\ UNCHANGED <<work, count, output, ran, finished, feedVars, clocks, missing>>
-------------------------------------------------------------------------------
(* wait_for_done *)

Advanced_Greater == count > baseline
Advanced == (count - baseline) % CountMod >= 1

PollCount ==
  /\ pc = "poll"
  /\ seen' = finished
  /\ Goto(IF Advanced THEN "stopTimer" ELSE "health")
  /\ UNCHANGED <<path, run, n, baseline, polls, cycles, results, failure, files>>
  /\ UNCHANGED <<jobVars, feedVars, clocks, lossVars>>

\* A host that keeps one job in the queue never sees the overflow bit.
CheckHealth ==
  /\ pc = "health"
  /\ \/ exhausted /\ Fail("exhausted")
     \/ ~exhausted /\ Then("deadline")
  /\ UNCHANGED <<jobVars, feedVars, clocks, lossVars>>

\* The deadline may have passed at any poll.
PastDeadline_Never == FALSE
PastDeadline == polls = MaxPolls

CheckDeadline ==
  /\ pc = "deadline"
  /\ \/ Fail("timeout")
     \/ /\ ~PastDeadline
        /\ polls' = IF polls < MaxPolls THEN polls + 1 ELSE polls
        /\ Goto("poll")
        /\ UNCHANGED <<path, run, n, baseline, cycles, results, failure, files, seen>>
  /\ UNCHANGED <<jobVars, feedVars, clocks, lossVars>>

StopTimer ==
  /\ pc = "stopTimer"
  /\ \/ timer' = [timer EXCEPT !.on = FALSE] /\ UNCHANGED losses
     \/ Lost("stopTimer") /\ UNCHANGED timer
  /\ Then("readTimer")
  /\ UNCHANGED <<jobVars, feedVars, elapsed, missing>>

ReadTimer ==
  /\ pc = "readTimer"
  /\ cycles' = timer.count
  /\ Goto("read")
  /\ UNCHANGED <<path, run, n, baseline, polls, results, failure, files, seen>>
  /\ UNCHANGED <<jobVars, feedVars, clocks, lossVars>>
-------------------------------------------------------------------------------
(* run_model *)

IsWarmup == n < Warmups

\* The records that are run: all, or as many as the device is allowed.
Planned == IF Records < MaxRecords THEN Records ELSE MaxRecords

\* The output is read; those of the warm-ups are dropped.  The history notes
\* whether the time covers the job and lies within the inference, and what was
\* missing; a lost reset is missed by the whole run.
Kept(r) == IF IsWarmup THEN results ELSE Append(results, r)

ReadOutput ==
  /\ pc = "read"
  /\ results' = Kept([out |-> output, cycles |-> cycles,
                      whole |-> cycles \in ran..elapsed, missing |-> missing])
  /\ n' = n + 1
  /\ Goto(IF n + 1 = Warmups + Planned THEN "summary" ELSE "write")
  /\ NextInference
  /\ missing' = missing \cap {"reset"}
  /\ UNCHANGED <<path, run, failure, files, timer, losses>>
  /\ UNCHANGED <<queue, work, count, spent, exhausted, output, feedVars>>

\* summarize_latency refuses a cycle count that is not positive.
Summarize ==
  /\ pc = "summary"
  /\ IF \E k \in DOMAIN results : results[k].cycles <= 0 THEN Fail("no cycles")
     ELSE Then("latency")
  /\ UNCHANGED <<jobVars, feedVars, clocks, lossVars>>

\* main writes the file of one kind, named by model and date, from the run.
\* The scores pair each record of the run with its output.
Report(kind, content, next) ==
  /\ pc = kind
  /\ files' = [files EXCEPT ![kind] = content]
  /\ Goto(next)
  /\ UNCHANGED <<path, run, n, baseline, polls, cycles, results, failure, seen>>
  /\ UNCHANGED <<jobVars, feedVars, clocks, lossVars>>

Scores == [k \in 1..Planned |-> [record |-> k, out |-> results[k].out]]

ReportLatency == Report("latency", results, "accuracy")
ReportAccuracy == Report("accuracy", Scores, "closed")
-------------------------------------------------------------------------------
(* The device *)

\* The device takes a job up and starts on the input tensor as it is then; when
\* streaming it needs a descriptor at either end.
Load ==
  /\ queue # <<>> /\ work = Idle
  /\ Streaming => ingress > 0 /\ egress > 0
  /\ work' = [job |-> Head(queue).job,
              in |-> IF Head(queue).configured THEN input ELSE Garbage]
  /\ queue' = Tail(queue)
  /\ ingress' = IF Streaming THEN ingress - 1 ELSE ingress
  /\ egress' = IF Streaming THEN egress - 1 ELSE egress
  /\ UNCHANGED <<hostVars, clocks, configured, input, count, spent, exhausted, output,
                 ran, finished, lossVars>>

\* The job is done: its output is there and the count moves.
Finish ==
  /\ work # Idle
  /\ work' = Idle
  /\ output' = work.in
  /\ count' = (count + 1) % CountMod
  /\ finished' = (finished \/ work.job = Tensor)
  /\ UNCHANGED <<hostVars, feedVars, clocks, queue, spent, exhausted, ran, lossVars>>

\* The job of the present inference is in the pipeline.
Working == work # Idle /\ work.job = Tensor

\* A cycle of clk_dla.
Tick ==
  /\ work # Idle \/ timer.on
  /\ {ran, timer.count, elapsed} \subseteq 0..MaxTicks - 1
  /\ elapsed' = elapsed + 1
  /\ ran' = IF Working THEN ran + 1 ELSE ran
  /\ timer' = IF timer.on THEN [timer EXCEPT !.count = @ + 1] ELSE timer
  /\ UNCHANGED <<hostVars, feedVars, queue, work, count, spent, exhausted, output,
                 finished, lossVars>>

Host ==
  \/ WriteInput \/ QueueIngress \/ QueueEgress \/ ReadBaseline \/ Configure
  \/ StartTimer \/ Go \/ PollCount \/ CheckHealth \/ CheckDeadline \/ StopTimer
  \/ ReadTimer \/ ReadOutput \/ Summarize \/ ReportLatency \/ ReportAccuracy

Next == Open \/ Host \/ Abort \/ Load \/ Finish \/ Tick

Spec == Init /\ [][Next]_vars

(***************************************************************************)
(* The host is a sequential program that waits for nothing but the clock.  *)
(* The device owes nothing, and nobody has to start another run.           *)
(***************************************************************************)
FairSpec == Spec /\ WF_vars(Host)
-------------------------------------------------------------------------------
\* The scores are of one run's records, all of them, each with the output that
\* was computed from its own input: no warm-up, no output of an earlier job or an
\* earlier run, whatever it left in the device.  A reported cycle count covers all
\* of the job and nothing from before the inference ("cycles is a REAL clk_dla
\* hardware cycle count", coredla_csr_handshake.py:308).  A write that is lost
\* without the host's notice spoils no more than the inference it belongs to (one
\* of the configuration those up to the next one that is not lost, a reset its
\* run), the start of the timer only the time; a trigger, a descriptor or the stop
\* of the timer may be lost without harm to what is reported.
ResultsAreOwn ==
  /\ files["accuracy"] # <<>> =>
       /\ Len(files["accuracy"]) = Planned
       /\ \A k \in DOMAIN files["accuracy"] :
            results[k].missing \cap {"reset", "write", "configure"} = {} =>
              files["accuracy"][k].out = <<run, Warmups + files["accuracy"][k].record - 1>>
  /\ \A k \in DOMAIN files["latency"] :
       LET timed == files["latency"][k]
       IN /\ timed.cycles > 0
          /\ timed.missing \cap {"reset", "startTimer"} = {} => timed.whole

\* A timeout is raised only for a job that was not complete when the count was
\* read last ("remember how many jobs finished so far", step 0 of the sequence,
\* coredla_csr_handshake.py:43).
NoCompletionLost == failure = "timeout" => ~seen

\* The same where the baseline is read before the trigger.
HyperramCompletionSeen == Streaming \/ NoCompletionLost

\* A run comes to an end, with a report or an error, also when the device never
\* answers.
RunEnds == pc # "closed" ~> pc = "closed"
===============================================================================
