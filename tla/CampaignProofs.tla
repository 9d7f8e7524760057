---------------------------- MODULE CampaignProofs ----------------------------
(***************************************************************************)
(* The job budget of a campaign, for every set of images, batch size,      *)
(* threshold and device limit.  The inductive invariant accounts for every *)
(* job the device has counted: spent before the batch, reported by a RES   *)
(* line, or being polled for.                                              *)
(***************************************************************************)
EXTENDS Campaign, FiniteSetTheorems, FunctionTheorems, SequenceTheorems, TLAPS

\* The counters are numbers, the batch is a batch, the windows hold images.
CountersOK ==
  /\ jobs \in Nat
  /\ devJobs \in Nat
  /\ reprogramAt \in Nat
  /\ warmLeft \in Nat
  /\ limit \in Nat
  /\ batch \in [first : Nat, count : Nat, base : Nat]
  /\ recs \in Seq(Record)
  /\ pending \subseteq Wanted
  /\ input \in Nat \cup {Poison}
  /\ output \in Nat \cup {Poison}
  /\ before \in Nat
  /\ ticks \in Nat

Polled == IF wpc = "poll" THEN 1 ELSE 0

\* Every job the device counted since it was programmed is accounted for.
Accounting ==
  /\ phase = "batch" =>
       /\ wpc \in {"input", "queue", "poll"}
       /\ Len(recs) < batch.count
       /\ devJobs <= batch.base + Len(recs) + Polled
       /\ jobs = batch.base + batch.count
       /\ jobs <= reprogramAt
  /\ phase = "settle" =>
       /\ Len(recs) <= batch.count
       /\ devJobs <= batch.base + Len(recs)
       /\ jobs = batch.base + batch.count
  /\ devJobs <= jobs

BudgetInv == CountersOK /\ Accounting

\* A new campaign starts with its accounts in order.
LEMMA InitBudget == Init => BudgetInv
<1> SUFFICES ASSUME Init PROVE BudgetInv
  OBVIOUS
<1>1. recs \in Seq(Record)
  BY DEF Init
<1>2. limit \in Nat
  BY CampaignAssumption DEF CampaignAssumption, Init
<1>3. QED
  BY <1>1, <1>2, CampaignAssumption
  DEF CampaignAssumption, Init, BudgetInv, CountersOK, Accounting

\* The counter that wraps stays a number.
LEMMA TickedFact == ASSUME CountersOK PROVE Ticked \in Nat
BY CampaignAssumption DEF CampaignAssumption, CountersOK, Ticked

\* A RES line appends one record, of the type of records.
LEMMA EmitFacts ==
  ASSUME CountersOK, NEW out \in Nat \cup {Poison},
         NEW err \in {"none", "timeout", "eval_limit", "exception"},
         NEW from \in Nat, NEW to \in Nat,
         Emit(out, err, from, to)
  PROVE  /\ recs' \in Seq(Record)
         /\ Len(recs') = Len(recs) + 1
         /\ phase' \in {"batch", "settle"}
         /\ phase' = "batch" => wpc' = "input" /\ Len(recs) + 1 # batch.count
<1>1. Image \in Nat
  BY DEF CountersOK, Image
<1>2. [i |-> Image, out |-> out, err |-> err, before |-> from, after |-> to]
        \in Record
  BY <1>1 DEF Record
<1>3. recs' = Append(recs, [i |-> Image, out |-> out, err |-> err,
                            before |-> from, after |-> to])
  BY DEF Emit
<1>4. recs' \in Seq(Record) /\ Len(recs') = Len(recs) + 1
  BY <1>2, <1>3 DEF CountersOK
<1>5. QED
  BY <1>4 DEF Emit

\* One step of the campaign keeps the accounting.
LEMMA NextBudget == ASSUME BudgetInv, [Next]_vars PROVE BudgetInv'
<1> USE CampaignAssumption DEF CampaignAssumption, BudgetInv
<1>0. Ticked \in Nat
  BY TickedFact
<1>1. CASE Program
  <2>1. CASE phase' = "died" /\ UNCHANGED <<jobs, warmLeft, device>>
    BY <1>1, <2>1 DEF Program, CountersOK, Accounting, worker, device
  <2>2. CASE /\ phase' = "bringup"
             /\ jobs' = 0
             /\ warmLeft' = WarmupJobs
             /\ Erased
    BY <1>1, <2>2 DEF Program, Erased, CountersOK, Accounting, worker
  <2>3. QED
    BY <1>1, <2>1, <2>2, Zenon DEF Program
<1>2. CASE BringUp
  BY <1>2 DEF BringUp, CountersOK, Accounting, worker, device, Polled
<1>3. CASE Warmup
  <2>1. /\ devJobs' \in {devJobs, devJobs + 1}
        /\ phase' \in {"warmup", "died"}
        /\ jobs' = jobs + 1
        /\ warmLeft' = warmLeft - 1
        /\ warmLeft > 0
        /\ ticks' \in {ticks, Ticked}
        /\ UNCHANGED <<pending, reprogramAt, batch, recs, before, input, output,
                       limit>>
    BY <1>3 DEF Warmup, WarmupCharge, worker
  <2>2. QED
    BY <1>0, <2>1 DEF CountersOK, Accounting
<1>4. CASE EndReprogram \/ Finish \/ BudgetSpent
  BY <1>4 DEF EndReprogram, Finish, BudgetSpent, CountersOK, Accounting,
              worker, device, Polled
<1>5. CASE IssueBatch
  <2>1. PICK f \in pending, n \in 1 .. BatchSize :
          /\ IsRun(f, n)
          /\ batch' = [first |-> f, count |-> n, base |-> jobs]
          /\ jobs' = jobs + n
    BY <1>5 DEF IssueBatch, Charged
  <2>2. f \in Nat
    BY DEF CountersOK
  <2>3. n \in Nat /\ n > 0
    OBVIOUS
  <2>4. n <= reprogramAt - jobs
    BY <2>1 DEF IsRun, Headroom
  <2>5. batch' \in [first : Nat, count : Nat, base : Nat]
    BY <2>1, <2>2, <2>3 DEF CountersOK
  <2>6. recs' = <<>> /\ phase' = "batch" /\ wpc' = "input"
    BY <1>5 DEF IssueBatch
  <2>7. UNCHANGED <<reprogramAt, warmLeft, limit, devJobs, pending, input,
                    output, before, ticks>>
    BY <1>5 DEF IssueBatch, device
  <2>8. QED
    BY <2>1, <2>3, <2>4, <2>5, <2>6, <2>7 DEF CountersOK, Accounting, Polled
<1>6. CASE WriteInput
  <2>1. Image \in Nat
    BY DEF CountersOK, Image
  <2>2. QED
    BY <1>6, <2>1
    DEF WriteInput, Poisoned, CountersOK, Accounting, runner, Polled
<1>7. CASE Queue
  BY <1>7 DEF Queue, CountersOK, Accounting, runner, Polled
<1>8. CASE DeviceFinish
  BY <1>0, <1>8 DEF DeviceFinish, CountersOK, Accounting, runner, worker, Polled
<1>9. ASSUME Collect \/ WorkerException PROVE BudgetInv'
  <2>1. PICK out \in Nat \cup {Poison},
             err \in {"none", "timeout", "eval_limit", "exception"},
             from \in Nat, to \in Nat :
          Emit(out, err, from, to)
    BY <1>9 DEF Collect, WorkerException, CountersOK
  <2>2. /\ recs' \in Seq(Record)
        /\ Len(recs') = Len(recs) + 1
        /\ phase' \in {"batch", "settle"}
        /\ phase' = "batch" => wpc' = "input" /\ Len(recs) + 1 # batch.count
    BY <2>1, EmitFacts
  <2>3. /\ phase = "batch"
        /\ UNCHANGED <<jobs, reprogramAt, warmLeft, batch, limit, devJobs,
                       pending, input, output, before, ticks>>
    BY <1>9 DEF Collect, WorkerException, device
  <2>4. Len(recs) \in Nat
    BY DEF CountersOK
  <2>5. QED
    BY <2>2, <2>3, <2>4 DEF CountersOK, Accounting, Polled
<1>10. CASE TransportDeath
  BY <1>10 DEF TransportDeath, CountersOK, Accounting, device, Polled
<1>14. CASE SimJob
  <2>1. Image \in Nat /\ ticks \in Nat
    BY DEF CountersOK, Image
  <2>2. PICK out \in Nat \cup {Poison},
             err \in {"none", "timeout", "eval_limit", "exception"},
             from \in Nat, to \in Nat :
          Emit(out, err, from, to)
    BY <1>0, <1>14, <2>1 DEF SimJob
  <2>3. /\ recs' \in Seq(Record)
        /\ Len(recs') = Len(recs) + 1
        /\ phase' \in {"batch", "settle"}
        /\ phase' = "batch" => wpc' = "input" /\ Len(recs) + 1 # batch.count
    BY <2>2, EmitFacts
  <2>4. /\ phase = "batch" /\ wpc = "input"
        /\ devJobs' = devJobs + 1
        /\ ticks' = Ticked
        /\ UNCHANGED <<jobs, reprogramAt, warmLeft, batch, limit, pending, input,
                       output, before>>
    BY <1>14 DEF SimJob
  <2>5. Len(recs) \in Nat
    BY DEF CountersOK
  <2>6. devJobs + 1 <= batch.base + Len(recs) + 1 /\ Len(recs) + 1 <= batch.count
    BY <2>4, <2>5 DEF Accounting, CountersOK, Polled
  <2>7. QED
    BY <1>0, <2>3, <2>4, <2>5, <2>6 DEF CountersOK, Accounting, Polled
<1>11. CASE Settle
  <2>1. Len(recs) \in Nat
    BY DEF CountersOK
  <2>2. reprogramAt' \in Nat
    <3>1. CASE Failed = {}
      BY <1>11, <3>1 DEF Settle, CountersOK
    <3>2. ASSUME NEW k \in Failed,
                 IF recs[k].err = "eval_limit"
                 THEN reprogramAt' = Lowered(k) /\ limitHits' = limitHits + 1
                 ELSE UNCHANGED <<reprogramAt, limitHits>>
          PROVE  reprogramAt' \in Nat
      <4>1. k \in Nat
        BY DEF Failed, CountersOK
      <4>2. Lowered(k) \in Nat
        BY <4>1 DEF Lowered, Larger, Hit, CountersOK
      <4>3. QED
        BY <3>2, <4>2 DEF CountersOK
    <3>3. QED
      BY <1>11, <3>1, <3>2 DEF Settle, CountersOK
  <2>3. /\ phase = "settle"
        /\ phase' \in {"loop", "gaveup", "program"}
        /\ jobs' = batch.base + Len(recs)
        /\ pending' \subseteq pending
        /\ UNCHANGED <<warmLeft, batch, recs, devJobs, limit, input, output,
                       before, ticks>>
    BY <1>11 DEF Settle, worker, device
  <2>4. QED
    BY <2>1, <2>2, <2>3 DEF CountersOK, Accounting
<1>12. CASE UNCHANGED vars
  BY <1>12 DEF vars, runner, worker, device, CountersOK, Accounting, Polled
<1>13. QED
  BY <1>1, <1>2, <1>3, <1>4, <1>5, <1>6, <1>7, <1>8, <1>9, <1>10, <1>11, <1>12,
     <1>14
  DEF Next

\* The Runner's count is never behind the device's, in any campaign.
THEOREM BudgetNeverUndercounted == Spec => []NeverUndercounted
<1>1. BudgetInv => NeverUndercounted
  BY DEF BudgetInv, Accounting, NeverUndercounted
<1>2. QED
  BY <1>1, InitBudget, NextBudget, PTL DEF Spec

\* No batch takes the device past the threshold, in any campaign.
THEOREM BudgetThreshold == Spec => []ThresholdHolds
<1>1. BudgetInv => ThresholdHolds
  BY DEF BudgetInv, CountersOK, Accounting, ThresholdHolds
<1>2. QED
  BY <1>1, InitBudget, NextBudget, PTL DEF Spec
-------------------------------------------------------------------------------
(* On a device that allows at least the configured threshold, the limit is *)
(* never met: no record says so, hence the threshold stays where it was.   *)

WarmupsFit == WarmupJobs <= ReprogramAt

NoLimitInv ==
  limit >= ReprogramAt =>
    /\ diag = FALSE
    /\ reprogramAt = ReprogramAt
    /\ phase = "warmup" => devJobs + warmLeft <= WarmupJobs
    /\ phase = "bringup" => devJobs = 0 /\ warmLeft = WarmupJobs
    /\ \A k \in DOMAIN recs : recs[k].err # "eval_limit"

\* No result of a new campaign has met the limit.
LEMMA InitNoLimit == Init => NoLimitInv
BY DEF Init, NoLimitInv

\* One step of a campaign on such a device keeps the limit unmet.
LEMMA NextNoLimit ==
  ASSUME WarmupsFit, BudgetInv, NoLimitInv, [Next]_vars PROVE NoLimitInv'
<1> USE CampaignAssumption DEF CampaignAssumption
<1>0. CountersOK /\ Accounting
  BY DEF BudgetInv
<1>1. limit' = limit
  BY DEF Next, vars, device, Program, BringUp, Warmup, EndReprogram, Finish,
     BudgetSpent, IssueBatch, WriteInput, Queue, DeviceFinish, Collect,
     WorkerException, SimJob, TransportDeath, Settle, Erased
<1> SUFFICES ASSUME limit >= ReprogramAt PROVE NoLimitInv'
  BY <1>1 DEF NoLimitInv
<1>2. CASE Program
  BY <1>0, <1>2 DEF Program, Erased, NoLimitInv, worker, device
<1>3. CASE BringUp
  BY <1>0, <1>3 DEF BringUp, NoLimitInv, worker, device, CountersOK
<1>4. CASE Warmup
  <2>1. devJobs < limit
    BY <1>0, <1>4 DEF Warmup, NoLimitInv, CountersOK, WarmupsFit
  <2>2. diag' = FALSE
    <3>1. ~(devJobs >= limit) /\ diag = FALSE
      BY <1>0, <2>1 DEF CountersOK, NoLimitInv
    <3>2. QED
      BY <1>4, <3>1, Zenon DEF Warmup
  <2>3. phase' = "warmup" => devJobs' + warmLeft' <= WarmupJobs
    BY <1>0, <1>4 DEF Warmup, NoLimitInv, CountersOK
  <2>4. phase' # "bringup" /\ UNCHANGED <<reprogramAt, recs>>
    BY <1>4 DEF Warmup, worker
  <2>5. QED
    BY <2>2, <2>3, <2>4 DEF NoLimitInv
<1>5. CASE EndReprogram \/ Finish \/ BudgetSpent
  BY <1>5 DEF EndReprogram, Finish, BudgetSpent, NoLimitInv, worker, device
<1>6. CASE IssueBatch
  BY <1>6 DEF IssueBatch, NoLimitInv, device
<1>7. CASE WriteInput
  BY <1>7 DEF WriteInput, NoLimitInv, runner
<1>8. CASE Queue
  <2>1. devJobs < limit
    BY <1>0, <1>8 DEF Queue, Accounting, CountersOK, NoLimitInv, Polled
  <2>2. QED
    BY <1>0, <1>8, <2>1 DEF Queue, NoLimitInv, runner, CountersOK
<1>9. CASE DeviceFinish
  BY <1>9 DEF DeviceFinish, NoLimitInv, runner, worker
<1>10. ASSUME Collect \/ WorkerException PROVE NoLimitInv'
  <2>1. PICK out \in Nat \cup {Poison}, err \in {"none", "timeout", "exception"},
             from \in Nat, to \in Nat :
          Emit(out, err, from, to)
    BY <1>0, <1>10 DEF Collect, WorkerException, NoLimitInv, CountersOK
  <2>2. phase' \in {"batch", "settle"}
    BY <2>1 DEF Emit
  <2>3. UNCHANGED <<diag, reprogramAt>>
    BY <1>10 DEF Collect, WorkerException, device
  <2>4. ASSUME NEW k \in DOMAIN recs' PROVE recs'[k].err # "eval_limit"
    BY <1>0, <2>1, <2>4 DEF Emit, CountersOK, NoLimitInv
  <2>5. QED
    BY <2>2, <2>3, <2>4 DEF NoLimitInv
<1>11. CASE TransportDeath
  BY <1>11 DEF TransportDeath, NoLimitInv, device
<1>15. CASE SimJob
  <2>1. Image \in Nat /\ ticks \in Nat /\ Ticked \in Nat
    BY <1>0, TickedFact DEF CountersOK, Image
  <2>2. devJobs < limit
    BY <1>0, <1>15 DEF SimJob, Accounting, CountersOK, NoLimitInv, Polled
  <2>3. ~(devJobs >= limit)
    BY <1>0, <2>2 DEF CountersOK
  <2>4. \/ Emit(Image, "timeout", ticks, Ticked)
        \/ Emit(Image, "none", ticks, Ticked)
    BY <1>15, <2>3 DEF SimJob
  <2>5. UNCHANGED <<diag, reprogramAt>>
    <3>1. \/ devJobs >= limit
          \/ UNCHANGED <<compl, diag>>
          \/ UNCHANGED diag
      BY <1>15, Zenon DEF SimJob
    <3>2. UNCHANGED reprogramAt
      BY <1>15, Zenon DEF SimJob
    <3>3. QED
      BY <2>3, <3>1, <3>2, Zenon
  <2>6. ASSUME NEW k \in DOMAIN recs' PROVE recs'[k].err # "eval_limit"
    <3>1. PICK err \in {"timeout", "none"} : Emit(Image, err, ticks, Ticked)
      BY <2>4
    <3>2. QED
      BY <1>0, <2>6, <3>1 DEF Emit, CountersOK, NoLimitInv
  <2>7. phase' \in {"batch", "settle"}
    BY <2>4 DEF Emit
  <2>8. QED
    BY <2>5, <2>6, <2>7 DEF NoLimitInv
<1>12. CASE Settle
  <2>1. reprogramAt' = reprogramAt
    BY <1>12 DEF Settle, Failed, NoLimitInv
  <2>2. QED
    BY <1>12, <2>1 DEF Settle, NoLimitInv, worker, device
<1>13. CASE UNCHANGED vars
  BY <1>13 DEF vars, runner, worker, device, NoLimitInv
<1>14. QED
  BY <1>2, <1>3, <1>4, <1>5, <1>6, <1>7, <1>8, <1>9, <1>10, <1>11, <1>12, <1>13,
     <1>15
  DEF Next
-------------------------------------------------------------------------------
(* What the log says of an image is that image's: the records of a batch are *)
(* those of its images in order, all good but perhaps the last, and a job    *)
(* that is good finished once, on its own input, since it was queued.        *)

Own(r) == r.out \in {Poison, r.i} /\ Latency(r) = JobTicks

\* What the counter moved by from one reading to a later one.
Moved(from, to) == (to - from) % CounterWrap

\* The records of the batch.
RecsInv ==
  \A k \in DOMAIN recs :
    /\ recs[k].i = batch.first + k - 1
    /\ recs[k].err = "none" => Own(recs[k])
    /\ recs[k].err # "none" => k = Len(recs) /\ phase # "batch"

\* No job is under way where the next one is queued, and the one that is polled
\* for has not finished or has finished once.
DeviceInv ==
  /\ compl \in Nat /\ compl0 \in Nat /\ outstanding \in Nat
  /\ ticks \in 0 .. CounterWrap - 1
  /\ phase \in {"bringup", "warmup"} => outstanding = 0
  /\ phase = "loop" /\ pending # {} => outstanding = 0
  /\ phase = "settle" /\ Failed = {} => outstanding = 0
  /\ phase = "batch" /\ wpc \in {"input", "queue"} => outstanding = 0
  /\ phase = "batch" /\ wpc \in {"queue", "poll"} =>
       input = Image /\ output \in {Poison, Image}
  /\ phase = "batch" /\ wpc = "poll" =>
       /\ before \in 0 .. CounterWrap - 1
       /\ \/ compl = compl0 /\ ticks = before /\ outstanding \in 0 .. 1
          \/ compl # compl0 /\ Moved(before, ticks) = JobTicks /\ outstanding = 0

OwnScore ==
  {s \in [i : Nat, pred : Nat \cup {Poison}, stale : BOOLEAN, latency : {JobTicks}] :
     s.stale \/ s.pred = s.i}

OwnInv == RecsInv /\ DeviceInv /\ results \in Seq(OwnScore)

\* A campaign that begins has no records.
LEMMA InitOwn == Init => OwnInv
BY CampaignAssumption
DEF CampaignAssumption, Init, OwnInv, RecsInv, DeviceInv, OwnScore

\* The counter that wraps stays below its wrap, and a difference of two of its
\* values, modulo the wrap, is what it advanced by.
LEMMA TickedRange ==
  ASSUME ticks \in 0 .. CounterWrap - 1
  PROVE  /\ Ticked \in 0 .. CounterWrap - 1
         /\ Moved(ticks, Ticked) = JobTicks
BY CampaignAssumption DEF CampaignAssumption, Ticked, Moved

\* Appending the record of the present image keeps the records of the batch in
\* order, and the batch is complete only if that record is good.
LEMMA EmitOwn ==
  ASSUME CountersOK, RecsInv, phase = "batch", batch' = batch,
         NEW out \in Nat \cup {Poison},
         NEW err \in {"none", "timeout", "eval_limit", "exception"},
         NEW from \in Nat, NEW to \in Nat,
         Emit(out, err, from, to),
         err = "none" => /\ out \in {Poison, Image}
                         /\ Moved(from, to) = JobTicks
  PROVE  /\ RecsInv'
         /\ phase' = "settle" /\ Failed' = {} => err = "none"
         /\ phase' = "batch" => err = "none" /\ wpc' = "input"
         /\ phase' \in {"batch", "settle"}
<1> DEFINE r == [i |-> Image, out |-> out, err |-> err, before |-> from,
                 after |-> to]
<1>1. Image \in Nat /\ Image = batch.first + Len(recs) /\ Len(recs) \in Nat
  BY DEF CountersOK, Image
<1>2. recs' = Append(recs, r)
  BY DEF Emit
<1>3. /\ DOMAIN recs' = 1 .. Len(recs) + 1
      /\ Len(recs') = Len(recs) + 1
      /\ recs'[Len(recs) + 1] = r
      /\ \A k \in 1 .. Len(recs) : recs'[k] = recs[k]
  BY <1>2 DEF CountersOK
<1>4. /\ phase' = IF err # "none" \/ Len(recs) + 1 = batch.count
                  THEN "settle" ELSE "batch"
      /\ wpc' = IF err # "none" \/ Len(recs) + 1 = batch.count
                THEN "idle" ELSE "input"
  BY DEF Emit
<1>5. err = "none" => Own(r)
  BY DEF Own, Latency, Moved
<1>6. ASSUME NEW k \in 1 .. Len(recs)
      PROVE  recs[k].i = batch.first + k - 1 /\ recs[k].err = "none" /\ Own(recs[k])
  BY <1>6 DEF RecsInv, CountersOK
<1>7. RecsInv'
  <2> SUFFICES ASSUME NEW k \in 1 .. Len(recs) + 1
               PROVE  /\ recs'[k].i = batch.first + k - 1
                      /\ recs'[k].err = "none" => Own(recs'[k])
                      /\ recs'[k].err # "none" =>
                           k = Len(recs') /\ phase' # "batch"
    BY <1>3 DEF RecsInv, Own, Latency
  <2>1. CASE k = Len(recs) + 1
    <3>1. recs'[k] = r
      BY <1>3, <2>1
    <3>2. r.i = batch.first + k - 1 /\ r.err = err
      BY <1>1, <2>1 DEF CountersOK
    <3>3. QED
      BY <1>3, <1>4, <1>5, <2>1, <3>1, <3>2
  <2>2. CASE k \in 1 .. Len(recs)
    BY <1>3, <1>6, <2>2
  <2>3. QED
    BY <1>1, <2>1, <2>2
<1>8. Failed' = {} => err = "none"
  <2>1. Len(recs) + 1 \in DOMAIN recs' /\ recs'[Len(recs) + 1].err = err
    BY <1>1, <1>3
  <2>2. QED
    BY <2>1 DEF Failed
<1>9. QED
  BY <1>4, <1>7, <1>8

\* The good records are a prefix of the batch.
LEMMA ScoredFacts ==
  ASSUME CountersOK, RecsInv
  PROVE  /\ Cardinality(Good) \in 0 .. Len(recs)
         /\ Good = 1 .. Cardinality(Good)
         /\ Scored \in Seq(Record)
         /\ Len(Scored) = Cardinality(Good)
         /\ \A k \in Good : Scored[k] = recs[k]
<1> DEFINE m == IF Failed = {} THEN Len(recs) ELSE Len(recs) - 1
<1>1. Len(recs) \in Nat /\ DOMAIN recs = 1 .. Len(recs)
  BY DEF CountersOK
<1>2. m \in 0 .. Len(recs)
  BY <1>1 DEF Failed
<1>3. Good = 1 .. m
  <2>1. CASE Failed = {}
    BY <1>1, <2>1 DEF Failed, Good
  <2>2. CASE Failed # {}
    BY <1>1, <2>2 DEF Failed, Good, RecsInv
  <2>3. QED
    BY <2>1, <2>2
<1> HIDE DEF m
<1>4. Cardinality(Good) = m
  <2>1. m \in Int /\ 0 <= m
    BY <1>1, <1>2
  <2>2. QED
    BY <1>3, <2>1, FS_Interval
<1>5. \A k \in 1 .. m : recs[k] \in Record
  BY <1>1, <1>2 DEF CountersOK
<1>6. /\ SubSeq(recs, 1, m) \in Seq(Record)
      /\ Len(SubSeq(recs, 1, m)) = IF 1 <= m THEN m - 1 + 1 ELSE 0
      /\ \A k \in 1 .. m - 1 + 1 : SubSeq(recs, 1, m)[k] = recs[1 + k - 1]
  BY <1>2, <1>5, SubSeqProperties
<1>7. QED
  BY <1>2, <1>3, <1>4, <1>6 DEF Scored

Scores == [k \in DOMAIN Scored |-> Score(Scored[k])]

\* What is appended to the log are the scores of the good records, each its own.
LEMMA ScoresFacts ==
  ASSUME CountersOK, RecsInv
  PROVE  /\ Scores \in Seq(OwnScore)
         /\ Len(Scores) = Cardinality(Good)
         /\ \A k \in Good : Scores[k].i = recs[k].i
<1>1. /\ DOMAIN Scored = 1 .. Cardinality(Good)
      /\ Cardinality(Good) \in Nat
      /\ Good = 1 .. Cardinality(Good)
  BY ScoredFacts DEF CountersOK
<1>2. ASSUME NEW k \in Good
      PROVE  Score(Scored[k]) \in OwnScore /\ Score(Scored[k]).i = recs[k].i
  <2>1. k \in DOMAIN recs /\ recs[k].err = "none" /\ Scored[k] = recs[k]
    BY <1>2, ScoredFacts DEF Good
  <2>2. Own(recs[k]) /\ recs[k] \in Record
    BY <2>1 DEF RecsInv, CountersOK
  <2>3. QED
    BY <2>1, <2>2 DEF Score, OwnScore, Own, Record
<1>3. \A k \in 1 .. Cardinality(Good) : Scores[k] \in OwnScore
  BY <1>1, <1>2 DEF Scores
<1>4. Scores = [k \in 1 .. Cardinality(Good) |-> Scores[k]]
  BY <1>1 DEF Scores
<1>5. Scores \in Seq(OwnScore) /\ Len(Scores) = Cardinality(Good)
  BY <1>1, <1>3, <1>4
<1>6. QED
  BY <1>1, <1>2, <1>5 DEF Scores

\* The Runner's queueing and retrying keeps every record its image's own.
LEMMA NextOwn == ASSUME BudgetInv, OwnInv, [Next]_vars PROVE OwnInv'
<1> USE DEF OwnInv
<1>0. CountersOK /\ Accounting
  BY DEF BudgetInv
<1>1. /\ Ticked \in 0 .. CounterWrap - 1
      /\ Moved(ticks, Ticked) = JobTicks
  BY TickedRange DEF DeviceInv
<1>2. ASSUME UNCHANGED <<batch, recs>>, phase' # "batch" \/ phase = "batch"
      PROVE  RecsInv' /\ Failed' = Failed
  BY <1>2 DEF RecsInv, Failed, Own, Latency
<1>3. CASE Program
  <2>1. phase' \in {"died", "bringup"} /\ UNCHANGED <<batch, recs, results>>
    BY <1>3 DEF Program, worker
  <2>2. DeviceInv'
    BY <1>3, <2>1, CampaignAssumption
    DEF CampaignAssumption, Program, Erased, device, worker, DeviceInv
  <2>3. QED
    BY <1>2, <2>1, <2>2
<1>4. CASE BringUp
  BY <1>2, <1>4 DEF BringUp, DeviceInv, worker, device
<1>5. CASE Warmup
  <2>1. /\ phase = "warmup" /\ phase' \in {"warmup", "died"}
        /\ compl' \in {compl, compl + 1} /\ ticks' \in {ticks, Ticked}
        /\ UNCHANGED <<batch, recs, results, outstanding, compl0>>
    BY <1>5 DEF Warmup, worker
  <2>2. RecsInv'
    BY <1>2, <2>1
  <2>3. DeviceInv'
    BY <1>1, <2>1 DEF DeviceInv
  <2>4. QED
    BY <2>1, <2>2, <2>3
<1>6. CASE EndReprogram \/ Finish \/ BudgetSpent
  BY <1>2, <1>6 DEF EndReprogram, Finish, BudgetSpent, DeviceInv, worker, device
<1>7. CASE IssueBatch
  BY <1>7 DEF IssueBatch, RecsInv, DeviceInv, device
<1>8. CASE WriteInput
  <2>1. RecsInv' /\ Image' = Image
    BY <1>2, <1>8 DEF WriteInput, runner, Image
  <2>2. DeviceInv'
    BY <1>8, <2>1 DEF WriteInput, Poisoned, DeviceInv, runner
  <2>3. QED
    BY <1>8, <2>1, <2>2 DEF WriteInput, runner
<1>9. CASE Queue
  <2>1. RecsInv' /\ Image' = Image
    BY <1>2, <1>9 DEF Queue, runner, Image
  <2>2. DeviceInv'
    BY <1>9, <2>1 DEF Queue, DeviceInv, runner
  <2>3. QED
    BY <1>9, <2>1, <2>2 DEF Queue, runner
<1>10. CASE DeviceFinish
  <2>1. RecsInv' /\ Image' = Image /\ Failed' = Failed
    BY <1>2, <1>10 DEF DeviceFinish, runner, worker, Image
  <2>2. DeviceInv'
    BY <1>1, <1>10, <2>1 DEF DeviceFinish, DeviceInv, runner, worker
  <2>3. QED
    BY <1>10, <2>1, <2>2 DEF DeviceFinish, runner
<1>11. CASE Collect
  <2> DEFINE err == IF diag THEN "eval_limit"
                    ELSE IF compl # compl0 THEN "none" ELSE "timeout"
  <2>1. err = "none" => /\ output \in {Poison, Image}
                        /\ Moved(before, ticks) = JobTicks
                        /\ outstanding = 0
    BY <1>11 DEF Collect, DeviceInv
  <2>2. Emit(output, err, before, ticks)
    BY <1>11, Zenon DEF Collect
  <2>3. /\ output \in Nat \cup {Poison} /\ before \in Nat /\ ticks \in Nat
        /\ err \in {"none", "timeout", "eval_limit", "exception"}
    BY <1>0 DEF CountersOK
  <2>4. phase = "batch" /\ UNCHANGED <<batch, results, device, compl0, before>>
    BY <1>11 DEF Collect
  <2> HIDE DEF err
  <2>5. /\ RecsInv'
        /\ phase' = "settle" /\ Failed' = {} => err = "none"
        /\ phase' = "batch" => err = "none" /\ wpc' = "input"
        /\ phase' \in {"batch", "settle"}
    BY <1>0, <2>1, <2>2, <2>3, <2>4, EmitOwn
  <2>6. DeviceInv'
    <3>1. wpc = "poll"
      BY <1>11 DEF Collect
    <3>2. QED
      BY <2>1, <2>4, <2>5, <3>1 DEF DeviceInv, device
  <2>7. QED
    BY <2>4, <2>5, <2>6
<1>12. CASE WorkerException
  <2>1. Emit(Poison, "exception", 0, 0)
    BY <1>12 DEF WorkerException
  <2>2. phase = "batch" /\ UNCHANGED <<batch, results, device, compl0, before>>
    BY <1>12 DEF WorkerException
  <2>3. RecsInv' /\ phase' = "settle" /\ Failed' # {}
    BY <1>0, <2>1, <2>2, EmitOwn
  <2>4. DeviceInv'
    BY <2>2, <2>3 DEF DeviceInv, device
  <2>5. QED
    BY <2>2, <2>3, <2>4
<1>13. CASE SimJob
  <2>1. /\ phase = "batch" /\ outstanding = 0
        /\ UNCHANGED <<batch, results, compl0, before, outstanding, input, output>>
        /\ ticks' = Ticked /\ compl' \in {compl, compl + 1}
    BY <1>13 DEF SimJob, DeviceInv
  <2>2. PICK out \in Nat \cup {Poison},
             err \in {"none", "timeout", "eval_limit", "exception"} :
          /\ Emit(out, err, ticks, Ticked)
          /\ err = "none" => out = Image
    <3>1. Image \in Nat
      BY <1>0 DEF CountersOK, Image
    <3>2. \/ Emit(Poison, "eval_limit", ticks, Ticked)
          \/ Emit(Image, "timeout", ticks, Ticked)
          \/ Emit(Image, "none", ticks, Ticked)
      BY <1>13, Zenon DEF SimJob
    <3>3. QED
      BY <3>1, <3>2
  <2>3. ticks \in Nat /\ Ticked \in Nat
    BY <1>0, <1>1 DEF CountersOK
  <2>4. /\ RecsInv'
        /\ phase' = "batch" => wpc' = "input"
        /\ phase' \in {"batch", "settle"}
    BY <1>0, <1>1, <2>1, <2>2, <2>3, EmitOwn
  <2>5. DeviceInv'
    BY <1>1, <2>1, <2>4 DEF DeviceInv
  <2>6. QED
    BY <2>1, <2>4, <2>5
<1>14. CASE TransportDeath
  BY <1>2, <1>14 DEF TransportDeath, DeviceInv, device
<1>15. CASE Settle
  <2>1. results' = results \o Scores
    BY <1>15 DEF Settle, Scores
  <2>2. results' \in Seq(OwnScore)
    BY <1>0, <2>1, ScoresFacts
  <2>3. phase' \in {"loop", "gaveup", "program"} /\ UNCHANGED <<worker, device>>
    BY <1>15 DEF Settle
  <2>4. phase' = "loop" => Failed = {} \/ pending' = {}
    BY <1>15 DEF Settle
  <2>5. RecsInv' /\ DeviceInv'
    BY <1>2, <1>15, <2>3, <2>4 DEF Settle, DeviceInv, worker, device
  <2>6. QED
    BY <2>2, <2>5
<1>16. CASE UNCHANGED vars
  BY <1>2, <1>16 DEF vars, runner, worker, device, DeviceInv, Image
<1>17. results' = results \/ Settle
  BY DEF Next, vars, runner, Program, BringUp, Warmup, EndReprogram, Finish,
         BudgetSpent, IssueBatch, WriteInput, Queue, DeviceFinish, Collect,
         WorkerException, SimJob, TransportDeath
<1>18. QED
  BY <1>3, <1>4, <1>5, <1>6, <1>7, <1>8, <1>9, <1>10, <1>11, <1>12, <1>13, <1>14,
     <1>15, <1>16, <1>17
  DEF Next

\* Every record of the log is its image's own, in any campaign: an output is of
\* that image or the record says it is stale, and a latency is of that job.
THEOREM ResultsOwn == Spec => []ResultsAreOwn
<1>1. OwnInv => ResultsAreOwn
  BY DEF OwnInv, ResultsAreOwn, OwnScore
<1>2. QED
  BY <1>1, InitBudget, NextBudget, InitOwn, NextOwn, PTL DEF Spec
-------------------------------------------------------------------------------
(* On a device that allows less, the limit is met once.  The Runner's count  *)
(* is ahead of the device's by skipped warm-ups only, until a record fails:  *)
(* so the first job past the limit is known up to the warm-ups, and the      *)
(* threshold learnt from it keeps clear of the limit.                        *)

\* What 100 and 500 are to limits of thousands and one warm-up.
LearntClear ==
  /\ \A l \in Limits : Floor <= l
  /\ WarmupJobs <= Floor /\ WarmupJobs < Margin

Unmet == diag = FALSE /\ devJobs <= limit
Met == diag = TRUE /\ devJobs = limit + 1

LearntInv ==
  /\ limit \in Limits
  /\ limitHits \in {0, 1}
  /\ limitHits = 1 => reprogramAt <= limit
  /\ phase = "bringup" => Unmet /\ jobs = 0 /\ warmLeft = WarmupJobs
  /\ phase = "warmup" => Unmet /\ jobs + warmLeft = WarmupJobs
  /\ phase = "loop" /\ pending # {} => Unmet /\ jobs <= devJobs + WarmupJobs
  /\ phase = "batch" =>
       /\ batch.base + Len(recs) + Polled <= devJobs + WarmupJobs
       /\ Unmet \/ (Met /\ limitHits = 0 /\ wpc = "poll")
  /\ phase = "settle" =>
       /\ limitHits = 1 => diag = FALSE
       /\ Failed = {} => /\ Unmet
                        /\ batch.base + Len(recs) <= devJobs + WarmupJobs
       /\ \A k \in DOMAIN recs :
            recs[k].err = "eval_limit" =>
              limitHits = 0 /\ batch.base + k <= limit + 1 + WarmupJobs

\* Nothing has been met or learnt when a campaign begins.
LEMMA InitLearnt == Init => LearntInv
BY DEF Init, LearntInv

\* A record of the batch that goes on is good, and what ends it ends it in
\* the state the record tells of.
LEMMA EmitLearnt ==
  ASSUME BudgetInv, RecsInv, LearntInv, phase = "batch",
         UNCHANGED <<batch, limit, limitHits, reprogramAt>>,
         NEW out \in Nat \cup {Poison},
         NEW err \in {"none", "timeout", "eval_limit", "exception"},
         NEW from \in Nat, NEW to \in Nat,
         Emit(out, err, from, to),
         limitHits = 1 => diag' = FALSE,
         devJobs' \in Nat,
         err = "none" => /\ Unmet'
                         /\ batch.base + Len(recs) + 1 <= devJobs' + WarmupJobs,
         err = "eval_limit" =>
           limitHits = 0 /\ batch.base + Len(recs) + 1 <= limit + 1 + WarmupJobs
  PROVE  LearntInv'
<1> USE CampaignAssumption DEF CampaignAssumption
<1> DEFINE r == [i |-> Image, out |-> out, err |-> err, before |-> from,
                 after |-> to]
<1>0. CountersOK /\ Accounting
  BY DEF BudgetInv
<1>1. recs' = Append(recs, r)
  BY DEF Emit
<1>2. /\ Len(recs) \in Nat
      /\ DOMAIN recs' = 1 .. Len(recs) + 1
      /\ Len(recs') = Len(recs) + 1
      /\ recs'[Len(recs) + 1] = r
      /\ \A k \in 1 .. Len(recs) : recs'[k] = recs[k]
  BY <1>0, <1>1 DEF CountersOK
<1>3. \A k \in 1 .. Len(recs) : recs[k].err = "none"
  BY <1>0 DEF RecsInv, CountersOK
<1>4. \/ phase' = "settle"
      \/ phase' = "batch" /\ wpc' = "input" /\ err = "none"
  BY DEF Emit
<1>5. Failed' = {} => err = "none"
  <2>1. Len(recs) + 1 \in DOMAIN recs' /\ recs'[Len(recs) + 1].err = err
    BY <1>2
  <2>2. QED
    BY <2>1 DEF Failed
<1>6. ASSUME NEW k \in DOMAIN recs', recs'[k].err = "eval_limit"
      PROVE  limitHits = 0 /\ batch.base + k <= limit + 1 + WarmupJobs
  <2>1. k = Len(recs) + 1
    BY <1>2, <1>3, <1>6
  <2>2. err = "eval_limit"
    BY <1>2, <1>6, <2>1
  <2>3. QED
    BY <1>0, <1>2, <2>1, <2>2 DEF CountersOK
<1>7. CASE phase' = "settle"
  BY <1>0, <1>2, <1>5, <1>6, <1>7 DEF LearntInv, CountersOK
<1>8. CASE phase' = "batch" /\ wpc' = "input" /\ err = "none"
  BY <1>0, <1>2, <1>8 DEF LearntInv, CountersOK, Polled
<1>9. QED
  BY <1>4, <1>7, <1>8

\* One step of a campaign learns a threshold at most once.
LEMMA NextLearnt ==
  ASSUME LearntClear, BudgetInv, OwnInv, LearntInv, [Next]_vars
  PROVE  LearntInv'
<1> USE CampaignAssumption DEF CampaignAssumption
<1>0. CountersOK /\ Accounting /\ RecsInv /\ limit \in Limits
  BY DEF BudgetInv, OwnInv, LearntInv
<1>1. Floor <= limit /\ WarmupJobs <= limit
  BY <1>0 DEF LearntClear
<1>2. CASE Program
  BY <1>0, <1>2 DEF Program, Erased, LearntInv, Unmet, worker, device, CountersOK
<1>3. CASE BringUp
  BY <1>0, <1>3 DEF BringUp, LearntInv, Unmet, worker, device, CountersOK
<1>4. CASE Warmup
  <2>1. /\ phase = "warmup" /\ warmLeft > 0
        /\ jobs' = jobs + 1 /\ warmLeft' = warmLeft - 1
        /\ UNCHANGED <<limit, limitHits, reprogramAt>>
    BY <1>4 DEF Warmup, WarmupCharge
  <2>2. \/ phase' = "died"
        \/ phase' = "warmup" /\ Unmet'
    <3>1. \/ phase' = "died"
          \/ UNCHANGED <<phase, devJobs, diag>>
          \/ devJobs < limit /\ devJobs' = devJobs + 1 /\ UNCHANGED <<phase, diag>>
      BY <1>4, Zenon DEF Warmup
    <3>2. Unmet
      BY <2>1 DEF LearntInv
    <3>3. QED
      BY <1>0, <2>1, <3>1, <3>2 DEF Unmet, CountersOK
  <2>3. QED
    BY <1>0, <2>1, <2>2 DEF LearntInv, CountersOK
<1>5. CASE EndReprogram \/ Finish \/ BudgetSpent
  BY <1>0, <1>5 DEF EndReprogram, Finish, BudgetSpent, LearntInv, Unmet, worker,
                    device, CountersOK
<1>6. CASE IssueBatch
  <2>1. /\ phase = "loop" /\ pending # {} /\ phase' = "batch" /\ wpc' = "input"
        /\ recs' = <<>> /\ batch'.base = jobs
        /\ UNCHANGED <<limit, limitHits, reprogramAt, devJobs, diag>>
    BY <1>6 DEF IssueBatch, device
  <2>2. Unmet' /\ jobs <= devJobs + WarmupJobs
    BY <2>1 DEF LearntInv, Unmet
  <2>3. Len(recs') = 0 /\ Polled' = 0
    BY <2>1 DEF Polled
  <2>4. QED
    BY <1>0, <2>1, <2>2, <2>3 DEF LearntInv, CountersOK
<1>7. CASE WriteInput
  BY <1>0, <1>7 DEF WriteInput, LearntInv, Unmet, runner, CountersOK, Polled
<1>8. CASE Queue
  <2>1. limitHits = 1 => devJobs < limit
    BY <1>0, <1>8 DEF Queue, LearntInv, Accounting, CountersOK, Polled
  <2>2. Unmet
    BY <1>0, <1>8 DEF Queue, LearntInv
  <2>3. /\ phase = "batch" /\ phase' = "batch" /\ wpc = "queue" /\ wpc' = "poll"
        /\ devJobs' = devJobs + 1
        /\ UNCHANGED <<limit, limitHits, reprogramAt, batch, recs>>
    BY <1>8 DEF Queue, runner
  <2>4. Unmet' \/ (Met' /\ devJobs >= limit)
    <3>1. \/ devJobs < limit /\ diag' = diag
          \/ devJobs >= limit /\ diag' = TRUE
      BY <1>8, Zenon DEF Queue
    <3>2. QED
      BY <1>0, <2>2, <2>3, <3>1 DEF Unmet, Met, CountersOK
  <2>5. QED
    BY <1>0, <2>1, <2>2, <2>3, <2>4 DEF LearntInv, CountersOK, Polled, Unmet
<1>9. CASE DeviceFinish
  BY <1>0, <1>9 DEF DeviceFinish, LearntInv, Unmet, Met, runner, worker, CountersOK,
                    Polled, Failed
<1>10. CASE Collect
  <2>1. /\ phase = "batch" /\ wpc = "poll"
        /\ UNCHANGED <<batch, limit, limitHits, reprogramAt, devJobs, diag>>
    BY <1>10 DEF Collect, device
  <2>2. Unmet \/ (Met /\ limitHits = 0)
    BY <2>1 DEF LearntInv
  <2>3. batch.base + Len(recs) + 1 <= devJobs + WarmupJobs /\ Len(recs) \in Nat
    BY <1>0, <2>1 DEF LearntInv, Polled, CountersOK
  <2>4. CASE diag
    <3>1. Emit(output, "eval_limit", before, ticks)
      BY <1>10, <2>4 DEF Collect
    <3>2. limitHits = 0 /\ devJobs = limit + 1
      BY <2>2, <2>4 DEF Unmet, Met
    <3>3. limitHits \in {0, 1} /\ (limitHits = 1 => diag' = FALSE) /\ devJobs' \in Nat
      BY <1>0, <2>1, <3>2 DEF CountersOK
    <3>4. QED
      BY <1>0, <2>1, <2>3, <3>1, <3>2, <3>3, EmitLearnt DEF CountersOK
  <2>5. CASE ~diag
    <3>1. PICK err \in {"none", "timeout"} : Emit(output, err, before, ticks)
      BY <1>10, <2>5 DEF Collect
    <3>2. Unmet' /\ (limitHits = 1 => diag' = FALSE) /\ devJobs' \in Nat
      BY <1>0, <2>1, <2>2, <2>5 DEF Unmet, Met, CountersOK
    <3>3. batch.base + Len(recs) + 1 <= devJobs' + WarmupJobs
      BY <2>1, <2>3
    <3>4. err \in {"none", "timeout", "eval_limit", "exception"} /\ err # "eval_limit"
      OBVIOUS
    <3>5. output \in Nat \cup {Poison} /\ before \in Nat /\ ticks \in Nat
      BY <1>0 DEF CountersOK
    <3>6. QED
      BY <1>0, <2>1, <3>1, <3>2, <3>3, <3>4, <3>5, EmitLearnt
  <2>6. QED
    BY <2>4, <2>5
<1>11. CASE WorkerException
  <2>1. /\ phase = "batch"
        /\ UNCHANGED <<batch, limit, limitHits, reprogramAt, devJobs, diag>>
        /\ Emit(Poison, "exception", 0, 0)
    BY <1>11 DEF WorkerException, device
  <2>2. limitHits = 1 => diag' = FALSE
    BY <2>1 DEF LearntInv, Unmet
  <2>3. QED
    BY <1>0, <2>1, <2>2, EmitLearnt DEF CountersOK
<1>12. CASE SimJob
  <2>1. /\ phase = "batch" /\ wpc = "input" /\ devJobs' = devJobs + 1
        /\ UNCHANGED <<batch, limit, limitHits, reprogramAt>>
    BY <1>12 DEF SimJob
  <2>2. Unmet /\ batch.base + Len(recs) <= devJobs + WarmupJobs /\ Len(recs) \in Nat
    BY <1>0, <2>1 DEF LearntInv, Polled, CountersOK
  <2>3. limitHits = 1 => devJobs < limit
    BY <1>0, <2>1 DEF LearntInv, Accounting, CountersOK, Polled
  <2>4. Image \in Nat /\ ticks \in Nat /\ Ticked \in Nat
    BY <1>0, TickedFact DEF CountersOK, Image
  <2>5. CASE devJobs >= limit /\ Emit(Poison, "eval_limit", ticks, Ticked)
    <3>1. limitHits = 0 /\ batch.base + Len(recs) + 1 <= limit + 1 + WarmupJobs
      BY <1>0, <2>2, <2>3, <2>5 DEF LearntInv, Unmet, CountersOK
    <3>2. limitHits = 1 => diag' = FALSE
      BY <3>1
    <3>3. devJobs' \in Nat
      BY <1>0, <2>1 DEF CountersOK
    <3>4. QED
      BY <1>0, <2>1, <2>4, <2>5, <3>1, <3>2, <3>3, EmitLearnt
  <2>6. ASSUME devJobs < limit, diag' = diag,
               NEW err \in {"none", "timeout"}, Emit(Image, err, ticks, Ticked)
        PROVE  LearntInv'
    <3>1. /\ Unmet'
          /\ limitHits = 1 => diag' = FALSE
          /\ devJobs' \in Nat
          /\ batch.base + Len(recs) + 1 <= devJobs' + WarmupJobs
      BY <1>0, <2>1, <2>2, <2>6 DEF Unmet, CountersOK
    <3>2. err \in {"none", "timeout", "eval_limit", "exception"} /\ err # "eval_limit"
      OBVIOUS
    <3>3. Image \in Nat \cup {Poison}
      BY <2>4
    <3>4. QED
      BY <1>0, <2>1, <2>4, <2>6, <3>1, <3>2, <3>3, EmitLearnt
  <2>7. \/ devJobs >= limit /\ Emit(Poison, "eval_limit", ticks, Ticked)
        \/ devJobs < limit /\ diag' = diag /\ Emit(Image, "timeout", ticks, Ticked)
        \/ devJobs < limit /\ diag' = diag /\ Emit(Image, "none", ticks, Ticked)
    BY <1>12, Zenon DEF SimJob
  <2>8. QED
    BY <2>5, <2>6, <2>7
<1>13. CASE TransportDeath
  BY <1>0, <1>13 DEF TransportDeath, LearntInv, device, CountersOK
<1>14. CASE Settle
  <2>1. /\ phase = "settle" /\ phase' \in {"loop", "gaveup", "program"}
        /\ jobs' = batch.base + Len(recs)
        /\ phase' = "loop" => Failed = {} \/ pending' = {}
        /\ UNCHANGED <<warmLeft, batch, recs, devJobs, limit, diag>>
    BY <1>14 DEF Settle, worker, device
  <2>2. \/ UNCHANGED <<limitHits, reprogramAt>>
        \/ /\ limitHits = 0 /\ limitHits' = 1
           /\ reprogramAt' <= limit
    <3>1. CASE Failed = {}
      BY <1>14, <3>1 DEF Settle
    <3>2. ASSUME NEW k \in Failed, recs[k].err = "eval_limit",
                 reprogramAt' = Lowered(k) /\ limitHits' = limitHits + 1
          PROVE  limitHits = 0 /\ limitHits' = 1 /\ reprogramAt' <= limit
      <4>1. k \in DOMAIN recs /\ k \in Nat
        BY <1>0 DEF Failed, CountersOK
      <4>2. limitHits = 0 /\ batch.base + k <= limit + 1 + WarmupJobs
        BY <2>1, <3>2, <4>1 DEF LearntInv
      <4>3. Lowered(k) <= limit
        BY <1>0, <1>1, <4>1, <4>2 DEF Lowered, Larger, Hit, LearntClear, CountersOK
      <4>4. QED
        BY <3>2, <4>2, <4>3
    <3>3. QED
      BY <1>14, <3>1, <3>2 DEF Settle
  <2>3. QED
    BY <1>0, <2>1, <2>2 DEF LearntInv, CountersOK, Unmet
<1>15. CASE UNCHANGED vars
  BY <1>0, <1>15 DEF vars, runner, worker, device, LearntInv, Unmet, Met,
                     CountersOK, Polled, Failed
<1>16. QED
  BY <1>2, <1>3, <1>4, <1>5, <1>6, <1>7, <1>8, <1>9, <1>10, <1>11, <1>12, <1>13,
     <1>14, <1>15
  DEF Next

\* A device that honours the configured threshold never meets its limit, when
\* the warm-ups fit below it; a device with any other limit meets it once, when
\* floor and margin keep clear of limit and warm-ups.
THEOREM BudgetSuffices == WarmupsFit /\ LearntClear /\ Spec => []LimitMetOnce
<1> SUFFICES ASSUME WarmupsFit, LearntClear PROVE Spec => []LimitMetOnce
  OBVIOUS
<1>1. NoLimitInv /\ LearntInv => LimitMetOnce
  BY DEF NoLimitInv, LearntInv, LimitMetOnce, Unmet
<1>2. BudgetInv /\ NoLimitInv /\ [Next]_vars => NoLimitInv'
  BY NextNoLimit
<1>3. BudgetInv /\ OwnInv /\ LearntInv /\ [Next]_vars => LearntInv'
  BY NextLearnt
<1>4. QED
  BY <1>1, <1>2, <1>3, InitBudget, NextBudget, InitNoLimit, InitOwn, NextOwn,
     InitLearnt, PTL DEF Spec
-------------------------------------------------------------------------------
(* Every image is in one place at any time, in the middle of a batch and when *)
(* the campaign died as well.                                                 *)

\* The images of the batch.
OfBatch == batch.first .. batch.first + batch.count - 1

PlacesInv ==
  /\ Recorded \cup pending \cup abandoned = Wanted
  /\ Recorded \cap pending = {}
  /\ Recorded \cap abandoned = {}
  /\ pending \cap abandoned = {}
  /\ \A k, l \in DOMAIN results : results[k].i = results[l].i => k = l
  /\ phase \in {"batch", "settle"} => OfBatch \subseteq pending

\* All images of a new campaign are pending.
LEMMA InitPlaces == Init => PlacesInv
BY DEF Init, PlacesInv, Recorded

\* The places are those of the images that settle: the good ones go to the log,
\* the one that failed stays or is given up.
LEMMA SettlePlaces ==
  ASSUME BudgetInv, OwnInv, PlacesInv, Settle PROVE PlacesInv'
<1> USE DEF OwnInv, BudgetInv
<1> DEFINE n == Len(results)
           m == Cardinality(Good)
<1>1. /\ phase = "settle" /\ results' = results \o Scores
      /\ pending' = pending \ (ReportedOk \cup abandoned')
      /\ phase' \in {"loop", "gaveup", "program"}
  BY DEF Settle, Scores
<1>2. /\ Scores \in Seq(OwnScore) /\ Len(Scores) = m
      /\ Good = 1 .. m /\ m \in 0 .. Len(recs)
      /\ \A k \in Good : Scores[k].i = recs[k].i
      /\ Len(recs) \in Nat /\ DOMAIN recs = 1 .. Len(recs)
  BY ScoredFacts, ScoresFacts DEF CountersOK
<1>3. n \in Nat /\ DOMAIN results = 1 .. n
  OBVIOUS
<1>4. /\ DOMAIN results' = 1 .. n + m
      /\ \A k \in 1 .. n : results'[k] = results[k]
      /\ \A k \in n + 1 .. n + m : results'[k] = Scores[k - n]
  BY <1>1, <1>2, <1>3
<1>5. ASSUME NEW k \in DOMAIN recs
      PROVE  recs[k].i = batch.first + k - 1 /\ recs[k].i \in pending
  <2>1. recs[k].i = batch.first + k - 1
    BY DEF RecsInv
  <2>2. k <= batch.count /\ k >= 1 /\ k \in Nat /\ batch.first \in Nat
    BY <1>1, <1>2 DEF Accounting, CountersOK
  <2>3. batch.first + k - 1 \in OfBatch
    BY <2>2 DEF OfBatch, CountersOK
  <2>4. QED
    BY <1>1, <2>1, <2>3 DEF PlacesInv
<1>6. \A k \in n + 1 .. n + m : k - n \in Good /\ results'[k].i = recs[k - n].i
  BY <1>2, <1>3, <1>4
<1>7. \A k \in Good : k \in DOMAIN recs /\ recs[k].err = "none"
  BY DEF Good
<1> HIDE DEF n, m
<1>8. Recorded' = Recorded \cup ReportedOk
  <2>1. ASSUME NEW k \in DOMAIN results'
        PROVE  results'[k].i \in Recorded \cup ReportedOk
    <3>1. CASE k \in 1 .. n
      BY <1>3, <1>4, <3>1 DEF Recorded
    <3>2. CASE k \in n + 1 .. n + m
      BY <1>6, <3>2 DEF ReportedOk
    <3>3. QED
      BY <1>2, <1>3, <1>4, <3>1, <3>2
  <2>2. ASSUME NEW k \in DOMAIN results PROVE results[k].i \in Recorded'
    <3>1. k \in DOMAIN results' /\ results'[k] = results[k]
      BY <1>2, <1>3, <1>4
    <3>2. QED
      BY <3>1 DEF Recorded
  <2>3. ASSUME NEW k \in Good PROVE recs[k].i \in Recorded'
    <3>1. PICK l \in n + 1 .. n + m : l - n = k /\ l \in DOMAIN results'
      <4>1. k \in Nat /\ 1 <= k /\ k <= m /\ m \in Nat
        BY <1>2
      <4>2. /\ n + k \in n + 1 .. n + m /\ n + k \in DOMAIN results'
            /\ n + k - n = k
        BY <1>3, <1>4, <4>1
      <4>3. QED
        BY <1>3, <4>1, <4>2
    <3>2. results'[l].i = recs[k].i
      BY <1>6, <3>1
    <3>3. QED
      BY <3>1, <3>2 DEF Recorded
  <2>4. QED
    BY <2>1, <2>2, <2>3 DEF Recorded, ReportedOk
<1>9. ReportedOk \subseteq pending
  BY <1>5, <1>7 DEF ReportedOk
<1>10. \A k, l \in DOMAIN results' : results'[k].i = results'[l].i => k = l
  <2>1. ASSUME NEW k \in 1 .. n, NEW l \in n + 1 .. n + m
        PROVE  results'[k].i # results'[l].i
    <3>1. results'[k].i \in Recorded
      BY <1>3, <1>4 DEF Recorded
    <3>2. results'[l].i \in pending
      BY <1>5, <1>6, <1>7
    <3>3. QED
      BY <3>1, <3>2 DEF PlacesInv
  <2>2. ASSUME NEW k \in 1 .. n, NEW l \in 1 .. n, results'[k].i = results'[l].i
        PROVE  k = l
    BY <1>3, <1>4, <2>2 DEF PlacesInv
  <2>3. ASSUME NEW k \in n + 1 .. n + m, NEW l \in n + 1 .. n + m,
               results'[k].i = results'[l].i
        PROVE  k = l
    <3>1. /\ recs[k - n].i = batch.first + (k - n) - 1
          /\ recs[l - n].i = batch.first + (l - n) - 1
      BY <1>5, <1>6, <1>7
    <3>2. QED
      BY <1>2, <1>3, <1>6, <2>3, <3>1 DEF CountersOK
  <2>4. \A k \in DOMAIN results' : k \in 1 .. n \/ k \in n + 1 .. n + m
    BY <1>2, <1>3, <1>4
  <2>5. QED
    BY <2>1, <2>2, <2>3, <2>4
<1>11. /\ abandoned \subseteq abandoned'
       /\ abandoned' \subseteq abandoned \cup (pending \ ReportedOk)
  <2>1. CASE Failed = {}
    BY <2>1 DEF Settle
  <2>2. ASSUME NEW k \in Failed,
               abandoned' = IF retries[recs[k].i] + 1 >= MaxRetries
                            THEN abandoned \cup {recs[k].i} ELSE abandoned
        PROVE  /\ abandoned \subseteq abandoned'
               /\ abandoned' \subseteq abandoned \cup (pending \ ReportedOk)
    <3>1. k \in DOMAIN recs /\ recs[k].err # "none"
      BY DEF Failed
    <3>2. recs[k].i \notin ReportedOk
      <4> SUFFICES ASSUME NEW l \in Good, recs[l].i = recs[k].i PROVE FALSE
        BY DEF ReportedOk
      <4>1. batch.first + k - 1 = batch.first + l - 1
        BY <1>5, <1>7, <3>1
      <4>2. k = l
        BY <1>2, <1>7, <3>1, <4>1 DEF CountersOK
      <4>3. QED
        BY <1>7, <3>1, <4>2
    <3>3. recs[k].i \in pending
      BY <1>5, <3>1
    <3>4. QED
      BY <2>2, <3>2, <3>3
  <2>3. QED
    BY <2>1, <2>2 DEF Settle
<1>12. QED
  BY <1>1, <1>8, <1>9, <1>10, <1>11 DEF PlacesInv

\* One step of the campaign leaves every image in one place.
LEMMA NextPlaces ==
  ASSUME BudgetInv, OwnInv, PlacesInv, [Next]_vars PROVE PlacesInv'
<1>1. ASSUME UNCHANGED <<results, pending, abandoned>>,
             phase' \in {"batch", "settle"} => OfBatch' \subseteq pending'
      PROVE  PlacesInv'
  BY <1>1 DEF PlacesInv, Recorded
<1>2. ASSUME UNCHANGED <<results, pending, abandoned, batch>>,
             phase' \in {"batch", "settle"} => phase \in {"batch", "settle"}
      PROVE  PlacesInv'
  BY <1>1, <1>2 DEF PlacesInv, OfBatch
<1>3. CASE IssueBatch
  <2>1. PICK f \in pending, n \in 1 .. BatchSize :
          IsRun(f, n) /\ batch' = [first |-> f, count |-> n, base |-> jobs]
    BY <1>3 DEF IssueBatch
  <2>2. OfBatch' \subseteq pending'
    BY <1>3, <2>1 DEF IsRun, OfBatch, IssueBatch
  <2>3. QED
    BY <1>1, <1>3, <2>2 DEF IssueBatch
<1>4. CASE Settle
  BY <1>4, SettlePlaces
<1>5. CASE UNCHANGED vars
  BY <1>2, <1>5 DEF vars, runner, worker
<1>6. CASE \/ Program \/ BringUp \/ Warmup \/ EndReprogram \/ Finish
           \/ BudgetSpent \/ WriteInput \/ Queue \/ DeviceFinish
           \/ TransportDeath
  BY <1>2, <1>6 DEF Program, BringUp, Warmup, EndReprogram, Finish, BudgetSpent,
                    WriteInput, Queue, DeviceFinish, TransportDeath, runner, worker
<1>7. CASE Collect \/ WorkerException \/ SimJob
  BY <1>2, <1>7 DEF Collect, WorkerException, SimJob
<1>8. QED
  BY <1>3, <1>4, <1>5, <1>6, <1>7 DEF Next

\* A log without a repeated image has as many records as images.
LEMMA LogLength ==
  ASSUME OwnInv, PlacesInv PROVE Len(results) = Cardinality(Recorded)
<1> DEFINE f == [k \in 1 .. Len(results) |-> results[k].i]
<1>1. Len(results) \in Nat /\ DOMAIN results = 1 .. Len(results)
  BY DEF OwnInv
<1>2. f \in Bijection(1 .. Len(results), Recorded)
  <2>1. f \in [1 .. Len(results) -> Recorded]
    BY <1>1 DEF Recorded
  <2>2. \A k, l \in 1 .. Len(results) : f[k] = f[l] => k = l
    BY <1>1 DEF PlacesInv
  <2>3. \A i \in Recorded : \E k \in 1 .. Len(results) : f[k] = i
    BY <1>1 DEF Recorded
  <2> HIDE DEF f
  <2>4. QED
    BY <2>1, <2>2, <2>3, Fun_IsBij
<1>3. ExistsBijection(1 .. Len(results), Recorded)
  BY <1>2, Fun_ExistsBij
<1>4. \A n \in Nat : IsFiniteSet(1 .. n) /\ Cardinality(1 .. n) = n
  BY FS_Interval
<1>5. QED
  BY <1>1, <1>3, <1>4, FS_Bijection

\* No image is lost and none scored twice, in any campaign, whatever was retried.
THEOREM ImagesKept == Spec => []NothingLostOrRepeated
<1>1. OwnInv /\ PlacesInv => NothingLostOrRepeated
  BY LogLength DEF PlacesInv, NothingLostOrRepeated
<1>2. QED
  BY <1>1, InitBudget, NextBudget, InitOwn, NextOwn, InitPlaces, NextPlaces, PTL
  DEF Spec
===============================================================================
