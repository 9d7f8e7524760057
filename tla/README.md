# A verification project for agilex_3_ai_benchmarks

The repository measures AI inference on an Arrow AXC3000 board (Agilex 3).  RTL
stores inputs in HyperRAM, replays them into an accelerator and scores the
results; host programs prepare files, drive the board over JTAG and write
results; scripts keep several agents from using the one board at once.  This
directory holds TLA+ models of the parts whose correctness depends on order,
concurrency, failure or a computation that is easy to get wrong, the
configurations that check them with TLC, and TLAPS proofs about them.

Run from this directory: `tlc -config <run>.cfg <module>` for a run (the pairs
are in `PROJECT.json`), `tlapm <module>Proofs.tla` for the proofs.

## 1. Inventory

| Part | State | Operations | Correct when |
|---|---|---|---|
| Devkit lock, `scripts/devkit_lock.sh` | a directory, a holder file with who and epoch | acquire, heartbeat, steal, release (three forms), with, status | one agent at a time works on the board; a kill does not wedge it |
| CIFAR-10 campaign, `sw/ph4_jtag_host/run_cifar10_jtag.py`, `jtag_worker.tcl` | pending, retried and abandoned images, job budget; the worker's batch; the device's counters and windows | reprogram, warm up, batch, per image poison, write, queue, poll, collect; settle | the budget is never overrun; each image is scored once, with its own output; the campaign ends |
| Campaign log, same file, class `Progress` | `results.jsonl` behind a buffer, `state.json` | append, flush, save, resume, report | nothing counts twice; a kill costs little |
| Live viewer, `live_viewer.py` | position in the log, statistics | tail, replay, smoke | it counts what the report counts |
| Worker pipe, same files | two pipes shared with the console's shell | command, answer, steal of a character, fused prompt, hang | an answer is taken for its own command |
| System Console driver, `sw/host/system_console_process.py` and the transport above it | a queue of characters between a reader thread and the caller | open, send, wait for the prompt, time out, close | a value is the answer to its own read |
| Tiny benchmark, `run_tiny_benchmark.py`, `coredla_csr_handshake.py`, `streaming_driver.py`, `dla_platform_hw_timer.sv` | results, baseline, the device's queue, counts, windows, timer | open, write input, descriptors, trigger, poll, time out, read timer and output | outputs and cycles are the record's own; every run ends |
| AXI bridge, `rtl/hyperbus/axi4_hbmc_bridge.sv` | FSM, one buffered beat, the beats on their way | accept, combine, flush, transfer, collect, respond | it is a memory whose writes take effect at once |
| Record replay, `rtl/replay/` | framer FSM, read command, two record buffers or a cut-through FIFO, label FIFO | fetch a burst, route a word, fill, drain, switch, release | the engine gets each record whole, in order, with its label |
| Asynchronous FIFO, `rtl/common/async_fifo.sv` | storage, Gray pointers, synchronizers, flags | an edge of either clock | it is a bounded queue |
| Scoreboard, `rtl/scoreboard/`, with `run_bench.py`, `scoreboard.py` | counters, histogram, clear/run FSM, timestamp and event FIFO, snapshot | issue, retire, clear, start, latch; poll and read | a reported run is the one that was started |
| Compile sweeps and summary, `scripts/sweep_l1.py`, `sweep_l0b.py`, `make_report.py`, `reslib.py`, `report_util.py` | reports, result files, curves, summary | compile in stages, extract, write, draw, summarise | a result file is of one compile of one design |
| HyperBus operating point, `hb_trainer.sv`, `l3_memtest_engine.sv`, `run_l3.py`, `hyperbus.py`, `make_l3_shmoo_report.py` | taps, window, passes, rows of the report | sweep, compute, test, shmoo-point at each clock, choose | the widest window is found; the chosen clock has margin |
| Input files, `sw/packer/`, `load_recimg.py`, `build_tiny_bundle.py`, `InputPack` | images, manifests, bundles, packs | pack, write file by file, load and sample | what is loaded is the image the manifest names |
| Placement, `aot_layout.py`, `hyperram_loader.py` | layout, dump directory, memory | compile, resolve, load, infer, read back | the output read is the network's own |
| Graph rewriting, `sw/model_prep/graph_ops/` | an ONNX graph | decompose pools, fold transposes, densify groups, check | the mathematics is unchanged |
| Throughput estimates, `scripts/estimate.py` | work directories, result files | compile, parse, hash, write, clean up | a number belongs to the files it is hashed with |
| L0 and L2 microbenchmarks, `rtl/microbench/l0_*`, `l2_*`, `run_l0.py`, `run_l2.py`, golden models, `record_l2_measured.py` | pipeline, banks, counters | start, poll, time out, read, compare, record | what is reported is what the golden model replays |

Listed in `PROJECT.json` as not modelled: see section 7.

### How the parts interact

An agent takes the devkit lock and then runs one of the host programs; nothing
but the lock keeps two host programs apart.  Host programs own the device for
their run, and find it in the state an earlier program left it in.  In hardware,
`scoreboard` starts `record_framer`; the framer fills a record buffer and the
label FIFO and pulses `issue_valid` to the scoreboard's front-end; the engine
drains the buffer, retires results against the labels; events cross to the CSR
clock through `async_fifo`; the host polls snapshots.  Host and accelerator
reach the HyperRAM through the AXI bridge.  The programs that prepare files and
those that summarise results meet only in the files.

### Where it is hard

* Several processes between any two shell commands, kills at any point (lock).
* A budget kept by one party for a resource counted by another, under faults that
  leave the two counts apart (campaign).
* Late completions: what timed out finishes under the next one's feet (campaign,
  tiny benchmark, System Console, L0, L2, trainer and memory test).
* Answers matched to questions by their position only (worker pipe, console).
* Buffered files, files rewritten in place, and kills (log, image, pack, sweeps).
* Pipelines whose flow control looks at state that is a cycle old (replay).
* Unrelated clocks (FIFO, scoreboard).
* A beat that waits in a buffer while others overtake it (bridge).
* Index arithmetic that is right on square shapes only (graph rewriting).

`PROJECT.json` lists the hazards line by line with the properties that watch them.

## 2. Modules

| Module | Models | A step is |
|---|---|---|
| `BoardLock` | abstract: a lock with one owner; who works on the board is the owner | |
| `DevkitLock`, `MCDevkitLock` | the script | a command that touches the file system |
| `Campaign`, `MCCampaign`, `CampaignProofs` | Runner, worker, device | a Runner decision, a JTAG access, or the device |
| `CampaignLog`, `MCCampaignLog`, `CampaignLogProofs` | Progress and resume | a piece of a record: two halves and a newline |
| `LiveViewer`, `MCLiveViewer`, `CampaignLogProofs` | the viewer beside the log | a tick of the viewer, or a step of the log |
| `WorkerPipe` | SysconBackend and the worker's command loop | a character or line on a pipe |
| `SystemConsole` | SystemConsoleProcess under its transport | a line, a reply or a prompt |
| `TinyBenchmark` | one run after the other on one device | an access, or the device |
| `BeatMemory` | abstract: a memory of beats | |
| `HyperBridge` | the AXI bridge | a transfer on one of its buses |
| `MCHostLinks` | worker, console, benchmark and bridge, each in its own behaviours | |
| `BoardAccessProofs` | theorems about lock, worker pipe and console | |
| `RecordFramer`, `ReplayTop`, `ReplayPingPong`, `ReplayCutThrough`, `MCReplayCutThrough`, `ReplayProofs` | replay_top in both buffer modes | a clock cycle of all of it |
| `BoundedQueue` | abstract: a bounded FIFO queue | |
| `FifoPointers` | the FIFO with counters for pointers | an edge of one clock |
| `DeviceProofs` | theorems about the FIFO, its pointers, the bridge and the tiny benchmark | |
| `AsyncFifo` | the FIFO as written | an edge of one clock |
| `MCReplay` | both buffer modes and the FIFO, each in its own behaviours | |
| `Scoreboard` | the scoreboard in two clocks | an edge of one clock |
| `RunBench`, `MCRunBench`, `RunBenchProofs` | run_bench, framer and engine on `Scoreboard` | an edge, a register access, the engine |
| `Sweeps`, `Shmoo`, `Artifacts`, `Placement`, `GraphSurgery`, `Estimate`, `L0Bench`, `L2Bench` | one program or microbenchmark each | see below |
| `Microbenchmarks` | the two microbenchmarks' property | |
| `MCHostPrograms` | those eight, each in its own behaviours | |
| `GraphSurgeryProofs` | theorems about the graph rewriting | |
| `HostProgramsProofs` | theorems about the other host programs and the microbenchmarks | |

Operators named `X_Slip` are `X` with a mistake one could make in the source.  No
action uses them; putting one in place of `X` must break the property
`PROJECT.json` names for it, which shows that the property watches that code.

**DevkitLock.**  `dir` and `holder` are LOCK_DIR and HOLDER_FILE.  `mkdir` is the
atomic step; opening the holder file truncates it (`OpenHolder`), writing comes
later (`WriteHolder`), and `rm -rf` is `Unlink` then `Rmdir`.  Time is one bit:
whether the epoch is younger than the limit, which `Age` turns.  `fd` says whether
a descriptor still refers to the present file, since a write after somebody's
`rm -rf` goes to an unlinked file.  `set -e` ends a plain `acquire` whose write
fails but not one inside `with`.  `Crash` kills an agent at any command.

**Campaign.**  `phase` is where `Runner.run` and `Runner.reprogram` are, `wpc`
where `do_job` of the worker is.  `Settle` is the whole tail of the loop body: the
budget correction, recording, retries, lowering the threshold, giving up.  The
device may finish a job at any step (`DeviceFinish`), also one given up, and may
finish it without writing its output.  A worker exception and the death of the
transport can come at any access.

**CampaignLog, LiveViewer.**  The buffer may overflow into the file after any
piece (`Spill`); a kill drops the buffer and keeps the file; an interrupt flushes.
`programmed` is history that the file does not contain and the cycle numbers must
reproduce.  The viewer reads the same file at any moment: a torn tail waits for
its newline, `taken` is what it has counted.

**WorkerPipe, SystemConsole.**  In the first a command is its first character, its
rest and a newline, because the console's shell takes one character of what
arrives while the worker is busy; a worker's line may have prompts fused onto it.
In the second everything up to the next prompt is a reply, whichever line it
answers, and the console may hang, come back late or end.

**TinyBenchmark.**  Each register access of `run_inference_timed` or of the
streaming sequence is a step with the device free in between.  A tensor is the
pair of run and inference that wrote it.  An access that fails (`Abort`), a full
mSGDMA, an exhausted device and a timeout end the run; the next `Open` resets the IP
and finds the rest of the device as it was left.  Every write of the sequence goes
through `csr_write32` or the like, whose failure nobody notices, so each may be lost
(`LostWrites`), the reset of `Open` included: then the jobs of an earlier run are still in
the device and may finish under the new one.  `missing` is history: the lost writes that
the present inference depends on.

**HyperBridge.**  The FSM's states and registers as they are, a beat of `NWords`
words.  A transfer either happens or the bus waits, which is any step not taken.
The refinement mapping to `BeatMemory` says what the masters see: a full write
counts from the moment it is taken (`Held` looks at `wbeat` first, then at the
buffered beat, then at the memory), a read's rest of the burst is `Serving`, the
beat whose partial writes are being collected is `Collecting`.

**Replay.**  `Framer` is the FSM with its registered outputs (`pulses`, `av`), so
that what the buffer sees is one cycle old, as in the RTL.  The memory returns a
word or not, the engine takes or retires or not, each cycle.  A memory word is
represented by its address; what the properties compare is which address arrives
where.

**AsyncFifo.**  A sampled bus that changed since the sampler's domain last saw an
edge shows, bit by bit, the old or the new value (`Caught`).  That is the
metastable outcome a two-flop synchronizer can settle to; Gray code must make it
harmless, and binary code does not (`Gray_Binary`).  A word on a bus
is the set of its wires that are high, and `Gray` raises wire `k` if bits `k` and `k + 1` differ,
which is what `bin ^ (bin >> 1)` does.

**Scoreboard, RunBench.**  `Scoreboard` is the hardware, `RunBench` the host, the framer and
the engine on it.  A time is represented by what happened then: the
timestamp of an issue is the issued record, a latency is the pair of the issue and
the retire it was measured between.  So a latency that pairs the wrong events is a
wrong value, not a wrong number.  The clear reaches the two sides of the event FIFO
some edges apart and results may be in flight.  The host makes one access at a
time, with at least one idle CSR cycle between two.  A framer that loops goes on in
the host's later calls (`Followed` bounds how far), and a START may come during the clear
of a soft reset, which drops it.  `fresh` says that a call was begun with framer and engine
at rest (`AtRest`); `instant` keeps the counters at the last read of CYCLES_LO.

**Sweeps.**  A number in a report is the version of the design it was measured on.
What a sweep has still to do is a set, taken in the grid's order (`Current`).  Tools fail stage by stage, a sweep may be killed and the design edited at any
point; what is on disk stays for the next.  **Shmoo.**  The eye of a clock is any
set of taps, contiguous or not; COMPUTE takes one tap after the other, with the
registers it has; a command may be given up while its engine works on.  **Artifacts.**  A sample is item and version of the data; builds repeat over
what earlier ones left, and a kill cuts a file after a record or in the middle of
one (`CutShort`).  **Placement.**  A write wounds the words below its base, as
aot_layout.py describes the controller; `Device` reads weights and input, fills
scratch space and writes the output.  **GraphSurgery.**  A tensor's element is the
set of products, or the mean, that it is, so two graphs mean the same when their
outputs are equal.  **Estimate.**  Estimates run side by side over one scratch root
while the network's files are rewritten.  **L0Bench, L2Bench.**  The RTL clock by
clock, a product or memory word a symbol, a checksum the set of symbols folded an
odd number of times; the runner may give up and start again on a busy core.

The three composing modules `MCHostLinks`, `MCReplay` and `MCHostPrograms` put
components that do not interact side by side: a variable picks one, its
neighbours stay in one initial state.  Components that do interact are composed
for real: Runner, worker and device; log and viewer; benchmark and device;
framer, buffer, label FIFO and engine; host, scoreboard, framer and engine;
trainer, memory test, command and report; sweeps, result files and summary.

## 3. Runs

| Run | Bounds | Why they are enough |
|---|---|---|
| `lock_exclusive` | 3 agents, 2 kills, one agent through `with`; no steal, no force | every pair of commands interleaves with a third party; a kill can leave each intermediate state twice |
| `lock_recovery` | 2 agents, 1 may be killed (twice), the other steals | the only liveness question is one survivor against one wreck |
| `lock_steal_live` | 2 agents, no kills, locks in use never age | the shortest setting in which nothing excuses a steal |
| `campaign` | images 0,1,2,4,5 (two runs and a gap), batches of 2, threshold 5, device limits 2, 3, 5, a floor and a margin of 2, 1 warm-up, 2 retries, 4 programmings | batches are cut by the gap, by the batch size and by the headroom; a limit at the threshold is reached, one below it is met and learnt by the margin (3) or by the floor (2), with two more programmings to go |
| `campaign_log` | 3 images, 2 kills, buffer may cut anywhere, one stale record, all three viewer modes | a torn line followed by a resume that is killed again, with a viewer that has read part of either |
| `campaign_log_torn` | the same without viewer | |
| `host_links` | one command and two batches; a write, a read and a file; benchmark: 1 warm-up, 2 of 3 records, 2 runs, count wraps at 3, 5 inferences, 1 descriptor, any two writes lost, the reset among them, timer values of 2; bridge: 2 beats of 2 words of 2 values, bursts of 1 or 2 | two like commands in a row can be confused; the count wraps inside the first run, the second meets the device's limit and every leftover of the first, and a lost reset together with another lost write; two beats are one that waits and one that overtakes |
| `replay` | 3-word records in strides of 4 and 5, bursts of 2, 2 or 3 records, 16 words of memory, log reserve of 2, engine of 2; cut-through: these and records of 5 and 6 words through 4 words, looping and not; FIFO: depth 4, two values, 9 writes | a record is not a whole number of bursts, there are more records than buffers, one setting loops, one overruns the guard; a record larger than the FIFO makes framer and engine overlap, and the one of 6 words loses a word; pointers wrap (at 8) and the FIFO is full and empty at every position |
| `replay_cut_through_drop` | 6-word records | the third burst brings two tensor words |
| `tiny_streaming_lost` | streaming only, 1 run | |
| `run_bench` | 2 records, loops of 1 and 2, 3 calls, both FIFOs of 2, 6 buckets, 2 records in the engine, clocks within a factor of 2, soft resets, a looping framer followed for 5 records and another pass in every later call | clears last longer than a record takes, both FIFOs fill, a START meets the clear of a soft reset; a later call finds a looping framer with a pass to go, enough to meet its target, and the third call runs again behind one that only re-armed the framer |
| `host_programs` | sweeps: 2 points, 2 designs, 2 invocations; shmoo: 2 clocks, every eye over 4 taps, 1 or 2 passes, 2 commands; files: 3 items, 2 versions, 3 builds, 20 bytes that wrap at 8 or 20; placement: two good networks, one with two inputs, one of odd size, 3 inferences; graphs: see `MCGraphs`; estimates: 2 callers, 2 bandwidths, 2 generations; L0: 3 blocks, 1 or 3 vectors, 2 runs; L2: 3 banks of 2 words, 1, 2 or 6 reads, 2 runs | a run over leftovers of an earlier one needs two; 4 taps hold every shape of eye with two runs; a wrap at 8 hides part of the image behind another; shapes are not square; one bank is in the middle of others |

What they show:

* `lock_exclusive`: `MutualExclusion`; `ImplementsBoardLock`, the script refines
  the abstract lock.
* `lock_recovery`: `LockIsFreedAgain`, a kill never wedges the board for good while
  one agent keeps asking with `--steal-if-stale`.
* `campaign`: the budget is never undercounted and never overrun
  (`NeverUndercounted`, `ThresholdHolds`), a truthful configuration never meets the
  device's limit and any other meets it once, since the threshold learnt then keeps
  clear of it (`LimitMetOnce`); no image is lost or recorded twice
  (`NothingLostOrRepeated`); no record holds the output of another image
  (`ResultsAreOwn`); every campaign ends (`Terminates`).
* `campaign_log`: no image counts twice, cycle numbers stay faithful, a kill costs
  at most two images; the viewer counts what the file decodes to up to where it
  read, and ends with the report's figures.
* `host_links`: no command reaches the worker mutilated (`CommandsArriveWhole`), an
  answer or value is taken for its own command or read (`AnswersAreOwn`,
  `ValuesAreOwn`), a session and a run end (`SessionEnds`, `RunEnds`); reported
  outputs and cycles are the record's own, and a lost write spoils no more than what it
  belongs to (`ResultsAreOwn`); on the hyperram path no completion is missed, whatever is
  lost (`HyperramCompletionSeen`); the bridge is a memory
  (`ImplementsMemory`).
* `replay`: words and labels reach the engine in order, once, with `eng_last` where
  it belongs (`EngineGetsItsWords`, `LabelsMatchRecords`); in cut-through mode the words do
  until one is dropped, which takes a record longer than the FIFO and a burst asked for
  one place short, and then `eng_last` does not come, so no damaged record is scored and
  the labels stay right.  Unless a word was dropped nobody waits for ever
  (`TrafficGetsThrough`); the FIFO implements `BoundedQueue` and `FifoPointers`.
* `run_bench`: what run_bench reports of a run begun with framer and engine at rest is
  that run, each latency between a record's own issue and retire, and a START that was
  dropped reports nothing (`ReportedRunsAreWhole`); six reads are of one instant in
  every run (`SnapshotIsOneInstant`); the path drains (`PathDrains`).
* `host_programs`: `ResultIsOneCompile` and `CleanExitIsComplete` (a failed stage
  never lets an older report pass for this compile's); `WindowIsWidestRun` and
  `OperatingPointHasMargin`; `LoadedIsTheImage` and `FilesAreOwn` over killed
  builds; `OutputsSurvive` over wounding writes; `MathematicsUnchanged`;
  `EstimateIsTraceable`; `MicrobenchmarksAreGolden`.

### Where the code does something else than its documents say

Four runs end in a violation, each one property that a comment or document claims:

1. `lock_steal_live`: between `mkdir` and the holder write, and inside every
   heartbeat (`>` truncates first), the lock looks stale, and
   `--steal-if-stale` removes a fresh lock from a live agent.
2. `campaign_log_torn`: a resume appends behind a torn last line; the merged line
   does not decode and an image is missing from the report, which the class
   docstring excludes.
3. `replay_cut_through_drop`: the framer judges the room for the next burst while
   the last word of the previous one is still in its output register; with exactly
   one burst's room by that count a word is dropped, silently.
4. `tiny_streaming_lost`: the streaming path reads its completion baseline after
   the trigger; a job that is done by then is waited for until the timeout.

More were met while modelling.  Some are stated as definitions that no run checks,
because the code does not keep them:

* `StatusFreeIsFree` (DevkitLock): `status` answers FREE for a lock directory
  without a holder file, which every `acquire` finds BUSY.
* `OnlyForceRemovesOthers`: `release` without a name removes anybody's lock
  (`AnyRelease` in MCDevkitLock lets agents do so).
* `HardStop` (Campaign): `max_programmings`, called a hard stop, is looked at on
  the fault path only.
* `OperatingPointBelowUnstable` (Shmoo): a clock whose window is too narrow is
  refused without a result file, so the report does not know of it and may choose a
  clock above it.
* `NoEventsInFlightAtAClear` (RunBench): a clear does happen with events in flight
  when a run follows one that loops.  The framer goes on and ignores the later START
  (it looks at `start` in IDLE and FINISH only), so what that call counts are the earlier
  run's records, those in flight at the clear with timestamps lost to it; when their
  number meets the call's target, run_bench reports them.  TLC finds such a report when
  `fresh` is dropped from `ReportedRunsAreWhole`, which therefore speaks of runs begun at
  rest only; `SnapshotIsOneInstant` and `PathDrains` hold in the others too.

Others are conditions of the models, each stated where it is used:

* In FINISH a START only re-arms the framer (record_framer.sv:148), so after a run without
  a loop the next call of `run_benchmark` stalls until its deadline and the one after it
  runs.  The wiring from `run_start` to the framer is not in the repository; the model
  takes it to be a `pulse_sync` and nothing else.
* A lost reset with jobs of an earlier run in the device, a lost write of a tensor or of
  the configuration, and a lost start of the timer give a stale output or time that
  `run_tiny_benchmark` reports like any other: `csr_write32` does not look at what the
  console answers.  `ResultsAreOwn` says which loss spoils what.
* The comment asks for a label FIFO as deep as the engine; the labels of buffered
  records come on top, two of them with two buffers.  The runs give it that depth.
* With `n_records = 0` the store end compares below everything and the framer goes
  on for 2^32 records; the settings of the runs have at least two.
* The framer pulses `record_issue` for one cycle although the front-end asks for it
  to be held: right only while `MAX_INFLIGHT` covers what buffers and engine hold.
* `run_l2` on a core that an abandoned run keeps busy reports, without
  `--verify-golden`, a bandwidth of its own k from the other run's cycles
  (`l2Taken` in L2Bench); `shmoo-point` shares bus and scratch area with what an
  abandoned command left at work, and only the margin of its delay is claimed.
* `record_l2_measured` takes typed numbers: with both k and geometry typed wrong the
  aggregate can agree (33 reads shared and 1057 banked on the real bitstreams).
* `estimate.py` hashes the network's files after the compile, so a file rewritten in
  between is hashed in its new form (`touched` in Estimate).
* `transpose_fold` changes the Reshape and the weight in place: a Reshape or a weight that two
  layers share would be folded for one of them.  The graphs of the run have one reader
  (`FoldsFit`).
* The pool strategy `reduce_mean` takes the mean of the whole image also where the pool's window
  is smaller (the guard at pool_decompose.py:242 compares the kernel with itself), although
  pool_decompose.py:9 promises the same average; the tests use it on global pools.
  `ReducesWhole` asks for such a window: the theorem assumes it, and the run gives the
  strategy no other pool.
* `InputPack` takes a pack for finished by the number of its lines: one of another
  data set or padding with as many images is reused (`mixed` in Artifacts).
* The cap of 10000 inferences does not count the warm-ups; `reset_sgdmas`, which
  would clear what a timed-out streaming job left, is never called (`SgdmaDepth`
  in TinyBenchmark).
* The bridge answers a partial beat at once; in the middle of a longer burst the
  rest of that burst would be left without a data phase.  The masters of the port do
  not do that (`MasterPartial`).

## 4. Fairness

* Lock: a shell runs the commands of an invocation it has started (`WF` on
  `Step`), and an agent that works on the board releases it in the end (`SF`,
  since heartbeats come in between; the header demands it).  For recovery, time
  passes and the survivor keeps asking.  Nobody is obliged to start an
  invocation otherwise.
* Campaign, tiny benchmark, worker pipe: the host programs are sequential, every
  wait has a deadline, so their steps are weakly fair; the device and the console
  owe nothing and no fault has to happen.
* Viewer: the window's timer goes on firing and the campaign goes on or is ended.
* Replay: the clock runs; the memory returns the words of an accepted command, the
  engine takes what stays offered and retires what it can.  Those three are
  assumptions about parts outside `rtl/replay`; the testbench behaves so.
* FIFO: both clocks run; the reader reads while there is something.
* Scoreboard: both clocks run, the memory fills what it was asked for, the engine
  retires what it holds.  The host owes nothing.
* `host_programs` and the bridge have safety properties only.

## 5. Proofs

| Theorem | Statement |
|---|---|
| `BoardAccessProofs!TypeCorrect` | `Spec => []TypeOK`, for every instance |
| `BoardAccessProofs!Exclusion` | under `Disciplined` (nobody steals, forces or releases without a name, names are distinct): `[]MutualExclusion` |
| `BoardAccessProofs!Implementation` | under `Disciplined`: the script implements `BoardLock` |
| `CampaignProofs!BudgetNeverUndercounted` | `[]NeverUndercounted`, for every image set, batch size and limit |
| `CampaignProofs!BudgetThreshold` | `[]ThresholdHolds` |
| `CampaignProofs!BudgetSuffices` | if `WarmupsFit` (`WarmupJobs <= ReprogramAt`) and `LearntClear` (the floor is no higher than a limit, warm-ups are within floor and margin): `[]LimitMetOnce` |
| `CampaignProofs!ResultsOwn` | `[]ResultsAreOwn`: no record holds the output of another job |
| `CampaignProofs!ImagesKept` | `[]NothingLostOrRepeated` |
| `CampaignLogProofs!Once` | `[]NoImageTwice`, for every list of images and any number of kills |
| `CampaignLogProofs!CyclesFaithful` | `[]CyclesAreFaithful` |
| `CampaignLogProofs!LossBounded` | `[]LossPerKill`: at most two images a kill |
| `CampaignLogProofs!ViewerFollows` | `ViewerSpec => []ViewerFollowsTheLog`, whatever kills and resumes do to the file |
| `BoardAccessProofs!ValuesOwn` | `[]ValuesAreOwn` of the console, for every list of accesses |
| `BoardAccessProofs!CommandsWhole` | `[]CommandsArriveWhole` of the worker pipe |
| `BoardAccessProofs!AnswersOwn` | `[]AnswersAreOwn` of the worker pipe |
| `DeviceProofs!CompletionSeen` | if `MaxRuns < CountMod`: `[]HyperramCompletionSeen`, for every wrap of the completion count and every lost write |
| `DeviceProofs!ResultsOwn` | `[]ResultsAreOwn`, with any of the writes lost, however often |
| `ReplayProofs!RecordsDelivered` | if `Geometry`: `[]EngineGetsRecords` of the two buffers |
| `ReplayProofs!LabelsMatch` | if `Geometry` and `LabelRoom`: `[]LabelsMatchRecords` |
| `ReplayProofs!Seamless` | if `Geometry`: `SeamlessSwitch`, an action property no run checks |
| `ReplayProofs!CutDelivered` | if `Geometry`: of the cut-through buffer, `[](LossIsTight /\ (NoWordDropped => EngineGetsRecords))`, for records of any length |
| `ReplayProofs!CutLabelsMatch` | if `Geometry` and `CutLabelRoom`: of the cut-through buffer, `[]LabelsMatchRecords`, also after a loss |
| `ReplayProofs!WordsDelivered` | under all of these: `ReplaySpec => [](EngineGetsItsWords /\ LabelsMatchRecords)`, the record path in both modes |
| `RunBenchProofs!OneInstant` | if `Shapes`, `SlotsFit` and `ClearLasts`: `[]SnapshotIsOneInstant`, in every run |
| `RunBenchProofs!WholeRuns` | under the same: `[]ReportedRunsAreWhole` of runs begun at rest, for every number of records, depth of the FIFOs, histogram and pace of the two clocks |
| `HostProgramsProofs!Traceable` | `[]EstimateIsTraceable`, for any number of estimates side by side |
| `HostProgramsProofs!CleanExit` | `[]CleanExitIsComplete`, for every grid and any number of sweeps, kills and edits |
| `HostProgramsProofs!OneCompile` | `ResultIsOneCompile`, an action property |
| `HostProgramsProofs!WidestRun` | `[]WindowIsWidestRun`, for every number of taps and every eye |
| `HostProgramsProofs!PointHasMargin` | `[]OperatingPointHasMargin`, for every set of clocks |
| `HostProgramsProofs!OwnFiles` | `[]FilesAreOwn`, for any number of items, versions and kills |
| `HostProgramsProofs!LoadedWhole` | `[]LoadedIsTheImage`, for every number and length of records, stride and size of the memory |
| `HostProgramsProofs!MicrobenchmarksGolden` | `L0Spec /\ L2Spec => []MicrobenchmarksAreGolden`, for every number of vectors, blocks, banks, words and reads |
| `GraphSurgeryProofs!MathematicsKept` | if every graph on the way is `WellFormed` and `ReducesWhole`: `[]MathematicsUnchanged`, for every graph, size of the pool unit and number of rewritings |
| `GraphSurgeryProofs!DensifyKeepsMeaning` | a `Densify` step of a well-formed graph changes no output |
| `GraphSurgeryProofs!PoolsKeepMeaning` | if `ReducesWhole`, nor does one of `DecomposePool`, also with a cascade, whose window is factored by recursion |
| `GraphSurgeryProofs!StagesAreOnePool` | a pool in stages is one pool, for every kernel and image |
| `GraphSurgeryProofs!FoldsKeepMeaning` | nor does one of `FoldTranspose`, which permutes a weight and removes the nodes nobody uses any more |
| `GraphSurgeryProofs!FoldedRowsKeepLayer` | a layer with folded rows is the layer behind the Transpose, for every shape, order of axes and weight |
| `HostProgramsProofs!OutputsOwn` | if `ReportShape`, `GuardsCover` and `LayoutsFit`: `[]OutputsSurvive` |
| `DeviceProofs!GrayPointersCount` | for every width: the FIFO with Gray pointers implements the FIFO with counters, `ImplementsPointers` |
| `DeviceProofs!FifoSafe` | for every width: the Gray pointers are late, never early, and nothing is overrun |
| `DeviceProofs!FifoIsAQueue` | for every width: the FIFO implements `BoundedQueue`, `ImplementsQueue` |
| `DeviceProofs!PointersConservative` | for every depth: pointers and flags are late, never early |
| `DeviceProofs!PointersSafe` | for every depth: no overrun, no underrun |
| `DeviceProofs!ReadYourWrites` | the bridge implements `BeatMemory`, for every window, width of a beat and burst length |

*Lock.*  Mutual exclusion is not inductive: nothing in it says who may be about
to use the board.  `IInv` adds `OwnerInv`, the directory exists exactly while it has
an owner and the holder file, if it names anyone, names him, and for each agent
`AgentInv`: only the owner is at the commands that write or remove the holder file
and the directory, whoever works on the board is the owner, an agent that releases
no longer works on it, and nobody is at a stealing command.  Distinct names turn
"the file names me" into ownership, which is what lets `release` reach the removing
commands only for the owner.  `Implementation` uses the same
invariant: each step of the script is a step of `BoardLock` or leaves its
variables alone.

*Campaign.*  `NeverUndercounted` alone does not survive a batch: the Runner
corrects its count from what the batch reported.  `Accounting` relates the count
before the batch, the jobs queued in it, the lines reported and the worker's
place, phase by phase; `BudgetInv` is that with the ranges of the counters.
`NoLimitInv` adds, for a device that allows the configured threshold, that no
diagnostic and no result mentions the limit and that warm-ups fit in front of it.
`LearntInv` is for a device that allows less: until a record fails, the Runner's count is
ahead of the device's by skipped warm-ups at most, so the job that met the limit is known up
to those; the margin takes them off again, and under a threshold at or below the limit no
job meets it.  `LearntClear` is what the 100 and 500 of the code are to one warm-up and a
limit of thousands; without the margin (`Lowered_Hit`) TLC finds the limit met twice.
`OwnInv` follows one image through the worker: what the windows hold at each of its
places, poison before the job, and that a record without an error names the output
of its own input.  `PlacesInv` says that pending, batch, log and given-up images
divide the wanted ones, which the tail of the loop only moves between them.

*Log.*  A kill keeps the file and some prefix of the buffer, and the buffer may spill
at any piece, so the invariants speak of `Text`, file and buffer as one sequence, and of
every prefix of it that is at least the file.  `OnceInv`: in none of them has an
image two whole lines, and none that is still to score has one.  `CycleInv`: cycle
numbers in the text do not exceed the saved one, and one number means one
programming.  `LossInv`: only a kill leaves an unfinished line, and what the session
takes for scored without a whole line is at most the torn line and the one
appended behind it.

*Viewer.*  `TailInv`: the viewer stands behind a newline, and what it has seen is what
the lines up to there decode to, each once.  The file only grows, and a line that ends
at or below a newline decodes or not whatever comes behind it (`LinesStay`), so a step of
the campaign changes nothing the viewer has read; a tick adds the lines between its
old place and the last newline, which by `OnceInv` name other images.  `LeastOf` and
`GreatestOf` (of a bounded set of numbers) come from the well-foundedness of `<`; they say
that there is a last newline to read to.

*Links.*  On the console, what the host has not yet taken is nothing or the one reply
to the line it waits for (`OnlyReplyTo`); a value therefore cannot be an earlier
line's.  On the worker pipe, `QuietInv` says that nothing is on the way between
commands, `StdinInv` that a live worker finds exactly the awaited command at its input,
with or without the newline in front, and `AwaitInv` that what comes back while a
command is awaited is of that command and its last line ends it.

*Tiny benchmark.*  A reset that is lost leaves jobs of earlier runs, so each job carries the
run and inference it was started for.  `AgeInv` and `CountInv` count them: an inference has
one job of its own at most, not started, queued, worked on or finished, the jobs left over are
fewer than the runs, and the count has moved by those that are finished.  With fewer runs than
counts it cannot come back to the baseline, so a host that has not seen it move has missed
nothing (`SeenInv`).  That hypothesis, `MaxRuns < CountMod`, is about a 32-bit count.  `JobInv`,
`TensorInv`, `TimeInv` and `KeptInv` tie input, job, timer, output and results to the inference,
each on condition that the writes it rests on are not in `missing`.  The conditions are no
weaker than they must be: for each of the five writes that `ResultsAreOwn` names TLC finds a
foreign output or time when it is left out.

*Replay.*  `FramerInv` places the framer in the store: the address is that of the
record and word it is at, also in the command it holds and in the words the
memory owes.  `FillInv` says what the buffer being filled holds so far and counts
the write of this cycle; `DrainInv`, that the complete buffers hold the records from
the wanted one up to the one the framer is at, in that order, so
neither side can overtake the other.  `LabelInv` counts: the FIFO has a label for each
record of the engine, of each complete buffer and of the one being fetched if
its label was pushed.  A push finds at most one complete buffer, which bounds the
FIFO by `EngineDepth + 1` at that moment: two more than the engine is needed and
enough.  `Geometry` asks that the base is an address and that the number of records
is at least one and below 2^32; `LabelRoom` is `LabelDepth >= EngineDepth + 2`.  The
addresses wrap (`AddrMod`); the lemmas on remainders are proved from quotient and
remainder.

*Cut-through.*  The lemmas on the framer hold whatever the buffer answers, so they serve
both modes.  `CutInv`: the FIFO holds the words of the record in flight from the wanted
one to the last that came, where the word of this cycle is on its way (`Pending`).  It
is an invariant until a word is dropped, which is what the run
`replay_cut_through_drop` finds.  A command is raised with a burst's room but without counting the
word on its way.  `RoomInv` counts the words in the FIFO, that word and those asked for,
and finds room for all of them unless a burst was raised one place short (`OnePlaceShort`,
which `tight` remembers), and such a burst occurs only in a record longer than the FIFO.
After a loss `ShortInv` holds: fewer words wait than have come and not been taken, while the
engine still counts to the length of the record.  It never gets to the last word, so
`eng_last` does not come, the buffer is not released, and the labels stay those of
the records before.  Hence `CutDelivered` holds for records of any length, and
`LossIsTight` says of a loss when it comes and what it does.  `CutHeld` is what `Held` is for two buffers; it is -1 while
the engine has taken the last word of a record whose label the framer still has to
fetch.  A push then finds the label FIFO shorter than the engine, so one more than
the engine is enough here (`CutLabelRoom`), whether or not a word was lost.  `LabelCore` is
the step of the labels for either mode.  `WordsDelivered` puts the modes together: `ModeInv`
is the invariant of the mode a behaviour is in.

*Run bench.*  `InstantInv` holds in every run: what the host has read is what the counters
were when it read CYCLES_LO.  `Sweep` is about every clear, whoever asked for it: it
follows the level through its two flops, and each stage bounds how far the bucket counter
can be by the edges the CSR clock may be ahead, so that the last bucket is cleared only
when the hot clock has reset its side or must do so before the CSR clock's next edge.
A run begun with framer and engine at rest is in one of four phases.  `Clearing` is the
clear it begins with.  `Ignored` is a START that came during the clear of a soft reset:
nothing is issued, so the count stays 0 and the host stalls.
`Starting` follows the toggle behind the end of the clear; it changes only once the level is
down on both sides of the FIFO.  In `Running`, `HotPath` has the records in flight in order, the
timestamps being theirs and that of the record under fill; `EventFifo` says that the
places from the next event to be counted to the last record retired hold their events,
with four numbers for what the sides have seen of each other's pointers; `Counting`, that
counters and histogram are those of the first `done` records (`Tally`, `InBucket`).
`HostInv` is what the host may conclude at each of its places: counters never go back in
a run, and without a loop they stop at `N`, so the histogram no longer moves while it is read.
`Shapes`: a latency has a bucket, as scoreboard.sv:124 caps it, and None is not a record.
`SlotsFit`: as many timestamps as records in flight, which sb_frontend.sv:22 asks for.
`ClearLasts`: `HistEntries + 1 >= 3 * ClockRatio`; with 64 buckets, either clock may have up to
21 edges between two of the other. The hypothesis is needed: with a shorter clear
(`HistEntries` of 2 or 4 at a ratio of two) TLC finds a snapshot whose span is not
that of the records it counts.

*Estimates.*  `EstimateInv`: no two estimates share a compile directory, one that
compiles finds its own empty, the line that is parsed last is the whole
graph's, and a network nobody touched since the compile is the one compiled.

*Sweeps.*  `SweepsInv` follows a point from stage to stage: the reports of a point under way
that the stages so far have rewritten are all of the design its synthesis took up,
which is no older than the sweep, and a point that is no longer to do has
failed or has its result on disk.  A sweep reaches its clean exit only with nothing to do and
nothing failed.  `GridAssumption`: a grid lists each point once, so what is left to do
is a set, walked in the grid's order.

*Operating point.*  `Widest` needs the scan's own state: `ShmooInv` says of the
registers of COMPUTE after `i` taps that the run they are in is the one that ends there,
and that no run below `i` is wider than the best one.  What the trainer calls
passing is in the eye, since what another master does to it can only make a tap fail; so a row's
window lies in the eye of its clock and, three taps wide, holds its center and both
neighbours.  `ShmooAssumption`: clocks are numbers, and there is a tap.

*Files.*  While a bundle is built its entries name the records this build wrote, and the
records from the builder's number on are not named yet; while a pack is built, the
files below the builder's number are its own.  A kill leaves what was there before, or a
mixture the property names.  `ArtifactsAssumption`: there is an item.

*Placement.*  `PlacesApart` computes that scratch space, weights and input lie apart, the last
two by at least a wound; `PutWrites` that a write leaves every word that is neither
written nor wounded.  So the weights outlive the loading of each input and the work of
the device, and the output, which wounds the tail of the input, comes after the input was
read.  The hypotheses: the compiler reports numbers, an alignment is positive, a
guard band is at least as wide as a wound, and the memory holds the layout.  The last two are
what the code leaves to its caller: `resolve_hyperram_layout` accepts a guard of zero, and
nothing compares `end_addr` with the size of the memory.

*FIFO.*  `Conservative` orders the six counters (`wr`, `rd` and two synchronizer
stages of each): what a side has seen of the other
is never ahead of the truth, in either synchronizer stage, and a flag that is
down means the operation is possible with the seen pointer.  `AsyncFifo` has no
counters, only buses; `FifoInv` says that each bus carries the Gray code of a count,
in what order those counts are, and that a bus in its change is at most one count old.
One count changes one wire, so what a sampler catches is the code of
the old or of the new count, whichever wires it sees.  Counts less than two laps apart
have different codes, and codes that differ in the two top wires only are of counts
one lap apart, so the flags mean what those of the counters mean.

*Image and memory.*  `LoadedIsTheImage` computes with quotients of quotients: records padded to
strides, words to bursts, addresses modulo the memory; `LoadedWhole` divides once, by
quotient and remainder.  `ImageInv` adds that a
manifest on disk describes an image that holds every sample once.  `FirstByte` and
`NoAlias` show that an image of which two places share a word of the memory does not read
back as itself, and `ReadsBack` that every other image does.

*Microbenchmarks.*  L0: `Alike` says that a run under way is the golden loop after as many
iterations as the core has counted clocks, `AtEnd` that one that has ended is the loop at its end.
L2: `Kept` is what a bank keeps after so many reads, the words it folded an odd
number of times; `CoreInv` says for each state of the core how many reads each bank has made,
in both geometries, with what the output register still holds; `HostInv` what the
runner has taken of it.  `AggsDiffer` (the aggregate after one read more is another) is what makes the
recorder's gate tell a `k` from its neighbours.  The golden loop is a recursive
function on the number of clocks, which `LoopFacts` shows to exist.

*Graph rewriting.*  `WellFormed` says what an exporter's graph is: each name is made once and
before it is used, convolutions and pools have an image on which their window fits, a weight to
be folded has one reader, and the names a rewriting invents are free.  `EnvNames` and `ByNodes`
follow the evaluation node by node: a name keeps its value, so two graphs whose nodes make the same
of what they read mean the same, also when one lacks a node nobody reads (`SameMeaning`,
`WithoutNode`).  What is left is what a node makes:

* A dense convolution needs only that its products with 0 do not count (`DenseIsGrouped`).
* Indices and places are taken into each other by `Unravel` and `Ravel` (`Places`, `PlaceParts`), so
  the rows of a folded weight are a rearrangement of the old ones and the set of products is the same
  (`FoldedRowsKeepLayer`); a fold changes three nodes at most and then removes up to two and a
  constant, each of which is shown to change nothing by itself.
* A global pool has one window whatever its stride (`GlobalWindow`).  Windows of windows are windows
  (`NestedCells`), and what the rows at the edge lose in two stages they lose in one
  (`WindowsOfWindows`), so two stages are one pool (`StagesAreOnePool`).  `FactorsExist` shows that
  the recursion of `factorize_into`, on what is left and the next factor to try, has a
  solution, and `FactorizeIs` that the factors and the rest multiply to the window; so the first
  `q` stages of a cascade are one pool with the product of their factors (`CascadeIs`,
  `StageOnStage`), the last of them the pool that was replaced (`CascadeChain`).

`KeptSoFar` is the inductive invariant of the three loops: the graph means what it meant, and what
an earlier loop has removed stays away.  `MathematicsUnchanged` says the latter only of the end, yet
a fold could bring a pool back, and a dense convolution a Transpose to fold, so the proof has
to follow it: a fold leaves every pool and what it reads alone (`RewritesKeep`), a
convolution made dense leaves to every other node the values and constants it reads
(`DenseElsewhere`, `NothingReturns`).  `WindowAssumption`: the pool unit takes a window and a
stride of at least one.  `MathematicsKept` takes for granted that each
graph on the way is `WellFormed` and that a pool that becomes a ReduceMean has its whole image for
a window (`ReducesWhole`); the run checks both of every graph it reaches.

*Bridge.*  The mapping makes a write visible before its words are in the memory, so
the proof needs to know what is on its way: `BridgeInv` says that a flush happens
only with a buffered beat, to another place than the one a write is about to go to,
and that the words before `index` have arrived (`Through`); that nothing is buffered
while a beat passes through or is read; and the same of the words collected of a
read.  `WholeBeat` turns the last word into the whole beat.  Every transfer then is
one step of the memory (the beat taken, answered or acknowledged) or invisible.

The assumptions of the theorems are the named ASSUMEs of the modules (types of the
constants) and the hypotheses in the statements.  TLC evaluates the former, and the
instances of the runs satisfy the latter.

Induction over numbers goes by the least element: a nonempty set of numbers has one
(`Least`, from the well-foundedness of `<`), so what fails for some number fails for a
first one, and a recursive function on the numbers exists and has its equations.

Only model-checked:

* everything under fairness: `LockIsFreedAgain`, `Terminates`, `ViewerReachesTheReport`,
  `SessionEnds`, `RunEnds`, `TrafficGetsThrough`, `PathDrains`.  Liveness is out of the
  prover's reach.
* that a rewritten graph is well-formed again, and that each pool of it has its whole image where
  that is asked for: `WellFormed` and `ReducesWhole` are invariants of the run and hypotheses of
  `MathematicsKept`.  A proof would need an account of names: that a name one rewriting
  invents (`Stage`, a constant's `"dense"` or `"T"`) leaves free those that the later ones will.

## 6. What the models take from outside `src/`

* The accelerator: a job completes some time or never, counts
  `COMPLETION_COUNT` up, and may write its output; `IP_RESET` clears the queue and
  the count; the number of inferences an unlicensed core allows is a constant.
  This is how the host code uses it.
* The memory controller and the engine of the replay, the memory behind the bridge:
  answer when they like.  The controller's wounding of words below a write is taken
  from aot_layout.py.
* A flip-flop that samples a changing bus settles to old or new, bit by bit.
* System Console: a prompt after each line, output in order.
* Quartus and `dla_compiler`: write reports or fail, at each stage.
* ONNX operators: their definition over exact arithmetic.

Left out of the modelled parts: number formats, statistics and report texts of the
host programs; command lines; the `wait` and logging of the scripts; the
scoreboard's status register and result log; padding, dilation and biases in the
graph rewriting; the accuracy evaluation of the bundle; IDs and sticky flags of the
bridge; widths of counters other than those named in the runs.

## 7. Not modelled, and why

* HyperBus controller (`hbmc_core.sv`): byte timing on the bus.  Trainer and memory
  test take it as a memory that reads back or does not.  The controller the boards
  use is a git submodule that is not in the tree, and with it calibration CSR, AXI
  top and pads are wiring.
* L3 bandwidth engine: counters over one burst stream after another, nothing beside
  it.
* L0b and L1 arrays: arithmetic pipelines that are compiled and timed; the sweeps
  that compile them are in `Sweeps`.
* Result log reader, smoke test, `fit_l4`, `parity_gate`: a fixed format, a straight
  sequence of calls modelled elsewhere, floating-point functions.
* CoreDLA platform glue other than the timer: the interrupt retry serves a driver
  that is not in the repository.
* Quantisation, fetching and network definitions: calls of external libraries in a
  row and floating-point statistics.
* Plots, Tcl reports, testbenches, Quartus projects, generated IP, documents.

## 8. What is left

Properties worth adding: liveness of the bridge (a transaction that is accepted is
answered); the L3 bandwidth engine's counters at their width.  A theorem worth adding:
that the rewriting of a graph whose names are an exporter's leaves a well-formed graph.
