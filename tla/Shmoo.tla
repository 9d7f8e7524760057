------------------------------- MODULE Shmoo -------------------------------
(***************************************************************************)
(* The search for the HyperBus operating point: the capture-delay trainer  *)
(* (rtl/hyperbus/hb_trainer.sv), the memory test engine                    *)
(* (rtl/microbench/l3_memtest/l3_memtest_engine.sv), the host command that *)
(* runs both at one clock (sw/host/run_l3.py shmoo-point over              *)
(* sw/host/hyperbus.py) and the report that chooses the clock              *)
(* (scripts/make_l3_shmoo_report.py).                                      *)
(*                                                                         *)
(* The eye of a clock is the set of capture delays at which the bus works; *)
(* it need not be contiguous.  A new clock is a new bitstream, which resets*)
(* the devices.  The host may give up or be killed while a device works on.*)
(***************************************************************************)
EXTENDS Integers, FiniteSets

CONSTANTS
    Clocks,        \* HyperBus clocks of the shmoo, a set of numbers
    DelayTaps,     \* capture delays 0 .. DelayTaps - 1
    PassTargets,   \* passes a memory test may be asked for
    MaxPoints      \* bound: shmoo-point commands

ASSUME ShmooAssumption == Clocks \subseteq Nat /\ DelayTaps \in Nat \ {0}

VARIABLES
    eye,       \* clock -> the delays at which the bus works
    clock,     \* the clock of the loaded bitstream
    capDelay,  \* CSR_CAPDELAY of the controller
    trainer,   \* hb_trainer's state and registers
    memtest,   \* l3_memtest_engine's state and registers
    host,      \* what the shmoo-point command waits for
    rows,      \* clock -> its result file, and what it was measured at
    refused,   \* clocks at which a shmoo-point command failed on its window
    points     \* commands so far

shmooVars == <<eye, clock, capDelay, trainer, memtest, host, rows, refused, points>>

MinWindow == 2                  \* MIN_WINDOW, --min-window, ACCEPT_MIN_WINDOW
OperatingPointMinMargin == 3
Taps == 0..(DelayTaps - 1)

(* The trainer's COMPUTE state takes one tap after the other: the run of    *)
(* passing taps it is in and the widest run so far.                         *)
ScanStart == [i |-> 0, active |-> FALSE, start |-> 0, len |-> 0, lo |-> 0, hi |-> 0, width |-> 0]

TrainerReset == [st |-> "IDLE", tap |-> 0, pass |-> {},
                 lo |-> 0, hi |-> 0, width |-> 0, center |-> 0, valid |-> FALSE,
                 scan |-> ScanStart]
MemtestReset == [st |-> "IDLE", target |-> 1, done |-> 0, errors |-> FALSE]
NoRow == [none |-> TRUE]

ShmooInit ==
    /\ eye \in [Clocks -> SUBSET Taps]
    /\ clock \in Clocks
    /\ capDelay = 0
    /\ trainer = TrainerReset
    /\ memtest = MemtestReset
    /\ host = "shell"
    /\ rows = [c \in Clocks |-> NoRow]
    /\ refused = {}
    /\ points = 0

Reprogram ==
    /\ host = "shell"
    /\ \E c \in Clocks \ {clock} : clock' = c
    /\ capDelay' = 0
    /\ trainer' = TrainerReset
    /\ memtest' = MemtestReset
    /\ UNCHANGED <<eye, host, rows, refused, points>>

-----------------------------------------------------------------------------
(* A plausible bug: a failing tap clears the length of the run but does not *)
(* end it.                                                                  *)
Failed_StaysActive(s) == [s EXCEPT !.i = @ + 1, !.len = 0]

Failed(s) == [s EXCEPT !.i = @ + 1, !.active = FALSE, !.len = 0]

Passed(s) ==
    LET start == IF s.active THEN s.start ELSE s.i
        len   == IF s.active THEN s.len + 1 ELSE 1
        ext   == [s EXCEPT !.i = @ + 1, !.active = TRUE, !.start = start, !.len = len]
    IN  IF len > s.width THEN [ext EXCEPT !.lo = start, !.hi = s.i, !.width = len] ELSE ext

Scan(s, pass) == IF s.i \in pass THEN Passed(s) ELSE Failed(s)

Center(s) == s.lo + (s.width \div 2)

(* The bus works at this delay; while both masters are on it one of them    *)
(* may find the other's words in the scratch area, or a delay moved.        *)
Verifies(other) ==
    {capDelay \in eye[clock]} \union (IF other \in {"IDLE", "DONE"} THEN {} ELSE {FALSE})

StartTrainer ==
    IF trainer.st \notin {"IDLE", "DONE"} THEN trainer
    ELSE [trainer EXCEPT !.st = "SWEEP", !.tap = 0, !.pass = {}, !.valid = FALSE]

SetDelay ==
    /\ trainer.st = "SWEEP" /\ capDelay # trainer.tap
    /\ capDelay' = trainer.tap
    /\ UNCHANGED <<eye, clock, trainer, memtest, host, rows, refused, points>>

(* The pattern is written and read back at each tap.                        *)
TapDone ==
    /\ trainer.st = "SWEEP" /\ capDelay = trainer.tap
    /\ \E ok \in Verifies(memtest.st) :
          LET pass == trainer.pass \union (IF ok THEN {trainer.tap} ELSE {})
          IN  trainer' = IF trainer.tap < DelayTaps - 1
                         THEN [trainer EXCEPT !.pass = pass, !.tap = @ + 1]
                         ELSE [trainer EXCEPT !.pass = pass, !.st = "COMPUTE", !.scan = ScanStart]
    /\ UNCHANGED <<eye, clock, capDelay, memtest, host, rows, refused, points>>

(* After the last tap the window goes to the registers, ...                 *)
Compute ==
    /\ trainer.st = "COMPUTE"
    /\ LET s == trainer.scan
       IN  trainer' = IF s.i < DelayTaps THEN [trainer EXCEPT !.scan = Scan(s, trainer.pass)]
                      ELSE [trainer EXCEPT !.st = "SET_CENTER", !.lo = s.lo, !.hi = s.hi,
                               !.width = s.width, !.center = Center(s), !.valid = s.width >= MinWindow]
    /\ UNCHANGED <<eye, clock, capDelay, memtest, host, rows, refused, points>>

(* ... and its center is parked, however wide it is.                        *)
SetCenter ==
    /\ trainer.st = "SET_CENTER"
    /\ trainer' = [trainer EXCEPT !.st = "DONE"]
    /\ capDelay' = trainer.center
    /\ UNCHANGED <<eye, clock, memtest, host, rows, refused, points>>

(* The engine takes parameters and START only while it does not run.        *)
StartMemtest(target) ==
    IF memtest.st = "RUN" THEN memtest
    ELSE [st |-> "RUN", target |-> target, done |-> 0, errors |-> FALSE]

(* A write-then-verify pass over the span; a bit may flip for other reasons *)
(* than the delay.                                                          *)
MemtestPass ==
    /\ memtest.st = "RUN"
    /\ \E ok \in Verifies(trainer.st) \union {FALSE} :
          memtest' = [memtest EXCEPT !.done = @ + 1, !.errors = @ \/ ~ ok,
                                     !.st = IF memtest.done + 1 = memtest.target THEN "DONE" ELSE @]
    /\ UNCHANGED <<eye, clock, capDelay, trainer, host, rows, refused, points>>

-----------------------------------------------------------------------------
Return == host' = "shell"

ShmooPoint ==
    /\ host = "shell" /\ points < MaxPoints
    /\ points' = points + 1
    /\ trainer' = StartTrainer
    /\ host' = "training"
    /\ UNCHANGED <<eye, clock, capDelay, memtest, rows, refused>>

Accepted == trainer.valid /\ trainer.width >= MinWindow

(* The sweep is done: a window too narrow ends the command with an error    *)
(* and no file, else the memory test is configured and started.             *)
WindowRead ==
    /\ host = "training" /\ trainer.st = "DONE"
    /\ \/ /\ ~ Accepted
          /\ refused' = refused \union {clock}
          /\ Return
          /\ UNCHANGED memtest
       \/ /\ Accepted
          /\ \E t \in PassTargets : memtest' = StartMemtest(t)
          /\ host' = "testing"
          /\ UNCHANGED refused
    /\ UNCHANGED <<eye, clock, capDelay, trainer, rows, points>>

ResultsRead ==
    /\ host = "testing" /\ memtest.st = "DONE"
    /\ rows' = [rows EXCEPT ![clock] =
                  [width |-> trainer.width, center |-> trainer.center,
                   valid |-> trainer.valid, errorFree |-> ~ memtest.errors]]
    /\ Return
    /\ UNCHANGED <<eye, clock, capDelay, trainer, memtest, refused, points>>

(* PollTimeout and a kill: no file, and the devices are left as they are.   *)
GiveUp ==
    /\ host # "shell"
    /\ Return
    /\ UNCHANGED <<eye, clock, capDelay, trainer, memtest, rows, refused, points>>

ShmooNext ==
    \/ Reprogram \/ ShmooPoint
    \/ SetDelay \/ TapDone \/ Compute \/ SetCenter \/ MemtestPass
    \/ WindowRead \/ ResultsRead \/ GiveUp

ShmooSpec == ShmooInit /\ [][ShmooNext]_shmooVars

-----------------------------------------------------------------------------
(* The report walks the rows in ascending order of their clocks.            *)
Recorded == {c \in Clocks : rows[c] # NoRow}
Clean(c) == rows[c].valid /\ rows[c].errorFree

(* A plausible bug: the width a window is accepted with is taken as margin. *)
Qualifies_AcceptWidth(c) ==
    /\ rows[c].width >= MinWindow
    /\ \A d \in Recorded : d <= c => Clean(d)

Qualifies(c) ==
    /\ rows[c].width >= OperatingPointMinMargin
    /\ \A d \in Recorded : d <= c => Clean(d)

(* The chosen clock, as a set of at most one.                               *)
OperatingPoint ==
    LET candidates == {c \in Recorded : Qualifies(c)}
    IN  {c \in candidates : \A d \in candidates : d <= c}

(* At the chosen clock the bus works at the parked delay and at both of its *)
(* neighbours, whatever the eye looks like, and whatever devices were still *)
(* at work for a command that was given up (hb_trainer, choose_operating_   *)
(* point).                                                                  *)
OperatingPointHasMargin ==
    \A c \in OperatingPoint :
        {rows[c].center - 1, rows[c].center, rows[c].center + 1} \subseteq eye[c]

(* The trained window is a run of passing taps, no run is wider, and the    *)
(* registers agree with each other (COMPUTE).                               *)
WindowIsWidestRun ==
    trainer.st = "DONE" =>
        LET runs == {r \in Taps \X Taps : r[1] <= r[2] /\ r[1]..r[2] \subseteq trainer.pass}
        IN  /\ \A r \in runs : r[2] - r[1] + 1 <= trainer.width
            /\ trainer.width > 0 => /\ <<trainer.lo, trainer.hi>> \in runs
                                    /\ trainer.width = trainer.hi - trainer.lo + 1
                                    /\ trainer.center \in trainer.lo..trainer.hi

(* The operating point is below every clock found unstable, those whose     *)
(* window was too narrow to be accepted included (make_l3_shmoo_report).    *)
OperatingPointBelowUnstable == \A c \in OperatingPoint, d \in refused : c < d

=============================================================================
