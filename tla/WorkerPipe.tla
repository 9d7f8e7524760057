------------------------------ MODULE WorkerPipe ------------------------------
(***************************************************************************)
(* The two pipes between SysconBackend (run_cifar10_jtag.py) and           *)
(* jtag_worker.tcl inside System Console.  The console's own shell shares  *)
(* them: its prompt fuses onto lines the worker writes, and while the      *)
(* worker is busy it swallows one character of what arrives next.          *)
(* Characters matter only in that a command without its first one is       *)
(* another command: a line is its first character, its rest, a newline.    *)
(***************************************************************************)
EXTENDS Integers, Sequences, SequencesExt

CONSTANTS
  Commands,    \* the commands of a session, in order: "BATCH" or another verb
  MaxResults   \* the images of a batch

ASSUME PipeAssumption == MaxResults \in Nat \ {0}

VARIABLES
  hpc,       \* where the host is: "start", "idle", "await", "raised", "stopped"
  sent,      \* commands sent so far
  res,       \* RES lines collected for the command that is awaited
  answers,   \* what command() or batch() returned, per command
  stdin,     \* characters on the way to the worker
  stdout,    \* lines on the way to the host
  wpc,       \* the worker: "booting", "reading", "busy", "hung", "dead"
  doing,     \* the command it executes
  emitted,   \* RES lines it wrote for that command
  armed      \* the shell will take one character of what arrives next

pvars == <<hpc, sent, res, answers, stdin, stdout, wpc, doing, emitted, armed>>

Newline == <<"newline">>
First(k) == <<"first", k>>
Rest(k) == <<"rest", k>>
Quit == Len(Commands) + 1      \* the command stop() sends

\* A line of the worker: how many prompts are fused onto it, its kind and the
\* command it belongs to.
Out(prompts, kind, k) == [prompts |-> prompts, kind |-> kind, k |-> k]
Write(kind) == \E p \in 0..1 : stdout' = Append(stdout, Out(p, kind, doing))
-------------------------------------------------------------------------------
(* The worker *)

Announce ==
  /\ wpc = "booting"
  /\ Write("READY")
  /\ wpc' = "reading"
  /\ UNCHANGED <<hpc, sent, res, answers, stdin, doing, emitted, armed>>

\* gets, then dispatch: an empty line is nothing, half a command is unknown.
Dispatch ==
  /\ wpc = "reading"
  /\ Contains(stdin, Newline)
  /\ LET n == SelectInSeq(stdin, LAMBDA c : c = Newline)
         line == SubSeq(stdin, 1, n - 1)
     IN /\ stdin' = SubSeq(stdin, n + 1, Len(stdin))
        /\ IF line = <<>> THEN UNCHANGED <<stdout, wpc, doing, emitted>>
           ELSE IF Len(line) = 2
           THEN /\ wpc' = "busy"
                /\ doing' = line[1][2]
                /\ emitted' = 0
                /\ UNCHANGED stdout
           ELSE /\ \E p \in 0..1 : stdout' = Append(stdout, Out(p, "UNKNOWN", line[1][2]))
                /\ UNCHANGED <<wpc, doing, emitted>>
  /\ UNCHANGED <<hpc, sent, res, answers, armed>>

IsBatch(k) == k <= Len(Commands) /\ Commands[k] = "BATCH"

\* One image of a batch.
Result ==
  /\ wpc = "busy"
  /\ IsBatch(doing)
  /\ emitted < MaxResults
  /\ Write("RES")
  /\ emitted' = emitted + 1
  /\ UNCHANGED <<hpc, sent, res, answers, stdin, wpc, doing, armed>>

\* LOG lines and the chatter of the console.
Chatter ==
  /\ wpc = "busy"
  /\ Len(stdout) < 2
  /\ \E kind \in {"LOG", "noise"} : Write(kind)
  /\ UNCHANGED <<hpc, sent, res, answers, stdin, wpc, doing, emitted, armed>>

\* A batch ends well after its last image and is aborted after any; any other
\* command may fail.  A long command lets the shell at the input.
Reply ==
  /\ wpc = "busy"
  /\ \/ /\ IsBatch(doing) => emitted = MaxResults
        /\ Write("OK")
     \/ /\ IsBatch(doing) => emitted > 0
        /\ Write(IF IsBatch(doing) THEN "ABORTED" ELSE "ERR")
  /\ wpc' = IF doing = Quit THEN "dead" ELSE "reading"
  /\ armed' \in BOOLEAN
  /\ UNCHANGED <<hpc, sent, res, answers, stdin, doing, emitted>>

\* The process ends: the pump puts None behind what it wrote.
Die ==
  /\ wpc # "dead"
  /\ wpc' = "dead"
  /\ stdout' = Append(stdout, Out(0, "EOF", 0))
  /\ UNCHANGED <<hpc, sent, res, answers, stdin, doing, emitted, armed>>

Hang ==
  /\ wpc \in {"booting", "busy"}
  /\ wpc' = "hung"
  /\ UNCHANGED <<hpc, sent, res, answers, stdin, stdout, doing, emitted, armed>>
-------------------------------------------------------------------------------
(* SysconBackend *)

Framed_NoGuard(k) == <<First(k), Rest(k), Newline>>
Framed(k) == <<Newline, First(k), Rest(k), Newline>>

\* A command is written with a newline in front, of which a theft takes that.
SendOf(k) ==
  /\ \E stolen \in IF armed THEN {0, 1} ELSE {0} :
       stdin' = stdin \o SubSeq(Framed(k), 1 + stolen, Len(Framed(k)))
  /\ armed' = FALSE
  /\ res' = <<>>

Send ==
  /\ hpc = "idle"
  /\ sent < Len(Commands)
  /\ SendOf(sent + 1)
  /\ sent' = sent + 1
  /\ hpc' = "await"
  /\ UNCHANGED <<answers, stdout, wpc, doing, emitted>>

\* _readline strips the prompts in front of a line.
Stripped_Not(l) == l
Stripped(l) == [l EXCEPT !.prompts = 0]
Kind(l) == IF l.prompts > 0 THEN "noise" ELSE l.kind

Answer(k, how, records) ==
  answers' = Append(answers, [to |-> sent, from |-> k, how |-> how, records |-> records])

\* The exception that tells of an abort carries the records of the batch.
Carried_None == <<>>
Carried == res

\* start(): lines are skipped until READY.
AwaitReady ==
  /\ hpc = "start"
  /\ stdout # <<>>
  /\ stdout' = Tail(stdout)
  /\ hpc' = CASE Kind(Stripped(Head(stdout))) = "READY" -> "idle"
              [] Kind(Stripped(Head(stdout))) = "EOF" -> "raised"
              [] OTHER -> "start"
  /\ UNCHANGED <<sent, res, answers, stdin, wpc, doing, emitted, armed>>

\* command() and, around a BATCH, batch(): an abort is an answer, any other
\* error ends the campaign.
Await ==
  /\ hpc = "await"
  /\ stdout # <<>>
  /\ stdout' = Tail(stdout)
  /\ LET l == Stripped(Head(stdout)) IN
       CASE Kind(l) = "RES" ->
              res' = Append(res, l.k) /\ UNCHANGED <<hpc, answers>>
         [] Kind(l) = "OK" ->
              hpc' = "idle" /\ Answer(l.k, "ok", res) /\ UNCHANGED res
         [] Kind(l) = "ABORTED" ->
              hpc' = "idle" /\ Answer(l.k, "aborted", Carried) /\ UNCHANGED res
         [] Kind(l) \in {"ERR", "UNKNOWN", "EOF"} ->
              hpc' = "raised" /\ UNCHANGED <<res, answers>>
         [] OTHER -> UNCHANGED <<hpc, res, answers>>
  /\ UNCHANGED <<sent, stdin, wpc, doing, emitted, armed>>

\* The deadline passes: READY_TIMEOUT_S, or the 600 s of a command.
AfterTimeout == "raised"
Timeout ==
  /\ hpc \in {"start", "await"}
  /\ stdout = <<>>
  /\ wpc \in {"hung", "dead"}
  /\ hpc' = IF hpc = "start" THEN "raised" ELSE AfterTimeout
  /\ UNCHANGED <<sent, res, answers, stdin, stdout, wpc, doing, emitted, armed>>

\* A command that outlived its deadline answers after all.
LateReply ==
  /\ wpc = "hung"
  /\ doing > 0
  /\ hpc \in {"idle", "raised"}
  /\ wpc' = "busy"
  /\ UNCHANGED <<hpc, sent, res, answers, stdin, stdout, doing, emitted, armed>>

\* stop(): QUIT, whatever comes back, then the process is waited for or killed.
Stop ==
  /\ \/ hpc = "raised"
     \/ hpc = "idle" /\ sent = Len(Commands)
  /\ SendOf(Quit)
  /\ hpc' = "stopped"
  /\ wpc' = "dead"
  /\ UNCHANGED <<sent, answers, stdout, doing, emitted>>

PipeInit ==
  /\ hpc = "start"
  /\ sent = 0
  /\ res = <<>>
  /\ answers = <<>>
  /\ stdin = <<>>
  /\ stdout = <<>>
  /\ wpc = "booting"
  /\ doing = 0
  /\ emitted = 0
  /\ armed = FALSE

\* What the two programs do by themselves, and what the console may do.
WorkerStep == Announce \/ Dispatch \/ Result \/ Reply
BackendStep == Send \/ AwaitReady \/ Await \/ Timeout \/ Stop

PipeNext == WorkerStep \/ BackendStep \/ Chatter \/ Die \/ Hang \/ LateReply

PipeSpec ==
  /\ PipeInit /\ [][PipeNext]_pvars
  /\ WF_pvars(WorkerStep) /\ WF_pvars(BackendStep)
-------------------------------------------------------------------------------
\* "Exactly one command and one response cross the pipe" (run_cifar10_jtag.py:
\* 478): the worker never sees half a command, whatever the shell steals.
CommandsArriveWhole == \A n \in DOMAIN stdout : stdout[n].kind # "UNKNOWN"

\* What the host takes for the answer to a command is that command's, and so
\* are the records, none lost when the batch was aborted: the record that
\* explains the abort is not "destroyed by the exception" (line 393).
AnswersAreOwn ==
  \A n \in DOMAIN answers :
    /\ answers[n].from = answers[n].to
    /\ \A m \in DOMAIN answers[n].records : answers[n].records[m] = answers[n].to
    /\ answers[n].how = "aborted" => answers[n].records # <<>>
===============================================================================
