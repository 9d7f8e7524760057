--------------------------- MODULE BoardAccessProofs ---------------------------
(***************************************************************************)
(* Who has the board, and whose answer the host takes from it.             *)
(*                                                                         *)
(* Mutual exclusion of the devkit lock, for every set of agents, when      *)
(* nobody steals, every release names its caller and no two agents share a *)
(* name; kills at any point included.  The inductive invariant says which  *)
(* commands only the owner of the directory can be at.                     *)
(*                                                                         *)
(* And, on both of the host's ways to the board, for every session of      *)
(* commands and accesses: nothing in a reply says what it answers, so the  *)
(* proofs account for everything that is on the way.                       *)
(***************************************************************************)
EXTENDS DevkitLock, WorkerPipe, SystemConsole, SequenceTheorems, TLAPS
-------------------------------------------------------------------------------
(* The devkit lock *)

\* The discipline under which the lock excludes.
Disciplined ==
  /\ Stealers = {}
  /\ \A a \in Agent : ReleaseArgs[a] = {"who"}
  /\ \A a, b \in Agent : WhoOf[a] = WhoOf[b] => a = b

OwnerOnly == {"openNew", "writeNew", "openOld", "writeOld", "relUnlink",
              "relRmdir"}
Releasing == {"relDir", "relRead", "relUnlink", "relRmdir"}

\* The directory exists exactly while it has an owner, and its file names him.
OwnerInv ==
  /\ dir <=> owner # None
  /\ holder.who # NoWho => owner # None /\ holder.who = WhoOf[owner]
  /\ ~holder.file => holder.who = NoWho

\* What one agent's program counter says about the owner.
AgentInv(a) ==
  /\ arg[a] = "who"
  /\ pc[a] \notin {"isStale", "stealUnlink", "stealRmdir"}
  /\ pc[a] \in OwnerOnly => owner = a
  /\ using[a] => owner = a
  /\ pc[a] \in Releasing => ~using[a]

IInv == TypeOK /\ OwnerInv /\ \A a \in Agent : AgentInv(a)

\* The contents a write or an rm leaves in the holder file are of its type.
LEMMA FileContents == NoFile \in HolderFile /\ Truncated \in HolderFile
<1>1. NoWho \in Name \cup {NoWho}
  OBVIOUS
<1>2. QED
  BY <1>1, Zenon DEF NoFile, Truncated, HolderFile

\* Type correctness: every step of every instance keeps the state in its types.
THEOREM TypeCorrect == Spec => []TypeOK
<1> USE DevkitAssumption DEF DevkitAssumption
<1>1. ASSUME Init PROVE TypeOK
  BY <1>1, FileContents DEF Init, TypeOK, PC
<1>2. TypeOK /\ [Next]_vars => TypeOK'
  <2> SUFFICES ASSUME TypeOK, [Next]_vars PROVE TypeOK'
    OBVIOUS
  <2> USE DEF TypeOK, Goto, PC
  <2>1. ASSUME NEW a \in Agent, StartAcquire(a) \/ Mkdir(a)
        PROVE  TypeOK'
    BY <2>1, ZenonT(60) DEF StartAcquire, Mkdir
  <2>2. ASSUME NEW a \in Agent, OpenHolder(a)
        PROVE  TypeOK'
    <3>1. CASE dir
      <4>1. holder' \in HolderFile
        BY <2>2, <3>1, FileContents DEF OpenHolder
      <4>2. fd' \in [Agent -> BOOLEAN]
        BY <2>2, <3>1 DEF OpenHolder
      <4>3. pc' \in [Agent -> PC]
        BY <2>2, <3>1 DEF OpenHolder
      <4>4. QED
        BY <2>2, <3>1, <4>1, <4>2, <4>3 DEF OpenHolder
    <3>2. CASE ~dir
      <4>1. (a \in WithAgents) \in BOOLEAN
        OBVIOUS
      <4>2. using' \in [Agent -> BOOLEAN]
        BY <2>2, <3>2, <4>1, Zenon DEF OpenHolder
      <4>3. QED
        BY <2>2, <3>2, <4>2 DEF OpenHolder
    <3>3. QED
      BY <3>1, <3>2
  <2>3. ASSUME NEW a \in Agent, WriteHolder(a)
        PROVE  TypeOK'
    BY <2>3 DEF WriteHolder, HolderFile, Written
  <2>4. ASSUME NEW a \in Agent, ReadWho(a) \/ CheckStale(a)
        PROVE  TypeOK'
    BY <2>4 DEF ReadWho, CheckStale, WaitOrBusy
  <2>5. ASSUME NEW a \in Agent, Unlink(a)
        PROVE  TypeOK'
    <3>1. fd' \in [Agent -> BOOLEAN]
      BY <2>5, Zenon DEF Unlink
    <3>2. pc' \in [Agent -> PC]
      BY <2>5 DEF Unlink
    <3>3. QED
      BY <2>5, <3>1, <3>2, FileContents DEF Unlink
  <2>6. ASSUME NEW a \in Agent, Rmdir(a)
        PROVE  TypeOK'
    BY <2>6 DEF Rmdir
  <2>7. ASSUME NEW a \in Agent, StartRelease(a)
        PROVE  TypeOK'
    BY <2>7 DEF StartRelease
  <2>8. ASSUME NEW a \in Agent, ReleaseTestDir(a) \/ ReleaseRead(a)
        PROVE  TypeOK'
    BY <2>8 DEF ReleaseTestDir, ReleaseRead
  <2>9. ASSUME NEW a \in Agent, Crash(a)
        PROVE  TypeOK'
    BY <2>9 DEF Crash
  <2>10. CASE Age
    BY <2>10 DEF Age, HolderFile
  <2>11. CASE UNCHANGED vars
    BY <2>11 DEF vars
  <2>12. QED
    BY <2>1, <2>2, <2>3, <2>4, <2>5, <2>6, <2>7, <2>8, <2>9, <2>10, <2>11
    DEF Next
<1>3. QED
  BY <1>1, <1>2, PTL DEF Spec

\* The invariant holds before any agent has asked for the board.
LEMMA InitIInv == ASSUME Disciplined, Init PROVE IInv
BY DevkitAssumption
DEF DevkitAssumption, Init, IInv, TypeOK, OwnerInv, AgentInv, HolderFile,
    NoFile, PC, OwnerOnly, Releasing

\* One step of one agent, or of time, keeps the invariant.
LEMMA NextIInv == ASSUME Disciplined, IInv, TypeOK', [Next]_vars PROVE IInv'
<1> USE DevkitAssumption
    DEF DevkitAssumption, Goto, NoFile, Truncated, Written, OwnerOnly, Releasing, PC
<1> SUFFICES OwnerInv' /\ \A b \in Agent : AgentInv(b)'
  BY DEF IInv
<1>a. OwnerInv /\ TypeOK /\ \A b \in Agent : AgentInv(b)
  BY DEF IInv
<1>1. ASSUME NEW a \in Agent, StartAcquire(a)
      PROVE  OwnerInv' /\ \A b \in Agent : AgentInv(b)'
  BY <1>a, <1>1 DEF StartAcquire, OwnerInv, AgentInv, TypeOK
<1>2. ASSUME NEW a \in Agent, Mkdir(a)
      PROVE  OwnerInv' /\ \A b \in Agent : AgentInv(b)'
  BY <1>a, <1>2 DEF Mkdir, OwnerInv, AgentInv, TypeOK
<1>3. ASSUME NEW a \in Agent, OpenHolder(a)
      PROVE  OwnerInv' /\ \A b \in Agent : AgentInv(b)'
  BY <1>a, <1>3 DEF OpenHolder, OwnerInv, AgentInv, TypeOK
<1>4. ASSUME NEW a \in Agent, WriteHolder(a)
      PROVE  OwnerInv' /\ \A b \in Agent : AgentInv(b)'
  BY <1>a, <1>4 DEF WriteHolder, OwnerInv, AgentInv, TypeOK
<1>5. ASSUME NEW a \in Agent, ReadWho(a)
      PROVE  OwnerInv' /\ \A b \in Agent : AgentInv(b)'
  <2>1. ASSUME holder.who = WhoOf[a] PROVE owner = a
    BY <1>a, <2>1 DEF OwnerInv, TypeOK, Disciplined
  <2>2. QED
    BY <1>a, <1>5, <2>1
    DEF ReadWho, WaitOrBusy, OwnerInv, AgentInv, TypeOK, Disciplined
<1>6. ASSUME NEW a \in Agent, CheckStale(a)
      PROVE  OwnerInv' /\ \A b \in Agent : AgentInv(b)'
  BY <1>a, <1>6 DEF CheckStale, AgentInv
<1>7. ASSUME NEW a \in Agent, Unlink(a)
      PROVE  OwnerInv' /\ \A b \in Agent : AgentInv(b)'
  BY <1>a, <1>7 DEF Unlink, OwnerInv, AgentInv, TypeOK
<1>8. ASSUME NEW a \in Agent, Rmdir(a)
      PROVE  OwnerInv' /\ \A b \in Agent : AgentInv(b)'
  BY <1>a, <1>8 DEF Rmdir, OwnerInv, AgentInv, TypeOK
<1>9. ASSUME NEW a \in Agent, StartRelease(a)
      PROVE  OwnerInv' /\ \A b \in Agent : AgentInv(b)'
  BY <1>a, <1>9 DEF StartRelease, OwnerInv, AgentInv, TypeOK, Disciplined
<1>10. ASSUME NEW a \in Agent, ReleaseTestDir(a)
      PROVE  OwnerInv' /\ \A b \in Agent : AgentInv(b)'
  BY <1>a, <1>10 DEF ReleaseTestDir, OwnerInv, AgentInv, TypeOK
<1>11. ASSUME NEW a \in Agent, ReleaseRead(a)
      PROVE  OwnerInv' /\ \A b \in Agent : AgentInv(b)'
  <2>1. ASSUME holder.who = WhoOf[a] PROVE owner = a
    BY <1>a, <2>1 DEF OwnerInv, TypeOK, Disciplined
  <2>2. QED
    BY <1>a, <1>11, <2>1
    DEF ReleaseRead, ReleaseAllowed, OwnerInv, AgentInv, TypeOK
<1>12. ASSUME NEW a \in Agent, Crash(a)
      PROVE  OwnerInv' /\ \A b \in Agent : AgentInv(b)'
  BY <1>a, <1>12 DEF Crash, OwnerInv, AgentInv, TypeOK
<1>13. CASE Age
  BY <1>a, <1>13 DEF Age, OwnerInv, AgentInv, TypeOK, HolderFile
<1>14. CASE UNCHANGED vars
  BY <1>a, <1>14 DEF vars, OwnerInv, AgentInv
<1>15. QED
  BY <1>1, <1>2, <1>3, <1>4, <1>5, <1>6, <1>7, <1>8, <1>9, <1>10, <1>11,
     <1>12, <1>13, <1>14
  DEF Next

\* Under the discipline two agents never work on the board at once, whatever
\* is killed and however the invocations interleave.
THEOREM Exclusion == Disciplined /\ Spec => []MutualExclusion
<1> SUFFICES ASSUME Disciplined PROVE Spec => []MutualExclusion
  OBVIOUS
<1>1. Init => IInv
  BY InitIInv
<1>2. IInv /\ TypeOK' /\ [Next]_vars => IInv'
  BY NextIInv
<1>3. IInv => MutualExclusion
  BY DEF IInv, AgentInv, MutualExclusion
<1>4. QED
  BY <1>1, <1>2, <1>3, TypeCorrect, PTL DEF Spec

\* A step of the script is a step of the abstract lock or invisible to it.
LEMMA StepSimulation ==
  ASSUME IInv, [Next]_vars PROVE [Board!Next]_(Board!lockVars)
<1> USE DEF IInv, TypeOK, AgentInv, OwnerOnly, Releasing, Board!lockVars,
            Board!Next
<1>1. ASSUME NEW a \in Agent, Mkdir(a)
      PROVE  [Board!Next]_(Board!lockVars)
  BY <1>1 DEF Mkdir, Board!Take, OwnerInv
<1>2. ASSUME NEW a \in Agent, OpenHolder(a)
      PROVE  [Board!Next]_(Board!lockVars)
  <2>1. dir
    BY <1>2, DevkitAssumption DEF DevkitAssumption, OpenHolder, OwnerInv
  <2>2. QED
    BY <1>2, <2>1 DEF OpenHolder
<1>3. ASSUME NEW a \in Agent, WriteHolder(a)
      PROVE  [Board!Next]_(Board!lockVars)
  BY <1>3 DEF WriteHolder, Board!Enter
<1>4. ASSUME NEW a \in Agent, ReadWho(a) \/ CheckStale(a)
      PROVE  [Board!Next]_(Board!lockVars)
  BY <1>4 DEF ReadWho, CheckStale, WaitOrBusy, Board!Leave
<1>5. ASSUME NEW a \in Agent, Rmdir(a)
      PROVE  [Board!Next]_(Board!lockVars)
  BY <1>5 DEF Rmdir, Board!Free
<1>6. ASSUME NEW a \in Agent, StartRelease(a) \/ Crash(a)
      PROVE  [Board!Next]_(Board!lockVars)
  <2>1. using' = [using EXCEPT ![a] = FALSE] /\ owner' = owner
    BY <1>6, Zenon DEF StartRelease, Crash
  <2>2. QED
    BY <2>1, Zenon DEF Board!Leave
<1>7. ASSUME NEW a \in Agent,
             StartAcquire(a) \/ Unlink(a) \/ ReleaseTestDir(a) \/ ReleaseRead(a)
      PROVE  [Board!Next]_(Board!lockVars)
  BY <1>7 DEF StartAcquire, Unlink, ReleaseTestDir, ReleaseRead
<1>8. CASE Age \/ UNCHANGED vars
  BY <1>8 DEF Age, vars
<1>9. QED
  BY <1>1, <1>2, <1>3, <1>4, <1>5, <1>6, <1>7, <1>8 DEF Next

\* Under the discipline the script implements the abstract lock.
THEOREM Implementation == Disciplined /\ Spec => ImplementsBoardLock
<1> SUFFICES ASSUME Disciplined PROVE Spec => ImplementsBoardLock
  OBVIOUS
<1>1. Init => Board!Init
  BY DEF Init, Board!Init
<1>2. Init => IInv
  BY InitIInv
<1>3. IInv /\ TypeOK' /\ [Next]_vars => IInv'
  BY NextIInv
<1>4. IInv /\ [Next]_vars => [Board!Next]_(Board!lockVars)
  BY StepSimulation
<1>5. QED
  BY <1>1, <1>2, <1>3, <1>4, TypeCorrect, PTL
  DEF Spec, ImplementsBoardLock, Board!Spec

-------------------------------------------------------------------------------
(* SystemConsoleProcess *)

Char == (Nat \X {"banner", "value", "error"}) \cup {PromptChar, EOF}

ConsoleTypes ==
  /\ received \in Seq(Char) /\ pipe \in Seq(Char)
  /\ lines \in Seq(Nat) /\ asked \in Nat

\* What is on the way to the host: what it has not taken yet, in order.
OnTheWay == received \o pipe

\* The reply to line k, or nothing; and behind it the end of the stream, if the
\* console is gone.
OnlyReplyTo(k) ==
  /\ Len(OnTheWay) \in IF console = "gone" THEN {1, 3} ELSE {0, 2}
  /\ Len(OnTheWay) >= 2 => /\ OnTheWay[1] \in {k} \X {"banner", "value", "error"}
                          /\ OnTheWay[2] = PromptChar
  /\ console = "gone" => OnTheWay[Len(OnTheWay)] = EOF
NoReply == Len(OnTheWay) < 2

\* Before the session is over.
Live == cpc \in {"spawned", "banner", "send", "await"}

ConsoleInv ==
  /\ Live => ConsoleTypes
  /\ cpc \in {"spawned", "banner"} =>
       /\ lines = <<>>
       /\ OnlyReplyTo(0)
       /\ console = "banner" => NoReply
  /\ cpc = "send" => lines = <<>> /\ OnlyReplyTo(asked) /\ NoReply /\ console # "banner"
  /\ cpc = "await" =>
       /\ console # "banner"
       /\ OnlyReplyTo(asked)
       /\ lines # <<>> => Len(lines) = 1 /\ Head(lines) = asked /\ NoReply
  /\ ValuesAreOwn
-------------------------------------------------------------------------------
(* The worker's pipes *)

Final == {"OK", "ABORTED", "ERR"}
Kinds == {"READY", "RES", "LOG", "noise", "OK", "ABORTED", "ERR", "UNKNOWN", "EOF"}
WorkerLine == [prompts : 0 .. 1, kind : Kinds, k : Nat]
AnswerRecord == [to : Nat, from : Nat, how : {"ok", "aborted"}, records : Seq(Nat)]
InputChar == {Newline} \cup {First(k) : k \in Nat} \cup {Rest(k) : k \in Nat}

\* The characters of the command that is awaited are at the worker's input: with
\* the newline in front of them, or without.
CommandThere(guard) ==
  /\ Len(stdin) = guard + 3
  /\ guard = 1 => stdin[1] = Newline
  /\ stdin[guard + 1] = First(sent) /\ stdin[guard + 2] = Rest(sent)
  /\ stdin[guard + 3] = Newline

PipeTypes ==
  /\ sent \in Nat /\ doing \in Nat /\ emitted \in Nat
  /\ stdout \in Seq(WorkerLine)
  /\ res \in Seq(Nat)
  /\ answers \in Seq(AnswerRecord)
  /\ hpc \in {"start", "idle", "await", "raised", "stopped"}
  /\ wpc \in {"booting", "reading", "busy", "hung", "dead"}

\* Before the session, and between two commands, nothing is on the way.
QuietInv ==
  /\ wpc = "booting" => hpc = "start" /\ stdout = <<>>
  /\ hpc = "start" =>
       /\ wpc # "busy" /\ doing = 0
       /\ wpc = "hung" => stdout = <<>>
       /\ \A n \in DOMAIN stdout : stdout[n].kind \in {"READY", "EOF"}
       /\ \A n, m \in DOMAIN stdout : n < m => stdout[m].kind = "EOF"
  /\ hpc = "idle" =>
       /\ wpc \in {"reading", "dead"}
       /\ \A n \in DOMAIN stdout : stdout[n].kind = "EOF"
  /\ hpc = "stopped" => wpc = "dead"

\* A live worker finds at its input the command that is awaited, or nothing.
StdinInv ==
  /\ wpc # "dead" => \A n \in DOMAIN stdout : stdout[n].kind # "EOF"
  /\ wpc # "dead" => stdin \in Seq(InputChar)
  /\ wpc # "dead" /\ stdin # <<>> =>
       /\ hpc = "await" /\ wpc = "reading" /\ stdout = <<>> /\ res = <<>>
       /\ CommandThere(0) \/ CommandThere(1)
  /\ CommandsArriveWhole

\* What comes back while a command is awaited is of that command, its last line
\* ends it, and a batch that was aborted has a record.
AwaitInv ==
  /\ hpc = "await" =>
       /\ \A n \in DOMAIN stdout : stdout[n].k = sent \/ stdout[n].kind = "EOF"
       /\ \A n, m \in DOMAIN stdout :
            n < m /\ stdout[n].kind \in Final => stdout[m].kind = "EOF"
       /\ \A n \in DOMAIN stdout : stdout[n].kind = "ABORTED" =>
            res # <<>> \/ \E m \in DOMAIN stdout : m < n /\ stdout[m].kind = "RES"
       /\ \A n \in DOMAIN res : res[n] = sent
  /\ hpc = "await" /\ wpc \in {"busy", "hung"} =>
       /\ doing = sent
       /\ \A n \in DOMAIN stdout : stdout[n].kind \notin Final
       /\ emitted > 0 => res # <<>> \/ \E n \in DOMAIN stdout : stdout[n].kind = "RES"
  /\ AnswersAreOwn
-------------------------------------------------------------------------------
(* SystemConsoleProcess: one reply to one line *)

\* The least number of a set.
LEMMA MinFacts ==
  ASSUME NEW S \in SUBSET Int, NEW n \in S, \A m \in S : n <= m
  PROVE  Min(S) = n
<1>1. Min(S) \in S /\ \A m \in S : Min(S) <= m
  BY Zenon DEF Min
<1>2. Min(S) \in Int /\ n \in Int /\ Min(S) <= n /\ n <= Min(S)
  BY <1>1, Zenon
<1>3. QED
  BY <1>2

\* wait_for_prompt stops at the first prompt or end of file.
LEMMA EndAt ==
  ASSUME received \in Seq(Char), NEW n \in 1 .. Len(received),
         received[n] \in {PromptChar, EOF},
         \A m \in 1 .. n - 1 : received[m] \notin {PromptChar, EOF}
  PROVE  ReplyEnd = n
<1> DEFINE I == {i \in 1 .. Len(received) : received[i] \in {PromptChar, EOF}}
<1>1. n \in I /\ I \in SUBSET Int /\ \A m \in I : n <= m
  OBVIOUS
<1>2. ReplyEnd = IF I # {} THEN Min(I) ELSE 0
  BY DEF ReplyEnd, SelectInSeq
<1> HIDE DEF I
<1>3. QED
  BY <1>1, <1>2, MinFacts

\* A character of a reply is neither the prompt nor the end.
LEMMA CharFacts ==
  /\ PromptChar # EOF
  /\ \A k \in Nat : \A c \in {k} \X {"banner", "value", "error"} :
       c \in Char /\ c \notin {PromptChar, EOF}
BY DEF PromptChar, EOF, Char

\* What the reader has delivered is the beginning of what is on the way.
LEMMA OnTheWayFacts ==
  ASSUME ConsoleTypes
  PROVE  /\ OnTheWay \in Seq(Char)
         /\ Len(OnTheWay) = Len(received) + Len(pipe)
         /\ \A n \in 1 .. Len(received) : OnTheWay[n] = received[n]
         /\ \A n \in 1 .. Len(pipe) : OnTheWay[Len(received) + n] = pipe[n]
BY ConcatProperties DEF ConsoleTypes, OnTheWay

\* What is on the way loses its beginning when the host consumes a reply.
LEMMA ConsumeFacts ==
  ASSUME ConsoleTypes, Consume, pipe' = pipe, ReplyEnd \in 0 .. Len(received)
  PROVE  /\ received' \in Seq(Char)
         /\ Len(OnTheWay') = Len(OnTheWay) - ReplyEnd
         /\ \A i \in 1 .. Len(OnTheWay) - ReplyEnd : OnTheWay'[i] = OnTheWay[ReplyEnd + i]
<1>1. received \in Seq(Char) /\ pipe \in Seq(Char)
  BY DEF ConsoleTypes
<1>2. Len(received) \in Nat /\ ReplyEnd + 1 \in Int /\ Len(received) \in Int
  BY <1>1
<1>3. \A i \in ReplyEnd + 1 .. Len(received) : received[i] \in Char
  BY <1>1, <1>2
<1>4. received' = SubSeq(received, ReplyEnd + 1, Len(received))
  BY DEF Consume
<1>5. /\ received' \in Seq(Char)
      /\ Len(received') = IF ReplyEnd + 1 <= Len(received)
                          THEN Len(received) - (ReplyEnd + 1) + 1 ELSE 0
      /\ \A i \in 1 .. Len(received) - (ReplyEnd + 1) + 1 :
           received'[i] = received[ReplyEnd + 1 + i - 1]
  BY <1>2, <1>3, <1>4, SubSeqProperties
<1>6. /\ received' \in Seq(Char)
      /\ Len(received') = Len(received) - ReplyEnd
      /\ \A i \in 1 .. Len(received) - ReplyEnd : received'[i] = received[ReplyEnd + i]
  BY <1>2, <1>5
<1>7. /\ Len(OnTheWay) = Len(received) + Len(pipe)
      /\ \A i \in 1 .. Len(received) + Len(pipe) :
           OnTheWay[i] = IF i <= Len(received) THEN received[i] ELSE pipe[i - Len(received)]
  BY <1>1, ConcatProperties DEF OnTheWay
<1>8. /\ Len(OnTheWay') = Len(received') + Len(pipe)
      /\ \A i \in 1 .. Len(received') + Len(pipe) :
           OnTheWay'[i] = IF i <= Len(received') THEN received'[i] ELSE pipe[i - Len(received')]
  BY <1>1, <1>6, ConcatProperties DEF OnTheWay
<1>9. QED
  BY <1>1, <1>2, <1>6, <1>7, <1>8

\* The reader moves a character from one sequence to the end of the other.
LEMMA MovedFacts ==
  ASSUME NEW S, NEW p \in Seq(S), NEW q \in Seq(S), q # <<>>
  PROVE  /\ Append(p, Head(q)) \in Seq(S) /\ Tail(q) \in Seq(S)
         /\ Append(p, Head(q)) \o Tail(q) = p \o q
OBVIOUS

\* The host takes the one reply, whole, or meets the end of the stream.
LEMMA TakeOne ==
  ASSUME ConsoleTypes, NEW k \in Nat, OnlyReplyTo(k), Ready, Consume,
         UNCHANGED <<pipe, console>>
  PROVE  Answered => /\ ~NoReply /\ received' \in Seq(Char)
                     /\ PromptReply[Len(PromptReply)] \in {k} \X {"banner", "value", "error"}
                     /\ OnlyReplyTo(asked)' /\ NoReply'
<1>1. PICK n \in 1 .. Len(received) : received[n] \in {PromptChar, EOF}
  BY DEF Ready, Contains
<1>2. received[1] = OnTheWay[1] /\ received[n] = OnTheWay[n]
  BY <1>1, OnTheWayFacts
<1>3. CASE Len(OnTheWay) >= 2
  <2>1. OnTheWay[1] \in {k} \X {"banner", "value", "error"} /\ OnTheWay[2] = PromptChar
    BY <1>3 DEF OnlyReplyTo
  <2>2. received[1] \notin {PromptChar, EOF}
    BY <1>2, <2>1, CharFacts
  <2>3. 2 \in 1 .. Len(received) /\ received[2] = PromptChar
    BY <1>1, <2>1, <2>2, OnTheWayFacts DEF ConsoleTypes
  <2>4. ReplyEnd = 2
    BY <2>2, <2>3, EndAt DEF ConsoleTypes
  <2>5. Len(PromptReply) = 1 /\ PromptReply[1] = OnTheWay[1]
    BY <1>2, <2>3, <2>4 DEF PromptReply, ConsoleTypes
  <2>6. ReplyEnd \in 0 .. Len(received) /\ pipe' = pipe
    BY <2>3, <2>4
  <2>7. /\ received' \in Seq(Char)
        /\ Len(OnTheWay') = Len(OnTheWay) - 2
        /\ \A i \in 1 .. Len(OnTheWay) - 2 : OnTheWay'[i] = OnTheWay[2 + i]
    BY <2>4, <2>6, ConsumeFacts, Zenon
  <2>8. console = "gone" => Len(OnTheWay) = 3 /\ OnTheWay[3] = EOF
    BY <1>3 DEF OnlyReplyTo
  <2>9. Len(OnTheWay) \in {2, 3} /\ (console # "gone" => Len(OnTheWay) = 2)
    BY <1>3 DEF OnlyReplyTo
  <2>10. OnlyReplyTo(asked)' /\ NoReply'
    <3>1. console' = console
      OBVIOUS
    <3>2. Len(OnTheWay') \in {0, 1} /\ (console = "gone" => Len(OnTheWay') = 1)
          /\ (console # "gone" => Len(OnTheWay') = 0)
      BY <2>7, <2>8, <2>9
    <3>3. console = "gone" => OnTheWay'[1] = EOF
      <4>1. SUFFICES ASSUME console = "gone" PROVE OnTheWay'[1] = EOF
        OBVIOUS
      <4>2. Len(OnTheWay) = 3 /\ OnTheWay[3] = EOF
        BY <2>8, <4>1
      <4>3. 1 \in 1 .. Len(OnTheWay) - 2
        BY <4>2
      <4>4. OnTheWay'[1] = OnTheWay[2 + 1]
        BY <2>7, <4>3, Zenon
      <4>5. QED
        BY <4>2, <4>4
    <3>4. QED
      BY <3>1, <3>2, <3>3 DEF OnlyReplyTo, NoReply
  <2>11. QED
    BY <1>3, <2>1, <2>5, <2>7, <2>9, <2>10 DEF NoReply
<1>4. CASE ~(Len(OnTheWay) >= 2)
  <2>5. received \in Seq(Char) /\ pipe \in Seq(Char) /\ Len(received) >= 1
    BY DEF ConsoleTypes
  <2>6. Len(OnTheWay) = 1 /\ OnTheWay[1] = EOF
    BY <1>4, <2>5, OnTheWayFacts DEF OnlyReplyTo
  <2>7. Len(received) + Len(pipe) = 1
    BY <2>6, OnTheWayFacts
  <2>1. Len(received) = 1 /\ n = 1 /\ received[1] = EOF
    <3>1. Len(received) = 1
      BY <2>5, <2>7
    <3>2. n = 1
      BY <3>1
    <3>3. QED
      BY <1>2, <2>6, <3>1, <3>2, Zenon
  <2>2. ReplyEnd = 1
    BY <2>1, EndAt DEF ConsoleTypes
  <2>3. ~Answered
    BY <2>1, <2>2, CharFacts DEF Answered
  <2>4. QED
    BY <2>3
<1>5. QED
  BY <1>3, <1>4

\* A console that was not spawned has said nothing and was asked nothing.
LEMMA InitConsole == ConsoleInit => ConsoleInv
<1> SUFFICES ASSUME ConsoleInit PROVE ConsoleInv
  OBVIOUS
<1>1. ConsoleTypes
  BY DEF ConsoleInit, ConsoleTypes
<1>2. Len(OnTheWay) = 0
  BY <1>1, OnTheWayFacts DEF ConsoleInit
<1>3. QED
  BY <1>1, <1>2 DEF ConsoleInit, ConsoleInv, OnlyReplyTo, NoReply, ValuesAreOwn

\* Every step leaves at most the reply to the line that is awaited on the way.
LEMMA NextConsole == ASSUME ConsoleInv, [ConsoleNext]_cvars PROVE ConsoleInv'
<1>1. CASE ~Live
  <2>1. ~Live' /\ taken' = taken
    BY <1>1 DEF Live, ConsoleNext, HostNext, Spawn, Banner, SendLine, TakeReply, ReplyTimeout,
       AfterLate, AfterError, CloseLine, CloseReply, WriteLine, Respond, Fault, ReaderLoop, cvars
  <2>2. QED
    BY <2>1 DEF ConsoleInv, Live, ValuesAreOwn
<1>2. CASE Live /\ Spawn
  <2>1. /\ cpc = "spawned" /\ cpc' = "banner"
        /\ UNCHANGED <<asked, taken, lines, received, pipe, console>>
    BY <1>2 DEF Spawn, AfterSpawn
  <2>2. QED
    BY <2>1 DEF ConsoleInv, Live, ConsoleTypes, OnlyReplyTo, NoReply, OnTheWay, ValuesAreOwn
<1>3. CASE Live /\ Banner
  <2>1. /\ cpc = "banner" /\ Ready /\ Consume
        /\ UNCHANGED <<asked, taken, lines, pipe, console>>
        /\ cpc' \in {"send", "closing", "closed"} /\ (cpc' = "send" => Answered)
    BY <1>3 DEF Banner, AfterError
  <2>2. ConsoleTypes /\ lines = <<>> /\ OnlyReplyTo(0) /\ (console = "banner" => NoReply)
    BY <2>1 DEF ConsoleInv, Live
  <2>3. Answered => ~NoReply /\ received' \in Seq(Char) /\ OnlyReplyTo(asked)' /\ NoReply'
    BY <2>1, <2>2, TakeOne
  <2>4. QED
    BY <2>1, <2>2, <2>3 DEF ConsoleInv, Live, ConsoleTypes, ValuesAreOwn
<1>4. CASE Live /\ SendLine
  <2>1. /\ cpc = "send" /\ cpc' = "await" /\ asked' = asked + 1
        /\ lines' = IF console = "gone" THEN lines ELSE Append(lines, asked + 1)
        /\ UNCHANGED <<taken, received, pipe, console>>
    BY <1>4 DEF SendLine, WriteLine
  <2>2. ConsoleTypes /\ lines = <<>> /\ OnlyReplyTo(asked) /\ NoReply /\ console # "banner"
    BY <2>1 DEF ConsoleInv, Live
  <2>3. OnlyReplyTo(asked)' /\ NoReply'
    BY <2>1, <2>2 DEF OnlyReplyTo, NoReply, OnTheWay
  <2>4. ConsoleTypes' /\ (lines' # <<>> => Len(lines') = 1 /\ Head(lines') = asked')
    BY <2>1, <2>2 DEF ConsoleTypes
  <2>5. QED
    BY <2>1, <2>2, <2>3, <2>4 DEF ConsoleInv, ValuesAreOwn
<1>5. CASE Live /\ TakeReply
  <2>1. /\ cpc = "await" /\ Ready /\ Consume
        /\ UNCHANGED <<asked, lines, pipe, console>>
        /\ cpc' \in {"send", "closing", "closed"} /\ (cpc' = "send" => Answered)
    BY <1>5 DEF TakeReply, AfterError
  <2>2. /\ ConsoleTypes /\ OnlyReplyTo(asked) /\ console # "banner" /\ asked \in Nat
        /\ lines # <<>> => NoReply
    BY <2>1 DEF ConsoleInv, Live, ConsoleTypes
  <2>3. Answered => /\ ~NoReply /\ received' \in Seq(Char) /\ OnlyReplyTo(asked)' /\ NoReply'
                    /\ PromptReply[Len(PromptReply)] \in {asked} \X {"banner", "value", "error"}
    BY <2>1, <2>2, TakeOne
  <2>4. \/ taken' = taken
        \/ Answered /\ taken' = Append(taken, <<asked, PromptReply[Len(PromptReply)][1]>>)
    BY <1>5 DEF TakeReply
  <2>5. taken' = taken \/ taken' = Append(taken, <<asked, asked>>)
    BY <2>3, <2>4
  <2>6. ValuesAreOwn'
    BY <2>5 DEF ConsoleInv, ValuesAreOwn
  <2>7. QED
    BY <2>1, <2>2, <2>3, <2>6 DEF ConsoleInv, Live, ConsoleTypes
<1>6. CASE Live /\ (ReplyTimeout \/ CloseLine \/ CloseReply)
  <2>1. ~Live' /\ taken' = taken
    BY <1>6 DEF ReplyTimeout, CloseLine, CloseReply, AfterLate, AfterError, WriteLine, Live
  <2>2. QED
    BY <2>1 DEF ConsoleInv, Live, ValuesAreOwn
<1>7. CASE Live /\ Respond
  <2>1. ConsoleTypes /\ UNCHANGED <<cpc, asked, taken, received>>
    BY <1>7 DEF Respond, ConsoleInv
  <2>2. \E k \in Nat, text \in {"banner", "value", "error"} :
          /\ pipe' = pipe \o <<<<k, text>>, PromptChar>>
          /\ \/ console = "banner" /\ k = 0 /\ lines' = lines
             \/ console # "banner" /\ lines # <<>> /\ k = Head(lines) /\ lines' = Tail(lines)
          /\ console' = "up" /\ console \in {"banner", "up"}
    <3>1. CASE console = "banner"
      <4>1. /\ pipe' = pipe \o <<<<0, "banner">>, PromptChar>>
            /\ lines' = lines /\ console' = "up"
        BY <1>7, <3>1 DEF Respond
      <4>2. QED
        BY <3>1, <4>1
    <3>2. CASE console # "banner"
      <4>1. /\ \E text \in {"value", "error"} :
                 pipe' = pipe \o <<<<Head(lines), text>>, PromptChar>>
            /\ lines # <<>> /\ lines' = Tail(lines) /\ console = "up" /\ console' = "up"
        BY <1>7, <3>2 DEF Respond
      <4>2. Head(lines) \in Nat
        BY <2>1, <4>1 DEF ConsoleTypes
      <4>3. QED
        BY <3>2, <4>1, <4>2
    <3>3. QED
      BY <3>1, <3>2
  <2>3. PICK k \in Nat, text \in {"banner", "value", "error"} :
          /\ pipe' = pipe \o <<<<k, text>>, PromptChar>>
          /\ \/ console = "banner" /\ k = 0 /\ lines' = lines
             \/ console # "banner" /\ lines # <<>> /\ k = Head(lines) /\ lines' = Tail(lines)
          /\ console' = "up" /\ console \in {"banner", "up"}
    BY <2>2
  <2>4. <<<<k, text>>, PromptChar>> \in Seq(Char)
    BY DEF Char
  <2>5. OnTheWay' = OnTheWay \o <<<<k, text>>, PromptChar>>
    <3>1. received \in Seq(Char) /\ pipe \in Seq(Char) /\ received' = received
      BY <2>1 DEF ConsoleTypes
    <3>2. QED
      <4>1. \A c \in Seq(Char) : (received \o pipe) \o c = received \o (pipe \o c)
        BY <3>1, ConcatAssociative
      <4>2. OnTheWay' = received \o pipe'
        BY <3>1, Zenon DEF OnTheWay
      <4>3. QED
        BY <2>3, <2>4, <4>1, <4>2, Zenon DEF OnTheWay
  <2>6. /\ NoReply /\ OnlyReplyTo(k) /\ (cpc = "await" => k = asked) /\ cpc # "send"
        /\ (cpc # "await" => k = 0) /\ lines' = <<>>
    BY <1>7, <2>1, <2>3, SMTT(30) DEF ConsoleInv, Live, ConsoleTypes
  <2>7. Len(OnTheWay) = 0 /\ OnTheWay \in Seq(Char)
    BY <2>1, <2>3, <2>6, OnTheWayFacts DEF OnlyReplyTo, NoReply
  <2>8. Len(OnTheWay') = 2 /\ OnTheWay'[1] = <<k, text>> /\ OnTheWay'[2] = PromptChar
    BY <2>4, <2>5, <2>7
  <2>9. ConsoleTypes'
    BY <2>1, <2>3, <2>4, <2>6 DEF ConsoleTypes
  <2>10. \A j \in Nat : j = k => OnlyReplyTo(j)'
    BY <2>3, <2>8 DEF OnlyReplyTo
  <2>11. asked \in Nat /\ console' = "up"
    BY <2>1, <2>3 DEF ConsoleTypes
  <2>12. QED
    BY <1>7, <2>1, <2>6, <2>9, <2>10, <2>11 DEF ConsoleInv, Live, ValuesAreOwn
<1>8. CASE Live /\ Fault
  <2>1. ConsoleTypes /\ UNCHANGED <<cpc, asked, taken, received, lines>>
    BY <1>8 DEF Fault, Stick, Recover, Exit, ConsoleInv
  <2>2. CASE UNCHANGED pipe /\ console # "gone" /\ console' # "gone" /\ console' # "banner"
    BY <2>1, <2>2 DEF ConsoleInv, Live, ConsoleTypes, OnlyReplyTo, NoReply, OnTheWay, ValuesAreOwn
  <2>3. CASE Exit
    <3>1. console # "gone" /\ console' = "gone" /\ pipe' = Append(pipe, EOF)
      BY <2>3 DEF Exit
    <3>2. EOF \in Char
      BY DEF Char
    <3>3. OnTheWay' = Append(OnTheWay, EOF) /\ pipe' \in Seq(Char)
      BY <2>1, <3>1, <3>2 DEF OnTheWay, ConsoleTypes
    <3>4. OnTheWay \in Seq(Char)
      BY <2>1, OnTheWayFacts
    <3>5. \A k \in Nat : OnlyReplyTo(k) => OnlyReplyTo(k)'
      <4>1. /\ Len(OnTheWay') = Len(OnTheWay) + 1 /\ OnTheWay'[Len(OnTheWay) + 1] = EOF
            /\ \A i \in 1 .. Len(OnTheWay) : OnTheWay'[i] = OnTheWay[i]
        BY <3>2, <3>3, <3>4
      <4>2. TAKE k \in Nat
      <4>3. SUFFICES ASSUME OnlyReplyTo(k) PROVE OnlyReplyTo(k)'
        OBVIOUS
      <4>4. /\ Len(OnTheWay) \in {0, 2}
            /\ Len(OnTheWay) = 2 => /\ OnTheWay[1] \in {k} \X {"banner", "value", "error"}
                                   /\ OnTheWay[2] = PromptChar
        BY <3>1, <4>3 DEF OnlyReplyTo
      <4>5. /\ Len(OnTheWay') \in {1, 3} /\ OnTheWay'[Len(OnTheWay')] = EOF
            /\ Len(OnTheWay') >= 2 => /\ OnTheWay'[1] \in {k} \X {"banner", "value", "error"}
                                     /\ OnTheWay'[2] = PromptChar
        BY <4>1, <4>4
      <4>6. QED
        BY <3>1, <4>5 DEF OnlyReplyTo
    <3>6. (\E k \in Nat : OnlyReplyTo(k)) /\ NoReply => NoReply'
      BY <3>1, <3>2, <3>3, <3>4 DEF OnlyReplyTo, NoReply
    <3>7. QED
      BY <2>1, <3>1, <3>3, <3>5, <3>6 DEF ConsoleInv, Live, ConsoleTypes, ValuesAreOwn
  <2>4. QED
    BY <1>8, <2>2, <2>3 DEF Fault, Stick, Recover
<1>9. CASE Live /\ ReaderLoop
  <2>1. /\ ConsoleTypes
        /\ pipe # <<>> /\ received' = Append(received, Head(pipe)) /\ pipe' = Tail(pipe)
        /\ UNCHANGED <<cpc, asked, taken, lines, console>>
    BY <1>9 DEF ReaderLoop, ConsoleInv
  <2>2. OnTheWay' = OnTheWay /\ ConsoleTypes'
    BY <2>1, MovedFacts DEF OnTheWay, ConsoleTypes
  <2>3. QED
    BY <2>1, <2>2 DEF ConsoleInv, Live, OnlyReplyTo, NoReply, ValuesAreOwn
<1>10. CASE UNCHANGED cvars
  BY <1>10 DEF cvars, ConsoleInv, Live, ConsoleTypes, OnlyReplyTo, NoReply, OnTheWay, ValuesAreOwn
<1>11. QED
  BY <1>1, <1>2, <1>3, <1>4, <1>5, <1>6, <1>7, <1>8, <1>9, <1>10 DEF ConsoleNext, HostNext

\* In every session, wherever the console hangs or ends, every value the host
\* reads is the answer to that very read.
THEOREM ValuesOwn == ConsoleSpec => []ValuesAreOwn
<1>1. ConsoleInv => ValuesAreOwn
  BY DEF ConsoleInv
<1>2. QED
  BY <1>1, InitConsole, NextConsole, PTL DEF ConsoleSpec
-------------------------------------------------------------------------------
(* The worker's pipes: one answer to one command *)

\* The prompts in front of a line are no part of it.
LEMMA StrippedFacts ==
  ASSUME NEW l \in WorkerLine
  PROVE  Kind(Stripped(l)) = l.kind /\ Stripped(l).k = l.k /\ Stripped(l).kind = l.kind
BY DEF WorkerLine, Kind, Stripped

\* A line the worker writes.
LEMMA WriteFacts ==
  ASSUME PipeTypes, NEW kind \in Kinds, Write(kind)
  PROVE  /\ stdout' \in Seq(WorkerLine) /\ Len(stdout') = Len(stdout) + 1
         /\ \A n \in DOMAIN stdout : n \in DOMAIN stdout' /\ stdout'[n] = stdout[n]
         /\ \A n \in DOMAIN stdout' : n \in DOMAIN stdout \/ n = Len(stdout) + 1
         /\ stdout'[Len(stdout) + 1].kind = kind /\ stdout'[Len(stdout) + 1].k = doing
<1>1. PICK p \in 0 .. 1 : stdout' = Append(stdout, Out(p, kind, doing))
  BY DEF Write
<1>2. stdout \in Seq(WorkerLine) /\ Out(p, kind, doing) \in WorkerLine
  BY DEF PipeTypes, WorkerLine, Out
<1>3. Out(p, kind, doing).kind = kind /\ Out(p, kind, doing).k = doing
  BY DEF Out
<1>4. QED
  BY <1>1, <1>2, <1>3

\* The mark that the pump puts behind what a dead worker wrote.
LEMMA DieFacts ==
  ASSUME PipeTypes, Die
  PROVE  /\ wpc # "dead" /\ wpc' = "dead"
         /\ UNCHANGED <<hpc, sent, res, answers, stdin, doing, emitted>>
         /\ stdout' \in Seq(WorkerLine) /\ Len(stdout') = Len(stdout) + 1
         /\ \A n \in DOMAIN stdout : n \in DOMAIN stdout' /\ stdout'[n] = stdout[n]
         /\ \A n \in DOMAIN stdout' : n \in DOMAIN stdout \/ n = Len(stdout) + 1
         /\ stdout'[Len(stdout) + 1].kind = "EOF"
<1>1. Out(0, "EOF", 0) \in WorkerLine /\ Out(0, "EOF", 0).kind = "EOF"
  BY DEF Out, WorkerLine, Kinds
<1>2. stdout' = Append(stdout, Out(0, "EOF", 0)) /\ stdout \in Seq(WorkerLine)
  BY DEF Die, PipeTypes
<1>3. QED
  BY <1>1, <1>2 DEF Die

\* What the worker writes when.
LEMMA WorkerWrites ==
  ASSUME PipeTypes, Announce \/ Result \/ Chatter \/ Reply
  PROVE  \E kind \in {"READY", "RES", "LOG", "noise", "OK", "ABORTED", "ERR"} :
           /\ Write(kind)
           /\ UNCHANGED <<hpc, sent, res, answers, stdin, doing>>
           /\ \/ kind = "READY" /\ wpc = "booting" /\ wpc' = "reading" /\ emitted' = emitted
              \/ kind = "RES" /\ wpc = "busy" /\ wpc' = "busy" /\ emitted' = emitted + 1
              \/ kind \in {"LOG", "noise"} /\ wpc = "busy" /\ wpc' = "busy" /\ emitted' = emitted
              \/ /\ kind \in Final /\ wpc = "busy" /\ wpc' \in {"reading", "dead"}
                 /\ emitted' = emitted /\ (kind = "ABORTED" => emitted > 0)
<1>1. CASE Announce
  BY <1>1, Zenon DEF Announce
<1>2. CASE Result
  BY <1>2, Zenon DEF Result
<1>3. CASE Chatter
  BY <1>3, Zenon DEF Chatter
<1>4. CASE Reply
  <2>1. /\ wpc = "busy" /\ wpc' \in {"reading", "dead"}
        /\ UNCHANGED <<hpc, sent, res, answers, stdin, doing, emitted>>
    BY <1>4 DEF Reply
  <2>2. \/ Write("OK")
        \/ IsBatch(doing) /\ emitted > 0 /\ Write("ABORTED")
        \/ ~IsBatch(doing) /\ Write("ERR")
    BY <1>4, Zenon DEF Reply
  <2>3. QED
    BY <2>1, <2>2, Zenon DEF Final
<1>5. QED
  BY <1>1, <1>2, <1>3, <1>4

\* The worker reads up to the first newline.
LEMMA NewlineAt ==
  ASSUME stdin \in Seq(InputChar), NEW n \in 1 .. Len(stdin), stdin[n] = Newline,
         \A m \in 1 .. n - 1 : stdin[m] # Newline
  PROVE  SelectInSeq(stdin, LAMBDA c : c = Newline) = n
<1> DEFINE I == {i \in 1 .. Len(stdin) : stdin[i] = Newline}
<1>1. n \in I /\ I \in SUBSET Int /\ \A m \in I : n <= m
  OBVIOUS
<1>2. SelectInSeq(stdin, LAMBDA c : c = Newline) = IF I # {} THEN Min(I) ELSE 0
  BY DEF SelectInSeq
<1> HIDE DEF I
<1>3. QED
  BY <1>1, <1>2, MinFacts

\* What the worker makes of what it finds: of an empty line nothing, of a whole
\* command that command, and never half of one.
LEMMA DispatchFacts ==
  ASSUME PipeTypes, StdinInv, Dispatch
  PROVE  /\ wpc = "reading" /\ hpc = "await" /\ stdout = <<>> /\ res = <<>>
         /\ UNCHANGED <<hpc, sent, res, answers, stdout>>
         /\ stdin' \in Seq(InputChar)
         /\ \/ UNCHANGED <<wpc, doing, emitted>> /\ CommandThere(0)'
            \/ wpc' = "busy" /\ doing' = sent /\ emitted' = 0 /\ stdin' = <<>>
<1> DEFINE n == SelectInSeq(stdin, LAMBDA c : c = Newline)
           line == SubSeq(stdin, 1, n - 1)
<1>1. /\ wpc = "reading" /\ Contains(stdin, Newline)
      /\ stdin' = SubSeq(stdin, n + 1, Len(stdin))
      /\ IF line = <<>> THEN UNCHANGED <<stdout, wpc, doing, emitted>>
         ELSE Len(line) = 2 => /\ wpc' = "busy" /\ doing' = line[1][2] /\ emitted' = 0
                               /\ UNCHANGED stdout
      /\ UNCHANGED <<hpc, sent, res, answers>>
  BY Zenon DEF Dispatch
<1>2. stdin \in Seq(InputChar) /\ stdin # <<>>
  BY <1>1 DEF StdinInv, Contains
<1>3. /\ hpc = "await" /\ stdout = <<>> /\ res = <<>>
      /\ CommandThere(0) \/ CommandThere(1)
  BY <1>1, <1>2 DEF StdinInv
<1>4. First(sent) # Newline /\ Rest(sent) # Newline /\ First(sent)[2] = sent
  BY DEF First, Rest, Newline
<1>5. CASE CommandThere(1)
  <2>1. Len(stdin) = 4 /\ stdin[1] = Newline
    BY <1>5 DEF CommandThere
  <2>2. n = 1
    BY <1>2, <2>1, NewlineAt
  <2> HIDE DEF n
  <2>3. line = <<>>
    BY <2>2, SubSeqEmpty
  <2> HIDE DEF line
  <2>4. /\ stdin' \in Seq(InputChar) /\ Len(stdin') = 3
        /\ \A i \in 1 .. 3 : stdin'[i] = stdin[i + 1]
    <3>1. \A i \in 2 .. 4 : stdin[i] \in InputChar
      <4>1. \A i \in 1 .. Len(stdin) : stdin[i] \in InputChar
        BY <1>2, ElementOfSeq
      <4>2. QED
        BY <2>1, <4>1
    <3>2. stdin' = SubSeq(stdin, 2, 4)
      BY <1>1, <2>1, <2>2
    <3>3. /\ SubSeq(stdin, 2, 4) \in Seq(InputChar)
          /\ Len(SubSeq(stdin, 2, 4)) = IF 2 <= 4 THEN 4 - 2 + 1 ELSE 0
          /\ \A i \in 1 .. 4 - 2 + 1 : SubSeq(stdin, 2, 4)[i] = stdin[2 + i - 1]
      BY <3>1, SubSeqProperties
    <3>4. QED
      BY <3>2, <3>3
  <2>5. CommandThere(0)'
    BY <1>1, <1>5, <2>4 DEF CommandThere
  <2>6. QED
    BY <1>1, <1>3, <2>3, <2>4, <2>5
<1>6. CASE CommandThere(0)
  <2>1. Len(stdin) = 3 /\ stdin[1] = First(sent) /\ stdin[2] = Rest(sent) /\ stdin[3] = Newline
    BY <1>6 DEF CommandThere
  <2>2. n = 3
    BY <1>2, <1>4, <2>1, NewlineAt
  <2> HIDE DEF n
  <2>3. Len(line) = 2 /\ line[1] = First(sent) /\ line # <<>>
    BY <1>2, <2>1, <2>2
  <2> HIDE DEF line
  <2>4. stdin' \in Seq(InputChar) /\ stdin' = <<>>
    BY <1>1, <1>2, <2>1, <2>2
  <2>5. wpc' = "busy" /\ doing' = sent /\ emitted' = 0 /\ UNCHANGED stdout
    BY <1>1, <1>4, <2>3
  <2>6. QED
    BY <1>1, <1>3, <2>4, <2>5
<1>7. QED
  BY <1>3, <1>5, <1>6

\* A command arrives at an empty input with the newline in front, or without.
LEMMA SendFacts ==
  ASSUME NEW k \in Nat, stdin = <<>>, SendOf(k), sent' = k
  PROVE  /\ stdin' \in Seq(InputChar) /\ stdin' # <<>>
         /\ CommandThere(0)' \/ CommandThere(1)'
         /\ res' = <<>>
<1>1. PICK stolen \in {0, 1} : stdin' = stdin \o SubSeq(Framed(k), 1 + stolen, Len(Framed(k)))
  BY DEF SendOf
<1>2. /\ Len(Framed(k)) = 4 /\ Framed(k)[1] = Newline /\ Framed(k)[2] = First(k)
      /\ Framed(k)[3] = Rest(k) /\ Framed(k)[4] = Newline
      /\ Framed(k) \in Seq(InputChar)
  BY DEF Framed, InputChar
<1>3. stdin' = SubSeq(Framed(k), 1 + stolen, 4)
  <2>1. SubSeq(Framed(k), 1 + stolen, 4) \in Seq(InputChar)
    <3>1. 1 + stolen \in Int /\ \A i \in 1 + stolen .. 4 : Framed(k)[i] \in InputChar
      <4>1. \A i \in 1 .. Len(Framed(k)) : Framed(k)[i] \in InputChar
        BY <1>2, ElementOfSeq
      <4>2. QED
        BY <1>2, <4>1
    <3>2. QED
      BY <3>1, SubSeqProperties
  <2>2. QED
    BY <1>1, <1>2, <2>1, ConcatEmptySeq
<1>4. /\ stdin' \in Seq(InputChar) /\ Len(stdin') = 4 - stolen
      /\ \A i \in 1 .. 4 - stolen : stdin'[i] = Framed(k)[i + stolen]
  BY <1>2, <1>3
<1>5. CASE stolen = 0
  BY <1>2, <1>4, <1>5 DEF CommandThere, SendOf
<1>6. CASE stolen = 1
  BY <1>2, <1>4, <1>6 DEF CommandThere, SendOf
<1>7. QED
  BY <1>5, <1>6

\* What the host makes of the line at the front, while it awaits a command.
LEMMA AwaitFacts ==
  ASSUME PipeTypes, Await
  PROVE  /\ hpc = "await" /\ stdout # <<>> /\ stdout' = Tail(stdout) /\ Head(stdout) \in WorkerLine
         /\ UNCHANGED <<sent, stdin, wpc, doing, emitted>>
         /\ \/ /\ Head(stdout).kind = "RES" /\ res' = Append(res, Head(stdout).k)
               /\ UNCHANGED <<hpc, answers>>
            \/ /\ Head(stdout).kind \in {"OK", "ABORTED"} /\ hpc' = "idle" /\ res' = res
               /\ \E how \in {"ok", "aborted"} :
                    /\ how = "aborted" => Head(stdout).kind = "ABORTED"
                    /\ answers' = Append(answers, [to |-> sent, from |-> Head(stdout).k,
                                                  how |-> how, records |-> res])
            \/ hpc' = "raised" /\ UNCHANGED <<res, answers>>
            \/ /\ Head(stdout).kind \notin Final \cup {"RES", "EOF"}
               /\ UNCHANGED <<hpc, res, answers>>
<1>1. /\ hpc = "await" /\ stdout # <<>> /\ stdout' = Tail(stdout)
      /\ UNCHANGED <<sent, stdin, wpc, doing, emitted>>
  BY DEF Await
<1>2. Head(stdout) \in WorkerLine
  BY <1>1 DEF PipeTypes
<1> DEFINE l == Head(stdout)
<1>3. Kind(Stripped(l)) = l.kind /\ Stripped(l).k = l.k
  BY <1>2, StrippedFacts
<1> HIDE DEF l
<1>4. LET s == Stripped(l) IN
      CASE Kind(s) = "RES" -> res' = Append(res, s.k) /\ UNCHANGED <<hpc, answers>>
        [] Kind(s) = "OK" -> hpc' = "idle" /\ Answer(s.k, "ok", res) /\ UNCHANGED res
        [] Kind(s) = "ABORTED" ->
             hpc' = "idle" /\ Answer(s.k, "aborted", Carried) /\ UNCHANGED res
        [] Kind(s) \in {"ERR", "UNKNOWN", "EOF"} -> hpc' = "raised" /\ UNCHANGED <<res, answers>>
        [] OTHER -> UNCHANGED <<hpc, res, answers>>
  BY Zenon DEF Await, l
<1>5. CASE l.kind = "RES"
  BY <1>1, <1>2, <1>3, <1>4, <1>5 DEF l
<1>6. CASE l.kind = "OK"
  BY <1>1, <1>2, <1>3, <1>4, <1>6 DEF l, Answer
<1>7. CASE l.kind = "ABORTED"
  BY <1>1, <1>2, <1>3, <1>4, <1>7 DEF l, Answer, Carried
<1>8. CASE l.kind \in {"ERR", "UNKNOWN", "EOF"}
  BY <1>1, <1>2, <1>3, <1>4, <1>8 DEF l
<1>9. CASE l.kind \notin {"RES", "OK", "ABORTED", "ERR", "UNKNOWN", "EOF"}
  BY <1>1, <1>2, <1>3, <1>4, <1>9 DEF l, Final
<1>10. QED
  BY <1>5, <1>6, <1>7, <1>8, <1>9

\* A line is taken from the front.
LEMMA TailFacts ==
  ASSUME NEW S, NEW s \in Seq(S), s # <<>>
  PROVE  /\ Tail(s) \in Seq(S) /\ Head(s) = s[1] /\ 1 \in DOMAIN s
         /\ \A n \in DOMAIN Tail(s) : n + 1 \in DOMAIN s /\ Tail(s)[n] = s[n + 1]
         /\ \A n \in DOMAIN s : n = 1 \/ (n - 1 \in DOMAIN Tail(s) /\ Tail(s)[n - 1] = s[n])
OBVIOUS

\* The two pipes are empty before the session.
LEMMA InitPipe == PipeInit => PipeTypes /\ QuietInv /\ StdinInv /\ AwaitInv
<1> SUFFICES ASSUME PipeInit PROVE PipeTypes /\ QuietInv /\ StdinInv /\ AwaitInv
  OBVIOUS
<1>1. PipeTypes
  BY DEF PipeInit, PipeTypes
<1>2. QuietInv /\ StdinInv /\ AwaitInv
  BY DEF PipeInit, QuietInv, StdinInv, CommandsArriveWhole, AwaitInv, AnswersAreOwn
<1>3. QED
  BY <1>1, <1>2

\* Every step keeps the types.
LEMMA NextPipeTypes ==
  ASSUME PipeTypes, StdinInv, [PipeNext]_pvars PROVE PipeTypes'
<1>1. CASE Announce \/ Result \/ Chatter \/ Reply
  <2>1. PICK kind \in {"READY", "RES", "LOG", "noise", "OK", "ABORTED", "ERR"} :
          /\ Write(kind)
          /\ UNCHANGED <<hpc, sent, res, answers, doing>>
          /\ emitted' \in {emitted, emitted + 1}
          /\ wpc' \in {wpc, "reading", "dead"}
    BY <1>1, WorkerWrites
  <2>2. stdout' \in Seq(WorkerLine)
    BY <2>1, WriteFacts DEF Kinds
  <2>3. /\ UNCHANGED <<hpc, sent, res, answers, doing>>
        /\ emitted' \in {emitted, emitted + 1}
        /\ wpc' \in {wpc, "reading", "dead"}
    BY <2>1
  <2>4. QED
    BY <2>2, <2>3 DEF PipeTypes
<1>2. CASE Dispatch
  BY <1>2, DispatchFacts DEF PipeTypes
<1>3. CASE Die
  <2>1. Out(0, "EOF", 0) \in WorkerLine
    BY DEF Out, WorkerLine, Kinds
  <2>2. QED
    BY <1>3, <2>1 DEF Die, PipeTypes
<1>4. CASE Hang \/ LateReply \/ Timeout
  <2>1. /\ UNCHANGED <<sent, doing, emitted, stdout, res, answers>>
        /\ hpc' \in {hpc, "raised"} /\ wpc' \in {wpc, "hung", "busy"}
    BY <1>4 DEF Hang, LateReply, Timeout, AfterTimeout
  <2>2. QED
    BY <2>1 DEF PipeTypes
<1>5. CASE Send \/ Stop
  <2>1. /\ UNCHANGED <<doing, emitted, stdout, answers>> /\ sent' \in {sent, sent + 1}
        /\ res' = <<>> /\ hpc' \in {"await", "stopped"} /\ wpc' \in {wpc, "dead"}
    BY <1>5 DEF Send, Stop, SendOf
  <2>2. QED
    BY <2>1 DEF PipeTypes
<1>6. CASE AwaitReady
  <2>1. /\ stdout' = Tail(stdout) /\ stdout # <<>> /\ hpc' \in {"idle", "raised", "start"}
        /\ UNCHANGED <<sent, res, answers, wpc, doing, emitted>>
    BY <1>6 DEF AwaitReady
  <2>2. QED
    BY <2>1 DEF PipeTypes
<1>7. CASE Await
  <2>1. /\ stdout' = Tail(stdout) /\ stdout # <<>>
        /\ UNCHANGED <<sent, wpc, doing, emitted>>
        /\ hpc' \in {hpc, "idle", "raised"}
    BY <1>7, AwaitFacts
  <2> DEFINE k == Head(stdout).k
  <2>2. k \in Nat
    BY <1>7, AwaitFacts DEF WorkerLine
  <2>3. res' \in {res, Append(res, k)}
    BY <1>7, AwaitFacts
  <2>8. \/ answers' = answers
        \/ \E how \in {"ok", "aborted"} :
             answers' = Append(answers, [to |-> sent, from |-> k, how |-> how, records |-> res])
    BY <1>7, AwaitFacts
  <2> HIDE DEF k
  <2>4. res' \in Seq(Nat)
    <3>1. res \in Seq(Nat)
      BY DEF PipeTypes
    <3>2. Append(res, k) \in Seq(Nat)
      BY <2>2, <3>1
    <3>3. QED
      BY <2>3, <3>1, <3>2
  <2>5. answers' \in Seq(AnswerRecord)
    <3>1. \A how \in {"ok", "aborted"} :
            [to |-> sent, from |-> k, how |-> how, records |-> res] \in AnswerRecord
      BY <2>2 DEF PipeTypes, AnswerRecord
    <3>2. answers \in Seq(AnswerRecord)
      BY DEF PipeTypes
    <3>3. QED
      BY <2>8, <3>1, <3>2, SMTT(30)
  <2>6. stdout' \in Seq(WorkerLine)
    BY <2>1 DEF PipeTypes
  <2>7. QED
    BY <2>1, <2>4, <2>5, <2>6 DEF PipeTypes
<1>8. CASE UNCHANGED pvars
  BY <1>8 DEF pvars, PipeTypes
<1>9. QED
  BY <1>1, <1>2, <1>3, <1>4, <1>5, <1>6, <1>7, <1>8 DEF PipeNext, WorkerStep, BackendStep

\* Outside of a command nothing but READY and the end comes back.
LEMMA NextQuiet ==
  ASSUME PipeTypes, QuietInv, StdinInv, AwaitInv, [PipeNext]_pvars PROVE QuietInv'
<1>1. CASE Announce \/ Result \/ Chatter \/ Reply
  <2>1. PICK kind \in Kinds :
           /\ Write(kind)
           /\ UNCHANGED <<hpc, sent, res, answers, stdin, doing>>
           /\ \/ kind = "READY" /\ wpc = "booting" /\ wpc' = "reading"
              \/ wpc = "busy" /\ wpc' \in {"busy", "reading", "dead"}
    BY <1>1, WorkerWrites DEF Kinds
  <2>2. CASE wpc = "booting"
    <3>1. hpc = "start" /\ Len(stdout) = 0 /\ kind = "READY" /\ wpc' = "reading" /\ doing = 0
      BY <2>1, <2>2 DEF QuietInv
    <3>2. Len(stdout') = 1 /\ stdout'[1].kind = "READY" /\ DOMAIN stdout' = {1}
      BY <2>1, <3>1, WriteFacts
    <3>3. QED
      BY <2>1, <3>1, <3>2 DEF QuietInv
  <2>3. CASE wpc = "busy"
    BY <2>1, <2>3 DEF QuietInv
  <2>4. QED
    BY <2>1, <2>2, <2>3
<1>2. CASE Dispatch
  BY <1>2, DispatchFacts DEF QuietInv
<1>3. CASE Die
  <2>1. hpc' = hpc /\ wpc' = "dead" /\ doing' = doing
    BY <1>3, DieFacts
  <2>2. hpc = "start" =>
          /\ \A n \in DOMAIN stdout' : stdout'[n].kind \in {"READY", "EOF"}
          /\ \A n, m \in DOMAIN stdout' : n < m => stdout'[m].kind = "EOF"
    <3>1. SUFFICES ASSUME hpc = "start"
                   PROVE  /\ \A n \in DOMAIN stdout' : stdout'[n].kind \in {"READY", "EOF"}
                          /\ \A n, m \in DOMAIN stdout' : n < m => stdout'[m].kind = "EOF"
      OBVIOUS
    <3>2. /\ \A n \in DOMAIN stdout : stdout[n].kind \in {"READY", "EOF"}
          /\ \A n, m \in DOMAIN stdout : n < m => stdout[m].kind = "EOF"
      BY <3>1 DEF QuietInv
    <3>3. DOMAIN stdout = 1 .. Len(stdout) /\ DOMAIN stdout' = 1 .. Len(stdout) + 1
             /\ Len(stdout) \in Nat
      BY <1>3, DieFacts DEF PipeTypes
    <3>4. QED
      BY <1>3, <3>2, <3>3, DieFacts
  <2>3. hpc = "idle" => \A n \in DOMAIN stdout' : stdout'[n].kind = "EOF"
    BY <1>3, DieFacts DEF QuietInv
  <2>4. QED
    BY <2>1, <2>2, <2>3 DEF QuietInv
<1>4. CASE Hang
  BY <1>4 DEF Hang, QuietInv
<1>5. CASE LateReply
  BY <1>5 DEF LateReply, QuietInv
<1>6. CASE Timeout
  BY <1>6 DEF Timeout, AfterTimeout, QuietInv
<1>7. CASE Send \/ Stop
  BY <1>7 DEF Send, Stop, QuietInv
<1>8. CASE AwaitReady
  <2>1. /\ hpc = "start" /\ stdout # <<>> /\ stdout' = Tail(stdout)
        /\ UNCHANGED <<wpc, doing>>
        /\ hpc' \in {"idle", "raised", "start"}
    BY <1>8 DEF AwaitReady
  <2>2. /\ \A n \in DOMAIN stdout : stdout[n].kind \in {"READY", "EOF"}
        /\ \A n, m \in DOMAIN stdout : n < m => stdout[m].kind = "EOF"
        /\ wpc \in {"reading", "dead"} /\ doing = 0
    BY <2>1 DEF QuietInv, PipeTypes
  <2>3. stdout \in Seq(WorkerLine)
    BY DEF PipeTypes
  <2>4. \A n \in DOMAIN stdout' : stdout'[n].kind = "EOF"
    <3>1. TAKE n \in DOMAIN stdout'
    <3>2. 1 \in DOMAIN stdout /\ n + 1 \in DOMAIN stdout /\ stdout'[n] = stdout[n + 1] /\ 1 < n + 1
      BY <2>1, <2>3
    <3>3. QED
      BY <2>2, <3>2
  <2>5. QED
    BY <2>1, <2>2, <2>4 DEF QuietInv
<1>9. CASE Await
  <2>1. hpc = "await" /\ stdout # <<>> /\ UNCHANGED <<wpc, doing>>
    BY <1>9, AwaitFacts
  <2>2. hpc' = "idle" => Head(stdout).kind \in Final /\ stdout' = Tail(stdout)
    BY <1>9, AwaitFacts DEF Final
  <2>3. hpc' \in {"idle", "raised", "await"}
    BY <1>9, AwaitFacts
  <2>4. stdout \in Seq(WorkerLine)
    BY DEF PipeTypes
  <2>5. CASE hpc' = "idle"
    <3>1. stdout[1].kind \in Final /\ 1 \in DOMAIN stdout
      BY <2>1, <2>2, <2>4, <2>5
    <3>2. wpc \in {"reading", "dead"}
      BY <2>1, <3>1 DEF QuietInv, AwaitInv, PipeTypes
    <3>3. \A n \in DOMAIN stdout' : stdout'[n].kind = "EOF"
      <4>1. TAKE n \in DOMAIN stdout'
      <4>2. n + 1 \in DOMAIN stdout /\ stdout'[n] = stdout[n + 1] /\ 1 < n + 1
        BY <2>1, <2>2, <2>4, <2>5
      <4>3. QED
        BY <2>1, <3>1, <4>2 DEF AwaitInv
    <3>4. QED
      BY <2>1, <2>5, <3>2, <3>3 DEF QuietInv
  <2>6. CASE hpc' # "idle"
    BY <2>1, <2>3, <2>6 DEF QuietInv
  <2>7. QED
    BY <2>5, <2>6
<1>10. CASE UNCHANGED pvars
  BY <1>10 DEF pvars, QuietInv
<1>11. QED
  BY <1>1, <1>2, <1>3, <1>4, <1>5, <1>6, <1>7, <1>8, <1>9, <1>10
  DEF PipeNext, WorkerStep, BackendStep

\* A worker that lives finds whole commands only, one at a time.
LEMMA NextStdin ==
  ASSUME PipeTypes, QuietInv, StdinInv, AwaitInv, [PipeNext]_pvars PROVE StdinInv'
<1>1. CASE Announce \/ Result \/ Chatter \/ Reply
  <2>1. PICK kind \in Kinds :
           /\ Write(kind) /\ kind \notin {"UNKNOWN", "EOF"}
           /\ UNCHANGED <<hpc, sent, res, answers, stdin, doing>>
           /\ wpc \in {"booting", "busy"}
    BY <1>1, WorkerWrites DEF Kinds, Final
  <2>2. stdin = <<>> /\ stdin \in Seq(InputChar)
    BY <2>1 DEF StdinInv
  <2>3. /\ \A n \in DOMAIN stdout' : stdout'[n].kind # "EOF"
        /\ \A n \in DOMAIN stdout' : stdout'[n].kind # "UNKNOWN"
    BY <2>1, WriteFacts DEF StdinInv, CommandsArriveWhole
  <2>4. QED
    BY <2>1, <2>2, <2>3 DEF StdinInv, CommandsArriveWhole
<1>2. CASE Dispatch
  <2>1. /\ hpc' = "await" /\ wpc = "reading" /\ stdout' = <<>> /\ res' = <<>> /\ sent' = sent
        /\ stdin' \in Seq(InputChar)
        /\ \/ wpc' = wpc /\ CommandThere(0)'
           \/ wpc' = "busy" /\ stdin' = <<>>
    BY <1>2, DispatchFacts
  <2>2. QED
    BY <2>1 DEF StdinInv, CommandsArriveWhole
<1>3. CASE Die
  <2>1. wpc' = "dead" /\ \A n \in DOMAIN stdout' : stdout'[n].kind # "UNKNOWN"
    BY <1>3, DieFacts DEF StdinInv, CommandsArriveWhole
  <2>2. QED
    BY <2>1 DEF StdinInv, CommandsArriveWhole
<1>4. CASE Hang \/ LateReply
  <2>1. /\ wpc \in {"booting", "busy", "hung"} /\ wpc' \in {"hung", "busy"}
        /\ UNCHANGED <<hpc, sent, res, answers, stdin, stdout, doing, emitted>>
    BY <1>4 DEF Hang, LateReply
  <2>2. QED
    BY <2>1 DEF StdinInv, CommandsArriveWhole
<1>5. CASE Timeout
  <2>1. /\ wpc \in {"hung", "dead"}
        /\ UNCHANGED <<sent, res, answers, stdin, stdout, wpc, doing, emitted>>
    BY <1>5 DEF Timeout
  <2>2. QED
    BY <2>1 DEF StdinInv, CommandsArriveWhole
<1>6. CASE Send
  <2>1. /\ hpc = "idle" /\ SendOf(sent + 1) /\ sent' = sent + 1 /\ hpc' = "await"
        /\ UNCHANGED <<answers, stdout, wpc, doing, emitted>>
    BY <1>6 DEF Send
  <2>2. CASE wpc # "dead"
    <3>1. stdin = <<>> /\ wpc = "reading"
      BY <2>1, <2>2 DEF StdinInv, QuietInv
    <3>2. /\ stdin' \in Seq(InputChar) /\ stdin' # <<>> /\ res' = <<>>
          /\ CommandThere(0)' \/ CommandThere(1)'
      <4>1. sent + 1 \in Nat
        BY DEF PipeTypes
      <4>2. QED
        BY <2>1, <3>1, <4>1, SendFacts, Zenon
    <3>3. stdout = <<>>
      <4>1. \A n \in DOMAIN stdout : stdout[n].kind = "EOF" /\ stdout[n].kind # "EOF"
        BY <2>1, <2>2 DEF QuietInv, StdinInv
      <4>2. stdout # <<>> => 1 \in DOMAIN stdout
        BY DEF PipeTypes
      <4>3. QED
        BY <4>1, <4>2
    <3>4. QED
      BY <2>1, <3>1, <3>2, <3>3 DEF StdinInv, CommandsArriveWhole
  <2>3. CASE wpc = "dead"
    BY <2>1, <2>3 DEF StdinInv, CommandsArriveWhole
  <2>4. QED
    BY <2>2, <2>3
<1>7. CASE Stop
  BY <1>7 DEF Stop, StdinInv, CommandsArriveWhole
<1>8. CASE AwaitReady \/ Await
  <2>1. /\ stdout # <<>> /\ stdout' = Tail(stdout)
        /\ UNCHANGED <<sent, stdin, wpc>>
    BY <1>8 DEF AwaitReady, Await
  <2>2. stdout \in Seq(WorkerLine)
    BY DEF PipeTypes
  <2>3. \A n \in DOMAIN stdout' : \E m \in DOMAIN stdout : stdout'[n] = stdout[m]
    BY <2>1, <2>2
  <2>4. wpc # "dead" => stdin = <<>>
    BY <2>1 DEF StdinInv
  <2>5. QED
    BY <2>1, <2>3, <2>4 DEF StdinInv, CommandsArriveWhole
<1>9. CASE UNCHANGED pvars
  BY <1>9 DEF pvars, StdinInv, CommandsArriveWhole, CommandThere
<1>10. QED
  BY <1>1, <1>2, <1>3, <1>4, <1>5, <1>6, <1>7, <1>8, <1>9 DEF PipeNext, WorkerStep, BackendStep

\* What comes back after a line was taken, or another one written.
LEMMA NextAwait ==
  ASSUME PipeTypes, QuietInv, StdinInv, AwaitInv, [PipeNext]_pvars PROVE AwaitInv'
<1>1. CASE Announce \/ Result \/ Chatter \/ Reply
  <2>1. PICK kind \in Kinds :
           /\ Write(kind)
           /\ UNCHANGED <<hpc, sent, res, answers, stdin, doing>>
           /\ \/ wpc = "booting"
              \/ kind = "RES" /\ wpc = "busy" /\ wpc' = "busy" /\ emitted' = emitted + 1
              \/ kind \in {"LOG", "noise"} /\ wpc = "busy" /\ wpc' = "busy" /\ emitted' = emitted
              \/ /\ kind \in Final /\ wpc = "busy" /\ wpc' \in {"reading", "dead"}
                 /\ emitted' = emitted /\ (kind = "ABORTED" => emitted > 0)
    BY <1>1, WorkerWrites DEF Kinds
  <2>2. AnswersAreOwn'
    BY <2>1 DEF AwaitInv, AnswersAreOwn
  <2>3. CASE hpc # "await"
    BY <2>1, <2>2, <2>3 DEF AwaitInv
  <2>4. CASE hpc = "await"
    <3>1. wpc = "busy" /\ doing = sent /\ stdout \in Seq(WorkerLine)
      BY <2>1, <2>4 DEF QuietInv, AwaitInv, PipeTypes
    <3>2. /\ \A n \in DOMAIN stdout : stdout[n].k = sent \/ stdout[n].kind = "EOF"
          /\ \A n \in DOMAIN stdout : stdout[n].kind \notin Final
          /\ emitted > 0 => res # <<>> \/ \E n \in DOMAIN stdout : stdout[n].kind = "RES"
      BY <2>4, <3>1 DEF AwaitInv
    <3>3. /\ Len(stdout') = Len(stdout) + 1
          /\ \A n \in DOMAIN stdout : n \in DOMAIN stdout' /\ stdout'[n] = stdout[n]
          /\ \A n \in DOMAIN stdout' : n \in DOMAIN stdout \/ n = Len(stdout) + 1
          /\ stdout'[Len(stdout) + 1].kind = kind /\ stdout'[Len(stdout) + 1].k = doing
      BY <2>1, WriteFacts
    <3>4. \A n \in DOMAIN stdout' : stdout'[n].k = sent \/ stdout'[n].kind = "EOF"
      BY <3>1, <3>2, <3>3
    <3>5. DOMAIN stdout = 1 .. Len(stdout) /\ Len(stdout) \in Nat
             /\ DOMAIN stdout' = 1 .. Len(stdout) + 1
      <4>1. stdout' \in Seq(WorkerLine)
        BY <2>1, WriteFacts
      <4>2. QED
        BY <3>1, <3>3, <4>1
    <3>6. \A n, m \in DOMAIN stdout' : n < m /\ stdout'[n].kind \in Final => stdout'[m].kind = "EOF"
      BY <3>2, <3>3, <3>5
    <3>7. \A n \in DOMAIN stdout' : stdout'[n].kind = "ABORTED" =>
            res # <<>> \/ \E m \in DOMAIN stdout' : m < n /\ stdout'[m].kind = "RES"
      <4>1. SUFFICES ASSUME NEW n \in DOMAIN stdout', stdout'[n].kind = "ABORTED", res = <<>>
                     PROVE  \E m \in DOMAIN stdout' : m < n /\ stdout'[m].kind = "RES"
        OBVIOUS
      <4>2. n = Len(stdout) + 1 /\ kind = "ABORTED"
        BY <3>2, <3>3, <4>1 DEF Final
      <4>3. emitted > 0
        BY <2>1, <3>1, <4>2 DEF Final
      <4>4. PICK m \in DOMAIN stdout : stdout[m].kind = "RES"
        <5>1. \E m \in DOMAIN stdout : stdout[m].kind = "RES"
          BY <3>2, <4>1, <4>3
        <5>2. QED
          BY <5>1
      <4>5. m \in DOMAIN stdout' /\ stdout'[m].kind = "RES" /\ m < n
        BY <3>3, <3>5, <4>2, <4>4
      <4>6. QED
        BY <4>5
    <3>8. \A n \in DOMAIN res' : res'[n] = sent'
      BY <2>1, <2>4 DEF AwaitInv
    <3>9. wpc' = "busy" =>
            /\ \A n \in DOMAIN stdout' : stdout'[n].kind \notin Final
            /\ emitted' > 0 => res' # <<>> \/ \E n \in DOMAIN stdout' : stdout'[n].kind = "RES"
      <4>1. SUFFICES ASSUME wpc' = "busy"
                     PROVE  /\ \A n \in DOMAIN stdout' : stdout'[n].kind \notin Final
                            /\ emitted' > 0 => res' # <<>>
                                  \/ \E n \in DOMAIN stdout' : stdout'[n].kind = "RES"
        OBVIOUS
      <4>2. kind \in {"RES", "LOG", "noise"} /\ kind \notin Final
        BY <2>1, <3>1, <4>1 DEF Final
      <4>3. \A n \in DOMAIN stdout' : stdout'[n].kind \notin Final
        BY <3>2, <3>3, <4>2
      <4>4. CASE kind = "RES"
        <5>1. Len(stdout) + 1 \in DOMAIN stdout' /\ stdout'[Len(stdout) + 1].kind = "RES"
          BY <3>3, <3>5, <4>4
        <5>2. QED
          BY <4>3, <5>1
      <4>5. CASE kind # "RES"
        <5>1. emitted' = emitted /\ res' = res
          BY <2>1, <3>1, <4>1, <4>5 DEF Final
        <5>2. QED
          BY <3>2, <3>3, <4>3, <5>1
      <4>6. QED
        BY <4>4, <4>5
    <3>10. wpc' \in {"busy", "reading", "dead"}
      BY <2>1, <3>1
    <3>11. UNCHANGED <<hpc, sent, res, doing>>
      BY <2>1
    <3>12. QED
      BY <2>2, <3>1, <3>4, <3>6, <3>7, <3>8, <3>9, <3>10, <3>11 DEF AwaitInv
  <2>5. QED
    BY <2>3, <2>4
<1>2. CASE Dispatch
  <2>1. /\ stdout' = <<>> /\ res' = <<>> /\ UNCHANGED <<hpc, sent, answers>>
        /\ wpc = "reading"
        /\ \/ UNCHANGED wpc
           \/ wpc' = "busy" /\ doing' = sent /\ emitted' = 0
    BY <1>2, DispatchFacts
  <2>2. QED
    BY <2>1 DEF AwaitInv, AnswersAreOwn
<1>3. CASE Die
  <2>1. /\ wpc' = "dead" /\ UNCHANGED <<hpc, sent, res, answers>>
        /\ Len(stdout') = Len(stdout) + 1
        /\ \A n \in DOMAIN stdout : n \in DOMAIN stdout' /\ stdout'[n] = stdout[n]
        /\ \A n \in DOMAIN stdout' : n \in DOMAIN stdout \/ n = Len(stdout) + 1
        /\ stdout'[Len(stdout) + 1].kind = "EOF"
    BY <1>3, DieFacts
  <2>2. DOMAIN stdout = 1 .. Len(stdout) /\ Len(stdout) \in Nat
           /\ DOMAIN stdout' = 1 .. Len(stdout) + 1
    BY <1>3, DieFacts DEF PipeTypes
  <2>3. CASE hpc = "await"
    <3>1. /\ \A n \in DOMAIN stdout : stdout[n].k = sent \/ stdout[n].kind = "EOF"
          /\ \A n, m \in DOMAIN stdout :
               n < m /\ stdout[n].kind \in Final => stdout[m].kind = "EOF"
          /\ \A n \in DOMAIN stdout : stdout[n].kind = "ABORTED" =>
               res # <<>> \/ \E m \in DOMAIN stdout : m < n /\ stdout[m].kind = "RES"
          /\ \A n \in DOMAIN res : res[n] = sent
      BY <2>3 DEF AwaitInv
    <3>2. \A n \in DOMAIN stdout' : stdout'[n].k = sent \/ stdout'[n].kind = "EOF"
      BY <2>1, <3>1
    <3>3. \A n, m \in DOMAIN stdout' : n < m /\ stdout'[n].kind \in Final => stdout'[m].kind = "EOF"
      BY <2>1, <2>2, <3>1
    <3>4. \A n \in DOMAIN stdout' : stdout'[n].kind = "ABORTED" =>
            res # <<>> \/ \E m \in DOMAIN stdout' : m < n /\ stdout'[m].kind = "RES"
      <4>1. TAKE n \in DOMAIN stdout'
      <4>2. CASE n \in DOMAIN stdout
        BY <2>1, <3>1, <4>2
      <4>3. CASE n = Len(stdout) + 1
        BY <2>1, <4>3
      <4>4. QED
        BY <2>1, <4>2, <4>3
    <3>5. AnswersAreOwn'
      BY <2>1 DEF AwaitInv, AnswersAreOwn
    <3>6. QED
      BY <2>1, <3>1, <3>2, <3>3, <3>4, <3>5 DEF AwaitInv
  <2>4. CASE hpc # "await"
    BY <2>1, <2>4 DEF AwaitInv, AnswersAreOwn
  <2>5. QED
    BY <2>3, <2>4
<1>4. CASE Hang
  BY <1>4 DEF Hang, AwaitInv, QuietInv, AnswersAreOwn
<1>5. CASE LateReply
  BY <1>5 DEF LateReply, AwaitInv, AnswersAreOwn
<1>6. CASE Timeout
  BY <1>6 DEF Timeout, AfterTimeout, AwaitInv, AnswersAreOwn
<1>7. CASE Send
  <2>1. /\ hpc = "idle" /\ res' = <<>> /\ UNCHANGED <<answers, stdout, wpc>>
    BY <1>7 DEF Send, SendOf
  <2>2. wpc \in {"reading", "dead"} /\ \A n \in DOMAIN stdout : stdout[n].kind = "EOF"
    BY <2>1 DEF QuietInv
  <2>3. QED
    BY <2>1, <2>2 DEF AwaitInv, AnswersAreOwn, Final
<1>8. CASE Stop
  BY <1>8 DEF Stop, AwaitInv, AnswersAreOwn
<1>9. CASE AwaitReady
  <2>1. hpc' # "await" /\ UNCHANGED answers
    BY <1>9 DEF AwaitReady
  <2>2. QED
    BY <2>1 DEF AwaitInv, AnswersAreOwn
<1>10. CASE Await
  <2>1. /\ hpc = "await" /\ stdout # <<>> /\ stdout' = Tail(stdout)
        /\ UNCHANGED <<sent, stdin, wpc, doing, emitted>>
    BY <1>10, AwaitFacts
  <2>2. stdout \in Seq(WorkerLine) /\ res \in Seq(Nat) /\ answers \in Seq(AnswerRecord)
    BY DEF PipeTypes
  <2>3. /\ Head(stdout) = stdout[1] /\ 1 \in DOMAIN stdout
        /\ \A n \in DOMAIN stdout' : n + 1 \in DOMAIN stdout /\ stdout'[n] = stdout[n + 1]
                                    /\ n \in Nat
        /\ \A n \in DOMAIN stdout : n = 1 \/ (n - 1 \in DOMAIN stdout' /\ stdout'[n - 1] = stdout[n])
        /\ DOMAIN stdout \subseteq Nat \ {0}
    BY <2>1, <2>2, TailFacts
  <2>4. /\ \A n \in DOMAIN stdout : stdout[n].k = sent \/ stdout[n].kind = "EOF"
        /\ \A n, m \in DOMAIN stdout : n < m /\ stdout[n].kind \in Final => stdout[m].kind = "EOF"
        /\ \A n \in DOMAIN stdout : stdout[n].kind = "ABORTED" =>
             res # <<>> \/ \E m \in DOMAIN stdout : m < n /\ stdout[m].kind = "RES"
        /\ \A n \in DOMAIN res : res[n] = sent
        /\ wpc \in {"busy", "hung"} =>
             /\ doing = sent
             /\ \A n \in DOMAIN stdout : stdout[n].kind \notin Final
             /\ emitted > 0 => res # <<>> \/ \E n \in DOMAIN stdout : stdout[n].kind = "RES"
    BY <2>1 DEF AwaitInv
  <2>5. AnswersAreOwn'
    <3>1. CASE answers' = answers
      BY <3>1 DEF AwaitInv, AnswersAreOwn
    <3>2. CASE answers' # answers
      <4>1. PICK how \in {"ok", "aborted"} :
              /\ how = "aborted" => stdout[1].kind = "ABORTED"
              /\ answers' = Append(answers, [to |-> sent, from |-> stdout[1].k, how |-> how,
                                            records |-> res])
              /\ stdout[1].kind \in {"OK", "ABORTED"}
        BY <1>10, <2>3, <3>2, AwaitFacts
      <4>2. stdout[1].k = sent
        BY <2>3, <2>4, <4>1
      <4>3. how = "aborted" => res # <<>>
        BY <2>3, <2>4, <4>1
      <4> DEFINE r == [to |-> sent, from |-> stdout[1].k, how |-> how, records |-> res]
      <4>4. /\ r.from = r.to /\ \A m \in DOMAIN r.records : r.records[m] = r.to
            /\ r.how = "aborted" => r.records # <<>>
        BY <2>4, <4>2, <4>3
      <4>5. answers' = Append(answers, r)
        BY <4>1
      <4> HIDE DEF r
      <4>6. \A n \in DOMAIN answers' : \/ n \in DOMAIN answers /\ answers'[n] = answers[n]
                                    \/ answers'[n] = r
        BY <2>2, <4>5, SMTT(30)
      <4>7. QED
        BY <4>4, <4>6 DEF AwaitInv, AnswersAreOwn
    <3>3. QED
      BY <3>1, <3>2
  <2>6. CASE hpc' = "await"
    <3>1. \/ stdout[1].kind = "RES" /\ res' = Append(res, stdout[1].k)
          \/ stdout[1].kind \notin Final \cup {"RES", "EOF"} /\ res' = res
      BY <1>10, <2>3, <2>6, AwaitFacts
    <3>2. \A n \in DOMAIN stdout' : stdout'[n].k = sent \/ stdout'[n].kind = "EOF"
      BY <2>3, <2>4
    <3>3. \A n, m \in DOMAIN stdout' : n < m /\ stdout'[n].kind \in Final => stdout'[m].kind = "EOF"
      BY <2>3, <2>4
    <3>4. /\ res # <<>> => res' # <<>>
          /\ stdout[1].kind = "RES" => res' # <<>>
          /\ \A n \in DOMAIN res' : res'[n] = sent
      <4>1. stdout[1].kind = "RES" => stdout[1].k = sent
        BY <2>3, <2>4
      <4>2. CASE res' = res
        BY <2>4, <3>1, <4>2
      <4>3. CASE stdout[1].kind = "RES" /\ res' = Append(res, sent)
        BY <2>2, <2>4, <4>3
      <4>4. QED
        BY <3>1, <4>1, <4>2, <4>3
    <3>5. \A n \in DOMAIN stdout' : stdout'[n].kind = "ABORTED" =>
            res' # <<>> \/ \E m \in DOMAIN stdout' : m < n /\ stdout'[m].kind = "RES"
      <4>1. SUFFICES ASSUME NEW n \in DOMAIN stdout', stdout'[n].kind = "ABORTED", res' = <<>>
                     PROVE  \E m \in DOMAIN stdout' : m < n /\ stdout'[m].kind = "RES"
        OBVIOUS
      <4>2. res = <<>> /\ stdout[1].kind # "RES"
        BY <3>4, <4>1
      <4>3. PICK m \in DOMAIN stdout : m < n + 1 /\ stdout[m].kind = "RES"
        BY <2>3, <2>4, <4>1, <4>2
      <4>4. m # 1 /\ m - 1 \in DOMAIN stdout' /\ stdout'[m - 1].kind = "RES" /\ m - 1 < n
        BY <2>3, <4>2, <4>3
      <4>5. QED
        BY <4>4
    <3>6. wpc \in {"busy", "hung"} =>
            /\ \A n \in DOMAIN stdout' : stdout'[n].kind \notin Final
            /\ emitted > 0 => res' # <<>> \/ \E n \in DOMAIN stdout' : stdout'[n].kind = "RES"
      <4>1. SUFFICES ASSUME wpc \in {"busy", "hung"}
                     PROVE  /\ \A n \in DOMAIN stdout' : stdout'[n].kind \notin Final
                            /\ emitted > 0 => res' # <<>>
                                  \/ \E n \in DOMAIN stdout' : stdout'[n].kind = "RES"
        OBVIOUS
      <4>2. \A n \in DOMAIN stdout' : stdout'[n].kind \notin Final
        BY <2>3, <2>4, <4>1
      <4>3. SUFFICES ASSUME emitted > 0, res' = <<>>
                     PROVE  \E n \in DOMAIN stdout' : stdout'[n].kind = "RES"
        BY <4>2
      <4>4. res = <<>> /\ stdout[1].kind # "RES"
        BY <3>4, <4>3
      <4>5. PICK n \in DOMAIN stdout : stdout[n].kind = "RES"
        BY <2>4, <4>1, <4>3, <4>4
      <4>6. n - 1 \in DOMAIN stdout' /\ stdout'[n - 1].kind = "RES"
        BY <2>3, <4>4, <4>5
      <4>7. QED
        BY <4>6
    <3>7. QED
      BY <2>1, <2>4, <2>5, <3>2, <3>3, <3>4, <3>5, <3>6 DEF AwaitInv
  <2>7. CASE hpc' # "await"
    BY <2>5, <2>7 DEF AwaitInv
  <2>8. QED
    BY <2>6, <2>7
<1>11. CASE UNCHANGED pvars
  BY <1>11 DEF pvars, AwaitInv, AnswersAreOwn
<1>12. QED
  BY <1>1, <1>2, <1>3, <1>4, <1>5, <1>6, <1>7, <1>8, <1>9, <1>10, <1>11
  DEF PipeNext, WorkerStep, BackendStep

\* The invariant of the two pipes, for every session.
LEMMA PipeInvariant == PipeSpec => [](PipeTypes /\ QuietInv /\ StdinInv /\ AwaitInv)
<1>1. PipeTypes /\ QuietInv /\ StdinInv /\ AwaitInv /\ [PipeNext]_pvars
        => (PipeTypes /\ QuietInv /\ StdinInv /\ AwaitInv)'
  BY NextPipeTypes, NextQuiet, NextStdin, NextAwait
<1>2. QED
  BY <1>1, InitPipe, PTL DEF PipeSpec

\* In every session the worker sees whole commands only, whatever the shell
\* takes of what arrives.
THEOREM CommandsWhole == PipeSpec => []CommandsArriveWhole
<1>1. StdinInv => CommandsArriveWhole
  BY DEF StdinInv
<1>2. QED
  BY <1>1, PipeInvariant, PTL

\* In every session what the host takes for an answer is the answer to the
\* command it sent, with that command's records; an aborted batch has some.
THEOREM AnswersOwn == PipeSpec => []AnswersAreOwn
<1>1. AwaitInv => AnswersAreOwn
  BY DEF AwaitInv
<1>2. QED
  BY <1>1, PipeInvariant, PTL
===============================================================================
