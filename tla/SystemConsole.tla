----------------------------- MODULE SystemConsole -----------------------------
(***************************************************************************)
(* SystemConsoleProcess (system_console_process.py) under the transport of *)
(* coredla_csr_handshake.py: a line goes to the console, and everything    *)
(* up to the next prompt is its reply.  A reader thread moves what the     *)
(* console writes, character by character, into a queue.                   *)
(***************************************************************************)
EXTENDS Integers, Sequences, SequencesExt

CONSTANTS
  Accesses,      \* the accesses after open: "write", "read" or "readFile"
  Closes         \* whether the caller leaves through close(), as "with" does

ASSUME ConsoleAssumption == Accesses \in Seq({"write", "read", "readFile"})

VARIABLES
  cpc,      \* the host: where it is in its session
  asked,    \* lines sent, which numbers them
  taken,    \* what the host made of the replies: line, kind, what it took
  lines,    \* lines on the way to the console
  received,    \* what the reader has put in the queue
  pipe,     \* what the console has written and the reader not yet read
  console   \* the console's process: "banner", "up", "stuck", "gone"
cvars == <<cpc, asked, taken, lines, received, pipe, console>>

\* open() sets the .sof, the JTAG path and sources the script, then resets.
Opening == <<"set", "set", "source", "write">>
Session == Opening \o Accesses
PromptChar == <<"prompt">>
EOF == <<"eof">>

ConsoleInit ==
  /\ cpc = "spawned" /\ asked = 0 /\ taken = <<>>
  /\ lines = <<>> /\ received = <<>> /\ pipe = <<>> /\ console = "banner"
-------------------------------------------------------------------------------
(* The console and the reader thread.                                      *)

\* A reply is the line's own value, or an error that the line met.
Respond ==
  /\ \/ /\ console = "banner"
        /\ pipe' = pipe \o <<<<0, "banner">>, PromptChar>>
        /\ console' = "up"
        /\ UNCHANGED lines
     \/ /\ console = "up" /\ lines # <<>>
        /\ \E text \in {"value", "error"} : pipe' = pipe \o <<<<Head(lines), text>>, PromptChar>>
        /\ lines' = Tail(lines)
        /\ UNCHANGED console
  /\ UNCHANGED <<cpc, asked, taken, received>>

\* It takes longer than the deadline, comes back, or ends.
Stick == console \in {"banner", "up"} /\ console' = "stuck" /\ UNCHANGED <<lines, pipe>>
Recover ==
  console = "stuck" /\ cpc \in {"send", "closing", "exiting"} /\ console' = "up"
  /\ UNCHANGED <<lines, pipe>>
Exit == console # "gone" /\ console' = "gone" /\ pipe' = Append(pipe, EOF) /\ UNCHANGED lines
Fault == (Stick \/ Recover \/ Exit) /\ UNCHANGED <<cpc, asked, taken, received>>

ReaderLoop ==
  /\ pipe # <<>> /\ cpc # "closed"
  /\ received' = Append(received, Head(pipe)) /\ pipe' = Tail(pipe)
  /\ UNCHANGED <<cpc, asked, taken, lines, console>>
-------------------------------------------------------------------------------
(* The host.                                                               *)

\* wait_for_prompt: the queue up to a prompt is the reply; an end of file raises.
Ready == Contains(received, PromptChar) \/ Contains(received, EOF)
ReplyEnd == SelectInSeq(received, LAMBDA c : c \in {PromptChar, EOF})
PromptReply == SubSeq(received, 1, ReplyEnd - 1)
Answered == received[ReplyEnd] = PromptChar
Consume == received' = SubSeq(received, ReplyEnd + 1, Len(received))

\* The session is over after an error, through close() or at once.
AfterError == IF Closes THEN "closing" ELSE "closed"

WriteLine(l) ==
  /\ lines' = IF console = "gone" THEN lines ELSE Append(lines, asked + 1)
  /\ asked' = asked + 1
  /\ cpc' = l
  /\ UNCHANGED <<taken, received, pipe, console>>

\* open() consumes the banner before it sends anything.
AfterSpawn_Send == "send"
AfterSpawn == "banner"
Spawn ==
  /\ cpc = "spawned" /\ cpc' = AfterSpawn
  /\ UNCHANGED <<asked, taken, lines, received, pipe, console>>

Banner ==
  /\ cpc = "banner" /\ Ready
  /\ Consume
  /\ cpc' = IF Answered THEN "send" ELSE AfterError
  /\ UNCHANGED <<asked, taken, lines, pipe, console>>

SendLine ==
  /\ cpc = "send" /\ asked < Len(Session)
  /\ WriteLine("await")

\* What is asked of the reply: nothing of a write's, a number of a read's, of a
\* file's that the console wrote it.
Asked == Session[asked]
Accepted(reply) ==
  Asked \in {"read", "readFile"} => reply # <<>> /\ reply[Len(reply)][2] = "value"

TakeReply ==
  /\ cpc = "await" /\ Ready
  /\ Consume
  /\ IF Answered /\ Accepted(PromptReply)
     THEN /\ taken' = IF Asked \in {"read", "readFile"}
                      THEN Append(taken, <<asked, PromptReply[Len(PromptReply)][1]>>) ELSE taken
          /\ cpc' = IF asked = Len(Session) THEN AfterError ELSE "send"
     ELSE cpc' = AfterError /\ UNCHANGED taken
  /\ UNCHANGED <<asked, lines, pipe, console>>

\* The deadline passes.
AfterLate == AfterError
ReplyTimeout ==
  /\ cpc \in {"banner", "await"} /\ ~Ready /\ console \in {"stuck", "gone"} /\ pipe = <<>>
  /\ cpc' = AfterLate
  /\ UNCHANGED <<asked, taken, lines, received, pipe, console>>

\* close(): two more lines, each taking the next reply for its own; a timeout
\* or an end of file leaves it, and the process, as they are.
CloseLine ==
  /\ cpc \in {"closing", "exiting"}
  /\ WriteLine(IF cpc = "closing" THEN "closingAwait" ELSE "exitingAwait")

CloseReply ==
  /\ cpc \in {"closingAwait", "exitingAwait"}
  /\ \/ /\ Ready
        /\ Consume
        /\ cpc' = IF Answered /\ cpc = "closingAwait" THEN "exiting" ELSE "closed"
     \/ /\ ~Ready /\ pipe = <<>>
        /\ console \in {"stuck", "gone"}
        /\ cpc' = "closed"
        /\ UNCHANGED received
  /\ UNCHANGED <<asked, taken, lines, pipe, console>>

HostNext ==
  Spawn \/ Banner \/ SendLine \/ TakeReply \/ ReplyTimeout \/ CloseLine \/ CloseReply
ConsoleNext == HostNext \/ Respond \/ Fault \/ ReaderLoop

ConsoleSpec == ConsoleInit /\ [][ConsoleNext]_cvars
-------------------------------------------------------------------------------
\* Every value the host reads is the console's answer to that very read, though
\* nothing in a reply says what it answers: no reply is left over from a banner
\* or from a line whose reply came too late.
ValuesAreOwn == \A k \in DOMAIN taken : taken[k][1] = taken[k][2]
===============================================================================
