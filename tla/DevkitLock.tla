------------------------------ MODULE DevkitLock ------------------------------
(***************************************************************************)
(* scripts/devkit_lock.sh: the advisory lock of the one physical board.    *)
(* The lock is a directory made by an atomic mkdir, with a holder file in  *)
(* it.  Every shell command that touches the file system is one step, so   *)
(* that invocations of several agents interleave between any two of them.  *)
(* Time is abstracted to whether the epoch of the holder file is younger   *)
(* than STALE_MINUTES.                                                     *)
(***************************************************************************)
EXTENDS Naturals, FiniteSets

CONSTANTS
  Agent,        \* agents; each runs one invocation of the script at a time
  Name,         \* the <who> strings
  WhoOf,        \* WhoOf[a]: the <who> agent a passes
  Stealers,     \* agents that pass --steal-if-stale
  ReleaseArgs,  \* ReleaseArgs[a]: the arguments a may give to release
  WithAgents,   \* agents that run acquire through `with`, where set -e is off
  Crashing,     \* agents that may be killed at any point
  LiveStale,    \* may a lock go stale while a live agent works under it?
  MaxCrashes,   \* bound: how many times agents are killed
  None, NoWho

ASSUME DevkitAssumption ==
  /\ WhoOf \in [Agent -> Name]
  /\ Stealers \subseteq Agent
  /\ WithAgents \subseteq Agent
  /\ Crashing \subseteq Agent
  /\ ReleaseArgs \in [Agent -> SUBSET {"who", "force", "bare"}]
  /\ LiveStale \in BOOLEAN
  /\ MaxCrashes \in Nat
  /\ None \notin Agent
  /\ NoWho \notin Name

VARIABLES
  dir,      \* does LOCK_DIR exist?
  holder,   \* HOLDER_FILE: does it exist, its who line, is its epoch fresh?
  fd,       \* fd[a]: a's open descriptor refers to the present HOLDER_FILE
  pc,       \* pc[a]: the next command of a's invocation
  arg,      \* arg[a]: the argument of a's release
  using,    \* using[a]: a was told it holds the lock, and works on the board
  owner,    \* history: the agent whose mkdir made LOCK_DIR
  crashes   \* how many agents were killed so far

vars == <<dir, holder, fd, pc, arg, using, owner, crashes>>

HolderFile == [file : BOOLEAN, who : Name \cup {NoWho}, fresh : BOOLEAN]
NoFile == [file |-> FALSE, who |-> NoWho, fresh |-> FALSE]

\* Variants of definitions, each with a slip one could make in the script.  No
\* action of the specification uses them: they show what the runs detect.
IsStale_IgnoresMissing == holder.file /\ ~holder.fresh
Mkdir_Parents(a) ==      \* mkdir -p, which succeeds on an existing directory
  /\ pc[a] = "mkdir"
  /\ dir' = TRUE
  /\ owner' = a
  /\ pc' = [pc EXCEPT ![a] = "openNew"]
  /\ UNCHANGED <<holder, fd, arg, using, crashes>>

ReleaseAllowed_Always(a) == TRUE

\* `> HOLDER_FILE` has truncated the file, none of its lines is written yet.
Truncated == [file |-> TRUE, who |-> NoWho, fresh |-> FALSE]
Written(a) == [file |-> TRUE, who |-> WhoOf[a], fresh |-> TRUE]

PC == {"idle", "mkdir", "openNew", "writeNew", "readWho", "openOld",
       "writeOld", "isStale", "stealUnlink", "stealRmdir", "relDir", "relRead",
       "relUnlink", "relRmdir"}

\* A missing file and a missing epoch count as stale too.
IsStale == ~holder.fresh
\* `status` prints FREE.
StatusFree == ~(dir /\ holder.file)

Init ==
  /\ dir = FALSE
  /\ holder = NoFile
  /\ fd = [a \in Agent |-> FALSE]
  /\ pc = [a \in Agent |-> "idle"]
  /\ arg = [a \in Agent |-> "who"]
  /\ using = [a \in Agent |-> FALSE]
  /\ owner = None
  /\ crashes = 0

Goto(a, l) == pc' = [pc EXCEPT ![a] = l]
-------------------------------------------------------------------------------
(* acquire.  An agent that works on the board may call it again: that is   *)
(* the heartbeat of the header comment.                                    *)

StartAcquire(a) ==
  /\ pc[a] = "idle"
  /\ Goto(a, "mkdir")
  /\ UNCHANGED <<dir, holder, fd, arg, using, owner, crashes>>

Mkdir(a) ==
  /\ pc[a] = "mkdir"
  /\ \/ /\ ~dir
        /\ dir' = TRUE
        /\ owner' = a
        /\ Goto(a, "openNew")
     \/ /\ dir
        /\ Goto(a, "readWho")
        /\ UNCHANGED <<dir, owner>>
  /\ UNCHANGED <<holder, fd, arg, using, crashes>>

\* _write_holder opens the file.  If the directory is gone the redirection
\* fails: set -e ends the script, but under `with` the caller's `||` has
\* switched set -e off and acquire goes on to report success.
OpenHolder(a) ==
  /\ pc[a] \in {"openNew", "openOld"}
  /\ \/ /\ dir
        /\ holder' = Truncated
        /\ fd' = [fd EXCEPT ![a] = TRUE]
        /\ Goto(a, IF pc[a] = "openNew" THEN "writeNew" ELSE "writeOld")
        /\ UNCHANGED using
     \/ /\ ~dir
        /\ using' = [using EXCEPT ![a] = a \in WithAgents]
        /\ Goto(a, "idle")
        /\ UNCHANGED <<holder, fd>>
  /\ UNCHANGED <<dir, arg, owner, crashes>>

\* The lines of the file are written and acquire returns 0.  After an rm the
\* descriptor refers to an unlinked file and the write is lost.
WriteHolder(a) ==
  /\ pc[a] \in {"writeNew", "writeOld"}
  /\ holder' = IF fd[a] THEN Written(a) ELSE holder
  /\ fd' = [fd EXCEPT ![a] = FALSE]
  /\ using' = [using EXCEPT ![a] = TRUE]
  /\ Goto(a, "idle")
  /\ UNCHANGED <<dir, arg, owner, crashes>>

\* Before the deadline: sleep and start over.  After it: BUSY, exit 1, and the
\* agent keeps off the board.
WaitOrBusy(a) ==
  \/ Goto(a, "mkdir") /\ UNCHANGED using
  \/ Goto(a, "idle") /\ using' = [using EXCEPT ![a] = FALSE]

ReadWho(a) ==
  /\ pc[a] = "readWho"
  /\ \/ /\ holder.who = WhoOf[a]
        /\ Goto(a, "openOld")
        /\ UNCHANGED using
     \/ /\ holder.who # WhoOf[a]
        /\ a \in Stealers
        /\ Goto(a, "isStale")
        /\ UNCHANGED using
     \/ /\ holder.who # WhoOf[a]
        /\ a \notin Stealers
        /\ WaitOrBusy(a)
  /\ UNCHANGED <<dir, holder, fd, arg, owner, crashes>>

CheckStale(a) ==
  /\ pc[a] = "isStale"
  /\ \/ /\ IsStale
        /\ Goto(a, "stealUnlink")
        /\ UNCHANGED using
     \/ /\ ~IsStale
        /\ WaitOrBusy(a)
  /\ UNCHANGED <<dir, holder, fd, arg, owner, crashes>>
-------------------------------------------------------------------------------
(* rm -rf LOCK_DIR, of a steal or a release: the file, then the directory. *)

Unlink(a) ==
  /\ pc[a] \in {"stealUnlink", "relUnlink"}
  /\ holder' = NoFile
  /\ fd' = [b \in Agent |-> FALSE]
  /\ Goto(a, IF pc[a] = "stealUnlink" THEN "stealRmdir" ELSE "relRmdir")
  /\ UNCHANGED <<dir, arg, using, owner, crashes>>

\* rmdir fails when somebody wrote a new holder file meanwhile; set -e then
\* ends a plain acquire, `with` goes round its loop.
Rmdir(a) ==
  /\ pc[a] \in {"stealRmdir", "relRmdir"}
  /\ \/ /\ ~holder.file
        /\ dir' = FALSE
        /\ owner' = None
     \/ /\ holder.file
        /\ UNCHANGED <<dir, owner>>
  /\ Goto(a, IF pc[a] = "stealRmdir" /\ (~holder.file \/ a \in WithAgents)
             THEN "mkdir" ELSE "idle")
  /\ UNCHANGED <<holder, fd, arg, using, crashes>>
-------------------------------------------------------------------------------
(* release, by an agent that is done, or that cleans up without holding.   *)

StartRelease(a) ==
  /\ pc[a] = "idle"
  /\ \E r \in ReleaseArgs[a] :
       arg' = [arg EXCEPT ![a] = r]
  /\ using' = [using EXCEPT ![a] = FALSE]
  /\ Goto(a, "relDir")
  /\ UNCHANGED <<dir, holder, fd, owner, crashes>>

ReleaseTestDir(a) ==
  /\ pc[a] = "relDir"
  /\ Goto(a, IF dir THEN "relRead" ELSE "idle")
  /\ UNCHANGED <<dir, holder, fd, arg, using, owner, crashes>>

\* A release with a name that is not the holder's is refused; --force and a
\* release without any argument are not.
ReleaseAllowed(a) == arg[a] = "who" => holder.who = WhoOf[a]

ReleaseRead(a) ==
  /\ pc[a] = "relRead"
  /\ Goto(a, IF ReleaseAllowed(a) THEN "relUnlink" ELSE "idle")
  /\ UNCHANGED <<dir, holder, fd, arg, using, owner, crashes>>
-------------------------------------------------------------------------------
(* The environment: STALE_MINUTES pass; an agent is killed, and its board  *)
(* session with it.                                                        *)

Age ==
  /\ holder.fresh
  /\ LiveStale \/ \A a \in Agent : ~using[a]
  /\ holder' = [holder EXCEPT !.fresh = FALSE]
  /\ UNCHANGED <<dir, fd, pc, arg, using, owner, crashes>>

Crash(a) ==
  /\ a \in Crashing
  /\ crashes < MaxCrashes
  /\ crashes' = crashes + 1
  /\ pc[a] # "idle" \/ using[a]
  /\ Goto(a, "idle")
  /\ fd' = [fd EXCEPT ![a] = FALSE]
  /\ using' = [using EXCEPT ![a] = FALSE]
  /\ UNCHANGED <<dir, holder, arg, owner>>

\* The rest of an invocation once it is started.
Step(a) ==
  \/ Mkdir(a) \/ OpenHolder(a) \/ WriteHolder(a) \/ ReadWho(a) \/ CheckStale(a)
  \/ Unlink(a) \/ Rmdir(a) \/ ReleaseTestDir(a) \/ ReleaseRead(a)

Next ==
  \/ \E a \in Agent : \/ StartAcquire(a) \/ Mkdir(a) \/ OpenHolder(a)
                      \/ WriteHolder(a) \/ ReadWho(a) \/ CheckStale(a)
                      \/ Unlink(a) \/ Rmdir(a) \/ StartRelease(a)
                      \/ ReleaseTestDir(a) \/ ReleaseRead(a) \/ Crash(a)
  \/ Age

Spec == Init /\ [][Next]_vars

(***************************************************************************)
(* Fairness: the shell runs an invocation it has started, and an agent     *)
(* that works on the board releases the lock in the end ("hold this lock   *)
(* for the duration and release it after", line 6), however many           *)
(* heartbeats it sends meanwhile.  Nobody is obliged to call acquire.      *)
(***************************************************************************)
FairSpec ==
  /\ Spec
  /\ \A a \in Agent : WF_vars(Step(a))
  /\ \A a \in Agent : SF_vars(using[a] /\ StartRelease(a))
-------------------------------------------------------------------------------
(* What the lock promises. *)

\* Type invariant.
TypeOK ==
  /\ dir \in BOOLEAN
  /\ holder \in HolderFile
  /\ fd \in [Agent -> BOOLEAN]
  /\ pc \in [Agent -> PC]
  /\ arg \in [Agent -> {"who", "force", "bare"}]
  /\ using \in [Agent -> BOOLEAN]
  /\ owner \in Agent \cup {None}
  /\ crashes \in Nat

\* Two agents never work on the board at once (header, lines 4 to 6).
MutualExclusion == \A a, b \in Agent : using[a] /\ using[b] => a = b

\* When no invocation is running, `status` answers FREE only if the next
\* acquire would find no directory in its way ("exit 0 free", line 21).
StatusFreeIsFree ==
  (\A a \in Agent : pc[a] = "idle") /\ StatusFree => ~dir

\* A lock is removed by the agent that made it, by a steal or by release
\* --force, and by nothing else (lines 14 to 16: "never silently").
OnlyForceRemovesOthers ==
  [][\A a \in Agent :
       pc[a] = "relUnlink" /\ pc'[a] = "relRmdir" /\ owner # None
         => owner = a \/ arg[a] = "force"]_vars

\* The lock is a BoardLock: the owner is the agent whose mkdir succeeded.
Board == INSTANCE BoardLock WITH owner <- owner, using <- using
ImplementsBoardLock == Board!Spec

\* Whatever agents die and at whichever point, the board becomes free again.
LockIsFreedAgain == dir ~> ~dir
===============================================================================
