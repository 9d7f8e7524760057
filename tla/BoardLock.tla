------------------------------- MODULE BoardLock -------------------------------
(***************************************************************************)
(* What the devkit lock promises to the agents that share one board: the   *)
(* lock has at most one owner, only the owner works on the board, and the  *)
(* lock passes from one owner to the next only through being free.         *)
(***************************************************************************)
CONSTANTS Agent, None

VARIABLES owner,   \* the agent that owns the lock, or None
          using    \* using[a]: agent a believes it may touch the board

lockVars == <<owner, using>>

Init == /\ owner = None
        /\ using = [a \in Agent |-> FALSE]

\* The lock was free and becomes a's.
Take(a) == /\ owner = None
           /\ owner' = a
           /\ UNCHANGED using

\* The owner is told that it holds the lock.
Enter(a) == /\ owner = a
            /\ using' = [using EXCEPT ![a] = TRUE]
            /\ UNCHANGED owner

\* An agent stops touching the board, by choice, by a refusal or by a crash.
Leave(a) == /\ using' = [using EXCEPT ![a] = FALSE]
            /\ UNCHANGED owner

\* The owner gives the lock back once it no longer touches the board.
Free(a) == /\ owner = a
           /\ ~using[a]
           /\ owner' = None
           /\ UNCHANGED using

Next == \E a \in Agent : Take(a) \/ Enter(a) \/ Leave(a) \/ Free(a)

Spec == Init /\ [][Next]_lockVars
===============================================================================
