---------------------------- MODULE MCDevkitLock ----------------------------
(* Instances of DevkitLock for TLC. *)
EXTENDS DevkitLock

CONSTANTS a1, a2, a3

\* Every agent has a <who> of its own, as the header recommends.
MCWho == [a \in Agent |-> a]
OwnRelease == [a \in Agent |-> {"who"}]
AnyRelease == [a \in Agent |-> {"who", "bare"}]

\* The recovering agent keeps asking for the board, and time passes.
RecoverySpec ==
  /\ FairSpec
  /\ WF_vars(Age)
  /\ \A a \in Stealers : SF_vars(StartAcquire(a))
=============================================================================
