----------------------------- MODULE FifoPointers -----------------------------
(***************************************************************************)
(* The pointer protocol of rtl/common/async_fifo.sv with the pointers      *)
(* counted on instead of wrapped: each clock domain moves its own pointer  *)
(* and judges full or empty by a copy of the other's that is two flops old *)
(* and may lag further.  AsyncFifo implements it.                          *)
(***************************************************************************)
EXTENDS Integers

CONSTANT Depth   \* a positive number of words

VARIABLES
  wr, rd,            \* writes and reads so far
  full, empty,       \* the registered flags
  rdSeen1, rdSeen2,  \* what has come of rd into the write domain, by flop
  wrSeen1, wrSeen2   \* what has come of wr into the read domain, by flop

writeVars == <<wr, full, rdSeen1, rdSeen2>>
readVars == <<rd, empty, wrSeen1, wrSeen2>>
vars == <<writeVars, readVars>>

Init ==
  /\ wr = 0 /\ rd = 0
  /\ full = FALSE /\ empty = TRUE
  /\ rdSeen1 = 0 /\ rdSeen2 = 0
  /\ wrSeen1 = 0 /\ wrSeen2 = 0

FullVal(next) == next = rdSeen2 + Depth
EmptyVal(next) == next = wrSeen2

\* The first flop gets the other pointer as it is or as it was some time since
\* the flop was last loaded.
WriteEdge ==
  /\ wr' = wr \/ (~full /\ wr' = wr + 1)
  /\ IF FullVal(wr') THEN full' = TRUE ELSE full' = FALSE
  /\ rdSeen2' = rdSeen1
  /\ rdSeen1' \in rdSeen1..rd
  /\ UNCHANGED readVars

ReadEdge ==
  /\ rd' = rd \/ (~empty /\ rd' = rd + 1)
  /\ IF EmptyVal(rd') THEN empty' = TRUE ELSE empty' = FALSE
  /\ wrSeen2' = wrSeen1
  /\ wrSeen1' \in wrSeen1..wr
  /\ UNCHANGED writeVars

Next == WriteEdge \/ ReadEdge

Spec == Init /\ [][Next]_vars
-------------------------------------------------------------------------------
\* Type invariant.
TypeOK ==
  /\ wr \in Nat /\ rd \in Nat
  /\ full \in BOOLEAN /\ empty \in BOOLEAN
  /\ rdSeen1 \in Nat /\ rdSeen2 \in Nat
  /\ wrSeen1 \in Nat /\ wrSeen2 \in Nat

\* The FIFO never holds less than nothing or more than Depth words, a write
\* that full lets through finds a free place, and a read that empty lets
\* through finds a word that is there.
NoOverrun ==
  /\ rd <= wr
  /\ wr <= rd + Depth
  /\ ~full => wr < rd + Depth
  /\ ~empty => rd < wr

\* Why: each side's view of the other is late and never early.
Conservative ==
  /\ rdSeen2 <= rdSeen1
  /\ rdSeen1 <= rd
  /\ rd <= wrSeen2
  /\ wrSeen2 <= wrSeen1
  /\ wrSeen1 <= wr
  /\ wr <= rdSeen2 + Depth
  /\ ~full => wr < rdSeen2 + Depth
  /\ ~empty => rd < wrSeen2
===============================================================================
