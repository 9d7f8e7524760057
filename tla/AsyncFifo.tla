------------------------------- MODULE AsyncFifo -------------------------------
(***************************************************************************)
(* rtl/common/async_fifo.sv: the dual-clock FIFO every multi-bit clock     *)
(* crossing of the repository uses.  An action is an edge of one of the    *)
(* two clocks; the clocks are unrelated.  A bus that is sampled by the     *)
(* other domain may be caught while it changes: each bit is then the old   *)
(* or the new one.                                                         *)
(*                                                                         *)
(* A definition whose name ends in _X is the definition before the         *)
(* underscore with the slip X; no action uses it.                          *)
(***************************************************************************)
EXTENDS Integers, Sequences

CONSTANTS
  Data,     \* the values written
  AddrW,    \* ADDR_W
  MaxPuts   \* bound: writes in a behaviour

ASSUME AsyncFifoAssumption == AddrW \in Nat /\ AddrW >= 2 /\ MaxPuts \in Nat

Depth == 2 ^ AddrW
Pointers == 0..2 * Depth - 1

VARIABLES
  mem,
  wrBin, wrGray, full,
  rdGrayW1, rdGrayW2,   \* rd_gray_wsync1, rd_gray_wsync2
  rdBin, rdGray, empty,
  wrGrayR1, wrGrayR2,   \* wr_gray_rsync1, wr_gray_rsync2
  wrGrayWas, rdGrayWas, \* what the buses may still show in part
  puts, gets, out       \* history: how many words went in and out, the last out

writeVars == <<mem, wrBin, wrGray, full, rdGrayW1, rdGrayW2, wrGrayWas, puts>>
readVars == <<rdBin, rdGray, empty, wrGrayR1, wrGrayR2, rdGrayWas, gets, out>>
fifoVars == <<writeVars, readVars>>

\* Bit k of a number.
Bit(b, k) == (b \div 2 ^ k) % 2

\* The wires of a bus that carries a pointer; a word on it is the set of those
\* that are high.
Wires == 0..AddrW

Gray_Binary(b) == {k \in Wires : Bit(b, k) = 1}
GrayCode == [b \in Pointers |-> {k \in Wires : Bit(b, k) # Bit(b, k + 1)}]
Gray(b) == GrayCode[b]

\* A bus caught in its change from old to new.
Caught(old, new) == {v \in SUBSET (old \cup new) : old \cap new \subseteq v}

Inverted(word, wires) == (word \ wires) \cup (wires \ word)

\* The write pointer meets the read pointer one lap ahead: the Gray codes then
\* differ in the two top bits only.
FullVal_OneBit(next) == Gray(next) = Inverted(rdGrayW2, {AddrW})
FullVal(next) == Gray(next) = Inverted(rdGrayW2, {AddrW - 1, AddrW})
EmptyVal_Binary(next) == Gray_Binary(next) = wrGrayR2
EmptyVal(next) == Gray(next) = wrGrayR2

FifoInit ==
  /\ mem \in [0..Depth - 1 -> Data]
  /\ wrBin = 0 /\ wrGray = {} /\ full = FALSE
  /\ rdGrayW1 = {} /\ rdGrayW2 = {}
  /\ rdBin = 0 /\ rdGray = {} /\ empty = TRUE
  /\ wrGrayR1 = {} /\ wrGrayR2 = {}
  /\ wrGrayWas = {} /\ rdGrayWas = {}
  /\ puts = 0 /\ gets = 0
  /\ out = mem[0]

\* An edge of the write clock; doWr is wr_en && !full.
WriteEdge(doWr, v) ==
  /\ doWr => ~full /\ puts < MaxPuts
  /\ LET next == IF doWr THEN (wrBin + 1) % (2 * Depth) ELSE wrBin IN
       /\ wrBin' = next
       /\ wrGray' = Gray(next)
       /\ full' = FullVal(next)
  /\ mem' = IF doWr THEN [mem EXCEPT ![wrBin % Depth] = v] ELSE mem
  /\ puts' = IF doWr THEN puts + 1 ELSE puts
  /\ rdGrayW2' = rdGrayW1
  /\ rdGrayW1' \in Caught(rdGrayWas, rdGray)
  /\ rdGrayWas' = rdGray
  /\ wrGrayWas' = wrGray
  /\ UNCHANGED <<rdBin, rdGray, empty, wrGrayR1, wrGrayR2, gets, out>>

\* An edge of the read clock; doRd is rd_en && !empty.
ReadEdge(doRd) ==
  /\ doRd => ~empty
  /\ LET next == IF doRd THEN (rdBin + 1) % (2 * Depth) ELSE rdBin IN
       /\ rdBin' = next
       /\ rdGray' = Gray(next)
       /\ empty' = EmptyVal(next)
  /\ out' = IF doRd THEN mem[rdBin % Depth] ELSE out
  /\ gets' = IF doRd THEN gets + 1 ELSE gets
  /\ wrGrayR2' = wrGrayR1
  /\ wrGrayR1' \in Caught(wrGrayWas, wrGray)
  /\ wrGrayWas' = wrGray
  /\ rdGrayWas' = rdGray
  /\ UNCHANGED <<mem, wrBin, wrGray, full, rdGrayW1, rdGrayW2, puts>>

FifoNext ==
  \/ \E v \in Data : WriteEdge(TRUE, v)
  \/ WriteEdge(FALSE, out)
  \/ \E doRd \in BOOLEAN : ReadEdge(doRd)

(***************************************************************************)
(* What is owed: both clocks run (an edge without a transfer), and the     *)
(* reader reads while there is something.  Nobody has to write.            *)
(***************************************************************************)
WriteClock == WriteEdge(FALSE, out)
ReadClock == ReadEdge(FALSE)
Reads == ReadEdge(TRUE)

FifoSpec ==
  /\ FifoInit /\ [][FifoNext]_fifoVars
  /\ WF_fifoVars(WriteClock) /\ WF_fifoVars(ReadClock) /\ WF_fifoVars(Reads)
-------------------------------------------------------------------------------
\* The words between the pointers.
Inside == [k \in 1..((wrBin - rdBin) % (2 * Depth)) |-> mem[(rdBin + k - 1) % Depth]]

Queue == INSTANCE BoundedQueue WITH q <- Inside
\* The FIFO delivers every word once, in order and unharmed, and never holds
\* more than its depth, whatever the two clocks do.
ImplementsQueue == Queue!Spec

\* The count, at most top, whose wrapped pointer has the Gray code g.
Counted == [g \in SUBSET Wires |-> CHOOSE b \in Pointers : Gray(b) = g]
CountOf(g, top) == top - ((top - Counted[g]) % (2 * Depth))

Unwrapped == INSTANCE FifoPointers WITH
  wr <- puts, rd <- gets,
  rdSeen1 <- CountOf(rdGrayW1, gets), rdSeen2 <- CountOf(rdGrayW2, gets),
  wrSeen1 <- CountOf(wrGrayR1, puts), wrSeen2 <- CountOf(wrGrayR2, puts)
\* Wrapped Gray pointers, sampled in the middle of a change, do what the counted
\* pointers of FifoPointers do: "the only sanctioned primitive for multi-bit CDC"
\* (async_fifo.sv:2).
ImplementsPointers == Unwrapped!Spec

\* The empty flag is late but not stuck: every word that went in is read.
WordsGetThrough == \A k \in 1..MaxPuts : puts = k ~> gets >= k
===============================================================================
