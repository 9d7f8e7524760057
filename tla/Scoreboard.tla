------------------------------ MODULE Scoreboard ------------------------------
(***************************************************************************)
(* The benchmark scoreboard, rtl/scoreboard: a front-end in the engine's   *)
(* (hot) clock that pairs issues with retires, an event FIFO, and counters *)
(* with a clear/run FSM and a snapshot in the CSR (cool) clock.            *)
(*                                                                         *)
(* A step is an edge of one clock.  A time is represented by what happened *)
(* then: the timestamp of an issue is the issued record, a latency is the  *)
(* pair of the issue and the retire it was measured between, and the cycle *)
(* span is the pair of the first issue and the last retire.                *)
(***************************************************************************)
EXTENDS Integers, Sequences, FiniteSets

CONSTANTS
  MaxInflight,   \* entries of the timestamp FIFO
  FifoDepth,     \* entries of the event FIFO
  HistEntries,   \* histogram buckets, hence cycles of a clear
  Matches(_),    \* whether the engine's class for a record is its label
  Bucket(_),     \* the bucket of a record's latency
  None

ASSUME ScoreboardAssumption ==
  /\ MaxInflight \in Nat \ {0} /\ FifoDepth \in Nat \ {0}
  /\ HistEntries \in Nat \ {0}

VARIABLES
  \* cool domain
  conf,                        \* N_RECORDS and LOOP_EN
  clearing, clrAddr, pendingStart, running,
  runStart,                    \* toggles with each run_start pulse
  counters,                    \* done, passes, span and the latencies seen
  hist, snap,
  rd, empty, wrSeen,           \* read side of the event FIFO
  \* hot domain
  clearHot, startHot,          \* flops of the two synchronizers
  ts,                          \* timestamp FIFO
  first,                       \* first issue since the clear
  stalled, flags,              \* handshakes refused last cycle; sticky flags
  wr, full, rdSeen, mem        \* write side of the event FIFO

coolVars == <<conf, clearing, clrAddr, pendingStart, running, runStart,
              counters, hist, snap, rd, empty, wrSeen>>
hotVars == <<clearHot, startHot, ts, first, stalled, flags, wr, full, rdSeen, mem>>

NoCounts == [done |-> 0, passes |-> 0, span |-> <<None, None>>, lats |-> {}]

SbInit ==
  /\ conf = [n |-> 0, loop |-> FALSE]
  /\ clearing = FALSE /\ clrAddr = 0 /\ pendingStart = FALSE /\ running = FALSE
  /\ runStart = FALSE
  /\ counters = NoCounts /\ snap = NoCounts
  /\ hist = [b \in 0..HistEntries - 1 |-> 0]
  /\ rd = 0 /\ empty = TRUE /\ wrSeen = <<0, 0>>
  /\ clearHot = <<FALSE, FALSE>> /\ startHot = <<FALSE, FALSE, FALSE>>
  /\ ts = <<>> /\ first = None /\ stalled = {} /\ flags = {}
  /\ wr = 0 /\ full = FALSE /\ rdSeen = <<0, 0>>
  /\ mem = [k \in 0..FifoDepth - 1 |-> None]
-------------------------------------------------------------------------------
(* The hot domain.  i is the record whose issue is offered in this cycle   *)
(* and r the one whose retire is, None if there is none.                   *)

ClearSeen == clearHot[2]
StartSeen == startHot[2] # startHot[3]

\* The two synchronizers: a level, and a pulse carried as a toggle.
Synchronize ==
  /\ clearHot' = <<clearing, clearHot[1]>>
  /\ startHot' = <<runStart, startHot[1], startHot[2]>>

IssueReady == Len(ts) < MaxInflight
ResReady == ~full

\* In-order pairing: a retire takes the oldest issue that is waiting.
Paired == IF ts = <<>> THEN None ELSE Head(ts)

Event(r) == [issue |-> Paired, retire |-> r, first |-> first]

FrontEnd(i, r) ==
  LET issued == i # None /\ IssueReady
      retired == r # None /\ ResReady
      rest == IF retired /\ ts # <<>> THEN Tail(ts) ELSE ts
  IN /\ ts' = IF ClearSeen THEN <<>>
              ELSE IF issued THEN Append(rest, i) ELSE rest
     /\ first' = IF ClearSeen THEN None
                 ELSE IF issued /\ first = None THEN i ELSE first
     /\ stalled' = IF ClearSeen THEN {}
                   ELSE {x \in {"issue"} : i # None /\ ~IssueReady}
                        \cup {x \in {"retire"} : r # None /\ ~ResReady}
     /\ flags' = IF ClearSeen THEN {}
                 ELSE flags
                      \cup {x \in {"issue_ovf"} : "issue" \in stalled /\ i = None}
                      \cup {x \in {"ev_drop"} : "retire" \in stalled /\ r = None}
                      \cup {x \in {"ts_underflow"} : retired /\ ts = <<>>}

\* The write side of async_fifo, with its reset.
WriteSide(r) ==
  LET puts == r # None /\ ResReady
      next == (wr + (IF puts /\ ~full THEN 1 ELSE 0)) % (2 * FifoDepth)
  IN /\ wr' = IF ClearSeen THEN 0 ELSE next
     /\ full' = (~ClearSeen /\ (next - rdSeen[2]) % (2 * FifoDepth) = FifoDepth)
     /\ rdSeen' = IF ClearSeen THEN <<0, 0>> ELSE <<rd, rdSeen[1]>>
     /\ mem' = IF puts /\ ~full THEN [mem EXCEPT ![wr % FifoDepth] = Event(r)]
               ELSE mem

HotEdge(i, r) ==
  /\ Synchronize
  /\ FrontEnd(i, r)
  /\ WriteSide(r)
  /\ UNCHANGED coolVars
-------------------------------------------------------------------------------
(* The cool domain.  op is the register access of this cycle, if any.      *)

Meets_Binary(p, q) == p % FifoDepth = q % FifoDepth
Meets(p, q) == p = q

\* The read side of async_fifo, one event taken whenever there is one.
ReadSide ==
  LET next == (rd + (IF empty THEN 0 ELSE 1)) % (2 * FifoDepth)
  IN /\ rd' = IF clearing THEN 0 ELSE next
     /\ empty' = (clearing \/ Meets(next, wrSeen[2]))
     /\ wrSeen' = IF clearing THEN <<0, 0>> ELSE <<wr, wrSeen[1]>>

\* What the counters are after an event.
Counted(e) ==
  [done |-> counters.done + 1,
   passes |-> counters.passes + (IF Matches(e.retire) THEN 1 ELSE 0),
   span |-> <<e.first, e.retire>>,
   lats |-> counters.lats \cup {<<e.issue, e.retire>>}]

\* Counters and histogram.  A clear zeroes one bucket in a cycle.
Accumulate ==
  LET e == mem[rd % FifoDepth]
  IN /\ counters' = IF clearing THEN NoCounts
                    ELSE IF empty THEN counters ELSE Counted(e)
     /\ hist' = IF clearing THEN [hist EXCEPT ![clrAddr] = 0]
                ELSE IF empty THEN hist ELSE [hist EXCEPT ![Bucket(e.retire)] = @ + 1]

DoneFlag == ~conf.loop /\ conf.n # 0 /\ counters.done >= conf.n

LastClear_Early == clrAddr = HistEntries \div 2
LastClear == clrAddr = HistEntries - 1

\* The clear/run FSM.
ClearFsm(op) ==
  IF op.kind \in {"start", "softReset"} /\ ~clearing
  THEN /\ clearing' = TRUE /\ clrAddr' = 0 /\ pendingStart' = (op.kind = "start")
       /\ UNCHANGED <<running, runStart>>
  ELSE IF clearing
  THEN /\ clearing' = ~LastClear
       /\ clrAddr' = IF LastClear THEN clrAddr ELSE clrAddr + 1
       /\ running' = (running \/ (LastClear /\ pendingStart))
       /\ runStart' = (runStart # (LastClear /\ pendingStart))
       /\ UNCHANGED pendingStart
  ELSE /\ running' = (running /\ ~DoneFlag)
       /\ UNCHANGED <<clearing, clrAddr, pendingStart, runStart>>

\* Register writes: configuration, and LOOP_EN with every write of CTRL.
Registers(op) ==
  conf' = CASE op.kind = "configure" -> [conf EXCEPT !.n = op.n]
            [] op.kind = "start" -> [conf EXCEPT !.loop = op.loop]
            [] op.kind = "softReset" -> [conf EXCEPT !.loop = FALSE]
            [] OTHER -> conf

\* The read of CYCLES_LO latches all the counters.
Snapshot_SpanOnly(op) ==
  snap' = IF op.kind = "latch" THEN [snap EXCEPT !.span = counters.span]
          ELSE [counters EXCEPT !.span = snap.span]
Snapshot(op) == snap' = IF op.kind = "latch" THEN counters ELSE snap

CoolEdge(op) ==
  /\ ReadSide
  /\ Accumulate
  /\ ClearFsm(op)
  /\ Registers(op)
  /\ Snapshot(op)
  /\ UNCHANGED hotVars
-------------------------------------------------------------------------------
\* Events in the FIFO, from the pointers themselves.
InFifo == (wr - rd) % (2 * FifoDepth)
===============================================================================
