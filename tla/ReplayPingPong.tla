---------------------------- MODULE ReplayPingPong ----------------------------
(***************************************************************************)
(* The replay datapath with rtl/replay/pingpong_buf.sv in its normal mode: *)
(* two buffers, one filled by the framer while the engine drains the       *)
(* other.                                                                  *)
(***************************************************************************)
EXTENDS ReplayTop

CONSTANT BufWords   \* BUF_WORDS

ASSUME BufferAssumption == BufWords \in Nat

VARIABLES
  status,     \* st0, st1
  buf,        \* buf0, buf1
  fillSel, fillPtr,
  drainSel, drainPtr

bufferVars == <<status, buf, fillSel, fillPtr, drainSel, drainPtr>>
vars == <<framerVars, topVars, bufferVars>>

BufferInit ==
  /\ status = [b \in 0..1 |-> "EMPTY"]
  /\ buf = [b \in 0..1 |-> [k \in 0..BufWords - 1 |-> 0]]
  /\ fillSel = 0 /\ fillPtr = 0
  /\ drainSel = 0 /\ drainPtr = 0

\* A record fits a buffer in this mode.
Init == TopInit /\ BufferInit /\ conf.nwords <= BufWords

IsStatus(s) == {b \in 0..1 : status[b] = s}
First(S) == IF 0 \in S THEN 0 ELSE 1
FillReady == IsStatus("EMPTY") # {}

EngValid == IsStatus("DRAINING") # {}
EngData == buf[drainSel][drainPtr]
EngLast == EngValid /\ drainPtr = conf.nwords - 1

\* The fill side: what the framer's pulses do to the buffers.
Fill ==
  LET starts == "start" \in pulses /\ FillReady IN
    /\ fillSel' = IF starts THEN First(IsStatus("EMPTY")) ELSE fillSel
    /\ fillPtr' = IF "we" \in pulses THEN fillPtr + 1
                  ELSE IF starts THEN 0 ELSE fillPtr
    /\ buf' = IF "we" \in pulses THEN [buf EXCEPT ![fillSel][fillPtr] = data] ELSE buf

Filled ==
  [b \in 0..1 |-> IF "commit" \in pulses /\ b = fillSel THEN "FULL"
                  ELSE IF /\ "start" \in pulses
                          /\ FillReady
                          /\ b = First(IsStatus("EMPTY")) THEN "FILLING"
                  ELSE status[b]]

\* The drain side switches to a buffer that is already full.
Begin(s) ==
  /\ drainSel' = First(IsStatus("FULL"))
  /\ drainPtr' = 0
  /\ status' = [s EXCEPT ![First(IsStatus("FULL"))] = "DRAINING"]

DrainIdle ==
  /\ ~EngValid
  /\ IF IsStatus("FULL") # {} THEN Begin(Filled)
     ELSE status' = Filled /\ UNCHANGED <<drainSel, drainPtr>>

DrainStall == EngValid /\ status' = Filled /\ UNCHANGED <<drainSel, drainPtr>>

DrainWord ==
  /\ EngValid /\ ~EngLast
  /\ status' = Filled
  /\ drainPtr' = drainPtr + 1
  /\ UNCHANGED drainSel

\* The last word: the buffer is retired and, if the other is full, drained on
\* from this cycle.
SwitchOnLast == IsStatus("FULL") # {}
DrainLast ==
  /\ EngLast
  /\ LET retired == [Filled EXCEPT ![drainSel] = "EMPTY"] IN
       IF SwitchOnLast THEN Begin(retired)
       ELSE status' = retired /\ UNCHANGED <<drainSel, drainPtr>>

\* One clock cycle.
Tick(framer, take, retire) ==
  /\ framer
  /\ Fill
  /\ IF take THEN DrainWord \/ DrainLast ELSE DrainIdle \/ DrainStall
  /\ LabelFifo(retire)
  /\ Engine(take, EngLast, retire)

Cycle ==
  \E take \in {FALSE} \cup {CanTake(EngValid)}, retire \in {FALSE} \cup {CanRetire} :
    Tick(Framer(FillReady, TRUE), take, retire)

Spec == Init /\ [][Cycle]_vars

(***************************************************************************)
(* The clock runs; the memory takes a held command and returns each word   *)
(* of it some time; the engine takes a word that stays offered and retires *)
(* a record that can be retired.  Nothing is said of start.                *)
(***************************************************************************)
MemoryAnswers ==
  \E retire \in {FALSE} \cup {CanRetire}, take \in {FALSE} \cup {CanTake(EngValid)} :
    Tick(RecvWord \/ (Req(TRUE) /\ st' = "RECV"), take, retire)
EngineTakes ==
  \E retire \in {FALSE} \cup {CanRetire} :
    CanTake(EngValid) /\ Tick(Framer(FillReady, TRUE), TRUE, retire)
EngineRetires ==
  \E take \in {FALSE} \cup {CanTake(EngValid)} :
    CanRetire /\ Tick(Framer(FillReady, TRUE), take, TRUE)
FairSpec ==
  /\ Spec
  /\ WF_vars(Cycle) /\ WF_vars(MemoryAnswers) /\ WF_vars(EngineTakes)
  /\ WF_vars(EngineRetires)
-------------------------------------------------------------------------------
\* The engine is given every tensor word of every record once and in order,
\* eng_last with the last of each: neither side overtakes the other.
EngineGetsRecords ==
  EngValid => /\ EngData = WordAt(want.rec, want.idx)
              /\ EngLast <=> want.idx = conf.nwords - 1

\* "Seamless switch: no bubble at a record boundary" (pingpong_buf.sv): when the
\* last word goes and the next record is complete, a word is offered at once.
SeamlessSwitch ==
  [][want'.idx = 0 /\ want' # want /\ IsStatus("FULL") # {} => EngValid']_vars
===============================================================================
