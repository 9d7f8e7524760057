--------------------------- MODULE ReplayCutThrough ---------------------------
(***************************************************************************)
(* The replay datapath with rtl/replay/pingpong_buf.sv in cut-through      *)
(* mode: one streaming FIFO for records larger than the buffers.  The      *)
(* framer asks for a burst only while the FIFO has room for one.           *)
(***************************************************************************)
EXTENDS ReplayTop

CONSTANT CtDepth   \* CT_DEPTH, at least MaxBurst

VARIABLES
  fifo,    \* the words between rptr and wptr
  remain,  \* remain: words of the record the engine has still to get
  active,  \* active: a record is in flight
  dropped, \* history: has a word met a full FIFO?
  tight    \* history: has a burst been asked for one place short?

vars == <<framerVars, topVars, fifo, remain, active, dropped, tight>>

Init ==
  /\ TopInit
  /\ fifo = <<>>
  /\ remain = 0
  /\ active = FALSE
  /\ dropped = FALSE
  /\ tight = FALSE

FillReady == ~active
BurstOk_AnyRoom == Len(fifo) < CtDepth
BurstOk == CtDepth - Len(fifo) >= MaxBurst
EngValid == active /\ fifo # <<>>
EngData == Head(fifo)
EngLast == EngValid /\ remain = 1

\* The framer asks for a burst of tensor words that needs every free place while
\* the last word of the burst before is on its way to one of them.
OnePlaceShort ==
  /\ st = "REQ"
  /\ "we" \in pulses
  /\ CtDepth - Len(fifo) = MaxBurst
  /\ wordIdx + MaxBurst <= conf.nwords

Released(take) == take /\ EngLast

FwLen == conf.nwords

FifoTick(take) ==
  LET full == Len(fifo) = CtDepth
      kept == IF take THEN Tail(fifo) ELSE fifo
  IN /\ fifo' = IF "we" \in pulses /\ ~full THEN Append(kept, data) ELSE kept
     /\ dropped' = (dropped \/ ("we" \in pulses /\ full))
     /\ remain' = IF take THEN remain - 1
                  ELSE IF "start" \in pulses THEN FwLen ELSE remain
     /\ active' = (~Released(take) /\ (active \/ "start" \in pulses))

\* One clock cycle.
Tick(framer, take, retire) ==
  /\ framer
  /\ FifoTick(take)
  /\ LabelFifo(retire)
  /\ Engine(take, EngLast, retire)
  /\ tight' = (tight \/ OnePlaceShort)

Cycle ==
  \E take \in {FALSE} \cup {CanTake(EngValid)}, retire \in {FALSE} \cup {CanRetire} :
    Tick(Framer(FillReady, BurstOk), take, retire)

Spec == Init /\ [][Cycle]_vars

(***************************************************************************)
(* As in ReplayPingPong.                                                   *)
(***************************************************************************)
MemoryAnswers ==
  \E take \in {FALSE} \cup {CanTake(EngValid)}, retire \in {FALSE} \cup {CanRetire} :
    Tick(RecvWord \/ (Req(BurstOk) /\ st' = "RECV"), take, retire)
EngineTakes ==
  \E retire \in {FALSE} \cup {CanRetire} :
    CanTake(EngValid) /\ Tick(Framer(FillReady, BurstOk), TRUE, retire)
EngineRetires ==
  \E take \in {FALSE} \cup {CanTake(EngValid)} :
    CanRetire /\ Tick(Framer(FillReady, BurstOk), take, TRUE)
FairSpec ==
  /\ Spec
  /\ WF_vars(Cycle) /\ WF_vars(MemoryAnswers) /\ WF_vars(EngineTakes)
  /\ WF_vars(EngineRetires)
-------------------------------------------------------------------------------
\* The engine is given the tensor words of the records in order, each once, and
\* eng_last with the last word of a record and no other.
EngineGetsRecords ==
  EngValid => /\ EngData = WordAt(want.rec, want.idx)
              /\ EngLast <=> want.idx = conf.nwords - 1

\* A word meets a full FIFO only if its burst was asked for one place short, and
\* only in a record longer than the FIFO.  A record that has lost a word is never
\* given to the engine as whole: eng_last does not come.
LossIsTight == dropped => tight /\ conf.nwords > CtDepth /\ ~EngLast

\* "A record larger than the FIFO streams without dropping"
\* (rtl/replay/README.md:24): a word never meets a full FIFO.
NoWordDropped == ~dropped
===============================================================================
