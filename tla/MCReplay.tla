------------------------------- MODULE MCReplay -------------------------------
(* The record path of the RTL: the replay with its buffer in either mode and *)
(* the dual-clock FIFO, each in behaviours of its own.                       *)
EXTENDS ReplayPingPong, AsyncFifo

CONSTANTS CtDepth, CtLabelDepth

ASSUME CutAssumption == CtDepth \in Nat

VARIABLES
  mode,                                 \* which of the three
  words, remain, active, dropped, tight \* the buffer in cut-through mode

cutVars == <<words, remain, active, dropped, tight>>
allVars == <<mode, vars, cutVars, fifoVars>>

-----------------------------------------------------------------------------
(* A memory of 16 words whose last two are the log reserve: two settings    *)
(* that fit, one of them looping, and one that does not; and records of     *)
(* five and of six words, too long for the buffers, through a FIFO of four: *)
(* the third burst has one tensor word and the label, or two tensor words.  *)
MCConfigs ==
  {[base |-> 1, stride |-> 4, nwords |-> 3, n |-> 3, loop |-> FALSE],
   [base |-> 2, stride |-> 5, nwords |-> 3, n |-> 2, loop |-> TRUE],
   [base |-> 3, stride |-> 4, nwords |-> 3, n |-> 3, loop |-> FALSE]}
    \cup {[base |-> 1, stride |-> 6, nwords |-> 5, n |-> 2, loop |-> l] : l \in BOOLEAN}
    \cup {[base |-> 0, stride |-> 7, nwords |-> 6, n |-> 2, loop |-> l] : l \in BOOLEAN}

Cut == INSTANCE ReplayCutThrough WITH LabelDepth <- CtLabelDepth, fifo <- words

-----------------------------------------------------------------------------
RestingCut ==
  words = <<>> /\ remain = 0 /\ active = FALSE /\ dropped = FALSE /\ tight = FALSE
RestingReplay == TopInit /\ BufferInit /\ conf = CHOOSE c \in Configs : TRUE
RestingFifo == FifoInit /\ mem = [k \in 0..Depth - 1 |-> 0] /\ out = 0

ReplayInit ==
  \/ mode = "pingpong" /\ Init /\ RestingCut /\ RestingFifo
  \/ mode = "cut" /\ Cut!Init /\ BufferInit /\ RestingFifo
  \/ mode = "fifo" /\ FifoInit /\ RestingReplay /\ RestingCut

PingPong(A) == mode = "pingpong" /\ A /\ UNCHANGED <<mode, cutVars, fifoVars>>
CutThrough(A) == mode = "cut" /\ A /\ UNCHANGED <<mode, bufferVars, fifoVars>>
Fifo(A) == mode = "fifo" /\ A /\ UNCHANGED <<mode, vars, cutVars>>

ReplaySpec ==
  /\ ReplayInit
  /\ [][PingPong(Cycle) \/ CutThrough(Cut!Cycle) \/ Fifo(FifoNext)]_allVars
  /\ WF_allVars(PingPong(Cycle)) /\ WF_allVars(PingPong(MemoryAnswers))
  /\ WF_allVars(PingPong(EngineTakes)) /\ WF_allVars(PingPong(EngineRetires))
  /\ WF_allVars(CutThrough(Cut!Cycle)) /\ WF_allVars(CutThrough(Cut!MemoryAnswers))
  /\ WF_allVars(CutThrough(Cut!EngineTakes)) /\ WF_allVars(CutThrough(Cut!EngineRetires))
  /\ WF_allVars(Fifo(WriteClock)) /\ WF_allVars(Fifo(ReadClock)) /\ WF_allVars(Fifo(Reads))

-----------------------------------------------------------------------------
\* Records get through the framer, the buffers and the engine, and words through
\* the dual-clock FIFO: nobody waits for somebody else for good, unless the FIFO
\* of the cut-through mode has dropped a word.
TrafficGetsThrough ==
  /\ <>dropped \/ RecordsGetThrough
  /\ WordsGetThrough

\* In both modes the engine is given the tensor words of the records in order,
\* each once and with eng_last on the last (EngineGetsRecords of each module).
\* In cut-through mode this is so until a word is dropped, which takes a burst
\* that was asked for one place short, and then no record is given as whole.
EngineGetsItsWords ==
  /\ mode = "pingpong" => EngineGetsRecords
  /\ mode = "cut" => /\ Cut!LossIsTight
                     /\ ~dropped => Cut!EngineGetsRecords
===============================================================================
