------------------------------ MODULE HyperBridge ------------------------------
(***************************************************************************)
(* rtl/hyperbus/axi4_hbmc_bridge.sv: one AXI transaction after the other   *)
(* on a memory that takes a beat word by word, with one beat of buffer in  *)
(* which the partial writes of a host are combined.  A step is a transfer  *)
(* on one of the buses; between two of them either side may wait.          *)
(*                                                                         *)
(* The word is the unit of the strobes (a 32-bit host write covers two).   *)
(* Not in the model: the IDs and status flags, which nothing here reads,   *)
(* and cstrb, which is collected and never used.                           *)
(*                                                                         *)
(* A definition whose name ends in _X is the definition before the         *)
(* underscore with the slip X; no action uses it.                          *)
(***************************************************************************)
EXTENDS Integers

CONSTANTS
  NBeats,   \* beats in the decoded window: higher addresses wrap
  NWords,   \* WORDS_PER_BEAT
  Values, Zero,   \* what a word may be
  MaxLen,   \* the largest AxLEN
  None

Beat == 0..NBeats - 1
Word == 0..NWords - 1
Line == [Word -> Values]

ASSUME BridgeAssumption ==
  /\ NBeats \in Nat \ {0} /\ NWords \in Nat \ {0} /\ MaxLen \in Nat
  /\ Zero \in Values /\ None \notin Beat /\ None \notin Line
  /\ \A op \in {"read", "write"}, b \in Beat, n \in 0..MaxLen :
       None # [op |-> op, beat |-> b, left |-> n]

VARIABLES
  state,             \* the FSM
  wordAddr,          \* word_addr, as the beat it is in
  len, beatCnt,      \* awlen_r or arlen_r, and the beats done
  index,             \* wword_idx or rword_idx
  chas, cbaddr, cbuf,\* the combine buffer: whether it holds a beat, which, what
  afterFlush,        \* what to do when the buffer is flushed
  wbeat, wstrb,      \* the write beat that was taken last
  rbeat,             \* the read beat
  stored             \* external: the HyperRAM

bufferRegs == <<chas, cbaddr, cbuf>>
bridgeVars == <<state, wordAddr, len, beatCnt, index, bufferRegs, afterFlush, wbeat, wstrb, rbeat, stored>>

LastWord == index = NWords - 1
NextBeat == (wordAddr + 1) % NBeats

\* Where a strobe is not set: what was there, or zero in a fresh buffer.
Masked(s, d, below) == [w \in Word |-> IF w \in s THEN d[w] ELSE below[w]]
Zeros == [w \in Word |-> Zero]

BridgeInit ==
  /\ state = "IDLE" /\ afterFlush = "NONE" /\ chas = FALSE
  /\ wordAddr = 0 /\ beatCnt = 0 /\ index = 0
  /\ len \in 0..MaxLen /\ cbaddr \in Beat /\ cbuf \in Line
  /\ wbeat \in Line /\ wstrb \in SUBSET Word /\ rbeat \in Line
  /\ stored \in [Beat -> Line]

(***************************************************************************)
(* IDLE takes one transaction; a read that finds a buffered beat has it    *)
(* written first.                                                          *)
(***************************************************************************)
Flush(then) == state' = "W_FLUSH" /\ afterFlush' = then /\ index' = 0

AcceptWrite ==
  /\ state = "IDLE"
  /\ wordAddr' \in Beat /\ len' \in 0..MaxLen /\ beatCnt' = 0
  /\ state' = "W_DATA"
  /\ UNCHANGED <<index, bufferRegs, afterFlush, wbeat, wstrb, rbeat, stored>>

FlushBeforeRead_Never == FALSE
FlushBeforeRead == chas
AcceptRead ==
  /\ state = "IDLE"
  /\ wordAddr' \in Beat /\ len' \in 0..MaxLen /\ beatCnt' = 0
  /\ IF FlushBeforeRead THEN Flush("READ")
     ELSE state' = "R_XFER" /\ UNCHANGED <<index, afterFlush>>
  /\ UNCHANGED <<bufferRegs, wbeat, wstrb, rbeat, stored>>

(***************************************************************************)
(* W_DATA: a full beat goes through, a partial one into the buffer; a      *)
(* buffered beat of another address goes first.                            *)
(***************************************************************************)
Superseded_Kept == chas
Superseded == FALSE   \* chas <= 0: a full write replaces the buffered beat
TakeFull ==
  /\ state = "W_DATA"
  /\ wbeat' \in Line /\ wstrb' = Word
  /\ IF chas /\ cbaddr # wordAddr
     THEN Flush("FULL") /\ UNCHANGED bufferRegs
     ELSE /\ chas' = Superseded /\ index' = 0 /\ state' = "W_XFER"
          /\ UNCHANGED <<cbaddr, cbuf, afterFlush>>
  /\ UNCHANGED <<wordAddr, len, beatCnt, rbeat, stored>>

LoadBuffer(s, d) ==
  chas' = TRUE /\ cbaddr' = wordAddr /\ cbuf' = Masked(s, d, Zeros) /\ state' = "W_RESP"

TakePartial(s, d) ==
  /\ state = "W_DATA"
  /\ wbeat' = d /\ wstrb' = s
  /\ \/ /\ chas /\ cbaddr = wordAddr
        /\ cbuf' = Masked(s, d, cbuf)
        /\ state' = "W_RESP"
        /\ UNCHANGED <<chas, cbaddr, afterFlush, index>>
     \/ ~chas /\ LoadBuffer(s, d) /\ UNCHANGED <<afterFlush, index>>
     \/ chas /\ cbaddr # wordAddr /\ Flush("LOAD") /\ UNCHANGED bufferRegs
  /\ UNCHANGED <<wordAddr, len, beatCnt, rbeat, stored>>

\* A word of the beat at b goes to the memory.
WriteWord(b, line) == stored' = [stored EXCEPT ![b][index] = line[index]]

FlushWord ==
  /\ state = "W_FLUSH"
  /\ WriteWord(cbaddr, cbuf)
  /\ IF ~LastWord
     THEN index' = index + 1 /\ UNCHANGED <<state, bufferRegs, afterFlush>>
     ELSE /\ afterFlush' = "NONE"
          /\ \/ afterFlush = "LOAD" /\ LoadBuffer(wstrb, wbeat) /\ UNCHANGED index
             \/ /\ afterFlush = "FULL" /\ state' = "W_XFER" /\ index' = 0
                /\ chas' = FALSE /\ UNCHANGED <<cbaddr, cbuf>>
             \/ /\ afterFlush = "READ" /\ state' = "R_XFER"
                /\ chas' = FALSE /\ UNCHANGED <<cbaddr, cbuf, index>>
  /\ UNCHANGED <<wordAddr, len, beatCnt, wbeat, wstrb, rbeat>>

XferWord ==
  /\ state = "W_XFER"
  /\ WriteWord(wordAddr, wbeat)
  /\ IF ~LastWord
     THEN index' = index + 1 /\ UNCHANGED <<state, wordAddr, beatCnt>>
     ELSE /\ wordAddr' = NextBeat
          /\ IF beatCnt = len THEN state' = "W_RESP" /\ UNCHANGED beatCnt
             ELSE state' = "W_DATA" /\ beatCnt' = beatCnt + 1
          /\ UNCHANGED index
  /\ UNCHANGED <<len, bufferRegs, afterFlush, wbeat, wstrb, rbeat>>

WriteResp ==
  /\ state = "W_RESP" /\ state' = "IDLE"
  /\ UNCHANGED <<wordAddr, len, beatCnt, index, bufferRegs, afterFlush, wbeat, wstrb, rbeat, stored>>

ReadCommand ==
  /\ state = "R_XFER" /\ state' = "R_COLLECT" /\ index' = 0
  /\ UNCHANGED <<wordAddr, len, beatCnt, bufferRegs, afterFlush, wbeat, wstrb, rbeat, stored>>

ReadWord ==
  /\ state = "R_COLLECT"
  /\ rbeat' = [rbeat EXCEPT ![index] = stored[wordAddr][index]]
  /\ IF LastWord THEN state' = "R_RESP" /\ UNCHANGED index
     ELSE index' = index + 1 /\ UNCHANGED state
  /\ UNCHANGED <<wordAddr, len, beatCnt, bufferRegs, afterFlush, wbeat, wstrb, stored>>

ReadResp ==
  /\ state = "R_RESP"
  /\ wordAddr' = NextBeat
  /\ IF beatCnt = len THEN state' = "IDLE" /\ UNCHANGED beatCnt
     ELSE state' = "R_XFER" /\ beatCnt' = beatCnt + 1
  /\ UNCHANGED <<len, index, bufferRegs, afterFlush, wbeat, wstrb, rbeat, stored>>

\* The master: bursts are of full beats, a partial beat comes alone.
MasterPartial == len = 0 /\ \E s \in (SUBSET Word) \ {Word}, d \in Line : TakePartial(s, d)

BridgeNext ==
  \/ AcceptWrite \/ AcceptRead
  \/ TakeFull \/ MasterPartial
  \/ FlushWord \/ XferWord \/ WriteResp
  \/ ReadCommand \/ ReadWord \/ ReadResp

BridgeSpec == BridgeInit /\ [][BridgeNext]_bridgeVars
-------------------------------------------------------------------------------
\* What the beats hold for the masters: what is on its way counts as written.
Held == [b \in Beat |->
  IF b = wordAddr /\ (state = "W_XFER" \/ (state = "W_FLUSH" /\ afterFlush = "FULL")) THEN wbeat
  ELSE IF b = wordAddr /\ state = "W_FLUSH" /\ afterFlush = "LOAD" THEN Masked(wstrb, wbeat, Zeros)
  ELSE IF chas /\ b = cbaddr THEN cbuf
  ELSE stored[b]]

\* The rest of the burst, as the masters see it.
Burst(op, beat, done) ==
  IF done > len THEN None ELSE [op |-> op, beat |-> beat, left |-> len - done]
Serving ==
  IF state = "W_DATA" THEN Burst("write", wordAddr, beatCnt)
  ELSE IF state = "W_XFER" \/ (state = "W_FLUSH" /\ afterFlush = "FULL")
    THEN Burst("write", NextBeat, beatCnt + 1)
  ELSE IF state \in {"R_XFER", "R_COLLECT"} \/ (state = "W_FLUSH" /\ afterFlush = "READ")
    THEN Burst("read", wordAddr, beatCnt)
  ELSE IF state = "R_RESP" THEN Burst("read", NextBeat, beatCnt + 1)
  ELSE None

\* The beat whose partial writes are being collected.
Collecting ==
  IF state = "W_FLUSH" THEN (IF afterFlush = "LOAD" THEN wordAddr ELSE None)
  ELSE IF chas THEN cbaddr ELSE None

Answering == IF state = "R_RESP" THEN rbeat ELSE None

Memory == INSTANCE BeatMemory WITH
  Data <- Values, held <- Held, burst <- Serving, open <- Collecting, answer <- Answering

\* "Read-your-writes": the bridge is a memory, although a beat may wait in the
\* buffer while others overtake it and each goes to the HyperRAM word by word.
ImplementsMemory == Memory!Spec
===============================================================================
