----------------------------- MODULE RecordFramer -----------------------------
(***************************************************************************)
(* rtl/replay/record_framer.sv: the Avalon-MM read master that fetches the *)
(* records of the store burst by burst and routes each word by position to *)
(* the record buffer, to the label FIFO, or nowhere.  One action is one    *)
(* clock cycle in one state of its FSM.  A memory word is represented by   *)
(* its address.                                                            *)
(*                                                                         *)
(* A definition whose name ends in _X is the definition before the         *)
(* underscore with the slip X; no action uses it.                          *)
(***************************************************************************)
EXTENDS Integers, Sequences

CONSTANTS
  Configs,     \* the register settings to run with
  MaxBurst,    \* MAX_BURST
  GuardLimit,  \* guard_word_lim: the first word of the log reserve
  AddrMod,     \* 2^23, the width of an address
  CountMod     \* 2^32, the width of the store-end arithmetic

ASSUME FramerAssumption ==
  /\ Configs \subseteq [base : Nat, stride : Nat \ {0}, nwords : Nat \ {0},
                        n : Nat, loop : BOOLEAN]
  /\ \A c \in Configs : c.nwords < c.stride
  /\ MaxBurst \in Nat \ {0}
  /\ GuardLimit \in Nat
  /\ AddrMod \in Nat \ {0}
  /\ CountMod \in Nat \ {0}

VARIABLES
  conf,        \* rec_base, rec_stride_w, rec_nwords, n_records, loop_en
  st,          \* the FSM
  recIdx,      \* rec_idx
  curAddr,     \* cur_addr
  wordIdx,     \* word_idx
  wordsLeft,   \* words_left
  burstRem,    \* burst_rem
  errOverrun,  \* err_overrun
  av,          \* the registered read command
  pulses,      \* which of fw_start, fw_we, fw_commit, lbl_push, issue_valid
  data,        \* fw_data and lbl_data: the word that came last
  resp         \* the memory: the words it still owes the accepted command

framerVars == <<conf, st, recIdx, curAddr, wordIdx, wordsLeft, burstRem,
                errOverrun, av, pulses, data, resp>>

ThisBurst == IF wordsLeft > MaxBurst THEN MaxBurst ELSE wordsLeft

StoreEnd == (conf.base + conf.n * conf.stride) % CountMod

FramerInit ==
  /\ conf \in Configs
  /\ st = "IDLE"
  /\ recIdx = 0
  /\ curAddr = 0
  /\ wordIdx = 0
  /\ wordsLeft = 0
  /\ burstRem = 0
  /\ errOverrun = FALSE
  /\ av = [read |-> FALSE, address |-> 0, count |-> 0]
  /\ pulses = {}
  /\ data = 0
  /\ resp = [next |-> 0, left |-> 0]

\* IDLE: a start is refused if the store would reach into the log reserve.
Idle ==
  /\ st = "IDLE"
  /\ \/ UNCHANGED <<st, recIdx, curAddr, errOverrun>>
     \/ /\ StoreEnd > GuardLimit
        /\ errOverrun' = TRUE
        /\ UNCHANGED <<st, recIdx, curAddr>>
     \/ /\ StoreEnd <= GuardLimit
        /\ errOverrun' = FALSE
        /\ recIdx' = 0
        /\ curAddr' = conf.base
        /\ st' = "REC"
  /\ pulses' = {}
  /\ UNCHANGED <<conf, wordIdx, wordsLeft, burstRem, av, data, resp>>

\* REC: the next record starts as soon as the buffer can take one.
Rec(fillReady) ==
  /\ st = "REC"
  /\ IF fillReady
     THEN /\ pulses' = {"start", "issue"}
          /\ wordIdx' = 0
          /\ wordsLeft' = conf.stride
          /\ st' = "REQ"
     ELSE /\ pulses' = {}
          /\ UNCHANGED <<wordIdx, wordsLeft, st>>
  /\ UNCHANGED <<conf, recIdx, curAddr, burstRem, errOverrun, av, data, resp>>

\* REQ: the command is raised once the buffer has room, and held until the
\* memory takes it.
Req(burstOk) ==
  /\ st = "REQ"
  /\ pulses' = {}
  /\ LET command == IF burstOk
                    THEN [read |-> TRUE, address |-> curAddr, count |-> ThisBurst]
                    ELSE av
     IN \/ /\ av' = command
           /\ UNCHANGED <<st, burstRem, resp>>
        \/ /\ av.read
           /\ av' = [command EXCEPT !.read = FALSE]
           /\ burstRem' = ThisBurst
           /\ st' = "RECV"
           /\ resp' = [next |-> av.address, left |-> av.count]
  /\ UNCHANGED <<conf, recIdx, curAddr, wordIdx, wordsLeft, errOverrun, data>>

\* Where a word goes, by its position in the record.
Route_PadToo(k) == IF k < conf.nwords THEN {"we"} ELSE {"push"}
Route(k) ==
  IF k < conf.nwords THEN {"we"} ELSE IF k = conf.nwords THEN {"push"} ELSE {}

LastOfRecord_OffByOne == burstRem = 1 /\ wordsLeft = 0
LastOfRecord == burstRem = 1 /\ wordsLeft = 1

\* RECV: a cycle without a word.
RecvWait ==
  /\ st = "RECV"
  /\ pulses' = {}
  /\ UNCHANGED <<conf, st, recIdx, curAddr, wordIdx, wordsLeft, burstRem,
                 errOverrun, av, data, resp>>

\* RECV: the memory returns a word.
RecvWord ==
  /\ st = "RECV"
  /\ resp.left > 0
  /\ resp' = [next |-> (resp.next + 1) % AddrMod, left |-> resp.left - 1]
  /\ data' = resp.next
  /\ wordIdx' = wordIdx + 1
  /\ wordsLeft' = wordsLeft - 1
  /\ curAddr' = (curAddr + 1) % AddrMod
  /\ burstRem' = burstRem - 1
  /\ pulses' = Route(wordIdx) \cup IF LastOfRecord THEN {"commit"} ELSE {}
  /\ st' = IF LastOfRecord THEN "NEXTR" ELSE IF burstRem = 1 THEN "REQ" ELSE "RECV"
  /\ UNCHANGED <<conf, recIdx, errOverrun, av>>

\* NEXTR: the records lie one behind the other, a loop begins at the base.
NextRec ==
  /\ st = "NEXTR"
  /\ pulses' = {}
  /\ IF (recIdx + 1) % CountMod = conf.n
     THEN IF conf.loop
          THEN recIdx' = 0 /\ curAddr' = conf.base /\ st' = "REC"
          ELSE st' = "FINISH" /\ UNCHANGED <<recIdx, curAddr>>
     ELSE /\ recIdx' = (recIdx + 1) % CountMod
          /\ st' = "REC"
          /\ UNCHANGED curAddr
  /\ UNCHANGED <<conf, wordIdx, wordsLeft, burstRem, errOverrun, av, data, resp>>

\* FINISH: a start only re-arms the framer.
Finish ==
  /\ st = "FINISH"
  /\ pulses' = {}
  /\ st' \in {"FINISH", "IDLE"}
  /\ UNCHANGED <<conf, recIdx, curAddr, wordIdx, wordsLeft, burstRem, errOverrun,
                 av, data, resp>>

Framer(fillReady, burstOk) ==
  \/ Idle \/ Rec(fillReady) \/ Req(burstOk) \/ RecvWait \/ RecvWord \/ NextRec
  \/ Finish

===============================================================================
