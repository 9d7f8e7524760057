------------------------------- MODULE ReplayTop -------------------------------
(***************************************************************************)
(* rtl/replay/replay_top.sv without the record buffer: the framer, the     *)
(* label FIFO (rtl/common/sync_fifo.sv), and the engine as the testbench   *)
(* drives it, which takes words while it has room and retires the records  *)
(* in order, popping one label for each.  ReplayPingPong and               *)
(* ReplayCutThrough add the two record buffers.                            *)
(***************************************************************************)
EXTENDS RecordFramer

CONSTANTS
  LabelDepth,   \* 2**LBL_AW
  EngineDepth   \* bound: records the engine holds

ASSUME TopAssumption == LabelDepth \in Nat /\ EngineDepth \in Nat \ {0}

VARIABLES
  lbl,          \* the label FIFO
  lblOverflow,  \* lbl_overflow
  inEngine,     \* records taken to their last word and not retired
  want,         \* history: the word the engine is to get next
  owed          \* history: the record it is to retire next

topVars == <<lbl, lblOverflow, inEngine, want, owed>>

TopInit ==
  /\ FramerInit
  /\ lbl = <<>>
  /\ lblOverflow = FALSE
  /\ inEngine = 0
  /\ want = [rec |-> 0, idx |-> 0]
  /\ owed = 0

NextRecord(r) == IF r + 1 = conf.n THEN 0 ELSE r + 1
WordAt(r, k) == (conf.base + r * conf.stride + k) % AddrMod
CanTake(engValid) == engValid /\ inEngine < EngineDepth
CanRetire == inEngine > 0 /\ lbl # <<>>

\* A label pushed into a full FIFO is lost, even if one is popped that cycle.
LabelFifo(retire) ==
  LET full == Len(lbl) = LabelDepth
      push == "push" \in pulses
      kept == IF retire THEN Tail(lbl) ELSE lbl
  IN /\ lbl' = IF push /\ ~full THEN Append(kept, data) ELSE kept
     /\ lblOverflow' = (lblOverflow \/ (push /\ full))

Engine(take, last, retire) ==
  /\ inEngine' = inEngine + (IF take /\ last THEN 1 ELSE 0)
                          - (IF retire THEN 1 ELSE 0)
  /\ want' = IF ~take THEN want
             ELSE IF want.idx + 1 = conf.nwords
                  THEN [rec |-> NextRecord(want.rec), idx |-> 0]
                  ELSE [want EXCEPT !.idx = @ + 1]
  /\ owed' = IF retire THEN NextRecord(owed) ELSE owed

\* The label FIFO holds the labels of the records the engine has still to
\* retire, in order and without a gap: the k-th retirement is compared with the
\* k-th label (replay_top.sv: "golden-label stream").  It must be two deeper
\* than the engine, whose depth the comment on LBL_AW (line 17) asks for.
LabelsMatchRecords ==
  /\ ~lblOverflow
  /\ \A k \in DOMAIN lbl :
       lbl[k] = WordAt((owed + k - 1) % conf.n, conf.nwords)

\* A record that is being fetched is retired in the end, behind all that were
\* before it, and the framer comes back for the next one or finishes: framer,
\* buffer and engine never wait for each other for good.
RecordsGetThrough ==
  /\ \A r \in 0..2 :
       (st = "RECV" /\ wordIdx < conf.nwords /\ conf.n > 1 /\ owed = r) ~> owed # r
  /\ st = "RECV" ~> st \in {"REC", "FINISH"}
===============================================================================
