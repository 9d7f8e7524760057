-------------------------- MODULE MCReplayCutThrough --------------------------
(* Records of six words and a label through a FIFO of four: the third burst  *)
(* of a record has two tensor words.                                        *)
EXTENDS ReplayCutThrough
LongConfigs == {[base |-> 0, stride |-> 7, nwords |-> 6, n |-> 2, loop |-> FALSE]}
===============================================================================
