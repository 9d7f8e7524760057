---------------------------- MODULE Microbenchmarks ---------------------------
(* The L0 and the L2 microbenchmark, on bitstreams of their own.             *)
EXTENDS L0Bench, L2Bench

\* What the two microbenchmarks report is what their golden models replay, over
\* runs that were given up and left their core busy (L0RunsAreGolden,
\* L2NumbersAreGolden).
MicrobenchmarksAreGolden == L0RunsAreGolden /\ L2NumbersAreGolden
===============================================================================
