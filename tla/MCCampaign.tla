------------------------------ MODULE MCCampaign ------------------------------
(* Instances of Campaign for TLC. *)
EXTENDS Campaign

\* A sparse set of images, as after a resume: a run of three and one of two.
SparseImages == {0, 1, 2, 4, 5}
===============================================================================
