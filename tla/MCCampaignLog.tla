---------------------------- MODULE MCCampaignLog ----------------------------
(* Instances of CampaignLog for TLC. *)
EXTENDS CampaignLog

ThreeImages == {0, 1, 2}
==============================================================================
