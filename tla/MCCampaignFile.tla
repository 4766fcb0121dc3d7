--------------------------- MODULE MCCampaignFile ---------------------------
(* Instances of CampaignFile for TLC. *)
EXTENDS CampaignFile

MCShards == {<<1, 1>>, <<2, 2>>}
MCWhole == {<<1, 1>>}
=============================================================================
