--------------------------- MODULE MCCampaignQueue ---------------------------
(* An instance of CampaignQueue for TLC. *)
EXTENDS CampaignQueue

CONSTANTS c1, c2, c3  \* the campaigns a person may queue

MCCampaigns == {c1, c2, c3}
MCCellsOf == [e \in MCCampaigns |-> IF e = c1 THEN 2 ELSE 1]
MCBooks == {c1, c2}
=============================================================================
