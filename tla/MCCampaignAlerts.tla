-------------------------- MODULE MCCampaignAlerts --------------------------
(* A small instance of CampaignAlerts for TLC: a training job t and an     *)
(* evaluation e.                                                           *)
EXTENDS CampaignAlerts, TLC

CONSTANTS t, e

=============================================================================
