------------------------- MODULE MCHostPreparation -------------------------
(* A small instance of HostPreparation for TLC.                            *)
EXTENDS HostPreparation, TLC

CONSTANTS a, b

TwoHosts == <<a, b>>

=============================================================================
