---------------------------- MODULE MCNodeHealth ----------------------------
(* Small instances of NodeHealth for TLC.                                  *)
EXTENDS NodeHealth, TLC

\* The rounds of retries start 0, 3 and 5 seconds after the first failure.
ThreeRounds == <<0, 3, 5>>

\* Boot ids are compared only with each other.
BootSymmetry == Permutations(Boots)
=============================================================================
