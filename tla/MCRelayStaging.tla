--------------------------- MODULE MCRelayStaging ---------------------------
(* Small instances of RelayStaging for TLC.                                *)
EXTENDS RelayStaging, TLC

CONSTANTS c1, c2, d1, d2, n1, n2

Both     == [c \in Consumers |-> Deps]
OneShared == [c \in Consumers |-> IF c = c1 THEN Deps ELSE {d1}]
OwnNodes == [d \in Deps |-> IF d = d1 THEN n1 ELSE n2]

=============================================================================
