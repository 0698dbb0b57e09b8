------------------------- MODULE MCAttemptLifecycle -------------------------
(* Small instances of AttemptLifecycle for TLC.                            *)
EXTENDS AttemptLifecycle, TLC

CONSTANTS j1, j2

\* One attempt per job, or two, before failover or operator grants.
OneEach == [j \in Jobs |-> 1]
TwoEach == [j \in Jobs |-> 2]

\* No dependencies, or the second job depends on the first.
Independent == [j \in Jobs |-> {}]
Chain       == [j \in Jobs |-> IF j = j2 THEN {j1} ELSE {}]

\* Attempt ids and nodes are interchangeable.
Symmetry == Permutations(Attempts) \cup Permutations(Nodes)

=============================================================================
