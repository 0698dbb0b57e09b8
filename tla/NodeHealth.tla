----------------------------- MODULE NodeHealth -----------------------------
(***************************************************************************)
(* The health of one node as the controller records it: the recovery state *)
(* machine of node_health, the streak of stable polls in its snapshot, and *)
(* the restricted readmission of a drained GPU-quarantined node for the    *)
(* publication of its results.  Times are absolute seconds of the          *)
(* controller's clock.                                                     *)
(***************************************************************************)
EXTENDS Integers, FiniteSets

CONSTANTS
  PerRound,        \* ssh_attempts_per_round (3)
  Rounds,          \* number of retry rounds (4)
  Offsets,         \* [1 .. Rounds -> Nat]: ssh_retry_offsets_s (0, 300, 600, 900)
  CountGap,        \* seconds between two counted polls (2)
  PollGap,         \* max_health_poll_gap_s (120)
  SnapshotAge,     \* max_snapshot_age_s (60)
  Required,        \* stable_polls
  PublicationGap,  \* seconds between publication probes (60)
  Boots,           \* boot ids the node may have
  NoBoot,          \* boot id of a failed probe
  Horizon          \* last moment of the model

ASSUME HealthAssumption ==
  /\ PerRound \in Nat \ {0} /\ Rounds \in Nat \ {0}
  /\ Offsets \in [1 .. Rounds -> Nat]
  /\ Offsets[1] = 0
  /\ \A i, k \in 1 .. Rounds : i < k => Offsets[i] < Offsets[k]
  /\ CountGap \in Nat \ {0} /\ PollGap \in Nat /\ SnapshotAge \in Nat
  /\ Required \in Nat \ {0} /\ PublicationGap \in Nat
  /\ NoBoot \notin Boots /\ Horizon \in Nat

VARIABLES
  now,          \* the controller's clock
  boot,         \* boot id of the node
  enabled,      \* nodes.spec.enabled
  quarantined,  \* nodes.spec.labels.gpu_runtime_quarantine
  health,       \* node_health of the node
  snap,         \* snapshots of the node
  good,         \* history: times of the unbroken run of healthy probes
  goodBoot,     \* history: boot id of that run
  failing,      \* history: run of failed probes, its length and first time
  condemned     \* history: given up, and neither readmitted nor published from since

node    == <<boot, enabled, quarantined>>
record  == <<health, snap>>
history == <<good, goodBoot, failing, condemned>>
vars    == <<now, node, record, history>>

-----------------------------------------------------------------------------
\* "none": no row.
Phase  == {"none", "healthy", "d_state_wait", "ssh_retrying", "unavailable", "publication_only"}
\* "ok": base_health() finds nothing; "busy": an answer it objects to.
Result == {"ok", "busy", "dstate", "error"}

\* dreason: the recorded reason is the D-state timeout of an earlier release.
Health   == [phase: Phase, dreason: BOOLEAN, first: Nat, retries: Nat, next: Nat, publication: Nat]
Snapshot == [result: Result, received: Nat, counted: Nat, stable: Nat, boot: Boots \cup {NoBoot}]

NoHealth   == [phase |-> "none", dreason |-> FALSE, first |-> 0, retries |-> 0, next |-> 0, publication |-> 0]
NoSnapshot == [result |-> "error", received |-> 0, counted |-> 0, stable |-> 0, boot |-> NoBoot]

\* Failed probes it takes to give a node up; the history counts no further.
Budget == Rounds * PerRound + 1

Later(s, t) == IF s < t THEN t ELSE s
InPhase(p)  == [NoHealth EXCEPT !.phase = p]
Unavailable == health.phase = "unavailable"
\* Given up by the D-state rule of an earlier release; scoped evidence may lift it.
LegacyHold  == Unavailable /\ health.dreason

\* The clock of the model starts late enough for an absent snapshot to be old.
Init ==
  /\ now = CountGap + PollGap + 1
  /\ boot \in Boots
  /\ enabled = TRUE /\ quarantined = FALSE
  /\ health \in {NoHealth, [InPhase("unavailable") EXCEPT !.dreason = TRUE]}
  /\ snap = NoSnapshot
  /\ good = {} /\ goodBoot = boot
  /\ failing = [count |-> 0, first |-> 0] /\ condemned = FALSE

-----------------------------------------------------------------------------
(* One probe, from refresh().                                              *)

RecoveryDue == LegacyHold \/ (~Unavailable /\ now >= health.next)

PublicationDue == ~enabled /\ quarantined /\ Unavailable /\ now >= health.publication

\* Where the retry number c of a recovery started at f is scheduled.
RoundStart_Mutant(f, c) == Later(now, f)
RoundStart(f, c)        == Later(now, f + Offsets[c \div PerRound + 1])

\* observe_health(): the recovery state machine.
ObserveHealth(r) ==
  LET c == health.retries + 1
      retried == [health EXCEPT !.retries = c]
  IN  CASE Unavailable /\ (~LegacyHold \/ r = "error") -> health
        [] r = "dstate" /\ (LegacyHold \/ ~Unavailable) -> InPhase("d_state_wait")
        [] r \in {"ok", "busy"} /\ (LegacyHold \/ ~Unavailable) -> InPhase("healthy")
        [] r = "error" /\ health.phase \notin {"unavailable", "ssh_retrying"} ->
             [InPhase("ssh_retrying") EXCEPT !.first = now, !.next = now]
        [] r = "error" /\ health.phase = "ssh_retrying" ->
             IF c >= Rounds * PerRound
             THEN [retried EXCEPT !.phase = "unavailable"]
             ELSE [retried EXCEPT !.next = RoundStart(health.first, c)]

\* publication_probe_health(): CPU publication from a drained, quarantined node.
PublicationApplies ==
  ~enabled /\ quarantined /\ (PublicationDue \/ health.phase = "publication_only")

PublicationHealth(r, stable) ==
  IF r = "ok" /\ (health.phase = "publication_only" \/ stable >= Required)
  THEN [health EXCEPT !.phase = "publication_only", !.publication = now + PublicationGap]
  ELSE [health EXCEPT !.phase = "unavailable",
                      !.publication = now + IF r = "ok" THEN CountGap ELSE PublicationGap]

\* The new snapshot; only polls CountGap apart count, in one unbroken run.
NewSnapshot_Mutant(r) ==
  [result |-> r, received |-> now, counted |-> now, boot |-> IF r = "error" THEN NoBoot ELSE boot,
   stable |-> IF r # "ok" THEN 0 ELSE IF snap.boot = boot THEN snap.stable + 1 ELSE 1]
NewSnapshot_Decay(r) ==
  [result |-> r, received |-> now, counted |-> now, boot |-> IF r = "error" THEN NoBoot ELSE boot,
   stable |-> IF r = "ok" THEN snap.stable + 1 ELSE snap.stable - 1]
NewSnapshot(r) ==
  LET b == IF r = "error" THEN NoBoot ELSE boot
      continuous == snap.boot = b /\ now - snap.received <= PollGap
      counts == now - snap.counted >= CountGap
  IN  [result   |-> r,
       received |-> now,
       counted  |-> IF counts THEN now ELSE snap.counted,
       stable   |-> IF r # "ok" THEN 0
                    ELSE (IF continuous THEN snap.stable ELSE 0) + (IF counts THEN 1 ELSE 0),
       boot     |-> b]

Probe(r) ==
  /\ RecoveryDue \/ PublicationDue
  /\ snap' = NewSnapshot(r)
  /\ health' = IF PublicationApplies THEN PublicationHealth(r, snap'.stable) ELSE ObserveHealth(r)
  /\ good' = IF r # "ok" THEN {}
             ELSE {now} \cup IF goodBoot = boot /\ \E t \in good : now - t <= PollGap
                             THEN good ELSE {}
  /\ goodBoot' = boot
  /\ failing' = IF r # "error" THEN [count |-> 0, first |-> 0]
                ELSE [count |-> IF failing.count < Budget THEN failing.count + 1 ELSE Budget,
                      first |-> IF failing.count = 0 THEN now ELSE failing.first]
  /\ condemned' = (/\ \/ condemned
                      \/ health.phase = "ssh_retrying" /\ health'.phase = "unavailable"
                   /\ health'.phase # "publication_only")
  /\ UNCHANGED <<now, node>>

-----------------------------------------------------------------------------
(* Operators and the node.                                                 *)

SetEnabled(e) ==
  /\ enabled' = e
  /\ UNCHANGED <<now, boot, quarantined, record, history>>

\* register_node() with another gpu_runtime_quarantine label.
Register_Mutant(q) ==
  /\ quarantined' = q
  /\ snap' = NoSnapshot /\ health' = NoHealth
  /\ good' = {}
  /\ UNCHANGED <<now, boot, enabled, goodBoot, failing, condemned>>
Register(q) ==
  /\ quarantined' = q
  /\ snap' = NoSnapshot
  /\ good' = {}
  /\ UNCHANGED <<now, boot, enabled, health, goodBoot, failing, condemned>>

ReadmitNode ==
  /\ Unavailable
  /\ health' = NoHealth
  /\ snap' = NoSnapshot
  /\ good' = {} /\ failing' = [count |-> 0, first |-> 0] /\ condemned' = FALSE
  /\ UNCHANGED <<now, node, goodBoot>>

Reboot ==
  /\ boot' \in Boots \ {boot}
  /\ UNCHANGED <<now, enabled, quarantined, record, history>>

Wait ==
  /\ now < Horizon
  /\ now' = now + 1
  /\ UNCHANGED <<node, record, history>>

Next ==
  \/ \E r \in Result : Probe(r)
  \/ \E e \in BOOLEAN : SetEnabled(e)
  \/ \E q \in BOOLEAN : Register(q)
  \/ ReadmitNode \/ Reboot \/ Wait

Spec == Init /\ [][Next]_vars

-----------------------------------------------------------------------------
(* Properties.                                                             *)

\* The rows of node_health and snapshots, and the histories, are well formed.
TypeOK ==
  /\ now \in Nat /\ boot \in Boots /\ enabled \in BOOLEAN /\ quarantined \in BOOLEAN
  /\ health \in Health /\ snap \in Snapshot
  /\ good \in SUBSET Nat /\ goodBoot \in Boots
  /\ failing \in [count: Nat, first: Nat] /\ condemned \in BOOLEAN

\* Rapid CLI calls cannot manufacture independent health polls: a streak of k
\* stable polls is k healthy probes at least CountGap apart, within one unbroken
\* run (one boot, no failure, no gap above PollGap, no new registration).
StreakIsIndependent ==
  \E S \in SUBSET good :
    /\ Cardinality(S) = snap.stable
    /\ \A s, t \in S : s < t => t - s >= CountGap

\* A node is given up only after its first failed probe and all retries failed
\* without an answer in between, the last round no earlier than its offset.
QuarantineIsEarned ==
  [][health.phase = "ssh_retrying" /\ health'.phase = "unavailable" =>
       /\ failing'.count = Budget
       /\ now - failing'.first >= Offsets[Rounds]]_vars

\* New work may be placed on the node, as far as its health is concerned.
Admissible ==
  /\ enabled /\ health.phase \notin {"unavailable", "ssh_retrying"}
  /\ snap.result = "ok" /\ now - snap.received <= SnapshotAge
  /\ snap.stable >= Required

\* A node given up after its recovery budget takes no work until the operator's
\* readmit-node, whatever is probed, rebooted, registered, drained and enabled
\* in between - with one exception that the documentation does not have: a
\* stable probe for publication, made while it was drained under a GPU-runtime
\* quarantine, ends the verdict, and enable-node is then enough.
ReadmissionRequired == condemned => ~Admissible
=============================================================================
