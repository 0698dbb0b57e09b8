-------------------------- MODULE NodeHealthProofs --------------------------
(***************************************************************************)
(* The health of a node, for any number of rounds and retries, any offsets *)
(* and gaps: a streak of stable polls is made of independent probes, a node *)
(* is given up only when its recovery budget is spent, and what has been   *)
(* given up takes no work.                                                 *)
(***************************************************************************)
EXTENDS NodeHealth, FiniteSetTheorems, TLAPS

-----------------------------------------------------------------------------
(* The inductive invariants.                                               *)

\* The times of a snapshot, and the healthy run its streak belongs to.
SnapshotIsOrdered ==
  /\ snap.counted <= snap.received /\ snap.received <= now
  /\ snap.stable > 0 => snap.received \in good /\ snap.boot = goodBoot

\* The counted polls themselves: as many as the streak says, apart from each
\* other, and the last one no later than "counted".
Independent(S) == \A s, t \in S : s < t => t - s >= CountGap

StreakIsCounted ==
  \E S \in SUBSET good :
    /\ IsFiniteSet(S) /\ Cardinality(S) = snap.stable
    /\ Independent(S)
    /\ \A s \in S : s <= snap.counted

StreakInv == TypeOK /\ SnapshotIsOrdered /\ StreakIsCounted

\* A recovery counts the failed probes since its first one, and its next retry
\* is not due before the round it belongs to.
RecoveryIsCounted ==
  /\ health.phase \notin {"unavailable", "ssh_retrying"} => failing.count = 0
  /\ health.phase = "ssh_retrying" =>
       /\ failing.count = health.retries + 1 /\ failing.first = health.first
       /\ health.retries < Rounds * PerRound
       /\ health.next >= health.first + Offsets[(health.retries \div PerRound) + 1]

\* Only the D-state rule of an earlier release leaves its reason behind, and the
\* verdict of the present rules is not lifted by a probe.
VerdictStands ==
  /\ health.phase = "ssh_retrying" => ~health.dreason
  /\ condemned => Unavailable /\ ~health.dreason

RecoveryInv == TypeOK /\ RecoveryIsCounted /\ VerdictStands

-----------------------------------------------------------------------------
(* Rounds of retries.                                                      *)

\* Division with a remainder below the divisor.
LEMMA DivFacts ==
  ASSUME NEW c \in Nat, NEW p \in Nat \ {0}
  PROVE  c \div p \in Nat /\ p * (c \div p) <= c /\ c < p * (c \div p) + p
<1>1. c \div p \in Int BY SMT
<1>2. p * (c \div p) <= c BY SMT
<1>3. c < p * (c \div p) + p BY SMT
<1>4. c \div p >= 0 BY <1>1, <1>3, SMT
<1> QED BY <1>1, <1>2, <1>3, <1>4

\* A retry within the budget belongs to one of the rounds ...
LEMMA RoundOfRetry ==
  ASSUME NEW c \in Nat, c < Rounds * PerRound
  PROVE  (c \div PerRound) + 1 \in 1 .. Rounds
<1> DEFINE q == c \div PerRound
<1>0. Rounds \in Nat \ {0} /\ PerRound \in Nat \ {0}
  BY HealthAssumption DEF HealthAssumption
<1>1. q \in Nat /\ PerRound * q <= c BY <1>0, DivFacts
<1> HIDE DEF q
<1>2. ASSUME q >= Rounds PROVE FALSE
  <2>1. PerRound * Rounds <= PerRound * q BY <1>0, <1>1, <1>2, SMT
  <2> QED BY <1>0, <1>1, <2>1, SMT
<1> QED BY <1>0, <1>1, <1>2 DEF q

\* ... and the last one to the last round.
LEMMA LastRound == ((Rounds * PerRound - 1) \div PerRound) + 1 = Rounds
<1> DEFINE c == Rounds * PerRound - 1
           q == c \div PerRound
<1>0. Rounds \in Nat \ {0} /\ PerRound \in Nat \ {0}
  BY HealthAssumption DEF HealthAssumption
<1>1. c \in Nat /\ c < Rounds * PerRound BY <1>0, SMT
<1>2. q \in Nat /\ c < PerRound * q + PerRound BY <1>0, <1>1, DivFacts
<1>3. q + 1 \in 1 .. Rounds BY <1>1, RoundOfRetry
<1> HIDE DEF q
<1>4. ASSUME q + 1 <= Rounds - 1 PROVE FALSE
  <2>1. PerRound * (q + 1) <= PerRound * (Rounds - 1) BY <1>0, <1>2, <1>4, SMT
  <2>2. PerRound * (q + 1) = PerRound * q + PerRound /\ PerRound * (Rounds - 1) = Rounds * PerRound - PerRound
    BY <1>0, <1>2, SMT
  <2> QED BY <1>0, <1>2, <2>1, <2>2, SMT
<1> QED BY <1>0, <1>2, <1>3, <1>4 DEF q

\* The start of a round is a moment, and no earlier than its offset.
LEMMA RoundStarts ==
  ASSUME NEW f \in Nat, NEW c \in Nat, c < Rounds * PerRound, now \in Nat
  PROVE  /\ RoundStart(f, c) \in Nat
         /\ RoundStart(f, c) >= f + Offsets[(c \div PerRound) + 1]
<1>1. Offsets[(c \div PerRound) + 1] \in Nat
  BY RoundOfRetry, HealthAssumption DEF HealthAssumption
<1> QED BY <1>1 DEF RoundStart, Later

-----------------------------------------------------------------------------
(* Types.                                                                  *)

\* The first rows are well formed.
LEMMA TypeInit == Init => TypeOK
<1> SUFFICES ASSUME Init PROVE TypeOK
  OBVIOUS
<1>1. CountGap + PollGap + 1 \in Nat
  BY HealthAssumption DEF HealthAssumption
<1>2. NoHealth \in Health /\ [InPhase("unavailable") EXCEPT !.dreason = TRUE] \in Health
  BY DEF NoHealth, InPhase, Health, Phase
<1>3. NoSnapshot \in Snapshot
  BY DEF NoSnapshot, Snapshot, Result
<1> QED BY <1>1, <1>2, <1>3 DEF Init, TypeOK

\* What a probe writes to the two rows of the node is well formed.
LEMMA SnapshotType ==
  ASSUME TypeOK, NEW r \in Result
  PROVE  NewSnapshot(r) \in Snapshot
BY DEF TypeOK, NewSnapshot, Snapshot

\* So is each phase of the recovery, whose rounds exist ...
LEMMA ObserveHealthType ==
  ASSUME TypeOK, NEW r \in Result
  PROVE  ObserveHealth(r) \in Health
<1> USE DEF TypeOK
<1>0. health.retries + 1 \in Nat /\ health.first \in Nat /\ Rounds * PerRound \in Nat
  BY HealthAssumption DEF HealthAssumption, Health
<1>1. \A p \in Phase : InPhase(p) \in Health /\ [InPhase(p) EXCEPT !.first = now, !.next = now] \in Health
  BY DEF InPhase, NoHealth, Health
<1>2. [[health EXCEPT !.retries = health.retries + 1] EXCEPT !.phase = "unavailable"] \in Health
  BY <1>0 DEF Health, Phase
<1>3. ASSUME ~(health.retries + 1 >= Rounds * PerRound)
      PROVE  [[health EXCEPT !.retries = health.retries + 1]
                EXCEPT !.next = RoundStart(health.first, health.retries + 1)] \in Health
  <2>1. RoundStart(health.first, health.retries + 1) \in Nat
    BY <1>0, <1>3, RoundStarts
  <2> QED BY <1>0, <2>1 DEF Health
<1>4. CASE r \in {"ok", "busy", "dstate"}
  BY <1>1, <1>4 DEF ObserveHealth, LegacyHold, Phase
<1>5. CASE r = "error" /\ health.phase # "ssh_retrying"
  BY <1>1, <1>5 DEF ObserveHealth, LegacyHold, Unavailable, Phase
<1>6. CASE r = "error" /\ health.phase = "ssh_retrying"
  BY <1>2, <1>3, <1>6 DEF ObserveHealth, LegacyHold, Unavailable
<1> QED BY <1>4, <1>5, <1>6 DEF Result

\* ... and each publication probe.
LEMMA PublicationHealthType ==
  ASSUME TypeOK, NEW r \in Result, NEW k \in Nat
  PROVE  PublicationHealth(r, k) \in Health
<1>1. \A p \in Phase, t \in Nat : [health EXCEPT !.phase = p, !.publication = t] \in Health
  BY DEF TypeOK, Health
<1>2. now + PublicationGap \in Nat /\ now + CountGap \in Nat
  BY HealthAssumption DEF HealthAssumption, TypeOK
<1> QED BY <1>1, <1>2 DEF PublicationHealth, Phase

\* Every step keeps the types.
LEMMA TypeNext == TypeOK /\ [Next]_vars => TypeOK'
<1> SUFFICES ASSUME TypeOK, [Next]_vars PROVE TypeOK'
  OBVIOUS
<1> USE DEF TypeOK
<1>1. ASSUME NEW r \in Result, Probe(r) PROVE TypeOK'
  <2>1. snap' \in Snapshot BY <1>1, SnapshotType DEF Probe
  <2>2. health' \in Health
    BY <1>1, <2>1, ObserveHealthType, PublicationHealthType DEF Probe, Snapshot
  <2>3. good' \in SUBSET Nat /\ goodBoot' \in Boots BY <1>1 DEF Probe
  <2>4. Budget \in Nat BY HealthAssumption DEF HealthAssumption, Budget
  <2>5. failing' \in [count: Nat, first: Nat] BY <1>1, <2>4 DEF Probe
  <2>6. condemned' \in BOOLEAN BY <1>1 DEF Probe
  <2> QED BY <1>1, <2>1, <2>2, <2>3, <2>5, <2>6 DEF Probe, node
<1>2. ASSUME NEW e \in BOOLEAN, SetEnabled(e) PROVE TypeOK'
  BY <1>2 DEF SetEnabled, record, history
<1>3. ASSUME NEW q \in BOOLEAN, Register(q) PROVE TypeOK'
  BY <1>3 DEF Register, NoSnapshot, Snapshot, Result
<1>4. CASE ReadmitNode
  BY <1>4 DEF ReadmitNode, node, NoSnapshot, Snapshot, Result, NoHealth, Health, Phase
<1>5. CASE Reboot
  BY <1>5 DEF Reboot, record, history
<1>6. CASE Wait
  <2>1. now' \in Nat BY <1>6 DEF Wait
  <2> QED BY <1>6, <2>1 DEF Wait, node, record, history
<1>7. CASE UNCHANGED vars
  BY <1>7 DEF vars, node, record, history
<1> QED BY <1>1, <1>2, <1>3, <1>4, <1>5, <1>6, <1>7 DEF Next

\* The rows of node_health and snapshots are well formed, and a retry is always
\* scheduled in a round that exists.
THEOREM TypeCorrect == Spec => []TypeOK
BY TypeInit, TypeNext, PTL DEF Spec

-----------------------------------------------------------------------------
(* The streak of stable polls.                                             *)

\* No streak at first.
LEMMA StreakInit == Init => StreakInv
<1> SUFFICES ASSUME Init PROVE StreakInv
  OBVIOUS
<1>1. TypeOK BY TypeInit
<1>2. SnapshotIsOrdered
  BY HealthAssumption DEF Init, SnapshotIsOrdered, NoSnapshot, HealthAssumption
<1>3. IsFiniteSet({}) /\ Cardinality({}) = 0 BY FS_EmptySet
<1> QED BY <1>1, <1>2, <1>3 DEF Init, StreakInv, StreakIsCounted, NoSnapshot, Independent

\* A probe keeps the run of the streak it extends, and adds itself if it is far
\* enough from the last counted one.
LEMMA StreakProbe ==
  ASSUME StreakInv, NEW r \in Result, Probe(r)
  PROVE  SnapshotIsOrdered' /\ StreakIsCounted'
<1> USE DEF StreakInv, TypeOK
<1> DEFINE continuous == snap.boot = boot /\ now - snap.received <= PollGap
           counts == now - snap.counted >= CountGap
<1>0. CountGap \in Nat \ {0} /\ PollGap \in Nat /\ NoBoot \notin Boots
  BY HealthAssumption DEF HealthAssumption
<1>1. /\ snap \in Snapshot /\ snap.counted \in Nat /\ snap.received \in Nat /\ snap.stable \in Nat
  BY DEF Snapshot
<1>2. /\ snap'.received = now /\ now' = now /\ goodBoot' = boot
      /\ snap'.counted = IF counts THEN now ELSE snap.counted
  BY DEF Probe, NewSnapshot
<1>3. ASSUME r = "ok"
      PROVE  /\ snap'.boot = boot /\ now \in good'
             /\ snap'.stable = (IF continuous THEN snap.stable ELSE 0) + (IF counts THEN 1 ELSE 0)
             /\ continuous /\ snap.stable > 0 => good \subseteq good'
  <2>1. snap' = NewSnapshot(r) BY DEF Probe
  <2>2. /\ snap'.boot = boot
        /\ snap'.stable = (IF continuous THEN snap.stable ELSE 0) + (IF counts THEN 1 ELSE 0)
    BY <1>3, <2>1 DEF NewSnapshot
  <2>3. now \in good' BY <1>3 DEF Probe
  <2>4. ASSUME continuous, snap.stable > 0 PROVE good \subseteq good'
    <3>1. goodBoot = boot /\ \E t \in good : now - t <= PollGap
      BY <2>4 DEF SnapshotIsOrdered
    <3> QED BY <1>3, <3>1 DEF Probe
  <2> QED BY <2>2, <2>3, <2>4
<1>4. r # "ok" => snap'.stable = 0
  BY DEF Probe, NewSnapshot
<1> HIDE DEF continuous, counts
<1>5. SnapshotIsOrdered'
  <2>1. now \in Nat /\ snap.counted <= now BY <1>1 DEF SnapshotIsOrdered
  <2> QED BY <1>2, <1>3, <1>4, <2>1 DEF SnapshotIsOrdered
<1>6. StreakIsCounted'
  <2>0. \A T \in SUBSET good' :
          /\ IsFiniteSet(T) /\ Cardinality(T) = snap'.stable
          /\ Independent(T) /\ \A s \in T : s <= snap'.counted
          => StreakIsCounted'
    BY DEF StreakIsCounted, Independent
  <2>1. PICK S0 \in SUBSET good :
          /\ IsFiniteSet(S0) /\ Cardinality(S0) = snap.stable
          /\ Independent(S0) /\ \A s \in S0 : s <= snap.counted
    BY DEF StreakIsCounted
  <2>2. IsFiniteSet({}) /\ Cardinality({}) = 0 BY FS_EmptySet
  <2> DEFINE S == IF r = "ok" /\ continuous THEN S0 ELSE {}
  <2>3. /\ IsFiniteSet(S) /\ Independent(S)
        /\ S \subseteq good /\ \A s \in S : s <= snap.counted
    BY <2>1, <2>2 DEF Independent
  <2>4. r = "ok" => Cardinality(S) = IF continuous THEN snap.stable ELSE 0
    BY <2>1, <2>2
  <2>5. S \subseteq good'
    <3>1. CASE r = "ok" /\ continuous /\ snap.stable > 0
      BY <1>3, <2>3, <3>1
    <3>2. CASE r = "ok" /\ snap.stable = 0
      <4>1. S0 = {} BY <2>1, <3>2, FS_EmptySet
      <4> QED BY <4>1
    <3> QED BY <1>1, <3>1, <3>2
  <2>6. CASE r # "ok"
    BY <1>4, <2>0, <2>2, <2>6 DEF Independent
  <2>7. CASE r = "ok" /\ ~counts
    <3>1. snap'.stable = Cardinality(S) BY <1>1, <1>3, <2>4, <2>7
    <3>2. snap'.counted = snap.counted BY <1>2, <2>7
    <3> HIDE DEF S
    <3> QED BY <2>0, <2>3, <2>5, <3>1, <3>2
  <2>8. CASE r = "ok" /\ counts
    <3> HIDE DEF S
    <3>1. \A s \in S : s \in Nat /\ now - s >= CountGap
      BY <1>0, <1>1, <2>3, <2>8 DEF counts
    <3>2. now \notin S BY <1>0, <3>1
    <3>3. IsFiniteSet(S \cup {now}) /\ Cardinality(S \cup {now}) = Cardinality(S) + 1
      BY <2>3, <3>2, FS_AddElement
    <3>4. snap'.stable = Cardinality(S \cup {now}) BY <1>1, <1>3, <2>4, <2>8, <3>3
    <3>5. Independent(S \cup {now})
      <4>1. ASSUME NEW s \in S \cup {now}, NEW t \in S \cup {now}, s < t PROVE t - s >= CountGap
        BY <1>0, <2>3, <3>1, <4>1 DEF Independent
      <4> QED BY <4>1 DEF Independent
    <3>6. \A s \in S \cup {now} : s <= now
      BY <1>0, <3>1
    <3>7. S \cup {now} \in SUBSET good' BY <1>3, <2>5, <2>8
    <3>8. snap'.counted = now BY <1>2, <2>8
    <3> QED BY <2>0, <3>3, <3>4, <3>5, <3>6, <3>7, <3>8
  <2> QED BY <2>6, <2>7, <2>8
<1> QED BY <1>5, <1>6

\* Only probes extend a streak; what begins anew begins without one.
LEMMA StreakNext == StreakInv /\ [Next]_vars => StreakInv'
<1> SUFFICES ASSUME StreakInv, [Next]_vars PROVE SnapshotIsOrdered' /\ StreakIsCounted'
  BY TypeNext DEF StreakInv
<1>1. ASSUME NEW r \in Result, Probe(r) PROVE SnapshotIsOrdered' /\ StreakIsCounted'
  BY <1>1, StreakProbe
<1>2. CASE ReadmitNode \/ \E q \in BOOLEAN : Register(q)
  <2>1. snap' = NoSnapshot /\ good' = {} /\ now' = now BY <1>2 DEF ReadmitNode, Register
  <2>2. IsFiniteSet({}) /\ Cardinality({}) = 0 BY FS_EmptySet
  <2> QED BY <2>1, <2>2 DEF SnapshotIsOrdered, StreakIsCounted, Independent, NoSnapshot, StreakInv, TypeOK
<1>3. CASE \/ Reboot \/ UNCHANGED vars \/ Wait \/ \E e \in BOOLEAN : SetEnabled(e)
  <2>1. UNCHANGED <<snap, good, goodBoot>> /\ now <= now' /\ now' \in Nat
    BY <1>3 DEF Reboot, vars, Wait, SetEnabled, record, history, StreakInv, TypeOK
  <2> QED BY <2>1 DEF SnapshotIsOrdered, StreakIsCounted, Independent, StreakInv, TypeOK, Snapshot
<1> QED BY <1>1, <1>2, <1>3 DEF Next

\* A streak of k stable polls is k healthy probes at least CountGap apart, all
\* in one unbroken run: rapid polling does not manufacture them.
THEOREM StreaksIndependent == Spec => []StreakIsIndependent
<1>1. StreakInv => StreakIsIndependent
  BY DEF StreakInv, StreakIsCounted, StreakIsIndependent, Independent
<1> QED BY <1>1, StreakInit, StreakNext, PTL DEF Spec

-----------------------------------------------------------------------------
(* The recovery budget.                                                    *)

\* Nothing has failed at first.
LEMMA RecoveryInit == Init => RecoveryInv
<1> SUFFICES ASSUME Init PROVE RecoveryInv
  OBVIOUS
<1>1. health.phase # "ssh_retrying"
  <2>1. NoHealth.phase = "none" BY DEF NoHealth
  <2>2. [InPhase("unavailable") EXCEPT !.dreason = TRUE].phase = "unavailable"
    BY DEF InPhase, NoHealth
  <2>3. health = NoHealth \/ health = [InPhase("unavailable") EXCEPT !.dreason = TRUE]
    BY DEF Init
  <2> QED BY <2>1, <2>2, <2>3
<1>2. failing.count = 0 /\ ~condemned
  BY DEF Init
<1> QED BY <1>1, <1>2, TypeInit DEF RecoveryInv, RecoveryIsCounted, VerdictStands

\* A failed probe of a node in recovery: the next retry, or the verdict.
LEMMA RetryFails ==
  ASSUME RecoveryInv, Probe("error"), health.phase = "ssh_retrying"
  PROVE  /\ \/ /\ health'.phase = "ssh_retrying" /\ health'.retries < Rounds * PerRound
               /\ failing'.count = health'.retries + 1
               /\ health'.next >= health'.first + Offsets[(health'.retries \div PerRound) + 1]
            \/ /\ health'.phase = "unavailable" /\ failing'.count = Budget
               /\ now - failing'.first >= Offsets[Rounds]
         /\ failing'.first = health'.first /\ ~health'.dreason
<1> USE DEF RecoveryInv, TypeOK
<1>0. /\ Rounds * PerRound \in Nat /\ health \in Health
      /\ health.retries \in Nat /\ health.first \in Nat /\ health.next \in Nat
  BY HealthAssumption DEF HealthAssumption, Health
<1>1. /\ failing.count = health.retries + 1 /\ failing.first = health.first
      /\ health.retries < Rounds * PerRound
      /\ health.next >= health.first + Offsets[(health.retries \div PerRound) + 1]
      /\ ~health.dreason
  BY DEF RecoveryIsCounted, VerdictStands
<1>2. ~Unavailable /\ ~LegacyHold /\ ~PublicationApplies /\ now >= health.next
  BY DEF Unavailable, LegacyHold, PublicationApplies, PublicationDue, Probe, RecoveryDue
<1>3. failing' = [count |-> health.retries + 2, first |-> health.first]
  <2>1. failing' = [count |-> IF failing.count < Budget THEN failing.count + 1 ELSE Budget,
                    first |-> IF failing.count = 0 THEN now ELSE failing.first]
    BY DEF Probe
  <2> QED BY <1>0, <1>1, <2>1 DEF Budget
<1>4. health' = IF health.retries + 1 >= Rounds * PerRound
                THEN [[health EXCEPT !.retries = health.retries + 1] EXCEPT !.phase = "unavailable"]
                ELSE [[health EXCEPT !.retries = health.retries + 1]
                        EXCEPT !.next = RoundStart(health.first, health.retries + 1)]
  <2>1. health' = ObserveHealth("error") BY <1>2 DEF Probe
  <2> QED BY <1>2, <2>1 DEF ObserveHealth
<1>5. CASE health.retries + 1 < Rounds * PerRound
  <2>1. health' = [[health EXCEPT !.retries = health.retries + 1]
                        EXCEPT !.next = RoundStart(health.first, health.retries + 1)]
    BY <1>0, <1>4, <1>5
  <2>2. /\ health'.retries = health.retries + 1 /\ health'.first = health.first
        /\ health'.phase = "ssh_retrying" /\ health'.dreason = health.dreason
        /\ health'.next = RoundStart(health.first, health.retries + 1)
    BY <1>0, <2>1 DEF Health
  <2>3. health'.next >= health.first + Offsets[((health.retries + 1) \div PerRound) + 1]
    BY <1>0, <1>5, <2>2, RoundStarts
  <2>4. health.retries + 2 = health.retries + 1 + 1 BY <1>0
  <2> QED BY <1>1, <1>3, <1>5, <2>2, <2>3, <2>4
<1>6. CASE health.retries + 1 >= Rounds * PerRound
  <2>1. health' = [[health EXCEPT !.retries = health.retries + 1] EXCEPT !.phase = "unavailable"]
    BY <1>4, <1>6
  <2>2. /\ health'.phase = "unavailable" /\ health'.first = health.first
        /\ health'.dreason = health.dreason
    BY <1>0, <2>1 DEF Health
  <2>3. health.retries = Rounds * PerRound - 1
    BY <1>0, <1>1, <1>6
  <2>4. failing'.count = Budget BY <1>0, <1>3, <2>3 DEF Budget
  <2>5. health.next >= health.first + Offsets[Rounds]
    BY <1>1, <2>3, LastRound
  <2>6. Offsets[Rounds] \in Nat BY HealthAssumption DEF HealthAssumption
  <2>7. now - health.first >= Offsets[Rounds] BY <1>0, <1>2, <2>5, <2>6
  <2> QED BY <1>1, <1>3, <2>2, <2>4, <2>7
<1> QED BY <1>0, <1>5, <1>6

\* Every other probe of a node that is not given up leaves it outside a
\* recovery, or at the start of one.
LEMMA OtherProbes ==
  ASSUME RecoveryInv, NEW r \in Result, Probe(r), ~(r = "error" /\ health.phase = "ssh_retrying")
  PROVE  RecoveryIsCounted' /\ (health'.phase = "ssh_retrying" => ~health'.dreason)
<1> USE DEF RecoveryInv, TypeOK
<1>1. CASE PublicationApplies
  <2>1. health'.phase \in {"publication_only", "unavailable"}
    BY <1>1 DEF Probe, PublicationHealth, Health
  <2>2. health'.phase = "publication_only" => failing'.count = 0
    BY <1>1 DEF Probe, PublicationHealth, Health
  <2> QED BY <2>1, <2>2 DEF RecoveryIsCounted
<1>2. CASE ~PublicationApplies
  <2>1. health' = ObserveHealth(r) BY <1>2 DEF Probe
  <2>2. CASE r # "error"
    <3>1. failing'.count = 0 BY <2>2 DEF Probe
    <3>2. health' \in {health, InPhase("d_state_wait"), InPhase("healthy")}
      BY <2>1, <2>2 DEF ObserveHealth, Result
    <3>3. health'.phase # "ssh_retrying"
      BY <2>1, <2>2, <3>2 DEF ObserveHealth, LegacyHold, Unavailable, InPhase, NoHealth, Result
    <3> QED BY <3>1, <3>3 DEF RecoveryIsCounted
  <2>3. CASE r = "error" /\ Unavailable
    BY <2>1, <2>3 DEF ObserveHealth, Unavailable, RecoveryIsCounted
  <2>4. CASE r = "error" /\ ~Unavailable
    <3>1. health' = [InPhase("ssh_retrying") EXCEPT !.first = now, !.next = now]
      BY <2>1, <2>4 DEF ObserveHealth, Unavailable, LegacyHold
    <3>2. /\ health'.phase = "ssh_retrying" /\ ~health'.dreason /\ health'.retries = 0
          /\ health'.first = now /\ health'.next = now
      BY <3>1 DEF InPhase, NoHealth
    <3>3. failing.count = 0
      BY <2>4 DEF RecoveryIsCounted, Unavailable
    <3>4. failing' = [count |-> 1, first |-> now]
      <4>1. failing' = [count |-> IF failing.count < Budget THEN failing.count + 1 ELSE Budget,
                        first |-> IF failing.count = 0 THEN now ELSE failing.first]
        BY <2>4 DEF Probe
      <4>2. 0 < Budget BY HealthAssumption DEF HealthAssumption, Budget
      <4> QED BY <3>3, <4>1, <4>2
    <3>5. 0 < Rounds * PerRound /\ Offsets[1] = 0 /\ PerRound \in Nat \ {0}
      BY HealthAssumption DEF HealthAssumption
    <3>6. (0 \div PerRound) + 1 = 1
      <4>1. 0 \div PerRound \in Nat /\ PerRound * (0 \div PerRound) <= 0 BY <3>5, DivFacts
      <4> DEFINE q == 0 \div PerRound
      <4> HIDE DEF q
      <4>2. q = 0 BY <3>5, <4>1, SMT DEF q
      <4> QED BY <4>2 DEF q
    <3>7. now >= now + Offsets[(0 \div PerRound) + 1] BY <3>5, <3>6
    <3> QED BY <3>2, <3>4, <3>5, <3>7 DEF RecoveryIsCounted
  <2> QED BY <2>2, <2>3, <2>4
<1> QED BY <1>1, <1>2

\* The verdict itself: only a probe for publication ends it.
LEMMA VerdictProbe ==
  ASSUME RecoveryInv, NEW r \in Result, Probe(r), condemned'
  PROVE  health'.phase = "unavailable" /\ ~health'.dreason
<1> USE DEF RecoveryInv, TypeOK
<1>1. CASE condemned
  <2>1. Unavailable /\ ~LegacyHold BY <1>1 DEF VerdictStands, LegacyHold
  <2>2. CASE PublicationApplies
    <3>1. health' = PublicationHealth(r, snap'.stable) BY <2>2 DEF Probe
    <3>2. health'.phase # "publication_only" BY DEF Probe
    <3> QED BY <1>1, <3>1, <3>2 DEF PublicationHealth, Health, VerdictStands
  <2>3. CASE ~PublicationApplies
    BY <1>1, <2>1, <2>3 DEF Probe, ObserveHealth, VerdictStands, Unavailable
  <2> QED BY <2>2, <2>3
<1>2. CASE health.phase = "ssh_retrying" /\ health'.phase = "unavailable"
  <2>1. r = "error"
    BY <1>2 DEF Probe, PublicationApplies, PublicationDue, Unavailable, ObserveHealth, LegacyHold, InPhase,
                NoHealth, Result
  <2> QED BY <1>2, <2>1, RetryFails
<1> QED BY <1>1, <1>2 DEF Probe

\* The invariant is inductive.
LEMMA RecoveryNext == RecoveryInv /\ [Next]_vars => RecoveryInv'
<1> SUFFICES ASSUME RecoveryInv, [Next]_vars PROVE RecoveryIsCounted' /\ VerdictStands'
  BY TypeNext DEF RecoveryInv
<1>1. ASSUME NEW r \in Result, Probe(r) PROVE RecoveryIsCounted' /\ VerdictStands'
  <2>1. CASE r = "error" /\ health.phase = "ssh_retrying"
    BY <1>1, <2>1, RetryFails, VerdictProbe DEF RecoveryIsCounted, VerdictStands, Unavailable
  <2>2. CASE ~(r = "error" /\ health.phase = "ssh_retrying")
    BY <1>1, <2>2, OtherProbes, VerdictProbe DEF VerdictStands, Unavailable
  <2> QED BY <2>1, <2>2
<1>2. CASE ReadmitNode
  BY <1>2 DEF ReadmitNode, RecoveryIsCounted, VerdictStands, NoHealth
<1>3. CASE \/ Reboot \/ Wait \/ UNCHANGED vars
           \/ \E e \in BOOLEAN : SetEnabled(e) \/ Register(e)
  <2>1. UNCHANGED <<health, failing, condemned>>
    BY <1>3 DEF Reboot, Wait, vars, SetEnabled, Register, record, history
  <2> QED BY <2>1 DEF RecoveryInv, RecoveryIsCounted, VerdictStands, Unavailable
<1> QED BY <1>1, <1>2, <1>3 DEF Next

\* The recovery of every node stays within its budget and its rounds.
THEOREM RecoveryCorrect == Spec => []RecoveryInv
BY RecoveryInit, RecoveryNext, PTL DEF Spec

\* A node given up after its recovery budget takes no work, whatever is probed,
\* rebooted, registered, drained and enabled, until it is readmitted or probed
\* for publication.
THEOREM VerdictsBind == Spec => []ReadmissionRequired
<1>1. RecoveryInv => ReadmissionRequired
  BY DEF RecoveryInv, VerdictStands, ReadmissionRequired, Admissible, Unavailable
<1> QED BY <1>1, RecoveryCorrect, PTL

\* A node is given up only after the first failed probe and all retries failed,
\* the last round no earlier than its offset.
THEOREM QuarantinesEarned == Spec => QuarantineIsEarned
<1>1. RecoveryInv /\ [Next]_vars
        => [health.phase = "ssh_retrying" /\ health'.phase = "unavailable" =>
              /\ failing'.count = Budget
              /\ now - failing'.first >= Offsets[Rounds]]_vars
  <2> SUFFICES ASSUME RecoveryInv, Next, health.phase = "ssh_retrying", health'.phase = "unavailable"
               PROVE  failing'.count = Budget /\ now - failing'.first >= Offsets[Rounds]
    BY DEF vars
  <2>1. PICK r \in Result : Probe(r)
    BY DEF Next, SetEnabled, Register, Reboot, Wait, record, history, ReadmitNode, NoHealth
  <2>2. r = "error"
    BY <2>1 DEF Probe, PublicationApplies, PublicationDue, Unavailable, ObserveHealth, LegacyHold, InPhase,
                NoHealth, Result
  <2> QED BY <2>1, <2>2, RetryFails
<1> QED BY <1>1, RecoveryCorrect, PTL DEF Spec, QuarantineIsEarned

=============================================================================
