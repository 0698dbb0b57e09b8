------------------------ MODULE CampaignAlertsProofs ------------------------
(***************************************************************************)
(* What researchers are told of a campaign, for any jobs and any history   *)
(* of failures and polls: every episode of errors and every recovery is    *)
(* announced, although alerts with a known id are dropped; and the alerts  *)
(* reach the outbox as AlertOutbox relies on.                              *)
(***************************************************************************)
EXTENDS CampaignAlerts, TLAPS

-----------------------------------------------------------------------------
(* The inductive invariant.                                                *)

ErrorId == Jobs \X JobState \cup {<<"download", "artifact_error">>}
Attempt == Jobs \X Nat

\* The rows a poll may write, with the id each kind has.
Row ==
  [kind : {"started"},   token : {"first-execution"}, open : BOOLEAN]
  \cup [kind : {"complete"},  token : Nat, open : BOOLEAN]
  \cup [kind : {"error"},     token : Nat \X SUBSET ErrorId, open : BOOLEAN]
  \cup [kind : {"recovered"}, token : {"campaign"} \X Nat, open : BOOLEAN]
  \cup [kind : {"recovered"}, token : {"train batch"} \X SUBSET Attempt, open : BOOLEAN]

Runtime ==
  [state : State, gen : Nat, started : BOOLEAN, errors : SUBSET ErrorId, recovering : BOOLEAN,
   targets : SUBSET Jobs, since : Nat, retired : BOOLEAN, seen : SUBSET Attempt]

WellTyped ==
  /\ jstat \in [Jobs -> JobState] /\ failures \in [Jobs -> Nat]
  /\ runtime \in Runtime
  /\ alerts \in Seq(Row)

\* An id that is written again would be dropped: those of the present episode,
\* of the recovery under way and of new retries are not in use yet.
IdsAreOld ==
  \A i \in DOMAIN alerts :
    /\ alerts[i].kind = "complete" => alerts[i].token <= runtime.gen
    /\ alerts[i].kind = "error" => alerts[i].token[1] <= runtime.gen
    /\ alerts[i].kind = "recovered" /\ alerts[i].token[1] = "train batch" => alerts[i].token[2] \subseteq runtime.seen
    /\ alerts[i].kind = "recovered" /\ alerts[i].token[1] = "campaign" =>
         /\ alerts[i].token[2] < runtime.gen
         /\ runtime.recovering => alerts[i].token[2] < runtime.since

\* A recovery is named by the generation of the last error.
RecoveryIsDated ==
  /\ runtime.recovering => runtime.since <= runtime.gen
  /\ runtime.recovering /\ runtime.state # "error" => runtime.since < runtime.gen
  /\ runtime.state = "error" => runtime.recovering /\ runtime.since = runtime.gen

\* Only errors are superseded.
OnlyErrorsEnd == \A i \in DOMAIN alerts : alerts[i].kind # "error" => alerts[i].open

AlertsInv == WellTyped /\ IdsAreOld /\ RecoveryIsDated /\ OnlyErrorsEnd /\ ErrorIsAnnounced

-----------------------------------------------------------------------------
(* Sequences of alerts.                                                    *)

In(x, s) == \E i \in DOMAIN s : s[i] = x

\* None, and one.
LEMMA SingleFacts ==
  ASSUME NEW x \in Row
  PROVE  /\ <<>> \in Seq(Row) /\ Len(<<>>) = 0 /\ \A y : ~In(y, <<>>)
         /\ <<x>> \in Seq(Row) /\ Len(<<x>>) = 1 /\ \A y : In(y, <<x>>) <=> y = x
<1>1. <<>> \in Seq(Row) /\ Len(<<>>) = 0 /\ \A y : ~In(y, <<>>)
  BY DEF In
<1>2. <<x>> \in Seq(Row) /\ Len(<<x>>) = 1 /\ DOMAIN <<x>> = {1} /\ <<x>>[1] = x
  OBVIOUS
<1>3. \A y : In(y, <<x>>) <=> y = x
  BY <1>2, Zenon DEF In
<1> QED BY <1>1, <1>2, <1>3

\* Some alerts and then others.
LEMMA ConcatFacts ==
  ASSUME NEW s \in Seq(Row), NEW t \in Seq(Row)
  PROVE  /\ s \o t \in Seq(Row) /\ Len(s \o t) = Len(s) + Len(t)
         /\ \A i \in 1 .. Len(s) : (s \o t)[i] = s[i]
         /\ \A k \in 1 .. Len(t) : (s \o t)[Len(s) + k] = t[k]
         /\ \A x : In(x, s \o t) <=> In(x, s) \/ In(x, t)
<1>1. s \o t \in Seq(Row)
  OBVIOUS
<1>2. Len(s \o t) = Len(s) + Len(t)
  OBVIOUS
<1>3. \A i \in 1 .. Len(s) : (s \o t)[i] = s[i]
  OBVIOUS
<1>4. \A k \in 1 .. Len(t) : (s \o t)[Len(s) + k] = t[k]
  OBVIOUS
<1>5. ASSUME NEW x PROVE In(x, s \o t) <=> In(x, s) \/ In(x, t)
  <2>0. /\ Len(s) \in Nat /\ Len(t) \in Nat
        /\ DOMAIN s = 1 .. Len(s) /\ DOMAIN t = 1 .. Len(t) /\ DOMAIN (s \o t) = 1 .. Len(s) + Len(t)
    BY <1>1, <1>2
  <2>1. ASSUME In(x, s \o t) PROVE In(x, s) \/ In(x, t)
    <3>1. PICK i \in 1 .. Len(s) + Len(t) : (s \o t)[i] = x
      BY <2>0, <2>1 DEF In
    <3>2. CASE i \in 1 .. Len(s)
      BY <1>3, <2>0, <3>1, <3>2 DEF In
    <3>3. CASE i \notin 1 .. Len(s)
      <4>1. i - Len(s) \in 1 .. Len(t) /\ Len(s) + (i - Len(s)) = i
        BY <2>0, <3>3
      <4>2. t[i - Len(s)] = x
        BY <1>4, <3>1, <4>1
      <4> QED BY <2>0, <4>1, <4>2 DEF In
    <3> QED BY <3>2, <3>3
  <2>2. ASSUME In(x, s) PROVE In(x, s \o t)
    BY <1>3, <2>0, <2>2 DEF In
  <2>3. ASSUME In(x, t) PROVE In(x, s \o t)
    <3>1. PICK k \in 1 .. Len(t) : t[k] = x
      BY <2>0, <2>3 DEF In
    <3>2. Len(s) + k \in 1 .. Len(s) + Len(t)
      BY <2>0
    <3> QED BY <1>4, <2>0, <3>1, <3>2 DEF In
  <2> QED BY <2>1, <2>2, <2>3
<1> QED BY <1>1, <1>2, <1>3, <1>4, <1>5

\* A row that is superseded if it is an error.
LEMMA RowFacts ==
  ASSUME NEW row \in Row
  PROVE  LET new == [row EXCEPT !.open = row.open /\ row.kind # "error"]
         IN  /\ new \in Row /\ new.kind = row.kind /\ new.token = row.token
             /\ new.open <=> row.open /\ row.kind # "error"
<1>1. (row.open /\ row.kind # "error") \in BOOLEAN
  OBVIOUS
<1>2. ASSUME NEW b \in BOOLEAN
      PROVE  LET new == [row EXCEPT !.open = b]
             IN  new \in Row /\ new.kind = row.kind /\ new.token = row.token /\ new.open = b
  BY DEF Row
<1> QED BY <1>1, <1>2

-----------------------------------------------------------------------------
(* What a poll observes and announces.                                     *)

\* What a poll observes is well typed, and an error is what has error ids.
LEMMA ObservedFacts ==
  ASSUME WellTyped
  PROVE  /\ Errors \in SUBSET ErrorId /\ Observed \in State \ {"none"}
         /\ TrainRecoveries \subseteq Attempt /\ FreshRecoveries \subseteq TrainRecoveries \ runtime.seen
         /\ runtime.gen \in Nat /\ runtime.since \in Nat /\ runtime.state \in State
         /\ runtime.seen \subseteq Attempt /\ runtime.targets \subseteq Jobs
         /\ Generation \in Nat /\ Generation = (IF Changed THEN runtime.gen + 1 ELSE runtime.gen)
         /\ Failing \subseteq Jobs
         /\ Observed = "error" <=> Errors # {}
         /\ Observed = "complete" => Confirmed = Jobs
<1> USE DEF WellTyped
<1>1. Failing \subseteq Jobs /\ Errors \subseteq ErrorId
  BY DEF Errors, ErrorId, Failing, JobsIn
<1>2. Observed \in State \ {"none"} /\ (Observed = "error" <=> Errors # {})
  BY DEF Observed, State
<1>3. TrainRecoveries \subseteq Attempt
  BY AlertsAssumption DEF TrainRecoveries, Attempt, JobsIn, AlertsAssumption
<1>4. FreshRecoveries \subseteq TrainRecoveries \ runtime.seen
  BY Zenon DEF FreshRecoveries
<1>5. /\ runtime.gen \in Nat /\ runtime.since \in Nat /\ runtime.state \in State
      /\ runtime.seen \subseteq Attempt /\ runtime.targets \subseteq Jobs
  BY DEF Runtime
<1>6. ASSUME Observed = "complete", NEW j \in Jobs PROVE j \in Confirmed
  <2>1. Errors = {} /\ JobsIn({"queued", "running", "ready"}) = {}
    BY <1>6 DEF Observed
  <2>2. jstat[j] \notin {"failed", "unknown"}
    <3>1. ASSUME j \in Failing PROVE FALSE
      <4>1. <<j, jstat[j]>> \in Errors BY <3>1 DEF Errors
      <4> QED BY <2>1, <4>1
    <3> QED BY <3>1 DEF Failing, JobsIn
  <2>3. jstat[j] \notin {"queued", "running", "ready"}
    BY <2>1 DEF JobsIn
  <2>4. jstat[j] = "succeeded"
    BY <2>2, <2>3 DEF JobState
  <2> QED BY <2>4 DEF Confirmed, JobsIn
<1>7. Confirmed \subseteq Jobs
  BY DEF Confirmed, JobsIn
<1>8. Observed = "complete" => Confirmed = Jobs
  BY <1>6, <1>7
<1>9. Generation \in Nat /\ Generation = (IF Changed THEN runtime.gen + 1 ELSE runtime.gen)
  BY <1>5 DEF Generation
<1> QED BY <1>1, <1>2, <1>3, <1>4, <1>5, <1>8, <1>9

\* The alerts of a poll, as a set.
Announced(a) ==
  /\ ~Known(a.kind, a.token)
  /\ \/ FreshRecoveries # {} /\ a = Alert("recovered", <<"train batch", FreshRecoveries>>)
     \/ Starts /\ a = Alert("started", "first-execution")
     \/ Recovered /\ FreshRecoveries = {} /\ a = Alert("recovered", <<"campaign", runtime.since>>)
     \/ Observed = "error" /\ (Changed \/ NewError) /\ a = Alert("error", <<Generation, Errors>>)
     \/ Observed = "complete" /\ Changed /\ a = Alert("complete", Generation)

\* The components of an id.
LEMMA PairFacts ==
  ASSUME NEW t, NEW a, NEW b, t = <<a, b>>
  PROVE  t[1] = a /\ t[2] = b
OBVIOUS

\* A new alert is open, with the kind and the token it was made of.
LEMMA AlertFacts ==
  ASSUME NEW kind, NEW token
  PROVE  Alert(kind, token).kind = kind /\ Alert(kind, token).token = token /\ Alert(kind, token).open
BY DEF Alert

\* A poll writes what it announces and nothing else, two alerts at most.
LEMMA NewsFacts ==
  ASSUME WellTyped
  PROVE  /\ NewAlerts \in Seq(Row) /\ Len(NewAlerts) <= 2
         /\ \A a : In(a, NewAlerts) <=> Announced(a)
<1> DEFINE n1 == FreshRecoveries # {}
           n3 == Recovered /\ FreshRecoveries = {}
           n4 == Observed = "error" /\ (Changed \/ NewError)
           n5 == Observed = "complete" /\ Changed
           a1 == Alert("recovered", <<"train batch", FreshRecoveries>>)
           a2 == Alert("started", "first-execution")
           a3 == Alert("recovered", <<"campaign", runtime.since>>)
           a4 == Alert("error", <<Generation, Errors>>)
           a5 == Alert("complete", Generation)
           s1 == Announce(n1, "recovered", <<"train batch", FreshRecoveries>>)
           s2 == Announce(Starts, "started", "first-execution")
           s3 == Announce(n3, "recovered", <<"campaign", runtime.since>>)
           s4 == Announce(n4, "error", <<Generation, Errors>>)
           s5 == Announce(n5, "complete", Generation)
<1>1. a1 \in Row /\ a2 \in Row /\ a3 \in Row /\ a4 \in Row /\ a5 \in Row
  <2>1. /\ FreshRecoveries \in SUBSET Attempt /\ Errors \in SUBSET ErrorId
        /\ Generation \in Nat /\ runtime.since \in Nat
    BY ObservedFacts
  <2>2. a1 \in Row BY <2>1 DEF Alert, Row
  <2>3. a2 \in Row BY <2>1 DEF Alert, Row
  <2>4. a3 \in Row BY <2>1 DEF Alert, Row
  <2>5. a4 \in Row BY <2>1 DEF Alert, Row
  <2>6. a5 \in Row BY <2>1 DEF Alert, Row
  <2> QED BY <2>2, <2>3, <2>4, <2>5, <2>6
<1>2. /\ s1 = IF n1 /\ ~Known(a1.kind, a1.token) THEN <<a1>> ELSE <<>>
      /\ s2 = IF Starts /\ ~Known(a2.kind, a2.token) THEN <<a2>> ELSE <<>>
      /\ s3 = IF n3 /\ ~Known(a3.kind, a3.token) THEN <<a3>> ELSE <<>>
      /\ s4 = IF n4 /\ ~Known(a4.kind, a4.token) THEN <<a4>> ELSE <<>>
      /\ s5 = IF n5 /\ ~Known(a5.kind, a5.token) THEN <<a5>> ELSE <<>>
  <2>1. /\ a1.kind = "recovered" /\ a1.token = <<"train batch", FreshRecoveries>>
        /\ a2.kind = "started" /\ a2.token = "first-execution"
        /\ a3.kind = "recovered" /\ a3.token = <<"campaign", runtime.since>>
        /\ a4.kind = "error" /\ a4.token = <<Generation, Errors>>
        /\ a5.kind = "complete" /\ a5.token = Generation
    BY DEF Alert
  <2>2. s1 = IF n1 /\ ~Known(a1.kind, a1.token) THEN <<a1>> ELSE <<>>
    BY <2>1 DEF Announce
  <2>3. s2 = IF Starts /\ ~Known(a2.kind, a2.token) THEN <<a2>> ELSE <<>>
    BY <2>1 DEF Announce
  <2>4. s3 = IF n3 /\ ~Known(a3.kind, a3.token) THEN <<a3>> ELSE <<>>
    BY <2>1 DEF Announce
  <2>5. s4 = IF n4 /\ ~Known(a4.kind, a4.token) THEN <<a4>> ELSE <<>>
    BY <2>1 DEF Announce
  <2>6. s5 = IF n5 /\ ~Known(a5.kind, a5.token) THEN <<a5>> ELSE <<>>
    BY <2>1 DEF Announce
  <2> QED BY <2>2, <2>3, <2>4, <2>5, <2>6
<1>3. /\ n1 => ~n3
      /\ n4 => ~n5 /\ ~Starts /\ ~n3
      /\ n5 => ~Starts /\ ~n3
  BY DEF Starts, Recovered
<1>4. NewAlerts = (((s1 \o s2) \o s3) \o s4) \o s5
  BY DEF NewAlerts
<1>5. \A a : Announced(a) <=>
        /\ ~Known(a.kind, a.token)
        /\ (n1 /\ a = a1) \/ (Starts /\ a = a2) \/ (n3 /\ a = a3) \/ (n4 /\ a = a4) \/ (n5 /\ a = a5)
  BY Zenon DEF Announced
<1> HIDE DEF n1, n3, n4, n5, a1, a2, a3, a4, a5, s1, s2, s3, s4, s5
<1>6. /\ s1 \in Seq(Row) /\ Len(s1) \in {0, 1} /\ (~n1 => Len(s1) = 0)
      /\ \A a : In(a, s1) <=> n1 /\ ~Known(a1.kind, a1.token) /\ a = a1
  BY <1>1, <1>2, SingleFacts
<1>7. /\ s2 \in Seq(Row) /\ Len(s2) \in {0, 1} /\ (~Starts => Len(s2) = 0)
      /\ \A a : In(a, s2) <=> Starts /\ ~Known(a2.kind, a2.token) /\ a = a2
  BY <1>1, <1>2, SingleFacts
<1>8. /\ s3 \in Seq(Row) /\ Len(s3) \in {0, 1} /\ (~n3 => Len(s3) = 0)
      /\ \A a : In(a, s3) <=> n3 /\ ~Known(a3.kind, a3.token) /\ a = a3
  BY <1>1, <1>2, SingleFacts
<1>9. /\ s4 \in Seq(Row) /\ Len(s4) \in {0, 1} /\ (~n4 => Len(s4) = 0)
      /\ \A a : In(a, s4) <=> n4 /\ ~Known(a4.kind, a4.token) /\ a = a4
  BY <1>1, <1>2, SingleFacts
<1>10. /\ s5 \in Seq(Row) /\ Len(s5) \in {0, 1} /\ (~n5 => Len(s5) = 0)
       /\ \A a : In(a, s5) <=> n5 /\ ~Known(a5.kind, a5.token) /\ a = a5
  BY <1>1, <1>2, SingleFacts
<1> DEFINE t2 == s1 \o s2
           t3 == t2 \o s3
           t4 == t3 \o s4
<1>11. /\ t2 \in Seq(Row) /\ Len(t2) = Len(s1) + Len(s2)
       /\ \A a : In(a, t2) <=> In(a, s1) \/ In(a, s2)
  BY <1>6, <1>7, ConcatFacts
<1> HIDE DEF t2
<1>12. /\ t3 \in Seq(Row) /\ Len(t3) = Len(t2) + Len(s3)
       /\ \A a : In(a, t3) <=> In(a, t2) \/ In(a, s3)
  BY <1>8, <1>11, ConcatFacts
<1> HIDE DEF t3
<1>13. /\ t4 \in Seq(Row) /\ Len(t4) = Len(t3) + Len(s4)
       /\ \A a : In(a, t4) <=> In(a, t3) \/ In(a, s4)
  BY <1>9, <1>12, ConcatFacts
<1> HIDE DEF t4
<1>14. NewAlerts = t4 \o s5
  BY <1>4 DEF t2, t3, t4
<1>15. /\ NewAlerts \in Seq(Row) /\ Len(NewAlerts) = Len(t4) + Len(s5)
       /\ \A a : In(a, NewAlerts) <=> In(a, t4) \/ In(a, s5)
  BY <1>10, <1>13, <1>14, ConcatFacts
<1>16. Len(NewAlerts) <= 2
  <2>1. Len(NewAlerts) = Len(s1) + Len(s2) + Len(s3) + Len(s4) + Len(s5)
    BY <1>6, <1>7, <1>8, <1>9, <1>10, <1>11, <1>12, <1>13, <1>15
  <2>2. /\ Len(s1) = 0 \/ Len(s3) = 0
        /\ Len(s4) = 0 \/ (Len(s5) = 0 /\ Len(s2) = 0 /\ Len(s3) = 0)
        /\ Len(s5) = 0 \/ (Len(s2) = 0 /\ Len(s3) = 0)
    BY <1>3, <1>6, <1>7, <1>8, <1>9, <1>10, Zenon
  <2>3. /\ Len(s1) \in 0 .. 1 /\ Len(s2) \in 0 .. 1 /\ Len(s3) \in 0 .. 1
        /\ Len(s4) \in 0 .. 1 /\ Len(s5) \in 0 .. 1
    BY <1>6, <1>7, <1>8, <1>9, <1>10
  <2> DEFINE l1 == Len(s1)
             l2 == Len(s2)
             l3 == Len(s3)
             l4 == Len(s4)
             l5 == Len(s5)
  <2> HIDE DEF l1, l2, l3, l4, l5
  <2>4. l1 + l2 + l3 + l4 + l5 <= 2
    BY <2>2, <2>3 DEF l1, l2, l3, l4, l5
  <2> QED BY <2>1, <2>4 DEF l1, l2, l3, l4, l5
<1>17. ASSUME NEW a PROVE In(a, NewAlerts) <=> Announced(a)
  <2>1. In(a, NewAlerts) <=> In(a, s1) \/ In(a, s2) \/ In(a, s3) \/ In(a, s4) \/ In(a, s5)
    BY <1>11, <1>12, <1>13, <1>15, Zenon
  <2>2. /\ In(a, s1) <=> (n1 /\ ~Known(a.kind, a.token) /\ a = a1)
        /\ In(a, s2) <=> (Starts /\ ~Known(a.kind, a.token) /\ a = a2)
        /\ In(a, s3) <=> (n3 /\ ~Known(a.kind, a.token) /\ a = a3)
        /\ In(a, s4) <=> (n4 /\ ~Known(a.kind, a.token) /\ a = a4)
        /\ In(a, s5) <=> (n5 /\ ~Known(a.kind, a.token) /\ a = a5)
    BY <1>6, <1>7, <1>8, <1>9, <1>10, Zenon
  <2>3. Announced(a) <=>
          /\ ~Known(a.kind, a.token)
          /\ (n1 /\ a = a1) \/ (Starts /\ a = a2) \/ (n3 /\ a = a3) \/ (n4 /\ a = a4) \/ (n5 /\ a = a5)
    BY <1>5, Zenon
  <2> HIDE DEF Announced
  <2> QED BY <2>1, <2>2, <2>3, Zenon
<1> QED BY <1>15, <1>16, <1>17

\* The rows after a poll: those before, errors superseded if the campaign is in
\* none, and the announced ones.
LEMMA PollRows ==
  ASSUME WellTyped, Poll
  PROVE  /\ alerts' \in Seq(Row) /\ Len(alerts') = Len(alerts) + Len(NewAlerts)
         /\ DOMAIN alerts \subseteq DOMAIN alerts'
         /\ \A i \in DOMAIN alerts :
              /\ alerts'[i].kind = alerts[i].kind /\ alerts'[i].token = alerts[i].token
              /\ alerts'[i].open <=> (alerts[i].open /\ (Observed = "error" \/ alerts[i].kind # "error"))
         /\ \A k \in DOMAIN NewAlerts : alerts'[Len(alerts) + k] = NewAlerts[k]
         /\ \A i \in DOMAIN alerts' \ DOMAIN alerts : Announced(alerts'[i])
         /\ \A a : Announced(a) => \E i \in DOMAIN alerts' \ DOMAIN alerts : alerts'[i] = a
<1> DEFINE old == IF Observed = "error" THEN alerts ELSE Supersede(alerts)
<1>0. /\ alerts \in Seq(Row) /\ Len(alerts) \in Nat /\ DOMAIN alerts = 1 .. Len(alerts)
      /\ \A i \in DOMAIN alerts : alerts[i] \in Row
      /\ NewAlerts \in Seq(Row) /\ Len(NewAlerts) \in Nat /\ DOMAIN NewAlerts = 1 .. Len(NewAlerts)
  BY NewsFacts DEF WellTyped
<1>1. /\ old \in Seq(Row) /\ Len(old) = Len(alerts) /\ DOMAIN old = DOMAIN alerts
      /\ \A i \in DOMAIN alerts :
           /\ old[i].kind = alerts[i].kind /\ old[i].token = alerts[i].token
           /\ old[i].open <=> (alerts[i].open /\ (Observed = "error" \/ alerts[i].kind # "error"))
  <2>1. CASE Observed = "error"
    BY <1>0, <2>1
  <2>2. CASE Observed # "error"
    <3>1. old = [i \in DOMAIN alerts |-> [alerts[i] EXCEPT !.open = alerts[i].open /\ alerts[i].kind # "error"]]
      BY <2>2 DEF Supersede
    <3> HIDE DEF old
    <3>2. ASSUME NEW i \in DOMAIN alerts
          PROVE  /\ old[i] \in Row /\ old[i].kind = alerts[i].kind /\ old[i].token = alerts[i].token
                 /\ old[i].open <=> (alerts[i].open /\ alerts[i].kind # "error")
      BY <1>0, <3>1, RowFacts
    <3>3. old \in Seq(Row) /\ Len(old) = Len(alerts) /\ DOMAIN old = DOMAIN alerts
      <4>1. old \in [DOMAIN alerts -> Row]
        <5>1. \A i \in DOMAIN alerts : old[i] \in Row BY <3>2
        <5> QED BY <3>1, <5>1
      <4> HIDE <3>1
      <4> QED BY <1>0, <4>1
    <3> QED BY <2>2, <3>2, <3>3
  <2> QED BY <2>1, <2>2
<1>2. alerts' = old \o NewAlerts
  BY DEF Poll
<1> HIDE DEF old
<1>3. /\ alerts' \in Seq(Row) /\ Len(alerts') = Len(old) + Len(NewAlerts)
      /\ \A i \in 1 .. Len(old) : alerts'[i] = old[i]
      /\ \A k \in 1 .. Len(NewAlerts) : alerts'[Len(old) + k] = NewAlerts[k]
  BY <1>0, <1>1, <1>2, ConcatFacts
<1>4. DOMAIN alerts' = 1 .. Len(alerts) + Len(NewAlerts)
  BY <1>1, <1>3
<1>5. ASSUME NEW i \in DOMAIN alerts' \ DOMAIN alerts PROVE Announced(alerts'[i])
  <2>1. i - Len(alerts) \in DOMAIN NewAlerts /\ Len(alerts) + (i - Len(alerts)) = i
    BY <1>0, <1>4
  <2>2. alerts'[i] = NewAlerts[i - Len(alerts)]
    BY <1>0, <1>1, <1>3, <2>1
  <2>3. In(alerts'[i], NewAlerts)
    BY <2>1, <2>2 DEF In
  <2> QED BY <2>3, NewsFacts
<1>6. ASSUME NEW a, Announced(a)
      PROVE  \E i \in DOMAIN alerts' \ DOMAIN alerts : alerts'[i] = a
  <2>1. PICK k \in DOMAIN NewAlerts : NewAlerts[k] = a
    BY <1>6, NewsFacts DEF In
  <2>2. Len(alerts) + k \in DOMAIN alerts' \ DOMAIN alerts
    BY <1>0, <1>4
  <2> QED BY <1>0, <1>1, <1>3, <2>1, <2>2
<1>7. \A k \in DOMAIN NewAlerts : alerts'[Len(alerts) + k] = NewAlerts[k]
  BY <1>0, <1>1, <1>3
<1>8. DOMAIN alerts \subseteq DOMAIN alerts'
  BY <1>0, <1>4
<1>9. \A i \in DOMAIN alerts : alerts'[i] = old[i]
  BY <1>0, <1>1, <1>3
<1> QED BY <1>1, <1>3, <1>5, <1>6, <1>7, <1>8, <1>9

\* The row of the campaign after a poll.
LEMMA PollRuntime ==
  ASSUME WellTyped, RecoveryIsDated, Poll
  PROVE  /\ runtime' \in Runtime
         /\ runtime'.state = Observed /\ runtime'.gen = Generation /\ runtime'.errors = Errors
         /\ runtime'.recovering = Recovering
         /\ runtime'.since = (IF Observed = "error" THEN Generation ELSE IF Recovering THEN runtime.since ELSE 0)
         /\ runtime'.seen = runtime.seen \cup TrainRecoveries
<1> DEFINE started == runtime.started \/ Starts \/ Observed \in {"complete", "error"}
           targets == IF Recovering THEN Targets ELSE {}
           since   == IF Observed = "error" THEN Generation ELSE IF Recovering THEN runtime.since ELSE 0
           seen    == runtime.seen \cup TrainRecoveries
           recovering == Recovering
<1>1. runtime' = [state |-> Observed, gen |-> Generation, started |-> started, errors |-> Errors,
                  recovering |-> recovering, targets |-> targets, since |-> since, retired |-> FALSE, seen |-> seen]
  BY DEF Poll
<1>2. started \in BOOLEAN
  BY Zenon
<1>3. recovering \in BOOLEAN
  BY Zenon DEF Recovering
<1>4. /\ Observed \in State /\ Generation \in Nat /\ Errors \in SUBSET ErrorId
      /\ since \in Nat /\ seen \in SUBSET Attempt
  BY ObservedFacts
<1>5. targets \in SUBSET Jobs
  BY ObservedFacts DEF Targets
<1> HIDE DEF started, targets, since, seen, recovering
<1>6. runtime' \in Runtime
  BY <1>1, <1>2, <1>3, <1>4, <1>5 DEF Runtime
<1>7. /\ runtime'.state = Observed /\ runtime'.gen = Generation /\ runtime'.errors = Errors
      /\ runtime'.recovering = recovering /\ runtime'.since = since /\ runtime'.seen = seen
  BY <1>1
<1> QED BY <1>6, <1>7 DEF since, seen, recovering

-----------------------------------------------------------------------------
(* The invariant is inductive.                                             *)

\* Nothing is announced at first.
LEMMA AlertsInit == Init => AlertsInv
<1> SUFFICES ASSUME Init PROVE AlertsInv
  OBVIOUS
<1>1. runtime \in Runtime
  BY DEF Init, Runtime, State
<1>2. alerts \in Seq(Row) /\ DOMAIN alerts = {}
  BY DEF Init
<1>3. jstat \in [Jobs -> JobState] /\ failures \in [Jobs -> Nat]
  BY DEF Init, JobState
<1>4. runtime.state = "none" /\ ~runtime.recovering
  BY DEF Init
<1> QED BY <1>1, <1>2, <1>3, <1>4
        DEF AlertsInv, WellTyped, IdsAreOld, RecoveryIsDated, OnlyErrorsEnd, ErrorIsAnnounced

\* Jobs and transfers move on: nothing is told of it yet.
LEMMA StudyKeeps ==
  ASSUME AlertsInv, StudyNext
  PROVE  AlertsInv'
<1>0. jstat \in [Jobs -> JobState] /\ failures \in [Jobs -> Nat]
  BY DEF AlertsInv, WellTyped
<1>1. jstat' \in [Jobs -> JobState] /\ failures' \in [Jobs -> Nat]
  <2>1. ASSUME NEW j \in Jobs, NEW s \in JobState, jstat' = [jstat EXCEPT ![j] = s]
        PROVE  jstat' \in [Jobs -> JobState]
    BY <1>0, <2>1
  <2>2. ASSUME NEW j \in Jobs, JobFails(j)
        PROVE  jstat' \in [Jobs -> JobState] /\ failures' \in [Jobs -> Nat]
    <3>1. failures' \in [Jobs -> Nat]
      BY <1>0, <2>2 DEF JobFails
    <3>2. PICK s \in {"failed", "queued"} : jstat' = [jstat EXCEPT ![j] = s]
      BY <2>2 DEF JobFails
    <3>3. s \in JobState
      BY DEF JobState
    <3> QED BY <2>1, <3>1, <3>2, <3>3
  <2>3. ASSUME NEW j \in Jobs,
               StartJob(j) \/ ReportReady(j) \/ JobSucceeds(j) \/ JobLost(j) \/ JobFound(j) \/ RetryFailed(j)
        PROVE  jstat' \in [Jobs -> JobState] /\ failures' \in [Jobs -> Nat]
    <3>1. /\ \E s \in {"running", "ready", "succeeded", "unknown", "queued"} : jstat' = [jstat EXCEPT ![j] = s]
          /\ failures' = failures
      BY <2>3 DEF StartJob, ReportReady, JobSucceeds, JobLost, JobFound, RetryFailed
    <3>2. {"running", "ready", "succeeded", "unknown", "queued"} \subseteq JobState
      BY DEF JobState
    <3> QED BY <1>0, <2>1, <3>1, <3>2
  <2>4. CASE Publish \/ DownloadDies \/ DownloadRepaired
    BY <1>0, <2>4 DEF Publish, DownloadDies, DownloadRepaired
  <2> QED BY <2>2, <2>3, <2>4 DEF StudyNext
<1>2. runtime' = runtime /\ alerts' = alerts
  BY DEF StudyNext
<1> QED BY <1>1, <1>2
        DEF AlertsInv, WellTyped, IdsAreOld, RecoveryIsDated, OnlyErrorsEnd, ErrorIsAnnounced

\* A campaign that is left alone keeps what was announced.
LEMMA RetireKeeps ==
  ASSUME AlertsInv, Retire
  PROVE  AlertsInv'
<1>1. runtime \in Runtime
  BY DEF AlertsInv, WellTyped
<1>2. /\ runtime' \in Runtime /\ runtime'.state = runtime.state /\ runtime'.gen = runtime.gen
      /\ runtime'.errors = runtime.errors /\ runtime'.recovering = runtime.recovering
      /\ runtime'.since = runtime.since /\ runtime'.seen = runtime.seen
  BY <1>1 DEF Retire, Runtime
<1>3. UNCHANGED <<jstat, failures, alerts>>
  BY DEF Retire, study
<1> QED BY <1>2, <1>3
        DEF AlertsInv, WellTyped, IdsAreOld, RecoveryIsDated, OnlyErrorsEnd, ErrorIsAnnounced

\* The generation never falls, and rises when the state changes.
LEMMA Dates ==
  ASSUME AlertsInv, Poll
  PROVE  /\ runtime.gen \in Nat /\ runtime.since \in Nat /\ Generation \in Nat /\ runtime'.since \in Nat
         /\ runtime.gen <= Generation
         /\ runtime.state # Observed => runtime.gen < Generation
         /\ Recovered => runtime.recovering /\ Observed = "running"
         /\ Recovering /\ Observed # "error" => runtime.recovering /\ runtime'.since = runtime.since
         /\ RecoveryIsDated'
<1>1. /\ runtime.gen \in Nat /\ runtime.since \in Nat /\ Generation \in Nat
      /\ runtime.gen <= Generation
      /\ runtime.state # Observed => runtime.gen < Generation
  BY ObservedFacts DEF AlertsInv, Changed
<1>2. /\ runtime'.state = Observed /\ runtime'.gen = Generation
      /\ runtime'.recovering = Recovering
      /\ runtime'.since = (IF Observed = "error" THEN Generation ELSE IF Recovering THEN runtime.since ELSE 0)
  BY PollRuntime DEF AlertsInv
<1>3. Recovered => runtime.recovering /\ Observed = "running"
  BY DEF Recovered
<1>4. Recovering <=> Observed = "error" \/ (runtime.recovering /\ ~Recovered /\ Observed # "complete")
  BY Zenon DEF Recovering
<1>5. RecoveryIsDated
  BY DEF AlertsInv
<1>6. RecoveryIsDated'
  <2>1. CASE Observed = "error"
    BY <1>1, <1>2, <1>4, <2>1 DEF RecoveryIsDated
  <2>2. CASE Observed # "error"
    <3>1. Recovering => runtime'.since = runtime.since /\ runtime.since < Generation
      BY <1>1, <1>2, <1>4, <1>5, <2>2 DEF RecoveryIsDated
    <3> QED BY <1>1, <1>2, <2>2, <3>1 DEF RecoveryIsDated
  <2> QED BY <2>1, <2>2
<1> QED BY <1>1, <1>2, <1>3, <1>4, <1>6

\* What is announced is new.
LEMMA NewsAreNew ==
  ASSUME AlertsInv
  PROVE  /\ Changed => ~Known("error", <<Generation, Errors>>) /\ ~Known("complete", Generation)
         /\ FreshRecoveries # {} => ~Known("recovered", <<"train batch", FreshRecoveries>>)
         /\ runtime.recovering => ~Known("recovered", <<"campaign", runtime.since>>)
<1>0. /\ WellTyped /\ IdsAreOld /\ runtime.gen \in Nat /\ runtime.since \in Nat
      /\ FreshRecoveries \cap runtime.seen = {}
  BY ObservedFacts DEF AlertsInv
<1>1. ASSUME Changed, NEW i \in DOMAIN alerts, alerts[i].kind = "error", alerts[i].token = <<Generation, Errors>>
      PROVE  FALSE
  <2>1. alerts[i].token[1] <= runtime.gen BY <1>0, <1>1 DEF IdsAreOld
  <2>2. alerts[i].token[1] = runtime.gen + 1 BY <1>1 DEF Generation
  <2> QED BY <1>0, <2>1, <2>2
<1>2. ASSUME Changed, NEW i \in DOMAIN alerts, alerts[i].kind = "complete", alerts[i].token = Generation
      PROVE  FALSE
  <2>1. alerts[i].token <= runtime.gen BY <1>0, <1>2 DEF IdsAreOld
  <2>2. alerts[i].token = runtime.gen + 1 BY <1>2 DEF Generation
  <2> QED BY <1>0, <2>1, <2>2
<1>3. ASSUME FreshRecoveries # {}, NEW i \in DOMAIN alerts, alerts[i].kind = "recovered",
             alerts[i].token = <<"train batch", FreshRecoveries>>
      PROVE  FALSE
  <2>1. alerts[i].token[1] = "train batch" /\ alerts[i].token[2] = FreshRecoveries
    <3>1. alerts[i].token = <<"train batch", FreshRecoveries>> BY <1>3
    <3> HIDE DEF FreshRecoveries
    <3> QED BY <3>1, PairFacts, Zenon
  <2>2. FreshRecoveries \subseteq runtime.seen BY <1>0, <1>3, <2>1 DEF IdsAreOld
  <2> QED BY <1>0, <1>3, <2>2
<1>4. ASSUME runtime.recovering, NEW i \in DOMAIN alerts, alerts[i].kind = "recovered",
             alerts[i].token = <<"campaign", runtime.since>>
      PROVE  FALSE
  <2>1. alerts[i].token[1] = "campaign" /\ alerts[i].token[2] = runtime.since
    <3> DEFINE t == alerts[i].token
               s == runtime.since
    <3>1. t = <<"campaign", s>> BY <1>4
    <3> HIDE DEF t, s
    <3>2. t[1] = "campaign" /\ t[2] = s BY <3>1
    <3> QED BY <3>2 DEF t, s
  <2>2. runtime.since < runtime.since BY <1>0, <1>4, <2>1 DEF IdsAreOld
  <2> QED BY <1>0, <2>2
<1>5. Changed => ~Known("error", <<Generation, Errors>>) BY <1>1 DEF Known
<1>6. Changed => ~Known("complete", Generation) BY <1>2 DEF Known
<1>7. FreshRecoveries # {} => ~Known("recovered", <<"train batch", FreshRecoveries>>) BY <1>3 DEF Known
<1>8. runtime.recovering => ~Known("recovered", <<"campaign", runtime.since>>) BY <1>4 DEF Known
<1> QED BY <1>5, <1>6, <1>7, <1>8

\* What an announcement says, by its kind.
LEMMA AnnouncedFacts ==
  ASSUME NEW a, Announced(a)
  PROVE  /\ a.open
         /\ a.kind = "complete" => Observed = "complete" /\ a.token = Generation
         /\ a.kind = "error" => Observed = "error" /\ a.token = <<Generation, Errors>> /\ a.token[1] = Generation
         /\ a.kind = "recovered" =>
              \/ a.token[1] = "train batch" /\ a.token[2] = FreshRecoveries
              \/ Recovered /\ a.token[1] = "campaign" /\ a.token[2] = runtime.since
<1>1. CASE a = Alert("recovered", <<"train batch", FreshRecoveries>>)
  <2>1. a.open /\ a.kind = "recovered" /\ a.token = <<"train batch", FreshRecoveries>>
    BY <1>1, AlertFacts, Zenon
  <2> DEFINE t == a.token
  <2> HIDE DEF t
  <2>2. t[1] = "train batch" /\ t[2] = FreshRecoveries
    <3>1. t = <<"train batch", FreshRecoveries>> BY <2>1 DEF t
    <3> QED BY <3>1
  <2>3. a.token[1] = "train batch" /\ a.token[2] = FreshRecoveries
    BY <2>2 DEF t
  <2> QED BY <2>1, <2>3
<1>2. CASE a = Alert("started", "first-execution")
  <2>1. a.open /\ a.kind = "started"
    BY <1>2, AlertFacts, Zenon
  <2> QED BY <2>1
<1>3. CASE Recovered /\ a = Alert("recovered", <<"campaign", runtime.since>>)
  <2>1. a.open /\ a.kind = "recovered" /\ a.token = <<"campaign", runtime.since>>
    BY <1>3, AlertFacts, Zenon
  <2>2. a.token[1] = "campaign" /\ a.token[2] = runtime.since
    BY <2>1, PairFacts, Zenon
  <2> QED BY <1>3, <2>1, <2>2
<1>4. CASE Observed = "error" /\ a = Alert("error", <<Generation, Errors>>)
  <2>1. a.open /\ a.kind = "error" /\ a.token = <<Generation, Errors>>
    BY <1>4, AlertFacts, Zenon
  <2>2. a.token[1] = Generation
    BY <2>1, PairFacts, Zenon
  <2> QED BY <1>4, <2>1, <2>2
<1>5. CASE Observed = "complete" /\ a = Alert("complete", Generation)
  <2>1. a.open /\ a.kind = "complete" /\ a.token = Generation
    BY <1>5, AlertFacts, Zenon
  <2> QED BY <1>5, <2>1
<1> QED BY <1>1, <1>2, <1>3, <1>4, <1>5 DEF Announced

\* The ids of the rows, by kind.
LEMMA IdFacts ==
  ASSUME NEW row \in Row
  PROVE  /\ row.kind = "complete" => row.token \in Nat
         /\ row.kind = "error" => row.token[1] \in Nat
         /\ row.kind = "recovered" /\ row.token[1] = "campaign" => row.token[2] \in Nat
         /\ row.open \in BOOLEAN
BY DEF Row

\* A poll uses no id that a later one needs.
LEMMA PollIds ==
  ASSUME AlertsInv, Poll
  PROVE  IdsAreOld'
<1>0. /\ WellTyped /\ IdsAreOld /\ RecoveryIsDated
  BY DEF AlertsInv
<1>1. /\ runtime'.gen = Generation /\ runtime'.recovering = Recovering /\ runtime'.seen = runtime.seen \cup TrainRecoveries
      /\ runtime'.since = (IF Observed = "error" THEN Generation ELSE IF Recovering THEN runtime.since ELSE 0)
  BY <1>0, PollRuntime
<1>2. /\ runtime.gen \in Nat /\ runtime.since \in Nat /\ Generation \in Nat /\ runtime.gen <= Generation
      /\ Recovered => runtime.recovering /\ Observed = "running"
      /\ Recovering /\ Observed # "error" => runtime.recovering /\ runtime'.since = runtime.since
  BY Dates
<1>3. FreshRecoveries \subseteq TrainRecoveries
  BY <1>0, ObservedFacts
<1> DEFINE Old(row) ==
      /\ row.kind = "complete" => row.token <= Generation
      /\ row.kind = "error" => row.token[1] <= Generation
      /\ row.kind = "recovered" /\ row.token[1] = "train batch" =>
           row.token[2] \subseteq runtime.seen \cup TrainRecoveries
      /\ row.kind = "recovered" /\ row.token[1] = "campaign" =>
           /\ row.token[2] < Generation
           /\ Recovering => row.token[2] < runtime'.since
<1>4. ASSUME NEW i \in DOMAIN alerts PROVE Old(alerts[i])
  <2> DEFINE row == alerts[i]
  <2>1. row \in Row
    BY <1>0 DEF WellTyped
  <2>2. /\ row.kind = "complete" => row.token \in Nat /\ row.token <= runtime.gen
        /\ row.kind = "error" => row.token[1] \in Nat /\ row.token[1] <= runtime.gen
        /\ row.kind = "recovered" /\ row.token[1] = "train batch" => row.token[2] \subseteq runtime.seen
        /\ row.kind = "recovered" /\ row.token[1] = "campaign" =>
             /\ row.token[2] \in Nat /\ row.token[2] < runtime.gen
             /\ runtime.recovering => row.token[2] < runtime.since
    BY <1>0, <2>1, IdFacts DEF IdsAreOld
  <2> HIDE DEF row
  <2>3. row.kind = "complete" => row.token <= Generation
    BY <1>2, <2>2
  <2>4. row.kind = "error" => row.token[1] <= Generation
    BY <1>2, <2>2
  <2>5. row.kind = "recovered" /\ row.token[1] = "train batch" =>
          row.token[2] \subseteq runtime.seen \cup TrainRecoveries
    BY <2>2
  <2>6. ASSUME row.kind = "recovered", row.token[1] = "campaign"
        PROVE  row.token[2] < Generation /\ (Recovering => row.token[2] < runtime'.since)
    <3>1. row.token[2] \in Nat /\ row.token[2] < Generation
      BY <1>2, <2>2, <2>6
    <3>2. CASE Observed = "error"
      BY <1>1, <3>1, <3>2
    <3>3. CASE Observed # "error"
      BY <1>2, <2>2, <2>6, <3>1, <3>3
    <3> QED BY <3>1, <3>2, <3>3
  <2> QED BY <2>3, <2>4, <2>5, <2>6 DEF row
<1>5. ASSUME NEW i \in DOMAIN alerts' \ DOMAIN alerts PROVE Old(alerts'[i])
  <2> DEFINE row == alerts'[i]
  <2>1. Announced(row)
    BY <1>0, <1>5, PollRows
  <2> HIDE DEF row
  <2>2. /\ row.kind = "complete" => row.token = Generation
        /\ row.kind = "error" => row.token[1] = Generation
        /\ row.kind = "recovered" =>
             \/ row.token[1] = "train batch" /\ row.token[2] = FreshRecoveries
             \/ Recovered /\ row.token[1] = "campaign" /\ row.token[2] = runtime.since
    BY <2>1, AnnouncedFacts
  <2>3. row.kind = "complete" => row.token <= Generation
    BY <1>2, <2>2
  <2>4. row.kind = "error" => row.token[1] <= Generation
    BY <1>2, <2>2
  <2>5. row.kind = "recovered" /\ row.token[1] = "train batch" =>
          row.token[2] \subseteq runtime.seen \cup TrainRecoveries
    BY <1>3, <2>2
  <2>6. ASSUME row.kind = "recovered", row.token[1] = "campaign"
        PROVE  row.token[2] < Generation /\ ~Recovering
    <3>1. Recovered /\ row.token[2] = runtime.since
      BY <2>2, <2>6
    <3>2. runtime.recovering /\ Observed = "running"
      BY <1>2, <3>1
    <3>3. runtime.since < Generation
      <4>1. CASE runtime.state = "error"
        <5>1. runtime.since = runtime.gen
          BY <1>0, <4>1 DEF RecoveryIsDated
        <5>2. runtime.gen < Generation
          BY <3>2, <4>1, Dates
        <5> QED BY <5>1, <5>2
      <4>2. CASE runtime.state # "error"
        BY <1>0, <1>2, <3>2, <4>2 DEF RecoveryIsDated
      <4> QED BY <4>1, <4>2
    <3>4. ~Recovering
      BY <3>1, <3>2 DEF Recovering
    <3> QED BY <3>1, <3>3, <3>4
  <2> QED BY <2>3, <2>4, <2>5, <2>6 DEF row
<1>6. ASSUME NEW i \in DOMAIN alerts' PROVE Old(alerts'[i])
  <2>1. CASE i \in DOMAIN alerts
    <3>1. alerts'[i].kind = alerts[i].kind /\ alerts'[i].token = alerts[i].token
      BY <1>0, <2>1, PollRows
    <3> QED BY <1>4, <2>1, <3>1
  <2>2. CASE i \notin DOMAIN alerts
    BY <1>5, <1>6, <2>2
  <2> QED BY <2>1, <2>2
<1> QED BY <1>1, <1>6 DEF IdsAreOld

\* A poll announces the error it sees, unless that very one was announced.
LEMMA PollTellsErrors ==
  ASSUME AlertsInv, Poll
  PROVE  ErrorIsAnnounced' /\ OnlyErrorsEnd'
<1>0. /\ WellTyped /\ ErrorIsAnnounced /\ OnlyErrorsEnd
      /\ runtime'.state = Observed /\ runtime'.gen = Generation /\ runtime'.errors = Errors
  BY PollRuntime DEF AlertsInv
<1>1. /\ \A i \in DOMAIN alerts :
           /\ i \in DOMAIN alerts' /\ alerts'[i].kind = alerts[i].kind /\ alerts'[i].token = alerts[i].token
           /\ alerts'[i].open <=> (alerts[i].open /\ (Observed = "error" \/ alerts[i].kind # "error"))
      /\ \A i \in DOMAIN alerts' \ DOMAIN alerts : Announced(alerts'[i])
      /\ \A a : Announced(a) => \E i \in DOMAIN alerts' \ DOMAIN alerts : alerts'[i] = a
  BY <1>0, PollRows
<1>2. ASSUME Observed = "error"
      PROVE  \E i \in DOMAIN alerts' : alerts'[i].kind = "error" /\ alerts'[i].token = <<Generation, Errors>>
  <2>1. CASE Known("error", <<Generation, Errors>>)
    BY <1>1, <2>1 DEF Known
  <2>2. CASE ~Known("error", <<Generation, Errors>>)
    <3>1. Changed \/ NewError
      <4>1. SUFFICES ASSUME ~Changed, ~NewError PROVE FALSE
        OBVIOUS
      <4>2. runtime.state = "error" /\ runtime.errors = Errors /\ Generation = runtime.gen
        BY <1>2, <4>1 DEF Changed, NewError, Generation
      <4>3. Known("error", <<runtime.gen, runtime.errors>>)
        BY <1>0, <4>2 DEF ErrorIsAnnounced, Known
      <4> QED BY <2>2, <4>2, <4>3
    <3> DEFINE a == Alert("error", <<Generation, Errors>>)
    <3>2. a.kind = "error" /\ a.token = <<Generation, Errors>>
      BY AlertFacts
    <3>3. ~Known(a.kind, a.token)
      BY <2>2, <3>2
    <3>4. Announced(a)
      BY <1>2, <3>1, <3>3 DEF Announced
    <3>5. PICK i \in DOMAIN alerts' \ DOMAIN alerts : alerts'[i] = a
      BY <1>1, <3>4
    <3> QED BY <3>2, <3>5
  <2> QED BY <2>1, <2>2
<1>3. ASSUME NEW i \in DOMAIN alerts'
      PROVE  /\ alerts'[i].kind = "error" /\ alerts'[i].open => Observed = "error" /\ alerts'[i].token[1] = Generation
             /\ alerts'[i].kind # "error" => alerts'[i].open
  <2>1. CASE i \in DOMAIN alerts
    <3>1. /\ alerts'[i].kind = alerts[i].kind /\ alerts'[i].token = alerts[i].token
          /\ alerts'[i].open <=> (alerts[i].open /\ (Observed = "error" \/ alerts[i].kind # "error"))
      BY <1>1, <2>1
    <3>2. alerts[i].kind # "error" => alerts[i].open
      BY <1>0, <2>1 DEF OnlyErrorsEnd
    <3>3. ASSUME alerts[i].kind = "error", alerts[i].open, Observed = "error"
          PROVE  alerts[i].token[1] = Generation
      <4>1. runtime.state = "error" /\ alerts[i].token[1] = runtime.gen
        BY <1>0, <2>1, <3>3 DEF ErrorIsAnnounced
      <4>2. Generation = runtime.gen
        BY <3>3, <4>1 DEF Generation, Changed
      <4> QED BY <4>1, <4>2
    <3> QED BY <3>1, <3>2, <3>3
  <2>2. CASE i \notin DOMAIN alerts
    <3>1. Announced(alerts'[i])
      BY <1>1, <1>3, <2>2
    <3> QED BY <3>1, AnnouncedFacts
  <2> QED BY <2>1, <2>2
<1>4. OnlyErrorsEnd'
  BY <1>3 DEF OnlyErrorsEnd
<1>5. ErrorIsAnnounced'
  BY <1>0, <1>2, <1>3 DEF ErrorIsAnnounced
<1> QED BY <1>4, <1>5

\* A poll keeps the invariant.
LEMMA PollKeeps ==
  ASSUME AlertsInv, Poll
  PROVE  AlertsInv'
<1>1. WellTyped /\ RecoveryIsDated
  BY DEF AlertsInv
<1>2. UNCHANGED <<jstat, failures>>
  BY DEF Poll, study
<1>3. WellTyped'
  BY <1>1, <1>2, PollRuntime, PollRows DEF WellTyped
<1>4. IdsAreOld'
  BY PollIds
<1>5. RecoveryIsDated'
  BY Dates
<1>6. ErrorIsAnnounced' /\ OnlyErrorsEnd'
  BY PollTellsErrors
<1> QED BY <1>3, <1>4, <1>5, <1>6 DEF AlertsInv

\* Every step keeps the invariant.
LEMMA AlertsNext == AlertsInv /\ [Next]_vars => AlertsInv'
<1> SUFFICES ASSUME AlertsInv, [Next]_vars PROVE AlertsInv'
  OBVIOUS
<1>1. CASE StudyNext
  BY <1>1, StudyKeeps
<1>2. CASE Poll
  BY <1>2, PollKeeps
<1>3. CASE Retire
  BY <1>3, RetireKeeps
<1>4. CASE UNCHANGED vars
  BY <1>4 DEF AlertsInv, WellTyped, IdsAreOld, RecoveryIsDated, OnlyErrorsEnd, ErrorIsAnnounced, vars, study
<1> QED BY <1>1, <1>2, <1>3, <1>4 DEF Next

-----------------------------------------------------------------------------
(* Theorems.                                                               *)

\* The rows have their types, no id that is still needed is in use, and only
\* errors are superseded.
THEOREM AlertsCorrect == Spec => []AlertsInv
BY AlertsInit, AlertsNext, PTL DEF Spec

\* Researchers have been told of the error a campaign is in, in this very
\* episode, and are told of no error of an earlier one.
THEOREM ErrorsAnnounced == Spec => []ErrorIsAnnounced
<1>1. AlertsInv => ErrorIsAnnounced
  BY DEF AlertsInv
<1> QED BY <1>1, AlertsCorrect, PTL

\* A poll that ends a recovery announces it.
LEMMA PollTellsRecoveries ==
  ASSUME AlertsInv, Poll, runtime.recovering, ~runtime'.recovering
  PROVE  /\ runtime.targets \subseteq Confirmed
         /\ \E i \in DOMAIN alerts' \ DOMAIN alerts :
              \/ alerts'[i].kind = "complete"
              \/ alerts'[i].kind = "recovered" /\ alerts'[i].token = <<"campaign", runtime.since>>
              \/ alerts'[i].kind = "recovered" /\ alerts'[i].token[1] = "train batch"
<1>0. WellTyped /\ RecoveryIsDated
  BY DEF AlertsInv
<1>1. \A a : Announced(a) => \E i \in DOMAIN alerts' \ DOMAIN alerts : alerts'[i] = a
  BY <1>0, PollRows
<1>2. ~Recovering
  BY <1>0, PollRuntime
<1>3. CASE Observed = "complete"
  <2>1. runtime.targets \subseteq Confirmed
    BY <1>0, <1>3, ObservedFacts
  <2>2. Changed
    BY <1>3 DEF Poll, ProcessingDue, Changed
  <2> DEFINE a == Alert("complete", Generation)
  <2>3. a.kind = "complete" /\ a.token = Generation
    BY AlertFacts
  <2>4. ~Known(a.kind, a.token)
    BY <2>2, <2>3, NewsAreNew
  <2>5. Announced(a)
    BY <1>3, <2>2, <2>4 DEF Announced
  <2> QED BY <1>1, <2>1, <2>3, <2>5
<1>4. CASE Recovered
  <2>1. runtime.targets \subseteq Confirmed
    BY <1>4 DEF Recovered
  <2>2. CASE FreshRecoveries = {}
    <3> DEFINE a == Alert("recovered", <<"campaign", runtime.since>>)
    <3>1. a.kind = "recovered" /\ a.token = <<"campaign", runtime.since>>
      BY AlertFacts
    <3>2. ~Known(a.kind, a.token)
      BY <3>1, NewsAreNew
    <3>3. Announced(a)
      BY <1>4, <2>2, <3>2 DEF Announced
    <3> QED BY <1>1, <2>1, <3>1, <3>3
  <2>3. CASE FreshRecoveries # {}
    <3> DEFINE a == Alert("recovered", <<"train batch", FreshRecoveries>>)
               t == <<"train batch", FreshRecoveries>>
    <3>1. a.kind = "recovered" /\ a.token = t
      BY AlertFacts
    <3>2. ~Known(a.kind, a.token)
      BY <2>3, <3>1, NewsAreNew
    <3>3. Announced(a)
      BY <2>3, <3>2 DEF Announced
    <3>4. t[1] = "train batch"
      OBVIOUS
    <3>5. PICK i \in DOMAIN alerts' \ DOMAIN alerts : alerts'[i] = a
      BY <1>1, <3>3
    <3> HIDE DEF a, t
    <3>6. alerts'[i].kind = "recovered" /\ alerts'[i].token[1] = "train batch"
      BY <3>1, <3>4, <3>5
    <3> QED BY <2>1, <3>6
  <2> QED BY <2>2, <2>3
<1>5. Observed = "complete" \/ Recovered
  BY <1>2 DEF Recovering
<1> QED BY <1>3, <1>4, <1>5

\* A recovery that ends, ends with every failed job confirmed and an alert.
THEOREM RecoveriesAnnounced == Spec => RecoveryIsAnnounced
<1> DEFINE Told ==
      runtime.recovering /\ ~runtime'.recovering =>
        /\ runtime.targets \subseteq Confirmed
        /\ \E i \in DOMAIN alerts' \ DOMAIN alerts :
             \/ alerts'[i].kind = "complete"
             \/ alerts'[i].kind = "recovered" /\ alerts'[i].token = <<"campaign", runtime.since>>
             \/ alerts'[i].kind = "recovered" /\ alerts'[i].token[1] = "train batch"
<1>1. ASSUME AlertsInv, [Next]_vars PROVE [Told]_vars
  <2>1. CASE StudyNext
    BY <2>1 DEF StudyNext
  <2>2. CASE Poll
    BY <1>1, <2>2, PollTellsRecoveries
  <2>3. CASE Retire
    <3>1. runtime \in Runtime
      BY <1>1 DEF AlertsInv, WellTyped
    <3>2. runtime'.recovering = runtime.recovering
      BY <2>3, <3>1 DEF Retire, Runtime
    <3> QED BY <3>2
  <2>4. CASE UNCHANGED vars
    BY <2>4
  <2> QED BY <1>1, <2>1, <2>2, <2>3, <2>4 DEF Next
<1> QED BY <1>1, AlertsCorrect, PTL DEF Spec, RecoveryIsAnnounced

-----------------------------------------------------------------------------
(* The campaign implements AlertOutbox.                                    *)

\* Alerts of the outbox are told apart by their fields.
LEMMA SameAlert ==
  ASSUME NEW r \in Outbox!Alert, NEW s \in Outbox!Alert,
         r.kind = s.kind, r.status = s.status, r.waits <=> s.waits, r.posted = s.posted, r.over <=> s.over
  PROVE  r = s
BY DEF Outbox!Alert

\* An alert as AlertOutbox has it before any delivery.
Undelivered(row, kind, open) ==
  /\ row \in Outbox!Alert /\ row.kind = kind /\ ~row.waits /\ row.posted = 0
  /\ row.status = IF open THEN "pending" ELSE "superseded"
  /\ row.over <=> ~open

\* The row of an alert in the outbox: undelivered, and over when closed.
LEMMA OutboxRowFacts ==
  ASSUME NEW alert \in Row
  PROVE  Undelivered(OutboxRow(alert), alert.kind, alert.open)
<1> DEFINE over   == ~alert.open
           status == IF alert.open THEN "pending" ELSE "superseded"
<1>1. alert.kind \in Outbox!Kind
  BY DEF Row, Outbox!Kind
<1>2. over \in BOOLEAN /\ status \in Outbox!Status
  BY DEF Outbox!Status
<1>3. OutboxRow(alert) = [kind |-> alert.kind, waits |-> FALSE, posted |-> 0, status |-> status, over |-> over]
  BY DEF OutboxRow
<1> HIDE DEF over, status
<1>4. /\ OutboxRow(alert) \in Outbox!Alert /\ OutboxRow(alert).kind = alert.kind
      /\ ~OutboxRow(alert).waits /\ OutboxRow(alert).posted = 0
      /\ OutboxRow(alert).status = status /\ OutboxRow(alert).over = over
  BY <1>1, <1>2, <1>3 DEF Outbox!Alert
<1> QED BY <1>4 DEF Undelivered, over, status

\* The outbox makes rows that are undelivered and not over.
LEMMA NewAlertFacts ==
  ASSUME NEW kind \in Outbox!Kind
  PROVE  Undelivered(Outbox!NewAlert(kind), kind, TRUE)
BY DEF Outbox!NewAlert, Undelivered, Outbox!Alert, Outbox!Status

\* What AlertOutbox does to a row when no error is observed.
EndOfError(row) ==
  LET closed == IF row.kind = "error" /\ row.status \in Outbox!Open THEN Outbox!Close(row, "superseded") ELSE row
  IN  [closed EXCEPT !.over = closed.over \/ closed.kind = "error"]

\* The end of an error closes the rows of errors, and leaves the others open.
LEMMA EndOfErrorFacts ==
  ASSUME NEW kind, NEW open, NEW row, Undelivered(row, kind, open)
  PROVE  Undelivered(EndOfError(row), kind, open /\ kind # "error")
<1> DEFINE closed == IF row.kind = "error" /\ row.status \in Outbox!Open THEN Outbox!Close(row, "superseded") ELSE row
           over   == closed.over \/ closed.kind = "error"
           new    == [closed EXCEPT !.over = over]
<1>1. /\ row \in Outbox!Alert /\ row.kind = kind /\ ~row.waits /\ row.posted = 0
      /\ row.status = IF open THEN "pending" ELSE "superseded"
      /\ row.over <=> ~open
  BY DEF Undelivered
<1>2. /\ closed \in Outbox!Alert /\ closed.kind = kind /\ ~closed.waits /\ closed.posted = 0
      /\ closed.status = IF open /\ kind # "error" THEN "pending" ELSE "superseded"
      /\ closed.over <=> ~open
  <2>1. CASE kind = "error" /\ open
    <3> DEFINE c == Outbox!Close(row, "superseded")
    <3>1. closed = c
      BY <1>1, <2>1 DEF Outbox!Open
    <3>2. /\ c \in Outbox!Alert /\ c.kind = row.kind /\ ~c.waits /\ c.posted = row.posted
          /\ c.status = "superseded" /\ c.over = row.over
      BY <1>1 DEF Outbox!Close, Outbox!Alert, Outbox!Status
    <3> QED BY <1>1, <2>1, <3>1, <3>2
  <2>2. CASE ~(kind = "error" /\ open)
    <3>1. closed = row
      BY <1>1, <2>2 DEF Outbox!Open
    <3> QED BY <1>1, <2>2, <3>1
  <2> QED BY <2>1, <2>2
<1>3. over <=> ~open \/ kind = "error"
  BY <1>2
<1>4. over \in BOOLEAN
  OBVIOUS
<1>5. EndOfError(row) = new
  BY DEF EndOfError
<1> HIDE DEF closed, over
<1>6. /\ new \in Outbox!Alert /\ new.kind = closed.kind /\ new.waits = closed.waits
      /\ new.posted = closed.posted /\ new.status = closed.status /\ new.over = over
  BY <1>2, <1>4 DEF Outbox!Alert
<1> HIDE DEF new
<1> QED BY <1>2, <1>3, <1>5, <1>6 DEF Undelivered

\* An undelivered row is determined by its kind and by being open.
LEMMA SameUndelivered ==
  ASSUME NEW kind, NEW open, NEW r, NEW s, Undelivered(r, kind, open), Undelivered(s, kind, open)
  PROVE  r = s
BY SameAlert DEF Undelivered

\* A queue of new alerts and of superseded ones, row by row.
LEMMA QueueFacts ==
  ASSUME NEW rows \in Seq(Row), NEW queue, queue = [i \in DOMAIN rows |-> OutboxRow(rows[i])]
  PROVE  /\ queue \in Seq(Outbox!Alert) /\ Len(queue) = Len(rows) /\ DOMAIN queue = DOMAIN rows
         /\ \A i \in DOMAIN rows : Undelivered(queue[i], rows[i].kind, rows[i].open)
<1>1. ASSUME NEW i \in DOMAIN rows
      PROVE  Undelivered(OutboxRow(rows[i]), rows[i].kind, rows[i].open) /\ OutboxRow(rows[i]) \in Outbox!Alert
  <2>1. rows[i] \in Row
    OBVIOUS
  <2> QED BY <2>1, OutboxRowFacts DEF Undelivered
<1>2. DOMAIN rows = 1 .. Len(rows) /\ Len(rows) \in Nat
  OBVIOUS
<1>3. queue \in [1 .. Len(rows) -> Outbox!Alert]
  BY <1>1, <1>2
<1>4. queue \in Seq(Outbox!Alert) /\ Len(queue) = Len(rows)
  BY <1>2, <1>3
<1> QED BY <1>1, <1>2, <1>4

\* The end of an error, on all rows of a queue.
LEMMA EndedQueue ==
  ASSUME NEW queue \in Seq(Outbox!Alert),
         NEW kind, NEW open, \A i \in DOMAIN queue : Undelivered(queue[i], kind[i], open[i])
  PROVE  LET ended == Outbox!ErrorsEnd(Outbox!Supersede(queue))
         IN  /\ ended \in Seq(Outbox!Alert) /\ Len(ended) = Len(queue) /\ DOMAIN ended = DOMAIN queue
             /\ \A i \in DOMAIN queue : Undelivered(ended[i], kind[i], open[i] /\ kind[i] # "error")
<1> DEFINE closed == Outbox!Supersede(queue)
           ended  == Outbox!ErrorsEnd(closed)
<1>1. closed = [i \in DOMAIN queue |-> IF queue[i].kind = "error" /\ queue[i].status \in Outbox!Open
                                       THEN Outbox!Close(queue[i], "superseded") ELSE queue[i]]
  BY DEF Outbox!Supersede
<1>2. ended = [i \in DOMAIN closed |-> [closed[i] EXCEPT !.over = closed[i].over \/ closed[i].kind = "error"]]
  BY DEF Outbox!ErrorsEnd
<1> HIDE DEF closed, ended
<1>3. DOMAIN closed = DOMAIN queue /\ DOMAIN ended = DOMAIN queue
  BY <1>1, <1>2
<1>4. ended = [i \in DOMAIN queue |-> EndOfError(queue[i])]
  <2>1. ASSUME NEW i \in DOMAIN queue PROVE ended[i] = EndOfError(queue[i])
    BY <1>1, <1>2, <1>3 DEF EndOfError
  <2>2. ended = [i \in DOMAIN queue |-> ended[i]]
    BY <1>2, <1>3
  <2> QED BY <2>1, <2>2
<1>5. ASSUME NEW i \in DOMAIN queue
      PROVE  Undelivered(ended[i], kind[i], open[i] /\ kind[i] # "error") /\ ended[i] \in Outbox!Alert
  <2>1. Undelivered(EndOfError(queue[i]), kind[i], open[i] /\ kind[i] # "error")
    BY EndOfErrorFacts, Zenon
  <2>2. ended[i] = EndOfError(queue[i])
    BY <1>4
  <2> QED BY <2>1, <2>2 DEF Undelivered
<1>6. DOMAIN queue = 1 .. Len(queue) /\ Len(queue) \in Nat
  OBVIOUS
<1>7. ended \in [1 .. Len(queue) -> Outbox!Alert]
  <2>1. \A i \in DOMAIN queue : ended[i] \in Outbox!Alert
    BY <1>5
  <2> QED BY <1>4, <1>6, <2>1
<1>8. ended \in Seq(Outbox!Alert) /\ Len(ended) = Len(queue)
  BY <1>6, <1>7
<1>9. \A i \in DOMAIN queue : Undelivered(ended[i], kind[i], open[i] /\ kind[i] # "error")
  BY <1>5
<1> QED BY <1>3, <1>8, <1>9 DEF closed, ended

\* Two queues put together, row by row.
LEMMA SameQueue ==
  ASSUME NEW s \in Seq(Outbox!Alert), NEW t \in Seq(Outbox!Alert), NEW q \in Seq(Outbox!Alert),
         Len(q) = Len(s) + Len(t),
         \A i \in 1 .. Len(s) : q[i] = s[i],
         \A k \in 1 .. Len(t) : q[Len(s) + k] = t[k]
  PROVE  q = s \o t
<1>1. s \o t \in Seq(Outbox!Alert) /\ Len(s \o t) = Len(q)
  OBVIOUS
<1>2. ASSUME NEW i \in 1 .. Len(q) PROVE (s \o t)[i] = q[i]
  <2>1. CASE i \in 1 .. Len(s)
    BY <2>1
  <2>2. CASE i \notin 1 .. Len(s)
    <3>1. i - Len(s) \in 1 .. Len(t) /\ Len(s) + (i - Len(s)) = i
      BY <2>2
    <3>2. (s \o t)[i] = t[i - Len(s)]
      BY <2>2, <3>1
    <3> QED BY <3>1, <3>2
  <2> QED BY <2>1, <2>2
<1> QED BY <1>1, <1>2
\* What a poll writes to the outbox is what AlertOutbox says of it.
LEMMA PollQueue ==
  ASSUME WellTyped, Poll
  PROVE  Queue' = (IF Observed = "error" THEN Queue ELSE Outbox!ErrorsEnd(Outbox!Supersede(Queue)))
                  \o [k \in DOMAIN NewAlerts |-> Outbox!NewAlert(NewAlerts[k].kind)]
<1> DEFINE ended == Outbox!ErrorsEnd(Outbox!Supersede(Queue))
           old   == IF Observed = "error" THEN Queue ELSE ended
           new   == [k \in DOMAIN NewAlerts |-> Outbox!NewAlert(NewAlerts[k].kind)]
<1>1. /\ alerts' \in Seq(Row) /\ Len(alerts') = Len(alerts) + Len(NewAlerts)
      /\ DOMAIN alerts \subseteq DOMAIN alerts'
      /\ \A i \in DOMAIN alerts :
           /\ alerts'[i].kind = alerts[i].kind
           /\ alerts'[i].open <=> (alerts[i].open /\ (Observed = "error" \/ alerts[i].kind # "error"))
      /\ \A k \in DOMAIN NewAlerts : alerts'[Len(alerts) + k] = NewAlerts[k]
  BY PollRows
<1>2. /\ alerts \in Seq(Row) /\ Len(alerts) \in Nat /\ DOMAIN alerts = 1 .. Len(alerts)
      /\ NewAlerts \in Seq(Row) /\ Len(NewAlerts) \in Nat /\ DOMAIN NewAlerts = 1 .. Len(NewAlerts)
      /\ DOMAIN alerts' = 1 .. Len(alerts) + Len(NewAlerts)
  BY <1>1, NewsFacts DEF WellTyped
<1>3. /\ Queue \in Seq(Outbox!Alert) /\ Len(Queue) = Len(alerts) /\ DOMAIN Queue = DOMAIN alerts
      /\ \A i \in DOMAIN alerts : Undelivered(Queue[i], alerts[i].kind, alerts[i].open)
  <2>1. Queue = [i \in DOMAIN alerts |-> OutboxRow(alerts[i])]
    BY DEF Queue
  <2> QED BY <1>2, <2>1, QueueFacts
<1>4. /\ Queue' \in Seq(Outbox!Alert) /\ Len(Queue') = Len(alerts')
      /\ \A i \in DOMAIN alerts' : Undelivered(Queue'[i], alerts'[i].kind, alerts'[i].open)
  <2>1. Queue' = [i \in DOMAIN alerts' |-> OutboxRow(alerts'[i])]
    BY DEF Queue
  <2> QED BY <1>1, <2>1, QueueFacts
<1>5. /\ old \in Seq(Outbox!Alert) /\ Len(old) = Len(alerts)
      /\ \A i \in DOMAIN alerts : Undelivered(old[i], alerts'[i].kind, alerts'[i].open)
  <2>1. CASE Observed = "error"
    <3>1. old = Queue
      BY <2>1
    <3>2. ASSUME NEW i \in DOMAIN alerts PROVE Undelivered(old[i], alerts'[i].kind, alerts'[i].open)
      <4>1. alerts'[i].kind = alerts[i].kind /\ (alerts'[i].open <=> alerts[i].open)
        BY <1>1, <2>1
      <4>2. Undelivered(Queue[i], alerts[i].kind, alerts[i].open)
        BY <1>3
      <4> QED BY <3>1, <4>1, <4>2 DEF Undelivered
    <3> QED BY <1>3, <3>1, <3>2
  <2>2. CASE Observed # "error"
    <3>1. old = ended
      BY <2>2
    <3> DEFINE kind == [i \in DOMAIN alerts |-> alerts[i].kind]
               open == [i \in DOMAIN alerts |-> alerts[i].open]
    <3>2. \A i \in DOMAIN alerts : kind[i] = alerts[i].kind /\ open[i] = alerts[i].open
      OBVIOUS
    <3> HIDE DEF kind, open
    <3>3. \A i \in DOMAIN Queue : Undelivered(Queue[i], kind[i], open[i])
      BY <1>3, <3>2
    <3>4. /\ ended \in Seq(Outbox!Alert) /\ Len(ended) = Len(Queue)
          /\ \A i \in DOMAIN Queue : Undelivered(ended[i], kind[i], open[i] /\ kind[i] # "error")
      BY <1>3, <3>3, EndedQueue
    <3> HIDE DEF ended
    <3>5. ASSUME NEW i \in DOMAIN alerts PROVE Undelivered(old[i], alerts'[i].kind, alerts'[i].open)
      <4>1. alerts'[i].kind = kind[i] /\ (alerts'[i].open <=> open[i] /\ kind[i] # "error")
        BY <1>1, <2>2, <3>2
      <4>2. Undelivered(ended[i], kind[i], open[i] /\ kind[i] # "error")
        BY <1>3, <3>4
      <4> QED BY <3>1, <4>1, <4>2 DEF Undelivered
    <3> QED BY <1>3, <3>1, <3>4, <3>5
  <2> QED BY <2>1, <2>2
<1>6. /\ new \in Seq(Outbox!Alert) /\ Len(new) = Len(NewAlerts)
      /\ \A k \in DOMAIN NewAlerts : Undelivered(new[k], NewAlerts[k].kind, NewAlerts[k].open)
  <2>1. ASSUME NEW k \in DOMAIN NewAlerts
        PROVE  /\ Undelivered(new[k], NewAlerts[k].kind, NewAlerts[k].open)
               /\ new[k] \in Outbox!Alert
    <3>1. NewAlerts[k] \in Row
      BY <1>2
    <3>2. NewAlerts[k].kind \in Outbox!Kind
      BY <3>1 DEF Row, Outbox!Kind
    <3>3. In(NewAlerts[k], NewAlerts)
      BY DEF In
    <3>4. NewAlerts[k].open
      BY <3>3, NewsFacts, AnnouncedFacts
    <3>5. Undelivered(new[k], NewAlerts[k].kind, TRUE)
      BY <3>2, NewAlertFacts
    <3> HIDE DEF new
    <3> QED BY <3>4, <3>5 DEF Undelivered
  <2>2. new = [k \in DOMAIN NewAlerts |-> new[k]]
    OBVIOUS
  <2> HIDE DEF new
  <2>3. new \in [1 .. Len(NewAlerts) -> Outbox!Alert]
    BY <1>2, <2>1, <2>2
  <2>4. new \in Seq(Outbox!Alert) /\ Len(new) = Len(NewAlerts)
    BY <1>2, <2>3
  <2> QED BY <2>1, <2>4
<1> HIDE DEF old, new
<1>7. Len(Queue') = Len(old) + Len(new)
  BY <1>1, <1>4, <1>5, <1>6
<1>8. ASSUME NEW i \in 1 .. Len(old) PROVE Queue'[i] = old[i]
  <2>1. i \in DOMAIN alerts /\ i \in DOMAIN alerts'
    BY <1>1, <1>2, <1>5
  <2>2. /\ Undelivered(old[i], alerts'[i].kind, alerts'[i].open)
        /\ Undelivered(Queue'[i], alerts'[i].kind, alerts'[i].open)
    BY <1>4, <1>5, <2>1
  <2> QED BY <2>2, SameUndelivered, Zenon
<1>9. ASSUME NEW k \in 1 .. Len(new) PROVE Queue'[Len(old) + k] = new[k]
  <2>1. k \in DOMAIN NewAlerts /\ Len(alerts) + k \in DOMAIN alerts' /\ Len(old) = Len(alerts)
    BY <1>2, <1>5, <1>6
  <2>2. alerts'[Len(alerts) + k] = NewAlerts[k]
    BY <1>1, <2>1
  <2>3. /\ Undelivered(new[k], NewAlerts[k].kind, NewAlerts[k].open)
        /\ Undelivered(Queue'[Len(alerts) + k], NewAlerts[k].kind, NewAlerts[k].open)
    BY <1>4, <1>6, <2>1, <2>2
  <2>4. Queue'[Len(alerts) + k] = new[k]
    BY <2>3, SameUndelivered, Zenon
  <2> QED BY <2>1, <2>4
<1>10. Queue' = old \o new
  BY <1>4, <1>5, <1>6, <1>7, <1>8, <1>9, SameQueue
<1> QED BY <1>10 DEF old, new
\* A poll is one that AlertOutbox allows for: it queues errors only in an error,
\* and one when the campaign enters it.
LEMMA PollRefines ==
  ASSUME AlertsInv, Poll, Len(alerts') <= MaxAlerts
  PROVE  Outbox!Next
<1> DEFINE error == Observed = "error"
           kinds == [k \in DOMAIN NewAlerts |-> NewAlerts[k].kind]
<1>0. WellTyped /\ RecoveryIsDated
  BY DEF AlertsInv
<1>1. /\ alerts \in Seq(Row) /\ Len(alerts) \in Nat
      /\ NewAlerts \in Seq(Row) /\ Len(NewAlerts) \in Nat /\ Len(NewAlerts) <= 2
      /\ DOMAIN NewAlerts = 1 .. Len(NewAlerts)
  BY <1>0, NewsFacts DEF WellTyped
<1>2. kinds \in Outbox!Raised
  <2>1. ASSUME NEW k \in DOMAIN NewAlerts
        PROVE  NewAlerts[k].kind \in {"started", "recovered", "error", "complete"}
    <3>1. NewAlerts[k] \in Row
      BY <1>1
    <3> QED BY <3>1 DEF Row
  <2>2. kinds \in [1 .. Len(NewAlerts) -> {"started", "recovered", "error", "complete"}]
    BY <1>1, <2>1
  <2>3. Len(NewAlerts) \in 0 .. 2
    BY <1>1
  <2> HIDE DEF kinds
  <2> QED BY <2>2, <2>3 DEF Outbox!Raised
<1>3. DOMAIN kinds = DOMAIN NewAlerts /\ Len(kinds) = Len(NewAlerts)
  BY <1>1
<1>4. Len(Queue) + Len(kinds) <= MaxAlerts
  <2>1. Len(Queue) = Len(alerts)
    <3>1. Queue = [i \in DOMAIN alerts |-> OutboxRow(alerts[i])]
      BY DEF Queue
    <3> QED BY <1>1, <3>1, QueueFacts
  <2>2. Len(alerts') = Len(alerts) + Len(NewAlerts)
    BY <1>0, PollRows
  <2> QED BY <1>3, <2>1, <2>2
<1>5. "error" \in {kinds[k] : k \in DOMAIN kinds} => error
  <2>1. ASSUME NEW k \in DOMAIN NewAlerts, NewAlerts[k].kind = "error" PROVE error
    <3>1. In(NewAlerts[k], NewAlerts)
      BY DEF In
    <3> QED BY <1>0, <2>1, <3>1, NewsFacts, AnnouncedFacts
  <2> QED BY <1>3, <2>1
<1>6. error /\ ~InError => "error" \in {kinds[k] : k \in DOMAIN kinds}
  <2>1. SUFFICES ASSUME error, ~InError PROVE "error" \in {kinds[k] : k \in DOMAIN kinds}
    OBVIOUS
  <2> DEFINE a == Alert("error", <<Generation, Errors>>)
  <2>2. a.kind = "error" /\ a.token = <<Generation, Errors>>
    BY AlertFacts
  <2>3. Changed
    BY <2>1 DEF InError, Changed
  <2>4. Announced(a)
    <3>1. ~Known(a.kind, a.token)
      BY <2>2, <2>3, NewsAreNew
    <3> QED BY <2>1, <2>3, <3>1 DEF Announced
  <2>5. PICK k \in DOMAIN NewAlerts : NewAlerts[k] = a
    BY <1>0, <2>4, NewsFacts DEF In
  <2> HIDE DEF a
  <2> QED BY <1>3, <2>2, <2>5
<1>7. InError' = error
  <2>1. runtime'.state = Observed
    BY <1>0, PollRuntime
  <2> QED BY <2>1 DEF InError
<1>8. Queue' = (IF error THEN Queue ELSE Outbox!ErrorsEnd(Outbox!Supersede(Queue)))
               \o [k \in DOMAIN kinds |-> Outbox!NewAlert(kinds[k])]
  <2>1. [k \in DOMAIN kinds |-> Outbox!NewAlert(kinds[k])]
          = [k \in DOMAIN NewAlerts |-> Outbox!NewAlert(NewAlerts[k].kind)]
    BY <1>3
  <2> QED BY <1>0, <2>1, PollQueue
<1>9. /\ \E p \in {"daemon"} : NoDelivery[p].step = "idle"
      /\ NoDelivery' = NoDelivery
  BY DEF NoDelivery
<1>10. error \in BOOLEAN
  OBVIOUS
<1> HIDE DEF error, kinds
<1>11. Outbox!Poll(error, kinds)
  BY <1>4, <1>5, <1>6, <1>7, <1>8, <1>9 DEF Outbox!Poll
<1> QED BY <1>2, <1>10, <1>11 DEF Outbox!Next

\* Every step is one of AlertOutbox, or changes nothing of it.
LEMMA StepRefines ==
  ASSUME AlertsInv, [Next]_vars, Len(alerts') <= MaxAlerts
  PROVE  [Outbox!Next]_(Outbox!vars)
<1>1. CASE Poll
  BY <1>1, PollRefines
<1>2. ASSUME alerts' = alerts, runtime'.state = runtime.state
      PROVE  UNCHANGED Outbox!vars
  BY <1>2 DEF Outbox!vars, InError, Queue, NoDelivery
<1>3. CASE StudyNext
  BY <1>2, <1>3 DEF StudyNext
<1>4. CASE Retire
  <2>1. runtime \in Runtime
    BY DEF AlertsInv, WellTyped
  <2>2. runtime'.state = runtime.state /\ alerts' = alerts
    BY <1>4, <2>1 DEF Retire, Runtime
  <2> QED BY <1>2, <2>2
<1>5. CASE UNCHANGED vars
  BY <1>2, <1>5 DEF vars
<1> QED BY <1>1, <1>3, <1>4, <1>5 DEF Next

\* The polls of a campaign are polls of AlertOutbox, as long as its bound on the
\* number of alerts is not reached: what is proved there of the delivery holds
\* of the alerts a campaign really raises.
THEOREM AlertsReachTheOutbox ==
  Spec /\ [](Len(alerts) <= MaxAlerts) => ImplementsOutbox
<1>1. Init => Outbox!Init
  <2>1. ASSUME Init PROVE Queue = <<>>
    <3>1. DOMAIN alerts = {}
      BY <2>1 DEF Init
    <3>2. Queue = [i \in {} |-> OutboxRow(alerts[i])]
      BY <3>1 DEF Queue
    <3> QED BY <3>2
  <2>2. Init => (InError <=> FALSE)
    BY DEF Init, InError
  <2>3. NoDelivery = [p \in {"daemon"} |-> Outbox!Resting]
    BY Zenon DEF NoDelivery, Outbox!Resting
  <2> QED BY <2>1, <2>2, <2>3 DEF Outbox!Init, Outbox!Route
<1>2. AlertsInv /\ [Next]_vars /\ (Len(alerts) <= MaxAlerts)' => [Outbox!Next]_(Outbox!vars)
  BY StepRefines
<1> QED BY <1>1, <1>2, AlertsCorrect, PTL DEF Spec, ImplementsOutbox, Outbox!Spec
=============================================================================
