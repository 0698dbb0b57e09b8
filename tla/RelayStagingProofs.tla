------------------------- MODULE RelayStagingProofs -------------------------
(***************************************************************************)
(* The staging of inputs, for any consumers, dependencies, nodes, pools    *)
(* and limits: what a tick reserves from its stale view never exceeds the  *)
(* slots, copies an artifact twice to a node or retries it too often, and  *)
(* a consumer is held only for a relay that can still bring its input.     *)
(***************************************************************************)
EXTENDS RelayStaging, FiniteSetTheorems, TLAPS

-----------------------------------------------------------------------------
(* The inductive invariant.                                                *)

\* What a tick works from.
View == [loaded : {TRUE}, queued : SUBSET Consumers, pool : [Consumers -> SUBSET Hosts],
         demand : SUBSET Deps, intents : [Consumers -> Intent], retired : SUBSET Deps,
         located : [Deps -> SUBSET Nodes], lacking : [Consumers -> SUBSET Hosts],
         missing : [Consumers -> SUBSET Nodes], live : SUBSET Nat, history : Nat]

\* The view of a tick is stale but for the relays under way: none ends while it
\* is used, and those the tick adds are noted in it.
ViewIsCurrent ==
  view.loaded =>
    /\ view.live = Live
    /\ view.history <= Len(rows)
    /\ \A i \in DOMAIN rows : i > view.history => rows[i].status = "active"

\* A reservation names a relay made for its consumer to its node.
PendingIsBackedInv ==
  \A c \in Consumers : intents[c].state = "pending" =>
    /\ intents[c].last \in DOMAIN rows
    /\ rows[intents[c].last].for = c
    /\ rows[intents[c].last].node = intents[c].node
    /\ rows[intents[c].last].status # "failed"

\* The relays of a dependency to a node never number more than the failures it
\* takes to give up.
Made(d, n) == {i \in DOMAIN rows : rows[i].dep = d /\ rows[i].node = n}
RetriesBounded == \A d \in Deps, n \in Nodes : Cardinality(Made(d, n)) <= MaxFails

StagingInv ==
  /\ TypeOK
  /\ view = NoView \/ view \in View
  /\ ViewIsCurrent /\ OneCopyUnderWay /\ PendingIsBackedInv /\ RetriesBounded

-----------------------------------------------------------------------------
(* Rows and what is read from them.                                        *)

\* A row, its fields and its index.
LEMMA RowFacts ==
  ASSUME TypeOK
  PROVE  /\ Len(rows) \in Nat /\ DOMAIN rows = 1 .. Len(rows)
         /\ \A i \in DOMAIN rows : rows[i] \in Relay
         /\ IsFiniteSet(DOMAIN rows)
BY FS_Interval DEF TypeOK

\* One more row.
LEMMA AppendRow ==
  ASSUME TypeOK, NEW r \in Relay, rows' = Append(rows, r)
  PROVE  /\ rows' \in Seq(Relay)
         /\ Len(rows') = Len(rows) + 1
         /\ DOMAIN rows' = DOMAIN rows \cup {Len(rows')}
         /\ Len(rows') \notin DOMAIN rows
         /\ rows'[Len(rows')] = r
         /\ \A i \in DOMAIN rows : rows'[i] = rows[i]
BY DEF TypeOK

\* One field of one row.
LEMMA ChangeRow ==
  ASSUME TypeOK, NEW i \in DOMAIN rows, NEW r \in Relay, rows' = [rows EXCEPT ![i] = r]
  PROVE  /\ rows' \in Seq(Relay)
         /\ Len(rows') = Len(rows)
         /\ DOMAIN rows' = DOMAIN rows
         /\ rows'[i] = r
         /\ \A k \in DOMAIN rows \ {i} : rows'[k] = rows[k]
BY DEF TypeOK

\* What a tick reads is well formed and current when it is read.
LEMMA LoadedView ==
  ASSUME TypeOK, LoadView
  PROVE  view' \in View /\ view'.live = Live /\ view'.history = Len(rows)
<1>1. \A d : Located(d) \subseteq Nodes
  BY RowFacts DEF Located, Relay
<1>2. PICK P \in [Consumers -> SUBSET Hosts \ {{}}] :
       view' = [loaded |-> TRUE, queued |-> Queued, pool |-> P, demand |-> Demand(P),
                intents |-> intents, retired |-> retired,
                located |-> [d \in Deps |-> Located(d)],
                lacking |-> [c \in Consumers |-> {n \in Hosts : Lacking(c, n) # {}}],
                missing |-> [c \in Consumers |-> {n \in Nodes : Missing(c, n) # {}}],
                live |-> Live, history |-> Len(rows)]
  BY DEF LoadView
<1>3. Demand(P) \subseteq Deps
  BY StagingAssumption DEF Demand, Queued, Lacking, StagingAssumption
<1>4. Queued \subseteq Consumers /\ retired \subseteq Deps /\ Live \subseteq Nat /\ P \in [Consumers -> SUBSET Hosts]
  BY RowFacts, StagingAssumption DEF Queued, TypeOK, Live, StagingAssumption
<1>5. /\ [d \in Deps |-> Located(d)] \in [Deps -> SUBSET Nodes]
      /\ [c \in Consumers |-> {n \in Hosts : Lacking(c, n) # {}}] \in [Consumers -> SUBSET Hosts]
      /\ [c \in Consumers |-> {n \in Nodes : Missing(c, n) # {}}] \in [Consumers -> SUBSET Nodes]
  BY <1>1
<1>6. intents \in [Consumers -> Intent] /\ Len(rows) \in Nat
  BY RowFacts DEF TypeOK
<1> QED BY <1>2, <1>3, <1>4, <1>5, <1>6 DEF View

-----------------------------------------------------------------------------
(* The invariant is inductive.                                             *)

\* Nothing is staged at first.
LEMMA StagingInit == Init => StagingInv
<1> SUFFICES ASSUME Init PROVE StagingInv
  OBVIOUS
<1>1. TypeOK
  BY StagingAssumption DEF Init, TypeOK, Intent, StagingAssumption
<1>2. DOMAIN rows = {}
  BY DEF Init
<1>3. Live = {} /\ \A d, n : Made(d, n) = {}
  BY <1>2 DEF Live, Made
<1>4. Cardinality({}) = 0 BY FS_EmptySet
<1>5. OneCopyUnderWay /\ RetriesBounded
  <2>1. Cardinality(Live) = 0 /\ \A d, n : Cardinality(Made(d, n)) = 0
    BY <1>3, <1>4
  <2>2. 0 <= MaxLive /\ 0 <= MaxFails
    BY StagingAssumption DEF StagingAssumption
  <2> QED BY <1>3, <2>1, <2>2 DEF OneCopyUnderWay, RetriesBounded
<1> QED BY <1>1, <1>5 DEF Init, StagingInv, ViewIsCurrent, PendingIsBackedInv, NoView

\* A status answer: the consumer of a failed relay is freed if it waits for it.
LEMMA ReconcileKeeps ==
  ASSUME StagingInv, NEW i \in DOMAIN rows, Reconcile(i)
  PROVE  StagingInv'
<1> USE DEF StagingInv
<1>0. ~view.loaded /\ view' = view /\ UNCHANGED <<retired, placed, faults>>
  BY DEF Reconcile
<1>1. rows[i] \in Relay /\ rows[i].worker \in {"succeeded", "failed"}
  BY RowFacts DEF Reconcile
<1> DEFINE r == [rows[i] EXCEPT !.status = rows[i].worker]
<1>2. /\ r \in Relay /\ r.status = rows[i].worker /\ r.dep = rows[i].dep /\ r.node = rows[i].node
      /\ r.for = rows[i].for
  BY <1>1 DEF Relay
<1>3. rows' = [rows EXCEPT ![i] = r]
  BY DEF Reconcile
<1> HIDE DEF r
<1>4. /\ rows' \in Seq(Relay) /\ DOMAIN rows' = DOMAIN rows /\ rows'[i] = r
      /\ \A k \in DOMAIN rows \ {i} : rows'[k] = rows[k]
  BY <1>2, <1>3, ChangeRow
<1>5. /\ intents' \in [Consumers -> Intent]
      /\ \A c \in Consumers : \/ intents'[c] = intents[c] /\ ~(r.status = "failed" /\ r.for = c /\ intents[c].last = i)
                              \/ intents'[c].state = "failed"
  <2>1. rows[i].for \in Consumers BY <1>1 DEF Relay
  <2>2. intents' = IF rows[i].worker = "failed" /\ intents[rows[i].for].last = i
                   THEN [intents EXCEPT ![rows[i].for].state = "failed"] ELSE intents
    BY DEF Reconcile
  <2> QED BY <1>2, <2>1, <2>2 DEF TypeOK, Intent
<1>6. TypeOK'
  BY <1>0, <1>4, <1>5 DEF TypeOK
<1>7. Live' \subseteq Live
  BY <1>1, <1>2, <1>4 DEF Live
<1>8. OneCopyUnderWay'
  <2>1. Cardinality(Live') <= MaxLive
    <3>1. IsFiniteSet(Live) BY RowFacts, FS_Subset DEF Live
    <3>2. Cardinality(Live') <= Cardinality(Live) BY <1>7, <3>1, FS_Subset
    <3>3. Cardinality(Live) \in Nat /\ Cardinality(Live') \in Nat BY <1>7, <3>1, FS_Subset, FS_CardinalityType
    <3> QED BY <3>2, <3>3, StagingAssumption DEF OneCopyUnderWay, StagingAssumption
  <2>2. \A k \in Live' : rows'[k].dep = rows[k].dep /\ rows'[k].node = rows[k].node
    BY <1>2, <1>4, <1>7 DEF Live
  <2> QED BY <1>7, <2>1, <2>2 DEF OneCopyUnderWay
<1>9. PendingIsBackedInv'
  <2> SUFFICES ASSUME NEW c \in Consumers, intents'[c].state = "pending"
               PROVE  /\ intents'[c].last \in DOMAIN rows'
                      /\ rows'[intents'[c].last].for = c
                      /\ rows'[intents'[c].last].node = intents'[c].node
                      /\ rows'[intents'[c].last].status # "failed"
    BY DEF PendingIsBackedInv
  <2>1. intents'[c] = intents[c] /\ ~(r.status = "failed" /\ r.for = c /\ intents[c].last = i)
    BY <1>5
  <2> QED BY <1>2, <1>4, <2>1 DEF PendingIsBackedInv
<1>10. RetriesBounded'
  <2>1. \A d, n : Made(d, n)' = Made(d, n)
    BY <1>2, <1>4 DEF Made
  <2> QED BY <2>1 DEF RetriesBounded
<1> QED BY <1>0, <1>6, <1>8, <1>9, <1>10 DEF ViewIsCurrent, NoView

\* A worker ends: nobody has asked it yet.
LEMMA WorkKeeps ==
  ASSUME StagingInv, NEW i \in DOMAIN rows, Work(i)
  PROVE  StagingInv'
<1> USE DEF StagingInv
<1>0. view' = view /\ UNCHANGED <<intents, retired, placed>> BY DEF Work
<1>1. PICK w \in {"succeeded", "failed"} : rows' = [rows EXCEPT ![i] = [rows[i] EXCEPT !.worker = w]]
  BY DEF Work
<1> DEFINE r == [rows[i] EXCEPT !.worker = w]
<1>2. /\ r \in Relay /\ r.status = rows[i].status /\ r.dep = rows[i].dep /\ r.node = rows[i].node
      /\ r.for = rows[i].for
  BY RowFacts DEF Relay
<1>3. /\ rows' \in Seq(Relay) /\ DOMAIN rows' = DOMAIN rows /\ Len(rows') = Len(rows) /\ rows'[i] = r
      /\ \A k \in DOMAIN rows \ {i} : rows'[k] = rows[k]
  BY <1>1, <1>2, ChangeRow
<1> HIDE DEF r
<1>4. \A k \in DOMAIN rows : /\ rows'[k].status = rows[k].status /\ rows'[k].dep = rows[k].dep
                             /\ rows'[k].node = rows[k].node /\ rows'[k].for = rows[k].for
  BY <1>2, <1>3
<1>5. TypeOK'
  <2>1. faults' \in 0 .. MaxFaults
    BY StagingAssumption DEF Work, TypeOK, StagingAssumption
  <2> QED BY <1>0, <1>3, <2>1 DEF TypeOK
<1>6. Live' = Live /\ \A d, n : Made(d, n)' = Made(d, n)
  BY <1>3, <1>4 DEF Live, Made
<1>7. ViewIsCurrent'
  BY <1>0, <1>3, <1>4, <1>6 DEF ViewIsCurrent
<1>8. OneCopyUnderWay'
  <2>1. \A k \in Live : rows'[k].dep = rows[k].dep /\ rows'[k].node = rows[k].node
    BY <1>4 DEF Live
  <2> QED BY <1>6, <2>1 DEF OneCopyUnderWay
<1>9. PendingIsBackedInv'
  BY <1>0, <1>3, <1>4 DEF PendingIsBackedInv
<1>10. RetriesBounded'
  BY <1>6 DEF RetriesBounded
<1> QED BY <1>0, <1>5, <1>7, <1>8, <1>9, <1>10

\* A relay that is started: its candidate was chosen from the view, which knows
\* every relay under way, and every other one from before the tick.
LEMMA StartKeeps ==
  ASSUME StagingInv, NEW c \in Consumers, NEW d \in Deps, NEW n \in Nodes, StartRelay(c, d, n)
  PROVE  StagingInv'
<1> USE DEF StagingInv
<1>0. view.loaded /\ UNCHANGED <<retired, placed, faults>> BY DEF StartRelay
<1>1. CASE view' = NoView /\ UNCHANGED <<rows, intents>>
  <2>1. /\ TypeOK' /\ OneCopyUnderWay' /\ PendingIsBackedInv' /\ RetriesBounded'
    BY <1>0, <1>1 DEF TypeOK, OneCopyUnderWay, PendingIsBackedInv, RetriesBounded, Live, Made
  <2> QED BY <1>1, <2>1 DEF ViewIsCurrent, NoView
<1>2. CASE ~(view' = NoView /\ UNCHANGED <<rows, intents>>)
  <2>1. PICK w \in {"running", "lost"} :
          rows' = Append(rows, [dep |-> d, node |-> n, for |-> c, status |-> "active", worker |-> w])
    BY <1>2 DEF StartRelay
  <2> DEFINE r == [dep |-> d, node |-> n, for |-> c, status |-> "active", worker |-> w]
             l == Len(rows')
  <2>2. r \in Relay BY DEF Relay
  <2>3. /\ rows' \in Seq(Relay) /\ l = Len(rows) + 1
        /\ DOMAIN rows' = DOMAIN rows \cup {l} /\ l \notin DOMAIN rows
        /\ rows'[l] = r /\ \A i \in DOMAIN rows : rows'[i] = rows[i]
    BY <2>1, <2>2, AppendRow
  <2>4. /\ intents' = [intents EXCEPT ![c] = [state |-> "pending", node |-> n, last |-> l]]
        /\ view' = [view EXCEPT !.live = Live \cup {l}]
    BY <1>2 DEF StartRelay
  <2>5. /\ Cardinality(Live) < MaxLive
        /\ \A i \in Live : rows[i].dep # d \/ rows[i].node # n
    BY <1>0 DEF StartRelay, Candidate, RelayAvailable, ViewIsCurrent
  <2>6. Cardinality(Made(d, n)) < MaxFails
    <3>1. \A i \in DOMAIN rows : i > view.history => i \in Live
      BY <1>0 DEF ViewIsCurrent, Live
    <3>2. view.history \in Nat /\ view.history <= Len(rows)
      <4>1. view \in View BY <1>0 DEF NoView
      <4>2. view.history \in Nat BY <4>1 DEF View
      <4> QED BY <1>0, <4>2 DEF ViewIsCurrent
    <3> DEFINE upTo == IF HfEnabled THEN view.history ELSE Len(rows)
               past == {i \in 1 .. upTo : rows[i].dep = d /\ rows[i].node = n}
    <3>3. Cardinality(past) < MaxFails
      BY DEF StartRelay, Candidate, RetryPossible
    <3>4. past = Made(d, n)
      BY <2>5, <3>1, <3>2, RowFacts DEF Made
    <3> QED BY <3>3, <3>4
  <2> HIDE DEF r, l
  <2>7. r.dep = d /\ r.node = n /\ r.for = c /\ r.status = "active" BY DEF r
  <2>8. l \in Nat BY <2>3, RowFacts
  <2>9. TypeOK'
    <3>1. intents' \in [Consumers -> Intent]
      BY <2>4, <2>8 DEF TypeOK, Intent
    <3> QED BY <1>0, <2>3, <3>1 DEF TypeOK
  <2>10. Live' = Live \cup {l}
    BY <2>3, <2>7 DEF Live
  <2>11. view' \in View /\ ViewIsCurrent'
    <3>1. view \in View BY <1>0 DEF NoView
    <3>2. Live \cup {l} \in SUBSET Nat BY <2>8, RowFacts DEF Live
    <3>3. /\ view' \in View /\ view'.live = Live \cup {l} /\ view'.history = view.history
      BY <2>4, <3>1, <3>2 DEF View
    <3>4. view.history \in Nat /\ Len(rows) \in Nat BY <3>1, RowFacts DEF View
    <3> QED BY <1>0, <2>3, <2>7, <2>10, <3>3, <3>4 DEF ViewIsCurrent, l
  <2>12. OneCopyUnderWay'
    <3>1. IsFiniteSet(Live) /\ l \notin Live
      BY <2>3, RowFacts, FS_Subset DEF Live
    <3>2. Cardinality(Live \cup {l}) = Cardinality(Live) + 1 /\ Cardinality(Live) \in Nat
      BY <3>1, FS_AddElement, FS_CardinalityType
    <3>3. Cardinality(Live') <= MaxLive
      BY <2>5, <2>10, <3>2, StagingAssumption DEF StagingAssumption
    <3>4. \A i \in Live : rows'[i] = rows[i]
      BY <2>3 DEF Live
    <3> QED BY <2>3, <2>5, <2>7, <2>10, <3>3, <3>4 DEF OneCopyUnderWay
  <2>13. PendingIsBackedInv'
    <3> SUFFICES ASSUME NEW q \in Consumers, intents'[q].state = "pending"
                 PROVE  /\ intents'[q].last \in DOMAIN rows'
                        /\ rows'[intents'[q].last].for = q
                        /\ rows'[intents'[q].last].node = intents'[q].node
                        /\ rows'[intents'[q].last].status # "failed"
      BY DEF PendingIsBackedInv
    <3>1. CASE q = c
      <4>1. intents'[c] = [state |-> "pending", node |-> n, last |-> l]
        BY <2>4 DEF TypeOK
      <4> QED BY <2>3, <2>7, <3>1, <4>1
    <3>2. CASE q # c
      <4>1. intents'[q] = intents[q] BY <2>4, <3>2 DEF TypeOK
      <4> QED BY <2>3, <4>1 DEF PendingIsBackedInv
    <3> QED BY <3>1, <3>2
  <2>14. RetriesBounded'
    <3> SUFFICES ASSUME NEW e \in Deps, NEW m \in Nodes PROVE Cardinality(Made(e, m)') <= MaxFails
      BY DEF RetriesBounded
    <3>1. CASE e = d /\ m = n
      <4>1. Made(d, n)' = Made(d, n) \cup {l} /\ l \notin Made(d, n)
        BY <2>3, <2>7 DEF Made
      <4>2. IsFiniteSet(Made(d, n)) BY RowFacts, FS_Subset DEF Made
      <4>3. Cardinality(Made(d, n) \cup {l}) = Cardinality(Made(d, n)) + 1 /\ Cardinality(Made(d, n)) \in Nat
        BY <4>1, <4>2, FS_AddElement, FS_CardinalityType
      <4> QED BY <2>6, <3>1, <4>1, <4>3, StagingAssumption DEF StagingAssumption
    <3>2. CASE ~(e = d /\ m = n)
      <4>1. Made(e, m)' = Made(e, m)
        BY <2>3, <2>7, <3>2 DEF Made
      <4> QED BY <4>1 DEF RetriesBounded
    <3> QED BY <3>1, <3>2
  <2> QED BY <2>9, <2>11, <2>12, <2>13, <2>14
<1> QED BY <1>1, <1>2

\* The steps that leave the relays and the intents alone.
LEMMA OthersKeep ==
  ASSUME StagingInv, UNCHANGED <<rows, intents, faults>>,
         placed' \in [Consumers -> Nodes \cup {None}], retired' \subseteq Retirable,
         view' = view \/ view' = NoView \/ LoadView
  PROVE  StagingInv'
<1> USE DEF StagingInv
<1>1. TypeOK' BY DEF TypeOK
<1>2. OneCopyUnderWay' /\ PendingIsBackedInv' /\ RetriesBounded'
  BY DEF OneCopyUnderWay, PendingIsBackedInv, RetriesBounded, Live, Made
<1>3. (view' = NoView \/ view' \in View) /\ ViewIsCurrent'
  <2>1. CASE view' = view
    BY <2>1 DEF ViewIsCurrent, Live
  <2>2. CASE view' = NoView
    BY <2>2 DEF ViewIsCurrent, NoView
  <2>3. CASE LoadView
    BY <2>3, LoadedView, RowFacts DEF ViewIsCurrent, Live
  <2> QED BY <2>1, <2>2, <2>3
<1> QED BY <1>1, <1>2, <1>3

\* The invariant is inductive.
LEMMA StagingNext == StagingInv /\ [Next]_vars => StagingInv'
<1> SUFFICES ASSUME StagingInv, [Next]_vars PROVE StagingInv'
  OBVIOUS
<1>0. placed \in [Consumers -> Nodes \cup {None}] /\ retired \subseteq Retirable
  BY DEF StagingInv, TypeOK
<1>1. CASE LoadView \/ EndTick \/ Restart \/ UNCHANGED vars
  BY <1>0, <1>1, OthersKeep DEF LoadView, EndTick, Restart, vars, registry
<1>2. CASE \E c \in Consumers : PlaceFor(c)
  BY <1>0, <1>2, OthersKeep, StagingAssumption DEF PlaceFor, Place, StagingAssumption
<1>3. CASE \E d \in Deps : RetireOrigin(d)
  BY <1>0, <1>3, OthersKeep DEF RetireOrigin
<1>4. CASE \E i \in DOMAIN rows : Reconcile(i) \/ Work(i)
  BY <1>4, ReconcileKeeps, WorkKeeps
<1>5. CASE \E c \in Consumers : StartFor(c)
  BY <1>5, StartKeeps DEF StartFor
<1> QED BY <1>1, <1>2, <1>3, <1>4, <1>5 DEF Next

-----------------------------------------------------------------------------
(* The theorems.                                                           *)

\* The registry of relays and intents and the view of every tick fit together.
THEOREM StagingCorrect == Spec => []StagingInv
BY StagingInit, StagingNext, PTL DEF Spec

\* The rows of the registry are well formed.
THEOREM TypeCorrect == Spec => []TypeOK
<1>1. StagingInv => TypeOK
  BY DEF StagingInv
<1> QED BY <1>1, StagingCorrect, PTL

\* No artifact is under way twice to a node, and no more relays are under way
\* than there are slots, though one tick reserves many from one view.
THEOREM CopiesAreDistinct == Spec => []OneCopyUnderWay
<1>1. StagingInv => OneCopyUnderWay
  BY DEF StagingInv
<1> QED BY <1>1, StagingCorrect, PTL

\* A consumer is held to a node only for a relay that has not failed.
THEOREM ReservationsAreBacked == Spec => []PendingIsBacked
<1>1. StagingInv => PendingIsBacked
  BY DEF StagingInv, PendingIsBackedInv, PendingIsBacked
<1> QED BY <1>1, StagingCorrect, PTL

\* A relay is not retried beyond its budget, though with publication enabled its
\* history is read only once per tick.
THEOREM RetriesWithinBudget == Spec => []RetriesBounded
<1>1. StagingInv => RetriesBounded
  BY DEF StagingInv
<1> QED BY <1>1, StagingCorrect, PTL

=============================================================================
