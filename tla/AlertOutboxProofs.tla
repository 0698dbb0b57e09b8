-------------------------- MODULE AlertOutboxProofs --------------------------
(***************************************************************************)
(* The outbox of alerts, for any number of processes, alerts, routes and   *)
(* losses: no alert is posted twice unless its answer was lost, and no     *)
(* error is posted after the episode it belongs to.                        *)
(***************************************************************************)
EXTENDS AlertOutbox, WellFoundedInduction, TLAPS

-----------------------------------------------------------------------------
(* The inductive invariant.                                                *)

\* The lock of the delivery: one process holds alerts at a time.
OneDelivers ==
  \A p, q \in Processes : process[p].step # "idle" /\ process[q].step # "idle" => p = q

\* What a process still has to post was leased by it, or superseded since: an
\* alert is neither sent nor open to another delivery while it is held.
HeldIsLeased ==
  \A p \in Processes :
    /\ process[p].step \in {"idle", "resolved"} <=> process[p].due = {}
    /\ \A i \in process[p].due : outbox[i].status \in {"sending", "superseded"}

\* An alert that was posted is on record as sent, or is about to be.
Accepted(i) == \E p \in Processes : process[p].step = "accepted" /\ Current(p) = i
PostedIsKnown ==
  \A i \in DOMAIN outbox :
    outbox[i].posted = IF outbox[i].status = "sent" \/ Accepted(i) THEN 1 ELSE 0

\* An error that may still be posted belongs to the episode that goes on.
OpenErrorIsCurrent ==
  \A i \in DOMAIN outbox :
    outbox[i].kind = "error" /\ outbox[i].status \in Open => inError /\ ~outbox[i].over

OutboxInv == TypeOK /\ OneDelivers /\ HeldIsLeased /\ PostedIsKnown /\ OpenErrorIsCurrent

-----------------------------------------------------------------------------
(* Sets of rows, and rows.                                                 *)

\* The oldest of some alerts is one of them.
LEMMA MinIsMember ==
  ASSUME NEW S, S \subseteq Nat, S # {}
  PROVE  Min(S) \in S
<1>1. PICK m \in S : \A i \in S : ~ (<<i, m>> \in OpToRel(<, Nat))
  BY NatLessThanWellFounded, WFMin
<1>2. ASSUME NEW i \in S PROVE m <= i
  <2>1. i \in Nat /\ m \in Nat
    OBVIOUS
  <2>2. CASE i < m
    <3>1. <<i, m>> \in Nat \X Nat /\ <<i, m>>[1] < <<i, m>>[2]
      BY <2>1, <2>2
    <3>2. <<i, m>> \in OpToRel(<, Nat)
      BY <3>1 DEF OpToRel
    <3> QED BY <1>1, <3>2
  <2> QED BY <2>1, <2>2
<1> QED BY <1>2 DEF Min

\* A row that changes its status stays a row.
LEMMA CloseFacts ==
  ASSUME NEW row \in Alert, NEW s \in Status
  PROVE  /\ Close(row, s) \in Alert
         /\ Close(row, s).kind = row.kind /\ Close(row, s).status = s
         /\ Close(row, s).posted = row.posted /\ Close(row, s).over = row.over
BY DEF Alert, Close

\* A row that is put back or given up waits, and keeps its kind and its posts.
LEMMA WaitFacts ==
  ASSUME NEW row \in Alert, NEW s \in Status
  PROVE  LET new == [row EXCEPT !.status = s, !.waits = TRUE]
         IN  /\ new \in Alert /\ new.kind = row.kind /\ new.status = s
             /\ new.posted = row.posted /\ new.over = row.over
BY DEF Alert

\* A row whose delivery failed is pending again, and as often posted as before.
LEMMA BackOffFacts ==
  ASSUME NEW row \in Alert
  PROVE  /\ BackOff(row) \in Alert
         /\ BackOff(row).kind = row.kind
         /\ BackOff(row).posted = row.posted /\ BackOff(row).over = row.over
         /\ BackOff(row).status = IF row.status = "sending" THEN "pending" ELSE row.status
BY DEF BackOff, Alert, Status

\* The wait of a row ends, and nothing else of it changes.
LEMMA ReadyFacts ==
  ASSUME NEW row \in Alert
  PROVE  LET new == [row EXCEPT !.waits = FALSE]
         IN  /\ new \in Alert /\ new.kind = row.kind /\ new.status = row.status
             /\ new.posted = row.posted /\ new.over = row.over
BY DEF Alert

\* A post counts for the row, and changes nothing else of it.
LEMMA PostFacts ==
  ASSUME NEW row \in Alert, NEW n \in Int
  PROVE  LET new == [row EXCEPT !.posted = n]
         IN  /\ new \in Alert /\ new.kind = row.kind /\ new.status = row.status
             /\ new.posted = n /\ new.over = row.over
BY DEF Alert

\* The end of an error is noted in a row, and nothing else of it changes.
LEMMA OverFacts ==
  ASSUME NEW row \in Alert, NEW b \in BOOLEAN
  PROVE  LET new == [row EXCEPT !.over = row.over \/ b]
         IN  /\ new \in Alert /\ new.kind = row.kind /\ new.status = row.status
             /\ new.posted = row.posted
BY DEF Alert

\* A sequence of rows as a function, and back.
LEMMA RowFacts ==
  ASSUME TypeOK
  PROVE  /\ Len(outbox) \in Nat /\ DOMAIN outbox = 1 .. Len(outbox) /\ DOMAIN outbox \subseteq Nat
         /\ \A i \in DOMAIN outbox : outbox[i] \in Alert
         /\ \A p \in Processes : process[p] \in Delivery /\ process[p].due \subseteq DOMAIN outbox
BY DEF TypeOK

\* As many well-formed rows as the outbox has make an outbox.
LEMMA RowsAgain ==
  ASSUME TypeOK, NEW rows, rows \in [DOMAIN outbox -> Alert]
  PROVE  rows \in Seq(Alert) /\ Len(rows) = Len(outbox) /\ DOMAIN rows = DOMAIN outbox
BY RowFacts

\* Rows put after others.
LEMMA ConcatFacts ==
  ASSUME NEW s \in Seq(Alert), NEW t \in Seq(Alert)
  PROVE  /\ s \o t \in Seq(Alert) /\ Len(s \o t) = Len(s) + Len(t)
         /\ \A i \in 1 .. Len(s) : (s \o t)[i] = s[i]
         /\ \A i \in Len(s) + 1 .. Len(s) + Len(t) : (s \o t)[i] = t[i - Len(s)]
<1>1. s \o t \in Seq(Alert)
  OBVIOUS
<1>2. Len(s \o t) = Len(s) + Len(t)
  OBVIOUS
<1>3. \A i \in 1 .. Len(s) : (s \o t)[i] = s[i]
  OBVIOUS
<1>4. \A i \in Len(s) + 1 .. Len(s) + Len(t) : (s \o t)[i] = t[i - Len(s)]
  OBVIOUS
<1> QED BY <1>1, <1>2, <1>3, <1>4

\* Superseding leaves the rows in place, and no error open.
LEMMA SupersedeFacts ==
  ASSUME TypeOK
  PROVE  /\ Supersede(outbox) \in [DOMAIN outbox -> Alert]
         /\ \A i \in DOMAIN outbox :
              LET row == Supersede(outbox)[i]
              IN  /\ row.kind = outbox[i].kind /\ row.posted = outbox[i].posted
                  /\ row.over = outbox[i].over
                  /\ \/ row.status = outbox[i].status
                     \/ row.status = "superseded" /\ outbox[i].status \in Open
                  /\ row.kind = "error" => row.status \notin Open
<1>1. ASSUME NEW i \in DOMAIN outbox
      PROVE  Close(outbox[i], "superseded") \in Alert
  BY RowFacts, CloseFacts DEF Status
<1>2. Supersede(outbox) \in [DOMAIN outbox -> Alert]
  BY <1>1, RowFacts DEF Supersede
<1>3. ASSUME NEW i \in DOMAIN outbox
      PROVE  LET row == Supersede(outbox)[i]
             IN  /\ row.kind = outbox[i].kind /\ row.posted = outbox[i].posted
                 /\ row.over = outbox[i].over
                 /\ \/ row.status = outbox[i].status
                    \/ row.status = "superseded" /\ outbox[i].status \in Open
                 /\ row.kind = "error" => row.status \notin Open
  BY RowFacts, CloseFacts DEF Supersede, Open, Status
<1> QED BY <1>2, <1>3

-----------------------------------------------------------------------------
(* Processes.                                                              *)

\* A process takes its next step, or rests when nothing is left.
LEMMA BecomeFacts ==
  ASSUME TypeOK, NEW p \in Processes, NEW step \in Step, NEW due, due \subseteq DOMAIN outbox,
         Become(p, step, due)
  PROVE  /\ process' \in [Processes -> Delivery]
         /\ \A q \in Processes \ {p} : process'[q] = process[q]
         /\ process'[p].due = due
         /\ process'[p].step = IF due = {} THEN "idle" ELSE step
<1>1. Resting \in Delivery BY DEF Resting, Delivery, Step
<1>2. [process[p] EXCEPT !.step = step, !.due = due] \in Delivery
  BY RowFacts DEF Delivery
<1>3. process' = [process EXCEPT ![p] = IF due = {} THEN Resting
                                        ELSE [process[p] EXCEPT !.step = step, !.due = due]]
  BY DEF Become
<1>4. process \in [Processes -> Delivery] BY DEF TypeOK
<1> QED BY <1>1, <1>2, <1>3, <1>4, RowFacts DEF Resting, Delivery

\* The process that delivers, and the alert it is at.
LEMMA DeliveringFacts ==
  ASSUME OutboxInv, NEW p \in Processes, process[p].step # "idle"
  PROVE  /\ \A q \in Processes \ {p} : process[q].step = "idle"
         /\ process[p].step # "resolved" =>
              /\ Current(p) \in process[p].due /\ Current(p) \in DOMAIN outbox
              /\ outbox[Current(p)].status \in {"sending", "superseded"}
         /\ \A i : Accepted(i) <=> (process[p].step = "accepted" /\ Current(p) = i)
<1>1. \A q \in Processes \ {p} : process[q].step = "idle"
  BY DEF OutboxInv, OneDelivers
<1>2. \A i : Accepted(i) <=> (process[p].step = "accepted" /\ Current(p) = i)
  BY <1>1 DEF Accepted
<1>3. ASSUME process[p].step # "resolved"
      PROVE  /\ Current(p) \in process[p].due /\ Current(p) \in DOMAIN outbox
             /\ outbox[Current(p)].status \in {"sending", "superseded"}
  <2>1. process[p].due # {} BY <1>3 DEF OutboxInv, HeldIsLeased
  <2>2. process[p].due \subseteq DOMAIN outbox /\ DOMAIN outbox \subseteq Nat
    BY RowFacts DEF OutboxInv
  <2>3. Current(p) \in process[p].due BY <2>1, <2>2, MinIsMember DEF Current
  <2> QED BY <2>2, <2>3 DEF OutboxInv, HeldIsLeased
<1> QED BY <1>1, <1>2, <1>3

\* What a step of the process that delivers has to see to.
LEMMA DeliveryKeeps ==
  ASSUME OutboxInv, NEW p \in Processes,
         \A q \in Processes \ {p} : process[q].step = "idle" /\ process'[q] = process[q],
         process' \in [Processes -> Delivery], outbox' \in [DOMAIN outbox -> Alert],
         inError' = inError, routed' = routed, losses' \in 0 .. MaxLosses,
         process'[p].due \subseteq DOMAIN outbox,
         process'[p].step \in {"idle", "resolved"} <=> process'[p].due = {},
         \A i \in process'[p].due : outbox'[i].status \in {"sending", "superseded"},
         \A i \in DOMAIN outbox :
           /\ outbox'[i].posted = IF outbox'[i].status = "sent" \/ (process'[p].step = "accepted" /\ Current(p)' = i)
                                  THEN 1 ELSE 0
           /\ outbox'[i].kind = outbox[i].kind /\ outbox'[i].over = outbox[i].over
           /\ outbox'[i].status \in Open => outbox[i].status \in Open
  PROVE  OutboxInv'
<1>0. TypeOK BY DEF OutboxInv
<1>1. outbox' \in Seq(Alert) /\ Len(outbox') = Len(outbox) /\ DOMAIN outbox' = DOMAIN outbox
  BY <1>0, RowsAgain
<1>2. TypeOK'
  BY <1>0, <1>1 DEF TypeOK
<1>3. OneDelivers'
  BY DEF OneDelivers
<1>4. HeldIsLeased'
  <2>1. \A q \in Processes \ {p} : process[q].due = {}
    BY DEF OutboxInv, HeldIsLeased
  <2> QED BY <2>1 DEF HeldIsLeased
<1>5. PostedIsKnown'
  <2>1. \A i : Accepted(i)' <=> (process'[p].step = "accepted" /\ Current(p)' = i)
    BY DEF Accepted
  <2> QED BY <1>1, <2>1 DEF PostedIsKnown
<1>6. OpenErrorIsCurrent'
  BY <1>1 DEF OutboxInv, OpenErrorIsCurrent
<1> QED BY <1>2, <1>3, <1>4, <1>5, <1>6 DEF OutboxInv

-----------------------------------------------------------------------------
(* The invariant is inductive.                                             *)

\* An empty outbox, and nobody delivers.
LEMMA OutboxInit == Init => OutboxInv
<1> SUFFICES ASSUME Init PROVE OutboxInv
  OBVIOUS
<1>1. Resting \in Delivery BY DEF Resting, Delivery, Step
<1>2. TypeOK
  <2>1. outbox \in Seq(Alert) /\ Len(outbox) = 0 BY DEF Init
  <2>2. \A p \in Processes : process[p] = Resting /\ Resting.due = {} BY DEF Init, Resting
  <2>3. process \in [Processes -> Delivery] BY <1>1 DEF Init
  <2>4. 0 <= MaxAlerts /\ 0 \in 0 .. MaxLosses BY OutboxAssumption DEF OutboxAssumption
  <2> QED BY <2>1, <2>2, <2>3, <2>4 DEF Init, TypeOK
<1>3. OneDelivers /\ HeldIsLeased BY DEF Init, OneDelivers, HeldIsLeased, Resting
<1>4. PostedIsKnown /\ OpenErrorIsCurrent BY DEF Init, PostedIsKnown, OpenErrorIsCurrent
<1> QED BY <1>2, <1>3, <1>4 DEF OutboxInv

\* A poll may come at any step of a delivery: it adds alerts, and supersedes
\* errors when their episode ends.
LEMMA PollKeeps ==
  ASSUME OutboxInv, NEW error \in BOOLEAN, NEW kinds \in Raised, Poll(error, kinds)
  PROVE  OutboxInv'
<1>0. /\ TypeOK /\ OneDelivers /\ HeldIsLeased /\ PostedIsKnown /\ OpenErrorIsCurrent
      /\ UNCHANGED <<process, routed, losses>> /\ inError' = error
      /\ Len(outbox) + Len(kinds) <= MaxAlerts
  BY DEF OutboxInv, Poll
<1> DEFINE old == IF error THEN outbox ELSE ErrorsEnd(Supersede(outbox))
           new == [k \in DOMAIN kinds |-> NewAlert(kinds[k])]
<1>1. kinds \in Seq(Kind)
  <2>1. PICK n \in 0 .. 2 : kinds \in [1 .. n -> Kinds] BY DEF Raised
  <2>2. Kinds \subseteq Kind BY OutboxAssumption DEF OutboxAssumption
  <2> QED BY <2>1, <2>2
<1>2. /\ old \in [DOMAIN outbox -> Alert]
      /\ \A i \in DOMAIN outbox :
           /\ old[i].kind = outbox[i].kind /\ old[i].posted = outbox[i].posted
           /\ \/ old[i].status = outbox[i].status
              \/ old[i].status = "superseded" /\ outbox[i].status \in Open
           /\ error => old[i] = outbox[i]
           /\ ~error /\ old[i].kind = "error" => old[i].status \notin Open
  <2>1. CASE error
    BY <1>0, <2>1, RowFacts DEF TypeOK
  <2>2. CASE ~error
    <3> DEFINE sup == Supersede(outbox)
    <3>1. sup \in [DOMAIN outbox -> Alert] BY <1>0, SupersedeFacts
    <3>2. ASSUME NEW i \in DOMAIN outbox
          PROVE  /\ ErrorsEnd(sup)[i] \in Alert /\ ErrorsEnd(sup)[i].kind = sup[i].kind
                 /\ ErrorsEnd(sup)[i].status = sup[i].status /\ ErrorsEnd(sup)[i].posted = sup[i].posted
      <4>1. sup[i] \in Alert BY <3>1
      <4>2. ErrorsEnd(sup)[i] = [sup[i] EXCEPT !.over = sup[i].over \/ sup[i].kind = "error"]
        BY <3>1 DEF ErrorsEnd
      <4>3. (sup[i].kind = "error") \in BOOLEAN
        OBVIOUS
      <4> HIDE DEF sup
      <4> QED BY <4>1, <4>2, <4>3, OverFacts
    <3>3. ErrorsEnd(sup) \in [DOMAIN outbox -> Alert]
      BY <3>1, <3>2 DEF ErrorsEnd
    <3>4. old = ErrorsEnd(sup) BY <2>2
    <3> QED BY <1>0, <2>2, <3>2, <3>3, <3>4, SupersedeFacts
  <2> QED BY <2>1, <2>2
<1>3. old \in Seq(Alert) /\ Len(old) = Len(outbox) /\ DOMAIN old = DOMAIN outbox
  BY <1>0, <1>2, RowsAgain
<1>4. /\ new \in Seq(Alert) /\ Len(new) = Len(kinds) /\ DOMAIN new = DOMAIN kinds
      /\ \A k \in DOMAIN kinds : new[k] = NewAlert(kinds[k])
  <2>1. \A k \in DOMAIN kinds : NewAlert(kinds[k]) \in Alert
    BY <1>1 DEF NewAlert, Alert, Status
  <2>2. DOMAIN kinds = 1 .. Len(kinds) /\ Len(kinds) \in Nat
    BY <1>1
  <2> QED BY <2>1, <2>2
<1>5. outbox' = old \o new
  BY DEF Poll
<1> HIDE DEF old, new
<1>6. /\ outbox' \in Seq(Alert) /\ Len(outbox') = Len(outbox) + Len(kinds)
      /\ DOMAIN outbox \subseteq DOMAIN outbox'
      /\ \A i \in DOMAIN outbox : outbox'[i] = old[i]
      /\ \A i \in DOMAIN outbox' \ DOMAIN outbox : \E k \in DOMAIN kinds : outbox'[i] = NewAlert(kinds[k])
  <2>1. /\ outbox' \in Seq(Alert) /\ Len(outbox') = Len(old) + Len(new)
        /\ \A i \in 1 .. Len(old) : outbox'[i] = old[i]
        /\ \A i \in Len(old) + 1 .. Len(old) + Len(new) : outbox'[i] = new[i - Len(old)]
    BY <1>3, <1>4, <1>5, ConcatFacts
  <2>2. DOMAIN outbox' = 1 .. Len(outbox') /\ DOMAIN outbox = 1 .. Len(outbox) /\ DOMAIN kinds = 1 .. Len(kinds)
        /\ Len(outbox) \in Nat /\ Len(kinds) \in Nat
    BY <1>0, <1>1, <2>1, RowFacts
  <2>3. ASSUME NEW i \in DOMAIN outbox' \ DOMAIN outbox
        PROVE  \E k \in DOMAIN kinds : outbox'[i] = NewAlert(kinds[k])
    <3>1. i - Len(old) \in DOMAIN kinds /\ outbox'[i] = new[i - Len(old)]
      BY <1>3, <1>4, <2>1, <2>2
    <3> QED BY <1>4, <3>1
  <2> QED BY <1>3, <1>4, <2>1, <2>2, <2>3
<1>7. TypeOK'
  BY <1>0, <1>6 DEF TypeOK
<1>8. OneDelivers' /\ HeldIsLeased'
  <2>1. \A p \in Processes : process'[p] = process[p] /\ process[p].due \subseteq DOMAIN outbox
    BY <1>0, RowFacts
  <2>2. \A i \in DOMAIN outbox : outbox[i].status \in {"sending", "superseded"}
                                 => outbox'[i].status \in {"sending", "superseded"}
    BY <1>2, <1>6
  <2> QED BY <1>0, <2>1, <2>2 DEF OneDelivers, HeldIsLeased
<1>9. PostedIsKnown'
  <2>1. \A i : Accepted(i)' <=> Accepted(i)
    BY <1>0 DEF Accepted, Current
  <2>2. \A i : Accepted(i) => i \in DOMAIN outbox
    BY DeliveringFacts DEF Accepted
  <2>3. \A i \in DOMAIN outbox : outbox'[i].posted = outbox[i].posted
                                 /\ (outbox'[i].status = "sent" <=> outbox[i].status = "sent")
    BY <1>2, <1>6 DEF Open
  <2>4. \A i \in DOMAIN outbox' \ DOMAIN outbox : outbox'[i].posted = 0 /\ outbox'[i].status = "pending"
    BY <1>6 DEF NewAlert
  <2> QED BY <1>0, <2>1, <2>2, <2>3, <2>4 DEF PostedIsKnown
<1>10. OpenErrorIsCurrent'
  <2>1. ASSUME NEW i \in DOMAIN outbox, outbox'[i].kind = "error", outbox'[i].status \in Open
        PROVE  inError' /\ ~outbox'[i].over
    <3>1. error BY <1>2, <1>6, <2>1
    <3> QED BY <1>0, <1>2, <1>6, <2>1, <3>1 DEF OpenErrorIsCurrent
  <2>2. ASSUME NEW i \in DOMAIN outbox' \ DOMAIN outbox, outbox'[i].kind = "error"
        PROVE  inError' /\ ~outbox'[i].over
    <3>1. PICK k \in DOMAIN kinds : outbox'[i] = NewAlert(kinds[k]) BY <1>6
    <3>2. kinds[k] = "error" /\ ~outbox'[i].over BY <2>2, <3>1 DEF NewAlert
    <3>3. error BY <3>2 DEF Poll
    <3> QED BY <1>0, <3>2, <3>3
  <2> QED BY <2>1, <2>2 DEF OpenErrorIsCurrent
<1> QED BY <1>7, <1>8, <1>9, <1>10 DEF OutboxInv

\* Nobody delivers: nothing is accepted and not yet acknowledged.
LEMMA BeginKeeps ==
  ASSUME OutboxInv, NEW p \in Processes, BeginDelivery(p)
  PROVE  OutboxInv'
<1>0. TypeOK /\ process[p].step = "idle" /\ \A q \in Processes : process[q].step = "idle"
  BY DEF OutboxInv, BeginDelivery, DeliveryLockFree
<1>1. /\ outbox' \in [DOMAIN outbox -> Alert]
      /\ \A i \in DOMAIN outbox :
           /\ outbox'[i].kind = outbox[i].kind /\ outbox'[i].posted = outbox[i].posted
           /\ outbox'[i].over = outbox[i].over
           /\ \/ outbox'[i].status = outbox[i].status
              \/ outbox'[i].status = "superseded" /\ outbox[i].status \in Open
  <2>1. CASE inError
    BY <1>0, <2>1, RowFacts DEF BeginDelivery, TypeOK
  <2>2. CASE ~inError
    BY <1>0, <2>2, SupersedeFacts DEF BeginDelivery
  <2> QED BY <2>1, <2>2
<1>2. PICK urls \in SUBSET Route : process' = [process EXCEPT ![p] = [step |-> "resolved", due |-> {}, urls |-> urls]]
  BY <1>0 DEF BeginDelivery, TypeOK
<1>3. /\ process' \in [Processes -> Delivery] /\ process'[p].step = "resolved" /\ process'[p].due = {}
      /\ \A q \in Processes \ {p} : process'[q] = process[q]
  <2>1. [step |-> "resolved", due |-> {}, urls |-> urls] \in Delivery BY DEF Delivery, Step
  <2> QED BY <1>0, <1>2, <2>1 DEF TypeOK
<1>4. \A i \in DOMAIN outbox : ~Accepted(i)
  BY <1>0 DEF Accepted
<1>5. \A i \in DOMAIN outbox : outbox'[i].posted = IF outbox'[i].status = "sent" THEN 1 ELSE 0
  BY <1>1, <1>4 DEF OutboxInv, PostedIsKnown, Open
<1>6. losses' \in 0 .. MaxLosses /\ inError' = inError /\ routed' = routed
  BY <1>0 DEF BeginDelivery, TypeOK
<1>7. \A i \in DOMAIN outbox : outbox'[i].status \in Open => outbox[i].status \in Open
  BY <1>1 DEF Open
<1> QED BY <1>0, <1>1, <1>3, <1>5, <1>6, <1>7, DeliveryKeeps

\* Leases are taken on open alerts only.
LEMMA ClaimKeeps ==
  ASSUME OutboxInv, NEW p \in Processes, Claim(p)
  PROVE  OutboxInv'
<1>0. TypeOK /\ process[p].step = "resolved"
  BY DEF OutboxInv, Claim
<1>1. Claimable(p) \subseteq DOMAIN outbox /\ \A i \in Claimable(p) : outbox[i].status \in Open
  BY DEF Claimable, FirstDue, IsDue
<1>2. /\ process' \in [Processes -> Delivery] /\ \A q \in Processes \ {p} : process'[q] = process[q]
      /\ process'[p].due = Claimable(p)
      /\ process'[p].step = IF Claimable(p) = {} THEN "idle" ELSE "claimed"
  <2>1. Become(p, "claimed", Claimable(p)) /\ "claimed" \in Step BY DEF Claim, Step
  <2> QED BY <1>0, <1>1, <2>1, BecomeFacts
<1>3. /\ outbox' \in [DOMAIN outbox -> Alert]
      /\ \A i \in DOMAIN outbox :
           /\ outbox'[i].kind = outbox[i].kind /\ outbox'[i].posted = outbox[i].posted
           /\ outbox'[i].over = outbox[i].over
           /\ outbox'[i].status = IF i \in Claimable(p) THEN "sending" ELSE outbox[i].status
  <2> DEFINE leased(i) == [outbox[i] EXCEPT !.status = "sending", !.waits = TRUE]
  <2>1. outbox' = [i \in DOMAIN outbox |-> IF i \in Claimable(p) THEN leased(i) ELSE outbox[i]]
    BY DEF Claim
  <2>2. ASSUME NEW i \in DOMAIN outbox
        PROVE  /\ leased(i) \in Alert /\ leased(i).kind = outbox[i].kind /\ leased(i).status = "sending"
               /\ leased(i).posted = outbox[i].posted /\ leased(i).over = outbox[i].over
    <3>1. outbox[i] \in Alert /\ "sending" \in Status BY <1>0, RowFacts DEF Status
    <3> QED BY <3>1, WaitFacts
  <2>3. \A i \in DOMAIN outbox : outbox[i] \in Alert
    BY <1>0, RowFacts
  <2> HIDE DEF leased
  <2> QED BY <2>1, <2>2, <2>3
<1>4. \A q \in Processes \ {p} : process[q].step = "idle"
  BY <1>0, DeliveringFacts
<1>5. \A i \in DOMAIN outbox : outbox[i].posted = IF outbox[i].status = "sent" THEN 1 ELSE 0
  BY <1>0, DeliveringFacts DEF OutboxInv, PostedIsKnown
<1>6. \A i \in DOMAIN outbox : outbox'[i].posted = IF outbox'[i].status = "sent" THEN 1 ELSE 0
  BY <1>1, <1>3, <1>5 DEF Open
<1>7. \A i \in DOMAIN outbox : outbox'[i].status \in Open => outbox[i].status \in Open
  BY <1>1, <1>3 DEF Open
<1>8. losses' \in 0 .. MaxLosses /\ inError' = inError /\ routed' = routed
  BY <1>0 DEF Claim, TypeOK
<1>9. \A i \in process'[p].due : outbox'[i].status \in {"sending", "superseded"}
  BY <1>1, <1>2, <1>3
<1>10. /\ process'[p].step \in {"idle", "resolved"} <=> process'[p].due = {}
       /\ process'[p].step # "accepted" /\ process'[p].due \subseteq DOMAIN outbox
  BY <1>1, <1>2
<1> QED BY <1>2, <1>3, <1>4, <1>6, <1>7, <1>8, <1>9, <1>10, DeliveryKeeps

\* A step at the current alert: it is gone on with or it is done with, and only
\* its row changes.
LEMMA CurrentKeeps ==
  ASSUME OutboxInv, NEW p \in Processes, process[p].step \notin {"idle", "resolved"},
         NEW step \in Step \ {"idle", "resolved"}, NEW due,
         \/ due = process[p].due
         \/ due = process[p].due \ {Current(p)} /\ step # "accepted",
         Become(p, step, due),
         NEW row \in Alert, outbox' = [outbox EXCEPT ![Current(p)] = row],
         row.kind = outbox[Current(p)].kind, row.over = outbox[Current(p)].over,
         row.status \in Open => outbox[Current(p)].status \in Open,
         Current(p) \in due => row.status \in {"sending", "superseded"},
         row.posted = IF row.status = "sent" \/ step = "accepted" THEN 1 ELSE 0,
         inError' = inError, routed' = routed, losses' = losses
  PROVE  OutboxInv'
<1>0. TypeOK BY DEF OutboxInv
<1>1. /\ \A q \in Processes \ {p} : process[q].step = "idle"
      /\ Current(p) \in process[p].due /\ Current(p) \in DOMAIN outbox
      /\ \A i : Accepted(i) <=> (process[p].step = "accepted" /\ Current(p) = i)
  BY DeliveringFacts
<1>2. due \subseteq process[p].due /\ process[p].due \subseteq DOMAIN outbox /\ DOMAIN outbox \subseteq Nat
  BY <1>0, RowFacts
<1>3. /\ process' \in [Processes -> Delivery] /\ \A q \in Processes \ {p} : process'[q] = process[q]
      /\ process'[p].due = due /\ process'[p].step = IF due = {} THEN "idle" ELSE step
  BY <1>0, <1>2, BecomeFacts
<1>4. outbox \in [DOMAIN outbox -> Alert]
  BY <1>0, RowFacts DEF TypeOK
<1>5. /\ outbox' \in [DOMAIN outbox -> Alert] /\ outbox'[Current(p)] = row
      /\ \A i \in DOMAIN outbox \ {Current(p)} : outbox'[i] = outbox[i]
  BY <1>1, <1>4
<1>6. step = "accepted" => Current(p)' = Current(p) /\ process'[p].step = "accepted"
  BY <1>1, <1>3 DEF Current
<1>7. \A i \in DOMAIN outbox :
        outbox'[i].posted = IF outbox'[i].status = "sent" \/ (process'[p].step = "accepted" /\ Current(p)' = i)
                            THEN 1 ELSE 0
  <2>1. process'[p].step = "accepted" <=> step = "accepted"
    BY <1>3, <1>6
  <2>2. \A i \in DOMAIN outbox \ {Current(p)} : outbox[i].posted = IF outbox[i].status = "sent" THEN 1 ELSE 0
    BY <1>1 DEF OutboxInv, PostedIsKnown
  <2> QED BY <1>5, <1>6, <2>1, <2>2
<1>8. \A i \in process'[p].due : outbox'[i].status \in {"sending", "superseded"}
  <2>1. \A i \in process[p].due : outbox[i].status \in {"sending", "superseded"}
    BY DEF OutboxInv, HeldIsLeased
  <2> QED BY <1>2, <1>3, <1>5, <2>1
<1>9. /\ process'[p].step \in {"idle", "resolved"} <=> process'[p].due = {}
      /\ process'[p].due \subseteq DOMAIN outbox
  BY <1>2, <1>3
<1>10. /\ losses' \in 0 .. MaxLosses
       /\ \A i \in DOMAIN outbox : /\ outbox'[i].kind = outbox[i].kind /\ outbox'[i].over = outbox[i].over
                                   /\ outbox'[i].status \in Open => outbox[i].status \in Open
  BY <1>0, <1>5 DEF TypeOK
<1> QED BY <1>1, <1>3, <1>5, <1>7, <1>8, <1>9, <1>10, DeliveryKeeps

\* Looking again, posting and its two outcomes.
LEMMA PostKeeps ==
  ASSUME OutboxInv, NEW p \in Processes,
         Recheck(p) \/ Accept(p) \/ Refuse(p) \/ Acknowledge(p) \/ Fail(p)
  PROVE  OutboxInv'
<1>0. TypeOK /\ process[p].step \notin {"idle", "resolved"} /\ UNCHANGED <<inError, routed, losses>>
  BY DEF OutboxInv, Recheck, Accept, Refuse, Acknowledge, Fail
<1> DEFINE c == Current(p)
           row == outbox[c]
<1>1. /\ c \in DOMAIN outbox /\ row \in Alert /\ row.status \in {"sending", "superseded"}
      /\ outbox = [outbox EXCEPT ![c] = row]
      /\ row.posted = IF process[p].step = "accepted" THEN 1 ELSE 0
  <2>1. /\ c \in DOMAIN outbox /\ row.status \in {"sending", "superseded"}
        /\ Accepted(c) <=> process[p].step = "accepted"
    BY <1>0, DeliveringFacts
  <2>2. row.posted = IF process[p].step = "accepted" THEN 1 ELSE 0
    BY <2>1 DEF OutboxInv, PostedIsKnown
  <2>3. outbox \in [DOMAIN outbox -> Alert]
    BY <1>0, RowFacts DEF TypeOK
  <2> QED BY <2>1, <2>2, <2>3
<1> DEFINE rest == process[p].due \ {c}
<1>2. c \notin rest /\ {"claimed", "posting", "accepted", "refused"} \subseteq Step \ {"idle", "resolved"}
  BY DEF Step
<1>3. CASE Recheck(p)
  <2>1. outbox' = [outbox EXCEPT ![c] = row] /\ row.posted = 0
    BY <1>1, <1>3 DEF Recheck
  <2>2. CASE Become(p, "posting", process[p].due)
    BY <1>0, <1>1, <1>2, <2>1, <2>2, CurrentKeeps
  <2>3. CASE Become(p, "claimed", rest)
    BY <1>0, <1>1, <1>2, <2>1, <2>3, CurrentKeeps
  <2> QED BY <1>3, <2>2, <2>3 DEF Recheck
<1>4. CASE Accept(p)
  <2> DEFINE new == [row EXCEPT !.posted = 1]
  <2>1. /\ new \in Alert /\ new.kind = row.kind /\ new.status = row.status
        /\ new.posted = 1 /\ new.over = row.over
    BY <1>1, PostFacts
  <2>2. outbox' = [outbox EXCEPT ![c] = new]
    <3>1. row.posted + 1 = 1 BY <1>1, <1>4 DEF Accept
    <3>2. outbox' = [outbox EXCEPT ![c] = [row EXCEPT !.posted = row.posted + 1]]
      BY <1>4 DEF Accept
    <3> QED BY <3>1, <3>2
  <2> HIDE DEF new
  <2> QED BY <1>0, <1>1, <1>2, <1>4, <2>1, <2>2, CurrentKeeps DEF Accept
<1>5. CASE Refuse(p)
  <2>1. /\ outbox' = [outbox EXCEPT ![c] = row] /\ row.posted = 0 /\ row.status # "sent"
        /\ Become(p, "refused", process[p].due)
    BY <1>1, <1>5 DEF Refuse
  <2> QED BY <1>0, <1>1, <1>2, <2>1, CurrentKeeps
<1>6. CASE Acknowledge(p)
  <2> DEFINE new == Close(row, "sent")
  <2>1. /\ new \in Alert /\ new.kind = row.kind /\ new.status = "sent"
        /\ new.posted = row.posted /\ new.over = row.over
    BY <1>1, CloseFacts DEF Status
  <2>2. /\ outbox' = [outbox EXCEPT ![c] = new] /\ row.posted = 1
        /\ Become(p, "claimed", rest)
    BY <1>1, <1>6 DEF Acknowledge
  <2>3. new.status \notin Open BY <2>1 DEF Open
  <2> HIDE DEF new
  <2> QED BY <1>0, <1>1, <1>2, <2>1, <2>2, <2>3, CurrentKeeps
<1>7. CASE Fail(p)
  <2> DEFINE new == BackOff(row)
  <2>1. /\ new \in Alert /\ new.kind = row.kind /\ new.posted = row.posted /\ new.over = row.over
        /\ new.status = IF row.status = "sending" THEN "pending" ELSE row.status
    BY <1>1, BackOffFacts
  <2>2. /\ outbox' = [outbox EXCEPT ![c] = new] /\ row.posted = 0
        /\ Become(p, "claimed", rest)
    BY <1>1, <1>7 DEF Fail
  <2>3. new.status # "sent" /\ (new.status \in Open => row.status \in Open)
    BY <1>1, <2>1 DEF Open
  <2> HIDE DEF new
  <2> QED BY <1>0, <1>1, <1>2, <2>1, <2>2, <2>3, CurrentKeeps
<1> QED BY <1>3, <1>4, <1>5, <1>6, <1>7

\* A process dies with what it holds, and with the answer it waits for.
LEMMA DieKeeps ==
  ASSUME OutboxInv, NEW p \in Processes, Die(p)
  PROVE  OutboxInv'
<1>0. TypeOK /\ process[p].step # "idle"
  BY DEF OutboxInv, Die
<1>1. /\ process' \in [Processes -> Delivery] /\ \A q \in Processes \ {p} : process'[q] = process[q]
      /\ process'[p].step = "idle" /\ process'[p].due = {}
  <2>1. Resting \in Delivery BY DEF Resting, Delivery, Step
  <2> QED BY <1>0, <2>1 DEF Die, TypeOK, Resting
<1>2. losses' \in 0 .. MaxLosses /\ inError' = inError /\ routed' = routed
  BY <1>0, OutboxAssumption DEF Die, TypeOK, OutboxAssumption
<1>3. outbox \in [DOMAIN outbox -> Alert]
  BY <1>0, RowFacts DEF TypeOK
<1>4. /\ \A q \in Processes \ {p} : process[q].step = "idle"
      /\ \A i : Accepted(i) <=> (process[p].step = "accepted" /\ Current(p) = i)
      /\ process[p].step = "accepted" =>
           Current(p) \in DOMAIN outbox /\ outbox[Current(p)].status \in {"sending", "superseded"}
  BY <1>0, DeliveringFacts
<1>5. /\ outbox' \in [DOMAIN outbox -> Alert]
      /\ \A i \in DOMAIN outbox :
           /\ outbox'[i].kind = outbox[i].kind /\ outbox'[i].over = outbox[i].over
           /\ outbox'[i].status = outbox[i].status
           /\ outbox'[i].posted = IF outbox[i].status = "sent" THEN 1 ELSE 0
  <2>1. CASE process[p].step # "accepted"
    BY <1>3, <1>4, <2>1 DEF Die, OutboxInv, PostedIsKnown
  <2>2. CASE process[p].step = "accepted"
    <3> DEFINE c == Current(p)
               new == [outbox[c] EXCEPT !.posted = 0]
    <3>1. c \in DOMAIN outbox /\ outbox[c] \in Alert /\ outbox[c].status # "sent" /\ outbox[c].posted = 1
      BY <1>3, <1>4, <2>2 DEF OutboxInv, PostedIsKnown
    <3>2. /\ new \in Alert /\ new.kind = outbox[c].kind /\ new.status = outbox[c].status
          /\ new.posted = 0 /\ new.over = outbox[c].over
      BY <3>1, PostFacts
    <3>3. outbox' = [outbox EXCEPT ![c] = new]
      <4>1. outbox' = [outbox EXCEPT ![c] = [outbox[c] EXCEPT !.posted = outbox[c].posted - 1]]
        BY <2>2 DEF Die
      <4>2. outbox[c].posted - 1 = 0 BY <3>1
      <4> QED BY <4>1, <4>2
    <3>4. \A i \in DOMAIN outbox \ {c} : outbox[i].posted = IF outbox[i].status = "sent" THEN 1 ELSE 0
      BY <1>4 DEF OutboxInv, PostedIsKnown
    <3> HIDE DEF new
    <3> QED BY <1>3, <3>1, <3>2, <3>3, <3>4
  <2> QED BY <2>1, <2>2
<1> QED BY <1>1, <1>2, <1>4, <1>5, DeliveryKeeps

\* Time passes for a row, or a route comes and goes.
LEMMA OthersKeep ==
  ASSUME OutboxInv, \/ \E i \in DOMAIN outbox : WaitEnds(i)
                    \/ \E r \in Route : ConfigureRoute(r)
                    \/ UNCHANGED vars
  PROVE  OutboxInv'
<1>0. /\ TypeOK /\ OneDelivers /\ HeldIsLeased /\ PostedIsKnown /\ OpenErrorIsCurrent
      /\ process' = process /\ inError' = inError /\ losses' = losses
  BY DEF OutboxInv, WaitEnds, ConfigureRoute, vars
<1>1. /\ outbox' \in [DOMAIN outbox -> Alert]
      /\ \A i \in DOMAIN outbox :
           /\ outbox'[i].kind = outbox[i].kind /\ outbox'[i].over = outbox[i].over
           /\ outbox'[i].status = outbox[i].status /\ outbox'[i].posted = outbox[i].posted
  <2>0. outbox \in [DOMAIN outbox -> Alert]
    BY <1>0, RowFacts DEF TypeOK
  <2>1. CASE outbox' = outbox
    BY <2>0, <2>1
  <2>2. CASE \E i \in DOMAIN outbox : WaitEnds(i)
    <3>1. PICK i \in DOMAIN outbox : WaitEnds(i)
      BY <2>2
    <3> DEFINE new == [outbox[i] EXCEPT !.waits = FALSE]
    <3>2. outbox' = [outbox EXCEPT ![i] = new] /\ outbox[i] \in Alert
      BY <2>0, <3>1 DEF WaitEnds
    <3>3. /\ new \in Alert /\ new.kind = outbox[i].kind /\ new.status = outbox[i].status
          /\ new.posted = outbox[i].posted /\ new.over = outbox[i].over
      BY <3>2, ReadyFacts
    <3> HIDE DEF new
    <3> QED BY <2>0, <3>2, <3>3
  <2> QED BY <2>1, <2>2 DEF ConfigureRoute, vars
<1>2. outbox' \in Seq(Alert) /\ Len(outbox') = Len(outbox) /\ DOMAIN outbox' = DOMAIN outbox
  BY <1>0, <1>1, RowsAgain
<1>3. routed' \subseteq Route
  BY <1>0, OutboxAssumption DEF TypeOK, WaitEnds, ConfigureRoute, vars, OutboxAssumption
<1>4. TypeOK'
  BY <1>0, <1>2, <1>3 DEF TypeOK
<1>5. OneDelivers' /\ HeldIsLeased'
  <2>1. \A p \in Processes : process[p].due \subseteq DOMAIN outbox BY <1>0, RowFacts
  <2> QED BY <1>0, <1>1, <2>1 DEF OneDelivers, HeldIsLeased
<1>6. PostedIsKnown' /\ OpenErrorIsCurrent'
  <2>1. \A i : Accepted(i)' <=> Accepted(i)
    BY <1>0 DEF Accepted, Current
  <2> QED BY <1>0, <1>1, <1>2, <2>1 DEF PostedIsKnown, OpenErrorIsCurrent
<1> QED BY <1>4, <1>5, <1>6 DEF OutboxInv

\* The invariant is inductive.
LEMMA OutboxNext == OutboxInv /\ [Next]_vars => OutboxInv'
<1> SUFFICES ASSUME OutboxInv, [Next]_vars PROVE OutboxInv'
  OBVIOUS
<1>1. CASE \E error \in BOOLEAN, kinds \in Raised : Poll(error, kinds)
  BY <1>1, PollKeeps
<1>2. CASE \E p \in Processes : Deliver(p) \/ Die(p)
  BY <1>2, BeginKeeps, ClaimKeeps, PostKeeps, DieKeeps DEF Deliver
<1>3. CASE \/ \E i \in DOMAIN outbox : WaitEnds(i)
           \/ \E r \in Route : ConfigureRoute(r)
           \/ UNCHANGED vars
  BY <1>3, OthersKeep
<1> QED BY <1>1, <1>2, <1>3 DEF Next

-----------------------------------------------------------------------------
(* The theorems.                                                           *)

\* The rows, the processes that deliver them and the campaign fit together,
\* whatever processes die and whatever leases end early.
THEOREM OutboxCorrect == Spec => []OutboxInv
BY OutboxInit, OutboxNext, PTL DEF Spec

\* The outbox is well formed, and a delivery holds only rows that exist.
THEOREM TypeCorrect == Spec => []TypeOK
<1>1. OutboxInv => TypeOK BY DEF OutboxInv
<1> QED BY <1>1, OutboxCorrect, PTL

\* An alert that Slack took is not posted again, however many processes deliver
\* and however short the leases are, unless its answer or its sender was lost.
THEOREM AlertsPostedOnce == Spec => []PostedOnce
<1>1. OutboxInv => PostedOnce
  BY DEF OutboxInv, PostedIsKnown, PostedOnce
<1> QED BY <1>1, OutboxCorrect, PTL

\* An error that a recovery has overtaken is not posted any more.
THEOREM ErrorsPostedInTime == Spec => ErrorIsCurrent
<1>1. ASSUME OutboxInv, NEW p \in Processes, Recheck(p), process'[p].step = "posting",
             outbox[Current(p)].kind = "error"
      PROVE  inError /\ ~outbox[Current(p)].over
  <2>1. TypeOK /\ process[p].step = "claimed" BY <1>1 DEF OutboxInv, Recheck
  <2>2. Current(p) \in DOMAIN outbox BY <1>1, <2>1, DeliveringFacts
  <2>3. outbox[Current(p)].status = "sending"
    <3>1. CASE ~(outbox[Current(p)].status = "sending")
      <4>1. Become(p, "claimed", process[p].due \ {Current(p)}) BY <1>1, <3>1 DEF Recheck
      <4>2. process'[p].step \in {"idle", "claimed"}
        BY <2>1, <4>1 DEF Become, TypeOK, Resting, Delivery
      <4> QED BY <1>1, <4>2
    <3> QED BY <3>1
  <2> QED BY <1>1, <2>2, <2>3 DEF OutboxInv, OpenErrorIsCurrent, Open
<1>2. OutboxInv /\ [Next]_vars =>
        [\A p \in Processes :
           Recheck(p) /\ process'[p].step = "posting" /\ outbox[Current(p)].kind = "error"
           => inError /\ ~outbox[Current(p)].over]_vars
  BY <1>1
<1> QED BY <1>2, OutboxCorrect, PTL DEF Spec, ErrorIsCurrent

=============================================================================
