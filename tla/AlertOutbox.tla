----------------------------- MODULE AlertOutbox -----------------------------
(***************************************************************************)
(* The durable outbox of campaign alerts and its delivery to Slack:        *)
(* deliver_outbox() claims due alerts with a lease, posts them one by one  *)
(* and acknowledges each.                                                  *)
(*                                                                         *)
(* What a campaign's observation writes is left open here - CampaignAlerts *)
(* details it and implements this module.  Each poll and each claim is one *)
(* transaction under the registry lock; posting is not.  Several processes *)
(* (daemon, CLI tick) poll and deliver; a second lock lets one of them     *)
(* deliver at a time.  Leases and backoffs end at any time, which covers a *)
(* lease that runs out under a slow sender.                                *)
(***************************************************************************)
EXTENDS Integers, Sequences, FiniteSets, FiniteSetsExt

CONSTANTS
  Processes,   \* processes that poll campaigns
  Kinds,       \* kinds of alerts the campaign raises
  Batch,       \* alerts one delivery looks at (8)
  Fragile,     \* routes whose configuration comes and goes
  MaxAlerts,   \* alerts queued; bounds the model
  MaxLosses    \* crashes of a sender and lost answers; bounds the model

Kind  == {"started", "recovered", "error", "complete"}
Route == {"started", "error", "complete"}

ASSUME OutboxAssumption ==
  /\ IsFiniteSet(Processes)
  /\ Kinds \subseteq Kind
  /\ Fragile \subseteq Route
  /\ Batch \in Nat \ {0}
  /\ MaxAlerts \in Nat /\ MaxLosses \in Nat

VARIABLES
  inError,    \* BOOLEAN: campaign_runtime.state is error
  outbox,     \* Seq(Alert): notification_outbox in order of creation
  process,    \* [Processes -> Delivery]: what each process delivers
  routed,     \* SUBSET Route: routes with a valid webhook
  losses      \* Nat: crashes and lost answers so far

vars == <<inError, outbox, process, routed, losses>>

-----------------------------------------------------------------------------
(* Values.                                                                 *)
Status == {"pending", "sending", "sent", "superseded"}
Open   == {"pending", "sending"}
Step   == {"idle", "resolved", "claimed", "posting", "accepted", "refused"}

\* For the properties only, "posted" counts what Slack accepted, less what could
\* not be acknowledged, and "over" says that the error was observed to end.
Alert == [kind : Kind, status : Status, waits : BOOLEAN, posted : Int, over : BOOLEAN]
NewAlert(kind) ==
  [kind |-> kind, status |-> "pending", waits |-> FALSE, posted |-> 0, over |-> FALSE]

\* "due" is what is left to post, the oldest first; "urls" the routes resolved for it.
Delivery == [step : Step, urls : SUBSET Route, due : SUBSET Nat]
Resting  == [step |-> "idle", urls |-> {}, due |-> {}]

\* Recoveries are sent where errors are.
RouteOf(kind) == IF kind = "recovered" THEN "error" ELSE kind

Init ==
  /\ inError = FALSE
  /\ outbox = <<>>
  /\ process = [p \in Processes |-> Resting]
  /\ routed = Route
  /\ losses = 0

-----------------------------------------------------------------------------
(* The campaign.                                                           *)

\* next_attempt means nothing to an alert that is done with.
Close(row, status) == [row EXCEPT !.status = status, !.waits = FALSE]

Supersede_MutantDelete(rows) == SelectSeq(rows, LAMBDA row : row.kind # "error")
Supersede_MutantPending(rows) ==
  [i \in DOMAIN rows |-> IF rows[i].kind = "error" /\ rows[i].status = "pending"
                         THEN Close(rows[i], "superseded") ELSE rows[i]]
Supersede(rows) ==
  [i \in DOMAIN rows |-> IF rows[i].kind = "error" /\ rows[i].status \in Open
                         THEN Close(rows[i], "superseded") ELSE rows[i]]

ErrorsEnd(rows) == [i \in DOMAIN rows |-> [rows[i] EXCEPT !.over = @ \/ rows[i].kind = "error"]]

\* One observation: the campaign is in error or not, and some alerts are queued:
\* errors only while it is, and one when it becomes so.  Its errors are
\* superseded when it is not.
Poll(error, kinds) ==
  /\ \E p \in Processes : process[p].step = "idle"
  /\ Len(outbox) + Len(kinds) <= MaxAlerts
  /\ "error" \in {kinds[k] : k \in DOMAIN kinds} => error
  /\ error /\ ~inError => "error" \in {kinds[k] : k \in DOMAIN kinds}
  /\ inError' = error
  /\ outbox'  = (IF error THEN outbox ELSE ErrorsEnd(Supersede(outbox)))
                \o [k \in DOMAIN kinds |-> NewAlert(kinds[k])]
  /\ UNCHANGED <<process, routed, losses>>

-----------------------------------------------------------------------------
(* Delivery.                                                               *)
IsDue(row) == row.status \in Open /\ ~row.waits

\* SELECT ... ORDER BY created LIMIT 8
FirstDue(rows) ==
  {i \in DOMAIN rows : IsDue(rows[i]) /\ Cardinality({k \in 1 .. i : IsDue(rows[k])}) <= Batch}

Become(p, step, due) ==
  process' = [process EXCEPT ![p] = IF due = {} THEN Resting ELSE [@ EXCEPT !.step = step, !.due = due]]

\* The non-blocking flock on .notifications.lock.
DeliveryLockFree_Mutant == TRUE
DeliveryLockFree        == \A p \in Processes : process[p].step = "idle"

\* Retire stale errors, read what is due and resolve the route of each kind.
BeginDelivery(p) ==
  /\ process[p].step = "idle" /\ DeliveryLockFree
  /\ outbox' = IF inError THEN outbox ELSE Supersede(outbox)
  /\ process' = [process EXCEPT ![p] =
       [step |-> "resolved", due |-> {},
        urls |-> routed \cap {RouteOf(outbox'[i].kind) : i \in FirstDue(outbox')}]]
  /\ UNCHANGED <<inError, routed, losses>>

\* Lease what is due and has a route, whether it waits for its first attempt
\* or was claimed by a process that died.
Claimable_Mutant(p) ==
  {i \in FirstDue(outbox) : outbox[i].status = "pending" /\ RouteOf(outbox[i].kind) \in process[p].urls}
Claimable(p) == {i \in FirstDue(outbox) : RouteOf(outbox[i].kind) \in process[p].urls}

Claim(p) ==
  /\ process[p].step = "resolved"
  /\ outbox' = [i \in DOMAIN outbox |->
                  IF i \in Claimable(p) THEN [outbox[i] EXCEPT !.status = "sending", !.waits = TRUE]
                  ELSE outbox[i]]
  /\ Become(p, "claimed", Claimable(p))
  /\ UNCHANGED <<inError, routed, losses>>

Current(p) == Min(process[p].due)

\* Skip an alert that was superseded since it was claimed.
Recheck(p) ==
  /\ process[p].step = "claimed"
  /\ IF outbox[Current(p)].status = "sending"
     THEN Become(p, "posting", process[p].due)
     ELSE Become(p, "claimed", process[p].due \ {Current(p)})
  /\ UNCHANGED <<inError, outbox, routed, losses>>

Accept(p) ==
  /\ process[p].step = "posting"
  /\ outbox' = [outbox EXCEPT ![Current(p)].posted = @ + 1]
  /\ Become(p, "accepted", process[p].due)
  /\ UNCHANGED <<inError, routed, losses>>

\* The route refuses the message, or takes it and its answer is lost.
Refuse(p) ==
  /\ process[p].step = "posting"
  /\ Become(p, "refused", process[p].due)
  /\ UNCHANGED <<inError, outbox, routed, losses>>

Acknowledge(p) ==
  /\ process[p].step = "accepted"
  /\ outbox' = [outbox EXCEPT ![Current(p)] = Close(@, "sent")]
  /\ Become(p, "claimed", process[p].due \ {Current(p)})
  /\ UNCHANGED <<inError, routed, losses>>

\* Back off; an alert that is no longer "sending" is left alone.
BackOff_Mutant(row) == [row EXCEPT !.status = "pending", !.waits = TRUE]
BackOff(row) == IF row.status = "sending" THEN [row EXCEPT !.status = "pending", !.waits = TRUE] ELSE row

Fail(p) ==
  /\ process[p].step = "refused"
  /\ outbox' = [outbox EXCEPT ![Current(p)] = BackOff(@)]
  /\ Become(p, "claimed", process[p].due \ {Current(p)})
  /\ UNCHANGED <<inError, routed, losses>>

\* A delivering process dies: its claims stay until their leases end.
Die(p) ==
  /\ process[p].step # "idle" /\ losses < MaxLosses
  /\ losses'  = losses + 1
  /\ outbox'  = IF process[p].step = "accepted" THEN [outbox EXCEPT ![Current(p)].posted = @ - 1] ELSE outbox
  /\ process' = [process EXCEPT ![p] = Resting]
  /\ UNCHANGED <<inError, routed>>

\* next_attempt of a lease or a backoff is reached.
WaitEnds(i) ==
  /\ i \in DOMAIN outbox /\ outbox[i].waits
  /\ outbox' = [outbox EXCEPT ![i].waits = FALSE]
  /\ UNCHANGED <<inError, process, routed, losses>>

ConfigureRoute(r) ==
  /\ r \in Fragile
  /\ routed' = IF r \in routed THEN routed \ {r} ELSE routed \cup {r}
  /\ UNCHANGED <<inError, outbox, process, losses>>

-----------------------------------------------------------------------------
Deliver(p) ==
  \/ BeginDelivery(p) \/ Claim(p) \/ Recheck(p)
  \/ Accept(p) \/ Refuse(p) \/ Acknowledge(p) \/ Fail(p)

\* One observation queues at most two alerts of different kinds, or two
\* recoveries of different scope.
Raised == UNION {[1 .. n -> Kinds] : n \in 0 .. 2}

Next ==
  \/ \E error \in BOOLEAN, kinds \in Raised : Poll(error, kinds)
  \/ \E p \in Processes : Deliver(p) \/ Die(p)
  \/ \E i \in DOMAIN outbox : WaitEnds(i)
  \/ \E r \in Route : ConfigureRoute(r)

Spec == Init /\ [][Next]_vars

\* Every process polls on, so every delivery that is not cut off goes on and
\* new ones begin; leases and backoffs end; and Slack does not refuse one
\* alert for ever.
Posts(i) == \E p \in Processes : process[p].due # {} /\ Current(p) = i /\ Accept(p)

Fairness ==
  /\ \A p \in Processes : WF_vars(Deliver(p))
  /\ \A i \in 1 .. MaxAlerts : WF_vars(WaitEnds(i)) /\ SF_vars(Posts(i))

FairSpec == Spec /\ Fairness

-----------------------------------------------------------------------------
(* Properties.                                                             *)

TypeOK ==
  /\ inError \in BOOLEAN
  /\ outbox  \in Seq(Alert) /\ Len(outbox) <= MaxAlerts
  /\ process \in [Processes -> Delivery]
  /\ \A p \in Processes : process[p].due \subseteq DOMAIN outbox
  /\ routed  \subseteq Route
  /\ losses  \in 0 .. MaxLosses

\* Slack takes an alert twice only if the first answer, or the process that
\* waited for it, was lost: not because the other process delivers at the same
\* time, nor because the lease ran out under a slow sender.
PostedOnce == \A i \in DOMAIN outbox : outbox[i].posted <= 1

\* An error is posted only while the campaign is in the very episode it was
\* raised in, up to the time a request takes: an error that was claimed, failed
\* or abandoned before a recovery does not come back, not even in the next
\* episode.
ErrorIsCurrent ==
  [][\A p \in Processes :
       Recheck(p) /\ process'[p].step = "posting" /\ outbox[Current(p)].kind = "error"
       => inError /\ ~outbox[Current(p)].over]_vars

\* An alert stays in the outbox for ever only if its route is unusable time and
\* again, or Batch older alerts without a route fill every delivery.
IsOpen(i)     == i \in DOMAIN outbox /\ outbox[i].status \in Open
Unroutable(i) == RouteOf(outbox[i].kind) \notin routed
Crowded(i) ==
  Cardinality({k \in 1 .. i - 1 : IsOpen(k) /\ Unroutable(k)}) >= Batch

OpenAlertHasCause ==
  \A i \in 1 .. MaxAlerts :
    <>[]IsOpen(i) => []<>(IsOpen(i) /\ (Unroutable(i) \/ Crowded(i)))
=============================================================================
