---------------------------- MODULE RelayStaging ----------------------------
(***************************************************************************)
(* How the inputs of queued consumers are brought to the node they will    *)
(* run on.  The transfer lane picks relays from what it read at the start  *)
(* of its tick, and pins each consumer to the destination of its relays by *)
(* a durable intent; the planner honours the intent when it starts the     *)
(* consumer.  The consumers are GPU jobs, no two nodes share a storage     *)
(* domain, and every host passes every other gate of the planner.          *)
(***************************************************************************)
EXTENDS Naturals, Sequences, FiniteSets

CONSTANTS
  Consumers, Deps, Nodes,
  Hosts,      \* nodes that may run the consumers
  None,       \* no node
  Inputs,     \* dependencies each consumer reads
  Home,       \* node that ran each dependency and holds its directory
  Retirable,  \* dependencies whose directory may be archived and deleted
  HfEnabled,  \* publication enabled: retry history is read once per tick
  MaxLive,    \* relays active at once, over all nodes and per node (24)
  MaxFails,   \* failures after which a relay is not tried again (3)
  MaxFaults,  \* bound of the failing workers
  Lossy       \* launch calls may be lost

ASSUME StagingAssumption ==
  /\ Inputs \in [Consumers -> SUBSET Deps] /\ Home \in [Deps -> Nodes]
  /\ Retirable \subseteq Deps /\ None \notin Nodes /\ Hosts \subseteq Nodes
  /\ HfEnabled \in BOOLEAN /\ Lossy \in BOOLEAN
  /\ MaxLive \in Nat \ {0} /\ MaxFails \in Nat \ {0} /\ MaxFaults \in Nat

VARIABLES
  rows,    \* artifact_transfers, downloads only, in order of creation
  intents, \* relay_intents: one row per consumer
  retired, \* dependencies whose origin is retired
  placed,  \* node each consumer was started on
  view,    \* what the tick of the transfer lane works from
  faults   \* workers that failed so far

registry == <<rows, intents, retired, placed>>
vars     == <<registry, view, faults>>

\* A worker is lost when its launch never arrived: its status stays unknown.
Relay  == [dep: Deps, node: Nodes, for: Consumers, status: {"active", "succeeded", "failed"},
           worker: {"running", "lost", "succeeded", "failed"}]
Intent == [state: {"none", "pending", "failed"}, node: Nodes \cup {None}, last: Nat]
NoView == [loaded |-> FALSE]

Init ==
  /\ rows = <<>> /\ retired = {}
  /\ intents = [c \in Consumers |-> [state |-> "none", node |-> None, last |-> 0]]
  /\ placed = [c \in Consumers |-> None]
  /\ view = NoView /\ faults = 0

Queued     == {c \in Consumers : placed[c] = None}
Live       == {i \in DOMAIN rows : rows[i].status = "active"}
Located(d) == {rows[i].node : i \in {k \in DOMAIN rows : rows[k].dep = d /\ rows[k].status = "succeeded"}}

\* Inputs that keep c from running on n: the planner's admission test.
Lacking(c, n) == {d \in Inputs[c] : n \notin Located(d) /\ (n # Home[d] \/ d \in retired)}

\* Inputs still to be relayed to the pinned node, as planner and lane see it:
\* the directory's own node counts as present whether it is retired or not.
Missing(c, n) == {d \in Inputs[c] : n \notin Located(d) /\ n # Home[d]}

-----------------------------------------------------------------------------
(* The transfer lane.                                                      *)

\* Mutant: a failed relay keeps its consumer reserved.
Reconcile_Mutant(i) ==
  /\ ~view.loaded /\ rows[i].status = "active" /\ rows[i].worker \in {"succeeded", "failed"}
  /\ rows' = [rows EXCEPT ![i].status = rows[i].worker]
  /\ UNCHANGED <<intents, retired, placed, view, faults>>

\* Status call of one active relay, before the tick reads the registry.  A
\* failure frees the consumer only if the relay is the last one made for it.
Reconcile(i) ==
  /\ ~view.loaded /\ rows[i].status = "active" /\ rows[i].worker \in {"succeeded", "failed"}
  /\ rows' = [rows EXCEPT ![i].status = rows[i].worker]
  /\ intents' = IF rows[i].worker = "failed" /\ intents[rows[i].for].last = i
                THEN [intents EXCEPT ![rows[i].for].state = "failed"] ELSE intents
  /\ UNCHANGED <<retired, placed, view, faults>>

\* Dependencies worth relaying, given the pool P of each consumer: none for a
\* consumer that some node of its pool could run at once.
Demand(P) == UNION {UNION {Lacking(c, n) : n \in P[c]} :
                      c \in {q \in Queued : \A n \in P[q] : Lacking(q, n) # {}}}

\* The pool depends on the load of the nodes, and is not the same in every tick.
LoadView ==
  /\ ~view.loaded
  /\ \E P \in [Consumers -> SUBSET Hosts \ {{}}] :
       view' = [loaded |-> TRUE, queued |-> Queued, pool |-> P, demand |-> Demand(P),
                intents |-> intents, retired |-> retired,
                located |-> [d \in Deps |-> Located(d)],
                lacking |-> [c \in Consumers |-> {n \in Hosts : Lacking(c, n) # {}}],
                missing |-> [c \in Consumers |-> {n \in Nodes : Missing(c, n) # {}}],
                live |-> Live, history |-> Len(rows)]
  /\ UNCHANGED <<registry, faults>>

Pinned(c) == view.intents[c].state = "pending"

\* Nodes an input of c may be staged to: the reserved one, or else those of some
\* pool in which no node has all inputs yet.  The pool is computed afresh for
\* every relay and need not be the one the demand was computed for.
StagingNodes(c) ==
  IF Pinned(c) THEN {view.intents[c].node} \cap view.missing[c]
  ELSE view.lacking[c]

\* Distinct artifacts may share a destination, one is never copied twice to it.
RelayAvailable(d, n) ==
  LET there == {i \in view.live : rows[i].node = n}
  IN Cardinality(there) < MaxLive /\ ~\E i \in there : rows[i].dep = d

\* Mutant: the last permitted retry is refused.
RetryPossible_Mutant(d, n) ==
  LET upTo == IF HfEnabled THEN view.history ELSE Len(rows)
      past == {i \in 1 .. upTo : rows[i].dep = d /\ rows[i].node = n}
  IN (\A i \in past : rows[i].status = "failed") /\ Cardinality(past) < MaxFails - 1

RetryPossible(d, n) ==
  LET upTo == IF HfEnabled THEN view.history ELSE Len(rows)
      past == {i \in 1 .. upTo : rows[i].dep = d /\ rows[i].node = n}
  IN (\A i \in past : rows[i].status = "failed") /\ Cardinality(past) < MaxFails

Candidate(c, d, n) ==
  /\ c \in view.queued /\ n \in StagingNodes(c)
  /\ d \in Inputs[c] \cap view.demand
  /\ RelayAvailable(d, n) /\ RetryPossible(d, n)
  /\ n \notin view.located[d] /\ (n = Home[d] => d \in view.retired)

\* Mutant: the list of active transfers is not refreshed within a tick.
StartRelay_Mutant(c, d, n) ==
  /\ view.loaded /\ Cardinality(view.live) < MaxLive /\ Candidate(c, d, n)
  /\ IF intents[c].state = "pending" /\ intents[c].node # n
     THEN view' = NoView /\ UNCHANGED <<rows, intents>>
     ELSE /\ rows' = Append(rows, [dep |-> d, node |-> n, for |-> c, status |-> "active", worker |-> "running"])
          /\ intents' = [intents EXCEPT ![c] = [state |-> "pending", node |-> n, last |-> Len(rows')]]
          /\ UNCHANGED view
  /\ UNCHANGED <<retired, placed, faults>>

\* One start_dependency call: the intent is checked and written with the row,
\* in one transaction, and the launch call made after it; a consumer reserved
\* elsewhere in the meantime ends the round.
StartRelay(c, d, n) ==
  /\ view.loaded /\ Cardinality(view.live) < MaxLive /\ Candidate(c, d, n)
  /\ IF intents[c].state = "pending" /\ intents[c].node # n
     THEN view' = NoView /\ UNCHANGED <<rows, intents>>
     ELSE /\ \E w \in {"running"} \cup (IF Lossy THEN {"lost"} ELSE {}) :
               rows' = Append(rows, [dep |-> d, node |-> n, for |-> c, status |-> "active", worker |-> w])
          /\ intents' = [intents EXCEPT ![c] = [state |-> "pending", node |-> n, last |-> Len(rows')]]
          /\ view' = [view EXCEPT !.live = Live \cup {Len(rows')}]
  /\ UNCHANGED <<retired, placed, faults>>

EndTick ==
  /\ view.loaded /\ view' = NoView
  /\ UNCHANGED <<registry, faults>>

-----------------------------------------------------------------------------
(* The relay worker, the planner and the cleanup of archived directories.  *)

Work(i) ==
  /\ rows[i].worker = "running"
  /\ \/ rows' = [rows EXCEPT ![i].worker = "succeeded"] /\ UNCHANGED faults
     \/ faults < MaxFaults /\ faults' = faults + 1 /\ rows' = [rows EXCEPT ![i].worker = "failed"]
  /\ UNCHANGED <<intents, retired, placed, view>>

\* The planner starts a consumer whose inputs are on n, if the pool P it finds
\* has a node that needs no relay.  While the intent of the consumer is pending,
\* only on the reserved node, when nothing is missing there.
Place(c, n, P) ==
  /\ c \in Queued /\ n \in Hosts /\ Lacking(c, n) = {}
  /\ intents[c].state = "pending" => n = intents[c].node /\ Missing(c, n) = {}
  /\ \E m \in P : Lacking(c, m) = {}
  /\ placed' = [placed EXCEPT ![c] = n]
  /\ UNCHANGED <<rows, intents, retired, view, faults>>

\* Mutant: a directory that was never archived is retired too.
RetireOrigin_Mutant(d) ==
  /\ d \notin retired
  /\ ~\E i \in Live : rows[i].dep = d
  /\ ~\E c \in Consumers : d \in Inputs[c] /\ placed[c] = Home[d]
  /\ retired' = retired \cup {d}
  /\ UNCHANGED <<rows, intents, placed, view, faults>>

\* The archived directory of d is retired when no active request is bound to it.
RetireOrigin(d) ==
  /\ d \in Retirable \ retired
  /\ ~\E i \in Live : rows[i].dep = d
  /\ ~\E c \in Consumers : d \in Inputs[c] /\ placed[c] = Home[d]
  /\ retired' = retired \cup {d}
  /\ UNCHANGED <<rows, intents, placed, view, faults>>

Restart ==
  /\ view.loaded /\ view' = NoView
  /\ UNCHANGED <<registry, faults>>

StartFor(c) == \E d \in Deps, n \in Nodes : StartRelay(c, d, n)
PlaceFor(c) == \E n \in Nodes, P \in SUBSET Hosts : Place(c, n, P)

Next ==
  \/ \E i \in DOMAIN rows : Reconcile(i) \/ Work(i)
  \/ LoadView \/ EndTick \/ Restart
  \/ \E c \in Consumers : StartFor(c) \/ PlaceFor(c)
  \/ \E d \in Deps : RetireOrigin(d)

Spec == Init /\ [][Next]_vars

\* Workers end, status answers get through now and then, every tick ends, and
\* what is possible again and again in spite of restarts is done: in particular
\* the planner's pool, which follows the load, holds a ready node now and then.
Fairness ==
  /\ WF_vars(\E i \in DOMAIN rows : Work(i)) /\ SF_vars(\E i \in DOMAIN rows : Reconcile(i))
  /\ WF_vars(LoadView) /\ WF_vars(EndTick)
  /\ \A c \in Consumers : SF_vars(StartFor(c)) /\ SF_vars(PlaceFor(c))
FairSpec == Spec /\ Fairness

-----------------------------------------------------------------------------
(* Properties.                                                             *)

TypeOK ==
  /\ rows \in Seq(Relay)
  /\ intents \in [Consumers -> Intent]
  /\ retired \subseteq Retirable
  /\ placed \in [Consumers -> Nodes \cup {None}]
  /\ faults \in 0 .. MaxFaults

\* An artifact is never under way twice to the same node, and the transfers
\* under way never exceed their number of slots, though one tick reserves
\* many relays between unlocked launches (artifacts.py, reserve_transfer_slots).
OneCopyUnderWay ==
  /\ Cardinality(Live) <= MaxLive
  /\ \A i, k \in Live : i # k => rows[i].dep # rows[k].dep \/ rows[i].node # rows[k].node

\* A consumer is held to a node only while the last relay made for it is under
\* way or done there (artifacts.py, _reserve_relay_intent, reconcile_transfers).
PendingIsBacked ==
  \A c \in Consumers : intents[c].state = "pending" =>
    LET r == rows[intents[c].last]
    IN r.for = c /\ r.node = intents[c].node /\ r.status # "failed"

Reserved(c) == intents[c].state = "pending"
Failed(d, n) == {i \in DOMAIN rows : rows[i].dep = d /\ rows[i].node = n /\ rows[i].status = "failed"}
Exhausted(c, n) == \E d \in Inputs[c] : n \notin Located(d) /\ Cardinality(Failed(d, n)) = MaxFails

\* What may keep a consumer waiting for ever: the launch of a relay was lost,
\* its node has no retry left (a pool may keep choosing such a node), another
\* node has all its inputs, or the node it is held to is the retired origin.
LaunchLost(c) == \E i \in Live : rows[i].dep \in Inputs[c] /\ rows[i].worker = "lost"
NoRetryLeft(c) == \E n \in IF Reserved(c) THEN {intents[c].node} ELSE Hosts : Exhausted(c, n)
OtherNodeReady(c) == Reserved(c) /\ \E n \in Hosts \ {intents[c].node} : Lacking(c, n) = {}
HeldAtRetiredOrigin(c) == Reserved(c) /\ Lacking(c, intents[c].node) # Missing(c, intents[c].node)

\* The lane's demand scan ignores intents: it asks for what the nodes of the
\* consumer's current pool lack, which need not include the reserved node.
PoolHasReserved(c) == view.loaded /\ (Pinned(c) => view.intents[c].node \in view.pool[c])

\* Staging starves a consumer for no other reason, as long as its pool contains
\* the reserved node now and then: restarts, failed workers within the retry
\* budget, stale views and changing pools only delay it (artifacts.py, tick).
StarvationHasCause ==
  \A c \in Consumers :
    []<>PoolHasReserved(c) =>
      []<>(\/ placed[c] # None
           \/ LaunchLost(c) \/ NoRetryLeft(c) \/ OtherNodeReady(c) \/ HeldAtRetiredOrigin(c))

\* "When the dependency is needed again after its origin was deleted, the
\* scheduler relays the archived copy to the server that needs it and starts
\* the job" (docs/ATTEMPT_ARCHIVE.md), here where no relay fails or is lost.
RetiredInputComesBack ==
  \A c \in Consumers : []<>PoolHasReserved(c) => <>(placed[c] # None)

=============================================================================
