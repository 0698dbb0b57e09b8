--------------------------- MODULE AttemptArchive ---------------------------
(***************************************************************************)
(* The life of the directory of one finished attempt: it is archived       *)
(* whole, its node's copy is retired and deleted by the cleanup lane, and  *)
(* meanwhile the dispatcher and the transfer lane keep binding requests to *)
(* it.  The registry lock is released during every remote call of the two  *)
(* lanes, so each step below is one locked section or one remote handler.  *)
(***************************************************************************)
EXTENDS Naturals, FiniteSets

CONSTANTS
  Consumers,  \* queued jobs that read the outputs of the attempt
  Relays,     \* nodes other than the archive node that outputs are relayed to
  MaxFails,   \* failures after which a transfer is not tried again (3)
  MaxRev      \* bound of the revisions outside writers give the directory

\* The attempt's own node, the archive node, and a node with neither copy.
Nodes == {"origin", "archive", "other"}

ASSUME ArchiveAssumption ==
  Relays \subseteq Nodes \ {"archive"} /\ MaxFails \in Nat \ {0} /\ MaxRev \in Nat

\* Transfers of the attempt, by what they deliver: the whole attempt to the
\* archive node, its outputs to a consumer's node, its outputs to the hub.
Transfers == {"archive", "upload"} \cup Relays

VARIABLES
  tree,      \* the attempt directory on its node
  archived,  \* revision the archive node holds, MaxRev + 1 when it has none
  transfers, \* rows of artifact_transfers with the state of their workers
  retired,   \* origin_retired in the report of the archive transfer
  recorded,  \* source_cleanup.deleted in the same report
  touched,   \* some binding was made or ended within delete_after_idle_s
  consumers, \* attempts of the consumers: status, and the copy each is bound to
  view,      \* what the transfer lane read at the start of its tick
  cleaner,   \* step of the cleanup lane
  rpc        \* the deletion: not called or refused, under way, or answered

disk     == <<tree, archived>>
registry == <<transfers, retired, recorded, touched, consumers>>
vars     == <<disk, registry, view, cleaner, rpc>>

NoCopy == MaxRev + 1
NoView == [at |-> {}, retired |-> FALSE, loaded |-> FALSE]

\* "active" stands for starting, running and unknown, which every query here
\* takes together; a worker is lost when its launch never arrived.
Row == [status: {"none", "active", "succeeded", "failed"}, from: {"none", "origin", "archive"},
        worker: {"none", "running", "lost", "succeeded", "failed"}, fails: 0 .. MaxFails]

Init ==
  /\ tree = [rev |-> 0, present |-> TRUE, open |-> FALSE] /\ archived = NoCopy
  /\ transfers = [t \in Transfers |-> [status |-> "none", from |-> "none",
                                       worker |-> "none", fails |-> 0]]
  /\ retired = FALSE /\ recorded = FALSE /\ touched = TRUE
  /\ consumers = [c \in Consumers |-> [status |-> "queued", from |-> "none"]]
  /\ view = NoView /\ cleaner = "idle" /\ rpc = "none"

\* Nodes with a verified copy besides the attempt directory (artifact_locations).
Located == {n \in Nodes : n \in Transfers /\ transfers[n].status = "succeeded"}

\* An active request holds the path of the attempt directory.
Bound ==
  \/ \E t \in Transfers : transfers[t].status = "active" /\ transfers[t].from = "origin"
  \/ \E c \in Consumers : consumers[c].status = "active" /\ consumers[c].from = "origin"
InUse == Bound \/ touched

\* A definition whose name ends in _Mutant (or _Mutant and a word) breaks the
\* one after it the way a bug would; the runs show that a property notices.
RetryPossible_Mutant(t) == transfers[t].status \in {"none", "failed"}
RetryPossible(t) == transfers[t].status \in {"none", "failed"} /\ transfers[t].fails < MaxFails

\* The row is committed first; the launch call then arrives or is lost, and is
\* never repeated.
Reserve(t, from) ==
  /\ \E w \in {"running", "lost"} :
       transfers' = [transfers EXCEPT ![t].status = "active", ![t].from = from, ![t].worker = w]
  /\ touched' = (touched \/ from = "origin")

-----------------------------------------------------------------------------
(* The transfer lane.                                                      *)

\* Status call of one active transfer; before the tick reads the registry.
Reconcile(t) ==
  /\ ~view.loaded /\ transfers[t].status = "active"
  /\ LET answer == transfers[t].worker
     IN /\ answer \in {"succeeded", "failed"}
        /\ transfers' = [transfers EXCEPT ![t].status = answer,
                           ![t].fails = @ + (IF answer = "failed" THEN 1 ELSE 0)]
        /\ touched' = (touched \/ transfers[t].from = "origin")
  /\ UNCHANGED <<disk, retired, recorded, consumers, view, cleaner, rpc>>

LoadView ==
  /\ ~view.loaded
  /\ view' = [at |-> Located, retired |-> retired /\ transfers["archive"].status = "succeeded",
              loaded |-> TRUE]
  /\ UNCHANGED <<disk, registry, cleaner, rpc>>

RelaySource_Mutant == IF view.retired THEN "archive" ELSE "origin"
\* Source of a relay: the complete archive when the view has one.
RelaySource == IF "archive" \in view.at THEN "archive" ELSE "origin"

StartRelay(n) ==
  /\ view.loaded /\ n \notin view.at /\ (n = "origin" => view.retired)
  /\ \E c \in Consumers : consumers[c].status = "queued"
  /\ RetryPossible(n)
  /\ Reserve(n, RelaySource)
  /\ UNCHANGED <<disk, retired, recorded, consumers, view, cleaner, rpc>>

StartArchive ==
  /\ view.loaded /\ ~InUse /\ RetryPossible("archive")
  /\ Reserve("archive", "origin")
  /\ UNCHANGED <<disk, retired, recorded, consumers, view, cleaner, rpc>>

\* Optional publication of the outputs, always from the attempt directory.
StartUpload ==
  /\ view.loaded /\ RetryPossible("upload")
  /\ Reserve("upload", "origin")
  /\ UNCHANGED <<disk, retired, recorded, consumers, view, cleaner, rpc>>

EndTick ==
  /\ view.loaded /\ view' = NoView
  /\ UNCHANGED <<disk, registry, cleaner, rpc>>

\* The worker copies and verifies, or fails; without the directory it fails.
Work(t) ==
  /\ transfers[t].worker = "running"
  /\ \/ /\ transfers[t].from = "origin" => tree.present
        /\ transfers' = [transfers EXCEPT ![t].worker = "succeeded"]
        /\ archived' = IF t = "archive" THEN tree.rev ELSE archived
     \/ /\ transfers' = [transfers EXCEPT ![t].worker = "failed"]
        /\ UNCHANGED archived
  /\ UNCHANGED <<tree, retired, recorded, touched, consumers, view, cleaner, rpc>>

-----------------------------------------------------------------------------
(* The dispatcher, which holds the registry lock for its whole cycle.      *)

\* A consumer starts on node n, bound to the copy there or to the directory.
Dispatch(c, n) ==
  /\ consumers[c].status = "queued"
  /\ LET local == ~retired /\ n = "origin"
         copy  == n \in Located /\ (~local \/ n = "archive")
     IN /\ copy \/ local
        /\ consumers' = [consumers EXCEPT ![c] = [status |-> "active",
                           from |-> IF copy THEN "copy" ELSE "origin"]]
        /\ touched' = (touched \/ ~copy)
  /\ UNCHANGED <<disk, transfers, retired, recorded, view, cleaner, rpc>>

\* The consumer's attempt ends; a failed one is queued again.
Finish(c) ==
  /\ consumers[c].status = "active"
  /\ \E s \in {"queued", "ended"} : consumers' = [consumers EXCEPT ![c].status = s]
  /\ touched' = (touched \/ consumers[c].from = "origin")
  /\ UNCHANGED <<disk, transfers, retired, recorded, view, cleaner, rpc>>

-----------------------------------------------------------------------------
(* The cleanup lane.                                                       *)

PickArchive_Mutant ==
  /\ cleaner = "idle" /\ transfers["archive"].status = "succeeded" /\ ~retired /\ ~InUse
  /\ cleaner' = "verifying"
  /\ UNCHANGED <<disk, registry, view, rpc>>

\* Locked: choose the archive, then ask the archive node to verify it.
PickArchive ==
  /\ cleaner = "idle" /\ transfers["archive"].status = "succeeded" /\ ~recorded /\ ~InUse
  /\ cleaner' = "verifying"
  /\ UNCHANGED <<disk, registry, view, rpc>>

Retire_Mutant ==
  /\ cleaner = "verifying" /\ cleaner' = "deleting" /\ retired' = TRUE /\ rpc' = "sent"
  /\ UNCHANGED <<disk, transfers, recorded, touched, consumers, view>>

\* Locked again after the verification: recheck, retire, ask for the deletion.
Retire ==
  /\ cleaner = "verifying"
  /\ IF InUse THEN cleaner' = "idle" /\ UNCHANGED <<retired, rpc>>
     ELSE cleaner' = "deleting" /\ retired' = TRUE /\ rpc' = "sent"
  /\ UNCHANGED <<disk, transfers, recorded, touched, consumers, view>>

\* The archive does not verify, or the call fails.
VerifyFails ==
  /\ cleaner = "verifying" /\ cleaner' = "idle"
  /\ UNCHANGED <<disk, registry, view, rpc>>

DeleteSource_MutantNoManifest ==
  /\ rpc = "sent" /\ rpc' = IF tree.open THEN "none" ELSE "deleted"
  /\ tree' = [tree EXCEPT !.present = @ /\ tree.open]
  /\ UNCHANGED <<archived, registry, view, cleaner>>

\* The source node deletes the directory, or refuses.
DeleteSource ==
  /\ rpc = "sent"
  /\ IF ~tree.present \/ (~tree.open /\ tree.rev = archived)
     THEN rpc' = "deleted" /\ tree' = [tree EXCEPT !.present = FALSE]
     ELSE rpc' = "none" /\ UNCHANGED tree
  /\ UNCHANGED <<archived, registry, view, cleaner>>

RecordDeletion ==
  /\ cleaner = "deleting" /\ rpc = "deleted"
  /\ recorded' = TRUE /\ cleaner' = "idle" /\ rpc' = "none"
  /\ UNCHANGED <<disk, transfers, retired, touched, consumers, view>>

\* Refused, timed out or not delivered; a call that timed out may still run.
DeletionFails ==
  /\ cleaner = "deleting" /\ cleaner' = "idle"
  /\ rpc' \in {"none"} \cup ({rpc} \cap {"sent"})
  /\ UNCHANGED <<disk, registry, view>>

\* The service dies and starts again; calls on their way are not recalled.
Restart ==
  /\ view' = NoView /\ cleaner' = "idle"
  /\ rpc' = IF rpc = "sent" THEN "sent" ELSE "none"
  /\ UNCHANGED <<disk, registry>>

-----------------------------------------------------------------------------
(* Outside the scheduler: time, and processes nobody registered.           *)

GracePasses ==
  /\ touched /\ touched' = FALSE
  /\ UNCHANGED <<disk, transfers, retired, recorded, consumers, view, cleaner, rpc>>

OpenTree ==
  /\ tree.present /\ tree' = [tree EXCEPT !.open = ~@]
  /\ UNCHANGED <<archived, registry, view, cleaner, rpc>>

WriteTree ==
  /\ tree.present /\ tree.open /\ tree.rev < MaxRev
  /\ tree' = [tree EXCEPT !.rev = @ + 1]
  /\ UNCHANGED <<archived, registry, view, cleaner, rpc>>

TransferLane == \/ \E t \in Transfers : Reconcile(t)
                \/ LoadView \/ StartArchive \/ StartUpload \/ EndTick
                \/ \E n \in Relays : StartRelay(n)
Workers      == \E t \in Transfers : Work(t)
Dispatcher   == \E c \in Consumers : Finish(c) \/ \E n \in Nodes : Dispatch(c, n)
CleanupLane  == PickArchive \/ Retire \/ VerifyFails \/ RecordDeletion \/ DeletionFails
Outside      == GracePasses \/ OpenTree \/ WriteTree
Next         == TransferLane \/ Workers \/ Dispatcher \/ CleanupLane \/ DeleteSource \/ Restart \/ Outside

Spec == Init /\ [][Next]_vars

\* The cleanup lane runs again and again, and its calls get through and are
\* answered now and then, whatever restarts come in between; every call has a
\* timeout.
Fairness == SF_vars(PickArchive) /\ SF_vars(Retire) /\ SF_vars(RecordDeletion)
            /\ SF_vars(cleaner = "deleting" /\ DeleteSource) /\ WF_vars(DeletionFails)
FairSpec == Spec /\ Fairness

-----------------------------------------------------------------------------
(* Properties.                                                             *)

TypeOK ==
  /\ tree \in [rev: 0 .. MaxRev, present: BOOLEAN, open: BOOLEAN]
  /\ archived \in 0 .. NoCopy
  /\ transfers \in [Transfers -> Row]
  /\ retired \in BOOLEAN /\ recorded \in BOOLEAN /\ touched \in BOOLEAN
  /\ consumers \in [Consumers -> [status: {"queued", "active", "ended"}, from: {"none", "origin", "copy"}]]
  /\ view \in [at: SUBSET Nodes, retired: BOOLEAN, loaded: BOOLEAN]
  /\ cleaner \in {"idle", "verifying", "deleting"}
  /\ rpc \in {"none", "sent", "deleted"}

\* The directory is deleted only when the archive node holds its last
\* revision, whoever wrote in it after the archive was made and however late
\* the deletion arrives (agent.py, cleanup_archived_attempt).
ArchiveHoldsLastRevision == ~tree.present => archived = tree.rev

\* A consumer that runs, a relay and the archive transfer find the directory
\* they were bound to as long as they are active: the recheck after the
\* unlocked verification sees every binding made meanwhile, and later ones go
\* elsewhere (artifacts.py, archive_source_in_use and cleanup_archived_sources).
SourceOutlivesReaders ==
  ~tree.present =>
    /\ \A t \in Transfers \ {"upload"} :
         transfers[t].status = "active" => transfers[t].from # "origin"
    /\ \A c \in Consumers : consumers[c].status = "active" => consumers[c].from # "origin"

NewlyBound(t) == transfers'[t].status = "active" /\ transfers[t].status # "active"
                 /\ transfers'[t].from = "origin"

\* Once the directory is retired, no relay, archive or consumer is bound to it,
\* though the transfer lane works from a view read before its remote calls and
\* the cleanup lane may retire the directory during any of them.
ReadersAvoidRetired ==
  [][retired => /\ \A t \in Transfers \ {"upload"} : ~NewlyBound(t)
                /\ \A c \in Consumers : consumers'[c].from = "origin" => consumers[c].from = "origin"]_vars

\* When nothing uses the directory any more, an archived directory is in the
\* end deleted and its deletion recorded, unless its content changed after the
\* archive was made: lost answers and restarts only delay it.
CleanupFinishes ==
  <>[](~InUse /\ ~tree.open) =>
    (transfers["archive"].status = "succeeded" ~> (recorded \/ tree.rev # archived))

=============================================================================
