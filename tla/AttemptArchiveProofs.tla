------------------------ MODULE AttemptArchiveProofs ------------------------
(***************************************************************************)
(* What AttemptArchive promises about the attempt directory, for any       *)
(* consumers, relay destinations, retry limit and number of revisions.     *)
(***************************************************************************)
EXTENDS AttemptArchive, TLAPS

\* A transfer under way has a retry left to lose.
FailuresCounted ==
  \A t \in Transfers : transfers[t].status = "active" => transfers[t].fails < MaxFails

ArchiveDone == transfers["archive"].status = "succeeded"

\* No relay, archive transfer or consumer reads the directory.
NoReader ==
  /\ \A t \in Transfers \ {"upload"} :
       transfers[t].status = "active" => transfers[t].from # "origin"
  /\ \A c \in Consumers : consumers[c].status = "active" => consumers[c].from # "origin"

\* The order of the cleanup: archived, then retired without readers, then a
\* deletion request, then a deleted directory.
CleanupOrder ==
  /\ cleaner = "verifying" => ArchiveDone
  /\ retired => ArchiveDone /\ NoReader
  /\ rpc # "none" => retired
  /\ ~tree.present => retired

\* What makes it inductive: a view the transfer lane still works from cannot
\* be older than the archive, and a finished archive has no worker left.
ViewKnowsArchive == view.loaded /\ ArchiveDone => "archive" \in view.at
WorkerIsTracked  == transfers["archive"].worker = "running" => transfers["archive"].status = "active"

ArchiveInv ==
  /\ TypeOK /\ FailuresCounted
  /\ CleanupOrder /\ ViewKnowsArchive /\ WorkerIsTracked
  /\ ArchiveHoldsLastRevision

\* The transfers and bounds, as the assumption gives them.
LEMMA ConstantFacts ==
  /\ "archive" \in Transfers /\ "upload" \in Transfers
  /\ Relays \subseteq Transfers /\ "archive" \notin Relays
  /\ MaxFails \in Nat \ {0} /\ MaxRev \in Nat /\ NoCopy \in Nat
BY ArchiveAssumption DEF Transfers, NoCopy

\* Nothing is archived, copied or under way at first.
LEMMA ArchiveInvInit == Init => ArchiveInv
<1> SUFFICES ASSUME Init PROVE ArchiveInv
  OBVIOUS
<1>1. TypeOK
  <2>1. NoCopy \in 0 .. NoCopy /\ 0 \in 0 .. MaxRev /\ 0 \in 0 .. MaxFails
    BY ConstantFacts DEF NoCopy
  <2>2. transfers \in [Transfers -> Row]
    BY <2>1 DEF Init, Row
  <2> QED BY <2>1, <2>2 DEF Init, TypeOK, NoView
<1>2. FailuresCounted /\ CleanupOrder /\ ViewKnowsArchive /\ WorkerIsTracked /\ ArchiveHoldsLastRevision
  BY ConstantFacts DEF Init, FailuresCounted, CleanupOrder, ViewKnowsArchive, WorkerIsTracked,
                       ArchiveHoldsLastRevision, NoView
<1> QED BY <1>1, <1>2 DEF ArchiveInv

\* The rows after a transfer is reserved.
LEMMA ReserveFacts ==
  ASSUME ArchiveInv, NEW t \in Transfers, NEW from \in {"origin", "archive"},
         RetryPossible(t), Reserve(t, from)
  PROVE  /\ transfers' \in [Transfers -> Row] /\ touched' \in BOOLEAN
         /\ transfers'[t].status = "active" /\ transfers'[t].from = from
         /\ transfers'[t].fails = transfers[t].fails /\ transfers[t].fails < MaxFails
         /\ transfers[t].status \in {"none", "failed"}
         /\ \A u \in Transfers \ {t} : transfers'[u] = transfers[u]
<1> PICK w \in {"running", "lost"} :
      transfers' = [transfers EXCEPT ![t].status = "active", ![t].from = from, ![t].worker = w]
  BY DEF Reserve
<1>1. transfers[t] \in Row
  BY DEF ArchiveInv, TypeOK
<1> QED BY <1>1 DEF ArchiveInv, TypeOK, Row, Reserve, RetryPossible

\* Reserving keeps the invariant if a retired directory gets no reader.
LEMMA ReservePreserves ==
  ASSUME ArchiveInv, NEW t \in Transfers, NEW from \in {"origin", "archive"},
         RetryPossible(t), Reserve(t, from),
         retired => from # "origin" \/ t = "upload",
         UNCHANGED <<disk, retired, recorded, consumers, view, cleaner, rpc>>
  PROVE  ArchiveInv'
<1> USE ConstantFacts
<1>1. /\ transfers' \in [Transfers -> Row] /\ touched' \in BOOLEAN
      /\ transfers'[t].status = "active" /\ transfers'[t].from = from
      /\ transfers'[t].fails = transfers[t].fails /\ transfers[t].fails < MaxFails
      /\ transfers[t].status \in {"none", "failed"}
      /\ \A u \in Transfers \ {t} : transfers'[u] = transfers[u]
  BY ReserveFacts
<1>2. ArchiveDone' <=> ArchiveDone
  BY <1>1 DEF ArchiveDone
<1>3. TypeOK'
  BY <1>1 DEF ArchiveInv, TypeOK, disk
<1>4. FailuresCounted'
  BY <1>1 DEF ArchiveInv, FailuresCounted
<1>5. CleanupOrder'
  BY <1>1, <1>2 DEF ArchiveInv, CleanupOrder, NoReader, disk
<1>6. ViewKnowsArchive' /\ WorkerIsTracked' /\ ArchiveHoldsLastRevision'
  BY <1>1, <1>2 DEF ArchiveInv, ViewKnowsArchive, WorkerIsTracked, ArchiveHoldsLastRevision, disk
<1> QED BY <1>3, <1>4, <1>5, <1>6 DEF ArchiveInv

\* Steps of the transfer lane keep the invariant.
LEMMA TransferLanePreserves ==
  ASSUME ArchiveInv, TransferLane PROVE ArchiveInv'
<1> USE ConstantFacts
<1>1. ASSUME NEW t \in Transfers, Reconcile(t) PROVE ArchiveInv'
  <2> DEFINE answer == transfers[t].worker
  <2>1. /\ ~view.loaded /\ transfers[t].status = "active" /\ answer \in {"succeeded", "failed"}
        /\ transfers' = [transfers EXCEPT ![t].status = answer,
                           ![t].fails = @ + (IF answer = "failed" THEN 1 ELSE 0)]
        /\ touched' \in BOOLEAN
        /\ UNCHANGED <<disk, retired, recorded, consumers, view, cleaner, rpc>>
    BY <1>1 DEF Reconcile, ArchiveInv, TypeOK
  <2>2. transfers[t] \in Row /\ transfers[t].fails < MaxFails
    BY <2>1 DEF ArchiveInv, TypeOK, FailuresCounted
  <2>3. /\ transfers'[t].status = answer /\ transfers'[t].worker = answer
        /\ transfers'[t].fails \in 0 .. MaxFails /\ transfers'[t].from = transfers[t].from
        /\ transfers' \in [Transfers -> Row]
        /\ \A u \in Transfers \ {t} : transfers'[u] = transfers[u]
    <3> DEFINE lost == IF answer = "failed" THEN 1 ELSE 0
               r    == [transfers[t] EXCEPT !.status = answer, !.fails = @ + lost]
    <3>1. r \in Row /\ r.status = answer /\ r.worker = answer /\ r.from = transfers[t].from
      <4>1. transfers[t].fails + lost \in 0 .. MaxFails
        BY <2>2 DEF Row
      <4> HIDE DEF lost
      <4> QED BY <2>1, <2>2, <4>1 DEF Row
    <3>2. transfers' = [transfers EXCEPT ![t] = r]
      BY <2>1 DEF ArchiveInv, TypeOK
    <3> HIDE DEF r
    <3>3. transfers' \in [Transfers -> Row] /\ transfers'[t] = r
          /\ \A u \in Transfers \ {t} : transfers'[u] = transfers[u]
      BY <3>1, <3>2 DEF ArchiveInv, TypeOK
    <3> QED BY <3>1, <3>3 DEF Row
  <2>4. TypeOK' /\ FailuresCounted'
    BY <2>1, <2>3 DEF ArchiveInv, TypeOK, FailuresCounted, disk
  <2>5. ArchiveDone => ArchiveDone'
    BY <2>1, <2>3 DEF ArchiveDone
  <2>6. CleanupOrder'
    BY <2>1, <2>3, <2>5 DEF ArchiveInv, CleanupOrder, NoReader, disk
  <2>7. ViewKnowsArchive' /\ WorkerIsTracked' /\ ArchiveHoldsLastRevision'
    BY <2>1, <2>3 DEF ArchiveInv, ViewKnowsArchive, WorkerIsTracked, ArchiveHoldsLastRevision, disk
  <2> QED BY <2>4, <2>6, <2>7 DEF ArchiveInv
<1>2. CASE LoadView
  <2>1. view'.at = Located /\ view' \in [at: SUBSET Nodes, retired: BOOLEAN, loaded: BOOLEAN]
    BY <1>2 DEF LoadView, Located, ArchiveInv, TypeOK
  <2>2. ViewKnowsArchive'
    BY <1>2, <2>1 DEF LoadView, registry, Located, Nodes, ViewKnowsArchive, ArchiveDone
  <2> QED
    BY <1>2, <2>1, <2>2
    DEF LoadView, registry, disk, ArchiveInv, TypeOK, FailuresCounted, CleanupOrder, NoReader,
        ArchiveDone, WorkerIsTracked, ArchiveHoldsLastRevision
<1>3. ASSUME NEW n \in Relays, StartRelay(n) PROVE ArchiveInv'
  <2>1. retired => RelaySource = "archive"
    BY <1>3 DEF StartRelay, RelaySource, ArchiveInv, CleanupOrder, ViewKnowsArchive
  <2>2. RelaySource \in {"origin", "archive"} /\ n \in Transfers
    BY DEF RelaySource
  <2> QED BY <1>3, <2>1, <2>2, ReservePreserves DEF StartRelay
<1>4. CASE StartArchive
  <2>1. ~retired
    BY <1>4 DEF StartArchive, RetryPossible, ArchiveInv, CleanupOrder, ArchiveDone
  <2> QED BY <1>4, <2>1, ReservePreserves DEF StartArchive
<1>5. CASE StartUpload
  BY <1>5, ReservePreserves DEF StartUpload
<1>6. CASE EndTick
  BY <1>6
  DEF EndTick, NoView, registry, disk, ArchiveInv, TypeOK, FailuresCounted, CleanupOrder, NoReader,
      ArchiveDone, ViewKnowsArchive, WorkerIsTracked, ArchiveHoldsLastRevision
<1> QED BY <1>1, <1>2, <1>3, <1>4, <1>5, <1>6 DEF TransferLane

\* Steps of workers keep the invariant.
LEMMA WorkersPreserve ==
  ASSUME ArchiveInv, Workers PROVE ArchiveInv'
<1> USE ConstantFacts
<1> PICK t \in Transfers : Work(t)
  BY DEF Workers
<1>1. transfers[t].worker = "running" /\ transfers[t] \in Row
  BY DEF Work, ArchiveInv, TypeOK
<1>2. /\ transfers' \in [Transfers -> Row]
      /\ \A u \in Transfers : /\ transfers'[u].status = transfers[u].status
                              /\ transfers'[u].from = transfers[u].from
                              /\ transfers'[u].fails = transfers[u].fails
      /\ transfers'[t].worker # "running"
      /\ \A u \in Transfers \ {t} : transfers'[u] = transfers[u]
      /\ UNCHANGED <<tree, retired, recorded, touched, consumers, view, cleaner, rpc>>
  BY <1>1 DEF Work, ArchiveInv, TypeOK, Row
<1>3. archived' \in 0 .. NoCopy
  BY DEF Work, ArchiveInv, TypeOK, NoCopy
<1>4. ArchiveDone' <=> ArchiveDone
  BY <1>2 DEF ArchiveDone
<1>5. tree.present \/ archived' = archived
  BY <1>1 DEF Work, ArchiveInv, CleanupOrder, WorkerIsTracked, ArchiveDone
<1>6. TypeOK' /\ FailuresCounted'
  BY <1>2, <1>3 DEF ArchiveInv, TypeOK, FailuresCounted
<1>7. CleanupOrder' /\ ViewKnowsArchive' /\ WorkerIsTracked'
  BY <1>2, <1>4 DEF ArchiveInv, CleanupOrder, NoReader, ViewKnowsArchive, WorkerIsTracked
<1>8. ArchiveHoldsLastRevision'
  BY <1>2, <1>5 DEF ArchiveInv, ArchiveHoldsLastRevision
<1> QED BY <1>6, <1>7, <1>8 DEF ArchiveInv

\* Steps of the dispatcher keep the invariant.
LEMMA DispatcherPreserves ==
  ASSUME ArchiveInv, Dispatcher PROVE ArchiveInv'
<1> USE ConstantFacts
<1> DEFINE Consumer == [status: {"queued", "active", "ended"}, from: {"none", "origin", "copy"}]
<1>1. ASSUME NEW c \in Consumers, NEW r \in Consumer,
             consumers' = [consumers EXCEPT ![c] = r],
             retired => r.status # "active" \/ r.from # "origin",
             touched' \in BOOLEAN,
             UNCHANGED <<disk, transfers, retired, recorded, view, cleaner, rpc>>
      PROVE  ArchiveInv'
  <2>1. consumers'[c] = r /\ \A d \in Consumers \ {c} : consumers'[d] = consumers[d]
    BY <1>1 DEF ArchiveInv, TypeOK
  <2>2. TypeOK' /\ FailuresCounted'
    BY <1>1 DEF ArchiveInv, TypeOK, FailuresCounted, disk
  <2>3. CleanupOrder'
    BY <1>1, <2>1 DEF ArchiveInv, CleanupOrder, NoReader, ArchiveDone, disk
  <2>4. ViewKnowsArchive' /\ WorkerIsTracked' /\ ArchiveHoldsLastRevision'
    BY <1>1 DEF ArchiveInv, ViewKnowsArchive, ArchiveDone, WorkerIsTracked, ArchiveHoldsLastRevision, disk
  <2> QED BY <2>2, <2>3, <2>4 DEF ArchiveInv
<1>2. ASSUME NEW c \in Consumers, Finish(c) PROVE ArchiveInv'
  <2> PICK s \in {"queued", "ended"} : consumers' = [consumers EXCEPT ![c].status = s]
    BY <1>2 DEF Finish
  <2> DEFINE r == [consumers[c] EXCEPT !.status = s]
  <2>1. consumers[c] \in Consumer
    BY DEF ArchiveInv, TypeOK
  <2>2. r \in Consumer /\ r.status # "active" /\ consumers' = [consumers EXCEPT ![c] = r]
    BY <2>1 DEF ArchiveInv, TypeOK
  <2>3. touched' \in BOOLEAN /\ UNCHANGED <<disk, transfers, retired, recorded, view, cleaner, rpc>>
    BY <1>2 DEF Finish, ArchiveInv, TypeOK
  <2> HIDE DEF r, Consumer
  <2> QED BY <1>1, <2>2, <2>3
<1>3. ASSUME NEW c \in Consumers, NEW n \in Nodes, Dispatch(c, n) PROVE ArchiveInv'
  <2> DEFINE local == ~retired /\ n = "origin"
             copy  == n \in Located /\ (~local \/ n = "archive")
             r     == [status |-> "active", from |-> IF copy THEN "copy" ELSE "origin"]
  <2>1. /\ copy \/ local
        /\ consumers' = [consumers EXCEPT ![c] = r]
        /\ touched' = (touched \/ ~copy)
        /\ UNCHANGED <<disk, transfers, retired, recorded, view, cleaner, rpc>>
    BY <1>3 DEF Dispatch
  <2>2. r \in Consumer /\ (retired => r.from # "origin") /\ touched' \in BOOLEAN
    BY <2>1 DEF ArchiveInv, TypeOK
  <2> HIDE DEF r, copy, local, Consumer
  <2> QED BY <1>1, <2>1, <2>2
<1> QED BY <1>2, <1>3 DEF Dispatcher

\* Steps of the cleanup lane keep the invariant.
LEMMA CleanupLanePreserves ==
  ASSUME ArchiveInv, CleanupLane \/ DeleteSource \/ Restart PROVE ArchiveInv'
<1> USE ConstantFacts
         DEF disk, registry, TypeOK, CleanupOrder, ArchiveDone, NoReader
<1>1. CASE PickArchive
  BY <1>1 DEF PickArchive, ArchiveInv, FailuresCounted, ViewKnowsArchive, WorkerIsTracked, ArchiveHoldsLastRevision
<1>2. CASE Retire
  <2>1. CASE InUse
    BY <1>2, <2>1 DEF Retire, ArchiveInv, FailuresCounted, ViewKnowsArchive, WorkerIsTracked, ArchiveHoldsLastRevision
  <2>2. CASE ~InUse
    <3>1. NoReader
      BY <2>2 DEF InUse, Bound
    <3> QED
      BY <1>2, <2>2, <3>1
      DEF Retire, ArchiveInv, FailuresCounted, ViewKnowsArchive, WorkerIsTracked, ArchiveHoldsLastRevision
  <2> QED BY <2>1, <2>2
<1>3. CASE VerifyFails
  BY <1>3 DEF VerifyFails, ArchiveInv, FailuresCounted, ViewKnowsArchive, WorkerIsTracked, ArchiveHoldsLastRevision
<1>4. CASE RecordDeletion
  BY <1>4 DEF RecordDeletion, ArchiveInv, FailuresCounted, ViewKnowsArchive, WorkerIsTracked, ArchiveHoldsLastRevision
<1>5. CASE DeletionFails
  BY <1>5 DEF DeletionFails, ArchiveInv, FailuresCounted, ViewKnowsArchive, WorkerIsTracked, ArchiveHoldsLastRevision
<1>6. CASE DeleteSource
  <2>1. retired
    BY <1>6 DEF DeleteSource, ArchiveInv
  <2>2. /\ tree' \in [rev: 0 .. MaxRev, present: BOOLEAN, open: BOOLEAN]
        /\ tree'.rev = tree.rev
        /\ ~tree'.present => archived = tree.rev
    BY <1>6 DEF DeleteSource, ArchiveInv, ArchiveHoldsLastRevision
  <2> QED
    BY <1>6, <2>1, <2>2
    DEF DeleteSource, ArchiveInv, FailuresCounted, ViewKnowsArchive, WorkerIsTracked, ArchiveHoldsLastRevision
<1>7. CASE Restart
  BY <1>7 DEF Restart, NoView, ArchiveInv, FailuresCounted, ViewKnowsArchive, WorkerIsTracked, ArchiveHoldsLastRevision
<1> QED BY <1>1, <1>2, <1>3, <1>4, <1>5, <1>6, <1>7 DEF CleanupLane

\* What happens outside of the lanes keeps the invariant.
LEMMA OutsidePreserves ==
  ASSUME ArchiveInv, Outside PROVE ArchiveInv'
<1> USE ConstantFacts
         DEF disk, registry, TypeOK, CleanupOrder, ArchiveDone, NoReader
<1>1. CASE GracePasses
  BY <1>1 DEF GracePasses, ArchiveInv, FailuresCounted, ViewKnowsArchive, WorkerIsTracked, ArchiveHoldsLastRevision
<1>2. CASE OpenTree \/ WriteTree
  <2>1. /\ tree' \in [rev: 0 .. MaxRev, present: BOOLEAN, open: BOOLEAN]
        /\ tree.present /\ tree'.present
    <3>1. tree \in [rev: 0 .. MaxRev, present: BOOLEAN, open: BOOLEAN]
      BY DEF ArchiveInv
    <3>2. CASE OpenTree
      BY <3>1, <3>2 DEF OpenTree
    <3>3. CASE WriteTree
      <4>1. tree.rev + 1 \in 0 .. MaxRev
        BY <3>1, <3>3 DEF WriteTree
      <4> QED BY <3>1, <3>3, <4>1 DEF WriteTree
    <3> QED BY <1>2, <3>2, <3>3
  <2> QED
    BY <1>2, <2>1
    DEF OpenTree, WriteTree, ArchiveInv, FailuresCounted, ViewKnowsArchive, WorkerIsTracked, ArchiveHoldsLastRevision
<1> QED BY <1>1, <1>2 DEF Outside

\* The inductive invariant: however the two lanes, the dispatcher, the workers,
\* restarts and outside writers interleave, the cleanup keeps its order.
THEOREM ArchiveCorrect == Spec => []ArchiveInv
<1>1. ArchiveInv /\ [Next]_vars => ArchiveInv'
  <2> SUFFICES ASSUME ArchiveInv, [Next]_vars PROVE ArchiveInv'
    OBVIOUS
  <2>1. CASE UNCHANGED vars
    BY <2>1
    DEF vars, disk, registry, ArchiveInv, TypeOK, FailuresCounted, CleanupOrder, NoReader, ArchiveDone,
        ViewKnowsArchive, WorkerIsTracked, ArchiveHoldsLastRevision
  <2> QED
    BY <2>1, TransferLanePreserves, WorkersPreserve, DispatcherPreserves, CleanupLanePreserves,
       OutsidePreserves DEF Next
<1> QED BY ArchiveInvInit, <1>1, PTL DEF Spec

\* The state of the attempt directory, its transfers and its readers is well formed.
THEOREM TypeCorrect == Spec => []TypeOK
BY ArchiveCorrect, PTL DEF ArchiveInv

\* The directory is deleted only when the archive node holds its last revision
\* (agent.py, cleanup_archived_attempt).
THEOREM DeletionLosesNothing == Spec => []ArchiveHoldsLastRevision
BY ArchiveCorrect, PTL DEF ArchiveInv

\* Who reads the directory finds it there until the transfer or the attempt
\* ends (artifacts.py, archive_source_in_use).
THEOREM ReadersKeepSource == Spec => []SourceOutlivesReaders
<1>1. ArchiveInv => SourceOutlivesReaders
  BY DEF ArchiveInv, CleanupOrder, NoReader, SourceOutlivesReaders
<1> QED BY ArchiveCorrect, <1>1, PTL

\* Once the directory is retired nothing but an upload is bound to it, though
\* the transfer lane works from an old view (artifacts.py, tick).
THEOREM RetiredGetsNoReaders == Spec => ReadersAvoidRetired
<1> DEFINE Avoids ==
      retired => /\ \A t \in Transfers \ {"upload"} : ~NewlyBound(t)
                 /\ \A c \in Consumers : consumers'[c].from = "origin" => consumers[c].from = "origin"
<1>1. ArchiveInv /\ ArchiveInv' /\ [Next]_vars => [Avoids]_vars
  <2> SUFFICES ASSUME ArchiveInv, ArchiveInv', [Next]_vars, retired PROVE Avoids
    OBVIOUS
  <2>1. retired' = retired
    BY DEF vars, disk, registry, Next, TransferLane, Reconcile, LoadView, StartRelay, StartArchive,
           StartUpload, EndTick, Workers, Work, Dispatcher, Dispatch, Finish, CleanupLane, PickArchive,
           Retire, VerifyFails, RecordDeletion, DeletionFails, DeleteSource, Restart, Outside,
           GracePasses, OpenTree, WriteTree
  <2>2. \A t \in Transfers \ {"upload"} : ~NewlyBound(t)
    BY <2>1 DEF ArchiveInv, CleanupOrder, NoReader, NewlyBound
  <2>3. ASSUME NEW c \in Consumers, consumers'[c].from = "origin" PROVE consumers[c].from = "origin"
    <3>1. CASE UNCHANGED consumers
      BY <3>1, <2>3
    <3>2. ASSUME NEW d \in Consumers, Finish(d) PROVE consumers[c].from = "origin"
      BY <2>3, <3>2 DEF Finish, ArchiveInv, TypeOK
    <3>3. ASSUME NEW d \in Consumers, NEW n \in Nodes, Dispatch(d, n) PROVE consumers[c].from = "origin"
      BY <2>3, <3>3 DEF Dispatch, ArchiveInv, TypeOK
    <3> QED
      BY <3>1, <3>2, <3>3
      DEF vars, disk, registry, Next, TransferLane, Reconcile, LoadView, StartRelay, StartArchive,
          StartUpload, EndTick, Workers, Work, Dispatcher, CleanupLane, PickArchive,
          Retire, VerifyFails, RecordDeletion, DeletionFails, DeleteSource, Restart, Outside,
          GracePasses, OpenTree, WriteTree
  <2> QED BY <2>2, <2>3
<1> QED BY ArchiveCorrect, <1>1, PTL DEF Spec, ReadersAvoidRetired

=============================================================================
