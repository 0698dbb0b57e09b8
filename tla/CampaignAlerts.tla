--------------------------- MODULE CampaignAlerts ---------------------------
(***************************************************************************)
(* What poll_campaigns() makes of one campaign: from the jobs it observes  *)
(* and the publication of their outputs it derives the campaign's state,   *)
(* decides what became of it since the last poll - started, in error, in a *)
(* different error, recovered, complete - and queues an alert for it.      *)
(*                                                                         *)
(* A poll is one transaction under the registry lock; jobs and transfers   *)
(* move on between polls, as far as the controller records it.             *)
(***************************************************************************)
EXTENDS Integers, Sequences, FiniteSets

CONSTANTS
  Jobs,        \* the campaign's current jobs
  Trains,      \* those of kind train
  MaxFaults,   \* failed and lost attempts, dead downloads; bounds the model
  MaxAlerts    \* alerts queued; bounds nothing but AlertOutbox

ASSUME AlertsAssumption ==
  /\ IsFiniteSet(Jobs) /\ Jobs # {}
  /\ Trains \subseteq Jobs
  /\ MaxFaults \in Nat /\ MaxAlerts \in Nat

VARIABLES
  jstat,      \* [Jobs -> JobState]: jobs.status, with the readiness it reports
  failures,   \* [Jobs -> Nat]: attempts of the job that failed
  uploading,  \* BOOLEAN: an output is not published yet
  dead,       \* BOOLEAN: a download used up its retries
  faults,     \* Nat: faults so far
  runtime,    \* the campaign_runtime row
  alerts      \* Seq(Alert): rows of notification_outbox in order of creation

study == <<jstat, failures, uploading, dead, faults>>
vars  == <<study, runtime, alerts>>

-----------------------------------------------------------------------------
(* Values.                                                                 *)
JobState == {"queued", "running", "ready", "unknown", "failed", "succeeded"}
State    == {"none", "running", "complete", "error"}

\* The token makes the id of the row; delivery is left to AlertOutbox.
Alert(kind, token) == [kind |-> kind, token |-> token, open |-> TRUE]

Init ==
  /\ jstat = [j \in Jobs |-> "queued"]
  /\ failures = [j \in Jobs |-> 0]
  /\ uploading = FALSE /\ dead = FALSE /\ faults = 0
  /\ runtime = [state |-> "none", gen |-> 0, started |-> FALSE, errors |-> {},
                recovering |-> FALSE, targets |-> {}, since |-> 0, retired |-> FALSE, seen |-> {}]
  /\ alerts = <<>>

-----------------------------------------------------------------------------
(* The campaign's jobs and transfers, as the controller records them.      *)
Fault == faults < MaxFaults /\ faults' = faults + 1

StartJob(j) ==
  /\ jstat[j] = "queued"
  /\ jstat' = [jstat EXCEPT ![j] = "running"]
  /\ UNCHANGED <<failures, uploading, dead, faults>>

ReportReady(j) ==
  /\ jstat[j] = "running"
  /\ jstat' = [jstat EXCEPT ![j] = "ready"]
  /\ UNCHANGED <<failures, uploading, dead, faults>>

JobSucceeds(j) ==
  /\ jstat[j] = "ready"
  /\ jstat' = [jstat EXCEPT ![j] = "succeeded"]
  /\ uploading' = TRUE
  /\ UNCHANGED <<failures, dead, faults>>

\* An attempt fails, and with it the job, unless it is retried automatically.
JobFails(j) ==
  /\ jstat[j] \in {"running", "ready", "unknown"} /\ Fault
  /\ failures' = [failures EXCEPT ![j] = @ + 1]
  /\ jstat' \in {[jstat EXCEPT ![j] = s] : s \in {"failed", "queued"}}
  /\ UNCHANGED <<uploading, dead>>

JobLost(j) ==
  /\ jstat[j] \in {"running", "ready"} /\ Fault
  /\ jstat' = [jstat EXCEPT ![j] = "unknown"]
  /\ UNCHANGED <<failures, uploading, dead>>

JobFound(j) ==
  /\ jstat[j] = "unknown"
  /\ jstat' = [jstat EXCEPT ![j] = "running"]
  /\ UNCHANGED <<failures, uploading, dead, faults>>

\* The operator retries a failed job.
RetryFailed(j) ==
  /\ jstat[j] = "failed"
  /\ jstat' = [jstat EXCEPT ![j] = "queued"]
  /\ UNCHANGED <<failures, uploading, dead, faults>>

Publish ==
  /\ uploading /\ uploading' = FALSE
  /\ UNCHANGED <<jstat, failures, dead, faults>>

DownloadDies ==
  /\ ~dead /\ dead' = TRUE /\ Fault
  /\ UNCHANGED <<jstat, failures, uploading>>

DownloadRepaired ==
  /\ dead /\ dead' = FALSE
  /\ UNCHANGED <<jstat, failures, uploading, faults>>

StudyNext ==
  /\ \/ \E j \in Jobs : \/ StartJob(j) \/ ReportReady(j) \/ JobSucceeds(j) \/ JobFails(j)
                        \/ JobLost(j) \/ JobFound(j) \/ RetryFailed(j)
     \/ Publish \/ DownloadDies \/ DownloadRepaired
  /\ UNCHANGED <<runtime, alerts>>

-----------------------------------------------------------------------------
(* Observation: what a poll sees, compared with the row it finds.          *)
JobsIn(states) == {j \in Jobs : jstat[j] \in states}
Failing        == JobsIn({"failed", "unknown"})
Confirmed      == JobsIn({"ready", "succeeded"})

\* A dead download counts while a queued job needs it.
Errors ==
  {<<j, jstat[j]>> : j \in Failing}
  \cup (IF dead /\ JobsIn({"queued"}) # {} THEN {<<"download", "artifact_error">>} ELSE {})

Observed ==
  IF Errors # {} THEN "error"
  ELSE IF uploading \/ JobsIn({"queued", "running", "ready"}) # {} THEN "running"
  ELSE "complete"

\* Training attempts that are ready after an earlier attempt of the job failed.
TrainRecoveries == {<<j, failures[j]>> : j \in {i \in Trains \cap JobsIn({"ready"}) : failures[i] > 0}}

\* Complete campaigns are never polled again, failed ones for a day.
ProcessingDue_Mutant == runtime.state \notin {"complete", "error"}
ProcessingDue ==
  /\ runtime.state # "complete"
  /\ runtime.state = "error" => ~runtime.retired

Changed    == runtime.state # Observed
Generation == IF Changed THEN runtime.gen + 1 ELSE runtime.gen
Starts     == ~runtime.started /\ Observed = "running" /\ JobsIn({"running", "ready"}) # {}

\* Retries that were running at the first observation are not announced.
FreshRecoveries == IF runtime.state = "none" THEN {} ELSE TrainRecoveries \ runtime.seen

NewError_Mutant == Cardinality(runtime.errors) < Cardinality(Errors) /\ ~Changed /\ Observed = "error"
NewError        == ~Changed /\ Observed = "error" /\ runtime.errors # Errors

\* Confirmed jobs alone end a recovery; one that named no job needs a ready job.
Recovered_Mutant ==
  runtime.recovering /\ Observed = "running" /\ JobsIn({"ready"}) # {}
Recovered ==
  /\ runtime.recovering /\ Observed = "running"
  /\ IF runtime.targets = {} THEN JobsIn({"ready"}) # {} ELSE runtime.targets \subseteq Confirmed

\* A recovery is pending from an error on, over every job that failed since.
Recovering == Observed = "error" \/ (runtime.recovering /\ ~Recovered /\ Observed # "complete")
Targets    == IF Observed = "error" THEN Failing \cup runtime.targets ELSE runtime.targets

\* INSERT OR IGNORE: an alert whose id exists is dropped.
Known_Mutant(kind, token) == \E i \in DOMAIN alerts : alerts[i].kind = kind
Known(kind, token) == \E i \in DOMAIN alerts : alerts[i].kind = kind /\ alerts[i].token = token

Announce(news, kind, token) ==
  IF news /\ ~Known(kind, token) THEN <<Alert(kind, token)>> ELSE <<>>

NewAlerts ==
  Announce(FreshRecoveries # {}, "recovered", <<"train batch", FreshRecoveries>>)
  \o Announce(Starts, "started", "first-execution")
  \o Announce(Recovered /\ FreshRecoveries = {}, "recovered", <<"campaign", runtime.since>>)
  \o Announce(Observed = "error" /\ (Changed \/ NewError), "error", <<Generation, Errors>>)
  \o Announce(Observed = "complete" /\ Changed, "complete", Generation)

\* An error that has not been sent is superseded by the end of the error.
Supersede_Mutant(rows) == rows
Supersede(rows) == [i \in DOMAIN rows |-> [rows[i] EXCEPT !.open = @ /\ rows[i].kind # "error"]]

Poll ==
  /\ ProcessingDue
  /\ runtime' = [state      |-> Observed,
                 gen        |-> Generation,
                 started    |-> runtime.started \/ Starts \/ Observed \in {"complete", "error"},
                 errors     |-> Errors,
                 recovering |-> Recovering,
                 targets    |-> IF Recovering THEN Targets ELSE {},
                 since      |-> IF Observed = "error" THEN Generation
                                ELSE IF Recovering THEN runtime.since ELSE 0,
                 retired    |-> FALSE,
                 seen       |-> runtime.seen \cup TrainRecoveries]
  /\ alerts' = (IF Observed = "error" THEN alerts ELSE Supersede(alerts)) \o NewAlerts
  /\ UNCHANGED study

\* The campaign has been in the same error for a day.
Retire ==
  /\ runtime.state = "error" /\ ~runtime.retired
  /\ runtime' = [runtime EXCEPT !.retired = TRUE]
  /\ UNCHANGED <<study, alerts>>

-----------------------------------------------------------------------------
Next == StudyNext \/ Poll \/ Retire

Spec     == Init /\ [][Next]_vars
FairSpec == Spec /\ WF_vars(Poll)   \* a daemon polls in every cycle

-----------------------------------------------------------------------------
(* Properties.                                                             *)

\* The errors on record have been announced in this very episode, although an
\* alert whose id exists is dropped, and no alert of an earlier episode is
\* still to be sent.
ErrorIsAnnounced ==
  /\ runtime.state = "error" =>
       \E i \in DOMAIN alerts : alerts[i].kind = "error" /\ alerts[i].token = <<runtime.gen, runtime.errors>>
  /\ \A i \in DOMAIN alerts :
       alerts[i].kind = "error" /\ alerts[i].open
       => runtime.state = "error" /\ alerts[i].token[1] = runtime.gen

\* A campaign that leaves an error is announced as recovered, or complete, once
\* every job that failed on the way is ready or succeeded - with one exception:
\* when a retried training job of the same campaign is first seen ready in the
\* same poll, its own notice stands for the recovery, whichever job failed.
RecoveryIsAnnounced ==
  [][runtime.recovering /\ ~runtime'.recovering =>
       /\ runtime.targets \subseteq Confirmed
       /\ \E i \in DOMAIN alerts' \ DOMAIN alerts :
            \/ alerts'[i].kind = "complete"
            \/ alerts'[i].kind = "recovered" /\ alerts'[i].token = <<"campaign", runtime.since>>
            \/ alerts'[i].kind = "recovered" /\ alerts'[i].token[1] = "train batch"]_vars

\* A campaign whose work is done for good is announced complete, unless it was
\* in one error for more than a day before.
CompletionIsAnnounced ==
  <>[](Observed = "complete")
    => <>(\E i \in DOMAIN alerts : alerts[i].kind = "complete") \/ <>[](runtime.state = "error" /\ runtime.retired)

-----------------------------------------------------------------------------
(* The outbox these alerts go to, before any delivery.                     *)
OutboxRow(alert) ==
  [kind |-> alert.kind, waits |-> FALSE, posted |-> 0,
   status |-> IF alert.open THEN "pending" ELSE "superseded", over |-> ~alert.open]

InError    == runtime.state = "error"
Queue      == [i \in DOMAIN alerts |-> OutboxRow(alerts[i])]
NoDelivery == [p \in {"daemon"} |-> [step |-> "idle", urls |-> {}, due |-> {}]]

Outbox == INSTANCE AlertOutbox WITH
  Processes <- {"daemon"}, Kinds <- {"started", "recovered", "error", "complete"},
  Batch     <- 8, Fragile <- {}, MaxLosses <- 0,
  inError   <- InError, outbox <- Queue, process <- NoDelivery,
  routed    <- {"started", "error", "complete"}, losses <- 0

\* Every poll is one that AlertOutbox allows for: it supersedes and queues what
\* the delivery of alerts relies on.
ImplementsOutbox == Outbox!Spec
=============================================================================
