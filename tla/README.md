# A TLA+ verification project for the research job scheduler

The scheduler registers research jobs in a SQLite registry, probes Linux hosts over SSH,
starts one *attempt* of a job at a time on a host that passes every gate, follows the
attempts by status calls, prepares hosts with data and execution profiles, stages the outputs
of dependencies, archives and deletes attempt directories, and alerts researchers. This directory holds TLA+ models of the parts of it that are hard to
test, the TLC runs that check them on small instances, and TLAPS proofs of what matters most
for every instance. Paths below are relative to `src/src/research_scheduler/` unless they
begin with `docs/` (which is `src/docs/`).

Contents: 1 inventory · 2 modules and the code they stand for · 3 runs · 4 fairness ·
5 disagreements found · 6 what is proved · 7 what is not modelled · 8 plan.

## 1. Inventory

### 1.1 Components

| Component | Source | State it keeps | Operations | Correct when |
|---|---|---|---|---|
| controller | `controller.py`, `daemon.py` | nothing durable; a tick's plan, the reports of its status calls, the jobs it launched | `tick`: `refresh`, `invalidate_unavailable`, `reconcile`, launches, final `reconcile` | whatever transaction it dies after, the registry is consistent; one attempt speaks for a job; legal transitions only; nothing finished stays reserved, but for held jobs on a host that was given up |
| registry | `store.py` | rows of jobs, attempts, nodes, node_health, snapshots, artifact_transfers, relay_intents, events; one file lock | registration, `attempts`, `retry_failed`, `add_pending_order_dependency`, setters of policies | the tables agree; operators and daemon exclude each other |
| states | `states.py` | none (pure) | transition tables, `recovery_due`, `observe_health` | the retry schedule and its budget |
| node recovery | `controller.refresh`, `draining.py` | node_health, snapshots | probe, drain, enable, readmit | a streak of polls is real; given up only after the whole budget; back only after readmission |
| agent | `agent.py` | the attempt directory: `spec.json`, `state.json`, `execution.claim`, logs | `launch`, `run`, `read_status`, `recover_oom`, archive verification, deletion | one execution per attempt; a verdict means nothing runs any more; an OOM is recorded as long as there is evidence of it |
| failover | `gpu_recovery.py`, `execution_profiles.recovered_validation_retry` | histories in job metadata | `retry_spec` | bounded per kind; leaves every queued job an attempt |
| planner | `planner.py` | none (pure) | `placements`, `fit`, `dependency_pool_candidates` | starts only what every gate permits |
| artifacts | `artifacts.py`, `artifact_service.py`, `relay_worker.py`, `hf_worker.py` | artifact_transfers, relay_intents, receipts, the attempt archive | the transfer lane (`tick`) and the cleanup lane (`cleanup_archived_sources`), both outside the daemon | nobody reads a deleted source; nothing unarchived is deleted; no input is copied twice; no consumer starves without a reason |
| host preparation | `execution_profiles.py`, `resources.py` and their workers | records of prepared profiles and replicas, preparation and validation jobs, receipts, assets in node specs | both `tick`s, the placement gates of `fit` | a host is used only where its data and profile were verified; copies stay bounded; nobody waits for work that nobody does |
| datasets | `datasets.py` | dataset preparations | `tick` | as replicas |
| campaigns | `notifications.py` | campaign_runtime: state, generation, pending recovery | `poll_campaigns` | every error, recovery and completion is announced once |
| alert delivery | `notifications.py` | notification_outbox: status, lease | `deliver_outbox` | repeated only when an answer was lost; nothing stale is sent; nothing stays behind |
| progress reports | `progress_notifications.py` | an outbox of its own | progress timers | as alert delivery |
| registration | `schema.py`, `registration.py` | none | validation of specifications | only well-formed graphs enter |
| observation | `overview.py`, `visibility.py`, `waiting.py`, `dashboard/` | none (read-only) | reports | – |

### 1.2 How they interact

* **One registry lock.** `Store.lock` is held by a whole tick of the daemon and by every
  operator command that writes. So operators act only between ticks; but the *artifact
  service* releases the lock inside every remote call (`UnlockedTransport.call`), and its two
  lanes, the daemon and the operators interleave there.
* **One transaction per decision.** A tick is a long sequence of small commits. The daemon
  may be killed between any two, or during an RPC; the next tick starts from the rows.
* **RPCs lose their answers.** `launch` is recorded before it is sent and never sent again
  for the same id. A status that cannot be read is `unknown`, which keeps the reservation.
* **Remote processes go on by themselves.** The runner is detached from the launch RPC, the
  child from the runner; hosts reboot; processes escape the child's group.
* **The report is the only memory.** `reconcile` stores the whole report of a tick over the
  last one, and the agent gets its earlier findings back from it.
* **Preparation is scheduled work.** Copies and validations are ordinary jobs; what they achieved
  is believed only after a receipt, an asset in the node's spec and a probe that finds it there.
  Every change of a node's spec deletes its snapshot.
* **Alerts leave through an outbox.** Polls queue and supersede rows under the registry lock;
  posting happens outside it, under a lock of its own, with a lease per row.
* **The two lanes share rows only.** The transfer lane works from a view read at the start of
  its tick; the cleanup lane verifies, retires and deletes directories meanwhile.

### 1.3 What is hard here

Late launches of attempts that were given up; results of attempts that lost their authority;
runners that die with a live child; verdicts read in parallel and applied one after the other;
several writers of one retry budget; retry schedules that must survive restarts; evidence
that is lost by one failed read, or scrolls out of the tail of a log; runs that are never heard of again; a deletion whose answer is lost, raced by a relay that was
chosen before; reservations for relays that fail; hosts that change their address, lose files
or break between a receipt and a launch; alerts that are claimed when their reason ends. `PROJECT.json` lists each of these under
`hazards`, at the line where it bites, with the properties that would catch it.

## 2. Modules and the code they stand for

`PROJECT.json` maps every definition to its lines. A definition ending in `_Mutant...` breaks
the one after it the way a plausible bug would; no specification uses it. It documents which
error the property named with it in `PROJECT.json` catches.

### AttemptLifecycle (controller, registry, agent)

State: the rows of jobs (`jstatus`, `maxatt`, `failovers`, `granted`, `depends`), of attempts
(`owner`, `host`, `astatus`) and of node_health (`phase`, `retries`); the memory of the tick
(`pc`, `after`, `todo`, `report`, `launched`); the launch RPC (`wire`) and the host: `receipt`
(state.json), `fresh` (written under the current boot), `runner`, `child`, `spawns`.

| Actions | Code |
|---|---|
| `BeginTick`, `InvalidateUnavailable`, `EndInvalidate` | `refresh`, `invalidate_unavailable`: one transaction per attempt on a host that was given up |
| `ReadNode`, `ApplyReport`, `EndReconcile` | `_status_reports` (one batch per node, each may fail), then one transaction per report, with the failover of `retry_spec` in it |
| `RetryValidation`, `RefreshBeforeLaunch`, `Reserve` | validation retries, re-probing of candidates, `_launch_batch` up to its commit |
| `SendLaunch`, `LaunchReturns`, `AcknowledgeLaunch`, `EndLaunchBatch`, `EndLaunches` | the pool of launch RPCs, which may fail after they arrived, and their acknowledgements |
| `Crash` | the daemon dies: memory is gone, RPCs under way may still arrive |
| `ProbeCommand`, `CancelPending`, `RetryFailed`, `AddOrderDependency`, `ReadmitNode` | operator commands, only while no tick holds the lock |
| `DeliverLaunch`, `ClaimExecution`, `FailBeforeChild`, `StartChild`, `Heartbeat`, `FinishRun`, `RunnerError`, `RunnerDies`, `ChildEnds`, `Reboot` | `launch`, `run` and what happens to its processes |

`ReadStatus` is `read_status` in the agent, computed at the moment the node answers. Placement
is `Ready`: queued, dependencies succeeded, host healthy and without an unknown attempt; which
of the hosts that fit is chosen is nondeterministic, since capacity arithmetic only removes
choices. `InheritedRegistry` starts from the rows an earlier release may have left (one
attempt on a host that is unavailable for its D state), which `invalidate_unavailable` and
`observe_health` still treat specially.

`Models` are the train and eval jobs. After a failed run of one, `Verdicts` allows `reconcile` both answers of
`recover_oom`, which is taken whole: the hold, and the plain failure whatever still runs (section 5). `LeftBehind` names those
processes. `Held` are jobs with tools, tokens or a physical host: their reservation survives the giving up of the host, and
`reconcile` does not read them there (`Withheld`).

### ResultAuthority (abstract)

What a reader of the registry relies on: which attempt speaks for a job and what became of the
job. Authority goes to attempts that never had it, for open jobs whose dependencies have
succeeded; it is lost only while the job is open; a success is final.
`AttemptLifecycle!ImplementsResultAuthority` is the refinement (job status → `verdict`,
active or succeeded attempts → `authority`, used ids → `spent`), checked by TLC and proved.

### NodeHealth (states, draining, refresh)

One node with a clock: `health` is its node_health row, `snap` its snapshot, `enabled` and
`quarantined` come from its specification. `Probe(r)` is one pass of `refresh` over the node:
the due test, `observe_health` or `publication_probe_health`, and the continuity of the streak
of stable polls. `SetEnabled`, `Register` and `ReadmitNode` are operators; `Reboot` and `Wait`
the world. `good`, `goodBoot`, `failing` and `condemned` are history variables, computed from
the probes (and the phases they lead to) and never read by an action's other assignments.
AttemptLifecycle keeps a coarser form of the same state machine (`ObservedPhase`) without time.

### OomRecovery (agent, reconcile)

One attempt that fails, possibly out of memory, with processes in its group and outside it
(`group`, `strays`). A tick reads the status (`ReadOk`, `ReadFails`), may hold or ask for a
cleanup (`Hold`, `Cleanup`), and commits the report whole (`Commit`). `Classified`, `Evidence`
and `StatusReports` are `finish_oom_classification`, `oom_failure`/`kernel_oom_evidence` and
`read_status`: the evidence is read from logs, or from the kernel journal, which is asked only while
the stored report still has a fresh process observation. Only kernel evidence comes back from the stored report; logs are
searched anew by every read, in their last 64 KiB, and a read error is passed over. `logs` is what such a search would see:
the message (`"shown"`), an error that may go away (`"hidden"`: `LogFails`, `LogReturns`), or a message that the output of
survivors has pushed out for good (`"scrolled"`: `LogGrows`). `Recovered` is the end of `recover_oom`, which answers the
plain failure when the second search finds nothing. A runner that dies without a receipt is AttemptLifecycle's subject.

### AttemptArchive (artifacts, artifact_service, agent)

One attempt directory (`tree`: its revision, presence, open files) and all who may read it:
its archive transfer, relays to other nodes, an optional upload, and jobs that consume it. The
transfer lane (`LoadView` … `EndTick`) reserves transfers from a `view` that ages while its
remote calls release the lock. The cleanup lane picks an archived directory (`PickArchive`),
has the archive verified without the lock, rechecks the readers and retires the directory in
one transaction (`Retire`), and asks for the deletion, whose call may be lost, late or
repeated (`DeleteSource`, `RecordDeletion`, `DeletionFails`). `Restart` kills either lane.
`active` stands for starting, running and unknown; the idle period is `touched` until
`GracePasses`; an archive damaged between its verification and the deletion is not modelled.

### RelayStaging (artifacts, planner, relay_worker)

Queued consumers, the dependencies they read, the nodes that hold copies. `StartRelay` is
`start_dependency` for one (consumer, input, node) with `reserve_transfer_slots` and
`_reserve_relay_intent`; `Reconcile` is `reconcile_transfers`; `Place` is the planner's admission,
with a pool that changes with the load; `RetireOrigin` is the effect of the cleanup lane.
`Lacking` is the admission test and `Missing` the staging test: two different functions of the
planner, modelled apart because they disagree. The consumers are GPU jobs, nodes
share no storage domain, and every gate that does not concern inputs is assumed to open.

### HostPreparation (execution_profiles, resources, planner)

One queued experiment that needs an execution profile and a replica, and the hosts that may be
prepared for it. `db` is the registry: specs (address, enabled, which assets), snapshots, the
record of each replica and profile, and the preparation jobs with the run of their last
attempt. `disk` is what really lies on which machine, `validated` what really passed on a GPU, `unavailable` the hosts
(and the coordinator, on which copies run) that were given up.

| Definitions | Code |
|---|---|
| `Probed`, `Expired` | `refresh` and the agent's asset probe; `refresh_expired` |
| `Reconciled`, `Launches` | as in AttemptLifecycle, for preparation jobs and the experiment |
| `Wanted`, `Recovered`, `ExecutionTick` | `execution_profiles.tick`: demand, preparation job, validation job, retries after a CUDA check, admission |
| `Rechecked`, `Verified`, `Located`, `MayCopy`, `Requested` | `resources.tick`: loss of a marker, receipts, demand and copies |
| `Placeable` | the gates of `fit` on health, profile and replica |
| `Tick` | one tick under the registry lock, in the order of `Controller.tick` |
| `TransferEnds`, `ValidationEnds`, `RunFails` | the ends of copies, preparations and validations; a run fails, or is lost: reserved and never launched, or its runner died, so that its status stays unknown |
| `GiveUp` | `node_health` gives a machine up: its active preparations are blocked, or, where reservations are preserved, left as they are; late results are ignored |
| `RuntimeBreaks`, `RuntimeHeals`, `FileLost` | GPUs and disks, at any time |
| `RegisterNode`, `DrainNode`, `EnableNode`, `ReadmitNode`, `CancelPending`, `RetryFailed` | operators, between ticks |

The experiment has no host list and requires a profile everywhere (`execution_preparation_catalog`); the
coordinator is always registered and enabled, but its slots may be full. A tick reads the disks
once or twice and does not overlap with a worker's end: what changes between the last probe and the launch is left
to the agent's own check of its inputs. Snapshot ages and the 60 s delays only postpone steps. Hosts that were given up are not
probed; the D-state hold of an earlier release, which is, is a host whose probe fails.

One assumption is not in the code: a file reaches an address by a preparation made for that address. Two addresses of one
machine may share a disk, and a profile found there without a preparation of its own would then stand for the validation at
the other address; `LaunchedWhereVerified` does not speak of that.

### CampaignAlerts and AlertOutbox (notifications)

CampaignAlerts is one campaign: jobs, failures and transfers move between polls (`StudyNext`), and
`Poll` is `poll_campaigns` up to its delivery: it compares what it observes with the
`campaign_runtime` row and queues or supersedes alerts. `NewAlerts` lists them in the order of
the code; `Announce` drops an alert whose id exists (`Known`). `Retire` is the day after which a failed campaign is left alone.
A training job's readiness is a value of its status; an attempt is named by the number of failures before it.

AlertOutbox is the outbox below it, for any number of processes that deliver: read what is due and resolve
routes (`BeginDelivery`), lease (`Claim`), and for each row look again (`Recheck`), post (`Accept`,
`Refuse`), acknowledge or back off (`Acknowledge`, `Fail`). `Die` kills a process with its leases. `Poll` there says
only what delivery relies on: an episode of errors starts with an error alert, and its end supersedes what is open.
`CampaignAlerts!ImplementsOutbox` is the refinement (alert rows → `outbox`, runtime state → `inError`).
`posted` and `over` are history.

Blocked and cancelled jobs, replaced jobs, external campaigns and rows of earlier releases are not in the
model; an error is its job and status, without the reason; the code keeps eight errors, the model has fewer.

### Instances and proofs

`MCAttemptLifecycle`, `MCNodeHealth`, `MCRelayStaging`, `MCCampaignAlerts` and `MCHostPreparation`
hold only values of constants and symmetry sets. Eight modules hold the theorems and their proofs, each named after the
component it extends: `AttemptLifecycleProofs` (with the refinement of ResultAuthority), `NodeHealthProofs`, `OomRecoveryProofs`,
`AttemptArchiveProofs`, `RelayStagingProofs`, `AlertOutboxProofs`, `CampaignAlertsProofs` (with the refinement of AlertOutbox)
and `HostPreparationProofs`.

## 3. Runs

| Run | Question | Instance | Size |
|---|---|---|---|
| `lifecycle_failover` | Does the registry stay consistent and within its retry budgets, and when may two executions overlap? | one failover-safe local job registered with 2 attempts, one host, 2 attempt ids, one failover of each kind, one operator grant | 1.5 M states |
| `lifecycle_unsafe` | Jobs that must not overlap: never? Are verdicts backed by the host? Is the abstract specification implemented, dependencies included? | a validation job that is not failover-safe and a job depending on it, 2 attempt ids, one validation retry | 640 k |
| `lifecycle_progress` | With an operator adding order dependencies: are they settled under everything that runs, and is what has ended, or lies on a host that was given up, released in the end, held jobs apart? | two independent jobs, one of them held, one host, one attempt id | 80 k, with liveness |
| `health` | Is a streak made of independent polls, is the budget spent on schedule before a host is given up, and is `readmit-node` then the way back? | 3 rounds of 2 retries at 0, 3 and 5 s, gaps of 2 and 3 s, 2 boots, clock up to 15 s | 190 k |
| `oom` | Over which processes may an attempt be settled; is an OOM recorded that the logs go on showing; does a hold end? | all three causes, logs that scroll and reads that fail, 2 cleanups, 1 crash | 38 k, with liveness |
| `oom_survivors` | The same for an OOM known from the kernel journal only | one cause | violated (5.1) |
| `archive` | Does the cleanup lane delete what someone reads or what was not archived; does it finish? | 1 consumer, 1 relay destination, 1 retry, 2 revisions | 150 k, with liveness |
| `relay` | Copies under way, backed intents, causes of starvation | 2 consumers (one with both inputs, one sharing an input), 2 nodes, 2 slots, 2 failures per relay, 1 failing worker, lost launches | 70 k, with liveness |
| `relay_retired` | Does the archived copy of a retired input arrive? | 1 consumer with both inputs, nothing fails | violated (5.2) |
| `outbox` | Is an alert posted twice, too late, or never? | 2 processes, error and complete alerts, 3 alerts, batches of 2, an error route that comes and goes, 1 crash or lost answer | 96 k, with liveness |
| `alerts` | Is every error episode, recovery and completion announced; do polls keep to what AlertOutbox assumes? | a training and an evaluation job, 2 faults | 69 k, with liveness |
| `preparation` | Does the experiment start on unverified hosts; do copies exceed their limits; does it starve without a reason? | 2 hosts, 1 preparation at a time, 2 copies, 1 validation retry, 2 disturbances (a lost run, a lost file, a host given up …) | 172 k, with liveness |

### Bounds, and why they are enough

* `Attempts` bounds the launches of a run. Every property of AttemptLifecycle is about one attempt or
  a pair, and two ids give a late execution and its successor.
* `MaxFailovers` (3 and 2 in the code) and `MaxAttempts` are 1 or 2: the arithmetic is about the
  *next* attempt, and a limit of 1 is reached in every branch. `MaxGrants` bounds operator grants only.
* `RetryBudget` replaces 4 × 3 failed probes; NodeHealth carries the schedule, with three unequal
  rounds of two so that the round of a retry, and its position in it, matter.
* `Horizon` ends the clock of NodeHealth after a complete cycle of budget, quarantine and
  return. Times are small multiples that keep the order of the code's constants
  (count gap < offsets, publication gap = count gap).
* `MaxCrashes` bounds controller crashes in OomRecovery; a second crash finds the row in a state
  the first one could have left. Crashes in AttemptLifecycle are not bounded.
* AttemptLifecycle runs use one host: two hosts with two attempts exceed what can be enumerated. Hosts share no state but the queue,
  and a late execution overlaps with its successor on one host as on two.
* `MaxLosses` bounds crashes of a sender and `MaxAlerts` the rows: a lost answer, its repetition and a
  second episode fit. `Batch` (8 in the code) is 2, so that a delivery is crowded by three alerts.
* `MaxFaults` in `alerts` allows a second failure while the first is being recovered; `MaxAlerts` there is never reached.
* `MaxDisturbances` counts faults, operators' commands, unreachable probes and full coordinators together: one
  disturbance and what it meets. `MaxCopies` (3) and `MaxRecoveries` (2) are one less than in the code, so that they are used up.
* `MaxCleanups` is the code's 2. `MaxRev` bounds the writes to a directory after its archive.
* `MaxFails` (3 in the code) and `MaxFaults` bound failing relays: the relay run lets one worker fail below the limit of
  two, in `archive` the first failure exhausts the retries. `MaxLive` is 24 in the code, 2 here, so that the slots do run out.
* Symmetry is used in runs without liveness only: attempt ids, hosts, boot ids.
* Deadlock is checked except in `oom`, `alerts` and `preparation`, where a settled attempt, a complete
  campaign or a finished experiment without disturbances left is the end.

## 4. Fairness

* **AttemptLifecycle** (`FairSpec`): the daemon's loop runs every tick to its end (weak
  fairness of `ControllerNext`; each loop is bounded by `max_launches`, one revalidation and
  the rows it started from). Strong fairness of a tick in which every probe answers, of a
  status batch that answers and of a final report that is taken at its word says that hosts are not
  unreachable at every single moment for ever. Both liveness properties assume
  `StaysUp`: the controller is not killed for ever. Nothing is assumed of remote processes,
  operators or hosts.
* **OomRecovery**: ticks recur and end, and a status read succeeds again and again. Nothing is
  assumed of cleanups or process exits: `HoldEnds` speaks of the state without processes.
* **AttemptArchive**: strong fairness of the cleanup lane's steps, which restarts interrupt; every call has a timeout, so a pending deletion
  ends. `CleanupFinishes` is conditional on readers and open files going away for good.
* **RelayStaging**: workers end, a status of a relay is read now and then, ticks begin and
  end, and a start that is possible again and again is done. Nothing forces the pool to
  contain a reserved node; the property states that as its premise.
* **AlertOutbox**: every process goes on with its delivery and starts another (the daemon polls in every
  cycle); leases and backoffs end, being times; Slack accepts an alert that is offered again and again (strong fairness
  of `Posts`). Nothing is assumed of routes. A process may die, boundedly often.
* **CampaignAlerts**: polls recur. Nothing is assumed of jobs or transfers; `CompletionIsAnnounced` is conditional on the work being done.
* **HostPreparation**: ticks in which every host answers and the coordinator has a slot recur. Copies and preparations that were
  launched end: `resource_worker.py:131` sets an alarm of 3600 s, and each command of `execution_worker.py` has a limit of 600 or
  3600 s. Nothing is assumed of validations, which are waited for without a limit (`agent.py:954`), of lost runs, operators, GPUs
  or disks.

## 5. Disagreements found

Each is the one property of a violation run; `PROJECT.json` quotes both sides.

1. **An OOM known from the kernel journal only is forgotten** (`controller.py:404`). One
   unreadable status replaces the stored report, and with it the process observation without
   which the journal is not asked. The attempt is then settled with owned processes alive.
2. **A consumer held to a node whose directory is retired is neither started nor served**
   (`planner.py:312`): the staging test counts the retired origin as present, the admission
   test does not. `docs/ATTEMPT_ARCHIVE.md:27` promises the relay.

Noticed while modelling, without a run of their own:

* An OOM known from a *log* can be forgotten too, and over its process group (`agent.py:647`). The logs are searched anew by every
  read, in their last 64 KiB, and a read error is passed over (`agent.py:692–723`). When the message has gone by the time of the
  cleanup, `recover_oom` returns the plain failure without a look at the group, and the attempt is released; `docs/OOM_RECOVERY.md:24`
  says that only verified termination permits failover. A status read does look at the group, and what is settled *as* an OOM
  has no process left: `SurvivorsHold`, which names the exception. An OOM that the logs go on showing is safe: `LoggedOomIsClassified`.
* A node that was given up can return without `readmit-node` (`draining.py:42`): drained under a
  GPU-runtime quarantine it becomes `publication_only` at its first stable probes, and `enable-node` then admits it.
  `docs/CONFIGURATION.md:384` and the comment at `states.py:35` say that only the operator's readmission
  lifts the verdict. `ReadmissionRequired` holds with this one exception, which its history names.
* Uploads bind retired directories (`artifacts.py:874`), against the comment at `artifacts.py:532`: the upload fails, nothing
  is lost. `ReadersAvoidRetired` speaks of all other readers.
* `docs/STATE_MACHINE.md:109` says that a campaign staying in error sends nothing more when only the number of failed
  jobs changes; the code sends an alert whenever the errors change (`notifications.py:246`, as
  `tests/test_notification_routes.py` expects). `ErrorIsAnnounced` follows the code.
* `docs/STATE_MACHINE.md:96` calls an exhausted upload, or a node without upload configuration, an error; the code counts both
  as pending (`artifacts.py:1150–1155`), and the campaign is running for as long as that lasts.
* A training recovery first seen in the poll in which the whole campaign recovers takes the place of the campaign's
  notice (`notifications.py:284`), also when the jobs that failed were others: the exception in `RecoveryIsAnnounced`.
* Eight older alerts without a usable route keep younger ones with a route waiting (`notifications.py:444`): `Crowded` in `OpenAlertHasCause`.
* Replicas: a copy that ended after its host was re-registered at another address stays `verification_failed` and is never
  requested again; the limit of three copies counts all copies ever made for the host, so a replica lost after three is not
  restored; a lost profile file is never restored, only replicas are rechecked; a preparation that an operator had retried
  escapes `max_parallel` once it was superseded. A validation has no time limit, and one that hangs keeps its host unvalidated;
  a preparation that was reserved and not launched, or whose runner died, is unknown for ever and keeps its place in
  `max_parallel`, so that other hosts are not prepared either; a preparation blocked by the giving up of its machine is not
  repeated when the machine is readmitted. `Hopeless` and `Outstanding` name these.
* A job that may hold hardware keeps its reservation on a host that was given up, and its status is not read there: a run that
  has ended stays active until the host is readmitted (`controller.py:261`, `controller.py:301`). `Withheld` in `FinishedRunIsReleased`.
* "Two unsuccessful cleanups leave a manual-check hold" (`docs/OOM_RECOVERY.md`): the count is in the
  report that each tick replaces, so a dry run or an unreadable status starts it again.
* `docs/STATE_MACHINE.md:67` gives up a host after 600 s in D state; nodes under the scoped policy
  (`states.py:55–59`) wait without a limit.
* `docs/ATTEMPT_ARCHIVE.md:47` names two transfer slots; the code has 32 (`artifacts.py:725`).
* A cleanup cycle checks three archives, oldest first, and leaves each alone for 60 s
  (`artifacts.py:519`), while cycles are 30 s apart: half a dozen archives that never verify take every
  check. The comment at `artifacts.py:546` says that one such source "must not starve
  cleanup of independent archives". AttemptArchive follows one directory, and its fairness
  assumes that the lane comes to it.
* `StarvationHasCause` names all reasons for which staging may starve a consumer: a relay
  whose launch is lost stays unknown for ever; a reserved node runs out of retries, or the pool
  keeps choosing one that has; a copy on another node removes the demand while the intent
  still pins the consumer; and 5.2. Its premise covers a fifth: the demand scan ignores intents, so the pool may leave
  the reserved node out.

## 6. What is proved

Every safety invariant and every action property that a passing run checks is also a theorem, and both refinements are.
All theorems are of the form `Spec => ...` and hold for every value of the constants that satisfies the
named assumption of the module: any number of jobs, hosts, attempts, consumers, destinations or alerts, any limits, any schedule of retries.
The assumptions (`LifecycleAssumption`, `HealthAssumption`, `OomAssumption`, `ArchiveAssumption`, `StagingAssumption`,
`OutboxAssumption`, `AlertsAssumption`, `PreparationAssumption`) say that limits are natural numbers, that named sets are disjoint or
distinguishable and that the probe offsets of NodeHealth start at 0 and increase. Where things are counted they also say
that sets are finite: the attempts, the processes of AlertOutbox, the jobs of a campaign (at least one), and the hosts of HostPreparation, the elements of
the sequence `Order`. TLC evaluates every one of them on the runs.

Each proof has the same shape: an inductive invariant, a lemma for the initial states, one for each action or kind of
step, and a temporal step that combines them. What follows says why each invariant is more than the property.

### AttemptLifecycleProofs

* `TypeCorrect`: `Spec => []TypeOK`.
* `RegistryCorrect`: `Spec => []RegistryInv`, from which `AgreementHolds` (the two tables
  agree: `JobAttemptAgreement`), `BudgetHolds` (`QueuedJobHasBudget`), `DependenciesHold` (`DependenciesSettled`) and,
  step by step, `TransitionsObeyed` (`TransitionsLegal`).

`RegistryInv` adds three things to the properties. Agreement alone is not inductive: a report is applied
to an attempt chosen *before* other commits of the tick, and nothing in the transaction
looks at its status again. `LoopHoldsActive` says why this is safe: the attempts a loop has still
to handle are active, for what one iteration commits takes no other attempt of the loop out of the active statuses.
`AnswersPending` says that answers are held only while their loop runs, and that a launch
answers with an active status. `AttemptsHaveOwners` connects free ids to no job, which
the count of attempts needs. The lemmas `CommitAgrees`, `IdleJobAgrees`, `ReserveAgrees`,
`ReserveCounts` and `CountFrame` treat the three kinds of transaction (a verdict, a change of an idle job, a batch of reservations);
the remaining actions are frames.

* `RegistryKeepsResults`: `Spec => ImplementsResultAuthority`. Initial states map to initial
  states; a reservation maps to `Grant`, a commit to `Publish`, `Lose` or a stutter, operator
  commands to `Cancel`, `Reopen`, `AddGate`, everything else to a stutter. It uses `RegistryInv`: that the
  authority of a job is what the attempt table says is agreement, and that a grant meets no
  authority is the agreement of queued jobs.
* `ExecutionCorrect`: `Spec => [](RegistryInv /\ ExecutionInv)`, from which `ExecutionsSeparate` (`NoOverlap`), `VerdictsBacked`
  (`VerdictIsBacked`), `AttemptsExecuteOnce` (`ExecutedOnce`) and `ReconcileTotal` (`ReconcileNeverRaises`).

`ExecutionInv` follows a launch from the reservation to the child. `OnNode` is the order in which directory, runner and child of
an attempt claim one after the other, on a host that knows nothing of the registry. `LaunchesAreFresh` says that nothing leaves
for a host but what this very batch reserved. `FinalIsSettled` is the heart: a final report *in the memory of a tick* was
true when the host gave it and can only stay so, since a settled attempt has no claim left that a late process could take; the
verdict of the registry inherits it. What a forgotten OOM leaves behind (`LeftBehind`) is the one thing a settled attempt may still have: processes of the child, never
a launch or a runner. `RunningIsPast` excludes that a report falls back to `starting`, which is what makes
`reconcile` total. `InvalidEndsUnsafe` gives `NoOverlap`: without failover an attempt given up unseen is the last of its job.

### NodeHealthProofs

* `TypeCorrect`; `StreaksIndependent` (`StreakIsIndependent`), from `StreakInv`: the property says that *some* set of independent
  probes explains the streak; it is carried from poll to poll by naming that set below the time up to which polls are counted.
* `RecoveryCorrect`, from it `VerdictsBind` (`ReadmissionRequired`) and `QuarantinesEarned` (`QuarantineIsEarned`): `RecoveryIsCounted`
  ties `retries` and `next` of the row to the failed probes since the first, in the round the division by `PerRound` names;
  `VerdictStands` keeps the reason of an earlier release, which a probe does lift, apart from the verdict of the present rules.

### OomRecoveryProofs

* `ReportsTrue`: `Spec => []OomInv`, from it `TypeCorrect`, `SurvivorsAreHeld` (`SurvivorsHold`) and `LoggedOomsClassified`
  (`LoggedOomIsClassified`). The invariant has to speak of the report being classified as well as of the stored one, for a
  crash leaves the latter: what either says (`Sound`) is true of the run; one that settles the attempt as an OOM (`Settles`) finds
  nothing of it alive that could come back, and one that settles it plainly finds its group gone, unless a cleanup was asked for and
  the log that had shown the OOM does not show it again. Both exceptions are of the code: that they are as narrow is what is proved.
  `LoggedOomsClassified` is proved under its premise, that logs show the OOM in every state of the behaviour.

### AttemptArchiveProofs

* `ArchiveCorrect`: `Spec => []ArchiveInv`; from it `TypeCorrect`, `DeletionLosesNothing`
  (`ArchiveHoldsLastRevision`), `ReadersKeepSource` (`SourceOutlivesReaders`) and
  `RetiredGetsNoReaders` (`ReadersAvoidRetired`).

`CleanupOrder` is the argument of the cleanup lane: archived, then retired with nobody
reading, then a deletion request, then a deleted directory; a request that outlives its
caller is covered because retirement is never taken back. It is inductive only with
`ViewKnowsArchive`: the transfer lane may work from a view older than the *retirement*, but never
from one older than the *archive*, since the archive row is reconciled by the lane itself and the view is read after;
so the lane already takes the copy when the directory is retired. `WorkerIsTracked` keeps a
second archive worker from overwriting the archived revision, `FailuresCounted` bounds the
retries for the types.

### RelayStagingProofs

* `StagingCorrect`: `Spec => []StagingInv`, from it `TypeCorrect`, `CopiesAreDistinct` (`OneCopyUnderWay`), `ReservationsAreBacked`
  (`PendingIsBacked`) and `RetriesWithinBudget` (a bound on the relays of a dependency to a node, which no run checks).

One tick reserves many relays from one view. `ViewIsCurrent` is why that is safe: what is *live* in the view is exactly what
is live in the registry, because starts add to both and reconciliation precedes the view; the *history* may lag, but
only by rows that are under way, each of which the slots and the distinctness of copies already count.

### AlertOutboxProofs

* `OutboxCorrect`: `Spec => []OutboxInv`, from it `TypeCorrect`, `AlertsPostedOnce` (`PostedOnce`) and, as an action property,
  `ErrorsPostedInTime` (`ErrorIsCurrent`).

A row is safe from a second post because it is held by one process under the delivery lock (`OneDelivers`) and was leased
before (`HeldIsLeased`); `PostedIsKnown` accounts for each post, between Slack's answer and the acknowledgement too.
`OpenErrorIsCurrent` says that only the end of an episode takes errors out of the open rows, all at once.

### CampaignAlertsProofs

* `AlertsCorrect`: `Spec => []AlertsInv`, from it `ErrorsAnnounced` (`ErrorIsAnnounced`) and `RecoveriesAnnounced` (`RecoveryIsAnnounced`).
* `AlertsReachTheOutbox`: `ImplementsOutbox`, a poll mapping to a `Poll` of AlertOutbox (or a stutter) with its delivery idle. Its
  hypothesis `[](Len(alerts) <= MaxAlerts)` is the bound AlertOutbox puts on its rows for model checking; the code has none.

An alert whose id exists is dropped without a word. `IdsAreOld` and `RecoveryIsDated` are why none that matters is: ids in use name
generations, recoveries and attempts that are past, and a poll that announces something has just moved on from them.

### HostPreparationProofs

* `HostsCorrect`: `Spec => []HostsInv`, from it `PreparationsWithinLimits` (`PreparationsBounded`) and, with what a tick sees on its
  way, `LaunchesVerified` (`LaunchedWhereVerified`).

A tick is a composition of six functions of the registry. Each has a lemma that it keeps the registry `Sound` and what the probes report
true (`Seen`), so a launch at the end of the tick rests on probes of that tick although profiles and
replicas were admitted, retried and requested in between. `ValidationsBacked` and `ProfilesValidated` tie a passed
validation to the address of the recipe, through `ProfilesAtRecipe`: a host that was registered at another address has no profile
to pass with. A run that is lost, hangs or is blocked moves no file and no validation, so it changes what
is counted only. `CopiesLast` and `OnePreparation` make the count of waiting jobs a count of hosts, which is what `Granted` counts
against `max_parallel` (`GrantedFacts`).

### Only model-checked

* Liveness: `QuarantineResolves`, `FinishedRunIsReleased`, `HoldEnds`, `CleanupFinishes`, `StarvationHasCause`,
  `OpenAlertHasCause`, `CompletionIsAnnounced`, `StarvesOnlyWithCause`. Proofs from fairness need ENABLED, which the prover does not treat.
* The two violations of section 5 are counterexamples, not theorems.


## 7. What is not modelled, and why

* *Placement arithmetic* (`fit` beyond its gates, `gpu_placement_key`, VRAM/RAM/temperature
  policies): it only chooses among placements the gates permit. Planned as a pure module, together with startup groups and the `released` flag.
* *publication_only hosts in AttemptLifecycle*: NodeHealth has them; they take no new work and their attempts reconcile as on any other host.
* *The preflight child* of `run`: part of `StartChild` and `RunnerError` (a failing preflight never starts the child).
* *`requeue_dependency_blocked`*: it needs a block reason that nothing under `src/` writes.
* *Warm-up launches, launch time budgets*: they only end the launch loop earlier (`EndLaunches` may at any time).
* *Archive lane slots and rate-limit pacing of uploads*: RelayStaging has the dependency slots, which share the pool.
* *Storage domains, CPU-only consumers* in RelayStaging.
* *Receipts of older releases* that do not cover all outputs (`store.py:519`).
* *Dataset preparations* (`datasets.py`): the pattern of HostPreparation with a worker of its own; a ready dataset is never
  rechecked and a failed one is retried by operators only.
* *Progress reports* (`progress_notifications.py`): a second outbox in a database of its own, claimed and acknowledged like the first.
* *Resource budgets, the cache of ready profiles, exclusion lists, displayed states of records* in HostPreparation: they
  refine which host is chosen, or are recomputed in every tick.
* *Schema validation, read-only views, the hub workers*: pure checks, pure reads, pure I/O; their outcome is an input of the models.

## 8. Plan

Done, in this order: AttemptLifecycle with ResultAuthority (the core: one authority per job
under crashes and lost answers), NodeHealth (the health it relies on), OomRecovery (the one
verdict that needs memory), AttemptArchive and RelayStaging (the two lanes beside the daemon),
AlertOutbox with CampaignAlerts (what researchers are told), HostPreparation (where experiments
may run at all); the proofs of section 6.

Next:

1. An abstract specification of the archive (a directory and its copy as one value that is never lost), implemented by
   AttemptArchive, proved from `ArchiveInv`.
2. Refinements that connect the components: that the health AttemptLifecycle works with (`ObservedPhase`) is NodeHealth's without
   its clock, and that OomRecovery's reports are among those AttemptLifecycle's nodes give.
3. `Placement`: `fit` as operators over small hosts against a reference definition (no host overcommitted by what is
   reserved, startup groups serialised, the `released` flag), and the reservation batch that composes it with AttemptLifecycle.
4. `CleanupQueue`: several archives in the order of the cleanup query, to settle the starvation of section 5.
