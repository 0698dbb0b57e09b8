-------------------------- MODULE AttemptLifecycle --------------------------
(***************************************************************************)
(* Jobs, attempts and nodes of the research scheduler: the control-plane   *)
(* registry (SQLite rows of jobs, attempts and node_health), the           *)
(* controller that works on it under the registry lock, the launch RPCs    *)
(* that leave the control machine, and the attempt directory, runner and   *)
(* child process on the node an attempt was reserved for.                  *)
(*                                                                         *)
(* The controller commits one transaction at a time and may die between    *)
(* any two of them; remote processes, hosts and RPCs move on by            *)
(* themselves.  Operator commands take the same registry lock as a tick,   *)
(* so they run only while no tick does.                                    *)
(***************************************************************************)
EXTENDS Naturals, FiniteSets

CONSTANTS
  Jobs,          \* registered jobs
  Nodes,         \* registered nodes
  Attempts,      \* pool of attempt ids; its size bounds the launches
  None,          \* no job / no node
  MaxAttempts,   \* [Jobs -> Nat]: max_attempts a job is registered with
  FailoverSafe,  \* jobs registered with failover_safe
  Held,          \* jobs whose attempts hold RTL tools, tokens or a physical host
  LocalCompute,  \* train / eval / prepare jobs without tokens
  Models,        \* train / eval jobs, whose failures may be out-of-memory
  Validations,   \* the scheduler's own validation jobs of a prepared host
  DependsOn,     \* [Jobs -> SUBSET Jobs]: depends_on at registration
  RetryBudget,   \* failed recovery probes that make a node unavailable (4 x 3)
  MaxFailovers,  \* automatic failovers of one kind per job (3, validation 2)
  MaxGrants      \* operator retry-failed commands per job; bounds the model

ASSUME LifecycleAssumption ==
  /\ IsFiniteSet(Attempts)
  /\ None \notin Jobs \cup Nodes \cup Attempts
  /\ MaxAttempts \in [Jobs -> Nat \ {0}]
  /\ FailoverSafe \subseteq Jobs
  /\ Held \subseteq Jobs
  /\ LocalCompute \subseteq Jobs
  /\ Models \subseteq Jobs
  /\ Validations \subseteq Jobs
  /\ DependsOn \in [Jobs -> SUBSET Jobs]
  /\ RetryBudget \in Nat \ {0}
  /\ MaxFailovers \in Nat
  /\ MaxGrants \in Nat

VARIABLES
  jstatus,    \* [Jobs -> JobStatus]          jobs.status
  maxatt,     \* [Jobs -> Nat]                jobs.spec.max_attempts
  failovers,  \* [Jobs -> [FailoverKind -> Nat]]  failover history in metadata
  granted,    \* [Jobs -> Nat]                attempts added by retry-failed
  depends,    \* [Jobs -> SUBSET Jobs]        jobs.spec.depends_on
  owner,      \* [Attempts -> Jobs + None]    attempts.job
  host,       \* [Attempts -> Nodes + None]   attempts.node
  astatus,    \* [Attempts -> AttemptStatus]  attempts.status
  phase,      \* [Nodes -> Phase]             node_health.phase
  retries,    \* [Nodes -> Nat]               node_health.retries_done
  pc,         \* where the controller is inside a tick; "idle" without the lock
  after,      \* where the current loop of the tick returns to
  todo,       \* attempts the current loop has still to handle
  report,     \* [Attempts -> Report]         RPC results held in memory
  launched,   \* attempts launched by this tick
  wire,       \* [Attempts -> Wire]           the launch RPC of an attempt
  receipt,    \* [Attempts -> Receipt]        attempt directory on the node
  fresh,      \* [Attempts -> BOOLEAN]        receipt written under the current boot
  runner,     \* [Attempts -> Runner]         the detached runner process
  child,      \* [Attempts -> Child]          the scientific process group
  spawns      \* [Attempts -> Nat]            children started for the attempt

registry == <<jstatus, maxatt, failovers, granted, depends, owner, host, astatus>>
health   == <<phase, retries>>
control  == <<pc, after, todo, report, launched>>
remote   == <<wire, receipt, fresh, runner, child, spawns>>
vars     == <<registry, health, control, remote>>

-----------------------------------------------------------------------------
(* Values.                                                                 *)

Active          == {"starting", "running", "unknown"}
JobStatus       == Active \cup {"queued", "succeeded", "failed", "cancelled", "blocked"}
AttemptStatus   == Active \cup {"free", "succeeded", "failed", "invalid"}
FailoverKind    == {"experiment_oom", "gpu_startup_unavailable", "validation_recovery"}
\* "unproven": reachable or never probed, but not (yet) admissible;
\* "dhold": a D-state-only unavailability stored by an earlier release.
Phase           == {"unproven", "healthy", "ssh_retrying", "unavailable", "dhold"}
ProbeResult     == {"ok", "unstable", "error"}
Report          == Active \cup {"none", "succeeded", "failed"}
\* "empty": directory without state.json; the rest is the status in state.json.
Receipt         == Active \cup {"absent", "empty", "succeeded", "failed"}
\* "idle": not sent yet; "over": answered and consumed, or lost.
Wire            == {"idle", "sent", "answered", "over"}
\* "working" up to the start of the child, "watching" it from then on.
Runner          == {"none", "pending", "working", "watching", "gone"}
Child           == {"none", "live", "gone"}
Terminal        == {"succeeded", "failed"}

(* ATTEMPT_TRANSITIONS and JOB_TRANSITIONS.  Here and below, a definition    *)
(* ending in _Mutant breaks the one after it the way a bug would; the runs   *)
(* do not use it.                                                            *)
AttemptNext_Mutant(s) == IF s \in Active THEN {"running", "unknown", "failed", "invalid"} ELSE {}

AttemptNext(s) ==
  CASE s = "starting" -> {"running", "unknown", "succeeded", "failed", "invalid"}
    [] s = "running"  -> {"unknown", "succeeded", "failed", "invalid"}
    [] s = "unknown"  -> {"starting", "running", "succeeded", "failed", "invalid"}
    [] OTHER          -> {}

JobNext(s) ==
  CASE s = "queued"   -> {"starting", "cancelled"}
    [] s = "starting" -> {"running", "unknown", "succeeded", "failed", "queued", "blocked"}
    [] s = "running"  -> {"unknown", "succeeded", "failed", "queued", "blocked"}
    [] s = "unknown"  -> {"starting", "running", "succeeded", "failed", "queued", "blocked"}
    [] s = "failed"   -> {"queued"}
    [] OTHER          -> {}

\* transition() raises on anything else, which aborts the tick.
AttemptMay(before, to) == to = before \/ to \in AttemptNext(before)
JobMay(before, to)     == to = before \/ to \in JobNext(before)

Larger(m, n)  == IF m < n THEN n ELSE m
AttemptsOf(j) == {a \in Attempts : owner[a] = j}
Count(j)      == Cardinality(AttemptsOf(j))
ActiveAttempts == {a \in Attempts : astatus[a] \in Active}

-----------------------------------------------------------------------------
(* Initial states: freshly registered jobs, or a registry taken over from  *)
(* an earlier release in which one attempt was running on a node that the  *)
(* old D-state rule had declared unavailable.                              *)
FreshRegistry ==
  /\ jstatus = [j \in Jobs |-> "queued"]
  /\ owner   = [a \in Attempts |-> None]
  /\ host    = [a \in Attempts |-> None]
  /\ astatus = [a \in Attempts |-> "free"]
  /\ phase   = [n \in Nodes |-> "unproven"]
  /\ receipt = [a \in Attempts |-> "absent"]
  /\ runner  = [a \in Attempts |-> "none"]
  /\ child   = [a \in Attempts |-> "none"]
  /\ spawns  = [a \in Attempts |-> 0]

InheritedRegistry ==
  \E a \in Attempts, j \in Jobs, n \in Nodes :
    /\ DependsOn[j] = {}
    /\ jstatus = [i \in Jobs |-> IF i = j THEN "running" ELSE "queued"]
    /\ owner   = [b \in Attempts |-> IF b = a THEN j ELSE None]
    /\ host    = [b \in Attempts |-> IF b = a THEN n ELSE None]
    /\ astatus = [b \in Attempts |-> IF b = a THEN "running" ELSE "free"]
    /\ phase   = [m \in Nodes |-> IF m = n THEN "dhold" ELSE "unproven"]
    /\ receipt = [b \in Attempts |-> IF b = a THEN "running" ELSE "absent"]
    /\ runner  = [b \in Attempts |-> IF b = a THEN "watching" ELSE "none"]
    /\ child   = [b \in Attempts |-> IF b = a THEN "live" ELSE "none"]
    /\ spawns  = [b \in Attempts |-> IF b = a THEN 1 ELSE 0]

Init ==
  /\ FreshRegistry \/ InheritedRegistry
  /\ maxatt    = MaxAttempts
  /\ failovers = [j \in Jobs |-> [k \in FailoverKind |-> 0]]
  /\ granted   = [j \in Jobs |-> 0]
  /\ depends   = DependsOn
  /\ retries   = [n \in Nodes |-> 0]
  /\ pc = "idle" /\ after = "idle" /\ todo = {} /\ launched = {}
  /\ report    = [a \in Attempts |-> "none"]
  /\ wire      = [a \in Attempts |-> "idle"]
  /\ fresh     = [a \in Attempts |-> TRUE]

-----------------------------------------------------------------------------
(* Node health.                                                            *)

\* observe_health() for the probe result r of node n.
ObservedPhase(n, r) ==
  CASE r = "ok"       -> "healthy"
    [] r = "unstable" -> "unproven"
    [] r = "error"    -> IF phase[n] = "dhold" THEN "dhold"
                         ELSE IF phase[n] = "ssh_retrying" /\ retries[n] + 1 >= RetryBudget
                         THEN "unavailable"
                         ELSE "ssh_retrying"

ObservedRetries(n, r) ==
  IF r = "error" /\ phase[n] = "ssh_retrying" THEN retries[n] + 1 ELSE 0

\* Probe any set of nodes whose next retry may be due, commit their health.
Refresh ==
  \E due \in SUBSET {n \in Nodes : phase[n] # "unavailable"} :
    \E result \in [due -> ProbeResult] :
      /\ phase'   = [n \in Nodes |-> IF n \in due THEN ObservedPhase(n, result[n]) ELSE phase[n]]
      /\ retries' = [n \in Nodes |-> IF n \in due THEN ObservedRetries(n, result[n]) ELSE retries[n]]

-----------------------------------------------------------------------------
(* The controller.                                                         *)

\* tick() takes the registry lock, probes and enters invalidate_unavailable().
BeginTick ==
  /\ pc = "idle"
  /\ Refresh
  /\ pc' = "invalidate" /\ after' = "reconcile" /\ todo' = ActiveAttempts /\ launched' = {}
  /\ UNCHANGED <<registry, report, remote>>

\* Before a launch the candidate nodes are probed again.
RefreshBeforeLaunch ==
  /\ pc = "launch"
  /\ Refresh
  /\ pc' = "invalidate" /\ after' = "launch" /\ todo' = ActiveAttempts
  /\ UNCHANGED <<registry, report, launched, remote>>

Unavailable_Mutant(n) == phase[n] = "dhold"
Unavailable(n) == phase[n] \in {"unavailable", "dhold"}
Failover_Mutant(j) == j \in FailoverSafe /\ Count(j) <= maxatt[j]
Failover(j)        == j \in FailoverSafe /\ Count(j) < maxatt[j]

\* Write one attempt and its job in one transaction.
Commit_Mutant(a, s, js) ==
  /\ astatus' = [astatus EXCEPT ![a] = s]
  /\ jstatus' \in {jstatus, [jstatus EXCEPT ![owner[a]] = js]}
Commit(a, s, js) ==
  /\ astatus' = [astatus EXCEPT ![a] = s]
  /\ jstatus' = [jstatus EXCEPT ![owner[a]] = js]

\* One iteration of the loop in invalidate_unavailable().
InvalidateUnavailable(a) ==
  /\ pc = "invalidate" /\ a \in todo
  /\ todo' = todo \ {a}
  /\ \/ /\ ~Unavailable(host[a]) \/ owner[a] \in Held
        /\ UNCHANGED <<jstatus, astatus>>
     \/ /\ Unavailable(host[a]) /\ owner[a] \notin Held
        /\ phase[host[a]] = "dhold" /\ ~Failover(owner[a])
        /\ Commit(a, "unknown", "unknown")
     \/ /\ Unavailable(host[a]) /\ owner[a] \notin Held
        /\ phase[host[a]] = "unavailable" \/ Failover(owner[a])
        /\ LET js == IF Failover(owner[a]) THEN "queued" ELSE "blocked"
           IN  /\ AttemptMay(astatus[a], "invalid") /\ JobMay(jstatus[owner[a]], js)
               /\ Commit(a, "invalid", js)
  /\ UNCHANGED <<maxatt, failovers, granted, depends, owner, host, health,
                 pc, after, report, launched, remote>>

\* Enter reconcile(): attempts on nodes in recovery get a synthetic report,
\* the status of the others is about to be requested.
StartReconcile(set, return) ==
  /\ pc' = "reconcile" /\ after' = return /\ todo' = set
  /\ report' = [a \in Attempts |->
                  IF a \in set /\ (Unavailable(host[a]) \/ phase[host[a]] = "ssh_retrying")
                  THEN "unknown" ELSE "none"]

EndInvalidate ==
  /\ pc = "invalidate" /\ todo = {}
  /\ IF after = "reconcile"
     THEN StartReconcile(ActiveAttempts, "launch")
     ELSE pc' = after /\ UNCHANGED <<after, todo, report>>
  /\ UNCHANGED <<registry, health, launched, remote>>

\* read_status() on the node: what the attempt directory and /proc establish.
ReadStatus_MutantNoGroupCheck(a) ==
  IF receipt[a] \in Terminal THEN receipt[a]
  ELSE IF runner[a] \in {"working", "watching"} /\ receipt[a] \in Active THEN receipt[a] ELSE "unknown"
ReadStatus_MutantDeadRunner(a) ==
  IF receipt[a] \in Terminal /\ child[a] # "live" THEN receipt[a]
  ELSE IF runner[a] \in {"working", "watching"} /\ receipt[a] \in Active THEN receipt[a] ELSE "failed"
ReadStatus_MutantRunnerFirst(a) ==
  IF runner[a] \in {"working", "watching"} /\ receipt[a] \in Active THEN receipt[a] ELSE "unknown"
ReadStatus(a) ==
  LET rebooted == ~fresh[a] /\ owner[a] \in LocalCompute
  IN  CASE receipt[a] \in {"absent", "empty"} -> "unknown"
        [] receipt[a] \in Terminal -> IF rebooted \/ child[a] # "live" THEN receipt[a] ELSE "unknown"
        [] receipt[a] \in Active   -> IF rebooted THEN "failed"
                                     ELSE IF runner[a] \in {"working", "watching"} THEN receipt[a]
                                     ELSE "unknown"

Unread(n) == {a \in todo : host[a] = n /\ report[a] = "none"}

\* One status_batch RPC per node.  A batch that fails answers for no attempt, a
\* receipt that cannot be read, or an OOM whose processes still live, not for
\* its own.
ReadNode(n) ==
  /\ pc = "reconcile"
  /\ Unread(n) # {}
  /\ \E answered \in SUBSET Unread(n) :
       report' = [a \in Attempts |-> CASE a \notin Unread(n) -> report[a]
                                       [] a \in answered     -> ReadStatus(a)
                                       [] OTHER              -> "unknown"]
  /\ UNCHANGED <<registry, health, pc, after, todo, launched, remote>>

\* A model's run that failed: it may have been an OOM whose processes still live.
MayBeOom(a) == owner[a] \in Models /\ receipt[a] = "failed"

\* What reconcile() makes of the report of a: a stale heartbeat, or a success whose
\* outputs or dependency manifest cannot be confirmed, becomes unknown.  Of an OOM
\* with survivors it asks the agent for a cleanup, which answers failed when they
\* are gone, or when it does not find the OOM again (OomRecovery).
Verdicts(a) ==
  {report[a]} \cup (IF report[a] \in {"starting", "running", "succeeded"} THEN {"unknown"} ELSE {})
              \cup (IF report[a] = "unknown" /\ MayBeOom(a) THEN {"failed"} ELSE {})

\* retry_spec(): the failover counters and max_attempts after a failure with
\* c attempts made - an ordinary failure, a GPU that never started, an OOM.
RetrySpecs_MutantNoLimit(j, c) ==
  {[used |-> [failovers[j] EXCEPT !["experiment_oom"] = @ + 1], limit |-> Larger(maxatt[j], c + 1)]}
RetrySpecs(j, c) ==
  LET f == failovers[j]
      Spend(k, limit) == [used |-> [f EXCEPT ![k] = @ + 1], limit |-> limit]
      more == Larger(maxatt[j], c + 1)
  IN  {[used |-> f, limit |-> maxatt[j]]}
      \cup (IF f["gpu_startup_unavailable"] < MaxFailovers
            THEN {Spend("gpu_startup_unavailable", more)} ELSE {})
      \cup (IF f["experiment_oom"] < MaxFailovers
            THEN {Spend("experiment_oom", more), Spend("experiment_oom", c)}
            ELSE {[used |-> f, limit |-> c]})

AllReported == \A b \in todo : report[b] # "none"

\* One iteration of the loop in reconcile(): attempt a gets verdict v.
ApplyReport(a, v) ==
  /\ pc = "reconcile" /\ a \in todo /\ AllReported
  /\ v \in Verdicts(a)
  /\ AttemptMay(astatus[a], v)
  /\ \/ /\ v # "failed"
        /\ JobMay(jstatus[owner[a]], v)
        /\ Commit(a, v, v)
        /\ UNCHANGED <<maxatt, failovers>>
     \/ /\ v = "failed"
        /\ \E retry \in RetrySpecs(owner[a], Count(owner[a])) :
             LET js == IF Count(owner[a]) < retry.limit THEN "queued" ELSE "failed"
             IN  /\ JobMay(jstatus[owner[a]], js)
                 /\ Commit(a, v, js)
                 /\ maxatt'    = [maxatt EXCEPT ![owner[a]] = retry.limit]
                 /\ failovers' = [failovers EXCEPT ![owner[a]] = retry.used]
  /\ todo' = todo \ {a}
  /\ report' = [report EXCEPT ![a] = "none"]
  /\ UNCHANGED <<granted, depends, owner, host, health, pc, after, launched, remote>>

\* Drop the lock and everything held in memory.
GoIdle ==
  /\ pc' = "idle" /\ after' = "idle" /\ todo' = {} /\ launched' = {}
  /\ report' = [a \in Attempts |-> "none"]

\* The final reconcile() ends the tick; so does the first one of a dry run.
EndReconcile ==
  /\ pc = "reconcile" /\ todo = {}
  /\ \/ after = "launch" /\ pc' = "launch" /\ UNCHANGED <<after, todo, report, launched>>
     \/ GoIdle
  /\ UNCHANGED <<registry, health, remote>>

\* execution_profiles.tick(), between the first reconcile() and the plan: a
\* failed validation job gets one more attempt when its host's GPU runtime has
\* been verified again.
RetryValidation(j) ==
  /\ pc = "launch" /\ j \in Validations /\ jstatus[j] = "failed"
  /\ failovers[j]["validation_recovery"] < MaxFailovers
  /\ jstatus'   = [jstatus EXCEPT ![j] = "queued"]
  /\ maxatt'    = [maxatt EXCEPT ![j] = Larger(@ + 1, Count(j) + 1)]
  /\ failovers' = [failovers EXCEPT ![j]["validation_recovery"] = @ + 1]
  /\ UNCHANGED <<granted, depends, owner, host, astatus, health, control, remote>>

\* fit() and placements(), abstracted to the conditions that concern attempts.
Ready_Mutant(j, n) ==
  /\ jstatus[j] = "queued" /\ phase[n] = "healthy"
  /\ \A d \in depends[j] : jstatus[d] # "queued"
Ready(j, n) ==
  /\ jstatus[j] = "queued"
  /\ \A d \in depends[j] : jstatus[d] = "succeeded"
  /\ phase[n] = "healthy"
  /\ \A a \in ActiveAttempts : host[a] = n => astatus[a] # "unknown"

\* _launch_batch(), first transaction: new attempt ids for a batch of distinct
\* queued jobs, recorded before any RPC leaves.
Reserve ==
  /\ pc = "launch"
  /\ \E batch \in SUBSET {a \in Attempts : astatus[a] = "free"} :
       \E job \in [batch -> Jobs], node \in [batch -> Nodes] :
         /\ batch # {}
         /\ \A a \in batch : Ready(job[a], node[a])
         /\ \A a, b \in batch : job[a] = job[b] => a = b
         /\ owner'   = [a \in Attempts |-> IF a \in batch THEN job[a] ELSE owner[a]]
         /\ host'    = [a \in Attempts |-> IF a \in batch THEN node[a] ELSE host[a]]
         /\ astatus' = [a \in Attempts |-> IF a \in batch THEN "starting" ELSE astatus[a]]
         /\ jstatus' = [j \in Jobs |-> IF \E a \in batch : job[a] = j THEN "starting" ELSE jstatus[j]]
         /\ todo' = batch
         /\ launched' = launched \cup batch
  /\ pc' = "rpc"
  /\ UNCHANGED <<maxatt, failovers, granted, depends, health, after, report, remote>>

\* One worker of the launch pool starts its RPC ...
SendLaunch(a) ==
  /\ pc = "rpc" /\ a \in todo /\ wire[a] = "idle"
  /\ wire' = [wire EXCEPT ![a] = "sent"]
  /\ UNCHANGED <<registry, health, control, receipt, fresh, runner, child, spawns>>

\* ... and gets its answer, or an error or a timeout at any moment.
LaunchReturns(a) ==
  /\ pc = "rpc" /\ a \in todo /\ report[a] = "none"
  /\ \/ /\ wire[a] = "answered"
        /\ report' = [report EXCEPT ![a] = "starting"]
     \/ /\ wire[a] # "idle"
        /\ report' = [report EXCEPT ![a] = "unknown"]
  /\ wire' = [wire EXCEPT ![a] = IF @ = "answered" THEN "over" ELSE @]
  /\ UNCHANGED <<registry, health, pc, after, todo, launched, receipt, fresh, runner, child, spawns>>

\* When every RPC of the batch has returned, the answers are committed in turn.
AcknowledgeLaunch_Mutant(a) ==
  /\ pc = "rpc" /\ a \in todo /\ AllReported
  /\ IF report[a] = "unknown" THEN Commit(a, "failed", "queued") ELSE Commit(a, report[a], report[a])
  /\ todo' = todo \ {a}
  /\ report' = [report EXCEPT ![a] = "none"]
  /\ UNCHANGED <<maxatt, failovers, granted, depends, owner, host, health, pc, after, launched, remote>>

AcknowledgeLaunch(a) ==
  /\ pc = "rpc" /\ a \in todo /\ AllReported
  /\ Commit(a, report[a], report[a])
  /\ todo' = todo \ {a}
  /\ report' = [report EXCEPT ![a] = "none"]
  /\ UNCHANGED <<maxatt, failovers, granted, depends, owner, host, health, pc, after, launched, remote>>

EndLaunchBatch ==
  /\ pc = "rpc" /\ todo = {}
  /\ pc' = "launch"
  /\ UNCHANGED <<registry, health, after, todo, report, launched, remote>>

\* The daemon ends its tick here; the CLI reconciles what it did not launch.
EndLaunches ==
  /\ pc = "launch"
  /\ \/ GoIdle
     \/ StartReconcile(ActiveAttempts \ launched, "idle") /\ UNCHANGED launched
  /\ UNCHANGED <<registry, health, remote>>

\* The controller process dies; only what it committed survives.
Crash ==
  /\ pc # "idle"
  /\ GoIdle
  /\ wire' = [a \in Attempts |-> IF wire[a] = "answered" THEN "over" ELSE wire[a]]
  /\ UNCHANGED <<registry, health, receipt, fresh, runner, child, spawns>>

-----------------------------------------------------------------------------
(* Operator commands: each takes the registry lock for one transaction.    *)

ProbeCommand ==
  /\ pc = "idle"
  /\ Refresh
  /\ UNCHANGED <<registry, control, remote>>

CancelPending_Mutant(j) ==
  /\ pc = "idle" /\ jstatus[j] \in Active \cup {"queued"}
  /\ jstatus' = [jstatus EXCEPT ![j] = "cancelled"]
  /\ UNCHANGED <<maxatt, failovers, granted, depends, owner, host, astatus, health, control, remote>>

CancelPending(j) ==
  /\ pc = "idle" /\ jstatus[j] = "queued"
  /\ jstatus' = [jstatus EXCEPT ![j] = "cancelled"]
  /\ UNCHANGED <<maxatt, failovers, granted, depends, owner, host, astatus, health, control, remote>>

RetryFailed(j) ==
  /\ pc = "idle" /\ jstatus[j] = "failed" /\ granted[j] < MaxGrants
  /\ jstatus' = [jstatus EXCEPT ![j] = "queued"]
  /\ maxatt'  = [maxatt EXCEPT ![j] = Larger(@, Count(j)) + 1]
  /\ granted' = [granted EXCEPT ![j] = @ + 1]
  /\ UNCHANGED <<failovers, depends, owner, host, astatus, health, control, remote>>

\* add_pending_order_dependency(): a queued job gains a validation gate.
Acyclic(d) == \A S \in SUBSET Jobs : S # {} => \E j \in S : d[j] \cap S = {}

AddOrderDependency_Mutant(j, d) ==
  /\ pc = "idle" /\ d \notin depends[j]
  /\ depends' = [depends EXCEPT ![j] = @ \cup {d}]
  /\ Acyclic(depends')
  /\ UNCHANGED <<jstatus, maxatt, failovers, granted, owner, host, astatus, health, control, remote>>

AddOrderDependency(j, d) ==
  /\ pc = "idle" /\ jstatus[j] = "queued" /\ d \notin depends[j]
  /\ depends' = [depends EXCEPT ![j] = @ \cup {d}]
  /\ Acyclic(depends')
  /\ UNCHANGED <<jstatus, maxatt, failovers, granted, owner, host, astatus, health, control, remote>>

ReadmitNode(n) ==
  /\ pc = "idle" /\ Unavailable(n)
  /\ phase'   = [phase EXCEPT ![n] = "unproven"]
  /\ retries' = [retries EXCEPT ![n] = 0]
  /\ UNCHANGED <<registry, control, remote>>

-----------------------------------------------------------------------------
(* The node an attempt runs on.                                            *)

\* launch(): the directory is created exclusively, the runner is started
\* detached; the helper may die before either, the answer may be lost.  A
\* second launch of one attempt would only read its status, but the controller
\* sends one per reservation.
DeliverLaunch(a) ==
  /\ wire[a] = "sent"
  /\ \/ /\ wire' = [wire EXCEPT ![a] = "over"]
        /\ receipt' \in {receipt, [receipt EXCEPT ![a] = "empty"]}
        /\ UNCHANGED runner
     \/ /\ wire' \in {[wire EXCEPT ![a] = w] : w \in {"answered", "over"}}
        /\ receipt' = [receipt EXCEPT ![a] = "empty"]
        /\ runner'  = [runner EXCEPT ![a] = "pending"]
  /\ UNCHANGED <<registry, health, control, fresh, child, spawns>>

\* run(): the runner.lock and the exclusive execution.claim let one runner of
\* an attempt through, whether launch() or an operator's hand started it.
Unclaimed_Mutant(a) == receipt[a] # "absent" /\ runner[a] \notin {"working", "watching"}
Unclaimed(a)        == receipt[a] = "empty"

ClaimExecution(a) ==
  /\ Unclaimed(a)
  /\ receipt' = [receipt EXCEPT ![a] = "starting"]
  /\ fresh'   = [fresh EXCEPT ![a] = TRUE]
  /\ runner'  = [runner EXCEPT ![a] = "working"]
  /\ UNCHANGED <<registry, health, control, wire, child, spawns>>

\* Hash, dataset or preflight checks fail before the child exists.
FailBeforeChild(a) ==
  /\ runner[a] = "working"
  /\ receipt' = [receipt EXCEPT ![a] = "failed"]
  /\ runner'  = [runner EXCEPT ![a] = "gone"]
  /\ UNCHANGED <<registry, health, control, wire, fresh, child, spawns>>

StartChild(a) ==
  /\ runner[a] = "working"
  /\ runner' = [runner EXCEPT ![a] = "watching"]
  /\ child'  = [child EXCEPT ![a] = "live"]
  /\ spawns' = [spawns EXCEPT ![a] = @ + 1]
  /\ UNCHANGED <<registry, health, control, wire, receipt, fresh>>

\* The runner's heartbeat while its child runs.
Heartbeat(a) ==
  /\ runner[a] = "watching" /\ receipt[a] = "starting"
  /\ receipt' = [receipt EXCEPT ![a] = "running"]
  /\ UNCHANGED <<registry, health, control, wire, fresh, runner, child, spawns>>

\* The child's main process exits; members of its group may outlive it.
FinishRun(a) ==
  /\ runner[a] = "watching"
  /\ \/ child' = [child EXCEPT ![a] = "gone"]
     \/ UNCHANGED child
  /\ receipt' \in {[receipt EXCEPT ![a] = r] : r \in Terminal}
  /\ runner'  = [runner EXCEPT ![a] = "gone"]
  /\ UNCHANGED <<registry, health, control, wire, fresh, spawns>>

\* An error of the runner's own while the child runs: state.json says failed,
\* or unknown for an UncertainExecution; nothing is killed.
RunnerError(a) ==
  /\ runner[a] = "watching"
  /\ receipt' \in {[receipt EXCEPT ![a] = r] : r \in {"failed", "unknown"}}
  /\ runner'  = [runner EXCEPT ![a] = "gone"]
  /\ UNCHANGED <<registry, health, control, wire, fresh, child, spawns>>

RunnerDies(a) ==
  /\ runner[a] \in {"pending", "working", "watching"}
  /\ runner' = [runner EXCEPT ![a] = "gone"]
  /\ UNCHANGED <<registry, health, control, wire, receipt, fresh, child, spawns>>

\* Processes that outlived their runner end.
ChildEnds(a) ==
  /\ child[a] = "live" /\ runner[a] = "gone"
  /\ child' = [child EXCEPT ![a] = "gone"]
  /\ UNCHANGED <<registry, health, control, wire, receipt, fresh, runner, spawns>>

Reboot(n) ==
  /\ LET here == {a \in Attempts : host[a] = n}
     IN  /\ fresh'  = [a \in Attempts |->
                         fresh[a] /\ (a \notin here \/ receipt[a] \in {"absent", "empty"})]
         /\ runner' = [a \in Attempts |-> IF a \in here /\ runner[a] # "none" THEN "gone" ELSE runner[a]]
         /\ child'  = [a \in Attempts |-> IF a \in here /\ child[a] # "none" THEN "gone" ELSE child[a]]
  /\ UNCHANGED <<registry, health, control, wire, receipt, spawns>>

-----------------------------------------------------------------------------
ControllerNext ==
  \/ BeginTick \/ RefreshBeforeLaunch \/ EndInvalidate \/ EndReconcile
  \/ Reserve \/ EndLaunchBatch \/ EndLaunches
  \/ \E n \in Nodes : ReadNode(n)
  \/ \E j \in Jobs : RetryValidation(j)
  \/ \E a \in Attempts :
       \/ InvalidateUnavailable(a) \/ \E v \in Report : ApplyReport(a, v)
       \/ SendLaunch(a) \/ LaunchReturns(a) \/ AcknowledgeLaunch(a)

OperatorNext ==
  \/ ProbeCommand
  \/ \E j \in Jobs : CancelPending(j) \/ RetryFailed(j)
  \/ \E j, d \in Jobs : AddOrderDependency(j, d)
  \/ \E n \in Nodes : ReadmitNode(n)

RemoteNext ==
  \/ \E a \in Attempts :
       \/ DeliverLaunch(a) \/ ClaimExecution(a) \/ FailBeforeChild(a) \/ StartChild(a)
       \/ Heartbeat(a) \/ FinishRun(a) \/ RunnerError(a) \/ RunnerDies(a) \/ ChildEnds(a)
  \/ \E n \in Nodes : Reboot(n)

Next == ControllerNext \/ Crash \/ OperatorNext \/ RemoteNext

Spec == Init /\ [][Next]_vars

\* The daemon ticks for ever and every loop of a tick is bounded (at most
\* max_launches launches, one revalidation); now and then all probes of a tick
\* succeed, a status batch is answered, and a final answer is taken at its word.
HealthyTick  == BeginTick /\ \A n \in Nodes : phase'[n] \in {"healthy", "unavailable"}
AnsweredRead == \E n \in Nodes :
                  ReadNode(n) /\ \A a \in Unread(n) : report'[a] = ReadStatus(a)

Fairness ==
  /\ WF_vars(ControllerNext) /\ SF_vars(EndLaunches)
  /\ SF_vars(HealthyTick) /\ SF_vars(AnsweredRead)
  /\ \A a \in Attempts, v \in Terminal : SF_vars(report[a] = v /\ ApplyReport(a, v))

FairSpec == Spec /\ Fairness

-----------------------------------------------------------------------------
(* Properties.                                                             *)

\* The registry, the controller's memory and the remote state are well formed.
TypeOK ==
  /\ jstatus   \in [Jobs -> JobStatus]
  /\ maxatt    \in [Jobs -> Nat]
  /\ failovers \in [Jobs -> [FailoverKind -> 0 .. MaxFailovers]]
  /\ granted   \in [Jobs -> 0 .. MaxGrants]
  /\ depends   \in [Jobs -> SUBSET Jobs]
  /\ owner     \in [Attempts -> Jobs \cup {None}]
  /\ host      \in [Attempts -> Nodes \cup {None}]
  /\ astatus   \in [Attempts -> AttemptStatus]
  /\ phase     \in [Nodes -> Phase]
  /\ retries   \in [Nodes -> Nat]
  /\ pc        \in {"idle", "invalidate", "reconcile", "launch", "rpc"}
  /\ after     \in {"idle", "reconcile", "launch"}
  /\ todo      \subseteq Attempts
  /\ report    \in [Attempts -> Report]
  /\ launched  \subseteq Attempts
  /\ wire      \in [Attempts -> Wire]
  /\ receipt   \in [Attempts -> Receipt]
  /\ fresh     \in [Attempts -> BOOLEAN]
  /\ runner    \in [Attempts -> Runner]
  /\ child     \in [Attempts -> Child]
  /\ spawns    \in [Attempts -> Nat]

\* The two tables of the registry never disagree, whatever transaction the
\* controller dies after: an active attempt's job has the attempt's status, an
\* active or succeeded job has exactly one active or succeeded attempt.
AttemptMatchesJob ==
  \A a \in Attempts :
    astatus[a] \in Active \cup {"succeeded"} => owner[a] \in Jobs /\ jstatus[owner[a]] = astatus[a]

OneAuthoritativeAttempt ==
  \A a, b \in Attempts :
    /\ astatus[a] \in Active \cup {"succeeded"}
    /\ astatus[b] \in Active \cup {"succeeded"}
    /\ owner[a] = owner[b]
    => a = b

AuthorityExists ==
  \A j \in Jobs :
    jstatus[j] \in Active \cup {"succeeded"} => \E a \in AttemptsOf(j) : astatus[a] = jstatus[j]

JobAttemptAgreement == AttemptMatchesJob /\ OneAuthoritativeAttempt /\ AuthorityExists

\* The planner never looks at max_attempts: it relies on every writer that
\* puts a job back to queued to leave it a spare attempt.
QueuedJobHasBudget ==
  \A j \in Jobs :
    /\ Count(j) <= maxatt[j]
    /\ jstatus[j] = "queued" => Count(j) < maxatt[j]

\* Something of attempt a is running on its node, or still may start there.
MayRun(a) ==
  wire[a] = "sent" \/ runner[a] \in {"pending", "working", "watching"} \/ child[a] = "live"

\* Of a model's failed run, descendants of the child may be left behind: an OOM
\* that its cleanup did not find in the logs again.
LeftBehind(a) == astatus[a] = "failed" /\ MayBeOom(a) /\ wire[a] # "sent" /\ runner[a] = "gone"

\* Two executions of one job overlap only if one of them has been declared
\* invalid, and never for a job that is not failover-safe, or if all that is left
\* of one are the processes of a model's failed run: lost answers, late launches,
\* dead runners with live children, reboots and controller crashes included.
NoOverlap ==
  \A a, b \in Attempts :
    a # b /\ owner[a] = owner[b] /\ MayRun(a) /\ MayRun(b)
    => \/ "invalid" \in {astatus[a], astatus[b]} /\ owner[a] \in FailoverSafe
       \/ LeftBehind(a) \/ LeftBehind(b)

\* One attempt starts at most one scientific child, even if its runner is
\* started again by hand.
ExecutedOnce == \A a \in Attempts : spawns[a] <= 1

\* A terminal verdict in the registry is backed by the node: a success by a
\* success receipt, and neither verdict while anything of the attempt runs, but for
\* what a model's failed run has left behind.
VerdictIsBacked ==
  \A a \in Attempts :
    /\ astatus[a] = "succeeded" => receipt[a] = "succeeded"
    /\ astatus[a] \in Terminal => ~MayRun(a) \/ LeftBehind(a)

\* What runs or has succeeded did so on succeeded dependencies, and they still
\* are: nothing takes a success back, and a gate added later reaches queued jobs
\* only.
DependenciesSettled ==
  \A a \in Attempts :
    astatus[a] \in Active \cup {"succeeded"} =>
      \A d \in depends[owner[a]] : jstatus[d] = "succeeded"

\* reconcile() checks each transition and raises, which would cost every
\* remaining attempt of every cycle its verdict: no report ever makes it raise.
ReconcileNeverRaises ==
  pc = "reconcile" /\ AllReported =>
    \A a \in todo : \A v \in Verdicts(a) :
      /\ AttemptMay(astatus[a], v)
      /\ JobMay(jstatus[owner[a]], v)
      /\ v = "failed" => JobMay(jstatus[owner[a]], "queued")

\* Every transaction obeys the transition tables, those of launch
\* acknowledgements, I/O holds and operator commands included, which do not
\* consult them: terminal and invalid attempts stay what they are.
TransitionsLegal ==
  [][/\ \A a \in Attempts : astatus[a] # "free" => AttemptMay(astatus[a], astatus'[a])
     /\ \A j \in Jobs : JobMay(jstatus[j], jstatus'[j])]_registry

\* A controller that is not killed for ever.
StaysUp == <>[][~Crash]_vars

\* reconcile() does not look at a host that has been given up, and a job that may
\* hold hardware keeps its reservation there.
Withheld(a) == owner[a] \in Held /\ phase[host[a]] = "unavailable"

\* No reservation is kept for ever on a host that has been given up: its
\* attempts leave the active statuses unless an operator readmits the host
\* first or the job may hold hardware.
QuarantineResolves ==
  StaysUp =>
    \A a \in Attempts :
      (astatus[a] \in Active /\ phase[host[a]] = "unavailable" /\ owner[a] \notin Held)
        ~> ~(astatus[a] \in Active /\ phase[host[a]] = "unavailable")

\* A finished run is noticed however many answers were lost before: the
\* attempt does not stay active once its receipt is final and nothing of it runs,
\* unless its reservation is withheld until an operator readmits the host.
FinishedRunIsReleased ==
  StaysUp =>
    \A a \in Attempts :
      (astatus[a] \in Active /\ receipt[a] \in Terminal /\ ~MayRun(a))
        ~> (astatus[a] \notin Active \/ Withheld(a))

-----------------------------------------------------------------------------
(* The promise to everything downstream.                                   *)

Verdict(j)   == IF jstatus[j] \in Active \cup {"queued"} THEN "open" ELSE jstatus[j]
Authority(j) == {a \in AttemptsOf(j) : astatus[a] \in Active \cup {"succeeded"}}

Results == INSTANCE ResultAuthority WITH
  verdict   <- [j \in Jobs |-> Verdict(j)],
  authority <- [j \in Jobs |-> Authority(j)],
  spent     <- {a \in Attempts : astatus[a] # "free"},
  depends   <- depends

\* Every step of the registry is a step of ResultAuthority or invisible to it:
\* one attempt at a time speaks for a job, never one that has lost its
\* authority before, and a published success is final.
ImplementsResultAuthority == Results!ASpec
=============================================================================
