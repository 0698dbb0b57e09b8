----------------------- MODULE AttemptLifecycleProofs -----------------------
(***************************************************************************)
(* Theorems about AttemptLifecycle, for any jobs, nodes, attempts and      *)
(* limits the assumption on its constants allows.                          *)
(***************************************************************************)
EXTENDS AttemptLifecycle, FiniteSetTheorems, TLAPS

-----------------------------------------------------------------------------
(* Type correctness.                                                       *)

\* A count of attempts is a natural number.
LEMMA CountType ==
  ASSUME NEW j
  PROVE  /\ IsFiniteSet(AttemptsOf(j))
         /\ Count(j) \in Nat
<1>1. AttemptsOf(j) \subseteq Attempts BY DEF AttemptsOf
<1> QED BY <1>1, LifecycleAssumption, FS_Subset, FS_CardinalityType DEF LifecycleAssumption, Count

\* What retry_spec() can return: counters within their limits, and a limit that
\* leaves room for the attempts already made.
LEMMA RetrySpecsType ==
  ASSUME TypeOK, NEW j \in Jobs, NEW c \in Nat, NEW retry \in RetrySpecs(j, c)
  PROVE  /\ retry.used \in [FailoverKind -> 0 .. MaxFailovers]
         /\ retry.limit \in Nat
         /\ c <= maxatt[j] => c <= retry.limit
<1> DEFINE f == failovers[j]
<1>0. /\ f \in [FailoverKind -> 0 .. MaxFailovers] /\ maxatt[j] \in Nat /\ MaxFailovers \in Nat
      /\ Larger(maxatt[j], c + 1) \in Nat /\ c <= Larger(maxatt[j], c + 1)
  BY LifecycleAssumption DEF TypeOK, LifecycleAssumption, Larger
<1>1. ASSUME NEW k \in FailoverKind, f[k] < MaxFailovers
      PROVE  [f EXCEPT ![k] = @ + 1] \in [FailoverKind -> 0 .. MaxFailovers]
  <2>1. f[k] + 1 \in 0 .. MaxFailovers BY <1>0, <1>1
  <2> QED BY <1>0, <2>1
<1>2. {"experiment_oom", "gpu_startup_unavailable"} \subseteq FailoverKind BY DEF FailoverKind
<1>3. \/ retry = [used |-> f, limit |-> maxatt[j]]
      \/ retry = [used |-> f, limit |-> c]
      \/ \E k \in FailoverKind :
           /\ f[k] < MaxFailovers
           /\ \/ retry = [used |-> [f EXCEPT ![k] = @ + 1], limit |-> Larger(maxatt[j], c + 1)]
              \/ retry = [used |-> [f EXCEPT ![k] = @ + 1], limit |-> c]
  BY <1>2 DEF RetrySpecs
<1> QED BY <1>0, <1>1, <1>3

\* Both kinds of initial registry are well typed.
LEMMA TypeInit == Init => TypeOK
<1> SUFFICES ASSUME Init PROVE TypeOK OBVIOUS
<1> USE LifecycleAssumption DEF LifecycleAssumption, Init, JobStatus, AttemptStatus, Active,
        Phase, Report, Wire, Receipt, Runner, Child, FailoverKind
<1>1. CASE FreshRegistry BY <1>1 DEF FreshRegistry, TypeOK
<1>2. CASE InheritedRegistry BY <1>2 DEF InheritedRegistry, TypeOK
<1> QED BY <1>1, <1>2

\* Probes leave a phase and a count per node.
LEMMA RefreshType ==
  ASSUME TypeOK, Refresh
  PROVE  /\ phase' \in [Nodes -> Phase]
         /\ retries' \in [Nodes -> Nat]
BY DEF TypeOK, Refresh, ObservedPhase, ObservedRetries, Phase, ProbeResult

\* Every step keeps the types, one case per action.
LEMMA TypeNext == TypeOK /\ [Next]_vars => TypeOK'
<1> SUFFICES ASSUME TypeOK, [Next]_vars PROVE TypeOK' OBVIOUS
<1> USE DEF TypeOK, registry, health, control, remote
<1>1. CASE BeginTick
  BY <1>1, RefreshType DEF BeginTick, ActiveAttempts
<1>2. CASE RefreshBeforeLaunch
  BY <1>2, RefreshType DEF RefreshBeforeLaunch, ActiveAttempts
<1>3. CASE EndInvalidate
  BY <1>3 DEF EndInvalidate, StartReconcile, ActiveAttempts, Report, Active
<1>4. CASE EndReconcile
  BY <1>4 DEF EndReconcile, GoIdle, Report
<1>5. CASE Reserve
  BY <1>5 DEF Reserve, AttemptStatus, JobStatus, Active
<1>6. CASE EndLaunchBatch
  BY <1>6 DEF EndLaunchBatch
<1>7. CASE EndLaunches
  BY <1>7 DEF EndLaunches, GoIdle, StartReconcile, ActiveAttempts, Report, Active
<1>8. ASSUME NEW n \in Nodes, ReadNode(n) PROVE TypeOK'
  <2>1. ASSUME NEW a \in Attempts PROVE ReadStatus(a) \in Report
    <3>1. CASE receipt[a] \in {"absent", "empty"} BY <3>1 DEF ReadStatus, Report, Active, Terminal
    <3>2. CASE receipt[a] \in Terminal BY <3>2 DEF ReadStatus, Report, Active, Terminal
    <3>3. CASE receipt[a] \in Active BY <3>3 DEF ReadStatus, Report, Active, Terminal
    <3> QED BY <3>1, <3>2, <3>3 DEF Receipt, Terminal
  <2>2. "unknown" \in Report BY DEF Report, Active
  <2>3. report' \in [Attempts -> Report]
    BY <1>8, <2>1, <2>2 DEF ReadNode
  <2> QED BY <1>8, <2>3 DEF ReadNode
<1>9. ASSUME NEW j \in Jobs, RetryValidation(j) PROVE TypeOK'
  BY <1>9, CountType, LifecycleAssumption
  DEF RetryValidation, Larger, LifecycleAssumption, FailoverKind, JobStatus, Active
<1>10. ASSUME NEW a \in Attempts, InvalidateUnavailable(a) PROVE TypeOK'
  BY <1>10 DEF InvalidateUnavailable, Commit, AttemptStatus, JobStatus, Active
<1>11. ASSUME NEW a \in Attempts, NEW v \in Report, ApplyReport(a, v) PROVE TypeOK'
  <2>1. v \in AttemptStatus \cap JobStatus /\ "queued" \in JobStatus /\ "failed" \in JobStatus
    BY <1>11 DEF ApplyReport, Verdicts, AllReported, Report, Active, AttemptStatus, JobStatus
  <2>2. CASE v # "failed"
    <3>1. Commit(a, v, v) /\ UNCHANGED <<maxatt, failovers>>
      BY <1>11, <2>2 DEF ApplyReport
    <3>2. jstatus' \in [Jobs -> JobStatus] /\ astatus' \in [Attempts -> AttemptStatus]
      BY <2>1, <3>1 DEF Commit
    <3> QED BY <1>11, <3>1, <3>2 DEF ApplyReport, Report
  <2>3. CASE v = "failed"
    <3>1. PICK retry \in RetrySpecs(owner[a], Count(owner[a])), js \in {"queued", "failed"} :
            /\ Commit(a, v, js)
            /\ maxatt'    = [maxatt EXCEPT ![owner[a]] = retry.limit]
            /\ failovers' = [failovers EXCEPT ![owner[a]] = retry.used]
      BY <1>11, <2>3 DEF ApplyReport
    <3>2. owner[a] \in Jobs =>
            retry.used \in [FailoverKind -> 0 .. MaxFailovers] /\ retry.limit \in Nat
      BY RetrySpecsType, CountType
    <3>3. jstatus' \in [Jobs -> JobStatus] /\ astatus' \in [Attempts -> AttemptStatus]
      BY <2>1, <3>1 DEF Commit
    <3>4. maxatt' \in [Jobs -> Nat] /\ failovers' \in [Jobs -> [FailoverKind -> 0 .. MaxFailovers]]
      BY <3>1, <3>2
    <3> QED BY <1>11, <3>3, <3>4 DEF ApplyReport, Report
  <2> QED BY <2>2, <2>3
<1>12. ASSUME NEW a \in Attempts, SendLaunch(a) PROVE TypeOK'
  BY <1>12 DEF SendLaunch, Wire
<1>13. ASSUME NEW a \in Attempts, LaunchReturns(a) PROVE TypeOK'
  BY <1>13 DEF LaunchReturns, Wire, Report, Active
<1>14. ASSUME NEW a \in Attempts, AcknowledgeLaunch(a) PROVE TypeOK'
  <2>1. report[a] \in AttemptStatus \cap JobStatus
    BY <1>14 DEF AcknowledgeLaunch, AllReported, Report, Active, AttemptStatus, JobStatus
  <2> QED BY <1>14, <2>1 DEF AcknowledgeLaunch, Commit, Report
<1>15. CASE Crash
  BY <1>15 DEF Crash, GoIdle, Report, Wire
<1>16. CASE ProbeCommand
  BY <1>16, RefreshType DEF ProbeCommand
<1>17. ASSUME NEW j \in Jobs, CancelPending(j) PROVE TypeOK'
  BY <1>17 DEF CancelPending, JobStatus
<1>18. ASSUME NEW j \in Jobs, RetryFailed(j) PROVE TypeOK'
  BY <1>18, CountType, LifecycleAssumption DEF RetryFailed, JobStatus, Larger, LifecycleAssumption
<1>19. ASSUME NEW j \in Jobs, NEW d \in Jobs, AddOrderDependency(j, d) PROVE TypeOK'
  BY <1>19 DEF AddOrderDependency
<1>20. ASSUME NEW n \in Nodes, ReadmitNode(n) PROVE TypeOK'
  BY <1>20 DEF ReadmitNode, Phase
<1>21. ASSUME NEW a \in Attempts, DeliverLaunch(a) PROVE TypeOK'
  <2>1. /\ wire'    \in [Attempts -> Wire]
        /\ receipt' \in [Attempts -> Receipt]
        /\ runner'  \in [Attempts -> Runner]
    <3>1. CASE /\ wire' = [wire EXCEPT ![a] = "over"]
               /\ receipt' \in {receipt, [receipt EXCEPT ![a] = "empty"]}
               /\ UNCHANGED runner
      BY <3>1 DEF Wire, Receipt
    <3>2. CASE /\ wire' \in {[wire EXCEPT ![a] = w] : w \in {"answered", "over"}}
               /\ receipt' = [receipt EXCEPT ![a] = "empty"]
               /\ runner'  = [runner EXCEPT ![a] = "pending"]
      BY <3>2 DEF Wire, Receipt, Runner
    <3> QED BY <1>21, <3>1, <3>2 DEF DeliverLaunch
  <2> QED BY <1>21, <2>1 DEF DeliverLaunch
<1>22. ASSUME NEW a \in Attempts,
              ClaimExecution(a) \/ FailBeforeChild(a) \/ StartChild(a) \/ Heartbeat(a)
       PROVE TypeOK'
  <2> USE DEF Receipt, Runner, Child, Active
  <2>1. CASE ClaimExecution(a)  BY <2>1 DEF ClaimExecution
  <2>2. CASE FailBeforeChild(a) BY <2>2 DEF FailBeforeChild
  <2>3. CASE StartChild(a)      BY <2>3 DEF StartChild
  <2>4. CASE Heartbeat(a)       BY <2>4 DEF Heartbeat
  <2> QED BY <1>22, <2>1, <2>2, <2>3, <2>4
<1>23. ASSUME NEW a \in Attempts,
              FinishRun(a) \/ RunnerError(a) \/ RunnerDies(a) \/ ChildEnds(a)
       PROVE TypeOK'
  <2> USE DEF Receipt, Runner, Child, Active, Terminal
  <2>1. CASE FinishRun(a)   BY <2>1 DEF FinishRun
  <2>2. CASE RunnerError(a) BY <2>2 DEF RunnerError
  <2>3. CASE RunnerDies(a)  BY <2>3 DEF RunnerDies
  <2>4. CASE ChildEnds(a)   BY <2>4 DEF ChildEnds
  <2> QED BY <1>23, <2>1, <2>2, <2>3, <2>4
<1>24. ASSUME NEW n \in Nodes, Reboot(n) PROVE TypeOK'
  BY <1>24 DEF Reboot, Runner, Child
<1>25. CASE UNCHANGED vars
  BY <1>25 DEF vars
<1> QED
  BY <1>1, <1>2, <1>3, <1>4, <1>5, <1>6, <1>7, <1>8, <1>9, <1>10, <1>11, <1>12, <1>13, <1>14,
     <1>15, <1>16, <1>17, <1>18, <1>19, <1>20, <1>21, <1>22, <1>23, <1>24, <1>25
  DEF Next, ControllerNext, OperatorNext, RemoteNext

\* The registry, the controller's memory and the remote state keep their types.
THEOREM TypeCorrect == Spec => []TypeOK
<1>1. Init => TypeOK BY TypeInit
<1>2. TypeOK /\ [Next]_vars => TypeOK' BY TypeNext
<1> QED BY <1>1, <1>2, PTL DEF Spec

-----------------------------------------------------------------------------
(* Agreement of the two tables, and the budget of queued jobs.             *)

\* The statuses of an attempt that speaks for its job.
Counting == Active \cup {"succeeded"}

\* An attempt id is free or belongs to a job and a host.
AttemptsHaveOwners ==
  \A a \in Attempts : IF astatus[a] = "free" THEN owner[a] = None ELSE owner[a] \in Jobs

\* The loops of a tick hold attempts that are still active: what one iteration
\* commits takes no other attempt of the loop out of the active statuses.
LoopHoldsActive ==
  pc \in {"invalidate", "reconcile", "rpc"} => \A a \in todo : astatus[a] \in Active

\* Answers are in memory only while the loop that asked for them runs, and a
\* launch answers with an active status.
AnswersPending ==
  \A a \in Attempts : report[a] # "none" =>
    /\ pc \in {"reconcile", "rpc"} /\ a \in todo
    /\ pc = "rpc" => report[a] \in Active

\* What is inductive: the properties need the owners and the loops.
RegistryInv ==
  /\ TypeOK /\ JobAttemptAgreement /\ QueuedJobHasBudget
  /\ AttemptsHaveOwners /\ LoopHoldsActive /\ AnswersPending

\* A transaction that gives an active attempt and its job the same counting
\* status, or takes it from both, leaves the tables in agreement.
LEMMA CommitAgrees ==
  ASSUME TypeOK, JobAttemptAgreement,
         NEW a \in Attempts, astatus[a] \in Active,
         NEW s, NEW js, Commit(a, s, js), owner' = owner,
         \/ s \in Counting /\ js = s
         \/ s \notin Counting /\ js \notin Counting
  PROVE  JobAttemptAgreement'
<1> USE DEF JobAttemptAgreement, Counting, AttemptsOf
<1>1. owner[a] \in Jobs /\ jstatus[owner[a]] = astatus[a]
  BY DEF AttemptMatchesJob
<1>2. /\ astatus'[a] = s /\ jstatus'[owner[a]] = js
      /\ \A b \in Attempts \ {a} : astatus'[b] = astatus[b]
      /\ \A j \in Jobs \ {owner[a]} : jstatus'[j] = jstatus[j]
  BY <1>1 DEF Commit, TypeOK
<1>3. \A b \in Attempts : astatus[b] \in Counting /\ owner[b] = owner[a] => b = a
  BY DEF OneAuthoritativeAttempt
<1>4. AttemptMatchesJob'
  <2> SUFFICES ASSUME NEW b \in Attempts, astatus'[b] \in Counting
               PROVE  owner[b] \in Jobs /\ jstatus'[owner[b]] = astatus'[b]
    BY DEF AttemptMatchesJob
  <2>1. CASE b = a BY <1>1, <1>2, <2>1
  <2>2. CASE b # a
    BY <1>2, <1>3, <2>2 DEF AttemptMatchesJob
  <2> QED BY <2>1, <2>2
<1>5. OneAuthoritativeAttempt'
  BY <1>2, <1>3 DEF OneAuthoritativeAttempt
<1>6. AuthorityExists'
  <2> SUFFICES ASSUME NEW j \in Jobs, jstatus'[j] \in Counting
               PROVE  \E b \in Attempts : owner[b] = j /\ astatus'[b] = jstatus'[j]
    BY DEF AuthorityExists
  <2>1. CASE j = owner[a] BY <1>2, <2>1
  <2>2. CASE j # owner[a]
    <3>1. PICK b \in Attempts : owner[b] = j /\ astatus[b] = jstatus[j]
      BY <1>2, <2>2 DEF AuthorityExists
    <3> QED BY <1>2, <2>2, <3>1
  <2> QED BY <2>1, <2>2
<1> QED BY <1>4, <1>5, <1>6

\* A job no attempt speaks for may change to any status that needs none.
LEMMA IdleJobAgrees ==
  ASSUME TypeOK, JobAttemptAgreement,
         NEW j \in Jobs, jstatus[j] \notin Counting,
         NEW js, js \notin Counting,
         jstatus' = [jstatus EXCEPT ![j] = js], UNCHANGED <<owner, astatus>>
  PROVE  JobAttemptAgreement'
<1> USE DEF JobAttemptAgreement, Counting, AttemptsOf
<1>1. \A a \in Attempts : astatus[a] \in Counting => owner[a] # j
  BY DEF AttemptMatchesJob
<1>2. AttemptMatchesJob' BY <1>1 DEF AttemptMatchesJob, TypeOK
<1>3. OneAuthoritativeAttempt' BY DEF OneAuthoritativeAttempt
<1>4. AuthorityExists' BY <1>1 DEF AuthorityExists, TypeOK
<1> QED BY <1>2, <1>3, <1>4

\* Who owns an attempt decides the count.
LEMMA CountFrame ==
  ASSUME NEW j, owner' = owner
  PROVE  Count(j)' = Count(j)
BY DEF Count, AttemptsOf

\* With the attempts unchanged, the budget holds if limits do not drop below the
\* count and a job is queued only below its limit.
LEMMA BudgetFrame ==
  ASSUME TypeOK, QueuedJobHasBudget, owner' = owner,
         \A j \in Jobs : \/ maxatt'[j] = maxatt[j] /\ jstatus'[j] \in {jstatus[j]} \cup (JobStatus \ {"queued"})
                        \/ /\ Count(j) <= maxatt'[j]
                           /\ jstatus'[j] = "queued" => Count(j) < maxatt'[j]
  PROVE  QueuedJobHasBudget'
<1>1. \A j \in Jobs : Count(j)' = Count(j) BY CountFrame
<1> QED BY <1>1 DEF QueuedJobHasBudget

\* What a reservation does to one job: it gains at most one attempt, and only
\* if it was queued.
LEMMA ReserveCounts ==
  ASSUME RegistryInv, Reserve, NEW j \in Jobs
  PROVE  \/ /\ Count(j)' = Count(j) /\ jstatus'[j] = jstatus[j]
            /\ \A a \in Attempts : owner'[a] = j <=> owner[a] = j
            /\ \A a \in Attempts : owner[a] = j => astatus'[a] = astatus[a]
         \/ /\ Count(j)' = Count(j) + 1 /\ jstatus[j] = "queued" /\ jstatus'[j] = "starting"
            /\ \E a \in Attempts :
                 /\ astatus[a] = "free" /\ astatus'[a] = "starting"
                 /\ \A b \in Attempts : owner'[b] = j <=> (b = a \/ owner[b] = j)
                 /\ \A b \in Attempts : owner[b] = j => astatus'[b] = astatus[b]
<1>0. PICK batch \in SUBSET {a \in Attempts : astatus[a] = "free"} :
         \E job \in [batch -> Jobs], node \in [batch -> Nodes] :
         /\ \A a \in batch : Ready(job[a], node[a])
         /\ \A a, b \in batch : job[a] = job[b] => a = b
         /\ owner'   = [a \in Attempts |-> IF a \in batch THEN job[a] ELSE owner[a]]
         /\ astatus' = [a \in Attempts |-> IF a \in batch THEN "starting" ELSE astatus[a]]
         /\ jstatus' = [k \in Jobs |-> IF \E a \in batch : job[a] = k THEN "starting" ELSE jstatus[k]]
  BY DEF Reserve
<1>1. PICK job \in [batch -> Jobs], node \in [batch -> Nodes] :
         /\ \A a \in batch : Ready(job[a], node[a])
         /\ \A a, b \in batch : job[a] = job[b] => a = b
         /\ owner'   = [a \in Attempts |-> IF a \in batch THEN job[a] ELSE owner[a]]
         /\ astatus' = [a \in Attempts |-> IF a \in batch THEN "starting" ELSE astatus[a]]
         /\ jstatus' = [k \in Jobs |-> IF \E a \in batch : job[a] = k THEN "starting" ELSE jstatus[k]]
  BY <1>0
<1>2. \A a \in batch : a \in Attempts /\ astatus[a] = "free" /\ owner[a] # j
  BY LifecycleAssumption DEF RegistryInv, AttemptsHaveOwners, LifecycleAssumption
<1>3. CASE \A a \in batch : job[a] # j
  <2>1. \A a \in Attempts : owner'[a] = j <=> owner[a] = j BY <1>1, <1>2, <1>3
  <2>2. AttemptsOf(j)' = AttemptsOf(j) BY <2>1 DEF AttemptsOf
  <2>3. Count(j)' = Count(j) BY <2>2 DEF Count
  <2> QED BY <1>1, <1>2, <1>3, <2>1, <2>3
<1>4. ASSUME NEW a \in batch, job[a] = j
      PROVE  /\ Count(j)' = Count(j) + 1 /\ jstatus[j] = "queued" /\ jstatus'[j] = "starting"
             /\ astatus[a] = "free" /\ astatus'[a] = "starting"
             /\ \A b \in Attempts : owner'[b] = j <=> (b = a \/ owner[b] = j)
             /\ \A b \in Attempts : owner[b] = j => astatus'[b] = astatus[b]
  <2>1. \A b \in Attempts : owner'[b] = j <=> (b = a \/ owner[b] = j)
    BY <1>1, <1>2, <1>4
  <2>2. AttemptsOf(j)' = AttemptsOf(j) \cup {a} /\ a \notin AttemptsOf(j)
    BY <1>2, <2>1 DEF AttemptsOf
  <2>3. Count(j)' = Count(j) + 1
    BY <2>2, CountType, FS_AddElement DEF Count
  <2>4. jstatus[j] = "queued" BY <1>1, <1>4 DEF Ready
  <2> QED BY <1>1, <1>2, <1>4, <2>1, <2>3, <2>4
<1> QED BY <1>2, <1>3, <1>4

\* A batch of reservations keeps the rows of jobs and attempts in agreement.
LEMMA ReserveAgrees ==
  ASSUME RegistryInv, Reserve
  PROVE  JobAttemptAgreement' /\ QueuedJobHasBudget' /\ AttemptsHaveOwners'
<1> USE DEF RegistryInv
<1>1. QueuedJobHasBudget'
  <2> SUFFICES ASSUME NEW j \in Jobs
               PROVE  Count(j)' <= maxatt'[j] /\ (jstatus'[j] = "queued" => Count(j)' < maxatt'[j])
    BY DEF QueuedJobHasBudget
  <2>1. maxatt' = maxatt /\ maxatt[j] \in Nat /\ Count(j) \in Nat
    BY CountType DEF Reserve, TypeOK
  <2> QED BY <2>1, ReserveCounts DEF QueuedJobHasBudget
<1>2. AttemptsHaveOwners'
  BY LifecycleAssumption DEF Reserve, AttemptsHaveOwners, LifecycleAssumption
<1>3. AttemptMatchesJob'
  <2> SUFFICES ASSUME NEW a \in Attempts, astatus'[a] \in Counting
               PROVE  owner'[a] \in Jobs /\ jstatus'[owner'[a]] = astatus'[a]
    BY DEF AttemptMatchesJob, Counting
  <2>1. astatus'[a] # "free" BY DEF Counting, Active
  <2>2. owner'[a] \in Jobs BY <1>2, <2>1 DEF AttemptsHaveOwners
  <2> DEFINE j == owner'[a]
  <2>3. \A b \in Attempts : astatus[b] \in Counting => owner[b] \in Jobs /\ jstatus[owner[b]] = astatus[b]
    BY DEF JobAttemptAgreement, AttemptMatchesJob, Counting
  <2>4. CASE owner[a] = j
    BY <2>2, <2>3, <2>4, ReserveCounts DEF Counting, Active
  <2>5. CASE owner[a] # j
    BY <2>2, <2>5, ReserveCounts
  <2> QED BY <2>4, <2>5
<1>4. OneAuthoritativeAttempt'
  <2> SUFFICES ASSUME NEW a \in Attempts, NEW b \in Attempts, astatus'[a] \in Counting,
                      astatus'[b] \in Counting, owner'[a] = owner'[b]
               PROVE  a = b
    BY DEF OneAuthoritativeAttempt, Counting
  <2>1. owner'[a] \in Jobs
    BY <1>3 DEF AttemptMatchesJob, Counting
  <2> DEFINE j == owner'[a]
  <2>2. \A c \in Attempts : owner[c] = j /\ astatus[c] \in Counting => jstatus[j] = astatus[c]
    BY DEF JobAttemptAgreement, AttemptMatchesJob, Counting
  <2>3. \A c, d \in Attempts : astatus[c] \in Counting /\ astatus[d] \in Counting /\ owner[c] = owner[d] => c = d
    BY DEF JobAttemptAgreement, OneAuthoritativeAttempt, Counting
  <2> QED BY <2>1, <2>2, <2>3, ReserveCounts DEF Counting, Active
<1>5. AuthorityExists'
  <2> SUFFICES ASSUME NEW j \in Jobs, jstatus'[j] \in Counting
               PROVE  \E a \in Attempts : owner'[a] = j /\ astatus'[a] = jstatus'[j]
    BY DEF AuthorityExists, Counting, AttemptsOf
  <2>1. jstatus[j] \in Counting => \E a \in Attempts : owner[a] = j /\ astatus[a] = jstatus[j]
    BY DEF JobAttemptAgreement, AuthorityExists, Counting, AttemptsOf
  <2> QED BY <2>1, ReserveCounts
<1> QED BY <1>1, <1>2, <1>3, <1>4, <1>5 DEF JobAttemptAgreement

\* A step that leaves the rows of jobs and attempts alone.
LEMMA FrameAgrees ==
  ASSUME RegistryInv, UNCHANGED <<jstatus, maxatt, owner, astatus>>
  PROVE  JobAttemptAgreement' /\ QueuedJobHasBudget' /\ AttemptsHaveOwners'
<1> USE DEF RegistryInv
<1>1. JobAttemptAgreement'
  BY DEF JobAttemptAgreement, AttemptMatchesJob, OneAuthoritativeAttempt, AuthorityExists, AttemptsOf
<1>2. QueuedJobHasBudget' BY BudgetFrame
<1>3. AttemptsHaveOwners' BY DEF AttemptsHaveOwners
<1> QED BY <1>1, <1>2, <1>3

\* Fresh and inherited registries satisfy the invariant.
LEMMA RegistryInit == Init => RegistryInv
<1> SUFFICES ASSUME Init PROVE RegistryInv OBVIOUS
<1>1. TypeOK BY TypeInit
<1>2. LoopHoldsActive /\ AnswersPending
  BY DEF Init, LoopHoldsActive, AnswersPending
<1>3. \A j : AttemptsOf(j) \subseteq Attempts BY DEF AttemptsOf
<1>4. \A j \in Jobs : maxatt[j] \in Nat \ {0}
  BY LifecycleAssumption DEF Init, LifecycleAssumption
<1>5. CASE FreshRegistry
  <2>1. JobAttemptAgreement /\ AttemptsHaveOwners
    BY <1>5 DEF FreshRegistry, JobAttemptAgreement, AttemptMatchesJob, OneAuthoritativeAttempt,
                AuthorityExists, AttemptsHaveOwners, Active
  <2>2. \A j \in Jobs : AttemptsOf(j) = {}
    BY <1>5, LifecycleAssumption DEF FreshRegistry, AttemptsOf, LifecycleAssumption
  <2>3. QueuedJobHasBudget
    BY <1>4, <2>2, FS_EmptySet DEF QueuedJobHasBudget, Count
  <2> QED BY <1>1, <1>2, <2>1, <2>3 DEF RegistryInv
<1>6. CASE InheritedRegistry
  <2>1. PICK a \in Attempts, i \in Jobs :
          /\ jstatus = [k \in Jobs |-> IF k = i THEN "running" ELSE "queued"]
          /\ owner   = [b \in Attempts |-> IF b = a THEN i ELSE None]
          /\ astatus = [b \in Attempts |-> IF b = a THEN "running" ELSE "free"]
    BY <1>6 DEF InheritedRegistry
  <2>2. JobAttemptAgreement /\ AttemptsHaveOwners
    BY <2>1 DEF JobAttemptAgreement, AttemptMatchesJob, OneAuthoritativeAttempt,
                AuthorityExists, AttemptsHaveOwners, AttemptsOf, Active
  <2>3. AttemptsOf(i) = {a} /\ \A j \in Jobs \ {i} : AttemptsOf(j) = {}
    BY <2>1, LifecycleAssumption DEF AttemptsOf, LifecycleAssumption
  <2>4. Count(i) = 1 /\ \A j \in Jobs \ {i} : Count(j) = 0
    BY <2>3, FS_EmptySet, FS_Singleton DEF Count
  <2>5. QueuedJobHasBudget
    BY <1>4, <2>1, <2>4 DEF QueuedJobHasBudget
  <2> QED BY <1>1, <1>2, <2>2, <2>5 DEF RegistryInv
<1> QED BY <1>5, <1>6 DEF Init

\* The invariant is inductive, one case per group of actions.
LEMMA RegistryNext == RegistryInv /\ [Next]_vars => RegistryInv'
<1> SUFFICES ASSUME RegistryInv, [Next]_vars PROVE RegistryInv' OBVIOUS
<1>0. TypeOK' BY TypeNext DEF RegistryInv
<1> DEFINE Rows == JobAttemptAgreement /\ QueuedJobHasBudget /\ AttemptsHaveOwners
           Loop == LoopHoldsActive /\ AnswersPending
<1> USE DEF registry, health, control, remote
<1>1. CASE BeginTick \/ RefreshBeforeLaunch \/ EndInvalidate \/ EndReconcile \/ EndLaunchBatch \/ EndLaunches
  <2>1. Rows'
    BY <1>1, FrameAgrees
    DEF BeginTick, RefreshBeforeLaunch, EndInvalidate, EndReconcile, EndLaunchBatch, EndLaunches
  <2>2. Loop'
    <3> USE DEF RegistryInv, TypeOK, LoopHoldsActive, AnswersPending
    <3>1. CASE BeginTick BY <3>1 DEF BeginTick, ActiveAttempts
    <3>2. CASE RefreshBeforeLaunch BY <3>2 DEF RefreshBeforeLaunch, ActiveAttempts
    <3>3. CASE EndInvalidate BY <3>3 DEF EndInvalidate, StartReconcile, ActiveAttempts
    <3>4. CASE EndReconcile BY <3>4 DEF EndReconcile, GoIdle
    <3>5. CASE EndLaunchBatch BY <3>5 DEF EndLaunchBatch
    <3>6. CASE EndLaunches BY <3>6 DEF EndLaunches, GoIdle, StartReconcile, ActiveAttempts
    <3> QED BY <1>1, <3>1, <3>2, <3>3, <3>4, <3>5, <3>6
  <2> QED BY <1>0, <2>1, <2>2 DEF RegistryInv
<1>2. CASE Reserve
  <2>1. Rows' BY <1>2, ReserveAgrees
  <2>2. Loop'
    BY <1>2 DEF Reserve, RegistryInv, LoopHoldsActive, AnswersPending, Active
  <2> QED BY <1>0, <2>1, <2>2 DEF RegistryInv
<1>3. ASSUME NEW n \in Nodes, ReadNode(n) PROVE RegistryInv'
  <2>1. Rows' BY <1>3, FrameAgrees DEF ReadNode
  <2>2. Loop'
    BY <1>3 DEF ReadNode, Unread, RegistryInv, TypeOK, LoopHoldsActive, AnswersPending
  <2> QED BY <1>0, <2>1, <2>2 DEF RegistryInv
<1>4. ASSUME NEW j \in Jobs, RetryValidation(j) \/ CancelPending(j) \/ RetryFailed(j) PROVE RegistryInv'
  <2>1. PICK js \in {"queued", "cancelled"} :
          /\ jstatus[j] \in {"queued", "failed"}
          /\ jstatus' = [jstatus EXCEPT ![j] = js]
          /\ UNCHANGED <<owner, astatus, pc, todo, report>>
    BY <1>4 DEF RetryValidation, CancelPending, RetryFailed
  <2>2. JobAttemptAgreement'
    BY <2>1, IdleJobAgrees DEF Counting, Active, RegistryInv
  <2>3. AttemptsHaveOwners' BY <2>1 DEF AttemptsHaveOwners, RegistryInv
  <2>4. Count(j) \in Nat /\ maxatt[j] \in Nat /\ Count(j) <= maxatt[j]
    BY CountType DEF RegistryInv, TypeOK, QueuedJobHasBudget
  <2>5. QueuedJobHasBudget'
    <3>1. CASE CancelPending(j)
      BY <2>1, <3>1, BudgetFrame DEF CancelPending, RegistryInv, TypeOK, JobStatus
    <3>2. CASE RetryValidation(j) \/ RetryFailed(j)
      <4>1. /\ maxatt'[j] \in Nat /\ Count(j) < maxatt'[j]
            /\ \A i \in Jobs \ {j} : maxatt'[i] = maxatt[i] /\ jstatus'[i] = jstatus[i]
        BY <2>4, <3>2 DEF RetryValidation, RetryFailed, Larger, RegistryInv, TypeOK
      <4> QED BY <2>1, <2>4, <4>1, BudgetFrame DEF RegistryInv
    <3> QED BY <1>4, <3>1, <3>2
  <2>6. Loop' BY <2>1 DEF LoopHoldsActive, AnswersPending, RegistryInv
  <2> QED BY <1>0, <2>2, <2>3, <2>5, <2>6 DEF RegistryInv
<1>5. ASSUME NEW a \in Attempts, InvalidateUnavailable(a) PROVE RegistryInv'
  <2>0. astatus[a] \in Active /\ owner[a] \in Jobs
    BY <1>5 DEF InvalidateUnavailable, RegistryInv, LoopHoldsActive, JobAttemptAgreement, AttemptMatchesJob
  <2>1. /\ UNCHANGED <<maxatt, owner, pc, report>> /\ todo' = todo \ {a} /\ pc = "invalidate"
        /\ \/ UNCHANGED <<jstatus, astatus>>
           \/ Commit(a, "unknown", "unknown")
           \/ Commit(a, "invalid", "blocked")
           \/ Commit(a, "invalid", "queued") /\ Failover(owner[a])
    BY <1>5 DEF InvalidateUnavailable
  <2>2. CASE UNCHANGED <<jstatus, astatus>>
    BY <1>0, <2>1, <2>2, FrameAgrees DEF RegistryInv, LoopHoldsActive, AnswersPending
  <2>3. ASSUME NEW s \in {"unknown", "invalid"}, NEW js \in {"unknown", "blocked", "queued"},
               Commit(a, s, js), s = "unknown" <=> js = "unknown",
               js = "queued" => Failover(owner[a])
        PROVE  RegistryInv'
    <3>1. JobAttemptAgreement'
      BY <2>0, <2>1, <2>3, CommitAgrees DEF Counting, Active, RegistryInv
    <3>2. QueuedJobHasBudget'
      BY <2>0, <2>1, <2>3, BudgetFrame
      DEF Commit, Failover, RegistryInv, TypeOK, JobStatus, Active, QueuedJobHasBudget
    <3>3. AttemptsHaveOwners'
      BY <2>0, <2>1, <2>3 DEF Commit, AttemptsHaveOwners, RegistryInv, TypeOK
    <3>4. Loop'
      BY <2>1, <2>3 DEF Commit, LoopHoldsActive, AnswersPending, RegistryInv, TypeOK
    <3> QED BY <1>0, <3>1, <3>2, <3>3, <3>4 DEF RegistryInv
  <2> QED BY <2>1, <2>2, <2>3
<1>6. ASSUME NEW a \in Attempts, NEW v \in Report, ApplyReport(a, v) PROVE RegistryInv'
  <2>0. /\ astatus[a] \in Active /\ owner[a] \in Jobs
        /\ v \in Active \cup {"succeeded", "failed"}
    BY <1>6 DEF ApplyReport, AllReported, Verdicts, Report, Active, RegistryInv, LoopHoldsActive,
                JobAttemptAgreement, AttemptMatchesJob
  <2>1. /\ UNCHANGED <<owner, pc>> /\ todo' = todo \ {a} /\ report' = [report EXCEPT ![a] = "none"]
        /\ pc = "reconcile"
    BY <1>6 DEF ApplyReport
  <2>2. PICK js \in JobStatus :
          /\ Commit(a, v, js)
          /\ \/ v # "failed" /\ js = v /\ maxatt' = maxatt
             \/ /\ v = "failed"
                /\ \E limit \in Nat : /\ maxatt' = [maxatt EXCEPT ![owner[a]] = limit]
                                      /\ Count(owner[a]) <= limit
                                      /\ js = IF Count(owner[a]) < limit THEN "queued" ELSE "failed"
    <3>1. CASE v # "failed"
      BY <1>6, <2>0, <3>1 DEF ApplyReport, JobStatus
    <3>2. CASE v = "failed"
      <4>1. PICK retry \in RetrySpecs(owner[a], Count(owner[a])) :
              /\ Commit(a, v, IF Count(owner[a]) < retry.limit THEN "queued" ELSE "failed")
              /\ maxatt' = [maxatt EXCEPT ![owner[a]] = retry.limit]
        BY <1>6, <3>2 DEF ApplyReport
      <4>2. retry.limit \in Nat /\ Count(owner[a]) <= retry.limit
        BY <2>0, CountType, RetrySpecsType DEF RegistryInv, QueuedJobHasBudget
      <4> QED BY <3>2, <4>1, <4>2 DEF JobStatus
    <3> QED BY <3>1, <3>2
  <2>3. JobAttemptAgreement'
    BY <2>0, <2>1, <2>2, CommitAgrees DEF Counting, Active, RegistryInv
  <2>4. QueuedJobHasBudget'
    BY <2>0, <2>1, <2>2, CountType, BudgetFrame DEF Commit, RegistryInv, TypeOK, JobStatus, Active
  <2>5. AttemptsHaveOwners'
    BY <2>0, <2>1, <2>2 DEF Commit, AttemptsHaveOwners, RegistryInv, TypeOK, Active
  <2>6. Loop'
    BY <2>1, <2>2 DEF Commit, LoopHoldsActive, AnswersPending, RegistryInv, TypeOK
  <2> QED BY <1>0, <2>3, <2>4, <2>5, <2>6 DEF RegistryInv
<1>7. ASSUME NEW a \in Attempts, SendLaunch(a) \/ LaunchReturns(a) PROVE RegistryInv'
  <2>1. Rows' BY <1>7, FrameAgrees DEF SendLaunch, LaunchReturns
  <2>2. Loop'
    BY <1>7 DEF SendLaunch, LaunchReturns, RegistryInv, TypeOK, LoopHoldsActive, AnswersPending, Active
  <2> QED BY <1>0, <2>1, <2>2 DEF RegistryInv
<1>8. ASSUME NEW a \in Attempts, AcknowledgeLaunch(a) PROVE RegistryInv'
  <2>0. /\ report[a] \in Active /\ Commit(a, report[a], report[a])
        /\ UNCHANGED <<maxatt, owner, pc>> /\ todo' = todo \ {a} /\ pc = "rpc" /\ a \in todo
        /\ report' = [report EXCEPT ![a] = "none"]
    BY <1>8 DEF AcknowledgeLaunch, AllReported, RegistryInv, AnswersPending
  <2>1. astatus[a] \in Active /\ owner[a] \in Jobs
    BY <2>0 DEF RegistryInv, LoopHoldsActive, JobAttemptAgreement, AttemptMatchesJob
  <2>2. JobAttemptAgreement'
    BY <2>0, <2>1, CommitAgrees DEF Counting, RegistryInv
  <2>3. QueuedJobHasBudget'
    BY <2>0, <2>1, BudgetFrame DEF Commit, RegistryInv, TypeOK, JobStatus, Active
  <2>4. AttemptsHaveOwners'
    BY <2>0, <2>1 DEF Commit, AttemptsHaveOwners, RegistryInv, TypeOK, Active
  <2>5. Loop'
    BY <2>0 DEF Commit, LoopHoldsActive, AnswersPending, RegistryInv, TypeOK
  <2> QED BY <1>0, <2>2, <2>3, <2>4, <2>5 DEF RegistryInv
<1>9. CASE Crash
  <2>1. Rows' BY <1>9, FrameAgrees DEF Crash
  <2>2. Loop' BY <1>9 DEF Crash, GoIdle, LoopHoldsActive, AnswersPending
  <2> QED BY <1>0, <2>1, <2>2 DEF RegistryInv
<1>10. CASE UNCHANGED <<jstatus, maxatt, owner, astatus, pc, todo, report>>
  <2>1. Rows' BY <1>10, FrameAgrees
  <2>2. Loop' BY <1>10 DEF LoopHoldsActive, AnswersPending, RegistryInv
  <2> QED BY <1>0, <2>1, <2>2 DEF RegistryInv
<1>11. CASE \/ ProbeCommand
            \/ \E j, d \in Jobs : AddOrderDependency(j, d)
            \/ \E n \in Nodes : ReadmitNode(n) \/ Reboot(n)
            \/ \E a \in Attempts :
                 \/ DeliverLaunch(a) \/ ClaimExecution(a) \/ FailBeforeChild(a) \/ StartChild(a)
                 \/ Heartbeat(a) \/ FinishRun(a) \/ RunnerError(a) \/ RunnerDies(a) \/ ChildEnds(a)
  BY <1>10, <1>11
  DEF ProbeCommand, AddOrderDependency, ReadmitNode, Reboot, DeliverLaunch, ClaimExecution,
      FailBeforeChild, StartChild, Heartbeat, FinishRun, RunnerError, RunnerDies, ChildEnds
<1>12. CASE UNCHANGED vars BY <1>10, <1>12 DEF vars
<1> QED
  BY <1>1, <1>2, <1>3, <1>4, <1>5, <1>6, <1>7, <1>8, <1>9, <1>11, <1>12
  DEF Next, ControllerNext, OperatorNext, RemoteNext

\* The registry and the loops of a tick: the inductive invariant behind the
\* theorems below.
THEOREM RegistryCorrect == Spec => []RegistryInv
<1>1. Init => RegistryInv BY RegistryInit
<1>2. RegistryInv /\ [Next]_vars => RegistryInv' BY RegistryNext
<1> QED BY <1>1, <1>2, PTL DEF Spec

\* Whatever transaction the controller dies after, jobs and attempts agree: an
\* active or succeeded job has exactly one attempt that speaks for it.
THEOREM AgreementHolds == Spec => []JobAttemptAgreement
<1>1. RegistryInv => JobAttemptAgreement BY DEF RegistryInv
<1> QED BY <1>1, RegistryCorrect, PTL

\* The planner may launch whatever is queued: every writer that queues a job
\* has left it an attempt.
THEOREM BudgetHolds == Spec => []QueuedJobHasBudget
<1>1. RegistryInv => QueuedJobHasBudget BY DEF RegistryInv
<1> QED BY <1>1, RegistryCorrect, PTL

-----------------------------------------------------------------------------
(* The registry implements ResultAuthority: initial states map to initial  *)
(* states, and every step to a step or a stutter.                          *)

\* An active attempt is the one that speaks for its job, which is open.
LEMMA ActiveIsAuthority ==
  ASSUME RegistryInv, NEW a \in Attempts, astatus[a] \in Active
  PROVE  /\ owner[a] \in Jobs
         /\ Authority(owner[a]) = {a}
         /\ Verdict(owner[a]) = "open"
<1>1. owner[a] \in Jobs /\ jstatus[owner[a]] = astatus[a]
  BY DEF RegistryInv, JobAttemptAgreement, AttemptMatchesJob
<1>2. \A b \in Attempts : astatus[b] \in Counting /\ owner[b] = owner[a] => b = a
  BY DEF RegistryInv, JobAttemptAgreement, OneAuthoritativeAttempt, Counting
<1> QED BY <1>1, <1>2 DEF Authority, Verdict, AttemptsOf, Counting

\* Nobody speaks for a job that is neither active nor succeeded.
LEMMA IdleHasNoAuthority ==
  ASSUME RegistryInv, NEW j \in Jobs, jstatus[j] \notin Counting
  PROVE  Authority(j) = {}
BY DEF RegistryInv, JobAttemptAgreement, AttemptMatchesJob, Authority, AttemptsOf, Counting

\* A step that leaves these four alone is invisible to ResultAuthority.
LEMMA MapUnchanged ==
  ASSUME UNCHANGED <<jstatus, owner, astatus, depends>>
  PROVE  UNCHANGED Results!avars
BY DEF Results!avars, Verdict, Authority, AttemptsOf

\* A transaction on an active attempt and its job keeps, publishes or loses the
\* authority.
LEMMA CommitRefines ==
  ASSUME RegistryInv, NEW a \in Attempts, astatus[a] \in Active,
         NEW s \in AttemptStatus, NEW js \in JobStatus, Commit(a, s, js),
         UNCHANGED <<owner, depends>>,
         \/ s \in Counting /\ js = s
         \/ s \in {"failed", "invalid"} /\ js \in {"queued", "failed", "blocked"}
  PROVE  Results!ANext \/ UNCHANGED Results!avars
<1> DEFINE j == owner[a]
<1>1. j \in Jobs /\ Authority(j) = {a} /\ Verdict(j) = "open"
  BY ActiveIsAuthority
<1>2. /\ astatus'[a] = s /\ jstatus'[j] = js
      /\ \A b \in Attempts \ {a} : astatus'[b] = astatus[b]
      /\ \A i \in Jobs \ {j} : jstatus'[i] = jstatus[i]
  BY <1>1 DEF Commit, RegistryInv, TypeOK
<1>3. {b \in Attempts : astatus'[b] # "free"} = {b \in Attempts : astatus[b] # "free"}
  BY <1>2 DEF Counting, Active
<1>4. \A i \in Jobs \ {j} : Verdict(i)' = Verdict(i) /\ Authority(i)' = Authority(i)
  BY <1>2 DEF Verdict, Authority, AttemptsOf
<1>5. Authority(j)' = IF s \in Counting THEN {a} ELSE {}
  BY <1>1, <1>2 DEF Authority, AttemptsOf, Counting
<1>6. CASE s \in Active
  <2>1. Verdict(j)' = Verdict(j) /\ Authority(j)' = Authority(j)
    BY <1>1, <1>2, <1>5, <1>6 DEF Verdict, Counting, Active
  <2>2. /\ [i \in Jobs |-> Verdict(i)'] = [i \in Jobs |-> Verdict(i)]
        /\ [i \in Jobs |-> Authority(i)'] = [i \in Jobs |-> Authority(i)]
    BY <1>4, <2>1
  <2> QED BY <1>3, <2>2 DEF Results!avars
<1>7. CASE s = "succeeded"
  <2>1. Verdict(j)' = "succeeded" /\ Authority(j)' = Authority(j)
    BY <1>1, <1>2, <1>5, <1>7 DEF Verdict, Counting, Active
  <2>2. Results!Publish(j) BY <1>1, <1>3, <1>4, <2>1 DEF Results!Publish
  <2> QED BY <1>1, <2>2 DEF Results!ANext
<1>8. CASE s \in {"failed", "invalid"}
  <2>1. PICK v \in {"open", "failed", "blocked"} : Verdict(j)' = v
    BY <1>2, <1>8 DEF Verdict, Counting, Active
  <2>2. Authority(j)' = {} BY <1>5, <1>8 DEF Counting, Active
  <2>3. Results!Lose(j, v) BY <1>1, <1>3, <1>4, <2>1, <2>2 DEF Results!Lose
  <2> QED BY <1>1, <2>3 DEF Results!ANext
<1> QED BY <1>6, <1>7, <1>8 DEF Counting, AttemptStatus

\* A transaction on a job nobody speaks for.
LEMMA IdleJobRefines ==
  ASSUME RegistryInv, NEW j \in Jobs, UNCHANGED <<owner, astatus, depends>>,
         \/ jstatus[j] = "queued" /\ jstatus' = [jstatus EXCEPT ![j] = "cancelled"]
         \/ jstatus[j] = "failed" /\ jstatus' = [jstatus EXCEPT ![j] = "queued"]
  PROVE  Results!ANext
<1>1. Authority(j) = {} BY IdleHasNoAuthority DEF Counting, Active
<1>2. \A i \in Jobs : Authority(i)' = Authority(i) BY DEF Authority, AttemptsOf
<1>3. {b \in Attempts : astatus'[b] # "free"} = {b \in Attempts : astatus[b] # "free"} OBVIOUS
<1>4. \A i \in Jobs \ {j} : Verdict(i)' = Verdict(i)
  BY DEF Verdict, RegistryInv, TypeOK
<1>5. CASE jstatus[j] = "queued" /\ jstatus' = [jstatus EXCEPT ![j] = "cancelled"]
  <2>1. Verdict(j) = "open" /\ Verdict(j)' = "cancelled"
    BY <1>5 DEF Verdict, RegistryInv, TypeOK, Active
  <2>2. Results!Cancel(j) BY <1>1, <1>2, <1>3, <1>4, <2>1 DEF Results!Cancel
  <2> QED BY <2>2 DEF Results!ANext
<1>6. CASE jstatus[j] = "failed" /\ jstatus' = [jstatus EXCEPT ![j] = "queued"]
  <2>1. Verdict(j) = "failed" /\ Verdict(j)' = "open"
    BY <1>6 DEF Verdict, RegistryInv, TypeOK, Active
  <2>2. Results!Reopen(j) BY <1>2, <1>3, <1>4, <2>1 DEF Results!Reopen
  <2> QED BY <2>2 DEF Results!ANext
<1> QED BY <1>5, <1>6

\* A batch of reservations is a grant.
LEMMA ReserveRefines ==
  ASSUME RegistryInv, Reserve
  PROVE  Results!Grant
<1>1. PICK batch \in SUBSET {a \in Attempts : astatus[a] = "free"} :
        \E job \in [batch -> Jobs], node \in [batch -> Nodes] :
          /\ batch # {}
          /\ \A a \in batch : Ready(job[a], node[a])
          /\ \A a, b \in batch : job[a] = job[b] => a = b
          /\ owner'   = [a \in Attempts |-> IF a \in batch THEN job[a] ELSE owner[a]]
          /\ astatus' = [a \in Attempts |-> IF a \in batch THEN "starting" ELSE astatus[a]]
          /\ jstatus' = [j \in Jobs |-> IF \E a \in batch : job[a] = j THEN "starting" ELSE jstatus[j]]
  BY DEF Reserve
<1>2. PICK job \in [batch -> Jobs], node \in [batch -> Nodes] :
        /\ batch # {}
        /\ \A a \in batch : Ready(job[a], node[a])
        /\ \A a, b \in batch : job[a] = job[b] => a = b
        /\ owner'   = [a \in Attempts |-> IF a \in batch THEN job[a] ELSE owner[a]]
        /\ astatus' = [a \in Attempts |-> IF a \in batch THEN "starting" ELSE astatus[a]]
        /\ jstatus' = [j \in Jobs |-> IF \E a \in batch : job[a] = j THEN "starting" ELSE jstatus[j]]
  BY <1>1
<1>3. \A a \in batch : a \in Attempts /\ astatus[a] = "free" /\ owner[a] \notin Jobs
  BY LifecycleAssumption DEF RegistryInv, AttemptsHaveOwners, LifecycleAssumption
<1>4. \A a \in batch :
        /\ job[a] \in Jobs /\ jstatus[job[a]] = "queued"
        /\ \A d \in depends[job[a]] : d \in Jobs /\ jstatus[d] = "succeeded"
  BY <1>2 DEF Ready, RegistryInv, TypeOK
<1>5. \A a \in batch : Verdict(job[a]) = "open" /\ Authority(job[a]) = {}
  BY <1>4, IdleHasNoAuthority DEF Verdict, Counting, Active
<1>6. \A a \in batch : \A d \in depends[job[a]] : Verdict(d) = "succeeded"
  BY <1>4 DEF Verdict, Active
<1>7. \A j \in Jobs : Verdict(j)' = Verdict(j)
  BY <1>2, <1>4 DEF Verdict, Active
<1>8. ASSUME NEW j \in Jobs
      PROVE  Authority(j)' = Authority(j) \cup {a \in batch : job[a] = j}
  BY <1>2, <1>3 DEF Authority, AttemptsOf, Active
<1>9. {a \in Attempts : astatus'[a] # "free"} = {a \in Attempts : astatus[a] # "free"} \cup batch
  BY <1>2, <1>3
<1>10. depends' = depends BY DEF Reserve
<1>11. batch \in SUBSET (Attempts \ {a \in Attempts : astatus[a] # "free"})
  BY <1>3
<1> DEFINE verdict == [j \in Jobs |-> Verdict(j)]
           authority == [j \in Jobs |-> Authority(j)]
<1>12. \A a \in batch :
         /\ verdict[job[a]] = "open" /\ authority[job[a]] = {}
         /\ \A d \in depends[job[a]] : verdict[d] = "succeeded"
  BY <1>4, <1>5, <1>6
<1>13. verdict' = verdict BY <1>7
<1>14. authority' = [j \in Jobs |-> authority[j] \cup {a \in batch : job[a] = j}]
  BY <1>8
<1> HIDE DEF verdict, authority
<1> QED BY <1>2, <1>9, <1>10, <1>11, <1>12, <1>13, <1>14 DEF Results!Grant, verdict, authority

\* Fresh and inherited registries map to initial states.
LEMMA RefinesInit == Init => Results!AInit
<1> SUFFICES ASSUME Init PROVE Results!AInit OBVIOUS
<1>1. depends = DependsOn BY DEF Init
<1>2. CASE FreshRegistry
  <2>1. \A j \in Jobs : Verdict(j) = "open" /\ Authority(j) = {}
    BY <1>2 DEF FreshRegistry, Verdict, Authority, AttemptsOf, Active
  <2>2. {a \in Attempts : astatus[a] # "free"} = {} BY <1>2 DEF FreshRegistry
  <2> QED BY <1>1, <2>1, <2>2 DEF Results!AInit
<1>3. CASE InheritedRegistry
  <2>1. PICK a \in Attempts, i \in Jobs :
          /\ DependsOn[i] = {}
          /\ jstatus = [k \in Jobs |-> IF k = i THEN "running" ELSE "queued"]
          /\ owner   = [b \in Attempts |-> IF b = a THEN i ELSE None]
          /\ astatus = [b \in Attempts |-> IF b = a THEN "running" ELSE "free"]
    BY <1>3 DEF InheritedRegistry
  <2>2. \A j \in Jobs : Verdict(j) = "open"
    BY <2>1 DEF Verdict, Active
  <2>3. \A j \in Jobs : Authority(j) = IF j = i THEN {a} ELSE {}
    BY <2>1, LifecycleAssumption DEF Authority, AttemptsOf, Active, LifecycleAssumption
  <2>4. {b \in Attempts : astatus[b] # "free"} = {a} BY <2>1
  <2>5. [j \in Jobs |-> Authority(j)] = [j \in Jobs |-> IF j = i THEN {a} ELSE {}]
    BY <2>3
  <2> QED BY <1>1, <2>1, <2>2, <2>4, <2>5 DEF Results!AInit
<1> QED BY <1>2, <1>3 DEF Init

\* Every step of the registry is a step of ResultAuthority or a stutter.
LEMMA RefinesNext ==
  ASSUME RegistryInv, [Next]_vars
  PROVE  Results!ANext \/ UNCHANGED Results!avars
<1> USE DEF registry
<1>1. CASE Reserve BY <1>1, ReserveRefines DEF Results!ANext
<1>2. ASSUME NEW j \in Jobs, RetryValidation(j) \/ CancelPending(j) \/ RetryFailed(j)
      PROVE  Results!ANext
  <2>1. /\ UNCHANGED <<owner, astatus, depends>>
        /\ \/ jstatus[j] = "queued" /\ jstatus' = [jstatus EXCEPT ![j] = "cancelled"]
           \/ jstatus[j] = "failed" /\ jstatus' = [jstatus EXCEPT ![j] = "queued"]
    BY <1>2 DEF RetryValidation, CancelPending, RetryFailed
  <2> QED BY <2>1, IdleJobRefines
<1>3. ASSUME NEW j \in Jobs, NEW d \in Jobs, AddOrderDependency(j, d)
      PROVE  Results!ANext
  <2>1. /\ jstatus[j] = "queued" /\ UNCHANGED <<jstatus, owner, astatus>>
        /\ depends' = [depends EXCEPT ![j] = @ \cup {d}]
    BY <1>3 DEF AddOrderDependency
  <2>2. Verdict(j) = "open" /\ Authority(j) = {}
    BY <2>1, IdleHasNoAuthority DEF Verdict, Counting, Active
  <2>3. /\ [i \in Jobs |-> Verdict(i)'] = [i \in Jobs |-> Verdict(i)]
        /\ [i \in Jobs |-> Authority(i)'] = [i \in Jobs |-> Authority(i)]
    BY <2>1 DEF Verdict, Authority, AttemptsOf
  <2>4. Results!AddGate(j, d) BY <2>1, <2>2, <2>3 DEF Results!AddGate
  <2> QED BY <2>4 DEF Results!ANext
<1>4. ASSUME NEW a \in Attempts, InvalidateUnavailable(a)
      PROVE  Results!ANext \/ UNCHANGED Results!avars
  <2>0. astatus[a] \in Active
    BY <1>4 DEF InvalidateUnavailable, RegistryInv, LoopHoldsActive
  <2>1. /\ UNCHANGED <<owner, depends>>
        /\ \/ UNCHANGED <<jstatus, astatus>>
           \/ Commit(a, "unknown", "unknown")
           \/ Commit(a, "invalid", "blocked")
           \/ Commit(a, "invalid", "queued")
    BY <1>4 DEF InvalidateUnavailable
  <2>2. CASE UNCHANGED <<jstatus, astatus>> BY <2>1, <2>2, MapUnchanged
  <2>3. CASE Commit(a, "unknown", "unknown")
    BY <2>0, <2>1, <2>3, CommitRefines DEF Counting, Active, AttemptStatus, JobStatus
  <2>4. ASSUME NEW js \in {"blocked", "queued"}, Commit(a, "invalid", js)
        PROVE  Results!ANext \/ UNCHANGED Results!avars
    BY <2>0, <2>1, <2>4, CommitRefines DEF AttemptStatus, JobStatus
  <2> QED BY <2>1, <2>2, <2>3, <2>4
<1>5. ASSUME NEW a \in Attempts, NEW v \in Report, ApplyReport(a, v)
      PROVE  Results!ANext \/ UNCHANGED Results!avars
  <2>0. astatus[a] \in Active /\ v \in Counting \cup {"failed"}
    BY <1>5 DEF ApplyReport, AllReported, Verdicts, Report, Active, Counting, RegistryInv, LoopHoldsActive
  <2>1. /\ UNCHANGED <<owner, depends>>
        /\ \/ v # "failed" /\ Commit(a, v, v)
           \/ v = "failed" /\ \E js \in {"queued", "failed"} : Commit(a, v, js)
    BY <1>5 DEF ApplyReport
  <2>2. v \in AttemptStatus /\ (v # "failed" => v \in JobStatus /\ v \in Counting)
    BY <2>0 DEF Counting, AttemptStatus, JobStatus
  <2>3. "queued" \in JobStatus /\ "failed" \in JobStatus BY DEF JobStatus
  <2> QED BY <2>0, <2>1, <2>2, <2>3, CommitRefines
<1>6. ASSUME NEW a \in Attempts, AcknowledgeLaunch(a)
      PROVE  Results!ANext \/ UNCHANGED Results!avars
  <2>1. /\ astatus[a] \in Active /\ report[a] \in Active
        /\ Commit(a, report[a], report[a]) /\ UNCHANGED <<owner, depends>>
    BY <1>6 DEF AcknowledgeLaunch, AllReported, RegistryInv, AnswersPending, LoopHoldsActive
  <2> QED BY <2>1, CommitRefines DEF Counting, AttemptStatus, JobStatus
<1>7. CASE UNCHANGED <<jstatus, owner, astatus, depends>> BY <1>7, MapUnchanged
<1>8. CASE \/ BeginTick \/ RefreshBeforeLaunch \/ EndInvalidate \/ EndReconcile
           \/ EndLaunchBatch \/ EndLaunches \/ Crash \/ ProbeCommand
           \/ \E n \in Nodes : ReadNode(n) \/ ReadmitNode(n) \/ Reboot(n)
           \/ \E a \in Attempts : SendLaunch(a) \/ LaunchReturns(a)
  BY <1>7, <1>8
  DEF BeginTick, RefreshBeforeLaunch, EndInvalidate, EndReconcile, EndLaunchBatch, EndLaunches,
      Crash, ProbeCommand, ReadNode, ReadmitNode, Reboot, SendLaunch, LaunchReturns
<1>9. CASE \E a \in Attempts :
             \/ DeliverLaunch(a) \/ ClaimExecution(a) \/ FailBeforeChild(a) \/ StartChild(a)
             \/ Heartbeat(a) \/ FinishRun(a) \/ RunnerError(a) \/ RunnerDies(a) \/ ChildEnds(a)
  BY <1>7, <1>9
  DEF DeliverLaunch, ClaimExecution, FailBeforeChild, StartChild, Heartbeat, FinishRun,
      RunnerError, RunnerDies, ChildEnds
<1>10. CASE UNCHANGED vars BY <1>7, <1>10 DEF vars
<1> QED
  BY <1>1, <1>2, <1>3, <1>4, <1>5, <1>6, <1>8, <1>9, <1>10
  DEF Next, ControllerNext, OperatorNext, RemoteNext

\* The registry, whatever crashes, is lost or arrives late, keeps the promise of
\* ResultAuthority: one attempt at a time speaks for a job, never one that has
\* lost its authority, and a published success is final.
THEOREM RegistryKeepsResults == Spec => ImplementsResultAuthority
<1>1. Init => Results!AInit BY RefinesInit
<1>2. RegistryInv /\ [Next]_vars => [Results!ANext]_(Results!avars)
  BY RefinesNext
<1> QED BY <1>1, <1>2, RegistryCorrect, PTL DEF Spec, ImplementsResultAuthority, Results!ASpec

-----------------------------------------------------------------------------
(* What the registry says of an attempt and what happens on its node:      *)
(* executions never overlap, verdicts are backed, no report makes a tick   *)
(* raise.  The inductive invariant.                                        *)

\* The directory, the runner and the child of an attempt, in the order in which
\* one claims after the other; a reboot ends the processes, and only those.
OnNode ==
  \A a \in Attempts :
    /\ wire[a] = "sent" => receipt[a] = "absent"
    /\ receipt[a] = "absent" => runner[a] = "none"
    /\ receipt[a] \in {"absent", "empty"} => child[a] = "none"
    /\ runner[a] = "none" => receipt[a] \in {"absent", "empty"}
    /\ runner[a] = "pending" => receipt[a] = "empty"
    /\ runner[a] = "working" => receipt[a] = "starting" /\ child[a] = "none" /\ fresh[a]
    /\ runner[a] = "watching" => receipt[a] \in {"starting", "running"} /\ child[a] = "live" /\ fresh[a]
    /\ child[a] = "live" => fresh[a] /\ runner[a] \in {"watching", "gone"}
    /\ spawns[a] = IF child[a] = "none" THEN 0 ELSE 1

\* Nothing of the attempt runs, and nothing of it ever will.
Settled(a) == receipt[a] \notin {"absent", "empty"} /\ ~MayRun(a)

\* Nothing has left for the node yet.
Unsent(a) == wire[a] = "idle" /\ receipt[a] = "absent"

\* A launch leaves for an attempt reserved in this very batch, and only once.
LaunchesAreFresh ==
  /\ \A a \in Attempts : astatus[a] = "free" => Unsent(a)
  /\ pc = "rpc" => \A a \in todo :
       /\ astatus[a] = "starting"
       /\ wire[a] = "idle" => receipt[a] = "absent"
       /\ report[a] \in {"none", "starting", "unknown"}

\* A final report was true when the node gave it, and has stayed so; so is what
\* the registry makes of it, but for a model's run that failed.
FinalIsSettled ==
  \A a \in Attempts :
    /\ astatus[a] = "succeeded" \/ report[a] \in Terminal => Settled(a)
    /\ astatus[a] = "failed" => Settled(a) \/ MayBeOom(a)
    /\ astatus[a] = "succeeded" \/ report[a] = "succeeded" => receipt[a] = "succeeded"

\* An attempt known to run does not go back to starting.
RunningIsPast ==
  \A a \in Attempts :
    /\ astatus[a] = "running" \/ report[a] = "running" => receipt[a] \notin {"absent", "empty", "starting"}
    /\ pc = "reconcile" /\ report[a] = "starting" => astatus[a] # "running"

\* Without failover, an invalid attempt is the last of its job, and those
\* before it failed.
InvalidEndsUnsafe ==
  \A a \in Attempts :
    astatus[a] = "invalid" /\ owner[a] \notin FailoverSafe =>
      /\ jstatus[owner[a]] = "blocked"
      /\ \A b \in Attempts \ {a} : owner[b] = owner[a] => astatus[b] = "failed"

ExecutionInv ==
  OnNode /\ LaunchesAreFresh /\ FinalIsSettled /\ RunningIsPast /\ InvalidEndsUnsafe

-----------------------------------------------------------------------------
(* What a step does to the node.                                           *)

\* Steps of the controller and of operators leave the node alone, but for the
\* launch RPC; steps of the node leave the registry and the controller alone.
LEMMA StepKinds ==
  ASSUME [Next]_vars
  PROVE  \/ UNCHANGED remote
         \/ \E a \in Attempts : SendLaunch(a) \/ LaunchReturns(a)
         \/ Crash
         \/ RemoteNext /\ UNCHANGED <<registry, health, control>>
<1>1. CASE ControllerNext
  BY <1>1
  DEF ControllerNext, BeginTick, RefreshBeforeLaunch, EndInvalidate, EndReconcile, Reserve, EndLaunchBatch,
      EndLaunches, ReadNode, RetryValidation, InvalidateUnavailable, ApplyReport, AcknowledgeLaunch
<1>2. CASE OperatorNext
  BY <1>2 DEF OperatorNext, ProbeCommand, CancelPending, RetryFailed, AddOrderDependency, ReadmitNode
<1>3. CASE RemoteNext
  BY <1>3
  DEF RemoteNext, DeliverLaunch, ClaimExecution, FailBeforeChild, StartChild, Heartbeat, FinishRun,
      RunnerError, RunnerDies, ChildEnds, Reboot
<1>4. CASE UNCHANGED vars BY <1>4 DEF vars
<1> QED BY <1>1, <1>2, <1>3, <1>4 DEF Next

\* The order on the node is kept.
LEMMA OnNodeNext ==
  ASSUME TypeOK, OnNode, LaunchesAreFresh, [Next]_vars
  PROVE  OnNode'
<1> USE DEF OnNode, TypeOK, remote
<1>1. CASE UNCHANGED remote
  BY <1>1
<1>2. ASSUME NEW a \in Attempts, SendLaunch(a) PROVE OnNode'
  BY <1>2 DEF SendLaunch, LaunchesAreFresh
<1>3. ASSUME NEW a \in Attempts, LaunchReturns(a) PROVE OnNode'
  BY <1>3 DEF LaunchReturns
<1>4. CASE Crash
  BY <1>4 DEF Crash
<1>5. ASSUME NEW a \in Attempts, DeliverLaunch(a) PROVE OnNode'
  BY <1>5 DEF DeliverLaunch
<1>6. ASSUME NEW a \in Attempts, ClaimExecution(a) PROVE OnNode'
  BY <1>6 DEF ClaimExecution, Unclaimed
<1>7. ASSUME NEW a \in Attempts, FailBeforeChild(a) PROVE OnNode'
  BY <1>7 DEF FailBeforeChild
<1>8. ASSUME NEW a \in Attempts, StartChild(a) PROVE OnNode'
  BY <1>8 DEF StartChild
<1>9. ASSUME NEW a \in Attempts, Heartbeat(a) PROVE OnNode'
  BY <1>9 DEF Heartbeat
<1>10. ASSUME NEW a \in Attempts, FinishRun(a) PROVE OnNode'
  BY <1>10 DEF FinishRun, Terminal
<1>11. ASSUME NEW a \in Attempts, RunnerError(a) PROVE OnNode'
  BY <1>11 DEF RunnerError
<1>12. ASSUME NEW a \in Attempts, RunnerDies(a) PROVE OnNode'
  BY <1>12 DEF RunnerDies
<1>13. ASSUME NEW a \in Attempts, ChildEnds(a) PROVE OnNode'
  BY <1>13 DEF ChildEnds
<1>14. ASSUME NEW n \in Nodes, Reboot(n) PROVE OnNode'
  BY <1>14 DEF Reboot
<1> QED
  BY StepKinds, <1>1, <1>2, <1>3, <1>4, <1>5, <1>6, <1>7, <1>8, <1>9, <1>10, <1>11, <1>12, <1>13, <1>14
  DEF RemoteNext

\* A receipt moves on only with its runner, and never back to starting.
LEMMA ReceiptMovesOn ==
  ASSUME TypeOK, OnNode, LaunchesAreFresh, [Next]_vars, NEW a \in Attempts,
         receipt[a] \notin {"absent", "empty"}
  PROVE  /\ receipt'[a] \notin {"absent", "empty"}
         /\ receipt[a] # "starting" => receipt'[a] # "starting"
         /\ runner[a] \notin {"working", "watching"} => receipt'[a] = receipt[a]
<1> USE DEF OnNode, TypeOK, remote
<1>1. CASE UNCHANGED remote \/ Crash \/ \E b \in Attempts : SendLaunch(b) \/ LaunchReturns(b)
  BY <1>1 DEF Crash, SendLaunch, LaunchReturns
<1>2. ASSUME NEW b \in Attempts, DeliverLaunch(b) \/ ClaimExecution(b) PROVE b # a
  BY <1>2 DEF DeliverLaunch, ClaimExecution, Unclaimed
<1>3. CASE RemoteNext
  BY <1>2, <1>3
  DEF RemoteNext, DeliverLaunch, ClaimExecution, FailBeforeChild, StartChild, Heartbeat, FinishRun,
      RunnerError, RunnerDies, ChildEnds, Reboot, Terminal
<1> QED BY StepKinds, <1>1, <1>3

\* What is settled stays so, with its receipt.
LEMMA SettledStays ==
  ASSUME TypeOK, OnNode, LaunchesAreFresh, [Next]_vars, NEW a \in Attempts, Settled(a)
  PROVE  Settled(a)' /\ receipt'[a] = receipt[a]
<1> USE DEF Settled, MayRun, OnNode, TypeOK, remote
<1>1. receipt'[a] = receipt[a] BY ReceiptMovesOn
<1>2. CASE UNCHANGED remote \/ Crash \/ \E b \in Attempts : SendLaunch(b) \/ LaunchReturns(b)
  BY <1>1, <1>2 DEF Crash, SendLaunch, LaunchReturns, LaunchesAreFresh
<1>3. CASE RemoteNext
  BY <1>1, <1>3
  DEF RemoteNext, DeliverLaunch, ClaimExecution, Unclaimed, FailBeforeChild, StartChild, Heartbeat, FinishRun,
      RunnerError, RunnerDies, ChildEnds, Reboot
<1> QED BY StepKinds, <1>2, <1>3

-----------------------------------------------------------------------------
(* What a step makes of one attempt's status and report.                   *)

\* Who writes the status of an attempt, and what.
LEMMA StatusSteps ==
  ASSUME RegistryInv, [Next]_vars, NEW a \in Attempts
  PROVE  \/ astatus'[a] = astatus[a]
         \/ Reserve /\ astatus[a] = "free" /\ astatus'[a] = "starting" /\ a \in todo'
         \/ InvalidateUnavailable(a) /\ astatus'[a] \in {"unknown", "invalid"}
         \/ \E v \in Report : ApplyReport(a, v) /\ astatus'[a] = v
         \/ AcknowledgeLaunch(a) /\ astatus'[a] = report[a]
<1> USE DEF RegistryInv, TypeOK, registry
<1>1. ASSUME Reserve
      PROVE  astatus'[a] = astatus[a] \/ (astatus[a] = "free" /\ astatus'[a] = "starting" /\ a \in todo')
  <2>1. PICK batch \in SUBSET {b \in Attempts : astatus[b] = "free"} :
          /\ astatus' = [b \in Attempts |-> IF b \in batch THEN "starting" ELSE astatus[b]]
          /\ todo' = batch
    BY <1>1 DEF Reserve
  <2> QED BY <2>1
<1>2. ASSUME NEW b \in Attempts, InvalidateUnavailable(b)
      PROVE  astatus'[a] = astatus[a] \/ (a = b /\ astatus'[a] \in {"unknown", "invalid"})
  BY <1>2 DEF InvalidateUnavailable, Commit
<1>3. ASSUME NEW b \in Attempts, NEW v \in Report, ApplyReport(b, v)
      PROVE  astatus'[a] = astatus[a] \/ (a = b /\ astatus'[a] = v)
  BY <1>3 DEF ApplyReport, Commit
<1>4. ASSUME NEW b \in Attempts, AcknowledgeLaunch(b)
      PROVE  astatus'[a] = astatus[a] \/ (a = b /\ astatus'[a] = report[a])
  BY <1>4 DEF AcknowledgeLaunch, Commit
<1>5. CASE UNCHANGED astatus
  BY <1>5
<1>6. CASE OperatorNext \/ RemoteNext \/ Crash \/ UNCHANGED vars
  <2>1. UNCHANGED astatus
    BY <1>6, StepKinds
    DEF OperatorNext, ProbeCommand, CancelPending, RetryFailed, AddOrderDependency, ReadmitNode, Crash, vars,
        RemoteNext, DeliverLaunch, ClaimExecution, FailBeforeChild, StartChild, Heartbeat, FinishRun,
        RunnerError, RunnerDies, ChildEnds, Reboot
  <2> QED BY <2>1
<1>7. CASE ControllerNext
  BY <1>1, <1>2, <1>3, <1>4, <1>5, <1>7
  DEF ControllerNext, BeginTick, RefreshBeforeLaunch, EndInvalidate, EndReconcile, EndLaunchBatch,
      EndLaunches, ReadNode, RetryValidation, SendLaunch, LaunchReturns
<1> QED BY <1>6, <1>7 DEF Next

\* Who writes a report, and what.
LEMMA ReportSteps ==
  ASSUME RegistryInv, [Next]_vars, NEW a \in Attempts
  PROVE  \/ report'[a] \in {report[a], "none", "unknown"}
         \/ LaunchReturns(a) /\ report'[a] = "starting"
         \/ pc = "reconcile" /\ report'[a] = ReadStatus(a) /\ UNCHANGED <<registry, remote, pc, todo>>
<1> USE DEF RegistryInv, TypeOK, control
<1>1. ASSUME NEW n \in Nodes, ReadNode(n)
      PROVE  \/ report'[a] \in {report[a], "unknown"}
             \/ pc = "reconcile" /\ report'[a] = ReadStatus(a) /\ UNCHANGED <<registry, remote, pc, todo>>
  BY <1>1 DEF ReadNode
<1>2. ASSUME NEW b \in Attempts, LaunchReturns(b)
      PROVE  report'[a] \in {report[a], "unknown"} \/ (a = b /\ report'[a] = "starting")
  BY <1>2 DEF LaunchReturns
<1>3. CASE Crash \/ EndReconcile \/ EndLaunches \/ EndInvalidate
  BY <1>3 DEF Crash, EndReconcile, EndLaunches, EndInvalidate, GoIdle, StartReconcile
<1>4. ASSUME NEW b \in Attempts, AcknowledgeLaunch(b) \/ \E v \in Report : ApplyReport(b, v)
      PROVE  report'[a] \in {report[a], "none"}
  BY <1>4 DEF AcknowledgeLaunch, ApplyReport
<1>5. CASE UNCHANGED report
  BY <1>5
<1>6. CASE OperatorNext \/ RemoteNext \/ UNCHANGED vars
  <2>1. UNCHANGED report
    BY <1>6
    DEF OperatorNext, ProbeCommand, CancelPending, RetryFailed, AddOrderDependency, ReadmitNode, vars,
        RemoteNext, DeliverLaunch, ClaimExecution, FailBeforeChild, StartChild, Heartbeat, FinishRun,
        RunnerError, RunnerDies, ChildEnds, Reboot
  <2> QED BY <2>1
<1>7. CASE ControllerNext
  BY <1>1, <1>2, <1>3, <1>4, <1>5, <1>7
  DEF ControllerNext, BeginTick, RefreshBeforeLaunch, EndLaunchBatch, Reserve,
      RetryValidation, SendLaunch, InvalidateUnavailable
<1> QED BY <1>3, <1>6, <1>7 DEF Next

\* reconcile() begins without answers, but for the nodes in recovery.
LEMMA ReconcileStartsEmpty ==
  ASSUME [Next]_vars, pc # "reconcile", pc' = "reconcile", NEW a \in Attempts
  PROVE  report'[a] \in {"none", "unknown"}
<1> USE DEF control
<1>1. CASE EndInvalidate \/ EndLaunches
  BY <1>1 DEF EndInvalidate, EndLaunches, GoIdle, StartReconcile
<1>2. CASE ControllerNext
  BY <1>1, <1>2
  DEF ControllerNext, BeginTick, RefreshBeforeLaunch, EndReconcile, GoIdle, EndLaunchBatch, Reserve, ReadNode,
      RetryValidation, InvalidateUnavailable, ApplyReport, SendLaunch, LaunchReturns, AcknowledgeLaunch
<1>3. CASE OperatorNext \/ RemoteNext \/ Crash \/ UNCHANGED vars
  BY <1>3
  DEF OperatorNext, ProbeCommand, CancelPending, RetryFailed, AddOrderDependency, ReadmitNode, vars,
      RemoteNext, DeliverLaunch, ClaimExecution, FailBeforeChild, StartChild, Heartbeat, FinishRun,
      RunnerError, RunnerDies, ChildEnds, Reboot, Crash, GoIdle
<1> QED BY <1>2, <1>3 DEF Next

\* A batch of launches is filled by its reservation only.
LEMMA BatchShrinks ==
  ASSUME TypeOK, [Next]_vars, pc' = "rpc", ~Reserve
  PROVE  /\ pc = "rpc" /\ todo' \subseteq todo
         /\ \A a \in todo' : ~AcknowledgeLaunch(a)
<1> USE DEF control
<1>0. \A a \in todo' : ~AcknowledgeLaunch(a) BY DEF AcknowledgeLaunch
<1> SUFFICES pc = "rpc" /\ todo' \subseteq todo BY <1>0
<1>1. CASE \/ BeginTick \/ RefreshBeforeLaunch \/ EndReconcile \/ EndLaunchBatch \/ EndLaunches
           \/ \E j \in Jobs : RetryValidation(j)
  BY <1>1 DEF BeginTick, RefreshBeforeLaunch, EndLaunches, StartReconcile, EndReconcile, GoIdle, EndLaunchBatch,
              RetryValidation
<1>2. ~EndInvalidate
  BY DEF EndInvalidate, StartReconcile, TypeOK
<1>3. CASE \E n \in Nodes : ReadNode(n)
  BY <1>3 DEF ReadNode
<1>4. ASSUME NEW a \in Attempts,
             \/ InvalidateUnavailable(a) \/ SendLaunch(a) \/ LaunchReturns(a) \/ AcknowledgeLaunch(a)
             \/ \E v \in Report : ApplyReport(a, v)
      PROVE  pc = "rpc" /\ todo' \subseteq todo
  BY <1>4 DEF InvalidateUnavailable, ApplyReport, SendLaunch, LaunchReturns, AcknowledgeLaunch
<1>5. CASE OperatorNext \/ RemoteNext \/ Crash \/ UNCHANGED vars
  BY <1>5
  DEF OperatorNext, ProbeCommand, CancelPending, RetryFailed, AddOrderDependency, ReadmitNode, vars,
      RemoteNext, DeliverLaunch, ClaimExecution, FailBeforeChild, StartChild, Heartbeat, FinishRun,
      RunnerError, RunnerDies, ChildEnds, Reboot, Crash, GoIdle
<1> QED BY <1>1, <1>2, <1>3, <1>4, <1>5 DEF Next, ControllerNext

\* A final answer of the node is true for good: a terminal receipt with a dead
\* group, or a reboot.
LEMMA FinalAnswerSettles ==
  ASSUME OnNode, TypeOK, NEW a \in Attempts, ReadStatus(a) \in Terminal
  PROVE  /\ Settled(a)
         /\ ReadStatus(a) = "succeeded" => receipt[a] = "succeeded"
<1> USE DEF OnNode, TypeOK, ReadStatus, Terminal, Active
<1>1. receipt[a] \notin {"absent", "empty"} OBVIOUS
<1>2. CASE receipt[a] \in Terminal
  <2>1. ReadStatus(a) = receipt[a] /\ child[a] # "live" BY <1>2
  <2> QED BY <1>1, <1>2, <2>1 DEF Settled, MayRun
<1>3. CASE receipt[a] \in Active
  <2>1. ReadStatus(a) = "failed" /\ ~fresh[a] BY <1>3
  <2> QED BY <1>1, <1>3, <2>1 DEF Settled, MayRun
<1> QED BY <1>1, <1>2, <1>3 DEF Receipt

\* Final verdicts are taken from final reports, or from a model's failed receipt.
LEMMA VerdictOfReport ==
  ASSUME NEW a \in Attempts, NEW v \in Report, ApplyReport(a, v)
  PROVE  /\ pc = "reconcile" /\ report[a] # "none"
         /\ v \in {"succeeded", "running", "starting"} => v = report[a]
         /\ v = "failed" => v = report[a] \/ MayBeOom(a)
BY DEF ApplyReport, AllReported, Verdicts

-----------------------------------------------------------------------------
(* The invariant is inductive.                                             *)

\* An attempt is told to run only after its heartbeat, which nothing takes back.
LEMMA PastNext ==
  ASSUME RegistryInv, ExecutionInv, [Next]_vars
  PROVE  RunningIsPast'
<1> SUFFICES ASSUME NEW a \in Attempts
             PROVE  /\ astatus'[a] = "running" \/ report'[a] = "running"
                         => receipt'[a] \notin {"absent", "empty", "starting"}
                    /\ pc' = "reconcile" /\ report'[a] = "starting" => astatus'[a] # "running"
  BY DEF RunningIsPast
<1> USE DEF RegistryInv, ExecutionInv
<1>1. ASSUME receipt[a] \notin {"absent", "empty", "starting"}
      PROVE  receipt'[a] \notin {"absent", "empty", "starting"}
  BY <1>1, ReceiptMovesOn
<1>2. ReadStatus(a) = "running" => receipt[a] \notin {"absent", "empty", "starting"}
  BY DEF ReadStatus, Terminal, Active, TypeOK, Receipt
<1>3. ReadStatus(a) = "starting" => receipt[a] = "starting"
  BY DEF ReadStatus, Terminal, Active, TypeOK, Receipt
<1>4. astatus'[a] = "running" => astatus[a] = "running" \/ report[a] = "running"
  BY StatusSteps, VerdictOfReport
<1>5. report'[a] = "running" => report[a] = "running" \/ ReadStatus(a) = "running"
  BY ReportSteps
<1>6. ASSUME pc' = "reconcile", report'[a] = "starting" PROVE astatus'[a] # "running"
  <2>1. CASE report[a] = "starting" /\ pc = "reconcile"
    BY <1>6, <2>1, StatusSteps, VerdictOfReport
    DEF RunningIsPast, Reserve, AcknowledgeLaunch
  <2>2. pc = "reconcile" BY <1>6, ReconcileStartsEmpty
  <2>3. CASE LaunchReturns(a)
    BY <1>6, <2>3 DEF LaunchReturns
  <2>4. CASE report'[a] = ReadStatus(a) /\ UNCHANGED <<registry, remote, pc, todo>>
    BY <1>6, <1>3, <2>4 DEF registry, RunningIsPast
  <2> QED BY <1>6, <2>1, <2>2, <2>3, <2>4, ReportSteps
<1> QED BY <1>1, <1>2, <1>4, <1>5, <1>6 DEF RunningIsPast

\* What a batch reserves has never been sent, and its answers are of launches.
LEMMA LaunchesNext ==
  ASSUME RegistryInv, ExecutionInv, [Next]_vars
  PROVE  LaunchesAreFresh'
<1> USE DEF RegistryInv, ExecutionInv, TypeOK
<1>1. ASSUME NEW a \in Attempts, Unsent(a), ~(pc = "rpc" /\ a \in todo)
      PROVE  Unsent(a)'
  <2>1. ~SendLaunch(a) BY <1>1 DEF SendLaunch
  <2> QED
    BY <1>1, <2>1, StepKinds
    DEF Unsent, OnNode, remote, SendLaunch, LaunchReturns, Crash, RemoteNext, DeliverLaunch, ClaimExecution, Unclaimed,
        FailBeforeChild, StartChild, Heartbeat, FinishRun, RunnerError, RunnerDies, ChildEnds, Reboot
<1>2. ASSUME NEW a \in Attempts, astatus'[a] = "free" PROVE Unsent(a)'
  <2>1. astatus[a] = "free"
    BY <1>2, StatusSteps DEF Report, Active, AcknowledgeLaunch, AllReported
  <2>2. ~(pc = "rpc" /\ a \in todo) BY <2>1 DEF LaunchesAreFresh
  <2> QED BY <1>1, <2>1, <2>2 DEF LaunchesAreFresh
<1>3. ASSUME pc' = "rpc", NEW a \in todo'
      PROVE  /\ astatus'[a] = "starting"
             /\ wire'[a] = "idle" => receipt'[a] = "absent"
             /\ report'[a] \in {"none", "starting", "unknown"}
  <2>0. a \in Attempts BY TypeNext
  <2>1. CASE Reserve
    <3>1. PICK batch \in SUBSET {b \in Attempts : astatus[b] = "free"} :
            /\ astatus' = [b \in Attempts |-> IF b \in batch THEN "starting" ELSE astatus[b]]
            /\ todo' = batch
      BY <2>1 DEF Reserve
    <3>2. pc = "launch" /\ UNCHANGED <<report, remote>> BY <2>1 DEF Reserve
    <3>3. report[a] = "none" BY <2>0, <3>2 DEF AnswersPending
    <3>4. astatus[a] = "free" /\ astatus'[a] = "starting" BY <1>3, <2>0, <3>1
    <3> QED BY <2>0, <3>2, <3>3, <3>4 DEF LaunchesAreFresh, Unsent, remote
  <2>2. CASE ~Reserve
    <3>1. pc = "rpc" /\ a \in todo /\ ~AcknowledgeLaunch(a)
      BY <1>3, <2>2, BatchShrinks
    <3>2. ~InvalidateUnavailable(a) /\ \A v \in Report : ~ApplyReport(a, v)
      BY <3>1 DEF InvalidateUnavailable, ApplyReport
    <3>3. astatus'[a] = "starting"
      BY <2>0, <2>2, <3>1, <3>2, StatusSteps DEF LaunchesAreFresh
    <3>4. report'[a] \in {"none", "starting", "unknown"}
      BY <2>0, <3>1, ReportSteps DEF LaunchesAreFresh
    <3>5. wire'[a] = "idle" => receipt'[a] = "absent"
      BY <2>0, <3>1, StepKinds
      DEF LaunchesAreFresh, OnNode, remote, SendLaunch, LaunchReturns, Crash, RemoteNext, DeliverLaunch,
          ClaimExecution, Unclaimed, FailBeforeChild, StartChild, Heartbeat, FinishRun, RunnerError, RunnerDies,
          ChildEnds, Reboot
    <3> QED BY <3>3, <3>4, <3>5
  <2> QED BY <2>1, <2>2
<1> QED BY <1>2, <1>3 DEF LaunchesAreFresh

\* Verdicts and invalidations are final.
LEMMA FinalStays ==
  ASSUME RegistryInv, [Next]_vars, NEW a \in Attempts, astatus[a] \notin Active \cup {"free"}
  PROVE  astatus'[a] = astatus[a]
<1>1. ~InvalidateUnavailable(a) /\ ~AcknowledgeLaunch(a) /\ \A v \in Report : ~ApplyReport(a, v)
  BY DEF InvalidateUnavailable, AcknowledgeLaunch, ApplyReport, RegistryInv, LoopHoldsActive
<1> QED BY <1>1, StatusSteps

\* A reservation takes free ids, for queued jobs whose dependencies succeeded;
\* nothing else gives an attempt to a job.
LEMMA OwnerSteps ==
  ASSUME RegistryInv, [Next]_vars, NEW a \in Attempts
  PROVE  \/ owner'[a] = owner[a] /\ (astatus[a] = "free" => astatus'[a] = "free")
         \/ /\ astatus[a] = "free" /\ owner'[a] \in Jobs /\ jstatus[owner'[a]] = "queued"
            /\ depends' = depends /\ \A d \in depends[owner'[a]] : jstatus[d] = "succeeded"
<1> USE DEF RegistryInv, TypeOK, registry
<1>1. CASE Reserve
  <2>1. PICK batch \in SUBSET {b \in Attempts : astatus[b] = "free"} : \E job \in [batch -> Jobs], node \in [batch -> Nodes] :
          /\ \A b \in batch : Ready(job[b], node[b])
          /\ owner' = [b \in Attempts |-> IF b \in batch THEN job[b] ELSE owner[b]]
          /\ astatus' = [b \in Attempts |-> IF b \in batch THEN "starting" ELSE astatus[b]]
    BY <1>1 DEF Reserve
  <2>2. depends' = depends BY <1>1 DEF Reserve
  <2> QED BY <2>1, <2>2 DEF Ready
<1>2. CASE ~Reserve
  <2>1. astatus[a] = "free" => astatus'[a] = "free"
    <3>1. astatus[a] = "free" => a \notin todo \/ pc \notin {"invalidate", "reconcile", "rpc"}
      BY DEF LoopHoldsActive, Active
    <3> QED BY <1>2, <3>1, StatusSteps DEF InvalidateUnavailable, AcknowledgeLaunch, ApplyReport
  <2>2. owner' = owner
    <3>1. CASE ControllerNext
      BY <1>2, <3>1
      DEF ControllerNext, BeginTick, RefreshBeforeLaunch, EndInvalidate, EndReconcile, EndLaunchBatch,
          EndLaunches, ReadNode, RetryValidation, InvalidateUnavailable, ApplyReport, SendLaunch, LaunchReturns,
          AcknowledgeLaunch
    <3>2. CASE OperatorNext \/ RemoteNext \/ Crash \/ UNCHANGED vars
      BY <3>2
      DEF OperatorNext, ProbeCommand, CancelPending, RetryFailed, AddOrderDependency, ReadmitNode, vars,
          RemoteNext, DeliverLaunch, ClaimExecution, FailBeforeChild, StartChild, Heartbeat, FinishRun,
          RunnerError, RunnerDies, ChildEnds, Reboot, Crash
    <3> QED BY <3>1, <3>2 DEF Next
  <2> QED BY <2>1, <2>2
<1> QED BY <1>1, <1>2

\* A model's failed receipt is not rewritten, and its attempt keeps its job.
LEMMA OomStays ==
  ASSUME RegistryInv, ExecutionInv, [Next]_vars, NEW a \in Attempts,
         MayBeOom(a), astatus[a] # "free"
  PROVE  MayBeOom(a)'
<1>1. owner'[a] = owner[a]
  BY OwnerSteps
<1>2. runner[a] \notin {"working", "watching"}
  BY DEF MayBeOom, ExecutionInv, OnNode
<1>3. receipt'[a] = receipt[a]
  BY <1>2, ReceiptMovesOn DEF MayBeOom, ExecutionInv, RegistryInv
<1> QED BY <1>1, <1>3 DEF MayBeOom

\* A final answer comes from the node or was in memory already.
LEMMA FinalNext ==
  ASSUME RegistryInv, ExecutionInv, [Next]_vars
  PROVE  FinalIsSettled'
<1> SUFFICES ASSUME NEW a \in Attempts
             PROVE  /\ astatus'[a] = "succeeded" \/ report'[a] \in Terminal => Settled(a)'
                    /\ astatus'[a] = "failed" => Settled(a)' \/ MayBeOom(a)'
                    /\ astatus'[a] = "succeeded" \/ report'[a] = "succeeded" => receipt'[a] = "succeeded"
  BY DEF FinalIsSettled
<1> USE DEF RegistryInv, ExecutionInv, Terminal
<1>1. ASSUME astatus'[a] \in Terminal
      PROVE  \/ astatus[a] = astatus'[a] \/ report[a] = astatus'[a]
             \/ astatus'[a] = "failed" /\ MayBeOom(a) /\ \E v \in Report : ApplyReport(a, v)
  BY <1>1, StatusSteps, VerdictOfReport
<1>2. ASSUME report'[a] \in Terminal
      PROVE  (report[a] = report'[a]) \/ (ReadStatus(a) = report'[a])
  BY <1>2, ReportSteps
<1>3. ASSUME report[a] \in Terminal \/ astatus[a] = "succeeded" \/ (astatus[a] = "failed" /\ Settled(a))
      PROVE  /\ Settled(a)'
             /\ "succeeded" \in {astatus[a], report[a]} => receipt'[a] = "succeeded"
  BY <1>3, SettledStays DEF FinalIsSettled
<1>4. ASSUME ReadStatus(a) \in Terminal
      PROVE  Settled(a)' /\ (ReadStatus(a) = "succeeded" => receipt'[a] = "succeeded")
  BY <1>4, FinalAnswerSettles, SettledStays
<1>5. ASSUME MayBeOom(a), astatus[a] = "failed" \/ \E v \in Report : ApplyReport(a, v)
      PROVE  MayBeOom(a)'
  <2>1. astatus[a] # "free"
    BY <1>5 DEF ApplyReport, LoopHoldsActive, Active
  <2> QED BY <1>5, <2>1, OomStays
<1>6. astatus'[a] = "succeeded" => astatus[a] = "succeeded" \/ report[a] = "succeeded"
  BY <1>1
<1>7. report'[a] \in Terminal => Settled(a)' /\ (report'[a] = "succeeded" => receipt'[a] = "succeeded")
  BY <1>2, <1>3, <1>4
<1>8. astatus'[a] = "succeeded" => Settled(a)' /\ receipt'[a] = "succeeded"
  BY <1>3, <1>6
<1>9. astatus'[a] = "failed" => Settled(a)' \/ MayBeOom(a)'
  BY <1>1, <1>3, <1>5 DEF FinalIsSettled
<1> QED BY <1>7, <1>8, <1>9

\* Who writes the status of a job: the planner and operators if nobody speaks
\* for it, or whoever commits its active attempt.
LEMMA JobSteps ==
  ASSUME RegistryInv, [Next]_vars, NEW j \in Jobs
  PROVE  \/ jstatus'[j] = jstatus[j]
         \/ jstatus[j] = "queued" /\ jstatus'[j] \in {"starting", "cancelled"}
         \/ jstatus[j] = "failed" /\ jstatus'[j] = "queued"
         \/ \E a \in Attempts : astatus[a] \in Active /\ owner[a] = j
              /\ \/ InvalidateUnavailable(a)
                 \/ AcknowledgeLaunch(a)
                 \/ \E v \in Report : ApplyReport(a, v)
<1>1. ASSUME Reserve
      PROVE  jstatus'[j] = jstatus[j] \/ (jstatus[j] = "queued" /\ jstatus'[j] = "starting")
  BY <1>1, ReserveCounts
<1> USE DEF RegistryInv, TypeOK, registry
<1>2. ASSUME NEW k \in Jobs, RetryValidation(k) \/ CancelPending(k) \/ RetryFailed(k)
      PROVE  \/ jstatus'[j] = jstatus[j]
             \/ jstatus[j] = "queued" /\ jstatus'[j] \in {"starting", "cancelled"}
             \/ jstatus[j] = "failed" /\ jstatus'[j] = "queued"
  BY <1>2 DEF RetryValidation, CancelPending, RetryFailed
<1>3. ASSUME NEW a \in Attempts, NEW v \in Report,
             InvalidateUnavailable(a) \/ AcknowledgeLaunch(a) \/ ApplyReport(a, v)
      PROVE  astatus[a] \in Active /\ (owner[a] = j \/ jstatus'[j] = jstatus[j])
  BY <1>3 DEF InvalidateUnavailable, AcknowledgeLaunch, ApplyReport, Commit, LoopHoldsActive
<1>4. CASE UNCHANGED jstatus BY <1>4
<1>5. CASE RemoteNext \/ Crash \/ UNCHANGED vars
  <2>1. UNCHANGED jstatus
    BY <1>5
    DEF vars, RemoteNext, DeliverLaunch, ClaimExecution, FailBeforeChild, StartChild, Heartbeat, FinishRun,
        RunnerError, RunnerDies, ChildEnds, Reboot, Crash
  <2> QED BY <2>1
<1>6. CASE OperatorNext
  BY <1>2, <1>4, <1>6 DEF OperatorNext, ProbeCommand, AddOrderDependency, ReadmitNode
<1>7. "none" \in Report BY DEF Report
<1>8. CASE ControllerNext
  BY <1>1, <1>2, <1>3, <1>4, <1>7, <1>8
  DEF ControllerNext, BeginTick, RefreshBeforeLaunch, EndInvalidate, EndReconcile, EndLaunchBatch,
      EndLaunches, ReadNode, SendLaunch, LaunchReturns
<1> QED BY <1>5, <1>6, <1>8 DEF Next

\* Nothing reopens a job that is blocked or has succeeded.
LEMMA ClosedStays ==
  ASSUME RegistryInv, [Next]_vars, NEW j \in Jobs, jstatus[j] \in {"blocked", "succeeded"}
  PROVE  jstatus'[j] = jstatus[j]
<1>1. ~(\E a \in Attempts : astatus[a] \in Active /\ owner[a] = j)
  BY DEF RegistryInv, JobAttemptAgreement, AttemptMatchesJob, Active
<1> QED BY <1>1, JobSteps

\* The invalidation that is not followed by a failover blocks its job for good.
LEMMA UnsafeNext ==
  ASSUME RegistryInv, ExecutionInv, [Next]_vars
  PROVE  InvalidEndsUnsafe'
<1> SUFFICES ASSUME NEW a \in Attempts, astatus'[a] = "invalid", owner'[a] \notin FailoverSafe
             PROVE  /\ jstatus'[owner'[a]] = "blocked"
                    /\ \A b \in Attempts \ {a} : owner'[b] = owner'[a] => astatus'[b] = "failed"
  BY DEF InvalidEndsUnsafe
<1> USE DEF RegistryInv, ExecutionInv
<1>1. astatus[a] # "free"
  BY StatusSteps DEF InvalidateUnavailable, AcknowledgeLaunch, ApplyReport, LoopHoldsActive, Active, Report
<1>2. owner'[a] = owner[a] /\ owner[a] \in Jobs
  BY <1>1, OwnerSteps DEF AttemptsHaveOwners
<1>3. /\ \/ jstatus[owner[a]] = "blocked"
         \/ jstatus'[owner[a]] = "blocked" /\ jstatus[owner[a]] # "queued"
      /\ \A b \in Attempts \ {a} : owner[b] = owner[a] => astatus[b] = "failed"
  <2>1. CASE astatus[a] = "invalid"
    BY <1>2, <2>1 DEF InvalidEndsUnsafe
  <2>2. CASE astatus[a] # "invalid"
    <3>0. "invalid" \notin Report /\ report[a] \in Report
      BY DEF Report, Active, TypeOK
    <3>1. InvalidateUnavailable(a)
      BY <2>2, <3>0, StatusSteps
    <3>2. astatus[a] \in Active /\ jstatus[owner[a]] = astatus[a]
      BY <3>1 DEF InvalidateUnavailable, LoopHoldsActive, JobAttemptAgreement, AttemptMatchesJob
    <3>3. jstatus'[owner[a]] = "blocked"
      BY <1>2, <2>2, <3>1 DEF InvalidateUnavailable, Failover, Commit, TypeOK
    <3>4. ASSUME NEW b \in Attempts \ {a}, owner[b] = owner[a] PROVE astatus[b] = "failed"
      <4>1. astatus[b] \notin Counting
        BY <3>2, <3>4 DEF JobAttemptAgreement, OneAuthoritativeAttempt, Counting
      <4>2. astatus[b] # "free"
        BY <1>2, <3>4, LifecycleAssumption DEF AttemptsHaveOwners, LifecycleAssumption
      <4>3. astatus[b] # "invalid"
        BY <1>2, <3>2, <3>4 DEF InvalidEndsUnsafe, Active
      <4> QED BY <4>1, <4>2, <4>3 DEF TypeOK, AttemptStatus, Counting
    <3> QED BY <3>2, <3>3, <3>4 DEF Active
  <2> QED BY <2>1, <2>2
<1>4. jstatus'[owner[a]] = "blocked"
  BY <1>2, <1>3, ClosedStays
<1>5. ASSUME NEW b \in Attempts \ {a}, owner'[b] = owner[a] PROVE astatus'[b] = "failed"
  <2>1. owner[b] = owner[a]
    BY <1>3, <1>5, OwnerSteps
  <2> QED BY <1>3, <2>1, FinalStays DEF Active
<1> QED BY <1>2, <1>4, <1>5

\* Dependencies of what runs are settled before it starts and stay so.
LEMMA DependenciesNext ==
  ASSUME RegistryInv, DependenciesSettled, [Next]_vars
  PROVE  DependenciesSettled'
<1> SUFFICES ASSUME NEW a \in Attempts, astatus'[a] \in Counting, NEW d \in depends'[owner'[a]]
             PROVE  jstatus'[d] = "succeeded"
  BY DEF DependenciesSettled, Counting
<1> USE DEF RegistryInv
<1>1. ASSUME owner'[a] = owner[a], astatus[a] # "free"
      PROVE  owner[a] \in Jobs /\ d \in depends[owner[a]] /\ jstatus[d] = "succeeded"
  <2>1. astatus[a] \in Counting
    BY <1>1, FinalStays DEF Counting
  <2>2. owner[a] \in Jobs /\ jstatus[owner[a]] # "queued"
    BY <2>1 DEF JobAttemptAgreement, AttemptMatchesJob, Counting, Active
  <2>3. depends'[owner[a]] = depends[owner[a]]
    <3>1. ASSUME NEW j \in Jobs, NEW g \in Jobs, AddOrderDependency(j, g)
          PROVE  depends'[owner[a]] = depends[owner[a]]
      BY <2>2, <3>1 DEF AddOrderDependency, TypeOK
    <3>2. CASE ControllerNext \/ Crash \/ RemoteNext \/ UNCHANGED vars
      <4>1. UNCHANGED depends
        BY <3>2
        DEF ControllerNext, BeginTick, RefreshBeforeLaunch, EndInvalidate, EndReconcile, EndLaunchBatch,
            Reserve, EndLaunches, ReadNode, RetryValidation, InvalidateUnavailable, ApplyReport, SendLaunch,
            LaunchReturns, AcknowledgeLaunch, registry, vars, RemoteNext, DeliverLaunch, ClaimExecution,
            FailBeforeChild, StartChild, Heartbeat, FinishRun, RunnerError, RunnerDies, ChildEnds, Reboot, Crash
      <4> QED BY <4>1
    <3>3. CASE OperatorNext
      BY <3>1, <3>3 DEF OperatorNext, ProbeCommand, CancelPending, RetryFailed, ReadmitNode, registry
    <3> QED BY <3>2, <3>3 DEF Next
  <2> QED BY <1>1, <2>1, <2>2, <2>3 DEF DependenciesSettled, Counting
<1>2. jstatus[d] = "succeeded"
  BY <1>1, OwnerSteps DEF Counting, Active
<1>3. d \in Jobs
  <2>1. owner'[a] \in Jobs BY <1>1, OwnerSteps DEF Counting, Active
  <2> QED BY <2>1, TypeNext DEF TypeOK
<1> QED BY <1>2, <1>3, ClosedStays

\* Fresh and inherited registries satisfy the invariant.
LEMMA ExecutionInit == Init => ExecutionInv /\ DependenciesSettled
<1> SUFFICES ASSUME Init PROVE ExecutionInv /\ DependenciesSettled
  OBVIOUS
<1> USE DEF ExecutionInv, OnNode, Unsent, LaunchesAreFresh, FinalIsSettled, RunningIsPast, InvalidEndsUnsafe,
            DependenciesSettled, Active, Terminal
<1>1. CASE FreshRegistry
  BY <1>1 DEF Init, FreshRegistry
<1>2. CASE InheritedRegistry
  BY <1>2 DEF Init, InheritedRegistry
<1> QED BY <1>1, <1>2 DEF Init

\* The invariant is inductive, given that of the registry.
LEMMA ExecutionNext == RegistryInv /\ ExecutionInv /\ [Next]_vars => ExecutionInv'
BY OnNodeNext, LaunchesNext, FinalNext, PastNext, UnsafeNext DEF ExecutionInv, RegistryInv

\* What a final verdict leaves behind is a failed model's, and its runner is gone.
LEMMA FinalLeaves ==
  ASSUME ExecutionInv, TypeOK, NEW a \in Attempts, astatus[a] \in Terminal
  PROVE  ~MayRun(a) \/ LeftBehind(a)
<1>1. CASE Settled(a)
  BY <1>1 DEF Settled
<1>2. CASE ~Settled(a)
  <2>1. astatus[a] = "failed" /\ MayBeOom(a)
    BY <1>2 DEF ExecutionInv, FinalIsSettled, Terminal
  <2> QED BY <2>1 DEF LeftBehind, MayBeOom, ExecutionInv, OnNode, TypeOK, Runner
<1> QED BY <1>1, <1>2

\* Two executions of a job need an invalid one, and a job that allows failover.
LEMMA SeparateExecutions == RegistryInv /\ ExecutionInv => NoOverlap
<1> SUFFICES ASSUME RegistryInv, ExecutionInv, NEW a \in Attempts, NEW b \in Attempts,
                    a # b, owner[a] = owner[b], MayRun(a), MayRun(b),
                    ~LeftBehind(a), ~LeftBehind(b)
             PROVE  "invalid" \in {astatus[a], astatus[b]} /\ owner[a] \in FailoverSafe
  BY DEF NoOverlap
<1>1. ASSUME NEW c \in {a, b} PROVE astatus[c] \in Active \cup {"invalid"}
  <2>1. astatus[c] # "free"
    BY <1>1 DEF ExecutionInv, LaunchesAreFresh, Unsent, OnNode, MayRun
  <2>2. astatus[c] \notin Terminal
    BY <1>1, FinalLeaves DEF RegistryInv
  <2> QED BY <1>1, <2>1, <2>2 DEF RegistryInv, TypeOK, AttemptStatus, Terminal
<1>2. ~(astatus[a] \in Active /\ astatus[b] \in Active)
  BY DEF RegistryInv, JobAttemptAgreement, OneAuthoritativeAttempt
<1>3. owner[a] \in FailoverSafe
  BY <1>1, <1>2 DEF ExecutionInv, InvalidEndsUnsafe, Active
<1> QED BY <1>1, <1>2, <1>3

\* The loop holds active attempts whose job agrees, and only a running one could
\* not go where its report says.
LEMMA ReportsFit == RegistryInv /\ ExecutionInv => ReconcileNeverRaises
<1> SUFFICES ASSUME RegistryInv, ExecutionInv, pc = "reconcile", AllReported,
                    NEW a \in todo, NEW v \in Verdicts(a)
             PROVE  /\ AttemptMay(astatus[a], v)
                    /\ JobMay(jstatus[owner[a]], v)
                    /\ v = "failed" => JobMay(jstatus[owner[a]], "queued")
  BY DEF ReconcileNeverRaises
<1>1. a \in Attempts /\ astatus[a] \in Active /\ jstatus[owner[a]] = astatus[a]
  BY DEF RegistryInv, TypeOK, LoopHoldsActive, JobAttemptAgreement, AttemptMatchesJob
<1>2. v \in Active \cup Terminal
  BY <1>1 DEF Verdicts, AllReported, RegistryInv, TypeOK, Report, Active, Terminal
<1>3. v = "starting" => astatus[a] # "running"
  BY <1>1 DEF Verdicts, ExecutionInv, RunningIsPast
<1> QED BY <1>1, <1>2, <1>3 DEF AttemptMay, JobMay, AttemptNext, JobNext, Active, Terminal

\* Every step obeys the transition tables.
LEMMA StepsLegal ==
  ASSUME RegistryInv, ExecutionInv, [Next]_vars
  PROVE  /\ \A a \in Attempts : astatus[a] # "free" => AttemptMay(astatus[a], astatus'[a])
         /\ \A j \in Jobs : JobMay(jstatus[j], jstatus'[j])
<1>1. ASSUME NEW a \in Attempts,
             InvalidateUnavailable(a) \/ AcknowledgeLaunch(a) \/ (\E v \in Report : ApplyReport(a, v))
      PROVE  astatus[a] \in Active /\ owner[a] \in Jobs /\ jstatus[owner[a]] = astatus[a]
  BY <1>1
  DEF InvalidateUnavailable, AcknowledgeLaunch, ApplyReport, RegistryInv, LoopHoldsActive, JobAttemptAgreement,
      AttemptMatchesJob
<1>2. ASSUME NEW a \in Attempts, AcknowledgeLaunch(a)
      PROVE  astatus[a] = "starting" /\ report[a] \in {"starting", "unknown"}
  BY <1>2 DEF AcknowledgeLaunch, AllReported, ExecutionInv, LaunchesAreFresh
<1>3. ASSUME NEW a \in Attempts, astatus[a] # "free"
      PROVE  AttemptMay(astatus[a], astatus'[a])
  <2>1. CASE AcknowledgeLaunch(a) /\ astatus'[a] = report[a]
    BY <1>2, <2>1 DEF AttemptMay, AttemptNext
  <2>2. CASE InvalidateUnavailable(a) /\ astatus'[a] \in {"unknown", "invalid"}
    BY <1>1, <2>2 DEF AttemptMay, AttemptNext, Active
  <2>3. CASE \E v \in Report : ApplyReport(a, v) /\ astatus'[a] = v
    BY <2>3 DEF ApplyReport
  <2> QED BY <1>3, <2>1, <2>2, <2>3, StatusSteps DEF AttemptMay
<1>4. ASSUME NEW j \in Jobs
      PROVE  JobMay(jstatus[j], jstatus'[j])
  <2>1. ASSUME NEW a \in Attempts, owner[a] = j, AcknowledgeLaunch(a)
        PROVE  JobMay(jstatus[j], jstatus'[j])
    BY <1>1, <1>2, <2>1 DEF AcknowledgeLaunch, Commit, JobMay, JobNext, RegistryInv, TypeOK
  <2>2. ASSUME NEW a \in Attempts, owner[a] = j, InvalidateUnavailable(a)
        PROVE  JobMay(jstatus[j], jstatus'[j])
    <3>1. jstatus'[j] \in {jstatus[j], "unknown", "queued", "blocked"}
      BY <2>2 DEF InvalidateUnavailable, Commit, RegistryInv, TypeOK
    <3> QED BY <1>1, <2>2, <3>1 DEF JobMay, JobNext, Active
  <2>3. ASSUME NEW a \in Attempts, owner[a] = j, NEW v \in Report, ApplyReport(a, v)
        PROVE  JobMay(jstatus[j], jstatus'[j])
    BY <2>3 DEF ApplyReport, Commit, RegistryInv, TypeOK
  <2> QED BY <1>4, <2>1, <2>2, <2>3, JobSteps DEF JobMay, JobNext
<1> QED BY <1>3, <1>4

-----------------------------------------------------------------------------
(* The theorems.                                                           *)

\* What the registry and the controller's memory say of an attempt fits what
\* has happened on its node, in every reachable state.
THEOREM ExecutionCorrect == Spec => [](RegistryInv /\ ExecutionInv)
<1>1. Init => RegistryInv /\ ExecutionInv
  BY RegistryInit, ExecutionInit
<1>2. RegistryInv /\ ExecutionInv /\ [Next]_vars => (RegistryInv /\ ExecutionInv)'
  BY RegistryNext, ExecutionNext
<1> QED BY <1>1, <1>2, PTL DEF Spec

\* Two executions of one job overlap only if one was declared invalid and the job
\* is failover-safe, or one is what a model's failed run left behind, whatever is
\* lost, late or restarted.
THEOREM ExecutionsSeparate == Spec => []NoOverlap
BY ExecutionCorrect, SeparateExecutions, PTL

\* A terminal verdict of the registry is true of the node, but for what a model's
\* failed run left behind.
THEOREM VerdictsBacked == Spec => []VerdictIsBacked
<1>1. RegistryInv /\ ExecutionInv => VerdictIsBacked
  <2>1. RegistryInv /\ ExecutionInv =>
          \A a \in Attempts : astatus[a] \in Terminal => ~MayRun(a) \/ LeftBehind(a)
    BY FinalLeaves DEF RegistryInv
  <2> QED BY <2>1 DEF ExecutionInv, FinalIsSettled, VerdictIsBacked
<1> QED BY <1>1, ExecutionCorrect, PTL

\* One attempt starts at most one scientific child.
THEOREM AttemptsExecuteOnce == Spec => []ExecutedOnce
<1>1. ExecutionInv => ExecutedOnce
  BY DEF ExecutionInv, OnNode, ExecutedOnce
<1> QED BY <1>1, ExecutionCorrect, PTL

\* No report of a node makes reconcile() raise.
THEOREM ReconcileTotal == Spec => []ReconcileNeverRaises
BY ExecutionCorrect, ReportsFit, PTL

\* What runs or has succeeded stands on succeeded dependencies.
THEOREM DependenciesHold == Spec => []DependenciesSettled
<1>1. Init => DependenciesSettled
  BY ExecutionInit
<1>2. RegistryInv /\ DependenciesSettled /\ [Next]_vars => DependenciesSettled'
  BY DependenciesNext
<1> QED BY <1>1, <1>2, RegistryCorrect, PTL DEF Spec

\* Every transaction obeys the transition tables, the unchecked ones included.
THEOREM TransitionsObeyed == Spec => TransitionsLegal
<1>1. RegistryInv /\ ExecutionInv /\ [Next]_vars
        => [/\ \A a \in Attempts : astatus[a] # "free" => AttemptMay(astatus[a], astatus'[a])
            /\ \A j \in Jobs : JobMay(jstatus[j], jstatus'[j])]_registry
  BY StepsLegal
<1> QED BY <1>1, ExecutionCorrect, PTL DEF Spec, TransitionsLegal

=============================================================================
