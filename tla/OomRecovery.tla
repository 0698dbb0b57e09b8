----------------------------- MODULE OomRecovery ----------------------------
(***************************************************************************)
(* How one train or eval attempt that ran out of memory is settled.  Ticks *)
(* of the controller read its status from the agent and store the report   *)
(* whole; an execute tick that learns of an OOM with surviving processes   *)
(* asks the agent to clean up.  The agent keeps nothing but the attempt's  *)
(* receipt: what was learnt before (the OOM, its evidence, the process     *)
(* identities) comes back to it from the stored report.  Of the evidence   *)
(* only that of the kernel journal does: logs are searched anew, in their  *)
(* last 64 KiB, by every read.                                             *)
(*                                                                         *)
(* One scan of /proc is one step of the model.                             *)
(***************************************************************************)
EXTENDS Naturals

CONSTANTS
  Causes,      \* subset of {"log", "kernel", "none"}: how attempts of the model fail
  MaxCleanups, \* failed cleanups before the manual-check hold (2)
  MaxCrashes   \* controller crashes in the model

ASSUME OomAssumption ==
  /\ Causes \subseteq {"log", "kernel", "none"}
  /\ MaxCleanups \in Nat \ {0} /\ MaxCrashes \in Nat

VARIABLES
  cause,    \* evidence of the failure: in a log, only in the kernel journal, no OOM
  logs,     \* the log message is in a tail, cannot be read now, or is out of all tails
  receipt,  \* status in state.json
  group,    \* the child's process group has members
  strays,   \* other processes carry the identity of the attempt
  rebooted, \* the node has another boot id than the receipt
  fresh,    \* the last process observation is at most 60 s old
  astatus,  \* attempts.status
  stored,   \* attempts.report
  pc,       \* step of the tick in progress
  execute,  \* it is an execute tick
  report,   \* report of the tick in progress
  known,    \* history: an OOM with survivors has been stored
  crashes

host  == <<cause, logs, receipt, group, strays, rebooted, fresh>>
row   == <<astatus, stored>>
tick  == <<pc, execute, report>>
vars  == <<host, row, tick, known, crashes>>

Report == [status: {"running", "unknown", "failed"}, oom: BOOLEAN, verified: BOOLEAN,
           evidence: {"log", "kernel", "none"}, obs: BOOLEAN, cleanups: 0 .. MaxCleanups]

\* A report without classification, observation or count of cleanups.
Bare(s) == [status |-> s, oom |-> FALSE, verified |-> FALSE, evidence |-> "none",
            obs |-> FALSE, cleanups |-> 0]

Init ==
  /\ cause \in Causes /\ logs = "shown"
  /\ receipt = "running" /\ group = TRUE /\ strays \in BOOLEAN /\ rebooted = FALSE
  /\ fresh = FALSE
  /\ astatus = "running" /\ stored = Bare("running")
  /\ pc = "idle" /\ execute = FALSE /\ report = Bare("running")
  /\ known = FALSE /\ crashes = 0

-----------------------------------------------------------------------------
(* The agent.                                                              *)

\* finish_oom_classification(), of processes g in the group and s outside it.
Classified_Mutant(e, prev, g, s) ==
  [Bare(IF g \/ s \/ prev.oom THEN "unknown" ELSE "failed") EXCEPT
     !.oom = TRUE, !.verified = ~(g \/ s), !.evidence = e, !.obs = prev.obs]
Classified(e, prev, g, s) ==
  [Bare(IF g \/ s THEN "unknown" ELSE "failed") EXCEPT
     !.oom = TRUE, !.verified = ~(g \/ s), !.evidence = e, !.obs = prev.obs]

\* Evidence of an OOM that oom_failure() can find, given the previous report:
\* kernel evidence found before, the message in a log as far as its tail shows it
\* now, or the journal, whose query is bounded and may find nothing.
Evidence_Mutant(prev) == IF prev.obs /\ fresh THEN {cause} ELSE {"none"}
Evidence(prev) ==
  IF prev.oom /\ prev.evidence = "kernel" THEN {"kernel"}
  ELSE CASE cause = "log" /\ logs = "shown" -> {"log"}
         [] cause = "kernel" /\ prev.obs /\ fresh -> {"kernel", "none"}
         [] OTHER -> {"none"}

\* What read_status() may answer.
StatusReports_Mutant(prev) ==
  CASE rebooted -> {Bare("failed")}
    [] ~rebooted /\ receipt = "running" -> {[Bare("running") EXCEPT !.obs = b] : b \in BOOLEAN}
    [] ~rebooted /\ receipt = "failed" ->
         {IF e = "none" THEN Bare("failed") ELSE Classified(e, prev, group, FALSE)
            : e \in Evidence(prev)}
StatusReports(prev) ==
  CASE rebooted -> {Bare("failed")}
    [] ~rebooted /\ receipt = "running" -> {[Bare("running") EXCEPT !.obs = b] : b \in BOOLEAN}
    [] ~rebooted /\ receipt = "failed" ->
         {IF e = "none" THEN Bare(IF group THEN "unknown" ELSE "failed")
                        ELSE Classified(e, prev, group, strays) : e \in Evidence(prev)}

-----------------------------------------------------------------------------
(* A tick of the controller.                                               *)

StartTick(e) ==
  /\ pc = "idle" /\ astatus # "failed"
  /\ pc' = "read" /\ execute' = e
  /\ UNCHANGED <<host, row, report, known, crashes>>

NextStep(r) == IF execute /\ r.oom /\ ~r.verified THEN "cleanup" ELSE "commit"

ReadOk ==
  /\ pc = "read"
  /\ report' \in StatusReports(stored)
  /\ fresh' = (fresh \/ (report'.obs /\ report'.status = "running"))
  /\ pc' = NextStep(report')
  /\ UNCHANGED <<cause, logs, receipt, group, strays, rebooted, row, execute, known, crashes>>

\* The node or the batch gives no answer, or the agent cannot read the attempt.
ReadFails ==
  /\ pc = "read"
  /\ report' \in {[stored EXCEPT !.status = "unknown"], Bare("unknown")}
  /\ pc' = NextStep(report')
  /\ UNCHANGED <<host, row, execute, known, crashes>>

BudgetLeft        == stored.cleanups < MaxCleanups

\* The budget of cleanups is exhausted: hold the attempt.
Hold ==
  /\ pc = "cleanup" /\ ~BudgetLeft
  /\ report' = [report EXCEPT !.status = "unknown", !.cleanups = stored.cleanups]
  /\ pc' = "commit"
  /\ UNCHANGED <<host, row, execute, known, crashes>>

\* What recover_oom answers when it settles: a failure it finds no OOM in is
\* returned as the receipt says, processes or not; otherwise it has signalled the
\* processes and gone through them again.
Recovered(e, g, s) == IF e = "none" THEN Bare("failed") ELSE Classified(e, report, g, s)

\* The recover_oom call.  Processes it signals may survive; without evidence it
\* signals none; its answer may be lost.
Cleanup ==
  /\ pc = "cleanup" /\ BudgetLeft
  /\ \E e \in IF rebooted THEN {"none"} ELSE Evidence(report) :
       /\ group' \in IF e = "none" THEN {group} ELSE {FALSE, group}
       /\ strays' \in IF e = "none" THEN {strays} ELSE {FALSE, strays}
       /\ report' \in {[Recovered(e, group', strays') EXCEPT !.cleanups = stored.cleanups + 1],
                       [report EXCEPT !.status = "unknown", !.verified = FALSE,
                                      !.cleanups = stored.cleanups + 1]}
  /\ pc' = "commit"
  /\ UNCHANGED <<cause, logs, receipt, rebooted, fresh, row, execute, known, crashes>>

\* The stored report is replaced by the one of this tick.
Commit ==
  /\ pc = "commit"
  /\ astatus' = report.status
  /\ stored' = report
  /\ known' = (known \/ (report.oom /\ ~report.verified))
  /\ pc' = "idle"
  /\ UNCHANGED <<host, execute, report, crashes>>

Crash ==
  /\ pc # "idle" /\ crashes < MaxCrashes
  /\ pc' = "idle" /\ crashes' = crashes + 1
  /\ UNCHANGED <<host, row, execute, report, known>>

-----------------------------------------------------------------------------
(* The node.                                                               *)

\* The runner records the failure of its child; descendants may live on.
RunnerFails ==
  /\ receipt = "running" /\ ~rebooted
  /\ receipt' = "failed"
  /\ group' \in BOOLEAN
  /\ UNCHANGED <<cause, logs, strays, rebooted, fresh, row, tick, known, crashes>>

GroupExits ==
  /\ receipt = "failed" /\ group
  /\ group' = FALSE
  /\ UNCHANGED <<cause, logs, receipt, strays, rebooted, fresh, row, tick, known, crashes>>

StraysExit ==
  /\ strays
  /\ strays' = FALSE
  /\ UNCHANGED <<cause, logs, receipt, group, rebooted, fresh, row, tick, known, crashes>>

\* A member of the group starts a session of its own.
Detach ==
  /\ group /\ ~strays
  /\ strays' = TRUE
  /\ UNCHANGED <<cause, logs, receipt, group, rebooted, fresh, row, tick, known, crashes>>

ObservationAges ==
  /\ fresh
  /\ fresh' = FALSE
  /\ UNCHANGED <<cause, logs, receipt, group, strays, rebooted, row, tick, known, crashes>>

Reboot ==
  /\ ~rebooted
  /\ rebooted' = TRUE /\ group' = FALSE /\ strays' = FALSE
  /\ UNCHANGED <<cause, logs, receipt, fresh, row, tick, known, crashes>>

\* What lives on writes into the logs: the message leaves every tail for good.
LogGrows ==
  /\ (group \/ strays) /\ logs # "scrolled"
  /\ logs' = "scrolled"
  /\ UNCHANGED <<cause, receipt, group, strays, rebooted, fresh, row, tick, known, crashes>>

\* Reads of a log fail, and are passed over, until they work again.
LogFails ==
  /\ logs = "shown"
  /\ logs' = "hidden"
  /\ UNCHANGED <<cause, receipt, group, strays, rebooted, fresh, row, tick, known, crashes>>

LogReturns ==
  /\ logs = "hidden"
  /\ logs' = "shown"
  /\ UNCHANGED <<cause, receipt, group, strays, rebooted, fresh, row, tick, known, crashes>>

TickStep == ReadOk \/ ReadFails \/ Hold \/ Cleanup \/ Commit

Next ==
  \/ \E e \in BOOLEAN : StartTick(e)
  \/ TickStep \/ Crash
  \/ RunnerFails \/ GroupExits \/ StraysExit \/ Detach \/ ObservationAges \/ Reboot
  \/ LogGrows \/ LogFails \/ LogReturns

\* The loop keeps ticking, and does not fail to read one attempt for ever.
Fairness ==
  /\ WF_vars(\E e \in BOOLEAN : StartTick(e))
  /\ WF_vars(TickStep)
  /\ SF_vars(ReadOk)

Spec == Init /\ [][Next]_vars /\ Fairness

-----------------------------------------------------------------------------
(* Properties.                                                             *)

\* Every stored report and every report in progress is well formed.
TypeOK ==
  /\ cause \in Causes /\ logs \in {"shown", "hidden", "scrolled"} /\ receipt \in {"running", "failed"}
  /\ group \in BOOLEAN /\ strays \in BOOLEAN /\ rebooted \in BOOLEAN /\ fresh \in BOOLEAN
  /\ astatus \in {"running", "unknown", "failed"} /\ stored \in Report
  /\ pc \in {"idle", "read", "cleanup", "commit"} /\ execute \in BOOLEAN /\ report \in Report
  /\ known \in BOOLEAN /\ crashes \in 0 .. MaxCrashes

\* An attempt that is settled as an OOM has no process left, in its group or out
\* of it; and no attempt is settled while its group lives, but by a cleanup that no
\* longer finds in the logs the OOM it was called for.  That holds when processes
\* exit, detach, write or are signalled during a tick.
SurvivorsHold ==
  astatus = "failed" =>
    /\ stored.oom => ~group /\ ~strays
    /\ group => cause = "log" /\ stored.cleanups > 0

\* As long as its logs show the OOM, an attempt is settled as an OOM with no process
\* left, so that the retry avoids the host: lost answers, dry runs, crashes and failed
\* cleanups do not hide it.
LoggedOomIsClassified ==
  [](logs = "shown") =>
    [](cause = "log" /\ astatus = "failed" /\ ~rebooted => stored.oom /\ stored.verified)

\* A failed attempt without processes is settled, even after a manual-check hold.
HoldEnds == [](receipt = "failed" /\ ~group /\ ~strays => <>(astatus = "failed"))

\* docs/OOM_RECOVERY.md: "Surviving owned processes keep the attempt unknown and
\* its reservation held."
SurvivorsHoldReservation == known /\ astatus = "failed" => ~group /\ ~strays

=============================================================================
