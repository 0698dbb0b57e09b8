------------------------- MODULE OomRecoveryProofs --------------------------
(***************************************************************************)
(* The settling of an attempt that ran out of memory, for any causes, any  *)
(* budget of cleanups and any number of crashes: what the release of a     *)
(* reservation says of the processes it covered, also when the evidence    *)
(* disappears from the logs, and that an OOM they keep showing is recorded.*)
(***************************************************************************)
EXTENDS OomRecovery, TLAPS

-----------------------------------------------------------------------------
(* The inductive invariant.                                                *)

\* What a report may have learnt: evidence only of the kind there is, an OOM only
\* from evidence and of a run that has ended.
Sound(r) ==
  /\ r.evidence = "kernel" => cause = "kernel"
  /\ r.evidence = "log" => cause = "log"
  /\ r.oom => receipt = "failed" /\ r.evidence # "none"

\* What a report of failure says of the node, for good: no runner is left that could
\* start anything; after an OOM no process either; and the group is gone, unless a
\* cleanup lost the evidence of a log.
Settles(r) ==
  r.status = "failed" =>
    /\ receipt = "failed" \/ rebooted
    /\ r.oom => ~group /\ ~strays
    /\ group => cause = "log" /\ r.cleanups > 0

OomInv ==
  /\ TypeOK
  /\ rebooted => ~group /\ ~strays
  /\ Sound(stored) /\ Sound(report)
  /\ astatus = stored.status /\ Settles(stored)
  /\ pc = "cleanup" => report.oom
  /\ pc = "commit" => Settles(report)

-----------------------------------------------------------------------------
(* Reports.                                                                *)

\* A report without classification.
LEMMA BareReport ==
  ASSUME NEW s \in {"running", "unknown", "failed"}
  PROVE  /\ Bare(s) \in Report
         /\ Bare(s).status = s /\ Bare(s).evidence = "none" /\ ~Bare(s).oom
BY OomAssumption DEF Bare, Report, OomAssumption

\* An OOM report of evidence e: held while there are survivors, settled without.
Classifies(r, e, survivors) ==
  /\ r \in Report /\ r.evidence = e /\ r.oom
  /\ survivors => r.status = "unknown" /\ ~r.verified
  /\ ~survivors => r.status = "failed" /\ r.verified

\* That is what finish_oom_classification() returns.
LEMMA ClassifiedReport ==
  ASSUME NEW e \in {"log", "kernel", "none"}, NEW prev \in Report, NEW g \in BOOLEAN, NEW t \in BOOLEAN
  PROVE  Classifies(Classified(e, prev, g, t), e, g \/ t)
<1> DEFINE R(st, v, w) == [Bare(st) EXCEPT !.oom = TRUE, !.verified = v, !.evidence = e, !.obs = w]
<1>1. 0 \in 0 .. MaxCleanups
  BY OomAssumption DEF OomAssumption
<1>2. /\ Classifies(R("unknown", FALSE, TRUE), e, TRUE) /\ Classifies(R("unknown", FALSE, FALSE), e, TRUE)
      /\ Classifies(R("failed", TRUE, TRUE), e, FALSE) /\ Classifies(R("failed", TRUE, FALSE), e, FALSE)
  BY <1>1 DEF Bare, Report, Classifies
<1>3. prev.obs = TRUE \/ prev.obs = FALSE
  BY DEF Report
<1>4. CASE (g \/ t) = TRUE
  <2>1. Classified(e, prev, g, t) = R("unknown", FALSE, prev.obs)
    <3>1. (~(g \/ t)) = FALSE BY <1>4, Zenon
    <3>2. (IF g \/ t THEN "unknown" ELSE "failed") = "unknown" BY <1>4
    <3> QED BY <3>1, <3>2, Zenon DEF Classified
  <2> HIDE DEF R
  <2> QED BY <1>2, <1>3, <1>4, <2>1, Zenon
<1>5. CASE (g \/ t) = FALSE
  <2>1. Classified(e, prev, g, t) = R("failed", TRUE, prev.obs)
    <3>1. (~(g \/ t)) = TRUE BY <1>5, Zenon
    <3>2. (IF g \/ t THEN "unknown" ELSE "failed") = "failed" BY <1>5
    <3> QED BY <3>1, <3>2, Zenon DEF Classified
  <2> HIDE DEF R
  <2> QED BY <1>2, <1>3, <1>5, <2>1, Zenon
<1> QED BY <1>4, <1>5, Zenon

\* Evidence is of what there is, or nothing.  That of the kernel stays once it is
\* found, and a message in the logs is found as long as they show it.
LEMMA EvidenceIsTrue ==
  ASSUME OomInv, NEW prev \in Report, prev.evidence = "kernel" => cause = "kernel", NEW e \in Evidence(prev)
  PROVE  /\ e \in {"log", "kernel", "none"}
         /\ e = "kernel" => cause = "kernel"
         /\ e = "log" => cause = "log"
         /\ prev.oom /\ prev.evidence = "kernel" => e = "kernel"
         /\ cause = "log" /\ logs = "shown" => e = "log"
BY DEF Evidence

\* An answer of read_status() is sound, and a final one true.
LEMMA AnswersAreTrue ==
  ASSUME OomInv, NEW r \in StatusReports(stored)
  PROVE  /\ r \in Report /\ Sound(r) /\ Settles(r)
         /\ (r.oom /\ ~r.verified) => r.status = "unknown"
<1> USE DEF OomInv, TypeOK, Sound
<1>1. CASE rebooted
  <2>1. r = Bare("failed") BY <1>1 DEF StatusReports
  <2> QED BY <1>1, <2>1, BareReport DEF Settles
<1>2. CASE ~rebooted /\ receipt = "running"
  <2>1. PICK b \in BOOLEAN : r = [Bare("running") EXCEPT !.obs = b]
    BY <1>2 DEF StatusReports
  <2>2. r \in Report /\ r.status = "running" /\ r.evidence = "none" /\ ~r.oom
    BY <2>1, BareReport DEF Report
  <2> QED BY <2>2 DEF Settles
<1>3. CASE ~rebooted /\ receipt = "failed"
  <2>1. PICK e \in Evidence(stored) :
          r = IF e = "none" THEN Bare(IF group THEN "unknown" ELSE "failed") ELSE Classified(e, stored, group, strays)
    BY <1>3 DEF StatusReports
  <2>2. /\ e \in {"log", "kernel", "none"}
        /\ e = "kernel" => cause = "kernel"
        /\ e = "log" => cause = "log"
    BY <2>1, EvidenceIsTrue
  <2>3. CASE e = "none"
    <3>1. r = Bare("unknown") \/ (~group /\ r = Bare("failed")) BY <2>1, <2>3
    <3> QED BY <1>3, <3>1, BareReport DEF Settles
  <2>4. CASE e # "none"
    <3>1. r = Classified(e, stored, group, strays) BY <2>1, <2>4
    <3>2. Classifies(r, e, group \/ strays)
      <4>1. stored \in Report /\ group \in BOOLEAN /\ strays \in BOOLEAN OBVIOUS
      <4> HIDE DEF OomInv, TypeOK, Sound
      <4> QED BY <2>2, <3>1, <4>1, ClassifiedReport, Zenon
    <3> QED BY <1>3, <2>2, <2>4, <3>2 DEF Settles, Classifies
  <2> QED BY <2>3, <2>4
<1> QED BY <1>1, <1>2, <1>3

-----------------------------------------------------------------------------
(* The invariant is inductive.                                             *)

\* A running attempt at first.
LEMMA OomInit == Init => OomInv
<1> SUFFICES ASSUME Init PROVE OomInv
  OBVIOUS
<1>1. /\ Bare("running") \in Report /\ Bare("running").status = "running"
      /\ Bare("running").evidence = "none" /\ ~Bare("running").oom
  BY BareReport
<1>2. TypeOK
  <2>1. group \in BOOLEAN /\ strays \in BOOLEAN /\ rebooted \in BOOLEAN /\ fresh \in BOOLEAN
    BY Zenon DEF Init
  <2>2. execute \in BOOLEAN /\ known \in BOOLEAN
    BY Zenon DEF Init
  <2> QED BY <1>1, <2>1, <2>2, OomAssumption DEF Init, TypeOK, OomAssumption
<1> QED BY <1>1, <1>2 DEF Init, OomInv, Sound, Settles

\* The report of a tick, read or invented for a read that failed.
LEMMA ReadKeeps == OomInv /\ (ReadOk \/ ReadFails) => OomInv'
<1> SUFFICES ASSUME OomInv, ReadOk \/ ReadFails PROVE OomInv'
  OBVIOUS
<1> USE DEF OomInv, TypeOK
<1>1. /\ report' \in Report /\ Sound(report') /\ Settles(report')
      /\ pc' = NextStep(report') /\ fresh' \in BOOLEAN
      /\ UNCHANGED <<cause, logs, receipt, group, strays, rebooted, row, execute, known, crashes>>
  <2>1. CASE ReadOk
    BY <2>1, AnswersAreTrue DEF ReadOk
  <2>2. CASE ReadFails
    <3>1. ASSUME report' = [stored EXCEPT !.status = "unknown"]
          PROVE  report' \in Report /\ Sound(report') /\ report'.status = "unknown"
      BY <3>1 DEF Report, Sound
    <3>2. ASSUME report' = Bare("unknown")
          PROVE  report' \in Report /\ Sound(report') /\ report'.status = "unknown"
      BY <3>2, BareReport DEF Sound
    <3> QED BY <2>2, <3>1, <3>2 DEF ReadFails, Settles, host
  <2> QED BY <2>1, <2>2
<1>2. pc' \in {"cleanup", "commit"} /\ (pc' = "cleanup" => report'.oom)
  BY <1>1 DEF NextStep
<1> QED BY <1>1, <1>2 DEF row, Sound, Settles

\* A cleanup, or the hold after too many of them.
LEMMA CleanupKeeps == OomInv /\ (Hold \/ Cleanup) => OomInv'
<1> SUFFICES ASSUME OomInv, Hold \/ Cleanup PROVE OomInv'
  OBVIOUS
<1> USE DEF OomInv, TypeOK
<1>0. stored.cleanups \in 0 .. MaxCleanups /\ report.oom /\ receipt = "failed" /\ MaxCleanups \in Nat
  BY OomAssumption DEF Hold, Cleanup, Report, Sound, OomAssumption
<1>1. CASE Hold
  <2>1. report' = [[report EXCEPT !.status = "unknown"] EXCEPT !.cleanups = stored.cleanups]
    BY <1>1 DEF Hold, Report
  <2>2. /\ report' \in Report /\ report'.status = "unknown" /\ report'.evidence = report.evidence
    BY <1>0, <2>1 DEF Report
  <2> QED BY <1>0, <1>1, <2>2 DEF Hold, host, row, Sound, Settles
<1>2. CASE Cleanup
  <2> DEFINE k == stored.cleanups + 1
  <2>1. k \in 0 .. MaxCleanups BY <1>0, <1>2 DEF Cleanup, BudgetLeft
  <2>2. /\ pc' = "commit"
        /\ UNCHANGED <<cause, logs, receipt, rebooted, fresh, row, execute, known, crashes>>
    BY <1>2 DEF Cleanup
  <2>3. PICK e \in IF rebooted THEN {"none"} ELSE Evidence(report) :
          /\ group' \in IF e = "none" THEN {group} ELSE {FALSE, group}
          /\ strays' \in IF e = "none" THEN {strays} ELSE {FALSE, strays}
          /\ report' \in {[Recovered(e, group', strays') EXCEPT !.cleanups = stored.cleanups + 1],
                          [report EXCEPT !.status = "unknown", !.verified = FALSE,
                                         !.cleanups = stored.cleanups + 1]}
    BY <1>2 DEF Cleanup
  <2>4. /\ group' \in BOOLEAN /\ strays' \in BOOLEAN
        /\ (group' => group) /\ (strays' => strays)
    <3>1. group' \in {FALSE, group} /\ strays' \in {FALSE, strays}
      <4>1. CASE e = "none" BY <2>3, <4>1
      <4>2. CASE e # "none" BY <2>3, <4>2
      <4> QED BY <4>1, <4>2
    <3>2. group \in BOOLEAN /\ strays \in BOOLEAN OBVIOUS
    <3> HIDE DEF OomInv, TypeOK
    <3>3. group' \in BOOLEAN /\ strays' \in BOOLEAN
      BY <3>1, <3>2, Zenon
    <3>4. (group' => group) /\ (strays' => strays)
      <4>1. group' = FALSE \/ group' = group BY <3>1
      <4>2. strays' = FALSE \/ strays' = strays BY <3>1
      <4> QED BY <4>1, <4>2
    <3> QED BY <3>3, <3>4
  <2>5. /\ e \in {"log", "kernel", "none"}
        /\ e = "kernel" => cause = "kernel"
        /\ e = "log" => cause = "log"
        /\ e = "none" => rebooted \/ cause = "log"
    <3>1. CASE rebooted
      <4>1. e = "none" BY <2>3, <3>1
      <4> QED BY <3>1, <4>1
    <3>2. CASE ~rebooted
      <4>1. /\ e \in {"log", "kernel", "none"}
            /\ e = "kernel" => cause = "kernel"
            /\ e = "log" => cause = "log"
            /\ report.evidence = "kernel" => e = "kernel"
        BY <1>0, <2>3, <3>2, EvidenceIsTrue DEF Sound
      <4>2. report.evidence = "log" => cause = "log" BY DEF Sound
      <4>3. report.evidence \in {"log", "kernel"} BY <1>0 DEF Sound, Report
      <4> QED BY <4>1, <4>2, <4>3
    <3> QED BY <3>1, <3>2
  <2>6. ASSUME NEW r \in Report, r.evidence = e, r.oom <=> e # "none",
               r.status = "failed" /\ r.oom => ~group' /\ ~strays',
               report' = [r EXCEPT !.cleanups = k]
        PROVE  report' \in Report /\ Sound(report)' /\ Settles(report)'
    <3>1. /\ report' \in Report /\ report'.evidence = r.evidence /\ report'.status = r.status
          /\ report'.oom = r.oom /\ report'.cleanups = k
      BY <2>1, <2>6 DEF Report
    <3> QED BY <1>0, <2>1, <2>2, <2>4, <2>5, <2>6, <3>1 DEF Sound, Settles
  <2>7. ASSUME report' = [Recovered(e, group', strays') EXCEPT !.cleanups = k]
        PROVE  report' \in Report /\ Sound(report)' /\ Settles(report)'
    <3>1. CASE e = "none"
      <4>1. Recovered(e, group', strays') = Bare("failed") BY <3>1 DEF Recovered
      <4> QED BY <2>6, <2>7, <3>1, <4>1, BareReport
    <3>2. CASE e # "none"
      <4>1. Recovered(e, group', strays') = Classified(e, report, group', strays')
        BY <3>2 DEF Recovered
      <4>2. Classifies(Recovered(e, group', strays'), e, group' \/ strays')
        <5>1. report \in Report BY DEF OomInv, TypeOK
        <5> HIDE DEF OomInv, TypeOK
        <5> QED BY <2>4, <2>5, <4>1, <5>1, ClassifiedReport, Zenon
      <4> QED BY <2>6, <2>7, <3>2, <4>2 DEF Classifies
    <3> QED BY <3>1, <3>2
  <2>8. ASSUME report' = [report EXCEPT !.status = "unknown", !.verified = FALSE, !.cleanups = k]
        PROVE  report' \in Report /\ Sound(report)' /\ Settles(report)'
    <3>1. /\ report' \in Report /\ report'.status = "unknown"
          /\ report'.evidence = report.evidence /\ report'.oom = report.oom
      BY <2>1, <2>8 DEF Report
    <3> QED BY <1>0, <2>2, <3>1 DEF Sound, Settles
  <2>9. report' \in Report /\ Sound(report)' /\ Settles(report)'
    BY <2>3, <2>7, <2>8
  <2> QED BY <2>2, <2>4, <2>9 DEF row, Sound, Settles
<1> QED BY <1>1, <1>2

\* The other steps of the controller move reports about.
LEMMA ControllerKeeps == OomInv /\ (Commit \/ Crash \/ \E e \in BOOLEAN : StartTick(e)) => OomInv'
<1> SUFFICES ASSUME OomInv, Commit \/ Crash \/ \E e \in BOOLEAN : StartTick(e) PROVE OomInv'
  OBVIOUS
<1> USE DEF OomInv, TypeOK
<1>1. CASE Commit
  <2>1. report.status \in {"running", "unknown", "failed"} /\ report.oom \in BOOLEAN /\ report.verified \in BOOLEAN
    BY DEF Report
  <2>2. known' \in BOOLEAN BY <1>1 DEF Commit
  <2> QED BY <1>1, <2>1, <2>2 DEF Commit, host, Sound, Settles
<1>2. CASE Crash
  BY <1>2, OomAssumption DEF Crash, host, row, Sound, Settles, OomAssumption
<1>3. CASE \E e \in BOOLEAN : StartTick(e)
  BY <1>3 DEF StartTick, host, row, Sound, Settles
<1> QED BY <1>1, <1>2, <1>3

\* On the node, what has ended stays so.
LEMMA NodeKeeps ==
  OomInv /\ (RunnerFails \/ GroupExits \/ StraysExit \/ Detach \/ ObservationAges \/ Reboot
             \/ LogGrows \/ LogFails \/ LogReturns) => OomInv'
<1> USE DEF OomInv, TypeOK, row, tick, Sound, Settles
<1>1. OomInv /\ RunnerFails => OomInv'
  BY DEF RunnerFails
<1>2. OomInv /\ GroupExits => OomInv'
  <2>1. GroupExits => group' \in BOOLEAN BY Zenon DEF GroupExits
  <2> QED BY <2>1 DEF GroupExits
<1>3. OomInv /\ StraysExit => OomInv'
  <2>1. StraysExit => strays' \in BOOLEAN BY Zenon DEF StraysExit
  <2> QED BY <2>1 DEF StraysExit
<1>4. OomInv /\ Detach => OomInv'
  <2>1. Detach => strays' \in BOOLEAN BY Zenon DEF Detach
  <2> QED BY <2>1 DEF Detach
<1>5. OomInv /\ ObservationAges => OomInv'
  <2>1. ObservationAges => fresh' \in BOOLEAN BY Zenon DEF ObservationAges
  <2> QED BY <2>1 DEF ObservationAges
<1>6. OomInv /\ Reboot => OomInv'
  BY DEF Reboot
<1>7. OomInv /\ (LogGrows \/ LogFails \/ LogReturns) => OomInv'
  BY DEF LogGrows, LogFails, LogReturns
<1> QED BY <1>1, <1>2, <1>3, <1>4, <1>5, <1>6, <1>7

\* The invariant is inductive.
LEMMA OomNext == OomInv /\ [Next]_vars => OomInv'
<1>1. OomInv /\ UNCHANGED vars => OomInv'
  BY DEF OomInv, TypeOK, Sound, Settles, vars, host, row, tick
<1> QED BY <1>1, ReadKeeps, CleanupKeeps, ControllerKeeps, NodeKeeps DEF Next, TickStep

-----------------------------------------------------------------------------
(* While the logs show the OOM.                                            *)

\* A report of failure is one of an OOM without survivors.
Logged(r) == cause = "log" /\ r.status = "failed" /\ ~rebooted => r.oom /\ r.verified

LogInv == Logged(stored) /\ (pc = "commit" => Logged(report))

\* A read finds the OOM of a run that has ended.
LEMMA ReadFindsTheOom ==
  ASSUME OomInv, logs = "shown", NEW r \in StatusReports(stored)
  PROVE  Logged(r)
<1> USE DEF OomInv, TypeOK, Sound
<1> SUFFICES ASSUME cause = "log", r.status = "failed", ~rebooted
             PROVE  r.oom /\ r.verified
  BY DEF Logged
<1>1. receipt = "failed"
  <2>1. ASSUME receipt = "running" PROVE FALSE
    <3>1. PICK b \in BOOLEAN : r = [Bare("running") EXCEPT !.obs = b]
      BY <2>1 DEF StatusReports
    <3> QED BY <3>1, BareReport DEF Report
  <2> QED BY <2>1
<1>2. r = Classified("log", stored, group, strays)
  <2>1. PICK e \in Evidence(stored) :
          r = IF e = "none" THEN Bare(IF group THEN "unknown" ELSE "failed") ELSE Classified(e, stored, group, strays)
    BY <1>1 DEF StatusReports
  <2>2. e = "log" BY <2>1, EvidenceIsTrue
  <2> QED BY <2>1, <2>2
<1>3. Classifies(r, "log", group \/ strays)
  <2>1. stored \in Report /\ group \in BOOLEAN /\ strays \in BOOLEAN OBVIOUS
  <2> HIDE DEF OomInv, TypeOK, Sound
  <2> QED BY <1>2, <2>1, ClassifiedReport, Zenon
<1> QED BY <1>3 DEF Classifies

\* So does a cleanup, and no other step makes a report of failure.
LEMMA LogNext == OomInv /\ LogInv /\ logs = "shown" /\ [Next]_vars => LogInv'
<1> SUFFICES ASSUME OomInv, LogInv, logs = "shown", [Next]_vars PROVE LogInv'
  OBVIOUS
<1>1. CASE ReadOk
  BY <1>1, ReadFindsTheOom DEF ReadOk, LogInv, Logged, row
<1>2. CASE ReadFails
  <2>1. report'.status = "unknown"
    BY <1>2, BareReport DEF ReadFails, OomInv, TypeOK, Report
  <2> QED BY <1>2, <2>1 DEF ReadFails, LogInv, Logged, row, host
<1>3. CASE Hold
  <2>1. report'.status = "unknown"
    BY <1>3 DEF Hold, OomInv, TypeOK, Report
  <2> QED BY <1>3, <2>1 DEF Hold, LogInv, Logged, row, host
<1>4. CASE Cleanup
  <2>1. UNCHANGED <<cause, rebooted, row>>
    BY <1>4 DEF Cleanup
  <2> SUFFICES ASSUME cause = "log", ~rebooted, report'.status = "failed"
               PROVE  report'.oom /\ report'.verified
    BY <2>1 DEF LogInv, Logged, row
  <2>2. PICK e \in Evidence(report) :
          /\ group' \in IF e = "none" THEN {group} ELSE {FALSE, group}
          /\ strays' \in IF e = "none" THEN {strays} ELSE {FALSE, strays}
          /\ report' \in {[Recovered(e, group', strays') EXCEPT !.cleanups = stored.cleanups + 1],
                          [report EXCEPT !.status = "unknown", !.verified = FALSE,
                                         !.cleanups = stored.cleanups + 1]}
    BY <1>4 DEF Cleanup
  <2>3. e = "log"
    BY <2>2, EvidenceIsTrue DEF OomInv, TypeOK, Sound
  <2>4. group' \in BOOLEAN /\ strays' \in BOOLEAN
    <3>1. group' \in {FALSE, group} /\ strays' \in {FALSE, strays} BY <2>2, <2>3
    <3>2. group \in BOOLEAN /\ strays \in BOOLEAN BY DEF OomInv, TypeOK
    <3> QED BY <3>1, <3>2, Zenon
  <2>5. Recovered(e, group', strays') = Classified("log", report, group', strays')
    BY <2>3 DEF Recovered
  <2>6. Classifies(Recovered(e, group', strays'), "log", group' \/ strays')
    <3>1. report \in Report BY DEF OomInv, TypeOK
    <3> QED BY <2>4, <2>5, <3>1, ClassifiedReport, Zenon
  <2>7. report' = [Recovered(e, group', strays') EXCEPT !.cleanups = stored.cleanups + 1]
    BY <2>2 DEF OomInv, TypeOK, Report
  <2>8. /\ report'.status = Recovered(e, group', strays').status
        /\ report'.oom = Recovered(e, group', strays').oom
        /\ report'.verified = Recovered(e, group', strays').verified
    BY <2>6, <2>7 DEF Classifies, Report
  <2> QED BY <2>6, <2>8 DEF Classifies
<1>5. CASE Commit
  BY <1>5 DEF Commit, LogInv, Logged, host
<1>6. CASE Crash \/ \E e \in BOOLEAN : StartTick(e)
  BY <1>6 DEF Crash, StartTick, LogInv, Logged, host, row
<1>7. CASE \/ RunnerFails \/ GroupExits \/ StraysExit \/ Detach \/ ObservationAges \/ Reboot
           \/ LogGrows \/ LogFails \/ LogReturns
  BY <1>7 DEF RunnerFails, GroupExits, StraysExit, Detach, ObservationAges, Reboot,
              LogGrows, LogFails, LogReturns, LogInv, Logged, row, tick
<1>8. CASE UNCHANGED vars
  BY <1>8 DEF vars, LogInv, Logged, host, row, tick
<1> QED BY <1>1, <1>2, <1>3, <1>4, <1>5, <1>6, <1>7, <1>8 DEF Next, TickStep

-----------------------------------------------------------------------------
(* The theorems.                                                           *)

\* Every report, stored or in progress, is well formed and says of the node what
\* is so, and stays so.
THEOREM ReportsTrue == Spec => []OomInv
BY OomInit, OomNext, PTL DEF Spec

\* Every stored report and every report in progress is well formed.
THEOREM TypeCorrect == Spec => []TypeOK
<1>1. OomInv => TypeOK
  BY DEF OomInv
<1> QED BY <1>1, ReportsTrue, PTL

\* An attempt settled as an OOM has no process left, and none is settled while its
\* group lives, but by a cleanup that no longer finds the OOM in the logs.
THEOREM SurvivorsAreHeld == Spec => []SurvivorsHold
<1>1. OomInv => SurvivorsHold
  BY DEF OomInv, Settles, SurvivorsHold
<1> QED BY <1>1, ReportsTrue, PTL

\* As long as its logs show the OOM, an attempt is settled as an OOM.
THEOREM LoggedOomsClassified == Spec => LoggedOomIsClassified
<1>1. Init => LogInv
  BY BareReport DEF Init, LogInv, Logged
<1>2. OomInv /\ LogInv => (cause = "log" /\ astatus = "failed" /\ ~rebooted => stored.oom /\ stored.verified)
  BY DEF OomInv, LogInv, Logged
<1> QED BY <1>1, <1>2, LogNext, ReportsTrue, PTL DEF Spec, LoggedOomIsClassified

=============================================================================
