--------------------------- MODULE ResultAuthority ---------------------------
(***************************************************************************)
(* What the registry promises to everything downstream of it: which        *)
(* attempt, if any, speaks for a job, and what has become of the job.      *)
(* Authority is given to a new attempt only, after the job's dependencies  *)
(* have succeeded; it may be lost while the job is open, and it is final   *)
(* once the attempt has published a success.  AttemptLifecycle implements  *)
(* this specification.                                                     *)
(***************************************************************************)
CONSTANTS Jobs, Attempts, DependsOn

VARIABLES
  verdict,    \* [Jobs -> Verdict]
  authority,  \* [Jobs -> SUBSET Attempts]: {} or the one attempt that counts
  spent,      \* attempts that have ever had authority
  depends     \* [Jobs -> SUBSET Jobs]

avars == <<verdict, authority, spent, depends>>

Verdict == {"open", "succeeded", "failed", "blocked", "cancelled"}

\* Nothing has happened yet, or an earlier release left one attempt running.
AInit ==
  /\ verdict = [j \in Jobs |-> "open"]
  /\ depends = DependsOn
  /\ \/ spent = {} /\ authority = [j \in Jobs |-> {}]
     \/ \E a \in Attempts, j \in Jobs :
          /\ DependsOn[j] = {}
          /\ spent = {a}
          /\ authority = [i \in Jobs |-> IF i = j THEN {a} ELSE {}]

\* New attempts for distinct open jobs nobody speaks for.
Grant ==
  \E batch \in SUBSET (Attempts \ spent) : \E job \in [batch -> Jobs] :
    /\ batch # {}
    /\ \A a, b \in batch : job[a] = job[b] => a = b
    /\ \A a \in batch :
         /\ verdict[job[a]] = "open" /\ authority[job[a]] = {}
         /\ \A d \in depends[job[a]] : verdict[d] = "succeeded"
    /\ authority' = [j \in Jobs |-> authority[j] \cup {a \in batch : job[a] = j}]
    /\ spent' = spent \cup batch
    /\ UNCHANGED <<verdict, depends>>

Publish(j) ==
  /\ verdict[j] = "open" /\ authority[j] # {}
  /\ verdict' = [verdict EXCEPT ![j] = "succeeded"]
  /\ UNCHANGED <<authority, spent, depends>>

\* The attempt failed or was revoked: the job goes on, or is given up.
Lose(j, v) ==
  /\ verdict[j] = "open" /\ authority[j] # {}
  /\ verdict' = [verdict EXCEPT ![j] = v]
  /\ authority' = [authority EXCEPT ![j] = {}]
  /\ UNCHANGED <<spent, depends>>

Cancel(j) ==
  /\ verdict[j] = "open" /\ authority[j] = {}
  /\ verdict' = [verdict EXCEPT ![j] = "cancelled"]
  /\ UNCHANGED <<authority, spent, depends>>

Reopen(j) ==
  /\ verdict[j] = "failed"
  /\ verdict' = [verdict EXCEPT ![j] = "open"]
  /\ UNCHANGED <<authority, spent, depends>>

AddGate(j, d) ==
  /\ verdict[j] = "open" /\ authority[j] = {}
  /\ depends' = [depends EXCEPT ![j] = @ \cup {d}]
  /\ UNCHANGED <<verdict, authority, spent>>

ANext ==
  \/ Grant
  \/ \E j \in Jobs :
       \/ Publish(j) \/ Cancel(j) \/ Reopen(j)
       \/ \E v \in {"open", "failed", "blocked"} : Lose(j, v)
       \/ \E d \in Jobs : AddGate(j, d)

ASpec == AInit /\ [][ANext]_avars
=============================================================================
