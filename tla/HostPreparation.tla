-------------------------- MODULE HostPreparation --------------------------
(***************************************************************************)
(* How hosts are made fit for a queued experiment: an execution profile    *)
(* (its files copied to the host, then validated on its GPU) and a replica *)
(* of the data it reads, each prepared on demand by ordinary scheduler     *)
(* jobs and believed only after their receipts and a probe of the host.    *)
(*                                                                         *)
(* A tick holds the registry lock from its first probe to its last launch, *)
(* so that operators act between ticks.  Workers, hosts and disks do not   *)
(* wait: a job ends, a marker or a GPU is lost, at any time; a run that    *)
(* was reserved and never launched, or whose runner died, is never heard   *)
(* of again, and a host that does not answer is given up.                  *)
(*                                                                         *)
(* A file reaches an address by a preparation made for that address: what  *)
(* two addresses may share on one machine is left out.                     *)
(***************************************************************************)
EXTENDS Integers, Sequences, FiniteSets, SequencesExt

CONSTANTS
  Order,           \* the hosts, in the order in which both catalogs list them
  MaxParallel,     \* max_parallel of both catalogs
  MaxCopies,       \* copies of a replica made until one succeeds; 3 in the code
  MaxRecoveries,   \* retries of a validation; 2 in the code
  MaxDisturbances  \* faults and operator commands; bounds the model

Hosts == ToSet(Order)

ASSUME PreparationAssumption ==
  /\ Order \in Seq(ToSet(Order)) /\ IsInjective(Order)
  /\ MaxParallel \in Nat \ {0} /\ MaxCopies \in Nat \ {0} /\ MaxRecoveries \in Nat
  /\ MaxDisturbances \in Nat

VARIABLES
  db,           \* the registry: host specs, snapshots, records of both catalogs, jobs
  disk,         \* what lies on which machine: <<"marker" or "profile", host, address>>
  validated,    \* <<host, address>> of every GPU validation that passed
  broken,       \* hosts whose CUDA runtime does not start
  unavailable,  \* the hosts, and the coordinator, that were given up
  disturbances  \* Nat: those so far

world == <<disk, validated, broken, unavailable>>
vars  == <<db, world, disturbances>>

-----------------------------------------------------------------------------
(* Values.                                                                 *)
Address  == {"old", "new"}   \* the execution recipes are bound to the old one
Recipe   == "old"

\* Where the jobs of both catalogs run, but for the validations.
Coordinator    == "coordinator"
RunsOn(kind, h) == IF kind = "validate" THEN h ELSE Coordinator

\* A preparation job, with the run of its last attempt and the attempts left.
Job(at, attempts) == [status |-> "queued", run |-> "none", at |-> at, left |-> attempts, retried |-> FALSE]
Waiting(job)     == job.status \in {"queued", "active"}
Unfinished(jobs) == jobs # <<>> /\ Waiting(Last(jobs))
Ended(jobs, status) == jobs # <<>> /\ Last(jobs).status = status

\* A probe that failed, and one that has been deleted.
Unprobed == [read |-> "error", marker |-> FALSE, profile |-> FALSE]
NoProbe  == [Unprobed EXCEPT !.read = "none"]

Init ==
  /\ db = [spec |-> [h \in Hosts |-> [enabled |-> TRUE, at |-> "old", marker |-> FALSE, profile |-> FALSE]],
           snap |-> [h \in Hosts |-> NoProbe],
           replica |-> [h \in Hosts |-> [ready |-> FALSE, current |-> FALSE]],
           ready   |-> [h \in Hosts |-> FALSE],
           copy |-> [h \in Hosts |-> <<>>], prepare |-> [h \in Hosts |-> <<>>], validate |-> [h \in Hosts |-> <<>>],
           used |-> [h \in Hosts |-> 0],
           consumer |-> [status |-> "queued", profiles |-> {}, required |-> FALSE, at |-> <<>>]]
  /\ disk = {} /\ validated = {} /\ broken = {} /\ unavailable = {} /\ disturbances = 0

Disturb(n) == disturbances + n <= MaxDisturbances /\ disturbances' = disturbances + n

-----------------------------------------------------------------------------
(* The tick, from one registry d to the next.                              *)
Demand(d) == d.consumer.status = "queued"

\* Probes look for what the spec of the host names, at its address; hosts that
\* were given up are not asked.
Probed(d, hosts, down) ==
  [d EXCEPT !.snap = [h \in Hosts |->
     IF h \notin hosts THEN @[h]
     ELSE IF h \in down \cup unavailable THEN Unprobed
     ELSE [read    |-> "ok",
           marker  |-> d.spec[h].marker /\ <<"marker", h, d.spec[h].at>> \in disk,
           profile |-> d.spec[h].profile /\ <<"profile", h, d.spec[h].at>> \in disk]]]

\* A run without a result is unknown: its job stays active.
Settled(job) ==
  IF job.status # "active" \/ job.run \in {"running", "lost"} THEN job
  ELSE IF job.run = "ok" THEN [job EXCEPT !.status = "succeeded"]
  ELSE [job EXCEPT !.left = @ - 1, !.status = IF job.left > 1 THEN "queued" ELSE "failed"]

SettledJobs(jobs, hosts) ==
  [h \in Hosts |-> IF h \in hosts THEN [i \in DOMAIN jobs[h] |-> Settled(jobs[h][i])] ELSE jobs[h]]

\* Hosts whose jobs of a kind are on a machine that was not given up.
Reached(kind) == {h \in Hosts : RunsOn(kind, h) \notin unavailable}

Reconciled(d) ==
  [d EXCEPT !.copy     = SettledJobs(@, Reached("copy")),
            !.prepare  = SettledJobs(@, Reached("prepare")),
            !.validate = SettledJobs(@, Reached("validate"))]

\* Jobs for the first of these hosts, as far as max_parallel allows.
Granted(hosts, outstanding) ==
  LET queue == {n \in DOMAIN Order : Order[n] \in hosts}
      first == {n \in queue : Cardinality({m \in queue : m <= n}) <= MaxParallel - Cardinality(outstanding)}
  IN {Order[n] : n \in first}

(* Execution profiles.                                                     *)
Preparing(d) == {h \in Hosts : Unfinished(d.prepare[h])}

\* Without demand only what has passed its validation is brought to an end.
Wanted(d) ==
  {h \in Hosts : /\ d.spec[h].at = Recipe /\ d.spec[h].enabled
                 /\ \/ Demand(d)
                    \/ ~d.ready[h] /\ Ended(d.prepare[h], "succeeded") /\ Ended(d.validate[h], "succeeded")}

\* A failed validation is retried a few times, each after CUDA has started
\* again on the host.
Recovered(d, h) ==
  /\ Ended(d.validate[h], "failed") /\ d.validate[h][1].run = "runtime"
  /\ d.used[h] < MaxRecoveries /\ d.snap[h].read = "ok" /\ h \notin broken

\* The spec of a validated host gains the profile, a queued consumer the host.
ExecutionTick(d) ==
  LET prepared == {h \in Wanted(d) : Ended(d.prepare[h], "succeeded")}
      admitted == {h \in prepared : Ended(d.validate[h], "succeeded")}
      retried  == {h \in prepared : Recovered(d, h)}
      granted  == Granted({h \in Wanted(d) : d.prepare[h] = <<>>}, Preparing(d))
  IN [d EXCEPT
        !.prepare  = [h \in Hosts |-> IF h \in granted THEN <<Job(Recipe, 2)>> ELSE @[h]],
        !.validate = [h \in Hosts |->
                        IF h \in prepared /\ @[h] = <<>> THEN <<Job(Recipe, 1)>>
                        ELSE IF h \in retried THEN <<[@[h][1] EXCEPT !.status = "queued", !.left = 1]>>
                        ELSE @[h]],
        !.used  = [h \in Hosts |-> IF h \in retried THEN @[h] + 1 ELSE @[h]],
        !.spec  = [h \in Hosts |-> IF h \in admitted THEN [@[h] EXCEPT !.profile = TRUE] ELSE @[h]],
        !.snap  = [h \in Hosts |-> IF h \in admitted /\ ~d.spec[h].profile THEN NoProbe ELSE @[h]],
        !.ready = [h \in Hosts |-> @[h] \/ h \in admitted],
        !.consumer.profiles = IF Demand(d) THEN @ \cup admitted ELSE @]

(* Replicas.                                                               *)
\* The marker of a ready replica is gone: its job no longer counts.
Rechecked_Mutant(d) == {}
Rechecked(d) ==
  {h \in Hosts : d.replica[h].ready /\ d.spec[h].enabled /\ d.snap[h].read = "ok" /\ ~d.snap[h].marker}

\* A receipt stands for the address its copy was made at, and is left for
\* later while the host is disabled.
Verified(d) ==
  {h \in Hosts : /\ d.replica[h].current /\ ~d.replica[h].ready
                 /\ Ended(d.copy[h], "succeeded") /\ Last(d.copy[h]).at = d.spec[h].at
                 /\ d.spec[h].enabled}

Located(d) ==
  [d EXCEPT
     !.replica = [h \in Hosts |-> IF h \in Rechecked(d) THEN [ready |-> FALSE, current |-> FALSE]
                                  ELSE [d.replica[h] EXCEPT !.ready = @ \/ h \in Verified(d)]],
     !.spec = [h \in Hosts |-> IF h \in Verified(d) THEN [@[h] EXCEPT !.marker = TRUE] ELSE @[h]],
     !.snap = [h \in Hosts |-> IF h \in Verified(d) THEN NoProbe ELSE @[h]]]

Copying_Mutant(d) == {h \in Hosts : d.replica[h].current /\ Ended(d.copy[h], "active")}
Copying(d) == {h \in Hosts : d.replica[h].current /\ Unfinished(d.copy[h])}

\* A copy that failed is replaced unless too many were made, of earlier replicas
\* included.
MayCopy(d) ==
  {h \in Hosts : /\ d.spec[h].enabled
                 /\ d.replica[h].current => Ended(d.copy[h], "failed") /\ Len(d.copy[h]) < MaxCopies}

\* Demand attaches the identity of the data to the consumer, and asks for copies.
Requested(d) ==
  LET hosts == Granted(MayCopy(d), Copying(d))
  IN IF ~Demand(d) THEN d
     ELSE [d EXCEPT !.consumer.required = TRUE,
                    !.copy    = [h \in Hosts |-> IF h \in hosts THEN Append(@[h], Job(d.spec[h].at, 1)) ELSE @[h]],
                    !.replica = [h \in Hosts |-> IF h \in hosts THEN [ready |-> FALSE, current |-> TRUE] ELSE @[h]]]

(* Planning and launches, as far as they depend on the above.              *)
Started(job) == IF job.status = "queued" THEN [job EXCEPT !.status = "active", !.run = "running"] ELSE job
StartedJobs(jobs, hosts) ==
  [h \in Hosts |-> IF h \in hosts THEN [i \in DOMAIN jobs[h] |-> Started(jobs[h][i])] ELSE jobs[h]]

Healthy(d)   == {h \in Hosts : d.spec[h].enabled /\ d.snap[h].read = "ok"}
Placeable_Mutant(d) ==
  {h \in Healthy(d) \cap d.consumer.profiles :
     d.snap[h].profile /\ (d.consumer.required => d.replica[h].ready)}
Placeable(d) ==
  {h \in Healthy(d) \cap d.consumer.profiles :
     d.snap[h].profile /\ (d.consumer.required => d.snap[h].marker)}

\* Both kinds of copies run on the coordinator, while it has a slot, and
\* validations on their host.
Launches(d, full) ==
  LET idle == IF full THEN {} ELSE Reached("copy")
      e == [d EXCEPT !.copy = StartedJobs(@, idle), !.prepare = StartedJobs(@, idle),
                     !.validate = StartedJobs(@, Healthy(d))]
  IN IF Demand(d) /\ Placeable(d) # {}
     THEN {[e EXCEPT !.consumer.status = "running", !.consumer.at = <<h, d.spec[h].at>>] : h \in Placeable(d)}
     ELSE {e}

Expired(d) == {h \in Hosts : d.spec[h].enabled /\ d.snap[h].read = "none"}

\* One after the other: probes, reconciliation, execution profiles, replicas,
\* probes of what has none left, the plan and its launches.
Tick(down, full) ==
  /\ Disturb(Cardinality(down) + IF full THEN 1 ELSE 0)
  /\ \E observed \in {Reconciled(Probed(db, Hosts, down))} :
     \E executed \in {ExecutionTick(observed)} :
     \E located  \in {Located(executed)} :
     \E asked    \in {Requested(located)} :
       db' \in Launches(Probed(asked, Expired(asked), down), full)
  /\ UNCHANGED world

-----------------------------------------------------------------------------
(* Workers, hosts and disks.                                               *)

\* A process outlives the blocking of its job.
Ending(kind, h, i, from, run) ==
  /\ db[kind][h][i].status \in {"active", "blocked"} /\ db[kind][h][i].run \in from
  /\ db' = [db EXCEPT ![kind][h][i].run = run]

\* What a run makes on the host.
Place(kind, h, i) ==
  disk' = disk \cup {IF kind = "copy" THEN <<"marker", h, db.copy[h][i].at>> ELSE <<"profile", h, Recipe>>}

\* Bytes are verified, the marker or the profile is published, the receipt is
\* written.
TransferEnds(kind, h) ==
  \E i \in DOMAIN db[kind][h] :
    Ending(kind, h, i, {"running"}, "ok") /\ Place(kind, h, i) /\ UNCHANGED <<validated, broken, unavailable, disturbances>>

\* A run fails, or is lost: it was reserved and not launched, or its runner died.
\* What it makes may be there; and it may yet be found dead, when its machine
\* boots again.
RunFails(kind, h) ==
  \E i \in DOMAIN db[kind][h], run \in {"bad", "lost"} :
    /\ Ending(kind, h, i, {"running", "lost"}, run)
    /\ UNCHANGED disk \/ (kind # "validate" /\ Place(kind, h, i))
    /\ Disturb(1) /\ UNCHANGED <<validated, broken, unavailable>>

\* A validation runs on what it finds at the host.
ValidationEnds(h) ==
  LET run == IF <<"profile", h, db.spec[h].at>> \notin disk THEN "bad" ELSE IF h \in broken THEN "runtime" ELSE "ok"
  IN /\ \E i \in DOMAIN db.validate[h] : Ending("validate", h, i, {"running"}, run)
     /\ validated' = IF run = "ok" THEN validated \cup {<<h, db.spec[h].at>>} ELSE validated
     /\ UNCHANGED <<disk, broken, unavailable, disturbances>>

\* A host, or the coordinator, is given up: its active jobs are blocked, unless
\* their reservations are preserved, and their late results are ignored.
Blocked(job) == IF job.status = "active" THEN [job EXCEPT !.status = "blocked"] ELSE job
GivenUp(kind, machine) ==
  [h \in Hosts |-> IF RunsOn(kind, h) = machine THEN [i \in DOMAIN db[kind][h] |-> Blocked(db[kind][h][i])] ELSE db[kind][h]]

GiveUp(machine) ==
  /\ machine \notin unavailable /\ unavailable' = unavailable \cup {machine}
  /\ \/ UNCHANGED db
     \/ db' = [db EXCEPT !.copy     = GivenUp("copy", machine),
                         !.prepare  = GivenUp("prepare", machine),
                         !.validate = GivenUp("validate", machine)]
  /\ Disturb(1) /\ UNCHANGED <<disk, validated, broken>>

\* The experiment ends; when its attempt fails it is queued again.
ConsumerEnds ==
  /\ db.consumer.status = "running"
  /\ \/ db' = [db EXCEPT !.consumer.status = "succeeded"] /\ UNCHANGED disturbances
     \/ db' = [db EXCEPT !.consumer.status = "queued", !.consumer.at = <<>>] /\ Disturb(1)
  /\ UNCHANGED world

RuntimeBreaks(h) ==
  h \notin broken /\ broken' = broken \cup {h} /\ Disturb(1) /\ UNCHANGED <<db, disk, validated, unavailable>>
RuntimeHeals(h) ==
  h \in broken /\ broken' = broken \ {h} /\ UNCHANGED <<db, disk, validated, unavailable, disturbances>>

\* A file is gone from a host: its marker, or its profile.
FileLost(file) == disk' = disk \ {file} /\ Disturb(1) /\ UNCHANGED <<db, validated, broken, unavailable>>

-----------------------------------------------------------------------------
(* Operators, between ticks.                                               *)

\* A host is registered again at its other address, with the assets its spec
\* had or without; not while an attempt is active on it.
Busy(h) ==
  \/ db.consumer.status = "running" /\ db.consumer.at[1] = h
  \/ \E i \in DOMAIN db.validate[h] : db.validate[h][i].status = "active"

RegisterNode(h) ==
  /\ ~Busy(h) /\ Disturb(1) /\ UNCHANGED world
  /\ \E kept \in BOOLEAN, address \in Address \ {db.spec[h].at} :
       db' = [db EXCEPT !.spec[h] = [db.spec[h] EXCEPT !.at = address, !.marker = @ /\ kept, !.profile = @ /\ kept],
                        !.snap[h] = NoProbe]

DrainNode(h)  == db.spec[h].enabled /\ db' = [db EXCEPT !.spec[h].enabled = FALSE] /\ Disturb(1) /\ UNCHANGED world
EnableNode(h) == ~db.spec[h].enabled /\ db' = [db EXCEPT !.spec[h].enabled = TRUE] /\ UNCHANGED <<world, disturbances>>

ReadmitNode(machine) ==
  /\ machine \in unavailable /\ unavailable' = unavailable \ {machine}
  /\ db' = IF machine \in Hosts THEN [db EXCEPT !.snap[machine] = NoProbe] ELSE db
  /\ UNCHANGED <<disk, validated, broken, disturbances>>

CancelPending ==
  /\ \/ Demand(db) /\ db' = [db EXCEPT !.consumer.status = "cancelled"]
     \/ \E kind \in {"copy", "prepare", "validate"}, h \in Hosts : \E i \in DOMAIN db[kind][h] :
          /\ db[kind][h][i].status = "queued"
          /\ db' = [db EXCEPT ![kind][h][i].status = "cancelled"]
  /\ Disturb(1) /\ UNCHANGED world

RetryFailed(kind, h) ==
  /\ \E i \in DOMAIN db[kind][h] :
       /\ db[kind][h][i].status = "failed"
       /\ db' = [db EXCEPT ![kind][h][i] = [@ EXCEPT !.status = "queued", !.left = 1, !.retried = TRUE]]
  /\ Disturb(1) /\ UNCHANGED world

-----------------------------------------------------------------------------
WorldNext(h) ==
  \/ \E kind \in {"copy", "prepare"} : TransferEnds(kind, h)
  \/ \E kind \in {"copy", "prepare", "validate"} : RunFails(kind, h)
  \/ ValidationEnds(h) \/ RuntimeBreaks(h) \/ RuntimeHeals(h)

OperatorNext(h) ==
  \/ RegisterNode(h) \/ DrainNode(h) \/ EnableNode(h)
  \/ \E kind \in {"copy", "prepare", "validate"} : RetryFailed(kind, h)

Next ==
  \/ \E down \in SUBSET Hosts, full \in BOOLEAN : Tick(down, full)
  \/ \E h \in Hosts : WorldNext(h) \/ OperatorNext(h)
  \/ \E machine \in Hosts \cup {Coordinator} : GiveUp(machine) \/ ReadmitNode(machine)
  \/ \E file \in disk : FileLost(file)
  \/ ConsumerEnds \/ CancelPending

Spec == Init /\ [][Next]_vars

\* The daemon ticks in every cycle.  A copy runs under an alarm and the commands
\* of a preparation under time limits, so that those that were launched end; a
\* validation has no limit and may hang, and nothing makes a lost run end.
FairSpec ==
  /\ Spec /\ WF_vars(Tick({}, FALSE))
  /\ \A h \in Hosts, kind \in {"copy", "prepare"} : WF_vars(TransferEnds(kind, h))

-----------------------------------------------------------------------------
(* Properties.                                                             *)

\* An experiment is launched only where the probes of that very tick found its
\* data and its profile, and where that profile passed validation on the GPU,
\* at the address it is launched at: whatever was registered, drained, lost,
\* retried or recorded as ready before.
LaunchedWhereVerified ==
  [][db.consumer.status # "running" /\ db'.consumer.status = "running" =>
       \E h \in Hosts, at \in Address :
         /\ db'.consumer.at = <<h, at>>
         /\ {<<"marker", h, at>>, <<"profile", h, at>>} \subseteq disk
         /\ <<h, at>> \in validated]_vars

\* Unfinished jobs of one catalog stay within max_parallel, and no host gets a
\* second one, but for those an operator had retried.
Outstanding(jobs) ==
  UNION {{h} \X {i \in DOMAIN jobs[h] : Waiting(jobs[h][i]) /\ ~jobs[h][i].retried} : h \in Hosts}

PreparationsBounded ==
  \A jobs \in {db.copy, db.prepare} :
    /\ Cardinality(Outstanding(jobs)) <= MaxParallel
    /\ \A p, q \in Outstanding(jobs) : p[1] = q[1] => p = q

\* The last of these jobs has a run that was lost: it stays active, and counts
\* against max_parallel, for ever.
Stuck(jobs) == Ended(jobs, "active") /\ Last(jobs).run = "lost"

\* Why nothing prepares host h any further: no operator enables it, returns it
\* to its address or readmits it or the coordinator; a job was cancelled or
\* blocked, used up its attempts, or was lost, its own or those of the hosts
\* that fill max_parallel; its validation hangs or its GPU does not start; a
\* copy was made at another address than the present one; or the profile has
\* been lost after it was made.
Hopeless(h) ==
  \/ ~db.spec[h].enabled \/ db.spec[h].at # Recipe \/ {h, Coordinator} \cap unavailable # {}
  \/ \E status \in {"failed", "cancelled", "blocked"} : Ended(db.prepare[h], status)
  \/ Stuck(db.prepare[h])
  \/ db.prepare[h] = <<>> /\ Cardinality({g \in Hosts : Stuck(db.prepare[g])}) >= MaxParallel
  \/ \E status \in {"cancelled", "blocked", "active"} : Ended(db.validate[h], status)
  \/ Ended(db.validate[h], "failed") /\ (h \in broken \/ db.used[h] = MaxRecoveries \/ db.validate[h][1].run = "bad")
  \/ /\ db.replica[h].current /\ ~db.replica[h].ready
     /\ \/ \E status \in {"cancelled", "blocked"} : Ended(db.copy[h], status)
        \/ Stuck(db.copy[h])
        \/ Ended(db.copy[h], "failed") /\ Len(db.copy[h]) >= MaxCopies
        \/ Ended(db.copy[h], "succeeded") /\ Last(db.copy[h]).at # db.spec[h].at
  \/ /\ ~db.replica[h].ready
     /\ Cardinality({g \in Hosts : db.replica[g].current /\ Stuck(db.copy[g])}) >= MaxParallel
  \/ Ended(db.prepare[h], "succeeded") /\ <<"profile", h, Recipe>> \notin disk

\* An experiment that stays queued for ever does so because every host has
\* come to such an end; a lost marker, a drained host that is enabled again, a
\* failed copy with attempts left, or a probe without an answer is none.
StarvesOnlyWithCause == <>[](Demand(db)) => <>[](\A h \in Hosts : Hopeless(h))
=============================================================================
