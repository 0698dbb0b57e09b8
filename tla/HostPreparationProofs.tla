----------------------- MODULE HostPreparationProofs -----------------------
(***************************************************************************)
(* Theorems about HostPreparation, for any hosts, limits and faults: where *)
(* an experiment is launched, and how many preparations are under way.     *)
(***************************************************************************)
EXTENDS HostPreparation, FiniteSetTheorems, TLAPS

-----------------------------------------------------------------------------
(* Type correctness.                                                       *)

JobRow ==
  [status : {"queued", "active", "succeeded", "failed", "blocked", "cancelled"},
   run : {"none", "running", "lost", "ok", "bad", "runtime"}, at : Address, left : Int, retried : BOOLEAN]
HostSpec == [enabled : BOOLEAN, at : Address, marker : BOOLEAN, profile : BOOLEAN]
Probe    == [read : {"ok", "error", "none"}, marker : BOOLEAN, profile : BOOLEAN]
Replica  == [ready : BOOLEAN, current : BOOLEAN]
Consumer ==
  [status : {"queued", "running", "succeeded", "cancelled"}, profiles : SUBSET Hosts,
   required : BOOLEAN, at : {<<>>} \cup (Hosts \X Address)]

Specs    == [Hosts -> HostSpec]
Probes   == [Hosts -> Probe]
Replicas == [Hosts -> Replica]
Flags    == [Hosts -> BOOLEAN]
JobLists == [Hosts -> Seq(JobRow)]
Counts   == [Hosts -> Nat]

Registry ==
  [spec : Specs, snap : Probes, replica : Replicas, ready : Flags,
   copy : JobLists, prepare : JobLists, validate : JobLists, used : Counts, consumer : Consumer]

\* What lies on the machines, and where validations passed.
WorldType ==
  /\ disk \subseteq {"marker", "profile"} \X Hosts \X Address
  /\ validated \subseteq Hosts \X Address

\* The fields of a registry.
LEMMA RegistryFields ==
  ASSUME NEW d \in Registry
  PROVE  /\ d.spec \in Specs /\ d.snap \in Probes /\ d.replica \in Replicas /\ d.ready \in Flags
         /\ d.copy \in JobLists /\ d.prepare \in JobLists /\ d.validate \in JobLists
         /\ d.used \in Counts /\ d.consumer \in Consumer
BY DEF Registry

-----------------------------------------------------------------------------
(* The inductive invariant.                                                *)

\* A job that passed, or is about to have; one that nobody had retried.
Passed(job)  == job.run = "ok" \/ job.status = "succeeded"
Pending(job) == Waiting(job) /\ ~job.retried

\* A validation passes on the host and the recipe it is made for, ...
ValidationsBacked(lists) ==
  \A h \in Hosts : \A i \in DOMAIN lists[h] : Passed(lists[h][i]) => <<h, Recipe>> \in validated

\* ... which is what makes a host fit for the consumer.
ProfilesValidated(consumer) == \A h \in consumer.profiles : <<h, Recipe>> \in validated

\* Profiles lie at the address their recipe is bound to.
ProfilesAtRecipe == \A h \in Hosts, at \in Address : <<"profile", h, at>> \in disk => at = Recipe

\* The last copy alone may be pending, for a replica that is still to come.
CopiesLast(lists, replicas) ==
  \A h \in Hosts :
    /\ \A i \in DOMAIN lists[h] : Pending(lists[h][i]) => i = Len(lists[h]) /\ replicas[h].current
    /\ replicas[h].ready => lists[h] # <<>> /\ lists[h][Len(lists[h])].status = "succeeded"

OnePreparation(lists) == \A h \in Hosts : Len(lists[h]) <= 1

PendingHosts(lists) == {h \in Hosts : \E i \in DOMAIN lists[h] : Pending(lists[h][i])}
Bounded(lists)      == Cardinality(PendingHosts(lists)) <= MaxParallel

Sound(d) ==
  /\ d \in Registry
  /\ ValidationsBacked(d.validate) /\ ProfilesValidated(d.consumer)
  /\ CopiesLast(d.copy, d.replica) /\ OnePreparation(d.prepare)
  /\ Bounded(d.copy) /\ Bounded(d.prepare)

HostsInv == Sound(db) /\ WorldType /\ ProfilesAtRecipe

-----------------------------------------------------------------------------
(* Lists of jobs, and how many of them a tick may add.                     *)

\* Jobs that were not added, retried or passed: what a tick makes of old ones.
Follows(old, new) ==
  /\ new \in Seq(JobRow) /\ Len(new) = Len(old)
  /\ \A i \in DOMAIN old :
       /\ Pending(new[i]) => Pending(old[i])
       /\ Passed(new[i]) => Passed(old[i])
       /\ old[i].status = "succeeded" => new[i].status = "succeeded"

\* The positions and the last job of a list.
LEMMA ListFacts ==
  ASSUME NEW list \in Seq(JobRow)
  PROVE  /\ Len(list) \in Nat /\ DOMAIN list = 1 .. Len(list) /\ \A i \in DOMAIN list : list[i] \in JobRow
         /\ list # <<>> => Len(list) \in DOMAIN list
         /\ Last(list) = list[Len(list)]
BY DEF Last

\* As many well-formed jobs as a list has make a list of that length.
LEMMA ListAgain ==
  ASSUME NEW list \in Seq(JobRow), NEW new, new = [i \in DOMAIN list |-> new[i]],
         \A i \in DOMAIN list : new[i] \in JobRow
  PROVE  new \in Seq(JobRow) /\ Len(new) = Len(list) /\ DOMAIN new = DOMAIN list
<1>1. DOMAIN list = 1 .. Len(list) /\ Len(list) \in Nat
  OBVIOUS
<1>2. new \in [1 .. Len(list) -> JobRow]
  BY <1>1
<1> QED BY <1>1, <1>2

\* A list follows itself.
LEMMA SameFollows ==
  ASSUME NEW list \in Seq(JobRow)
  PROVE  Follows(list, list)
BY DEF Follows

\* A run that has ended ends its job, or queues it again.
LEMMA SettledFacts ==
  ASSUME NEW job \in JobRow
  PROVE  /\ Settled(job) \in JobRow
         /\ Pending(Settled(job)) => Pending(job)
         /\ Passed(Settled(job)) => Passed(job)
         /\ job.status = "succeeded" => Settled(job).status = "succeeded"
<1>1. CASE job.status # "active" \/ job.run \in {"running", "lost"}
  <2>1. Settled(job) = job
    BY <1>1 DEF Settled
  <2> QED BY <2>1
<1>2. CASE job.status = "active" /\ job.run = "ok"
  <2> DEFINE new == [job EXCEPT !.status = "succeeded"]
  <2>1. Settled(job) = new
    BY <1>2 DEF Settled
  <2>2. new \in JobRow /\ new.status = "succeeded" /\ new.run = job.run
    BY DEF JobRow
  <2> QED BY <1>2, <2>1, <2>2 DEF Pending, Passed, Waiting
<1>3. CASE job.status = "active" /\ job.run \notin {"running", "lost", "ok"}
  <2> DEFINE status == IF job.left > 1 THEN "queued" ELSE "failed"
             left   == job.left - 1
             new == [job EXCEPT !.left = left, !.status = status]
  <2>1. Settled(job) = new
    BY <1>3 DEF Settled
  <2>2. left \in Int /\ status \in {"queued", "failed"}
    BY DEF JobRow
  <2> HIDE DEF left, status
  <2>3. new \in JobRow /\ new.status = status /\ new.run = job.run /\ new.retried = job.retried
    BY <2>2 DEF JobRow
  <2> HIDE DEF new
  <2> QED BY <1>3, <2>1, <2>2, <2>3 DEF Pending, Passed, Waiting
<1> QED BY <1>1, <1>2, <1>3

\* A queued job becomes active, without being added, retried or passed.
LEMMA StartedFacts ==
  ASSUME NEW job \in JobRow
  PROVE  /\ Started(job) \in JobRow
         /\ Pending(Started(job)) => Pending(job)
         /\ Passed(Started(job)) => Passed(job)
         /\ job.status = "succeeded" => Started(job).status = "succeeded"
<1>1. CASE job.status # "queued"
  <2>1. Started(job) = job
    BY <1>1 DEF Started
  <2> QED BY <2>1
<1>2. CASE job.status = "queued"
  <2> DEFINE new == [job EXCEPT !.status = "active", !.run = "running"]
  <2>1. Started(job) = new
    BY <1>2 DEF Started
  <2>2. new \in JobRow /\ new.status = "active" /\ new.run = "running" /\ new.retried = job.retried
    BY DEF JobRow
  <2> HIDE DEF new
  <2> QED BY <1>2, <2>1, <2>2 DEF Pending, Passed, Waiting
<1> QED BY <1>1, <1>2

\* A job that is queued again has not passed since.
LEMMA RequeuedFacts ==
  ASSUME NEW job \in JobRow
  PROVE  LET new == [job EXCEPT !.status = "queued", !.left = 1]
         IN  new \in JobRow /\ new.status = "queued" /\ new.run = job.run
<1> DEFINE left == 1
           new == [job EXCEPT !.status = "queued", !.left = left]
<1>1. left \in Int
  OBVIOUS
<1> HIDE DEF left
<1>2. new \in JobRow /\ new.status = "queued" /\ new.run = job.run
  BY <1>1 DEF JobRow
<1> QED BY <1>2 DEF left

\* Reconciliation makes lists that follow those they find.
LEMMA SettledJobsFacts ==
  ASSUME NEW lists \in JobLists, NEW hosts
  PROVE  SettledJobs(lists, hosts) \in JobLists /\ \A h \in Hosts : Follows(lists[h], SettledJobs(lists, hosts)[h])
<1> DEFINE new == SettledJobs(lists, hosts)
<1>1. new = [h \in Hosts |-> IF h \in hosts THEN [i \in DOMAIN lists[h] |-> Settled(lists[h][i])] ELSE lists[h]]
  BY DEF SettledJobs
<1> HIDE DEF new
<1>2. ASSUME NEW h \in Hosts PROVE Follows(lists[h], new[h])
  <2>1. lists[h] \in Seq(JobRow)
    BY DEF JobLists
  <2>2. CASE h \in hosts
    <3>2. new[h] = [i \in DOMAIN lists[h] |-> Settled(lists[h][i])]
      BY <1>1, <2>2
    <3>3. \A i \in DOMAIN lists[h] : lists[h][i] \in JobRow /\ new[h][i] = Settled(lists[h][i])
      BY <2>1, <3>2
    <3>4. \A i \in DOMAIN lists[h] :
            /\ new[h][i] \in JobRow
            /\ Pending(new[h][i]) => Pending(lists[h][i])
            /\ Passed(new[h][i]) => Passed(lists[h][i])
            /\ lists[h][i].status = "succeeded" => new[h][i].status = "succeeded"
      BY <3>3, SettledFacts
    <3>5. new[h] = [i \in DOMAIN lists[h] |-> new[h][i]]
      BY <3>2
    <3>6. new[h] \in Seq(JobRow) /\ Len(new[h]) = Len(lists[h])
      BY <2>1, <3>4, <3>5, ListAgain
    <3> QED BY <3>4, <3>6 DEF Follows
  <2>3. CASE h \notin hosts
    <3>1. new[h] = lists[h]
      BY <1>1, <2>3
    <3> QED BY <2>1, <3>1, SameFollows
  <2> QED BY <2>2, <2>3
<1>3. new \in JobLists
  BY <1>1, <1>2 DEF JobLists, Follows
<1> QED BY <1>2, <1>3 DEF new

\* Launches make lists that follow those they find.
LEMMA StartedJobsFacts ==
  ASSUME NEW lists \in JobLists, NEW hosts
  PROVE  StartedJobs(lists, hosts) \in JobLists /\ \A h \in Hosts : Follows(lists[h], StartedJobs(lists, hosts)[h])
<1> DEFINE new == StartedJobs(lists, hosts)
<1>1. new = [h \in Hosts |-> IF h \in hosts THEN [i \in DOMAIN lists[h] |-> Started(lists[h][i])] ELSE lists[h]]
  BY DEF StartedJobs
<1> HIDE DEF new
<1>2. ASSUME NEW h \in Hosts PROVE Follows(lists[h], new[h])
  <2>1. lists[h] \in Seq(JobRow)
    BY DEF JobLists
  <2>2. CASE h \in hosts
    <3>2. new[h] = [i \in DOMAIN lists[h] |-> Started(lists[h][i])]
      BY <1>1, <2>2
    <3>3. \A i \in DOMAIN lists[h] : lists[h][i] \in JobRow /\ new[h][i] = Started(lists[h][i])
      BY <2>1, <3>2
    <3>4. \A i \in DOMAIN lists[h] :
            /\ new[h][i] \in JobRow
            /\ Pending(new[h][i]) => Pending(lists[h][i])
            /\ Passed(new[h][i]) => Passed(lists[h][i])
            /\ lists[h][i].status = "succeeded" => new[h][i].status = "succeeded"
      BY <3>3, StartedFacts
    <3>5. new[h] = [i \in DOMAIN lists[h] |-> new[h][i]]
      BY <3>2
    <3>6. new[h] \in Seq(JobRow) /\ Len(new[h]) = Len(lists[h])
      BY <2>1, <3>4, <3>5, ListAgain
    <3> QED BY <3>4, <3>6 DEF Follows
  <2>3. CASE h \notin hosts
    <3>1. new[h] = lists[h]
      BY <1>1, <2>3
    <3> QED BY <2>1, <3>1, SameFollows
  <2> QED BY <2>2, <2>3
<1>3. new \in JobLists
  BY <1>1, <1>2 DEF JobLists, Follows
<1> QED BY <1>2, <1>3 DEF new

\* What is blocked is no longer pending, and has not passed by that.
LEMMA BlockedFacts ==
  ASSUME NEW job \in JobRow
  PROVE  /\ Blocked(job) \in JobRow
         /\ Pending(Blocked(job)) => Pending(job)
         /\ Passed(Blocked(job)) => Passed(job)
         /\ job.status = "succeeded" => Blocked(job).status = "succeeded"
<1>1. CASE job.status # "active"
  <2>1. Blocked(job) = job
    BY <1>1 DEF Blocked
  <2> QED BY <2>1
<1>2. CASE job.status = "active"
  <2> DEFINE new == [job EXCEPT !.status = "blocked"]
  <2>1. Blocked(job) = new
    BY <1>2 DEF Blocked
  <2>2. new \in JobRow /\ new.status = "blocked" /\ new.run = job.run
    BY DEF JobRow
  <2> HIDE DEF new
  <2> QED BY <1>2, <2>1, <2>2 DEF Pending, Passed, Waiting
<1> QED BY <1>1, <1>2

\* A machine that is given up leaves lists that follow those it finds.
LEMMA GivenUpFacts ==
  ASSUME NEW kind, db[kind] \in JobLists, NEW machine
  PROVE  GivenUp(kind, machine) \in JobLists /\ \A h \in Hosts : Follows(db[kind][h], GivenUp(kind, machine)[h])
<1> DEFINE new == GivenUp(kind, machine)
           lists == db[kind]
<1>1. new = [h \in Hosts |-> IF RunsOn(kind, h) = machine THEN [i \in DOMAIN lists[h] |-> Blocked(lists[h][i])] ELSE lists[h]]
  BY DEF GivenUp
<1>0. lists \in JobLists
  OBVIOUS
<1> HIDE DEF new, lists
<1>2. ASSUME NEW h \in Hosts PROVE Follows(lists[h], new[h])
  <2>1. lists[h] \in Seq(JobRow)
    BY <1>0 DEF JobLists
  <2>2. CASE RunsOn(kind, h) = machine
    <3>2. new[h] = [i \in DOMAIN lists[h] |-> Blocked(lists[h][i])]
      BY <1>1, <2>2
    <3>3. \A i \in DOMAIN lists[h] : lists[h][i] \in JobRow /\ new[h][i] = Blocked(lists[h][i])
      BY <2>1, <3>2
    <3>4. \A i \in DOMAIN lists[h] :
            /\ new[h][i] \in JobRow
            /\ Pending(new[h][i]) => Pending(lists[h][i])
            /\ Passed(new[h][i]) => Passed(lists[h][i])
            /\ lists[h][i].status = "succeeded" => new[h][i].status = "succeeded"
      BY <3>3, BlockedFacts
    <3>5. new[h] = [i \in DOMAIN lists[h] |-> new[h][i]]
      BY <3>2
    <3>6. new[h] \in Seq(JobRow) /\ Len(new[h]) = Len(lists[h])
      BY <2>1, <3>4, <3>5, ListAgain
    <3> QED BY <3>4, <3>6 DEF Follows
  <2>3. CASE RunsOn(kind, h) # machine
    <3>1. new[h] = lists[h]
      BY <1>1, <2>3
    <3> QED BY <2>1, <3>1, SameFollows
  <2> QED BY <2>2, <2>3
<1>3. new \in JobLists
  BY <1>0, <1>1, <1>2 DEF JobLists, Follows
<1> QED BY <1>2, <1>3 DEF new, lists

\* The hosts of the catalogs.
LEMMA HostFacts ==
  /\ Order \in Seq(Hosts) /\ Len(Order) \in Nat /\ DOMAIN Order = 1 .. Len(Order)
  /\ Hosts = {Order[n] : n \in DOMAIN Order}
  /\ IsFiniteSet(Hosts) /\ IsFiniteSet(DOMAIN Order)
  /\ MaxParallel \in Nat \ {0}
<1>1. Order \in Seq(Hosts) /\ MaxParallel \in Nat \ {0}
  BY PreparationAssumption DEF PreparationAssumption, Hosts
<1>2. Len(Order) \in Nat /\ DOMAIN Order = 1 .. Len(Order)
  BY <1>1
<1>3. Hosts = {Order[n] : n \in DOMAIN Order}
  BY DEF Hosts, ToSet
<1>4. IsFiniteSet(DOMAIN Order)
  BY <1>2, FS_Interval
<1>5. IsFiniteSet(Hosts)
  <2> DEFINE f == [n \in DOMAIN Order |-> Order[n]]
  <2>1. f \in Surjection(DOMAIN Order, Hosts)
    BY <1>3 DEF Surjection
  <2> QED BY <1>4, <2>1, FS_Surjection
<1> QED BY <1>1, <1>2, <1>3, <1>4, <1>5

\* A tick adds jobs for hosts that were asked for, up to max_parallel in all.
LEMMA GrantedFacts ==
  ASSUME NEW hosts, NEW outstanding \in SUBSET Hosts
  PROVE  /\ Granted(hosts, outstanding) \subseteq hosts \cap Hosts
         /\ IsFiniteSet(Granted(hosts, outstanding))
         /\ Granted(hosts, outstanding) # {} =>
              Cardinality(Granted(hosts, outstanding)) + Cardinality(outstanding) <= MaxParallel
<1> DEFINE free   == MaxParallel - Cardinality(outstanding)
           queue  == {n \in DOMAIN Order : Order[n] \in hosts}
           upto(n) == {m \in queue : m <= n}
           first  == {n \in queue : Cardinality(upto(n)) <= free}
           granted == {Order[n] : n \in first}
<1>1. Granted(hosts, outstanding) = granted
  BY DEF Granted
<1>2. IsFiniteSet(outstanding) /\ Cardinality(outstanding) \in Nat /\ free \in Int
  BY HostFacts, FS_Subset, FS_CardinalityType
<1>3. queue \subseteq Nat /\ IsFiniteSet(queue)
  <2>1. queue \in SUBSET DOMAIN Order
    OBVIOUS
  <2> QED BY <2>1, HostFacts, FS_Subset
<1>4. granted \subseteq hosts \cap Hosts
  BY HostFacts
<1>5. ASSUME NEW n \in queue PROVE IsFiniteSet(upto(n)) /\ Cardinality(upto(n)) \in Nat \ {0}
  <2>1. upto(n) \in SUBSET queue /\ n \in upto(n)
    BY <1>3
  <2>2. IsFiniteSet(upto(n))
    BY <1>3, <2>1, FS_Subset
  <2> QED BY <2>1, <2>2, FS_CardinalityType, FS_EmptySet
<1>6. ASSUME NEW m \in queue, NEW n \in queue, m < n PROVE Cardinality(upto(m)) # Cardinality(upto(n))
  <2>1. upto(m) \in SUBSET upto(n) /\ n \in upto(n) /\ n \notin upto(m)
    BY <1>3, <1>6
  <2>2. IsFiniteSet(upto(n))
    BY <1>5
  <2> QED BY <2>1, <2>2, FS_Subset
<1>7. IsFiniteSet(first) /\ (first # {} => free >= 1 /\ Cardinality(first) <= free)
  <2> DEFINE count == [n \in first |-> Cardinality(upto(n))]
  <2>1. \A n \in first : n \in queue /\ Cardinality(upto(n)) \in 1 .. free
    BY <1>2, <1>5
  <2>2. count \in [first -> 1 .. free]
    BY <2>1
  <2>3. ASSUME NEW m \in first, NEW n \in first, count[m] = count[n] PROVE m = n
    <3>1. m \in queue /\ n \in queue /\ Cardinality(upto(m)) = Cardinality(upto(n)) /\ m \in Nat /\ n \in Nat
      BY <1>3, <2>1, <2>3
    <3>2. ~(m < n) /\ ~(n < m)
      BY <1>6, <3>1
    <3> QED BY <3>1, <3>2
  <2>4. count \in Injection(first, 1 .. free)
    <3>1. DOMAIN count = first
      OBVIOUS
    <3> HIDE DEF count
    <3>2. IsInjective(count)
      BY <2>3, <3>1 DEF IsInjective
    <3> QED BY <2>2, <3>2 DEF Injection
  <2> HIDE DEF upto
  <2>5. IsFiniteSet(1 .. free) /\ Cardinality(1 .. free) = IF 1 > free THEN 0 ELSE free - 1 + 1
    BY <1>2, FS_Interval
  <2>6. IsFiniteSet(first) /\ Cardinality(first) <= Cardinality(1 .. free)
    BY <2>4, <2>5, FS_Injection
  <2>7. first # {} => free >= 1
    BY <1>2, <2>1
  <2> HIDE DEF free, first
  <2> QED BY <1>2, <2>5, <2>6, <2>7
<1>8. IsFiniteSet(granted) /\ Cardinality(granted) <= Cardinality(first)
  <2> DEFINE f == [n \in first |-> Order[n]]
  <2>1. f \in Surjection(first, granted)
    BY DEF Surjection
  <2> HIDE DEF first, granted, f
  <2> QED BY <1>7, <2>1, FS_Surjection
<1>9. granted # {} => first # {}
  OBVIOUS
<1>10. Cardinality(granted) \in Nat /\ Cardinality(first) \in Nat
  BY <1>7, <1>8, FS_CardinalityType
<1>11. granted # {} => Cardinality(granted) + Cardinality(outstanding) <= MaxParallel
  <2>1. MaxParallel \in Nat /\ free = MaxParallel - Cardinality(outstanding)
    BY HostFacts
  <2> HIDE DEF free, first, granted
  <2> QED BY <1>2, <1>7, <1>8, <1>9, <1>10, <2>1
<1> HIDE DEF granted
<1> QED BY <1>1, <1>4, <1>8, <1>11

\* Some of the hosts of a set that is bounded.
LEMMA FewerPending ==
  ASSUME NEW old, NEW new, Bounded(old), PendingHosts(new) \subseteq PendingHosts(old)
  PROVE  Bounded(new)
<1>1. PendingHosts(old) \subseteq Hosts
  BY DEF PendingHosts
<1>2. IsFiniteSet(PendingHosts(old))
  BY <1>1, HostFacts, FS_Subset
<1>3. /\ IsFiniteSet(PendingHosts(new)) /\ Cardinality(PendingHosts(new)) <= Cardinality(PendingHosts(old))
      /\ Cardinality(PendingHosts(new)) \in Nat /\ Cardinality(PendingHosts(old)) \in Nat
  BY <1>2, FS_Subset, FS_CardinalityType
<1> QED BY <1>3, HostFacts DEF Bounded

\* What was granted, on top of what is outstanding.
LEMMA GrantedPending ==
  ASSUME NEW old, NEW new, NEW hosts, NEW outstanding \in SUBSET Hosts, Bounded(old),
         PendingHosts(old) \subseteq outstanding,
         PendingHosts(new) \subseteq PendingHosts(old) \cup Granted(hosts, outstanding)
  PROVE  Bounded(new)
<1> DEFINE granted == Granted(hosts, outstanding)
<1>1. CASE granted = {}
  <2>1. PendingHosts(new) \subseteq PendingHosts(old)
    BY <1>1
  <2> QED BY <2>1, FewerPending
<1>2. CASE granted # {}
  <2>1. /\ IsFiniteSet(granted) /\ Cardinality(granted) + Cardinality(outstanding) <= MaxParallel
    BY <1>2, GrantedFacts
  <2>2. IsFiniteSet(outstanding)
    BY HostFacts, FS_Subset
  <2>3. /\ IsFiniteSet(granted \cup outstanding)
        /\ Cardinality(granted \cup outstanding) <= Cardinality(granted) + Cardinality(outstanding)
    <3>1. /\ IsFiniteSet(granted \cup outstanding)
          /\ Cardinality(granted \cup outstanding)
               = Cardinality(granted) + Cardinality(outstanding) - Cardinality(granted \cap outstanding)
      BY <2>1, <2>2, FS_Union
    <3>2. IsFiniteSet(granted \cap outstanding)
      BY <2>1, FS_Intersection
    <3>3. /\ Cardinality(granted) \in Nat /\ Cardinality(outstanding) \in Nat
          /\ Cardinality(granted \cap outstanding) \in Nat
      BY <2>1, <2>2, <3>2, FS_CardinalityType
    <3> QED BY <3>1, <3>3
  <2>4. PendingHosts(new) \in SUBSET (granted \cup outstanding)
    OBVIOUS
  <2> HIDE DEF granted
  <2>5. Cardinality(PendingHosts(new)) <= Cardinality(granted \cup outstanding)
    BY <2>3, <2>4, FS_Subset
  <2>6. /\ Cardinality(PendingHosts(new)) \in Nat /\ Cardinality(granted \cup outstanding) \in Nat
        /\ Cardinality(granted) \in Nat /\ Cardinality(outstanding) \in Nat
    BY <2>1, <2>2, <2>3, <2>4, FS_Subset, FS_CardinalityType
  <2> QED BY <2>1, <2>3, <2>5, <2>6, HostFacts DEF Bounded
<1> QED BY <1>1, <1>2

\* What lists that follow others keep of the invariant.
LEMMA FollowingLists ==
  ASSUME NEW old \in JobLists, NEW new \in JobLists, \A h \in Hosts : Follows(old[h], new[h])
  PROVE  /\ Bounded(old) => Bounded(new)
         /\ ValidationsBacked(old) => ValidationsBacked(new)
         /\ OnePreparation(old) => OnePreparation(new)
         /\ \A replicas : CopiesLast(old, replicas) => CopiesLast(new, replicas)
<1>1. ASSUME NEW h \in Hosts
      PROVE  /\ Len(new[h]) = Len(old[h]) /\ DOMAIN new[h] = DOMAIN old[h]
             /\ DOMAIN old[h] = 1 .. Len(old[h]) /\ Len(old[h]) \in Nat
             /\ \A i \in DOMAIN old[h] :
                  /\ Pending(new[h][i]) => Pending(old[h][i])
                  /\ Passed(new[h][i]) => Passed(old[h][i])
                  /\ old[h][i].status = "succeeded" => new[h][i].status = "succeeded"
  <2>1. old[h] \in Seq(JobRow) /\ new[h] \in Seq(JobRow)
    BY DEF JobLists
  <2> QED BY <2>1 DEF Follows
<1>2. PendingHosts(new) \subseteq PendingHosts(old)
  BY <1>1 DEF PendingHosts
<1>3. Bounded(old) => Bounded(new)
  BY <1>2, FewerPending
<1>4. ValidationsBacked(old) => ValidationsBacked(new)
  BY <1>1 DEF ValidationsBacked
<1>5. OnePreparation(old) => OnePreparation(new)
  BY <1>1 DEF OnePreparation
<1>6. ASSUME NEW replicas, CopiesLast(old, replicas) PROVE CopiesLast(new, replicas)
  <2>1. ASSUME NEW h \in Hosts, NEW i \in DOMAIN new[h], Pending(new[h][i])
        PROVE  i = Len(new[h]) /\ replicas[h].current
    BY <1>1, <1>6, <2>1 DEF CopiesLast
  <2>2. ASSUME NEW h \in Hosts, replicas[h].ready
        PROVE  new[h] # <<>> /\ new[h][Len(new[h])].status = "succeeded"
    <3>1. old[h] # <<>> /\ old[h][Len(old[h])].status = "succeeded"
      BY <1>6, <2>2 DEF CopiesLast
    <3>2. old[h] \in Seq(JobRow) /\ new[h] \in Seq(JobRow)
      BY DEF JobLists
    <3>3. Len(old[h]) \in DOMAIN old[h] /\ Len(new[h]) = Len(old[h]) /\ Len(old[h]) # 0
      BY <1>1, <3>1, <3>2
    <3>4. new[h] # <<>>
      BY <3>2, <3>3
    <3> QED BY <1>1, <3>1, <3>3, <3>4
  <2> QED BY <2>1, <2>2 DEF CopiesLast
<1> QED BY <1>3, <1>4, <1>5, <1>6

-----------------------------------------------------------------------------
(* The parts of a tick.                                                    *)

\* What the probes of this tick report is so, at the address of the host.
Seen(d) ==
  \A h \in Hosts :
    /\ d.snap[h].marker => <<"marker", h, d.spec[h].at>> \in disk
    /\ d.snap[h].profile => <<"profile", h, d.spec[h].at>> \in disk

\* A failed or deleted probe has found nothing.
LEMMA NoProbeFacts ==
  /\ Unprobed \in Probe /\ ~Unprobed.marker /\ ~Unprobed.profile
  /\ NoProbe \in Probe /\ ~NoProbe.marker /\ ~NoProbe.profile
<1>1. Unprobed \in Probe /\ ~Unprobed.marker /\ ~Unprobed.profile
  BY DEF Unprobed, Probe
<1>2. NoProbe \in Probe /\ NoProbe.marker = Unprobed.marker /\ NoProbe.profile = Unprobed.profile
  BY <1>1 DEF NoProbe, Probe
<1> QED BY <1>1, <1>2

\* A registry with other snapshots is as sound.
LEMMA SnapSound ==
  ASSUME NEW d, Sound(d), NEW e \in Registry,
         e.validate = d.validate, e.consumer = d.consumer, e.copy = d.copy, e.replica = d.replica, e.prepare = d.prepare
  PROVE  Sound(e)
BY DEF Sound

\* Probes report what lies at the address of a host, and change no record.
LEMMA ProbedFacts ==
  ASSUME NEW d, Sound(d), NEW hosts, NEW down, hosts = Hosts \/ Seen(d)
  PROVE  LET e == Probed(d, hosts, down)
         IN  Sound(e) /\ Seen(e) /\ e.spec = d.spec /\ e.consumer = d.consumer
<1> DEFINE marker(h)  == d.spec[h].marker /\ <<"marker", h, d.spec[h].at>> \in disk
           profile(h) == d.spec[h].profile /\ <<"profile", h, d.spec[h].at>> \in disk
           found(h)   == [read |-> "ok", marker |-> marker(h), profile |-> profile(h)]
           snap       == [h \in Hosts |-> IF h \notin hosts THEN d.snap[h] ELSE IF h \in down \cup unavailable THEN Unprobed ELSE found(h)]
           e          == Probed(d, hosts, down)
<1>1. d \in Registry /\ d.snap \in Probes
  BY RegistryFields DEF Sound
<1>2. e = [d EXCEPT !.snap = snap]
  BY DEF Probed
<1>3. ASSUME NEW h \in Hosts
      PROVE  /\ found(h) \in Probe
             /\ found(h).marker => <<"marker", h, d.spec[h].at>> \in disk
             /\ found(h).profile => <<"profile", h, d.spec[h].at>> \in disk
  <2> DEFINE m == marker(h)
             p == profile(h)
             f == [read |-> "ok", marker |-> m, profile |-> p]
  <2>1. m \in BOOLEAN /\ p \in BOOLEAN
    OBVIOUS
  <2>2. (m => <<"marker", h, d.spec[h].at>> \in disk) /\ (p => <<"profile", h, d.spec[h].at>> \in disk)
    OBVIOUS
  <2>3. found(h) = f
    OBVIOUS
  <2> HIDE DEF m, p, found
  <2>4. f \in Probe /\ f.marker = m /\ f.profile = p
    BY <2>1 DEF Probe
  <2> HIDE DEF f
  <2> QED BY <2>2, <2>3, <2>4
<1>4. ASSUME NEW h \in Hosts PROVE d.snap[h] \in Probe
  BY <1>1 DEF Probes
<1> HIDE DEF found
<1>5. snap \in Probes
  BY <1>3, <1>4, NoProbeFacts DEF Probes
<1>6. ASSUME NEW h \in Hosts
      PROVE  /\ snap[h].marker => <<"marker", h, d.spec[h].at>> \in disk
             /\ snap[h].profile => <<"profile", h, d.spec[h].at>> \in disk
  <2>1. CASE h \notin hosts
    BY <2>1 DEF Seen
  <2>2. CASE h \in hosts /\ h \in down \cup unavailable
    <3>1. snap[h] = Unprobed
      BY <2>2
    <3> QED BY <3>1, NoProbeFacts
  <2>3. CASE h \in hosts /\ h \notin down \cup unavailable
    <3>1. snap[h] = found(h)
      BY <2>3
    <3> HIDE DEF snap
    <3> QED BY <1>3, <3>1
  <2> QED BY <2>1, <2>2, <2>3
<1> HIDE DEF snap, e
<1>7. /\ e \in Registry /\ e.snap = snap
      /\ e.spec = d.spec /\ e.replica = d.replica /\ e.copy = d.copy
      /\ e.prepare = d.prepare /\ e.validate = d.validate /\ e.consumer = d.consumer
  BY <1>1, <1>2, <1>5 DEF Registry
<1>8. Sound(e)
  BY <1>7, SnapSound
<1>9. Seen(e)
  BY <1>6, <1>7 DEF Seen
<1> QED BY <1>7, <1>8, <1>9 DEF e

\* Reconciliation keeps the registry sound, and its probes true.
LEMMA ReconciledFacts ==
  ASSUME NEW d, Sound(d), Seen(d)
  PROVE  Sound(Reconciled(d)) /\ Seen(Reconciled(d)) /\ Reconciled(d).spec = d.spec /\ Reconciled(d).consumer = d.consumer
<1> DEFINE c == SettledJobs(d.copy, Reached("copy"))
           p == SettledJobs(d.prepare, Reached("prepare"))
           v == SettledJobs(d.validate, Reached("validate"))
           e == Reconciled(d)
<1>1. d \in Registry /\ d.copy \in JobLists /\ d.prepare \in JobLists /\ d.validate \in JobLists
  BY RegistryFields DEF Sound
<1>2. /\ c \in JobLists /\ \A h \in Hosts : Follows(d.copy[h], c[h])
      /\ p \in JobLists /\ \A h \in Hosts : Follows(d.prepare[h], p[h])
      /\ v \in JobLists /\ \A h \in Hosts : Follows(d.validate[h], v[h])
  BY <1>1, SettledJobsFacts
<1>3. e = [d EXCEPT !.copy = c, !.prepare = p, !.validate = v]
  BY DEF Reconciled
<1> HIDE DEF c, p, v, e
<1>4. /\ e \in Registry /\ e.copy = c /\ e.prepare = p /\ e.validate = v
      /\ e.spec = d.spec /\ e.snap = d.snap /\ e.replica = d.replica /\ e.consumer = d.consumer
  <2>1. d \in Registry
    BY <1>1
  <2>2. c \in JobLists /\ p \in JobLists /\ v \in JobLists
    BY <1>2
  <2> QED BY <1>3, <2>1, <2>2 DEF Registry
<1>5. Bounded(c) /\ CopiesLast(c, d.replica)
  BY <1>1, <1>2, FollowingLists DEF Sound
<1>6. Bounded(p) /\ OnePreparation(p)
  BY <1>1, <1>2, FollowingLists DEF Sound
<1>7. ValidationsBacked(v)
  BY <1>1, <1>2, FollowingLists DEF Sound
<1>8. Sound(e)
  BY <1>4, <1>5, <1>6, <1>7 DEF Sound
<1>9. Seen(e)
  BY <1>4 DEF Seen
<1> QED BY <1>4, <1>8, <1>9 DEF e

\* A new job is pending, and has not passed.
LEMMA JobFacts ==
  ASSUME NEW at \in Address, NEW attempts \in Int
  PROVE  /\ Job(at, attempts) \in JobRow /\ Pending(Job(at, attempts)) /\ ~Passed(Job(at, attempts))
         /\ <<Job(at, attempts)>> \in Seq(JobRow) /\ Len(<<Job(at, attempts)>>) = 1
         /\ <<Job(at, attempts)>>[1] = Job(at, attempts)
<1> DEFINE job == Job(at, attempts)
<1>1. /\ job \in JobRow /\ job.status = "queued" /\ job.run = "none" /\ ~job.retried
  BY DEF Job, JobRow
<1> HIDE DEF job
<1>2. Pending(job) /\ ~Passed(job)
  BY <1>1 DEF Pending, Waiting, Passed
<1>3. <<job>> \in Seq(JobRow) /\ Len(<<job>>) = 1 /\ <<job>>[1] = job
  BY <1>1
<1> QED BY <1>1, <1>2, <1>3 DEF job

\* What is said here of the hosts a tick admits, is said by ExecutionTick.
Prepared(d) == {h \in Wanted(d) : Ended(d.prepare[h], "succeeded")}
Admitted(d) == {h \in Prepared(d) : Ended(d.validate[h], "succeeded")}
Retried(d)  == {h \in Prepared(d) : Recovered(d, h)}
Preparable(d) == Granted({h \in Wanted(d) : d.prepare[h] = <<>>}, Preparing(d))

\* The execution profiles' part of a tick keeps the registry sound, and its probes true.
LEMMA ExecutionFacts ==
  ASSUME NEW d, Sound(d), Seen(d)
  PROVE  LET e == ExecutionTick(d)
         IN  /\ Sound(e) /\ Seen(e)
             /\ e.consumer.status = d.consumer.status /\ e.consumer.required = d.consumer.required
<1> DEFINE p == [h \in Hosts |-> IF h \in Preparable(d) THEN <<Job(Recipe, 2)>> ELSE d.prepare[h]]
           v == [h \in Hosts |->
                   IF h \in Prepared(d) /\ d.validate[h] = <<>> THEN <<Job(Recipe, 1)>>
                   ELSE IF h \in Retried(d) THEN <<[d.validate[h][1] EXCEPT !.status = "queued", !.left = 1]>>
                   ELSE d.validate[h]]
           u == [h \in Hosts |-> IF h \in Retried(d) THEN d.used[h] + 1 ELSE d.used[h]]
           s == [h \in Hosts |-> IF h \in Admitted(d) THEN [d.spec[h] EXCEPT !.profile = TRUE] ELSE d.spec[h]]
           n == [h \in Hosts |-> IF h \in Admitted(d) /\ ~d.spec[h].profile THEN NoProbe ELSE d.snap[h]]
           r == [h \in Hosts |-> d.ready[h] \/ h \in Admitted(d)]
           fit == IF Demand(d) THEN d.consumer.profiles \cup Admitted(d) ELSE d.consumer.profiles
           k == [d.consumer EXCEPT !.profiles = fit]
           e == ExecutionTick(d)
<1>1. e = [d EXCEPT !.prepare = p, !.validate = v, !.used = u, !.spec = s, !.snap = n, !.ready = r, !.consumer = k]
  BY DEF ExecutionTick, Prepared, Admitted, Retried, Preparable
<1>2. d \in Registry
  BY DEF Sound
<1>3. /\ d.spec \in Specs /\ d.snap \in Probes /\ d.ready \in Flags /\ d.used \in Counts
      /\ d.prepare \in JobLists /\ d.validate \in JobLists /\ d.consumer \in Consumer
  BY <1>2, RegistryFields
<1>4. Recipe \in Address /\ Admitted(d) \subseteq Hosts /\ Admitted(d) \subseteq Prepared(d) /\ Prepared(d) \subseteq Hosts
  BY DEF Recipe, Address, Admitted, Prepared, Wanted
<1> HIDE DEF e
<1>5. s \in Specs /\ \A h \in Hosts : s[h].at = d.spec[h].at
  <2>1. ASSUME NEW h \in Hosts PROVE s[h] \in HostSpec /\ s[h].at = d.spec[h].at
    <3>1. d.spec[h] \in HostSpec
      BY <1>3 DEF Specs
    <3>2. /\ [d.spec[h] EXCEPT !.profile = TRUE] \in HostSpec
          /\ [d.spec[h] EXCEPT !.profile = TRUE].at = d.spec[h].at
      BY <3>1 DEF HostSpec
    <3> QED BY <3>1, <3>2
  <2> QED BY <2>1 DEF Specs
<1>6. n \in Probes /\ \A h \in Hosts : (n[h].marker => d.snap[h].marker) /\ (n[h].profile => d.snap[h].profile)
  <2>1. \A h \in Hosts : d.snap[h] \in Probe
    BY <1>3 DEF Probes
  <2> QED BY <2>1, NoProbeFacts DEF Probes
<1>7. r \in Flags
  BY <1>3 DEF Flags
<1>8. u \in Counts
  BY <1>3 DEF Counts
<1>9. k \in Consumer /\ k.status = d.consumer.status /\ k.required = d.consumer.required /\ k.profiles = fit
  <2>1. d.consumer.profiles \in SUBSET Hosts
    BY <1>3 DEF Consumer
  <2>2. fit \in SUBSET Hosts
    BY <1>4, <2>1
  <2> HIDE DEF fit
  <2> QED BY <1>3, <2>2 DEF Consumer
<1>10. ASSUME NEW h \in Admitted(d) PROVE <<h, Recipe>> \in validated
  <2>1. d.validate[h] # <<>> /\ Last(d.validate[h]).status = "succeeded"
    BY DEF Admitted, Ended
  <2>2. d.validate[h] \in Seq(JobRow) /\ h \in Hosts
    BY <1>3, <1>4 DEF JobLists
  <2>3. Len(d.validate[h]) \in DOMAIN d.validate[h] /\ d.validate[h][Len(d.validate[h])].status = "succeeded"
    BY <2>1, <2>2, ListFacts
  <2> QED BY <2>2, <2>3 DEF Sound, ValidationsBacked, Passed
<1>11. ProfilesValidated(k)
  <2>1. \A h \in d.consumer.profiles : <<h, Recipe>> \in validated
    BY DEF Sound, ProfilesValidated
  <2> HIDE DEF k
  <2> QED BY <1>9, <1>10, <2>1 DEF ProfilesValidated
<1>12. v \in JobLists /\ ValidationsBacked(v)
  <2>1. ASSUME NEW h \in Hosts
        PROVE  v[h] \in Seq(JobRow) /\ \A i \in DOMAIN v[h] : Passed(v[h][i]) => <<h, Recipe>> \in validated
    <3>0. d.validate[h] \in Seq(JobRow)
      BY <1>3 DEF JobLists
    <3>1. CASE h \in Prepared(d) /\ d.validate[h] = <<>>
      <4>1. v[h] = <<Job(Recipe, 1)>>
        BY <3>1
      <4> HIDE DEF v
      <4>2. v[h] \in Seq(JobRow) /\ DOMAIN v[h] = {1} /\ ~Passed(v[h][1])
        BY <1>4, <4>1, JobFacts
      <4> QED BY <4>2
    <3>2. CASE h \in Retried(d) /\ d.validate[h] # <<>>
      <4> DEFINE old == d.validate[h][1]
                 job == [old EXCEPT !.status = "queued", !.left = 1]
      <4>1. v[h] = <<job>>
        BY <3>2
      <4>2. old \in JobRow /\ 1 \in DOMAIN d.validate[h]
        BY <3>0, <3>2, ListFacts
      <4>4. Passed(old) => <<h, Recipe>> \in validated
        BY <4>2 DEF Sound, ValidationsBacked
      <4> HIDE DEF old
      <4>3. job \in JobRow /\ job.status = "queued" /\ job.run = old.run
        BY <4>2, RequeuedFacts
      <4> HIDE DEF v, job
      <4>5. <<job>> \in Seq(JobRow) /\ DOMAIN <<job>> = {1} /\ <<job>>[1] = job
        BY <4>3
      <4>6. v[h] \in Seq(JobRow) /\ DOMAIN v[h] = {1} /\ v[h][1] = job
        BY <4>1, <4>5
      <4> QED BY <4>3, <4>4, <4>6 DEF Passed
    <3>3. CASE ~(h \in Prepared(d) /\ d.validate[h] = <<>>) /\ h \notin Retried(d)
      <4>1. v[h] = d.validate[h]
        BY <3>3
      <4> HIDE DEF v
      <4> QED BY <3>0, <4>1 DEF Sound, ValidationsBacked
    <3>4. h \in Retried(d) => d.validate[h] # <<>>
      BY DEF Retried, Recovered, Ended
    <3> QED BY <3>1, <3>2, <3>3, <3>4
  <2>2. v = [h \in Hosts |-> v[h]]
    OBVIOUS
  <2> HIDE DEF v
  <2> QED BY <2>1, <2>2 DEF JobLists, ValidationsBacked
<1>13. p \in JobLists /\ OnePreparation(p)
  <2>1. ASSUME NEW h \in Hosts PROVE p[h] \in Seq(JobRow) /\ Len(p[h]) <= 1
    <3>1. d.prepare[h] \in Seq(JobRow) /\ Len(d.prepare[h]) <= 1
      BY <1>3 DEF JobLists, Sound, OnePreparation
    <3>2. <<Job(Recipe, 2)>> \in Seq(JobRow) /\ Len(<<Job(Recipe, 2)>>) = 1
      BY <1>4, JobFacts
    <3> QED BY <3>1, <3>2
  <2>2. p = [h \in Hosts |-> p[h]]
    OBVIOUS
  <2> HIDE DEF p
  <2> QED BY <2>1, <2>2 DEF JobLists, OnePreparation
<1>14. Bounded(p)
  <2>1. PendingHosts(d.prepare) \subseteq Preparing(d)
    <3>1. ASSUME NEW h \in Hosts, NEW i \in DOMAIN d.prepare[h], Pending(d.prepare[h][i])
          PROVE  Unfinished(d.prepare[h])
      <4>1. d.prepare[h] \in Seq(JobRow) /\ Len(d.prepare[h]) <= 1
        BY <1>3 DEF JobLists, Sound, OnePreparation
      <4>2. i = Len(d.prepare[h]) /\ d.prepare[h] # <<>>
        BY <3>1, <4>1, ListFacts
      <4> QED BY <3>1, <4>1, <4>2, ListFacts DEF Unfinished, Pending
    <3> QED BY <3>1 DEF PendingHosts, Preparing
  <2>2. Preparing(d) \in SUBSET Hosts
    BY DEF Preparing
  <2>3. PendingHosts(p) \subseteq PendingHosts(d.prepare) \cup Preparable(d)
    BY DEF PendingHosts
  <2>4. Bounded(d.prepare)
    BY DEF Sound
  <2> HIDE DEF p
  <2> QED BY <2>1, <2>2, <2>3, <2>4, GrantedPending DEF Preparable
<1> HIDE DEF p, v, u, s, n, r, k
<1>15. /\ e \in Registry /\ e.prepare = p /\ e.validate = v /\ e.spec = s /\ e.snap = n
       /\ e.consumer = k /\ e.copy = d.copy /\ e.replica = d.replica
  <2>1. /\ d \in Registry /\ p \in JobLists /\ v \in JobLists /\ u \in Counts /\ s \in Specs
        /\ n \in Probes /\ r \in Flags /\ k \in Consumer
    BY <1>2, <1>5, <1>6, <1>7, <1>8, <1>9, <1>12, <1>13
  <2> QED BY <1>1, <2>1 DEF Registry
<1>16. Sound(e)
  BY <1>11, <1>12, <1>13, <1>14, <1>15 DEF Sound
<1>17. Seen(e)
  BY <1>5, <1>6, <1>15 DEF Seen
<1> QED BY <1>9, <1>15, <1>16, <1>17 DEF e

\* What the last of the jobs of a host says of those that are pending.
LEMMA EndedFacts ==
  ASSUME NEW list \in Seq(JobRow), NEW status \in {"succeeded", "failed"}, Ended(list, status),
         NEW i \in DOMAIN list, Pending(list[i])
  PROVE  i # Len(list)
<1>1. list[Len(list)].status = status
  BY ListFacts DEF Ended
<1> QED BY <1>1 DEF Pending, Waiting

\* A replica that is not ready.
LEMMA ReplicaFacts ==
  ASSUME NEW current \in BOOLEAN
  PROVE  LET row == [ready |-> FALSE, current |-> current]
         IN  row \in Replica /\ ~row.ready /\ row.current = current
BY DEF Replica

\* A replica becomes ready or not, and stays as current as it was.
LEMMA ReadyFacts ==
  ASSUME NEW row \in Replica, NEW flag \in BOOLEAN
  PROVE  LET new == [row EXCEPT !.ready = flag]
         IN  new \in Replica /\ new.ready = flag /\ new.current = row.current
BY DEF Replica

\* A job put after the others of its list.
LEMMA AppendFacts ==
  ASSUME NEW list \in Seq(JobRow), NEW job \in JobRow
  PROVE  LET new == Append(list, job)
         IN  /\ new \in Seq(JobRow) /\ Len(new) = Len(list) + 1
             /\ \A i \in DOMAIN new : i = Len(new) \/ (i \in DOMAIN list /\ new[i] = list[i])
OBVIOUS

\* The recheck and the admission of replicas keep the registry sound, and its probes true.
LEMMA LocatedFacts ==
  ASSUME NEW d, Sound(d), Seen(d)
  PROVE  Sound(Located(d)) /\ Seen(Located(d)) /\ Located(d).consumer = d.consumer
<1> DEFINE flag(h) == d.replica[h].ready \/ h \in Verified(d)
           r == [h \in Hosts |-> IF h \in Rechecked(d) THEN [ready |-> FALSE, current |-> FALSE]
                                 ELSE [d.replica[h] EXCEPT !.ready = @ \/ h \in Verified(d)]]
           s == [h \in Hosts |-> IF h \in Verified(d) THEN [d.spec[h] EXCEPT !.marker = TRUE] ELSE d.spec[h]]
           n == [h \in Hosts |-> IF h \in Verified(d) THEN NoProbe ELSE d.snap[h]]
           e == Located(d)
<1>1. e = [d EXCEPT !.replica = r, !.spec = s, !.snap = n]
  BY DEF Located
<1>2. d \in Registry
  BY DEF Sound
<1>3. d.spec \in Specs /\ d.snap \in Probes /\ d.replica \in Replicas /\ d.copy \in JobLists
  BY <1>2, RegistryFields
<1> HIDE DEF e
<1>4. s \in Specs /\ \A h \in Hosts : s[h].at = d.spec[h].at
  <2>1. ASSUME NEW h \in Hosts PROVE s[h] \in HostSpec /\ s[h].at = d.spec[h].at
    <3>1. d.spec[h] \in HostSpec
      BY <1>3 DEF Specs
    <3>2. /\ [d.spec[h] EXCEPT !.marker = TRUE] \in HostSpec
          /\ [d.spec[h] EXCEPT !.marker = TRUE].at = d.spec[h].at
      BY <3>1 DEF HostSpec
    <3> QED BY <3>1, <3>2
  <2> QED BY <2>1 DEF Specs
<1>5. n \in Probes /\ \A h \in Hosts : (n[h].marker => d.snap[h].marker) /\ (n[h].profile => d.snap[h].profile)
  <2>1. \A h \in Hosts : d.snap[h] \in Probe
    BY <1>3 DEF Probes
  <2> QED BY <2>1, NoProbeFacts DEF Probes
<1>6. ASSUME NEW h \in Hosts
      PROVE  /\ r[h] \in Replica
             /\ h \in Rechecked(d) => ~r[h].ready
             /\ h \notin Rechecked(d) => r[h].ready = flag(h) /\ r[h].current = d.replica[h].current
  <2>1. d.replica[h] \in Replica
    BY <1>3 DEF Replicas
  <2>2. CASE h \in Rechecked(d)
    <3> DEFINE none == FALSE
               row == [ready |-> FALSE, current |-> none]
    <3>1. none \in BOOLEAN
      OBVIOUS
    <3>2. r[h] = row
      BY <2>2
    <3> HIDE DEF none, r
    <3>3. row \in Replica /\ ~row.ready
      BY <3>1, ReplicaFacts
    <3> HIDE DEF row
    <3> QED BY <2>2, <3>2, <3>3
  <2>3. CASE h \notin Rechecked(d)
    <3> DEFINE row == [d.replica[h] EXCEPT !.ready = flag(h)]
    <3>1. flag(h) \in BOOLEAN
      OBVIOUS
    <3>2. r[h] = row
      BY <2>3
    <3> HIDE DEF flag, r
    <3>3. row \in Replica /\ row.ready = flag(h) /\ row.current = d.replica[h].current
      BY <2>1, <3>1, ReadyFacts
    <3> HIDE DEF row
    <3> QED BY <2>3, <3>2, <3>3
  <2> QED BY <2>2, <2>3
<1>7. r \in Replicas
  <2>1. r = [h \in Hosts |-> r[h]]
    OBVIOUS
  <2> HIDE DEF r
  <2> QED BY <1>6, <2>1 DEF Replicas
<1>8. CopiesLast(d.copy, r)
  <2>1. CopiesLast(d.copy, d.replica)
    BY DEF Sound
  <2> HIDE DEF r
  <2>2. ASSUME NEW h \in Hosts
        PROVE  /\ \A i \in DOMAIN d.copy[h] : Pending(d.copy[h][i]) => i = Len(d.copy[h]) /\ r[h].current
               /\ r[h].ready => d.copy[h] # <<>> /\ d.copy[h][Len(d.copy[h])].status = "succeeded"
    <3>1. d.copy[h] \in Seq(JobRow)
      BY <1>3 DEF JobLists
    <3>2. ASSUME NEW i \in DOMAIN d.copy[h], Pending(d.copy[h][i])
          PROVE  i = Len(d.copy[h]) /\ r[h].current
      <4>1. i = Len(d.copy[h]) /\ d.replica[h].current
        BY <2>1, <3>2 DEF CopiesLast
      <4>2. d.copy[h][i].status # "succeeded"
        BY <3>2 DEF Pending, Waiting
      <4>3. ~d.replica[h].ready
        BY <2>1, <4>1, <4>2 DEF CopiesLast
      <4>4. h \notin Rechecked(d)
        BY <4>3 DEF Rechecked
      <4> QED BY <1>6, <4>1, <4>4
    <3>3. ASSUME r[h].ready
          PROVE  d.copy[h] # <<>> /\ d.copy[h][Len(d.copy[h])].status = "succeeded"
      <4>1. d.replica[h].ready \/ h \in Verified(d)
        BY <1>6, <3>3
      <4>2. h \in Verified(d) => d.copy[h] # <<>> /\ d.copy[h][Len(d.copy[h])].status = "succeeded"
        BY <3>1, ListFacts DEF Verified, Ended
      <4> QED BY <2>1, <4>1, <4>2 DEF CopiesLast
    <3> QED BY <3>2, <3>3
  <2> QED BY <2>2 DEF CopiesLast
<1> HIDE DEF r, s, n
<1>9. /\ e \in Registry /\ e.replica = r /\ e.spec = s /\ e.snap = n
      /\ e.copy = d.copy /\ e.prepare = d.prepare /\ e.validate = d.validate /\ e.consumer = d.consumer
  <2>1. d \in Registry /\ r \in Replicas /\ s \in Specs /\ n \in Probes
    BY <1>2, <1>4, <1>5, <1>7
  <2> QED BY <1>1, <2>1 DEF Registry
<1>10. Sound(e)
  BY <1>8, <1>9 DEF Sound
<1>11. Seen(e)
  BY <1>4, <1>5, <1>9 DEF Seen
<1> QED BY <1>9, <1>10, <1>11 DEF e

\* The requests for copies keep the registry sound and within max_parallel, and have a
\* queued consumer require its data.
LEMMA RequestedFacts ==
  ASSUME NEW d, Sound(d), Seen(d)
  PROVE  LET e == Requested(d)
         IN  /\ Sound(e) /\ Seen(e) /\ e.consumer.status = d.consumer.status
             /\ Demand(e) => e.consumer.required
<1> DEFINE e == Requested(d)
<1>1. CASE ~Demand(d)
  <2>1. e = d
    BY <1>1 DEF Requested
  <2> QED BY <1>1, <2>1
<1>2. CASE Demand(d)
  <2> DEFINE G == Granted(MayCopy(d), Copying(d))
             yes == TRUE
             k == [d.consumer EXCEPT !.required = yes]
             fresh == [ready |-> FALSE, current |-> yes]
             c == [h \in Hosts |-> IF h \in G THEN Append(d.copy[h], Job(d.spec[h].at, 1)) ELSE d.copy[h]]
             r == [h \in Hosts |-> IF h \in G THEN fresh ELSE d.replica[h]]
  <2>1. e = [d EXCEPT !.consumer = k, !.copy = c, !.replica = r]
    BY <1>2 DEF Requested
  <2>2. d \in Registry
    BY DEF Sound
  <2>3. d.spec \in Specs /\ d.replica \in Replicas /\ d.copy \in JobLists /\ d.consumer \in Consumer
    BY <2>2, RegistryFields
  <2>4. G \subseteq MayCopy(d) /\ Copying(d) \in SUBSET Hosts
    <3>1. Copying(d) \in SUBSET Hosts
      BY DEF Copying
    <3> QED BY <3>1, GrantedFacts
  <2>5. yes \in BOOLEAN /\ yes
    OBVIOUS
  <2> HIDE DEF e, yes
  <2>6. k \in Consumer /\ k.required /\ k.status = d.consumer.status /\ k.profiles = d.consumer.profiles
    BY <2>3, <2>5 DEF Consumer
  <2>7. fresh \in Replica /\ ~fresh.ready /\ fresh.current
    BY <2>5, ReplicaFacts
  <2> HIDE DEF k, fresh, G
  <2>8. r \in Replicas
    BY <2>3, <2>7 DEF Replicas
  <2>9. ASSUME NEW h \in Hosts
        PROVE  /\ c[h] \in Seq(JobRow)
               /\ h \notin G => c[h] = d.copy[h] /\ r[h] = d.replica[h]
               /\ h \in G => /\ r[h] = fresh /\ Len(c[h]) = Len(d.copy[h]) + 1
                             /\ \A i \in DOMAIN c[h] : i = Len(c[h]) \/ (i \in DOMAIN d.copy[h] /\ c[h][i] = d.copy[h][i])
    <3>1. d.copy[h] \in Seq(JobRow) /\ d.spec[h] \in HostSpec
      BY <2>3 DEF JobLists, Specs
    <3> DEFINE job == Job(d.spec[h].at, 1)
    <3>2. job \in JobRow
      <4>1. d.spec[h].at \in Address
        BY <3>1 DEF HostSpec
      <4> QED BY <4>1, JobFacts
    <3>3. h \in G => c[h] = Append(d.copy[h], job)
      OBVIOUS
    <3>4. h \notin G => c[h] = d.copy[h]
      OBVIOUS
    <3>5. (h \in G => r[h] = fresh) /\ (h \notin G => r[h] = d.replica[h])
      OBVIOUS
    <3> HIDE DEF job, c, r
    <3>6. CASE h \in G
      <4>1. /\ c[h] \in Seq(JobRow) /\ Len(c[h]) = Len(d.copy[h]) + 1
            /\ \A i \in DOMAIN c[h] : i = Len(c[h]) \/ (i \in DOMAIN d.copy[h] /\ c[h][i] = d.copy[h][i])
        <5> DEFINE list == d.copy[h]
                   new  == Append(list, job)
        <5>1. c[h] = new
          BY <3>3, <3>6
        <5>2. list \in Seq(JobRow)
          BY <3>1
        <5> HIDE DEF list
        <5>3. /\ new \in Seq(JobRow) /\ Len(new) = Len(list) + 1
              /\ \A i \in DOMAIN new : i = Len(new) \/ (i \in DOMAIN list /\ new[i] = list[i])
          BY <3>2, <5>2, AppendFacts
        <5> HIDE DEF new
        <5> QED BY <5>1, <5>3 DEF list
      <4> QED BY <3>5, <3>6, <4>1
    <3>7. CASE h \notin G
      BY <3>1, <3>4, <3>5, <3>7
    <3> QED BY <3>6, <3>7
  <2>10. ASSUME NEW h \in G, NEW i \in DOMAIN d.copy[h] PROVE ~Pending(d.copy[h][i])
    <3>1. h \in Hosts /\ (d.replica[h].current => Ended(d.copy[h], "failed"))
      BY <2>4 DEF MayCopy
    <3>2. d.copy[h] \in Seq(JobRow)
      BY <2>3, <3>1 DEF JobLists
    <3>3. Pending(d.copy[h][i]) => i = Len(d.copy[h]) /\ d.replica[h].current
      BY <3>1 DEF Sound, CopiesLast
    <3> QED BY <3>1, <3>2, <3>3, EndedFacts
  <2>11. c \in JobLists
    <3>1. c = [h \in Hosts |-> c[h]]
      OBVIOUS
    <3> HIDE DEF c
    <3> QED BY <2>9, <3>1 DEF JobLists
  <2> HIDE DEF c, r
  <2>12. CopiesLast(c, r)
    <3>1. ASSUME NEW h \in Hosts
          PROVE  /\ \A i \in DOMAIN c[h] : Pending(c[h][i]) => i = Len(c[h]) /\ r[h].current
                 /\ r[h].ready => c[h] # <<>> /\ c[h][Len(c[h])].status = "succeeded"
      <4>1. CASE h \in G
        BY <2>7, <2>9, <2>10, <4>1
      <4>2. CASE h \notin G
        <5>1. c[h] = d.copy[h] /\ r[h] = d.replica[h]
          BY <2>9, <4>2
        <5> QED BY <5>1 DEF Sound, CopiesLast
      <4> QED BY <4>1, <4>2
    <3> QED BY <3>1 DEF CopiesLast
  <2>13. Bounded(c)
    <3>1. PendingHosts(d.copy) \subseteq Copying(d)
      <4>1. ASSUME NEW h \in Hosts, NEW i \in DOMAIN d.copy[h], Pending(d.copy[h][i])
            PROVE  d.replica[h].current /\ Unfinished(d.copy[h])
        <5>1. d.copy[h] \in Seq(JobRow)
          BY <2>3 DEF JobLists
        <5>2. i = Len(d.copy[h]) /\ d.replica[h].current
          BY <4>1 DEF Sound, CopiesLast
        <5>3. d.copy[h] # <<>>
          BY <5>1
        <5> QED BY <4>1, <5>1, <5>2, <5>3, ListFacts DEF Unfinished, Pending
      <4> QED BY <4>1 DEF PendingHosts, Copying
    <3>2. PendingHosts(c) \subseteq PendingHosts(d.copy) \cup G
      <4>1. ASSUME NEW h \in Hosts, h \notin G PROVE c[h] = d.copy[h]
        BY <2>9, <4>1
      <4> QED BY <4>1 DEF PendingHosts
    <3>3. Bounded(d.copy)
      BY DEF Sound
    <3> QED BY <2>4, <3>1, <3>2, <3>3, GrantedPending DEF G
  <2>14. /\ e \in Registry /\ e.consumer = k /\ e.copy = c /\ e.replica = r
         /\ e.spec = d.spec /\ e.snap = d.snap /\ e.prepare = d.prepare /\ e.validate = d.validate
    <3>1. d \in Registry /\ k \in Consumer /\ c \in JobLists /\ r \in Replicas
      BY <2>2, <2>6, <2>8, <2>11
    <3> QED BY <2>1, <3>1 DEF Registry
  <2>15. ProfilesValidated(k)
    BY <2>6 DEF Sound, ProfilesValidated
  <2>16. Sound(e)
    BY <2>12, <2>13, <2>14, <2>15 DEF Sound
  <2>17. Seen(e)
    BY <2>14 DEF Seen
  <2> QED BY <2>6, <2>14, <2>16, <2>17 DEF e
<1> QED BY <1>1, <1>2

\* Where the consumer is launched, by this plan.
Verifiable(place) ==
  \E h \in Hosts, at \in Address :
    /\ place = <<h, at>>
    /\ {<<"marker", h, at>>, <<"profile", h, at>>} \subseteq disk
    /\ <<h, at>> \in validated

\* A plan launches the consumer where the probes found its data and its profile.
LEMMA LaunchFacts ==
  ASSUME NEW d, Sound(d), Seen(d), Demand(d) => d.consumer.required, ProfilesAtRecipe, NEW full, NEW e \in Launches(d, full)
  PROVE  /\ Sound(e)
         /\ e.consumer.status = "running" => d.consumer.status = "running" \/ Verifiable(e.consumer.at)
<1> DEFINE idle == IF full THEN {} ELSE Reached("copy")
           c == StartedJobs(d.copy, idle)
           p == StartedJobs(d.prepare, idle)
           v == StartedJobs(d.validate, Healthy(d))
           b == [d EXCEPT !.copy = c, !.prepare = p, !.validate = v]
           launched(h) == [b EXCEPT !.consumer.status = "running", !.consumer.at = <<h, d.spec[h].at>>]
<1>1. d \in Registry
  BY DEF Sound
<1>2. /\ d.copy \in JobLists /\ d.prepare \in JobLists /\ d.validate \in JobLists
      /\ d.spec \in Specs /\ d.consumer \in Consumer
  BY <1>1, RegistryFields
<1>3. e = b \/ \E h \in Placeable(d) : e = launched(h) /\ Demand(d)
  BY DEF Launches
<1>4. /\ c \in JobLists /\ \A h \in Hosts : Follows(d.copy[h], c[h])
      /\ p \in JobLists /\ \A h \in Hosts : Follows(d.prepare[h], p[h])
      /\ v \in JobLists /\ \A h \in Hosts : Follows(d.validate[h], v[h])
  BY <1>2, StartedJobsFacts
<1> HIDE DEF c, p, v
<1>5. /\ b \in Registry /\ b.copy = c /\ b.prepare = p /\ b.validate = v
      /\ b.spec = d.spec /\ b.replica = d.replica /\ b.consumer = d.consumer
  <2>1. d \in Registry /\ c \in JobLists /\ p \in JobLists /\ v \in JobLists
    BY <1>1, <1>4
  <2> QED BY <2>1 DEF Registry
<1>6. Bounded(c) /\ CopiesLast(c, d.replica)
  BY <1>2, <1>4, FollowingLists DEF Sound
<1>7. Bounded(p) /\ OnePreparation(p)
  BY <1>2, <1>4, FollowingLists DEF Sound
<1>8. ValidationsBacked(v)
  BY <1>2, <1>4, FollowingLists DEF Sound
<1> HIDE DEF b
<1>9. Sound(b)
  BY <1>5, <1>6, <1>7, <1>8 DEF Sound
<1>10. CASE e = b
  BY <1>5, <1>9, <1>10
<1>11. ASSUME NEW h \in Placeable(d), e = launched(h), Demand(d)
       PROVE  Sound(e) /\ Verifiable(e.consumer.at)
  <2>1. h \in Hosts /\ h \in d.consumer.profiles /\ d.snap[h].profile /\ d.snap[h].marker
    BY <1>11 DEF Placeable, Healthy
  <2> DEFINE at == d.spec[h].at
             place == <<h, at>>
             k == [d.consumer EXCEPT !.status = "running", !.at = place]
  <2>2. at \in Address
    <3>1. d.spec[h] \in HostSpec
      BY <1>2, <2>1 DEF Specs
    <3> QED BY <3>1 DEF HostSpec
  <2>3. <<"marker", h, at>> \in disk /\ <<"profile", h, at>> \in disk
    BY <2>1 DEF Seen
  <2> HIDE DEF at
  <2>4. at = Recipe /\ <<h, at>> \in validated
    <3>1. at = Recipe
      BY <2>1, <2>2, <2>3 DEF ProfilesAtRecipe
    <3>2. <<h, Recipe>> \in validated
      BY <2>1 DEF Sound, ProfilesValidated
    <3> QED BY <3>1, <3>2
  <2>5. Verifiable(place)
    BY <2>1, <2>2, <2>3, <2>4 DEF Verifiable
  <2>6. place \in {<<>>} \cup (Hosts \X Address)
    BY <2>1, <2>2
  <2>7. e = [b EXCEPT !.consumer = k]
    <3>1. e = [b EXCEPT !.consumer = [b.consumer EXCEPT !.status = "running", !.at = place]]
      BY <1>5, <1>11 DEF at, Registry
    <3> QED BY <1>5, <3>1
  <2> HIDE DEF place
  <2>8. k \in Consumer /\ k.at = place /\ k.profiles = d.consumer.profiles
    BY <1>2, <2>6 DEF Consumer
  <2> HIDE DEF k, launched
  <2>9. /\ e \in Registry /\ e.consumer = k /\ e.copy = b.copy /\ e.replica = b.replica
        /\ e.prepare = b.prepare /\ e.validate = b.validate
    BY <1>5, <2>7, <2>8 DEF Registry
  <2>10. ProfilesValidated(k)
    BY <2>8 DEF Sound, ProfilesValidated
  <2>11. Sound(e)
    BY <1>9, <2>9, <2>10 DEF Sound
  <2> QED BY <2>5, <2>8, <2>9, <2>11
<1> QED BY <1>3, <1>10, <1>11

\* One tick, from its first probe to its last launch.
LEMMA TickFacts ==
  ASSUME Sound(db), ProfilesAtRecipe, NEW down, NEW full, Tick(down, full)
  PROVE  /\ Sound(db')
         /\ db.consumer.status # "running" /\ db'.consumer.status = "running" => Verifiable(db'.consumer.at)
<1> DEFINE probed   == Probed(db, Hosts, down)
           observed == Reconciled(probed)
           executed == ExecutionTick(observed)
           located  == Located(executed)
           asked    == Requested(located)
           planned  == Probed(asked, Expired(asked), down)
<1>1. db' \in Launches(planned, full)
  BY DEF Tick
<1>2. Sound(probed) /\ Seen(probed) /\ probed.consumer = db.consumer
  BY ProbedFacts
<1> HIDE DEF probed
<1>3. Sound(observed) /\ Seen(observed) /\ observed.consumer = db.consumer
  BY <1>2, ReconciledFacts
<1> HIDE DEF observed
<1>4. Sound(executed) /\ Seen(executed) /\ executed.consumer.status = db.consumer.status
  BY <1>3, ExecutionFacts
<1> HIDE DEF executed
<1>5. Sound(located) /\ Seen(located) /\ located.consumer.status = db.consumer.status
  BY <1>4, LocatedFacts
<1> HIDE DEF located
<1>6. /\ Sound(asked) /\ Seen(asked) /\ asked.consumer.status = db.consumer.status
      /\ Demand(asked) => asked.consumer.required
  BY <1>5, RequestedFacts
<1> HIDE DEF asked
<1>7. Sound(planned) /\ Seen(planned) /\ planned.consumer = asked.consumer
  BY <1>6, ProbedFacts
<1> HIDE DEF planned
<1>8. Demand(planned) => planned.consumer.required
  BY <1>6, <1>7 DEF Demand
<1>9. Sound(db') /\ (db'.consumer.status = "running" => planned.consumer.status = "running" \/ Verifiable(db'.consumer.at))
  BY <1>1, <1>7, <1>8, LaunchFacts
<1> QED BY <1>6, <1>7, <1>9

-----------------------------------------------------------------------------
(* The steps of workers and of operators change one job, one host or the    *)
(* consumer.                                                               *)

Kinds == {"copy", "prepare", "validate"}

\* One of the lists has one job replaced, by one that stays as it was or ends.
Replaced(lists, h, i, job, new) ==
  /\ h \in Hosts /\ i \in DOMAIN lists[h] /\ job \in JobRow
  /\ Pending(job) => Pending(lists[h][i])
  /\ lists[h][i].status = "succeeded" => job.status = "succeeded"
  /\ new = [lists EXCEPT ![h][i] = job]

\* Lists with one job replaced are as bounded, and as sound, as before.
LEMMA ReplacedFacts ==
  ASSUME NEW lists \in JobLists, NEW h, NEW i, NEW job, NEW new, Replaced(lists, h, i, job, new)
  PROVE  /\ new \in JobLists
         /\ Bounded(lists) => Bounded(new)
         /\ OnePreparation(lists) => OnePreparation(new)
         /\ \A replicas : CopiesLast(lists, replicas) => CopiesLast(new, replicas)
         /\ \A g \in Hosts : \A j \in DOMAIN new[g] :
              j \in DOMAIN lists[g] /\ ((g = h /\ j = i /\ new[g][j] = job) \/ new[g][j] = lists[g][j])
<1> DEFINE list == [lists[h] EXCEPT ![i] = job]
<1>0. /\ h \in Hosts /\ i \in DOMAIN lists[h] /\ job \in JobRow
      /\ Pending(job) => Pending(lists[h][i])
      /\ lists[h][i].status = "succeeded" => job.status = "succeeded"
      /\ new = [lists EXCEPT ![h][i] = job]
  BY DEF Replaced
<1>1. new = [lists EXCEPT ![h] = list]
  BY <1>0
<1>2. \A g \in Hosts : lists[g] \in Seq(JobRow)
  BY DEF JobLists
<1>3. /\ list \in Seq(JobRow) /\ Len(list) = Len(lists[h]) /\ DOMAIN list = DOMAIN lists[h]
      /\ list[i] = job /\ \A j \in DOMAIN list : j # i => list[j] = lists[h][j]
  <2> DEFINE old == lists[h]
  <2>1. old \in Seq(JobRow) /\ i \in DOMAIN old
    BY <1>0, <1>2
  <2> HIDE DEF old
  <2>2. LET l == [old EXCEPT ![i] = job]
        IN  /\ l \in Seq(JobRow) /\ Len(l) = Len(old) /\ DOMAIN l = DOMAIN old
            /\ l[i] = job /\ \A j \in DOMAIN l : j # i => l[j] = old[j]
    BY <1>0, <2>1
  <2> QED BY <2>2 DEF old
<1> HIDE DEF list
<1>4. new[h] = list /\ \A g \in Hosts : g # h => new[g] = lists[g]
  BY <1>0, <1>1 DEF JobLists
<1>5. new \in JobLists
  BY <1>0, <1>1, <1>3 DEF JobLists
<1>6. ASSUME NEW g \in Hosts
      PROVE  /\ Len(new[g]) = Len(lists[g]) /\ DOMAIN new[g] = DOMAIN lists[g]
             /\ \A j \in DOMAIN new[g] : (g = h /\ j = i /\ new[g][j] = job) \/ new[g][j] = lists[g][j]
  BY <1>0, <1>3, <1>4
<1>7. ASSUME NEW g \in Hosts, NEW j \in DOMAIN new[g]
      PROVE  /\ Pending(new[g][j]) => Pending(lists[g][j])
             /\ lists[g][j].status = "succeeded" => new[g][j].status = "succeeded"
  BY <1>0, <1>6
<1>8. Bounded(lists) => Bounded(new)
  <2>1. PendingHosts(new) \subseteq PendingHosts(lists)
    BY <1>6, <1>7 DEF PendingHosts
  <2> QED BY <2>1, FewerPending
<1>9. OnePreparation(lists) => OnePreparation(new)
  BY <1>6 DEF OnePreparation
<1>10. ASSUME NEW replicas, CopiesLast(lists, replicas) PROVE CopiesLast(new, replicas)
  <2>1. ASSUME NEW g \in Hosts
        PROVE  /\ \A j \in DOMAIN new[g] : Pending(new[g][j]) => j = Len(new[g]) /\ replicas[g].current
               /\ replicas[g].ready => new[g] # <<>> /\ new[g][Len(new[g])].status = "succeeded"
    <3>1. lists[g] \in Seq(JobRow) /\ new[g] \in Seq(JobRow)
      BY <1>2, <1>5 DEF JobLists
    <3>2. \A j \in DOMAIN new[g] : Pending(new[g][j]) => j = Len(new[g]) /\ replicas[g].current
      BY <1>6, <1>7, <1>10 DEF CopiesLast
    <3>3. ASSUME replicas[g].ready PROVE new[g] # <<>> /\ new[g][Len(new[g])].status = "succeeded"
      <4>1. lists[g] # <<>> /\ lists[g][Len(lists[g])].status = "succeeded"
        BY <1>10, <3>3 DEF CopiesLast
      <4>2. Len(lists[g]) \in DOMAIN new[g] /\ Len(new[g]) = Len(lists[g])
        BY <1>6, <3>1, <4>1, ListFacts
      <4>3. new[g] # <<>>
        BY <3>1, <4>2, ListFacts
      <4> QED BY <1>7, <4>1, <4>2, <4>3
    <3> QED BY <3>2, <3>3
  <2> QED BY <2>1 DEF CopiesLast
<1> QED BY <1>5, <1>6, <1>8, <1>9, <1>10

\* The registry with one job replaced.
OneReplaced(d, kind, h, i, job, e) ==
  \E new : Replaced(d[kind], h, i, job, new) /\ e = [d EXCEPT ![kind] = new]

\* ... and so is the registry, whose other records are unchanged.
LEMMA JobReplaced ==
  ASSUME NEW d, Sound(d), NEW kind \in Kinds, NEW h, NEW i, NEW job, NEW e, OneReplaced(d, kind, h, i, job, e)
  PROVE  /\ e \in Registry /\ e.spec = d.spec /\ e.consumer = d.consumer
         /\ CopiesLast(e.copy, e.replica) /\ OnePreparation(e.prepare) /\ Bounded(e.copy) /\ Bounded(e.prepare)
         /\ \A g \in Hosts : \A j \in DOMAIN e.validate[g] :
              /\ j \in DOMAIN d.validate[g]
              /\ \/ kind = "validate" /\ g = h /\ j = i /\ e.validate[g][j] = job
                 \/ e.validate[g][j] = d.validate[g][j]
<1>1. d \in Registry /\ d.copy \in JobLists /\ d.prepare \in JobLists /\ d.validate \in JobLists
  BY RegistryFields DEF Sound
<1>2. d[kind] \in JobLists
  BY <1>1 DEF Kinds
<1>3. PICK new : Replaced(d[kind], h, i, job, new) /\ e = [d EXCEPT ![kind] = new]
  BY DEF OneReplaced
<1>4. /\ new \in JobLists
      /\ Bounded(d[kind]) => Bounded(new)
      /\ OnePreparation(d[kind]) => OnePreparation(new)
      /\ \A replicas : CopiesLast(d[kind], replicas) => CopiesLast(new, replicas)
      /\ \A g \in Hosts : \A j \in DOMAIN new[g] :
           j \in DOMAIN d[kind][g] /\ ((g = h /\ j = i /\ new[g][j] = job) \/ new[g][j] = d[kind][g][j])
  <2> DEFINE lists == d[kind]
  <2>1. lists \in JobLists /\ Replaced(lists, h, i, job, new)
    BY <1>2, <1>3
  <2>2. /\ new \in JobLists
        /\ Bounded(lists) => Bounded(new)
        /\ OnePreparation(lists) => OnePreparation(new)
        /\ \A replicas : CopiesLast(lists, replicas) => CopiesLast(new, replicas)
        /\ \A g \in Hosts : \A j \in DOMAIN new[g] :
             j \in DOMAIN lists[g] /\ ((g = h /\ j = i /\ new[g][j] = job) \/ new[g][j] = lists[g][j])
    <3> HIDE DEF lists
    <3> QED BY <2>1, ReplacedFacts
  <2> QED BY <2>2
<1>5. CASE kind = "copy"
  <2>1. /\ e \in Registry /\ e.copy = new /\ e.spec = d.spec /\ e.consumer = d.consumer
        /\ e.prepare = d.prepare /\ e.validate = d.validate /\ e.replica = d.replica
    BY <1>1, <1>3, <1>4, <1>5 DEF Registry
  <2> QED BY <1>4, <1>5, <2>1 DEF Sound
<1>6. CASE kind = "prepare"
  <2>1. /\ e \in Registry /\ e.prepare = new /\ e.spec = d.spec /\ e.consumer = d.consumer
        /\ e.copy = d.copy /\ e.validate = d.validate /\ e.replica = d.replica
    BY <1>1, <1>3, <1>4, <1>6 DEF Registry
  <2> QED BY <1>4, <1>6, <2>1 DEF Sound
<1>7. CASE kind = "validate"
  <2>1. /\ e \in Registry /\ e.validate = new /\ e.spec = d.spec /\ e.consumer = d.consumer
        /\ e.copy = d.copy /\ e.prepare = d.prepare /\ e.replica = d.replica
    BY <1>1, <1>3, <1>4, <1>7 DEF Registry
  <2> QED BY <1>4, <1>7, <2>1 DEF Sound
<1> QED BY <1>5, <1>6, <1>7 DEF Kinds

\* ... and sound, when the job does not pass by that.
LEMMA JobSound ==
  ASSUME NEW d, Sound(d), NEW kind \in Kinds, NEW h, NEW i, NEW job, NEW e, OneReplaced(d, kind, h, i, job, e),
         kind = "validate" => (Passed(job) => Passed(d[kind][h][i]))
  PROVE  Sound(e)
<1>1. /\ e \in Registry /\ e.spec = d.spec /\ e.consumer = d.consumer
      /\ CopiesLast(e.copy, e.replica) /\ OnePreparation(e.prepare) /\ Bounded(e.copy) /\ Bounded(e.prepare)
      /\ \A g \in Hosts : \A j \in DOMAIN e.validate[g] :
           /\ j \in DOMAIN d.validate[g]
           /\ \/ kind = "validate" /\ g = h /\ j = i /\ e.validate[g][j] = job
              \/ e.validate[g][j] = d.validate[g][j]
  BY JobReplaced
<1>2. ValidationsBacked(e.validate)
  <2>1. ValidationsBacked(d.validate)
    BY DEF Sound
  <2>2. ASSUME NEW g \in Hosts, NEW j \in DOMAIN e.validate[g], Passed(e.validate[g][j])
        PROVE  <<g, Recipe>> \in validated
    BY <1>1, <2>1, <2>2 DEF ValidationsBacked
  <2> QED BY <2>2 DEF ValidationsBacked
<1>3. ProfilesValidated(e.consumer)
  BY <1>1 DEF Sound
<1> QED BY <1>1, <1>2, <1>3 DEF Sound

\* A list of jobs of the registry.
LEMMA KindFacts ==
  ASSUME NEW d \in Registry, NEW kind \in Kinds, NEW h \in Hosts, NEW i \in DOMAIN d[kind][h]
  PROVE  d[kind] \in JobLists /\ d[kind][h][i] \in JobRow
<1>1. d[kind] \in JobLists
  BY RegistryFields DEF Kinds
<1>2. d[kind][h] \in Seq(JobRow)
  BY <1>1 DEF JobLists
<1> QED BY <1>1, <1>2, ListFacts

\* A job of the registry gets another row, as steps of workers and operators put it.
LEMMA JobChanges ==
  ASSUME NEW d \in Registry, NEW kind \in Kinds, NEW h \in Hosts, NEW i \in DOMAIN d[kind][h], NEW job \in JobRow,
         Pending(job) => Pending(d[kind][h][i]),
         d[kind][h][i].status = "succeeded" => job.status = "succeeded",
         NEW e, e = [d EXCEPT ![kind][h][i] = job]
  PROVE  OneReplaced(d, kind, h, i, job, e)
<1> DEFINE new == [d[kind] EXCEPT ![h][i] = job]
<1>1. Replaced(d[kind], h, i, job, new)
  BY DEF Replaced
<1>2. e = [d EXCEPT ![kind] = new]
  OBVIOUS
<1> HIDE DEF new
<1> QED BY <1>1, <1>2 DEF OneReplaced

\* The end of a run replaces its job, which passes only by a run that is ok.
LEMMA EndingFacts ==
  ASSUME Sound(db), NEW kind \in Kinds, NEW h \in Hosts, NEW i \in DOMAIN db[kind][h],
         NEW from, NEW run \in {"lost", "ok", "bad", "runtime"}, Ending(kind, h, i, from, run)
  PROVE  LET job == [db[kind][h][i] EXCEPT !.run = run]
         IN  /\ OneReplaced(db, kind, h, i, job, db')
             /\ run # "ok" => (Passed(job) => Passed(db[kind][h][i]))
<1> DEFINE old == db[kind][h][i]
           job == [old EXCEPT !.run = run]
<1>1. db \in Registry
  BY DEF Sound
<1>2. old \in JobRow
  BY <1>1, KindFacts
<1>3. db' = [db EXCEPT ![kind][h][i] = job]
  BY DEF Ending
<1> HIDE DEF old
<1>4. job \in JobRow /\ job.status = old.status /\ job.retried = old.retried /\ job.run = run
  BY <1>2 DEF JobRow
<1> HIDE DEF job
<1>5. (Pending(job) => Pending(old)) /\ (old.status = "succeeded" => job.status = "succeeded")
  BY <1>4 DEF Pending, Waiting
<1>6. OneReplaced(db, kind, h, i, job, db')
  BY <1>1, <1>3, <1>4, <1>5, JobChanges DEF old
<1>7. run # "ok" => (Passed(job) => Passed(old))
  BY <1>4 DEF Passed
<1> QED BY <1>6, <1>7 DEF old, job

\* Steps other than a tick's launch nothing.
NoLaunch == db'.consumer.status = "running" => db.consumer.status = "running"

\* What is sound stays so while no validation is forgotten.
LEMMA SoundAgain ==
  ASSUME NEW e, Sound(e), db' = e, validated \subseteq validated'
  PROVE  Sound(db)'
<1>1. ValidationsBacked(e.validate) /\ ProfilesValidated(e.consumer)
  BY DEF Sound
<1>2. ValidationsBacked(db.validate)' /\ ProfilesValidated(db.consumer)'
  BY <1>1 DEF ValidationsBacked, ProfilesValidated
<1> QED BY <1>2 DEF Sound

\* A run that ends without a validation's passing keeps the registry sound.
LEMMA EndingSound ==
  ASSUME Sound(db), NEW kind \in Kinds, NEW h \in Hosts, NEW i \in DOMAIN db[kind][h],
         NEW from, NEW run \in {"lost", "ok", "bad", "runtime"}, Ending(kind, h, i, from, run), kind = "validate" => run # "ok",
         validated \subseteq validated'
  PROVE  Sound(db)' /\ NoLaunch
<1> DEFINE job == [db[kind][h][i] EXCEPT !.run = run]
           e == db'
<1>1. OneReplaced(db, kind, h, i, job, e) /\ (kind = "validate" => (Passed(job) => Passed(db[kind][h][i])))
  BY EndingFacts
<1> HIDE DEF job, e
<1>2. Sound(e) /\ e.consumer = db.consumer
  BY <1>1, JobSound, JobReplaced
<1> QED BY <1>2, SoundAgain DEF NoLaunch, e

\* A validation that passes has found the profile, hence at the address of its recipe.
LEMMA ValidationKeeps ==
  ASSUME HostsInv, NEW h \in Hosts, ValidationEnds(h)
  PROVE  HostsInv' /\ NoLaunch
<1> DEFINE at == db.spec[h].at
           run == IF <<"profile", h, at>> \notin disk THEN "bad" ELSE IF h \in broken THEN "runtime" ELSE "ok"
<1>1. PICK i \in DOMAIN db.validate[h] : Ending("validate", h, i, {"running"}, run)
  BY DEF ValidationEnds
<1>2. /\ validated' = IF run = "ok" THEN validated \cup {<<h, at>>} ELSE validated
      /\ disk' = disk
  BY DEF ValidationEnds
<1>3. Sound(db) /\ WorldType /\ ProfilesAtRecipe
  BY DEF HostsInv
<1>4. at \in Address
  <2>1. db.spec[h] \in HostSpec
    BY <1>3, RegistryFields DEF Sound, Specs
  <2> QED BY <2>1 DEF HostSpec
<1>5. run \in {"lost", "ok", "bad", "runtime"} /\ (run = "ok" => <<"profile", h, at>> \in disk)
  OBVIOUS
<1> HIDE DEF at, run
<1>6. run = "ok" => at = Recipe
  BY <1>3, <1>4, <1>5 DEF ProfilesAtRecipe
<1>7. WorldType' /\ ProfilesAtRecipe' /\ validated \subseteq validated'
  BY <1>2, <1>3, <1>4 DEF WorldType, ProfilesAtRecipe
<1>8. Sound(db)' /\ NoLaunch
  <2> DEFINE kind == "validate"
  <2>0. kind \in Kinds /\ kind = "validate" /\ i \in DOMAIN db[kind][h] /\ Ending(kind, h, i, {"running"}, run)
    BY <1>1 DEF Kinds
  <2>1. CASE run # "ok"
    <3> HIDE DEF kind
    <3> QED BY <1>3, <1>5, <1>7, <2>0, <2>1, EndingSound
  <2>2. CASE run = "ok"
    <3> DEFINE job == [db[kind][h][i] EXCEPT !.run = run]
               e == db'
    <3> HIDE DEF kind
    <3>1. OneReplaced(db, kind, h, i, job, e)
      BY <1>3, <1>5, <2>0, EndingFacts
    <3> HIDE DEF job, e
    <3>2. /\ e \in Registry /\ e.spec = db.spec /\ e.consumer = db.consumer
          /\ CopiesLast(e.copy, e.replica) /\ OnePreparation(e.prepare) /\ Bounded(e.copy) /\ Bounded(e.prepare)
          /\ \A g \in Hosts : \A j \in DOMAIN e.validate[g] :
               /\ j \in DOMAIN db.validate[g]
               /\ \/ kind = "validate" /\ g = h /\ j = i /\ e.validate[g][j] = job
                  \/ e.validate[g][j] = db.validate[g][j]
      BY <1>3, <2>0, <3>1, JobReplaced
    <3>3. <<h, Recipe>> \in validated' /\ validated \subseteq validated'
      BY <1>2, <1>6, <2>2
    <3>4. ValidationsBacked(db.validate) /\ ProfilesValidated(db.consumer)
      BY <1>3 DEF Sound
    <3>5. ASSUME NEW g \in Hosts, NEW j \in DOMAIN e.validate[g], Passed(e.validate[g][j])
          PROVE  <<g, Recipe>> \in validated'
      BY <3>2, <3>3, <3>4, <3>5 DEF ValidationsBacked
    <3>6. \A g \in e.consumer.profiles : <<g, Recipe>> \in validated'
      BY <3>2, <3>3, <3>4 DEF ProfilesValidated
    <3>7. e = db'
      BY DEF e
    <3>8. ValidationsBacked(db.validate)' /\ ProfilesValidated(db.consumer)'
      BY <3>5, <3>6, <3>7 DEF ValidationsBacked, ProfilesValidated
    <3> QED BY <3>2, <3>7, <3>8 DEF Sound, NoLaunch
  <2> QED BY <2>1, <2>2
<1> QED BY <1>7, <1>8 DEF HostsInv

\* The files a preparation leaves lie where files of their kind may.
LEMMA PlacedFacts ==
  ASSUME HostsInv, NEW kind \in {"copy", "prepare"}, NEW h \in Hosts, NEW i \in DOMAIN db[kind][h],
         Place(kind, h, i), UNCHANGED validated
  PROVE  WorldType' /\ ProfilesAtRecipe'
<1>1. WorldType /\ ProfilesAtRecipe /\ db \in Registry /\ Recipe \in Address
  BY DEF HostsInv, Sound, Recipe, Address
<1>2. CASE kind = "copy"
  <2>1. db["copy"][h][i] \in JobRow
    BY <1>1, <1>2, KindFacts DEF Kinds
  <2>2. db["copy"][h][i].at \in Address
    BY <2>1 DEF JobRow
  <2>3. disk' = disk \cup {<<"marker", h, db["copy"][h][i].at>>}
    BY <1>2 DEF Place
  <2> QED BY <1>1, <2>2, <2>3 DEF WorldType, ProfilesAtRecipe
<1>3. CASE kind = "prepare"
  <2>1. disk' = disk \cup {<<"profile", h, Recipe>>}
    BY <1>3 DEF Place
  <2> QED BY <1>1, <2>1 DEF WorldType, ProfilesAtRecipe
<1> QED BY <1>2, <1>3

\* The end of a copy or of a preparation.
LEMMA TransferKeeps ==
  ASSUME HostsInv, NEW kind \in {"copy", "prepare"}, NEW h \in Hosts, TransferEnds(kind, h)
  PROVE  HostsInv' /\ NoLaunch
<1>1. PICK i \in DOMAIN db[kind][h] :
        Ending(kind, h, i, {"running"}, "ok") /\ Place(kind, h, i) /\ UNCHANGED <<validated, broken, unavailable, disturbances>>
  BY DEF TransferEnds
<1>2. Sound(db) /\ kind \in Kinds /\ kind # "validate"
  BY DEF HostsInv, Kinds
<1>3. Sound(db)' /\ NoLaunch
  <2> DEFINE run == "ok"
             from == {"running"}
  <2>1. run \in {"lost", "ok", "bad", "runtime"} /\ Ending(kind, h, i, from, run) /\ validated \subseteq validated'
    BY <1>1
  <2> HIDE DEF run, from
  <2> QED BY <1>2, <2>1, EndingSound
<1>4. WorldType' /\ ProfilesAtRecipe'
  BY <1>1, PlacedFacts
<1> QED BY <1>3, <1>4 DEF HostsInv

\* A run that fails or is lost.
LEMMA FailureKeeps ==
  ASSUME HostsInv, NEW kind \in Kinds, NEW h \in Hosts, RunFails(kind, h)
  PROVE  HostsInv' /\ NoLaunch
<1>1. PICK i \in DOMAIN db[kind][h], run \in {"bad", "lost"} :
        /\ Ending(kind, h, i, {"running", "lost"}, run)
        /\ UNCHANGED disk \/ (kind # "validate" /\ Place(kind, h, i))
        /\ UNCHANGED <<validated, broken, unavailable>>
  BY DEF RunFails
<1>2. Sound(db) /\ WorldType /\ ProfilesAtRecipe
  BY DEF HostsInv
<1>3. Sound(db)' /\ NoLaunch
  <2> DEFINE from == {"running", "lost"}
  <2>1. run \in {"lost", "ok", "bad", "runtime"} /\ run # "ok" /\ Ending(kind, h, i, from, run) /\ validated \subseteq validated'
    BY <1>1
  <2> HIDE DEF from
  <2> QED BY <1>2, <2>1, EndingSound
<1>4. WorldType' /\ ProfilesAtRecipe'
  <2>1. CASE UNCHANGED disk
    BY <1>1, <1>2, <2>1 DEF WorldType, ProfilesAtRecipe
  <2>2. CASE kind # "validate" /\ Place(kind, h, i)
    <3>1. kind \in {"copy", "prepare"} /\ UNCHANGED validated
      BY <1>1, <2>2 DEF Kinds
    <3> QED BY <2>2, <3>1, PlacedFacts
  <2> QED BY <1>1, <2>1, <2>2
<1> QED BY <1>3, <1>4 DEF HostsInv

\* The jobs of a machine that is given up are blocked, which frees their places.
LEMMA GiveUpKeeps ==
  ASSUME HostsInv, NEW machine, GiveUp(machine)
  PROVE  HostsInv' /\ NoLaunch
<1>1. Sound(db) /\ WorldType /\ ProfilesAtRecipe /\ UNCHANGED <<disk, validated>>
  BY DEF HostsInv, GiveUp
<1>2. WorldType' /\ ProfilesAtRecipe'
  BY <1>1 DEF WorldType, ProfilesAtRecipe
<1>3. CASE UNCHANGED db
  <2>1. Sound(db)'
    BY <1>1, <1>3, SoundAgain
  <2> QED BY <1>2, <1>3, <2>1 DEF HostsInv, NoLaunch
<1>4. CASE db' = [db EXCEPT !.copy = GivenUp("copy", machine), !.prepare = GivenUp("prepare", machine),
                            !.validate = GivenUp("validate", machine)]
  <2> DEFINE c == GivenUp("copy", machine)
             p == GivenUp("prepare", machine)
             v == GivenUp("validate", machine)
             e == [db EXCEPT !.copy = c, !.prepare = p, !.validate = v]
  <2>1. db \in Registry /\ db["copy"] \in JobLists /\ db["prepare"] \in JobLists /\ db["validate"] \in JobLists
    BY <1>1, RegistryFields DEF Sound
  <2>2. /\ c \in JobLists /\ \A h \in Hosts : Follows(db.copy[h], c[h])
        /\ p \in JobLists /\ \A h \in Hosts : Follows(db.prepare[h], p[h])
        /\ v \in JobLists /\ \A h \in Hosts : Follows(db.validate[h], v[h])
    BY <2>1, GivenUpFacts
  <2>3. db' = e
    BY <1>4
  <2> HIDE DEF c, p, v
  <2>4. /\ e \in Registry /\ e.copy = c /\ e.prepare = p /\ e.validate = v
        /\ e.replica = db.replica /\ e.consumer = db.consumer
    BY <2>1, <2>2 DEF Registry
  <2> HIDE DEF e
  <2>5. Bounded(c) /\ CopiesLast(c, db.replica)
    BY <1>1, <2>1, <2>2, FollowingLists DEF Sound
  <2>6. Bounded(p) /\ OnePreparation(p)
    BY <1>1, <2>1, <2>2, FollowingLists DEF Sound
  <2>7. ValidationsBacked(v)
    BY <1>1, <2>1, <2>2, FollowingLists DEF Sound
  <2>8. Sound(e)
    BY <1>1, <2>4, <2>5, <2>6, <2>7 DEF Sound
  <2>9. Sound(db)'
    BY <1>1, <2>3, <2>8, SoundAgain
  <2> QED BY <1>2, <2>3, <2>4, <2>9 DEF HostsInv, NoLaunch
<1> QED BY <1>3, <1>4 DEF GiveUp

\* Steps that leave jobs and validations alone.
LEMMA ConsumerKeeps ==
  ASSUME HostsInv, NEW k \in Consumer, db' = [db EXCEPT !.consumer = k], k.profiles = db.consumer.profiles,
         k.status # "running",
         UNCHANGED world
  PROVE  HostsInv' /\ NoLaunch
<1>1. Sound(db) /\ WorldType /\ ProfilesAtRecipe
  BY DEF HostsInv
<1>2. /\ db' \in Registry /\ db'.consumer = k /\ db'.copy = db.copy /\ db'.replica = db.replica
      /\ db'.prepare = db.prepare /\ db'.validate = db.validate
  BY <1>1 DEF Sound, Registry
<1>3. Sound(db')
  BY <1>1, <1>2 DEF Sound, ProfilesValidated
<1>4. Sound(db)'
  BY <1>3, SoundAgain DEF world
<1> QED BY <1>1, <1>2, <1>4 DEF HostsInv, WorldType, ProfilesAtRecipe, world, NoLaunch

\* ... with other specs and probes of hosts.
LEMMA SpecKeeps ==
  ASSUME HostsInv, NEW s \in Specs, NEW n \in Probes,
         db' = [db EXCEPT !.spec = s, !.snap = n], UNCHANGED <<disk, validated>>
  PROVE  HostsInv' /\ NoLaunch
<1>1. Sound(db) /\ WorldType /\ ProfilesAtRecipe
  BY DEF HostsInv
<1>2. /\ db' \in Registry /\ db'.consumer = db.consumer /\ db'.copy = db.copy /\ db'.replica = db.replica
      /\ db'.prepare = db.prepare /\ db'.validate = db.validate
  BY <1>1 DEF Sound, Registry
<1>3. Sound(db')
  BY <1>1, <1>2, SnapSound
<1>4. Sound(db)'
  BY <1>3, SoundAgain
<1> QED BY <1>1, <1>2, <1>4 DEF HostsInv, WorldType, ProfilesAtRecipe, NoLaunch

\* Operators' steps on jobs.
LEMMA OperatorKeeps ==
  ASSUME HostsInv, NEW kind \in Kinds, NEW h \in Hosts, NEW i \in DOMAIN db[kind][h], NEW job \in JobRow,
         ~Pending(job), Passed(job) => Passed(db[kind][h][i]), db[kind][h][i].status # "succeeded",
         db' = [db EXCEPT ![kind][h][i] = job], UNCHANGED world
  PROVE  HostsInv' /\ NoLaunch
<1>1. Sound(db) /\ WorldType /\ ProfilesAtRecipe
  BY DEF HostsInv
<1> DEFINE e == db'
<1>2. db \in Registry /\ e = [db EXCEPT ![kind][h][i] = job]
  BY <1>1 DEF Sound
<1> HIDE DEF e
<1>3. OneReplaced(db, kind, h, i, job, e)
  BY <1>2, JobChanges
<1>4. Sound(e) /\ e.consumer = db.consumer
  BY <1>1, <1>3, JobSound, JobReplaced
<1>5. Sound(db)'
  BY <1>4, SoundAgain DEF world, e
<1> QED BY <1>1, <1>4, <1>5 DEF HostsInv, WorldType, ProfilesAtRecipe, world, NoLaunch, e

-----------------------------------------------------------------------------
(* The steps of the specification.                                         *)

\* Nothing is prepared at first.
LEMMA InitHolds == Init => HostsInv
<1> SUFFICES ASSUME Init PROVE HostsInv
  OBVIOUS
<1> DEFINE none == [h \in Hosts |-> <<>>]
<1>1. /\ db.copy = none /\ db.prepare = none /\ db.validate = none
      /\ db.replica = [h \in Hosts |-> [ready |-> FALSE, current |-> FALSE]]
      /\ db.consumer = [status |-> "queued", profiles |-> {}, required |-> FALSE, at |-> <<>>]
      /\ disk = {} /\ validated = {}
  BY DEF Init
<1>2. db \in Registry
  <2> DEFINE s == [h \in Hosts |-> [enabled |-> TRUE, at |-> "old", marker |-> FALSE, profile |-> FALSE]]
             n == [h \in Hosts |-> NoProbe]
             r == [h \in Hosts |-> [ready |-> FALSE, current |-> FALSE]]
             y == [h \in Hosts |-> FALSE]
             u == [h \in Hosts |-> 0]
             k == [status |-> "queued", profiles |-> {}, required |-> FALSE, at |-> <<>>]
  <2>1. s \in Specs
    BY DEF Specs, HostSpec, Address
  <2>2. n \in Probes
    BY NoProbeFacts DEF Probes
  <2>3. r \in Replicas
    BY DEF Replicas, Replica
  <2>4. y \in Flags /\ u \in Counts
    BY DEF Flags, Counts
  <2>5. none \in JobLists
    BY DEF JobLists
  <2>6. k \in Consumer
    BY DEF Consumer
  <2>7. db = [spec |-> s, snap |-> n, replica |-> r, ready |-> y, copy |-> none, prepare |-> none,
              validate |-> none, used |-> u, consumer |-> k]
    BY DEF Init
  <2> HIDE DEF s, n, r, y, u, k, none
  <2> QED BY <2>1, <2>2, <2>3, <2>4, <2>5, <2>6, <2>7 DEF Registry
<1>3. ValidationsBacked(db.validate) /\ OnePreparation(db.prepare)
  BY <1>1 DEF ValidationsBacked, OnePreparation
<1>4. ProfilesValidated(db.consumer)
  BY <1>1 DEF ProfilesValidated
<1>5. CopiesLast(db.copy, db.replica)
  BY <1>1 DEF CopiesLast
<1>6. Bounded(none)
  <2>1. PendingHosts(none) = {}
    BY DEF PendingHosts
  <2> HIDE DEF none
  <2> QED BY <2>1, FS_EmptySet, HostFacts DEF Bounded
<1>7. WorldType /\ ProfilesAtRecipe
  BY <1>1 DEF WorldType, ProfilesAtRecipe
<1> HIDE DEF none
<1>8. Bounded(db.copy) /\ Bounded(db.prepare)
  BY <1>1, <1>6
<1> QED BY <1>2, <1>3, <1>4, <1>5, <1>7, <1>8 DEF HostsInv, Sound

\* A host's spec is replaced by operators, which leaves its jobs alone.
LEMMA HostKeeps ==
  ASSUME HostsInv, NEW h \in Hosts, RegisterNode(h) \/ DrainNode(h) \/ EnableNode(h)
  PROVE  HostsInv' /\ NoLaunch
<1>1. db \in Registry
  BY DEF HostsInv, Sound
<1>2. db.spec \in Specs /\ db.snap \in Probes /\ db.spec[h] \in HostSpec
  BY <1>1, RegistryFields DEF Specs
<1>3. UNCHANGED <<disk, validated>>
  BY DEF RegisterNode, DrainNode, EnableNode, world
<1>4. CASE RegisterNode(h)
  <2>1. PICK kept \in BOOLEAN, address \in Address :
          db' = [db EXCEPT !.spec[h] = [db.spec[h] EXCEPT !.at = address, !.marker = @ /\ kept, !.profile = @ /\ kept],
                           !.snap[h] = NoProbe]
    BY <1>4 DEF RegisterNode
  <2> DEFINE m == db.spec[h].marker /\ kept
             p == db.spec[h].profile /\ kept
             row == [db.spec[h] EXCEPT !.at = address, !.marker = m, !.profile = p]
             s == [db.spec EXCEPT ![h] = row]
             n == [db.snap EXCEPT ![h] = NoProbe]
  <2>2. db' = [db EXCEPT !.spec = s, !.snap = n]
    BY <2>1
  <2>3. m \in BOOLEAN /\ p \in BOOLEAN
    OBVIOUS
  <2> HIDE DEF m, p
  <2>4. row \in HostSpec
    BY <1>2, <2>3 DEF HostSpec
  <2> HIDE DEF row
  <2>5. s \in Specs /\ n \in Probes
    BY <1>2, <2>4, NoProbeFacts DEF Specs, Probes
  <2> HIDE DEF s, n
  <2> QED BY <1>3, <2>2, <2>5, SpecKeeps
<1>5. ASSUME NEW flag \in BOOLEAN, db' = [db EXCEPT !.spec[h].enabled = flag]
      PROVE  HostsInv' /\ NoLaunch
  <2> DEFINE row == [db.spec[h] EXCEPT !.enabled = flag]
             s == [db.spec EXCEPT ![h] = row]
             n == db.snap
  <2>1. db' = [db EXCEPT !.spec = s, !.snap = n]
    BY <1>1, <1>5 DEF Registry
  <2>2. row \in HostSpec
    BY <1>2, <1>5 DEF HostSpec
  <2> HIDE DEF row
  <2>3. s \in Specs /\ n \in Probes
    BY <1>2, <2>2 DEF Specs
  <2> HIDE DEF s, n
  <2> QED BY <1>3, <2>1, <2>3, SpecKeeps
<1>6. DrainNode(h) => db' = [db EXCEPT !.spec[h].enabled = FALSE]
  BY DEF DrainNode
<1>7. EnableNode(h) => db' = [db EXCEPT !.spec[h].enabled = TRUE]
  BY DEF EnableNode
<1> QED BY <1>4, <1>5, <1>6, <1>7

\* A host that is readmitted is probed anew.
LEMMA ReadmitKeeps ==
  ASSUME HostsInv, NEW machine, ReadmitNode(machine)
  PROVE  HostsInv' /\ NoLaunch
<1>1. Sound(db) /\ WorldType /\ ProfilesAtRecipe /\ UNCHANGED <<disk, validated>>
  BY DEF HostsInv, ReadmitNode
<1>2. CASE machine \in Hosts
  <2> DEFINE s == db.spec
             n == [db.snap EXCEPT ![machine] = NoProbe]
  <2>1. db \in Registry /\ s \in Specs /\ db.snap \in Probes
    BY <1>1, RegistryFields DEF Sound
  <2>2. n \in Probes
    BY <1>2, <2>1, NoProbeFacts DEF Probes
  <2>3. db' = [db EXCEPT !.spec = s, !.snap = n]
    BY <1>2, <2>1 DEF ReadmitNode, Registry
  <2> HIDE DEF s, n
  <2> QED BY <1>1, <2>1, <2>2, <2>3, SpecKeeps
<1>3. CASE machine \notin Hosts
  <2>1. db' = db
    BY <1>3 DEF ReadmitNode
  <2>2. Sound(db)'
    BY <1>1, <2>1, SoundAgain
  <2> QED BY <1>1, <2>1, <2>2 DEF HostsInv, WorldType, ProfilesAtRecipe, NoLaunch
<1> QED BY <1>2, <1>3

\* Cancelled jobs, and those retried by an operator, no longer count.
LEMMA CancelKeeps ==
  ASSUME HostsInv, CancelPending
  PROVE  HostsInv' /\ NoLaunch
<1>1. db \in Registry /\ UNCHANGED world
  BY DEF HostsInv, Sound, CancelPending
<1>2. CASE db' = [db EXCEPT !.consumer.status = "cancelled"]
  <2> DEFINE k == [db.consumer EXCEPT !.status = "cancelled"]
  <2>1. db.consumer \in Consumer
    BY <1>1, RegistryFields
  <2>2. k \in Consumer /\ k.status = "cancelled" /\ k.profiles = db.consumer.profiles
    BY <2>1 DEF Consumer
  <2>3. db' = [db EXCEPT !.consumer = k]
    BY <1>2
  <2> HIDE DEF k
  <2> QED BY <1>1, <2>2, <2>3, ConsumerKeeps
<1>3. ASSUME NEW kind \in Kinds, NEW h \in Hosts, NEW i \in DOMAIN db[kind][h], db[kind][h][i].status = "queued",
             db' = [db EXCEPT ![kind][h][i].status = "cancelled"]
      PROVE  HostsInv' /\ NoLaunch
  <2> DEFINE old == db[kind][h][i]
             job == [old EXCEPT !.status = "cancelled"]
  <2>1. old \in JobRow /\ old.status = "queued" /\ db' = [db EXCEPT ![kind][h][i] = job]
    BY <1>1, <1>3, KindFacts
  <2> HIDE DEF old
  <2>2. job \in JobRow /\ job.status = "cancelled" /\ job.run = old.run
    BY <2>1 DEF JobRow
  <2> HIDE DEF job
  <2>3. ~Pending(job) /\ (Passed(job) => Passed(old)) /\ old.status # "succeeded"
    BY <2>1, <2>2 DEF Pending, Waiting, Passed
  <2> QED BY <1>1, <2>1, <2>2, <2>3, OperatorKeeps DEF old
<1> QED BY <1>2, <1>3 DEF CancelPending, Kinds

\* A retry by an operator does not count towards the limits.
LEMMA RetryKeeps ==
  ASSUME HostsInv, NEW kind \in Kinds, NEW h \in Hosts, RetryFailed(kind, h)
  PROVE  HostsInv' /\ NoLaunch
<1>1. db \in Registry /\ UNCHANGED world
  BY DEF HostsInv, Sound, RetryFailed
<1>2. PICK i \in DOMAIN db[kind][h] :
        /\ db[kind][h][i].status = "failed"
        /\ db' = [db EXCEPT ![kind][h][i] = [@ EXCEPT !.status = "queued", !.left = 1, !.retried = TRUE]]
  BY DEF RetryFailed
<1> DEFINE old == db[kind][h][i]
           left == 1
           yes == TRUE
           job == [old EXCEPT !.status = "queued", !.left = left, !.retried = yes]
<1>3. old \in JobRow /\ old.status = "failed" /\ db' = [db EXCEPT ![kind][h][i] = job]
  BY <1>1, <1>2, KindFacts
<1>4. left \in Int /\ yes \in BOOLEAN /\ yes
  OBVIOUS
<1> HIDE DEF old, left, yes
<1>5. job \in JobRow /\ job.status = "queued" /\ job.run = old.run /\ job.retried
  BY <1>3, <1>4 DEF JobRow
<1> HIDE DEF job
<1>6. ~Pending(job) /\ (Passed(job) => Passed(old)) /\ old.status # "succeeded"
  BY <1>3, <1>5 DEF Pending, Waiting, Passed
<1> QED BY <1>1, <1>3, <1>5, <1>6, OperatorKeeps DEF old

\* The end of the experiment changes neither jobs nor hosts.
LEMMA ConsumerEndKeeps ==
  ASSUME HostsInv, ConsumerEnds
  PROVE  HostsInv' /\ NoLaunch
<1>1. db \in Registry /\ UNCHANGED world
  BY DEF HostsInv, Sound, ConsumerEnds
<1>2. db.consumer \in Consumer
  BY <1>1, RegistryFields
<1>3. CASE db' = [db EXCEPT !.consumer.status = "succeeded"]
  <2> DEFINE k == [db.consumer EXCEPT !.status = "succeeded"]
  <2>1. k \in Consumer /\ k.status = "succeeded" /\ k.profiles = db.consumer.profiles
    BY <1>2 DEF Consumer
  <2>2. db' = [db EXCEPT !.consumer = k]
    BY <1>3
  <2> HIDE DEF k
  <2> QED BY <1>1, <2>1, <2>2, ConsumerKeeps
<1>4. CASE db' = [db EXCEPT !.consumer.status = "queued", !.consumer.at = <<>>]
  <2> DEFINE k == [db.consumer EXCEPT !.status = "queued", !.at = <<>>]
  <2>1. k \in Consumer /\ k.status = "queued" /\ k.profiles = db.consumer.profiles
    BY <1>2 DEF Consumer
  <2>2. db' = [db EXCEPT !.consumer = k]
    BY <1>1, <1>4 DEF Registry
  <2> HIDE DEF k
  <2> QED BY <1>1, <2>1, <2>2, ConsumerKeeps
<1> QED BY <1>3, <1>4 DEF ConsumerEnds

\* Each step keeps the invariant, and launches where a tick verified it.
LEMMA NextKeeps ==
  HostsInv /\ [Next]_vars =>
    /\ HostsInv'
    /\ db.consumer.status # "running" /\ db'.consumer.status = "running" => Verifiable(db'.consumer.at)
<1> SUFFICES ASSUME HostsInv, [Next]_vars
             PROVE  /\ HostsInv'
                    /\ \/ NoLaunch
                       \/ db.consumer.status # "running" /\ db'.consumer.status = "running" => Verifiable(db'.consumer.at)
  BY DEF NoLaunch
<1>1. Sound(db) /\ WorldType /\ ProfilesAtRecipe
  BY DEF HostsInv
<1>2. ASSUME NEW down \in SUBSET Hosts, NEW full \in BOOLEAN, Tick(down, full)
      PROVE  HostsInv' /\ (db.consumer.status # "running" /\ db'.consumer.status = "running" => Verifiable(db'.consumer.at))
  <2>1. Sound(db') /\ (db.consumer.status # "running" /\ db'.consumer.status = "running" => Verifiable(db'.consumer.at))
    BY <1>1, <1>2, TickFacts
  <2>2. UNCHANGED world
    BY <1>2 DEF Tick
  <2>3. Sound(db)'
    BY <2>1, <2>2, SoundAgain DEF world
  <2> QED BY <1>1, <2>1, <2>2, <2>3 DEF HostsInv, WorldType, ProfilesAtRecipe, world
<1>3. ASSUME NEW h \in Hosts, WorldNext(h)
      PROVE  HostsInv' /\ NoLaunch
  <2>1. CASE ValidationEnds(h)
    BY <2>1, ValidationKeeps
  <2>2. CASE \E kind \in {"copy", "prepare"} : TransferEnds(kind, h)
    BY <2>2, TransferKeeps
  <2>4. CASE \E kind \in Kinds : RunFails(kind, h)
    BY <2>4, FailureKeeps
  <2>3. CASE RuntimeBreaks(h) \/ RuntimeHeals(h)
    <3>1. UNCHANGED <<db, disk, validated>>
      BY <2>3 DEF RuntimeBreaks, RuntimeHeals
    <3>2. Sound(db)'
      BY <1>1, <3>1, SoundAgain
    <3> QED BY <1>1, <3>1, <3>2 DEF HostsInv, WorldType, ProfilesAtRecipe, NoLaunch
  <2> QED BY <1>3, <2>1, <2>2, <2>3, <2>4 DEF WorldNext, Kinds
<1>4. ASSUME NEW h \in Hosts, OperatorNext(h)
      PROVE  HostsInv' /\ NoLaunch
  <2>1. CASE RegisterNode(h) \/ DrainNode(h) \/ EnableNode(h)
    BY <2>1, HostKeeps
  <2>2. CASE \E kind \in Kinds : RetryFailed(kind, h)
    BY <2>2, RetryKeeps
  <2> QED BY <1>4, <2>1, <2>2 DEF OperatorNext, Kinds
<1>5. ASSUME NEW file \in disk, FileLost(file)
      PROVE  HostsInv' /\ NoLaunch
  <2>1. UNCHANGED <<db, validated>> /\ disk' \subseteq disk
    BY <1>5 DEF FileLost
  <2>2. Sound(db)'
    BY <1>1, <2>1, SoundAgain
  <2> QED BY <1>1, <2>1, <2>2 DEF HostsInv, WorldType, ProfilesAtRecipe, NoLaunch
<1>6. CASE UNCHANGED vars
  <2>1. UNCHANGED <<db, disk, validated>>
    BY <1>6 DEF vars, world
  <2>2. Sound(db)'
    BY <1>1, <2>1, SoundAgain
  <2> QED BY <1>1, <2>1, <2>2 DEF HostsInv, WorldType, ProfilesAtRecipe, NoLaunch
<1> QED BY <1>2, <1>3, <1>4, <1>5, <1>6, GiveUpKeeps, ReadmitKeeps, ConsumerEndKeeps, CancelKeeps DEF Next

-----------------------------------------------------------------------------
(* Theorems.                                                               *)

\* The registry is well formed in every reachable state, and sound: a passed
\* validation and a profile offered to the consumer stand for a GPU validation
\* that passed, copies wait one at a time for a replica that is not there yet,
\* and each catalog keeps to its limit.
THEOREM HostsCorrect == Spec => []HostsInv
<1>1. HostsInv /\ [Next]_vars => HostsInv'
  BY NextKeeps
<1> QED BY InitHolds, <1>1, PTL DEF Spec

\* Unfinished jobs of a catalog stay within max_parallel, one for each host, but
\* for those an operator had retried (PreparationsBounded): what
\* artifacts.py and execution_profiles.py grant in a tick counts what earlier
\* ticks left, whatever failed, was cancelled or retried in between.
THEOREM PreparationsWithinLimits == Spec => []PreparationsBounded
<1>1. ASSUME NEW lists \in JobLists, Bounded(lists),
             \A h \in Hosts : \A i, j \in DOMAIN lists[h] : Pending(lists[h][i]) /\ Pending(lists[h][j]) => i = j
      PROVE  /\ Cardinality(Outstanding(lists)) <= MaxParallel
             /\ \A p, q \in Outstanding(lists) : p[1] = q[1] => p = q
  <2> DEFINE out == Outstanding(lists)
             hosts == PendingHosts(lists)
             f == [p \in out |-> p[1]]
  <2>1. ASSUME NEW p \in out
        PROVE  p[1] \in Hosts /\ p[2] \in DOMAIN lists[p[1]] /\ Pending(lists[p[1]][p[2]]) /\ p = <<p[1], p[2]>>
    BY DEF Outstanding, Pending
  <2> HIDE DEF out
  <2>2. ASSUME NEW p \in out, NEW q \in out, p[1] = q[1] PROVE p = q
    <3>1. p[2] = q[2]
      BY <1>1, <2>1, <2>2
    <3> QED BY <2>1, <2>2, <3>1
  <2>3. f \in [out -> hosts]
    BY <2>1 DEF PendingHosts
  <2>4. f \in Injection(out, hosts)
    <3>1. DOMAIN f = out /\ \A p \in out : f[p] = p[1]
      OBVIOUS
    <3> HIDE DEF f
    <3>2. IsInjective(f)
      BY <2>2, <3>1 DEF IsInjective
    <3> QED BY <2>3, <3>2 DEF Injection
  <2>5. IsFiniteSet(hosts) /\ Cardinality(hosts) <= MaxParallel
    <3>1. hosts \in SUBSET Hosts
      BY DEF PendingHosts
    <3> QED BY <1>1, <3>1, HostFacts, FS_Subset DEF Bounded
  <2> HIDE DEF hosts, f
  <2>6. IsFiniteSet(out) /\ Cardinality(out) <= Cardinality(hosts)
    BY <2>4, <2>5, FS_Injection
  <2>7. Cardinality(out) <= MaxParallel
    BY <2>5, <2>6, FS_CardinalityType, HostFacts
  <2> QED BY <2>2, <2>7 DEF out
<1>2. HostsInv => PreparationsBounded
  <2> SUFFICES ASSUME HostsInv PROVE PreparationsBounded
    OBVIOUS
  <2>1. db.copy \in JobLists /\ db.prepare \in JobLists /\ Bounded(db.copy) /\ Bounded(db.prepare)
    BY RegistryFields DEF HostsInv, Sound
  <2>2. \A h \in Hosts : \A i, j \in DOMAIN db.copy[h] : Pending(db.copy[h][i]) /\ Pending(db.copy[h][j]) => i = j
    BY DEF HostsInv, Sound, CopiesLast
  <2>3. ASSUME NEW h \in Hosts, NEW i \in DOMAIN db.prepare[h], NEW j \in DOMAIN db.prepare[h] PROVE i = j
    <3>1. db.prepare[h] \in Seq(JobRow) /\ Len(db.prepare[h]) <= 1
      BY <2>1 DEF JobLists, HostsInv, Sound, OnePreparation
    <3> QED BY <3>1
  <2>4. /\ Cardinality(Outstanding(db.copy)) <= MaxParallel
        /\ \A p, q \in Outstanding(db.copy) : p[1] = q[1] => p = q
    BY <1>1, <2>1, <2>2
  <2>5. /\ Cardinality(Outstanding(db.prepare)) <= MaxParallel
        /\ \A p, q \in Outstanding(db.prepare) : p[1] = q[1] => p = q
    BY <1>1, <2>1, <2>3
  <2> QED BY <2>4, <2>5 DEF PreparationsBounded
<1> QED BY <1>2, HostsCorrect, PTL

\* An experiment is launched only where the probes of that very tick found its
\* data and its profile, and where that profile passed its GPU validation, at
\* the address it is launched at (LaunchedWhereVerified): a stale catalog, a lost
\* file, or a host registered anew, drained or retried does not get past the
\* placement checks of planner.py (fit).
THEOREM LaunchesVerified == Spec => LaunchedWhereVerified
<1>1. HostsInv /\ [Next]_vars =>
        [db.consumer.status # "running" /\ db'.consumer.status = "running" => Verifiable(db'.consumer.at)]_vars
  BY NextKeeps
<1>2. HostsInv /\ [Next]_vars =>
        [db.consumer.status # "running" /\ db'.consumer.status = "running" =>
           \E h \in Hosts, at \in Address :
             /\ db'.consumer.at = <<h, at>>
             /\ {<<"marker", h, at>>, <<"profile", h, at>>} \subseteq disk
             /\ <<h, at>> \in validated]_vars
  BY <1>1 DEF Verifiable
<1> QED BY <1>2, HostsCorrect, PTL DEF Spec, LaunchedWhereVerified
=============================================================================
