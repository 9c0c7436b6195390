--------------------------- MODULE StartupProofs ---------------------------
(***************************************************************************)
(* Proofs about Startup, for any number of processes, migrations, retries  *)
(* and workers, and any backoff.                                           *)
(***************************************************************************)
EXTENDS Startup, Recursion, TLAPS

-----------------------------------------------------------------------------
(* The backoff.                                                            *)

\* WorkerBackoff keeps its delay between its bounds.
LEMMA DelayStaysBounded ==
    ASSUME NEW d \in MinDelay .. MaxDelay
    PROVE  NextDelay(d) \in MinDelay .. MaxDelay
<1>1. MinDelay \in Nat /\ MaxDelay \in Nat /\ Multiplier \in Nat /\ MinDelay <= MaxDelay
  BY BackoffAssumption
<1>2. PICK x : x = d * Larger(Multiplier, 1)
  OBVIOUS
<1>3. x \in Int
  BY <1>1, <1>2 DEF Larger
<1> QED
  BY <1>1, <1>2, <1>3 DEF NextDelay, Larger, Smaller

\* A sleep is at least half of the delay and at most the longest one.
LEMMA SleepIsBounded ==
    ASSUME NEW d \in MinDelay .. MaxDelay, NEW s \in Sleeps(d)
    PROVE  s \in Nat /\ Larger(d \div 2, 1) <= s /\ s <= MaxDelay
<1>1. MinDelay \in Nat \ {0} /\ MaxDelay \in Nat /\ MinDelay <= MaxDelay
  BY BackoffAssumption
<1>2. d \div 2 \in Nat /\ d \in Nat
  BY <1>1
<1> QED
  BY <1>1, <1>2 DEF Sleeps, Larger

\* The least sleep is a number.
LEMMA LeastSleepIsNat == \A d \in Nat : Larger(d \div 2, 1) \in Nat
<1>1. \A d \in Nat : d \div 2 \in Nat
  OBVIOUS
<1> QED
  BY <1>1 DEF Larger

\* What the schedule says for n retries, given what function f says for fewer.
Entry(f, n) ==
    IF n = 0 THEN [delay |-> MinDelay, least |-> 0]
    ELSE [delay |-> Smaller(f[n - 1].delay * Larger(Multiplier, 1), MaxDelay),
          least |-> f[n - 1].least + Larger(f[n - 1].delay \div 2, 1)]

\* The recursive function Schedule exists.
LEMMA ScheduleEquation == \A n \in 0 .. MaxRetries : Schedule[n] = Entry(Schedule, n)
<1> DEFINE Solves(f, m) == f = [n \in 0 .. m |-> Entry(f, n)]
           T == {m \in 0 .. MaxRetries : \E f : Solves(f, m)}
<1>0. MaxRetries \in Nat
  BY StartupAssumption
<1>1. 0 \in T
  <2> DEFINE f == [n \in 0 .. 0 |-> [delay |-> MinDelay, least |-> 0]]
  <2>1. Solves(f, 0) /\ 0 \in 0 .. MaxRetries
    BY <1>0 DEF Entry
  <2> HIDE DEF f, Solves
  <2> QED
    BY <2>1
<1>2. ASSUME NEW m \in 0 .. MaxRetries, m \in T, m < MaxRetries PROVE m + 1 \in T
  <2>1. PICK f : Solves(f, m)
    BY <1>2
  <2> DEFINE g == [n \in 0 .. m + 1 |-> IF n = m + 1 THEN Entry(f, m + 1) ELSE f[n]]
  <2>2. \A n \in 0 .. m : f[n] = Entry(f, n)
    BY <2>1
  <2>3. \A n \in 0 .. m + 1 : g[n] = Entry(g, n)
    <3>1. ASSUME NEW n \in 0 .. m PROVE g[n] = Entry(g, n)
      <4>1. g[n] = f[n] /\ (n # 0 => g[n - 1] = f[n - 1])
        OBVIOUS
      <4> HIDE DEF g
      <4> QED
        BY <2>2, <4>1 DEF Entry
    <3>2. g[m + 1] = Entry(g, m + 1)
      <4>1. g[m + 1] = Entry(f, m + 1) /\ g[m] = f[m] /\ m + 1 - 1 = m
        OBVIOUS
      <4> HIDE DEF g
      <4> QED
        BY <4>1 DEF Entry
    <3>3. \A n \in 0 .. m + 1 : n \in 0 .. m \/ n = m + 1
      OBVIOUS
    <3> HIDE DEF g
    <3> QED
      BY <3>1, <3>2, <3>3
  <2>4. Solves(g, m + 1)
    BY <2>3
  <2>5. m + 1 \in 0 .. MaxRetries /\ (\E h : Solves(h, m + 1))
    <3>1. m + 1 \in 0 .. MaxRetries
      BY <1>0, <1>2
    <3> HIDE DEF Solves, g
    <3> QED
      BY <2>4, <3>1
  <2> HIDE DEF Solves
  <2> QED
    BY <2>5
<1>3. MaxRetries \in T
  <2>1. \A m \in 0 .. MaxRetries : m \in T /\ m < MaxRetries => m + 1 \in T
    BY <1>2
  <2>2. MaxRetries \in 0 .. MaxRetries
    BY <1>0
  <2> HIDE DEF T
  <2>3. \A n \in 0 .. MaxRetries : n \in T
    BY <1>0, <1>1, <2>1, IntervalInduction, Zenon
  <2> QED
    BY <2>2, <2>3
<1>4. Schedule = CHOOSE f : Solves(f, MaxRetries)
  BY DEF Schedule, Entry
<1>5. Solves(Schedule, MaxRetries)
  <2> HIDE DEF Solves
  <2> QED
    BY <1>3, <1>4
<1> HIDE DEF T
<1> QED
  BY <1>5

\* The schedule begins with the shortest delay and no sleep.
LEMMA ScheduleBegins == Schedule[0].delay = MinDelay /\ Schedule[0].least = 0
<1>1. 0 \in 0 .. MaxRetries
  BY StartupAssumption
<1>2. Schedule[0] = Entry(Schedule, 0)
  BY <1>1, ScheduleEquation
<1>3. Entry(Schedule, 0) = [delay |-> MinDelay, least |-> 0]
  BY DEF Entry
<1> QED
  BY <1>2, <1>3

\* One more retry.
LEMMA ScheduleGoesOn ==
    ASSUME NEW n \in 0 .. MaxRetries, n < MaxRetries
    PROVE  /\ Schedule[n + 1].delay = Smaller(Schedule[n].delay * Larger(Multiplier, 1), MaxDelay)
           /\ Schedule[n + 1].least = Schedule[n].least + Larger(Schedule[n].delay \div 2, 1)
<1>1. n + 1 \in 0 .. MaxRetries /\ n + 1 # 0 /\ n + 1 - 1 = n
  BY StartupAssumption
<1>2. Schedule[n + 1] = Entry(Schedule, n + 1)
  BY <1>1, ScheduleEquation
<1>3. Entry(Schedule, n + 1)
        = [delay |-> Smaller(Schedule[n].delay * Larger(Multiplier, 1), MaxDelay),
           least |-> Schedule[n].least + Larger(Schedule[n].delay \div 2, 1)]
  BY <1>1 DEF Entry
<1> QED
  BY <1>2, <1>3

\* From a delay within its bounds, WorkerBackoff does what the schedule says.
LEMMA NextDelayIsScheduled ==
    ASSUME NEW d \in MinDelay .. MaxDelay
    PROVE  NextDelay(d) = Smaller(d * Larger(Multiplier, 1), MaxDelay)
<1>1. MinDelay \in Nat /\ MaxDelay \in Nat /\ d \in Nat /\ d >= MinDelay
  BY BackoffAssumption
<1>2. PICK k \in Nat : k = Larger(Multiplier, 1) /\ k >= 1
  BY BackoffAssumption DEF Larger
<1>3. d * k \in Nat /\ d * k >= d
  BY <1>1, <1>2
<1>4. Larger(d * k, MinDelay) = d * k
  BY <1>1, <1>3 DEF Larger
<1> QED
  BY <1>2, <1>4 DEF NextDelay

\* Its delays and sleeps are numbers.
LEMMA ScheduleIsTyped ==
    \A n \in 0 .. MaxRetries : Schedule[n].delay \in MinDelay .. MaxDelay /\ Schedule[n].least \in Nat
<1> DEFINE T == {n \in 0 .. MaxRetries :
                    Schedule[n].delay \in MinDelay .. MaxDelay /\ Schedule[n].least \in Nat}
<1>0. MaxRetries \in Nat /\ MinDelay \in Nat /\ MaxDelay \in Nat /\ MinDelay <= MaxDelay
  BY StartupAssumption, BackoffAssumption
<1>1. 0 \in T
  BY <1>0, ScheduleBegins
<1>2. ASSUME NEW n \in 0 .. MaxRetries, n \in T, n < MaxRetries PROVE n + 1 \in T
  <2>1. Schedule[n].delay \in MinDelay .. MaxDelay /\ Schedule[n].least \in Nat
    BY <1>2
  <2>2. Schedule[n + 1].delay \in MinDelay .. MaxDelay
    BY <1>2, <2>1, ScheduleGoesOn, NextDelayIsScheduled, DelayStaysBounded
  <2>3. Schedule[n + 1].least \in Nat
    <3>1. Larger(Schedule[n].delay \div 2, 1) \in Nat
      BY <1>0, <2>1, LeastSleepIsNat
    <3> QED
      BY <1>2, <2>1, <3>1, ScheduleGoesOn
  <2> QED
    BY <1>0, <1>2, <2>2, <2>3
<1>3. \A n \in 0 .. MaxRetries : n \in T
  <2>1. \A n \in 0 .. MaxRetries : n \in T /\ n < MaxRetries => n + 1 \in T
    BY <1>2
  <2> HIDE DEF T
  <2> QED
    BY <1>0, <1>1, <2>1, IntervalInduction, Zenon
<1> QED
  BY <1>3

\* One more term of a product.
LEMMA OneMore == \A n \in Nat, m \in Nat : (n + 1) * m = n * m + m
  OBVIOUS

-----------------------------------------------------------------------------
(* The inductive invariant.                                                *)

\* It holds when no process has begun.
LEMMA StartupInvInit == Init => StartupInv
<1> SUFFICES ASSUME Init PROVE StartupInv
  OBVIOUS
<1>1. TypeOK
  BY StartupAssumption, BackoffAssumption DEF Init, TypeOK, Phases, Reasons
<1>2. TasksAfterMigration /\ LockIsHeld
  BY StartupAssumption DEF Init, TasksAfterMigration, LockIsHeld
<1>3. 0 * MaxDelay = 0
  BY BackoffAssumption
<1>4. SleptSoFar
  BY <1>3, ScheduleBegins DEF Init, SleptSoFar
<1> QED
  BY <1>1, <1>2, <1>4 DEF StartupInv

\* Exit keeps it, if a process gives up on the database only after its last
\* attempt.
LEMMA StartupInvExit ==
    ASSUME StartupInv, NEW p \in Processes, NEW why \in Reasons, Exit(p, why),
           why = "connect" => retries[p] = MaxRetries
    PROVE  StartupInv'
<1>0. /\ TypeOK /\ WorkerCount \in [Processes -> Nat]
      /\ workers' = [workers EXCEPT ![p] = 0]
      /\ UNCHANGED <<retries, delay, waited, applied>>
  BY StartupAssumption DEF StartupInv, Exit
<1>a. workers' \in [Processes -> Nat] /\ \A q \in Processes : workers'[q] <= WorkerCount[q]
  BY <1>0 DEF TypeOK
<1>b. /\ phase' \in [Processes -> Phases] /\ reason' \in [Processes -> Reasons]
      /\ server' \in [Processes -> {"none", "up", "down"}]
      /\ lock' \in Processes \cup {NoProcess}
  BY <1>0 DEF TypeOK, Exit, GoesTo, Phases
<1>1. TypeOK'
  BY <1>0, <1>a, <1>b DEF TypeOK
<1>2. TasksAfterMigration'
  BY DEF StartupInv, TypeOK, TasksAfterMigration, Exit, GoesTo
<1>3. LockIsHeld'
  BY StartupAssumption DEF StartupInv, TypeOK, LockIsHeld, Exit, GoesTo
<1>4. SleptSoFar'
  BY DEF StartupInv, TypeOK, SleptSoFar, Exit, GoesTo
<1> QED
  BY <1>1, <1>2, <1>3, <1>4 DEF StartupInv

\* The steps that lead to the pool, and a restart.
LEMMA StartupInvConnect ==
    ASSUME StartupInv, NEW p \in Processes,
           Configure(p) \/ Connect(p) \/ RetryConnect(p) \/ GiveUp(p) \/ Restart(p)
    PROVE  StartupInv'
<1>0. MinDelay \in Nat /\ MaxDelay \in Nat /\ MinDelay <= MaxDelay
  BY BackoffAssumption
<1>a. 0 * MaxDelay = 0
  BY <1>0
<1>1. CASE Configure(p)
  <2>1. CASE Exit(p, "settings")
    BY <2>1, StartupInvExit DEF Reasons
  <2>2. CASE /\ phase[p] = "init"
             /\ GoesTo(p, "connect")
             /\ UNCHANGED <<retries, delay, waited, reason, server, workers, applied, lock>>
    <3>1. TypeOK' /\ TasksAfterMigration' /\ LockIsHeld'
      BY <2>2 DEF StartupInv, TypeOK, TasksAfterMigration, LockIsHeld, GoesTo, Phases
    <3>2. SleptSoFar'
      BY <2>2 DEF StartupInv, TypeOK, SleptSoFar, GoesTo
    <3> QED
      BY <3>1, <3>2 DEF StartupInv
  <2> QED
    BY <1>1, <2>1, <2>2 DEF Configure
<1>2. CASE Connect(p) \/ Restart(p)
  <2>1. TypeOK'
    BY <1>0, <1>2, StartupAssumption
    DEF Connect, Restart, StartupInv, TypeOK, GoesTo, Phases, Reasons
  <2>2. TasksAfterMigration'
    BY <1>2 DEF Connect, Restart, StartupInv, TypeOK, TasksAfterMigration, GoesTo
  <2>3. LockIsHeld'
    BY <1>2 DEF Connect, Restart, StartupInv, TypeOK, LockIsHeld, GoesTo
  <2>4. SleptSoFar'
    BY <1>a, <1>2, ScheduleBegins DEF Connect, Restart, StartupInv, TypeOK, SleptSoFar, GoesTo
  <2> QED
    BY <2>1, <2>2, <2>3, <2>4 DEF StartupInv
<1>3. CASE RetryConnect(p)
  <2>1. PICK s \in Sleeps(delay[p]) : waited' = [waited EXCEPT ![p] = @ + s]
    BY <1>3 DEF RetryConnect
  <2>2. /\ s \in Nat /\ Larger(delay[p] \div 2, 1) <= s /\ s <= MaxDelay
        /\ NextDelay(delay[p]) \in MinDelay .. MaxDelay
    BY <2>1, SleepIsBounded, DelayStaysBounded DEF StartupInv, TypeOK
  <2>3. TypeOK'
    BY <1>3, <2>1, <2>2, StartupAssumption DEF RetryConnect, CanRetry, StartupInv, TypeOK
  <2>4. TasksAfterMigration' /\ LockIsHeld'
    BY <1>3 DEF RetryConnect, StartupInv, TypeOK, TasksAfterMigration, LockIsHeld
  <2>5. ASSUME NEW q \in Processes
        PROVE  /\ delay'[q] = Schedule[retries'[q]].delay
               /\ waited'[q] >= Schedule[retries'[q]].least
               /\ waited'[q] <= retries'[q] * MaxDelay
    <3>1. CASE q = p
      <4>1. /\ retries'[p] = retries[p] + 1 /\ waited'[p] = waited[p] + s
            /\ delay'[p] = NextDelay(delay[p])
        BY <1>3, <2>1 DEF RetryConnect, StartupInv, TypeOK
      <4>2. /\ retries[p] \in 0 .. MaxRetries /\ retries[p] < MaxRetries /\ retries[p] \in Nat
            /\ waited[p] \in Nat /\ delay[p] \in MinDelay .. MaxDelay
        BY <1>3, StartupAssumption DEF RetryConnect, CanRetry, StartupInv, TypeOK
      <4>3. /\ delay[p] = Schedule[retries[p]].delay
            /\ waited[p] >= Schedule[retries[p]].least
            /\ waited[p] <= retries[p] * MaxDelay
        BY DEF StartupInv, SleptSoFar
      <4>4. delay'[p] = Schedule[retries'[p]].delay
        BY <4>1, <4>2, <4>3, NextDelayIsScheduled, ScheduleGoesOn
      <4>5. waited'[p] >= Schedule[retries'[p]].least
        <5>1. PICK low, half : low = Schedule[retries[p]].least /\ half = Larger(delay[p] \div 2, 1)
          OBVIOUS
        <5>2. low \in Nat /\ half \in Nat
          BY <1>0, <4>2, <5>1, ScheduleIsTyped, LeastSleepIsNat
        <5>3. Schedule[retries'[p]].least = low + half
          BY <4>1, <4>2, <4>3, <5>1, ScheduleGoesOn
        <5> QED
          BY <2>2, <4>1, <4>2, <4>3, <5>1, <5>2, <5>3
      <4>6. waited'[p] <= retries'[p] * MaxDelay
        <5>1. (retries[p] + 1) * MaxDelay = retries[p] * MaxDelay + MaxDelay
          BY <1>0, <4>2, OneMore
        <5>2. PICK high \in Nat : high = retries[p] * MaxDelay
          BY <1>0, <4>2
        <5> QED
          BY <1>0, <2>2, <4>1, <4>2, <4>3, <5>1, <5>2
      <4> QED
        BY <3>1, <4>4, <4>5, <4>6
    <3>2. CASE q # p
      BY <1>3, <2>1, <3>2 DEF RetryConnect, StartupInv, TypeOK, SleptSoFar
    <3> QED
      BY <3>1, <3>2
  <2>6. \A q \in Processes :
          /\ reason'[q] = "connect" => phase'[q] = "exited" /\ retries'[q] = MaxRetries
          /\ reason'[q] # "none" => phase'[q] = "exited"
    BY <1>3 DEF RetryConnect, StartupInv, TypeOK, SleptSoFar
  <2> QED
    BY <2>3, <2>4, <2>5, <2>6 DEF StartupInv, SleptSoFar
<1>4. CASE GiveUp(p)
  <2>1. retries[p] = MaxRetries
    BY <1>4, StartupAssumption DEF GiveUp, CanRetry, StartupInv, TypeOK
  <2> QED
    BY <1>4, <2>1, StartupInvExit DEF GiveUp, Reasons
<1> QED
  BY <1>1, <1>2, <1>3, <1>4

\* The migrator: only the holder of its lock applies anything.
LEMMA StartupInvMigrate ==
    ASSUME StartupInv, NEW p \in Processes,
           LockMigrations(p) \/ ApplyMigration(p) \/ MigrationFails(p) \/ Migrated(p)
    PROVE  StartupInv'
<1>1. CASE MigrationFails(p)
  BY <1>1, StartupInvExit DEF MigrationFails, Reasons
<1>2. CASE LockMigrations(p)
  <2>1. TypeOK' /\ TasksAfterMigration'
    BY <1>2 DEF LockMigrations, StartupInv, TypeOK, TasksAfterMigration, GoesTo, Phases
  <2>2. LockIsHeld' /\ SleptSoFar'
    BY <1>2, StartupAssumption
    DEF LockMigrations, StartupInv, TypeOK, LockIsHeld, SleptSoFar, GoesTo
  <2> QED
    BY <2>1, <2>2 DEF StartupInv
<1>3. CASE ApplyMigration(p)
  <2>1. \A q \in Processes : phase[q] \notin {"spawn", "select"}
    BY <1>3, StartupAssumption DEF ApplyMigration, StartupInv, TypeOK, TasksAfterMigration
  <2>2. TypeOK' /\ TasksAfterMigration'
    BY <1>3, <2>1, StartupAssumption
    DEF ApplyMigration, StartupInv, TypeOK, TasksAfterMigration, local
  <2>3. LockIsHeld' /\ SleptSoFar'
    BY <1>3 DEF ApplyMigration, StartupInv, LockIsHeld, SleptSoFar, local
  <2> QED
    BY <2>2, <2>3 DEF StartupInv
<1>4. CASE Migrated(p)
  <2>1. TypeOK' /\ TasksAfterMigration'
    BY <1>4 DEF Migrated, StartupInv, TypeOK, TasksAfterMigration, GoesTo, Phases
  <2>2. LockIsHeld' /\ SleptSoFar'
    BY <1>4, StartupAssumption
    DEF Migrated, StartupInv, TypeOK, LockIsHeld, SleptSoFar, GoesTo
  <2> QED
    BY <2>1, <2>2 DEF StartupInv
<1> QED
  BY <1>1, <1>2, <1>3, <1>4

\* The tasks, and the end.
LEMMA StartupInvRun ==
    ASSUME StartupInv, NEW p \in Processes,
           SpawnWorker(p) \/ AllSpawned(p) \/ ServerExits(p) \/ Select(p) \/ Kill(p)
    PROVE  StartupInv'
<1>1. CASE Select(p) \/ Kill(p)
  BY <1>1, StartupInvExit DEF Select, Kill, Reasons
<1>2. CASE SpawnWorker(p)
  <2>a. /\ TypeOK /\ WorkerCount \in [Processes -> Nat]
        /\ workers[p] < WorkerCount[p] /\ workers' = [workers EXCEPT ![p] = workers[p] + 1]
        /\ UNCHANGED <<phase, retries, delay, waited, reason, server, applied, lock>>
    BY <1>2, StartupAssumption DEF SpawnWorker, StartupInv
  <2>b. workers' \in [Processes -> Nat] /\ \A q \in Processes : workers'[q] <= WorkerCount[q]
    <3>1. \A q \in Processes : workers'[q] = IF q = p THEN workers[p] + 1 ELSE workers[q]
      BY <2>a DEF TypeOK
    <3>2. \A q \in Processes : workers[q] \in Nat /\ WorkerCount[q] \in Nat
      BY <2>a DEF TypeOK
    <3> QED
      BY <2>a, <3>1, <3>2 DEF TypeOK
  <2>1. TypeOK'
    BY <2>a, <2>b DEF TypeOK
  <2>2. TasksAfterMigration' /\ LockIsHeld' /\ SleptSoFar'
    BY <1>2 DEF SpawnWorker, StartupInv, TypeOK, TasksAfterMigration, LockIsHeld, SleptSoFar
  <2> QED
    BY <2>1, <2>2 DEF StartupInv
<1>3. CASE AllSpawned(p)
  <2>1. TypeOK' /\ TasksAfterMigration'
    BY <1>3 DEF AllSpawned, StartupInv, TypeOK, TasksAfterMigration, GoesTo, Phases
  <2>2. LockIsHeld' /\ SleptSoFar'
    BY <1>3 DEF AllSpawned, StartupInv, TypeOK, LockIsHeld, SleptSoFar, GoesTo
  <2> QED
    BY <2>1, <2>2 DEF StartupInv
<1>4. CASE ServerExits(p)
  <2>1. TypeOK'
    BY <1>4 DEF ServerExits, StartupInv, TypeOK
  <2>2. TasksAfterMigration' /\ LockIsHeld' /\ SleptSoFar'
    BY <1>4 DEF ServerExits, StartupInv, TypeOK, TasksAfterMigration, LockIsHeld, SleptSoFar
  <2> QED
    BY <2>1, <2>2 DEF StartupInv
<1> QED
  BY <1>1, <1>2, <1>3, <1>4

-----------------------------------------------------------------------------
(* The theorems.                                                           *)

\* StartupInv is an invariant of main, Database::new and the migrator.
THEOREM StartupInvariance == Spec => []StartupInv
<1>1. StartupInv /\ [Next]_vars => StartupInv'
  <2>1. ASSUME StartupInv, Next PROVE StartupInv'
    <3>1. PICK p \in Processes :
             \/ MainStep(p) \/ LockMigrations(p) \/ MigrationFails(p)
             \/ ServerExits(p) \/ Kill(p) \/ Restart(p)
      BY <2>1 DEF Next
    <3> QED
      BY <2>1, <3>1, StartupInvConnect, StartupInvMigrate, StartupInvRun DEF MainStep
  <2>2. ASSUME StartupInv, UNCHANGED vars PROVE StartupInv'
    <3>1. TypeOK' /\ TasksAfterMigration' /\ LockIsHeld' /\ SleptSoFar'
      BY <2>2 DEF StartupInv, vars, local, TypeOK, TasksAfterMigration, LockIsHeld, SleptSoFar
    <3> QED
      BY <3>1 DEF StartupInv
  <2> QED
    BY <2>1, <2>2
<1> QED
  BY <1>1, StartupInvInit, PTL DEF Spec

\* The counters of a start stay within their limits.
THEOREM StartupTypeCorrect == Spec => []TypeOK
<1>1. StartupInv => TypeOK
  BY DEF StartupInv
<1> QED
  BY <1>1, StartupInvariance, PTL

\* No server and no worker runs before every migration is applied.
THEOREM OnlyMigratedIsServed == Spec => []ServesMigrated
<1>1. StartupInv => ServesMigrated
  <2> SUFFICES ASSUME StartupInv, NEW p \in Processes, server[p] # "none" \/ workers[p] > 0
               PROVE  applied = Migrations
    BY DEF ServesMigrated
  <2>1. phase[p] \in {"spawn", "select"}
    BY DEF StartupInv, TasksAfterMigration
  <2> QED
    BY <2>1 DEF StartupInv, TasksAfterMigration
<1> QED
  BY <1>1, StartupInvariance, PTL

\* Database::new gives up only after all its attempts and the growing sleeps
\* between them, for any backoff.
THEOREM ConnectIsPatient == Spec => []PatientConnect
<1>1. StartupInv => PatientConnect
  <2> SUFFICES ASSUME StartupInv, NEW p \in Processes, reason[p] = "connect"
               PROVE  /\ retries[p] = MaxRetries
                      /\ waited[p] >= Schedule[MaxRetries].least
                      /\ waited[p] <= MaxRetries * MaxDelay
    BY DEF PatientConnect
  <2> QED
    BY DEF StartupInv, SleptSoFar
<1> QED
  BY <1>1, StartupInvariance, PTL
=============================================================================
