---------------------------- MODULE DbPoolProofs ----------------------------
(***************************************************************************)
(* Proofs about DbPool, for any number of requests, whatever rows they     *)
(* meet, and any size of the pool.                                         *)
(***************************************************************************)
EXTENDS DbPool, FiniteSetTheorems, TLAPS

\* The requests that have a connection.
Busy == {r \in Requests : conn[r] # 0}

Jobs == [rows : Seq(Rows), changes : SUBSET Rows, first : Nat, skip : BOOLEAN]

\* Where each request is in its jobs.
Progress ==
  /\ job \in [Requests -> Nat] /\ row \in [Requests -> Nat \ {0}]
  /\ \A r \in Requests : job[r] \in 1 .. Len(Work[r])

\* There is one pool, made by whoever held the lock first, and connections are
\* of that pool and in the hands of running requests only.
OnePool ==
  /\ made \in {0, 1} /\ pool = made
  /\ lock # NULL => pool = 0
  /\ \A r \in Requests : conn[r] = IF at[r] = "running" THEN 1 ELSE 0
  /\ \A r \in Requests : at[r] = "running" => pool = 1

RowsNeedConnections ==
  \A x \in Rows : owner[x] # NULL => at[owner[x]] = "running"

BusyIsBounded == IsFiniteSet(Busy) /\ Cardinality(Busy) <= MaxSize

PoolInv == TypeOK /\ Progress /\ OnePool /\ RowsNeedConnections /\ BusyIsBounded

-----------------------------------------------------------------------------
(* What the handlers ask the database for.                                 *)

LEMMA UpdateShape ==
  ASSUME NEW rows \in Seq(Rows)
  PROVE  /\ Update(rows) \in Jobs /\ SkipLocked(rows) \in Jobs
         /\ Update(rows).rows = rows /\ ~Update(rows).skip /\ SkipLocked(rows).skip
<1>1. Range(rows) \in SUBSET Rows
  BY DEF Range
<1>2. QED
  BY <1>1 DEF Jobs, Update, SkipLocked

\* A sequence over a set is one over a larger set.
LEMMA WiderSeq ==
  ASSUME NEW S, NEW T, S \subseteq T, NEW q \in Seq(S)
  PROVE  q \in Seq(T)
  OBVIOUS

LEMMA PairOfJobs ==
  ASSUME NEW a \in Jobs, NEW b \in Jobs
  PROVE  /\ <<a>> \in Seq(Jobs) /\ <<a, b>> \in Seq(Jobs) /\ <<a>> # <<>> /\ <<a, b>> # <<>>
         /\ DOMAIN <<a>> = {1} /\ DOMAIN <<a, b>> = {1, 2}
         /\ <<a>>[1] = a /\ <<a, b>>[1] = a /\ <<a, b>>[2] = b
  OBVIOUS

\* The requests are one of four, and each has work to do.
LEMMA WorkOfClaim ==
  ASSUME NEW r \in Claims
  PROVE  Work[r] = ClaimJobs(Args[r]) /\ Args[r] \in Seq(Rows)
  BY ArgsAssumption DEF ArgsAssumption, Work, Requests, Rows

LEMMA WorkOfSweep ==
  ASSUME NEW r \in Sweeps
  PROVE  /\ Work[r] = <<Update(Args[r].requeued \o Args[r].lost)>>
         /\ Args[r].requeued \o Args[r].lost \in Seq(Runs)
         /\ IsInjective(Args[r].requeued \o Args[r].lost)
  BY ArgsAssumption DEF ArgsAssumption, Work, Requests, SweepJobs

LEMMA WorkOfUpdate ==
  ASSUME NEW r \in Updates
  PROVE  Work[r] = UpdateJobs(Args[r]) /\ Args[r] \in Rows
  BY ArgsAssumption DEF ArgsAssumption, Work, Requests

LEMMA WorkOfRevocation ==
  ASSUME NEW r \in Revocations
  PROVE  /\ Work[r] = RevokeJobs(Args[r].user, Args[r].admins, Args[r].keys)
         /\ Args[r].user \in Users /\ Args[r].admins \in Seq(Users)
         /\ Args[r].keys \in Seq(Keys)
         /\ Args[r].admins # <<>> => Args[r].user \in Range(Args[r].admins)
  BY ArgsAssumption DEF ArgsAssumption, Work, Requests

LEMMA WorkShape ==
  ASSUME NEW r \in Requests
  PROVE  Work[r] \in Seq(Jobs) /\ Work[r] # <<>>
<1>1. Read \in Jobs
  <2>1. <<>> \in Seq(Rows)
    OBVIOUS
  <2>2. QED
    BY <2>1, UpdateShape DEF Read
<1>2. CASE r \in Claims
  <2>1. SkipLocked(Args[r]) \in Jobs
    BY <1>2, WorkOfClaim, UpdateShape
  <2>2. QED
    <3>1. Work[r] = <<SkipLocked(Args[r]), Read>>
      BY <1>2, WorkOfClaim DEF ClaimJobs
    <3>2. QED
      BY <1>1, <2>1, <3>1, PairOfJobs
<1>3. CASE r \in Sweeps
  <2>1. Args[r].requeued \o Args[r].lost \in Seq(Rows)
    BY <1>3, WorkOfSweep, WiderSeq, Zenon DEF Rows
  <2>2. Update(Args[r].requeued \o Args[r].lost) \in Jobs
    BY <2>1, UpdateShape, Zenon
  <2>3. QED
    BY <1>3, <2>2, WorkOfSweep, PairOfJobs, Zenon
<1>4. CASE r \in Updates
  <2> DEFINE J == [Update(<<Args[r]>>) EXCEPT !.changes = {Args[r]} \ Users]
  <2>1. J \in Jobs
    <3>1. <<Args[r]>> \in Seq(Rows) /\ {Args[r]} \ Users \in SUBSET Rows
      BY <1>4, WorkOfUpdate
    <3>2. QED
      BY <3>1, UpdateShape DEF Jobs
  <2>2. Work[r] = <<J, Read>>
    BY <1>4, WorkOfUpdate DEF UpdateJobs
  <2> HIDE DEF J
  <2>3. QED
    BY <1>1, <2>1, <2>2, PairOfJobs
<1>5. CASE r \in Revocations
  <2> DEFINE u == Args[r].user
             a == Args[r].admins
             b == <<u>> \o Args[r].keys
  <2>1. a \in Seq(Rows) /\ b \in Seq(Rows)
    BY <1>5, WorkOfRevocation DEF Rows
  <2>2. a \o b \in Seq(Rows) /\ Range(b) \in SUBSET Rows
    <3> HIDE DEF a, b
    <3> QED
      BY <2>1 DEF Range
  <2>3. LockFirst(a, b) \in Jobs
    BY <2>1, <2>2 DEF LockFirst, Jobs
  <2>4. Work[r] = <<LockFirst(a, b)>>
    BY <1>5, WorkOfRevocation DEF RevokeJobs
  <2>5. QED
    <3> HIDE DEF a, b
    <3> QED
      BY <2>3, <2>4, PairOfJobs
<1>6. QED
  BY <1>2, <1>3, <1>4, <1>5 DEF Requests
-----------------------------------------------------------------------------
LEMMA PoolInit == InitPool => PoolInv
<1> SUFFICES ASSUME InitPool PROVE PoolInv
  OBVIOUS
<1> USE SizeAssumption DEF SizeAssumption, InitPool
<1>1. TypeOK
  BY DEF TypeOK
<1>2. Progress
  <2>1. ASSUME NEW r \in Requests PROVE 1 \in 1 .. Len(Work[r])
    BY WorkShape
  <2>2. QED
    BY <2>1 DEF Progress
<1>3. OnePool /\ RowsNeedConnections
  BY DEF OnePool, RowsNeedConnections
<1>4. BusyIsBounded
  <2>1. Busy = {}
    BY DEF Busy
  <2>2. QED
    BY <2>1, FS_EmptySet DEF BusyIsBounded
<1>5. QED
  BY <1>1, <1>2, <1>3, <1>4 DEF PoolInv

\* A request that waits for a row of another one is running.
LEMMA WaitingIsRunning ==
  ASSUME NEW r \in Waiting
  PROVE  r \in Requests /\ at[r] = "running"
  BY DEF Waiting, WaitsOn, AtRow, Active

\* The end of a job or of a request, whether it had a connection or made the
\* pool: what it gives back, nobody else has.
LEMMA GivingBackIsSafe ==
  ASSUME PoolInv, NEW r \in Requests, GivesBack(r),
         at[r] \in {"making", "running"},
         NEW p \in {"new", "ended"}, at' = [at EXCEPT ![r] = p],
         lock' = (IF lock = r THEN NULL ELSE lock),
         pool' = pool, made' = made, Progress',
         changed' \subseteq Rows, failures' \in 0 .. MaxFailures
  PROVE  PoolInv'
<1> USE SizeAssumption DEF SizeAssumption, PoolInv, GivesBack
<1>1. TypeOK'
  <2>1. /\ made' \in Nat /\ pool' \in 0 .. made' /\ lock' \in Requests \cup {NULL}
        /\ at' \in [Requests -> {"new", "lock", "making", "running", "ended"}]
        /\ conn' \in [Requests -> 0 .. made']
        /\ owner' \in [Rows -> Requests \cup {NULL}]
    BY DEF TypeOK
  <2>2. \A x \in Rows : owner'[x] # NULL => conn'[owner'[x]] # 0
    BY DEF TypeOK
  <2>3. \A q \in Requests : lock' = q <=> at'[q] = "making"
    BY DEF TypeOK
  <2>4. QED
    BY <2>1, <2>2, <2>3 DEF TypeOK
<1>2. OnePool'
  BY DEF OnePool, TypeOK
<1>3. RowsNeedConnections'
  BY DEF RowsNeedConnections, TypeOK
<1>4. BusyIsBounded'
  <2>1. Busy' \subseteq Busy
    BY DEF Busy, TypeOK
  <2>2. IsFiniteSet(Busy') /\ Cardinality(Busy') <= Cardinality(Busy)
    BY <2>1, FS_Subset DEF BusyIsBounded
  <2>3. Cardinality(Busy) \in Nat /\ Cardinality(Busy') \in Nat
    BY <2>2, FS_CardinalityType DEF BusyIsBounded
  <2>4. QED
    BY <2>2, <2>3 DEF BusyIsBounded
<1>5. QED
  BY <1>1, <1>2, <1>3, <1>4

\* Queueing for the pool and making it give nobody a connection.
LEMMA PoolLockStep ==
  ASSUME PoolInv, NEW r \in Requests, GetPool(r) \/ TakePoolLock(r) \/ MakePool(r)
  PROVE  PoolInv'
<1> USE SizeAssumption DEF SizeAssumption, PoolInv
<1>1. Progress' /\ UNCHANGED <<conn, owner>>
  BY DEF GetPool, TakePoolLock, MakePool, Progress
<1>2. TypeOK'
  BY DEF GetPool, TakePoolLock, StillNone, MakePool, TypeOK, OnePool
<1>3. OnePool'
  BY DEF GetPool, TakePoolLock, StillNone, MakePool, TypeOK, OnePool
<1>4. RowsNeedConnections'
  BY DEF GetPool, TakePoolLock, StillNone, MakePool, TypeOK, RowsNeedConnections
<1>5. BusyIsBounded'
  BY <1>1 DEF BusyIsBounded, Busy
<1>6. QED
  BY <1>1, <1>2, <1>3, <1>4, <1>5

\* Where the bound is kept: a connection is handed out only while one is free.
LEMMA AcquireStep ==
  ASSUME PoolInv, NEW r \in Requests, Acquire(r)
  PROVE  PoolInv'
<1> USE SizeAssumption DEF SizeAssumption, PoolInv, Acquire, Asks
<1>1. Progress'
  BY DEF Progress
<1>2. pool = 1
  BY DEF OnePool
<1>3. TypeOK'
  BY <1>2 DEF TypeOK
<1>4. OnePool'
  BY <1>2 DEF TypeOK, OnePool
<1>5. RowsNeedConnections'
  BY DEF TypeOK, RowsNeedConnections
<1>6. BusyIsBounded'
  <2>1. InUse(pool) = Busy
    BY <1>2 DEF InUse, Busy, OnePool, TypeOK
  <2>2. Busy' = Busy \cup {r} /\ r \notin Busy
    BY <1>2 DEF Busy, OnePool, TypeOK
  <2>3. Cardinality(Busy) \in Nat /\ Cardinality(Busy) < MaxSize
    BY <2>1, FS_CardinalityType DEF BusyIsBounded
  <2>4. IsFiniteSet(Busy') /\ Cardinality(Busy') = Cardinality(Busy) + 1
    BY <2>2, FS_AddElement DEF BusyIsBounded
  <2>5. QED
    BY <2>3, <2>4 DEF BusyIsBounded
<1>7. QED
  BY <1>1, <1>3, <1>4, <1>5, <1>6

LEMMA RowStep ==
  ASSUME PoolInv, NEW r \in Requests, LockRow(r) \/ PassRow(r)
  PROVE  PoolInv'
<1> USE DEF PoolInv
<1>1. at[r] = "running" /\ UNCHANGED <<pool, made, lock, at, job, conn, changed, failures>>
  BY DEF LockRow, PassRow, AtRow, Active
<1>2. Progress'
  BY <1>1 DEF LockRow, PassRow, Progress
<1>3. \/ owner' = owner
      \/ owner' = [owner EXCEPT ![Wanted(r)] = r]
  BY DEF LockRow, PassRow
<1>4. \A x \in Rows : owner'[x] \in {owner[x], r}
  BY <1>3 DEF TypeOK
<1>5. owner' \in [Rows -> Requests \cup {NULL}]
  BY <1>3 DEF TypeOK
<1>6. TypeOK'
  <2>1. \A x \in Rows : owner'[x] # NULL => conn'[owner'[x]] # 0
    BY <1>1, <1>4 DEF TypeOK, OnePool
  <2>2. QED
    BY <1>1, <1>5, <2>1 DEF TypeOK
<1>7. OnePool'
  BY <1>1 DEF OnePool
<1>8. RowsNeedConnections'
  BY <1>1, <1>4 DEF RowsNeedConnections
<1>9. BusyIsBounded'
  BY <1>1 DEF BusyIsBounded, Busy
<1>10. QED
  BY <1>2, <1>6, <1>7, <1>8, <1>9

LEMMA EndJobStep ==
  ASSUME PoolInv, NEW r \in Requests, EndJob(r)
  PROVE  PoolInv'
<1> USE SizeAssumption DEF SizeAssumption, PoolInv
<1>1. at[r] = "running" /\ lock # r
  BY DEF EndJob, Active, TypeOK
<1>2. Job(r).changes \subseteq Rows
  <2>1. Work[r] \in Seq(Jobs) /\ job[r] \in 1 .. Len(Work[r])
    BY WorkShape DEF Progress
  <2>2. Job(r) \in Jobs
    BY <2>1 DEF Job
  <2>3. QED
    BY <2>2 DEF Jobs
<1>3. changed' \subseteq Rows
  BY <1>2 DEF EndJob, TypeOK
<1>4. Progress'
  <2>1. CASE job[r] = Len(Work[r])
    BY <2>1 DEF EndJob, Progress
  <2>2. CASE job[r] # Len(Work[r])
    <3>1. Len(Work[r]) \in Nat
      BY WorkShape
    <3>2. job' = [job EXCEPT ![r] = @ + 1] /\ row' = [row EXCEPT ![r] = 1]
      BY <2>2 DEF EndJob
    <3>3. QED
      BY <2>2, <3>1, <3>2 DEF Progress
  <2>3. QED
    BY <2>1, <2>2
<1>5. PICK p \in {"new", "ended"} : at' = [at EXCEPT ![r] = p]
  BY DEF EndJob
<1>6. GivesBack(r) /\ UNCHANGED <<pool, made, lock, failures>>
  BY DEF EndJob
<1>7. QED
  BY <1>1, <1>3, <1>4, <1>5, <1>6, GivingBackIsSafe DEF TypeOK

LEMMA RaiseStep ==
  ASSUME PoolInv, NEW r \in Requests, DatabaseFails(r) \/ DeadlockDetected(r)
  PROVE  PoolInv'
<1> USE SizeAssumption DEF SizeAssumption
<1>1. at[r] \in {"making", "running"}
  BY WaitingIsRunning DEF DatabaseFails, DeadlockDetected
<1>2. Raise(r) /\ failures' \in 0 .. MaxFailures
  BY DEF DatabaseFails, DeadlockDetected, PoolInv, TypeOK
<1>3. Progress' /\ changed' \subseteq Rows
  BY <1>2 DEF Raise, PoolInv, Progress, TypeOK
<1>4. QED
  BY <1>1, <1>2, <1>3, GivingBackIsSafe DEF Raise, LeaveLock

LEMMA PoolStep == PoolInv /\ [NextPool]_vars => PoolInv'
<1> SUFFICES ASSUME PoolInv, [NextPool]_vars PROVE PoolInv'
  OBVIOUS
<1>1. CASE UNCHANGED vars
  BY <1>1 DEF vars, PoolInv, TypeOK, Progress, OnePool, RowsNeedConnections,
              BusyIsBounded, Busy
<1>2. ASSUME NEW r \in Requests, Step(r) PROVE PoolInv'
  BY <1>2, PoolLockStep, AcquireStep, RowStep, EndJobStep, RaiseStep DEF Step
<1>3. QED
  BY <1>1, <1>2 DEF NextPool

\* However many requests race for the first pool and for its connections, and
\* whatever fails or deadlocks, there is one pool, never more connections than
\* it has, and nobody waits for one with something others need in hand.
THEOREM PoolStaysSafe == PoolSpec => []PoolIsSafe
<1>1. PoolInv => PoolIsSafe
  <2> SUFFICES ASSUME PoolInv PROVE PoolIsSafe
    OBVIOUS
  <2> USE DEF PoolInv
  <2>1. ConnectionsWithinLimit
    BY DEF ConnectionsWithinLimit, BusyIsBounded, Busy
  <2>2. WaitersHoldNothing
    BY SizeAssumption
       DEF SizeAssumption, WaitersHoldNothing, OnePool, RowsNeedConnections, TypeOK
  <2>3. QED
    BY <2>1, <2>2 DEF PoolIsSafe
<1>2. QED
  BY <1>1, PoolInit, PoolStep, PTL DEF PoolSpec

-----------------------------------------------------------------------------
(* Why requests wait in a circle.                                          *)

\* What a request has locked, its statements have come to and gone past.
Passed(r, x) == \E j \in DOMAIN Job(r).rows : j < row[r] /\ Job(r).rows[j] = x

OwnedIsPassed == \A x \in Rows : owner[x] # NULL => Passed(owner[x], x)

\* The admins a revocation has gone past it has locked, but for those revoked
\* meanwhile, and once past the update by id it has locked the user as well.
AdminsAreLocked ==
  \A r \in Revocations : at[r] # "ended" =>
    \A j \in 1 .. row[r] - 1 : j <= Job(r).first + 1 =>
      owner[Job(r).rows[j]] = r \/ (j <= Job(r).first /\ Job(r).rows[j] \in changed)

\* Who has a revoked user locked, has come to the update by id.
RevokedAreLockedById ==
  \A x \in Users \cap changed : owner[x] # NULL => row[owner[x]] > Job(owner[x]).first + 1

RowsInv == PoolInv /\ OwnedIsPassed /\ AdminsAreLocked /\ RevokedAreLockedById

LEMMA JobShape ==
  ASSUME PoolInv, NEW r \in Requests
  PROVE  /\ job[r] \in DOMAIN Work[r] /\ Job(r) = Work[r][job[r]]
         /\ Job(r).rows \in Seq(Rows) /\ Job(r).skip \in BOOLEAN
         /\ Job(r).first \in Nat /\ Job(r).changes \subseteq Rows
<1>1. Work[r] \in Seq(Jobs) /\ job[r] \in 1 .. Len(Work[r])
  BY WorkShape DEF PoolInv, Progress
<1>2. job[r] \in DOMAIN Work[r] /\ Job(r) \in Jobs
  BY <1>1 DEF Job
<1>3. QED
  BY <1>2 DEF Job, Jobs

\* A revocation locks the admins (FOR UPDATE), then comes to the user by id, who
\* is one of them if there are any, and goes through the user's keys.
LEMMA RevocationInOrder ==
  ASSUME NEW r \in Revocations, NEW J, J = Work[r][1]
  PROVE  /\ DOMAIN Work[r] = {1} /\ ~J.skip
         /\ J.first \in Nat /\ J.rows \in Seq(Rows) /\ J.first + 1 <= Len(J.rows)
         /\ DOMAIN Args[r].admins = 1 .. J.first
         /\ \A i \in 1 .. J.first : J.rows[i] = Args[r].admins[i] /\ J.rows[i] \in Users
         /\ J.rows[J.first + 1] = Args[r].user /\ Args[r].user \in Users
         /\ \A i \in DOMAIN J.rows : i > J.first + 1 =>
              J.rows[i] \in Range(Args[r].keys) /\ J.rows[i] \in Keys
         /\ J.first > 0 => \E h \in 1 .. J.first : J.rows[h] = J.rows[J.first + 1]
<1> DEFINE u == Args[r].user
           a == Args[r].admins
           k == Args[r].keys
           rows == J.rows
<1>1. Work[r] = <<LockFirst(a, <<u>> \o k)>>
  BY WorkOfRevocation DEF RevokeJobs
<1>2. J = LockFirst(a, <<u>> \o k) /\ DOMAIN Work[r] = {1}
  <2>1. \A K : Work[r] = <<K>> => Work[r][1] = K /\ DOMAIN Work[r] = {1}
    OBVIOUS
  <2>2. QED
    BY <1>1, <2>1
<1>3. \A p, q : LockFirst(p, q).rows = p \o q /\ LockFirst(p, q).first = Len(p) /\ ~LockFirst(p, q).skip
  BY DEF LockFirst
<1>4. rows = a \o (<<u>> \o k) /\ J.first = Len(a) /\ ~J.skip
  BY <1>2, <1>3, Zenon
<1>5. u \in Users /\ a \in Seq(Users) /\ k \in Seq(Keys) /\ (a # <<>> => u \in Range(a))
  BY WorkOfRevocation
<1> HIDE DEF u, a, k
<1>6. /\ rows \in Seq(Users \cup Keys) /\ Len(rows) = Len(a) + 1 + Len(k)
      /\ \A i \in 1 .. Len(a) : rows[i] = a[i]
      /\ rows[Len(a) + 1] = u
      /\ \A i \in 1 .. Len(k) : rows[Len(a) + 1 + i] = k[i]
  <2>1. /\ <<u>> \o k \in Seq(Users \cup Keys) /\ a \in Seq(Users \cup Keys)
        /\ Len(<<u>> \o k) = 1 + Len(k) /\ (<<u>> \o k)[1] = u
        /\ \A i \in 1 .. Len(k) : (<<u>> \o k)[1 + i] = k[i]
    BY <1>5
  <2>2. QED
    BY <1>4, <1>5, <2>1
<1> DEFINE n == Len(a)
<1>7. n \in Nat /\ Len(k) \in Nat /\ DOMAIN rows = 1 .. n + 1 + Len(k)
      /\ DOMAIN a = 1 .. n /\ DOMAIN k = 1 .. Len(k)
  BY <1>5, <1>6
<1> HIDE DEF rows
<1>8. ASSUME NEW i \in DOMAIN rows, i > n + 1
      PROVE  rows[i] \in Range(k) /\ rows[i] \in Keys
  <2>1. i - n - 1 \in DOMAIN k /\ i = n + 1 + (i - n - 1)
    BY <1>7, <1>8
  <2>2. rows[i] = k[i - n - 1]
    BY <1>6, <1>7, <2>1
  <2>3. QED
    BY <1>5, <2>1, <2>2 DEF Range
<1>9. \A i \in 1 .. n : rows[i] = a[i] /\ rows[i] \in Users
  BY <1>5, <1>6, <1>7
<1>10. rows[n + 1] = u
  BY <1>6
<1>11. n > 0 => \E h \in 1 .. n : rows[h] = rows[n + 1]
  <2> SUFFICES ASSUME n > 0 PROVE \E h \in 1 .. n : rows[h] = rows[n + 1]
    OBVIOUS
  <2>1. PICK h \in DOMAIN a : a[h] = u
    BY <1>5, <1>7 DEF Range
  <2>2. QED
    BY <1>7, <1>9, <1>10, <2>1
<1>12. rows \in Seq(Rows)
  BY <1>6, WiderSeq, Zenon DEF Rows
<1>13. QED
  <2>1. n + 1 <= Len(rows)
    BY <1>6, <1>7
  <2> HIDE DEF n
  <2>2. J.first = n /\ rows = J.rows
    BY <1>4 DEF n, rows
  <2>3. QED
    BY <1>2, <1>4, <1>5, <1>7, <1>8, <1>9, <1>10, <1>11, <1>12, <2>1, <2>2 DEF u, a, k

\* A revocation has one job, and comes to users before it comes to keys.
LEMMA RevocationJob ==
  ASSUME PoolInv, NEW r \in Revocations
  PROVE  /\ r \in Requests /\ Job(r) = Work[r][1] /\ ~Job(r).skip
         /\ \A j \in 1 .. Job(r).first + 1 : Job(r).rows[j] \in Users /\ Job(r).rows[j] \in Rows
<1>1. r \in Requests
  BY DEF Requests
<1>2. job[r] \in DOMAIN Work[r] /\ Job(r) = Work[r][job[r]]
  BY <1>1, JobShape
<1>3. job[r] = 1
  BY <1>2, RevocationInOrder
<1>4. Job(r) = Work[r][1]
  BY <1>2, <1>3
<1>5. ~Job(r).skip /\ Job(r).first \in Nat
      /\ (\A i \in 1 .. Job(r).first : Job(r).rows[i] \in Users)
      /\ Job(r).rows[Job(r).first + 1] \in Users
  BY <1>4, RevocationInOrder
<1>6. ASSUME NEW j \in 1 .. Job(r).first + 1 PROVE Job(r).rows[j] \in Users
  BY <1>5
<1>7. QED
  BY <1>1, <1>4, <1>5, <1>6 DEF Rows

LEMMA RowsInit == InitPool => RowsInv
<1>1. ASSUME InitPool, NEW r \in Revocations PROVE 1 .. row[r] - 1 = {}
  BY <1>1 DEF InitPool, Requests
<1>2. QED
  BY <1>1, PoolInit DEF InitPool, RowsInv, OwnedIsPassed, AdminsAreLocked, RevokedAreLockedById

\* What the end of a job gives back is all the request had locked.
LEMMA GivingBackKeepsPassed ==
  ASSUME RowsInv, NEW r \in Requests, GivesBack(r),
         \A q \in Requests \ {r} : job'[q] = job[q] /\ row'[q] = row[q]
  PROVE  OwnedIsPassed'
<1> SUFFICES ASSUME NEW x \in Rows, owner'[x] # NULL PROVE Passed(owner[x], x)' 
  BY DEF OwnedIsPassed, GivesBack
<1>1. owner'[x] = owner[x] /\ owner[x] \in Requests \ {r}
  BY DEF GivesBack, RowsInv, PoolInv, TypeOK
<1>2. Passed(owner[x], x)
  BY <1>1 DEF RowsInv, OwnedIsPassed
<1>3. QED
  BY <1>1, <1>2 DEF Passed, Job

LEMMA RowKeepsPassed ==
  ASSUME RowsInv, NEW r \in Requests, LockRow(r) \/ PassRow(r)
  PROVE  OwnedIsPassed'
<1> USE DEF RowsInv, PoolInv
<1>1. AtRow(r) /\ job' = job /\ row' = [row EXCEPT ![r] = @ + 1]
  BY DEF LockRow, PassRow
<1>2. row[r] \in Nat /\ row'[r] = row[r] + 1
      /\ \A q \in Requests : row'[q] >= row[q] /\ row[q] \in Nat
  BY <1>1 DEF Progress
<1>3. ASSUME NEW q \in Requests, NEW x, Passed(q, x) PROVE Passed(q, x)'
  <2>1. PICK j \in DOMAIN Job(q).rows : j < row[q] /\ Job(q).rows[j] = x
    BY <1>3 DEF Passed
  <2>2. j \in Nat
    BY JobShape, <2>1
  <2>3. j < row'[q] /\ Job(q)' = Job(q)
    BY <1>1, <1>2, <2>1, <2>2 DEF Job
  <2>4. QED
    BY <2>1, <2>3 DEF Passed
<1>4. CASE LockRow(r)
  <2>1. ASSUME NEW x, x = Wanted(r) PROVE Passed(r, x)'
    <3>1. Job(r)' = Job(r) /\ Job(r).rows \in Seq(Rows)
      BY <1>1, JobShape DEF Job
    <3>2. row[r] >= 1
      BY DEF Progress
    <3>3. QED
      BY <1>1, <1>2, <2>1, <3>1, <3>2 DEF Passed, Wanted, AtRow
  <2>2. \A x \in Rows : owner'[x] = owner[x] \/ (owner'[x] = r /\ x = Wanted(r))
    BY <1>4 DEF LockRow, TypeOK
  <2>3. QED
    BY <1>3, <2>1, <2>2 DEF OwnedIsPassed, TypeOK
<1>5. CASE PassRow(r)
  BY <1>3, <1>5 DEF PassRow, OwnedIsPassed, TypeOK
<1>6. QED
  BY <1>4, <1>5

\* So are the admins a revocation has gone past, while it is under way.
LEMMA GivingBackKeepsAdmins ==
  ASSUME RowsInv, NEW r \in Requests, GivesBack(r),
         \A q \in Requests \ {r} : job'[q] = job[q] /\ row'[q] = row[q] /\ at'[q] = at[q],
         at'[r] = "ended" \/ row'[r] = 1,
         changed \subseteq changed', changed' \subseteq changed \cup {x \in Rows : owner[x] = r}
  PROVE  AdminsAreLocked' /\ RevokedAreLockedById'
<1>1. AdminsAreLocked'
  <2> SUFFICES ASSUME NEW q \in Revocations, at'[q] # "ended",
                      NEW j \in 1 .. row'[q] - 1, j <= Job(q)'.first + 1
               PROVE  \/ owner'[Job(q)'.rows[j]] = q
                      \/ j <= Job(q)'.first /\ Job(q)'.rows[j] \in changed'
    BY DEF AdminsAreLocked
  <2>1. q \in Requests
    BY DEF Requests
  <2>2. q # r
    <3>1. row'[q] # 1
      OBVIOUS
    <3>2. QED
      BY <3>1
  <2>3. Job(q)' = Job(q) /\ at[q] # "ended" /\ row'[q] = row[q]
    BY <2>1, <2>2 DEF Job
  <2>4. owner[Job(q).rows[j]] = q \/ (j <= Job(q).first /\ Job(q).rows[j] \in changed)
    BY <2>3 DEF RowsInv, AdminsAreLocked
  <2>5. ASSUME NEW x, owner[x] = q, x \in Rows PROVE owner'[x] = q
    BY <2>2, <2>5 DEF GivesBack
  <2>6. Job(q).rows[j] \in Rows
    <3>1. j \in 1 .. Job(q).first + 1
      BY <2>3
    <3>2. QED
      BY <3>1, RevocationJob DEF RowsInv
  <2>7. QED
    BY <2>3, <2>4, <2>5, <2>6
<1>2. RevokedAreLockedById'
  <2> SUFFICES ASSUME NEW x \in Users, x \in changed', owner'[x] # NULL
               PROVE  (row[owner[x]] > Job(owner[x]).first + 1)'
    BY DEF RevokedAreLockedById
  <2>1. x \in Rows
    BY DEF Rows
  <2>2. owner'[x] = owner[x] /\ owner[x] \in Requests \ {r}
    BY <2>1 DEF GivesBack, RowsInv, PoolInv, TypeOK
  <2>3. x \in changed
    BY <2>1, <2>2
  <2>4. row[owner[x]] > Job(owner[x]).first + 1
    BY <2>2, <2>3 DEF RowsInv, RevokedAreLockedById
  <2>5. QED
    BY <2>2, <2>4 DEF Job
<1>3. QED
  BY <1>1, <1>2

LEMMA RowKeepsAdmins ==
  ASSUME RowsInv, NEW r \in Requests, LockRow(r) \/ PassRow(r)
  PROVE  AdminsAreLocked' /\ RevokedAreLockedById'
<1> USE DEF RowsInv, PoolInv
<1>1. /\ AtRow(r) /\ row' = [row EXCEPT ![r] = @ + 1]
      /\ UNCHANGED <<at, job, changed>>
  BY DEF LockRow, PassRow
<1>2. row[r] \in Nat \ {0} /\ row'[r] = row[r] + 1 /\ \A q \in Requests \ {r} : row'[q] = row[q]
  BY <1>1 DEF Progress
<1>3. \A q : Job(q)' = Job(q)
  BY <1>1 DEF Job
<1>4. /\ \A x \in Rows : owner'[x] = owner[x] \/ (LockRow(r) /\ x = Wanted(r) /\ owner'[x] = r)
      /\ \A x \in Rows : owner'[x] # owner[x] => owner[x] = NULL
      /\ LockRow(r) /\ Wanted(r) \in Rows => owner'[Wanted(r)] = r
  BY DEF LockRow, PassRow, TypeOK
<1>5. AdminsAreLocked'
  <2> SUFFICES ASSUME NEW q \in Revocations, at[q] # "ended",
                      NEW j \in 1 .. row'[q] - 1, j <= Job(q).first + 1
               PROVE  owner'[Job(q).rows[j]] = q \/ (j <= Job(q).first /\ Job(q).rows[j] \in changed)
    BY <1>1, <1>3 DEF AdminsAreLocked
  <2>1. /\ q \in Requests /\ ~Job(q).skip /\ j \in Nat /\ row[q] \in Nat
        /\ Job(q).rows[j] \in Users /\ Job(q).rows[j] \in Rows
    <3>1. q \in Requests /\ Job(q).first \in Nat
      BY RevocationJob, JobShape
    <3>2. row[q] \in Nat /\ row'[q] \in Nat
      <4>1. row[q] \in Nat
        BY <3>1 DEF Progress
      <4>2. QED
        BY <1>2, <3>1, <4>1
    <3>3. j \in 1 .. Job(q).first + 1
      BY <3>1, <3>2
    <3>4. QED
      BY <3>1, <3>2, <3>3, RevocationJob
  <2>2. CASE j \in 1 .. row[q] - 1
    <3>1. owner[Job(q).rows[j]] = q \/ (j <= Job(q).first /\ Job(q).rows[j] \in changed)
      BY <2>2 DEF AdminsAreLocked
    <3>2. q # NULL
      BY <2>1, SizeAssumption
    <3>3. QED
      BY <1>4, <2>1, <3>1, <3>2
  <2>3. CASE j \notin 1 .. row[q] - 1
    <3>1. q = r /\ j = row[r]
      BY <1>2, <2>1, <2>3
    <3>2. Job(q).rows[j] = Wanted(r)
      BY <3>1 DEF Wanted
    <3>3. QED
      BY <1>4, <2>1, <3>1, <3>2 DEF PassRow, Changed
  <2>4. QED
    BY <2>2, <2>3
<1>6. RevokedAreLockedById'
  <2> SUFFICES ASSUME NEW x \in Users, x \in changed, owner'[x] # NULL
               PROVE  row'[owner'[x]] > Job(owner'[x]).first + 1
    BY <1>1, <1>3 DEF RevokedAreLockedById
  <2>1. x \in Rows /\ x \notin Runs
    BY ArgsAssumption DEF ArgsAssumption, Rows
  <2>2. CASE owner'[x] = owner[x]
    <3>1. owner[x] \in Requests /\ row[owner[x]] > Job(owner[x]).first + 1
      BY <2>1, <2>2 DEF RevokedAreLockedById, TypeOK
    <3>2. Job(owner[x]).first \in Nat /\ row[owner[x]] \in Nat
      BY <3>1, JobShape DEF Progress
    <3>3. QED
      BY <1>2, <2>2, <3>1, <3>2
  <2>3. CASE LockRow(r) /\ x = Wanted(r) /\ owner'[x] = r
    <3>1. ~(row[r] <= Job(r).first) /\ Job(r).first \in Nat
      BY <2>1, <2>3, JobShape DEF LockRow, Changed
    <3>2. QED
      BY <1>2, <2>3, <3>1
  <2>4. QED
    BY <1>4, <2>1, <2>2, <2>3
<1>7. QED
  BY <1>5, <1>6

LEMMA RowsStep == RowsInv /\ [NextPool]_vars => RowsInv'
<1> SUFFICES ASSUME RowsInv, [NextPool]_vars
             PROVE  OwnedIsPassed' /\ AdminsAreLocked' /\ RevokedAreLockedById'
  BY PoolStep DEF RowsInv
<1> DEFINE Goal == OwnedIsPassed' /\ AdminsAreLocked' /\ RevokedAreLockedById'
<1>1. ASSUME UNCHANGED <<owner, job, row, changed>>,
             \A q \in Requests : at'[q] # "ended" => at[q] # "ended"
      PROVE  Goal
  <2>1. OwnedIsPassed'
    BY <1>1 DEF RowsInv, OwnedIsPassed, Passed, Job
  <2>2. AdminsAreLocked'
    BY <1>1 DEF RowsInv, AdminsAreLocked, Job, Requests
  <2>3. RevokedAreLockedById'
    BY <1>1 DEF RowsInv, RevokedAreLockedById, Job
  <2>4. QED
    BY <2>1, <2>2, <2>3
<1>2. ASSUME NEW r \in Requests, Step(r) PROVE Goal
  <2>1. CASE GetPool(r) \/ TakePoolLock(r) \/ MakePool(r) \/ Acquire(r)
    <3>1. UNCHANGED <<owner, job, row, changed>>
      BY <2>1 DEF GetPool, TakePoolLock, MakePool, Acquire
    <3>2. at[r] # "ended" /\ \A q \in Requests \ {r} : at'[q] = at[q]
      BY <2>1 DEF GetPool, TakePoolLock, MakePool, Acquire, Asks, RowsInv, PoolInv, TypeOK
    <3>3. QED
      BY <1>1, <3>1, <3>2
  <2>2. CASE EndJob(r)
    <3>1. /\ GivesBack(r)
          /\ \A q \in Requests \ {r} : job'[q] = job[q] /\ row'[q] = row[q] /\ at'[q] = at[q]
          /\ at'[r] = "ended" \/ row'[r] = 1
      BY <2>2 DEF EndJob, RowsInv, PoolInv, Progress, TypeOK
    <3>2. changed' = changed \cup {x \in Job(r).changes : owner[x] = r} /\ Job(r).changes \subseteq Rows
      BY <2>2, JobShape DEF EndJob, RowsInv
    <3>3. QED
      BY <3>1, <3>2, GivingBackKeepsPassed, GivingBackKeepsAdmins
  <2>3. CASE DatabaseFails(r) \/ DeadlockDetected(r)
    <3>1. GivesBack(r) /\ UNCHANGED <<job, row, changed>> /\ at' = [at EXCEPT ![r] = "ended"]
      BY <2>3 DEF DatabaseFails, DeadlockDetected, Raise
    <3>2. at'[r] = "ended" /\ \A q \in Requests \ {r} : at'[q] = at[q]
      BY <3>1 DEF RowsInv, PoolInv, TypeOK
    <3>3. QED
      BY <3>1, <3>2, GivingBackKeepsPassed, GivingBackKeepsAdmins
  <2>4. QED
    BY <1>2, <2>1, <2>2, <2>3, RowKeepsPassed, RowKeepsAdmins DEF Step
<1>3. CASE UNCHANGED vars
  BY <1>1, <1>3 DEF vars
<1>4. QED
  BY <1>2, <1>3 DEF NextPool

\* A sweep has one job, its scans.
LEMMA SweepScans ==
  ASSUME NEW r \in Sweeps, NEW k \in DOMAIN Work[r]
  PROVE  Work[r][k].rows = Scan(r) /\ Work[r][k].rows \in Seq(Runs)
<1> DEFINE rows == Args[r].requeued \o Args[r].lost
<1>1. Work[r] = <<Update(rows)>> /\ rows \in Seq(Runs) /\ rows = Scan(r)
  BY WorkOfSweep DEF Scan
<1> HIDE DEF rows
<1>2. Update(rows).rows = rows
  BY DEF Update
<1>3. QED
  BY <1>1, <1>2

\* A revocation meets users and keys.
LEMMA RevocationsMeet ==
  ASSUME PoolInv, NEW r \in Revocations, NEW i \in DOMAIN Job(r).rows
  PROVE  Job(r).rows[i] \in Users \cup Keys
<1>1. /\ Job(r) = Work[r][1] /\ Job(r).first \in Nat /\ Job(r).rows \in Seq(Rows)
      /\ \A j \in 1 .. Job(r).first + 1 : Job(r).rows[j] \in Users
  BY RevocationJob, RevocationInOrder
<1>2. i \in 1 .. Job(r).first + 1 \/ i > Job(r).first + 1
  BY <1>1
<1>3. QED
  BY <1>1, <1>2, RevocationInOrder

\* Whoever waits for several rows, but for sweeps, is a revocation.
LEMMA OtherIsRevocation ==
  ASSUME NEW r \in Requests \ Sweeps, NEW k \in DOMAIN Work[r], ~Work[r][k].skip,
         Len(Work[r][k].rows) > 1
  PROVE  r \in Revocations
<1>1. r \notin Claims
  <2>1. SUFFICES ASSUME r \in Claims PROVE FALSE
    OBVIOUS
  <2>2. Work[r] = <<SkipLocked(Args[r]), Read>>
    BY <2>1, WorkOfClaim DEF ClaimJobs
  <2>3. SkipLocked(Args[r]).skip /\ Read.rows = <<>>
    BY DEF SkipLocked, Read, Update
  <2>4. k = 1 \/ k = 2
    BY <2>2
  <2>5. QED
    BY <2>2, <2>3, <2>4
<1>2. r \notin Updates
  <2>1. SUFFICES ASSUME r \in Updates PROVE FALSE
    OBVIOUS
  <2> DEFINE J == [Update(<<Args[r]>>) EXCEPT !.changes = {Args[r]} \ Users]
  <2>2. Work[r] = <<J, Read>>
    BY <2>1, WorkOfUpdate DEF UpdateJobs
  <2>3. J.rows = <<Args[r]>> /\ Read.rows = <<>>
    BY DEF Read, Update
  <2> HIDE DEF J
  <2>4. k = 1 \/ k = 2
    BY <2>2
  <2>5. QED
    BY <2>2, <2>3, <2>4
<1>3. QED
  BY <1>1, <1>2 DEF Requests

\* Who is in a circle waits, and has a row that somebody in it waits for.
LEMMA InCircle ==
  ASSUME RowsInv, NEW C \in SUBSET Waiting, Cycle(C), NEW r \in C
  PROVE  /\ r \in Requests /\ r \in Busy /\ ~Job(r).skip
         /\ row[r] \in DOMAIN Job(r).rows /\ Wanted(r) \in Rows
         /\ Len(Job(r).rows) > 1
         /\ WaitsOn(r) \in C /\ Passed(WaitsOn(r), Wanted(r))
<1> USE DEF RowsInv, PoolInv
<1>1. r \in Requests /\ r \in Busy
  BY WaitingIsRunning DEF OnePool, Busy
<1>2. ASSUME NEW q \in C
      PROVE  /\ ~Job(q).skip /\ row[q] \in DOMAIN Job(q).rows /\ Wanted(q) \in Rows
             /\ owner[Wanted(q)] = WaitsOn(q) /\ owner[Wanted(q)] # NULL
  <2>1. q \in Requests /\ WaitsOn(q) # NULL
    BY <1>2 DEF Waiting
  <2>2. AtRow(q) /\ ~Job(q).skip /\ owner[Wanted(q)] = WaitsOn(q)
    BY <2>1 DEF WaitsOn
  <2>3. Job(q).rows \in Seq(Rows) /\ row[q] \in Nat \ {0}
    BY <2>1, JobShape DEF Progress
  <2>4. row[q] \in DOMAIN Job(q).rows /\ Wanted(q) \in Rows
    BY <2>2, <2>3 DEF AtRow, Wanted
  <2>5. QED
    BY <2>1, <2>2, <2>4
<1>3. \A q \in C : Passed(WaitsOn(q), Wanted(q))
  BY <1>2 DEF OwnedIsPassed
<1>4. WaitsOn(r) \in C
  BY DEF Cycle
<1>5. Len(Job(r).rows) > 1
  <2>1. PICK q \in C : WaitsOn(q) = r
    BY DEF Cycle
  <2>2. PICK j \in DOMAIN Job(r).rows : j < row[r]
    BY <1>3, <2>1 DEF Passed
  <2>3. row[r] \in DOMAIN Job(r).rows /\ Job(r).rows \in Seq(Rows)
    BY <1>1, <1>2, JobShape
  <2>4. QED
    BY <2>2, <2>3
<1>6. QED
  BY <1>1, <1>2, <1>3, <1>4, <1>5

\* A sweep has run rows locked, a revocation rows of users and keys.
LEMMA PassedKinds ==
  ASSUME RowsInv, NEW r \in Requests, NEW x, Passed(r, x)
  PROVE  /\ r \in Sweeps => x \in Runs
         /\ r \in Revocations => x \in Users \cup Keys
<1>1. CASE r \in Sweeps
  <2>1. job[r] \in DOMAIN Work[r] /\ Job(r) = Work[r][job[r]]
    BY JobShape DEF RowsInv
  <2>2. Job(r).rows \in Seq(Runs)
    BY <1>1, <2>1, SweepScans
  <2>3. QED
    BY <1>1, <2>2, ArgsAssumption DEF Passed, ArgsAssumption
<1>2. CASE r \in Revocations
  <2>1. PICK j \in DOMAIN Job(r).rows : Job(r).rows[j] = x
    BY DEF Passed
  <2>2. Job(r).rows[j] \in Users \cup Keys
    BY <1>2, <2>1, RevocationsMeet DEF RowsInv
  <2>3. QED
    BY <1>2, <2>1, <2>2, ArgsAssumption DEF ArgsAssumption
<1>3. QED
  BY <1>1, <1>2

\* Whoever is in a circle is a sweep that waits for one, or a revocation that does.
LEMMA CircleKinds ==
  ASSUME RowsInv, NEW C \in SUBSET Waiting, Cycle(C), NEW r \in C
  PROVE  /\ r \in Sweeps => WaitsOn(r) \in Sweeps
         /\ r \notin Sweeps => r \in Revocations /\ WaitsOn(r) \in C \ Sweeps
<1>1. ASSUME NEW q \in C
      PROVE  /\ q \in Requests /\ (q \notin Sweeps => q \in Revocations)
             /\ q \in Sweeps => Wanted(q) \in Runs
             /\ q \in Revocations => Wanted(q) \in Users \cup Keys
  <2>1. /\ q \in Requests /\ ~Job(q).skip /\ Len(Job(q).rows) > 1
        /\ row[q] \in DOMAIN Job(q).rows
        /\ job[q] \in DOMAIN Work[q] /\ Job(q) = Work[q][job[q]]
    BY InCircle, JobShape DEF RowsInv
  <2>2. q \notin Sweeps => q \in Revocations
    BY <2>1, OtherIsRevocation
  <2>3. q \in Sweeps => Wanted(q) \in Runs
    BY <2>1, SweepScans DEF Wanted
  <2>4. q \in Revocations => Wanted(q) \in Users \cup Keys
    BY <2>1, RevocationsMeet DEF Wanted, RowsInv
  <2>5. QED
    BY <2>1, <2>2, <2>3, <2>4
<1>2. WaitsOn(r) \in C /\ Passed(WaitsOn(r), Wanted(r))
  BY InCircle
<1>3. /\ WaitsOn(r) \in Sweeps => Wanted(r) \in Runs
      /\ WaitsOn(r) \in Revocations => Wanted(r) \in Users \cup Keys
  BY <1>1, <1>2, PassedKinds
<1>4. QED
  BY <1>1, <1>2, <1>3, ArgsAssumption DEF ArgsAssumption

\* Nobody in a circle wants a key: whoever has it locked, has locked its user, as
\* has whoever has come to it.
LEMMA NobodyWantsKeys ==
  ASSUME RowsInv, NEW C \in SUBSET Waiting, Cycle(C), NEW r \in C \ Sweeps
  PROVE  row[r] <= Job(r).first + 1
<1> USE DEF RowsInv
<1> DEFINE s == WaitsOn(r)
<1>1. /\ r \in Revocations /\ s \in Revocations /\ s \in C /\ r \in Requests /\ s \in Requests
      /\ Passed(s, Wanted(r)) /\ row[r] \in DOMAIN Job(r).rows /\ row[s] \in DOMAIN Job(s).rows
      /\ at[r] # "ended" /\ at[s] # "ended"
  <2>1. r \in Revocations /\ s \in C \ Sweeps
    BY CircleKinds
  <2>2. s \in Revocations
    BY <2>1, CircleKinds
  <2>3. at[r] # "ended" /\ at[s] # "ended"
    BY <2>1, WaitingIsRunning
  <2>4. QED
    BY <2>1, <2>2, <2>3, InCircle
<1>2. s # r
  BY DEF Waiting, WaitsOn
<1> HIDE DEF s
<1>3. ASSUME NEW q \in Revocations, q \in Requests, at[q] # "ended", row[q] > Job(q).first + 1
      PROVE  owner[Args[q].user] = q
  <2>1. Job(q) = Work[q][1] /\ Job(q).first \in Nat /\ Job(q).rows[Job(q).first + 1] = Args[q].user
    BY RevocationJob, RevocationInOrder
  <2>2. row[q] \in Nat
    BY <1>3 DEF PoolInv, Progress
  <2>3. Job(q).first + 1 \in 1 .. row[q] - 1 /\ ~(Job(q).first + 1 <= Job(q).first)
    BY <1>3, <2>1, <2>2
  <2>4. QED
    BY <1>3, <2>1, <2>3 DEF AdminsAreLocked
<1>4. SUFFICES ASSUME row[r] > Job(r).first + 1 PROVE FALSE
  <2>1. row[r] \in Nat /\ Job(r).first \in Nat
    BY <1>1, JobShape DEF PoolInv, Progress
  <2>2. QED
    BY <1>4, <2>1
<1>5. Wanted(r) \in Range(Args[r].keys) /\ Wanted(r) \in Keys
  <2>1. Job(r) = Work[r][1]
    BY <1>1, RevocationJob
  <2>2. QED
    BY <1>1, <1>4, <2>1, RevocationInOrder DEF Wanted
<1>6. PICK j \in DOMAIN Job(s).rows : j < row[s] /\ Job(s).rows[j] = Wanted(r)
  BY <1>1 DEF Passed
<1>7. /\ Job(s) = Work[s][1] /\ Job(s).first \in Nat /\ Job(s).rows \in Seq(Rows)
      /\ \A i \in 1 .. Job(s).first + 1 : Job(s).rows[i] \in Users
  BY <1>1, RevocationJob, RevocationInOrder
<1>8. j > Job(s).first + 1
  <2>1. j \notin 1 .. Job(s).first + 1
    BY <1>5, <1>6, <1>7, ArgsAssumption DEF ArgsAssumption
  <2>2. QED
    BY <1>7, <2>1
<1>9. Wanted(r) \in Range(Args[s].keys)
  <2>1. Job(s).rows[j] \in Range(Args[s].keys)
    BY <1>1, <1>6, <1>7, <1>8, RevocationInOrder
  <2>2. QED
    BY <1>6, <2>1, Zenon
<1>10. Args[r].user = Args[s].user
  BY <1>1, <1>5, <1>9, ArgsAssumption DEF ArgsAssumption
<1>11. row[s] > Job(s).first + 1
  <2>1. j \in Nat /\ row[s] \in Nat /\ Job(s).first + 1 \in Nat
    BY <1>1, <1>7 DEF PoolInv, Progress
  <2>2. QED
    BY <1>6, <1>8, <2>1
<1>12. QED
  BY <1>1, <1>2, <1>3, <1>4, <1>10, <1>11

\* Nor does anybody come to the update by id with others waiting behind: the user
\* was locked with the admins, unless a revocation of the same user has ended since,
\* and then it is at the keys that another one has this user locked.
LEMMA CirclesAreAtAdmins ==
  ASSUME RowsInv, NEW C \in SUBSET Waiting, Cycle(C), NEW s \in C \ Sweeps
  PROVE  row[s] <= Job(s).first
<1> USE DEF RowsInv
<1> DEFINE t == WaitsOn(s)
           u == Wanted(s)
<1>1. s \in Revocations /\ s \in Requests /\ s \in Waiting /\ t \in C \ Sweeps
  BY CircleKinds, InCircle
<1>2. t \in Requests
  BY <1>1, InCircle
<1>3. owner[u] = t /\ t # s /\ t # NULL
  BY <1>1 DEF Waiting, WaitsOn
<1>4. /\ Job(s) = Work[s][1] /\ Job(s).first \in Nat /\ Job(s).rows \in Seq(Rows)
      /\ \A j \in 1 .. Job(s).first : Job(s).rows[j] \in Users
      /\ Job(s).first > 0 => \E h \in 1 .. Job(s).first : Job(s).rows[h] = Job(s).rows[Job(s).first + 1]
  BY <1>1, RevocationJob, RevocationInOrder
<1>5. row[s] \in Nat \ {0}
  BY <1>1 DEF PoolInv, Progress
<1>6. SUFFICES ASSUME row[s] = Job(s).first + 1 PROVE FALSE
  BY <1>4, <1>5, <1>6, NobodyWantsKeys
<1>7. PICK p \in C : WaitsOn(p) = s
  BY <1>1 DEF Cycle
<1>8. PICK j \in DOMAIN Job(s).rows : j < row[s]
  BY <1>7, InCircle DEF Passed
<1>9. Job(s).first > 0
  BY <1>4, <1>5, <1>6, <1>8
<1>10. PICK h \in 1 .. Job(s).first : Job(s).rows[h] = u
  BY <1>4, <1>6, <1>9 DEF Wanted
<1>11. u \in Users \cap changed
  <2>1. at[s] # "ended"
    BY <1>1, WaitingIsRunning
  <2>2. h \in 1 .. row[s] - 1 /\ h <= Job(s).first + 1
    BY <1>4, <1>6
  <2>3. owner[u] = s \/ u \in changed
    BY <1>1, <1>10, <2>1, <2>2 DEF AdminsAreLocked
  <2>4. QED
    BY <1>3, <1>4, <1>10, <2>3
<1> HIDE DEF t, u
<1>12. row[t] > Job(t).first + 1
  BY <1>3, <1>11 DEF RevokedAreLockedById
<1>13. row[t] <= Job(t).first + 1
  BY <1>1, NobodyWantsKeys
<1>14. row[t] \in Nat /\ Job(t).first \in Nat
  BY <1>2, JobShape DEF PoolInv, Progress
<1>15. QED
  BY <1>12, <1>13, <1>14

\* What somebody in a circle has come to and gone past is in the order of the scan.
LEMMA CirclesAreInScans ==
  ASSUME RowsInv, NEW C \in SUBSET Waiting, Cycle(C), NEW r \in C
  PROVE  /\ row[r] \in DOMAIN Scan(r) /\ row[r] \in Nat
         /\ \A j \in DOMAIN Job(r).rows : j <= row[r] =>
              j \in 1 .. row[r] /\ Scan(r)[j] = Job(r).rows[j]
<1> USE DEF RowsInv
<1>1. /\ r \in Requests /\ row[r] \in DOMAIN Job(r).rows /\ row[r] \in Nat \ {0}
      /\ job[r] \in DOMAIN Work[r] /\ Job(r) = Work[r][job[r]] /\ Job(r).rows \in Seq(Rows)
  BY InCircle, JobShape DEF PoolInv, Progress
<1>2. CASE r \in Sweeps
  <2>1. Scan(r) = Job(r).rows
    BY <1>1, <1>2, SweepScans
  <2>2. QED
    BY <1>1, <2>1
<1>3. CASE r \notin Sweeps
  <2>1. r \in Revocations /\ row[r] <= Job(r).first
    BY <1>3, CircleKinds, CirclesAreAtAdmins
  <2>2. Scan(r) = Args[r].admins
    BY <1>3 DEF Scan
  <2>3. /\ Job(r).first \in Nat /\ DOMAIN Args[r].admins = 1 .. Job(r).first
        /\ \A i \in 1 .. Job(r).first : Job(r).rows[i] = Args[r].admins[i]
    BY <2>1, RevocationJob, RevocationInOrder
  <2>4. QED
    BY <1>1, <2>1, <2>2, <2>3
<1>4. QED
  BY <1>2, <1>3

\* Requests wait for each other in a circle only where the scans of sweeps, or
\* those of revocations, meet common rows in contradictory orders; two revocations
\* whose scans agree never do, those of the same admin included.
THEOREM CirclesHaveCause == PoolSpec => []CirclesAreOfScansAtOdds
<1>1. RowsInv => CirclesAreOfScansAtOdds
  <2> SUFFICES ASSUME RowsInv, NEW C \in SUBSET Waiting, Cycle(C),
                      \A D \in SUBSET C : Cycle(D) => D = C
               PROVE  (C \subseteq Sweeps \/ C \subseteq Revocations) /\ AtOdds(C)
    BY DEF CirclesAreOfScansAtOdds
  <2>1. C \subseteq Sweeps \/ C \subseteq Revocations
    <3> SUFFICES ASSUME ~(C \subseteq Sweeps) PROVE C \subseteq Revocations
      OBVIOUS
    <3> DEFINE D == C \ Sweeps
    <3>1. \A r \in D : WaitsOn(r) \in D
      BY CircleKinds
    <3>2. ASSUME NEW r \in D PROVE \E p \in D : WaitsOn(p) = r
      <4>1. PICK p \in C : WaitsOn(p) = r
        BY DEF Cycle
      <4>2. QED
        BY <4>1, CircleKinds
    <3>3. Cycle(D)
      BY <3>1, <3>2 DEF Cycle
    <3>4. D = C
      BY <3>3
    <3>5. QED
      BY <3>4, CircleKinds
  <2>2. AtOdds(C)
    <3> DEFINE X == {Wanted(r) : r \in C}
    <3>1. X \in SUBSET Rows /\ X # {}
      BY InCircle DEF Cycle
    <3>2. ASSUME NEW s \in C
          PROVE  \E x \in X, r \in C : \E j \in DOMAIN Scan(r) : \E i \in 1 .. j - 1 :
                   Scan(r)[i] = x /\ Scan(r)[j] = Wanted(s)
      <4>1. PICK r \in C : WaitsOn(r) = s
        BY DEF Cycle
      <4>2. PICK i \in DOMAIN Job(s).rows : i < row[s] /\ Job(s).rows[i] = Wanted(r)
        BY <4>1, InCircle DEF Passed
      <4>3. row[s] \in DOMAIN Job(s).rows /\ s \in Requests
        BY InCircle
      <4>4. Job(s).rows \in Seq(Rows)
        BY <4>3, JobShape DEF RowsInv
      <4>5. i \in Nat /\ row[s] \in Nat /\ i <= row[s] /\ row[s] <= row[s]
        BY <4>2, <4>3, <4>4
      <4>6. /\ row[s] \in DOMAIN Scan(s) /\ Scan(s)[row[s]] = Wanted(s)
            /\ i \in 1 .. row[s] /\ Scan(s)[i] = Wanted(r)
        BY <4>2, <4>3, <4>5, CirclesAreInScans DEF Wanted
      <4>7. i \in 1 .. row[s] - 1 /\ Wanted(r) \in X
        BY <4>2, <4>5, <4>6
      <4>8. QED
        BY <4>6, <4>7
    <3> HIDE DEF X
    <3>3. \A y \in X : \E x \in X, r \in C : \E j \in DOMAIN Scan(r) : \E i \in 1 .. j - 1 :
            Scan(r)[i] = x /\ Scan(r)[j] = y
      BY <3>2 DEF X
    <3>4. QED
      BY <3>1, <3>3 DEF AtOdds
  <2>3. QED
    BY <2>1, <2>2
<1>2. QED
  BY <1>1, RowsInit, RowsStep, PTL DEF PoolSpec
=============================================================================
