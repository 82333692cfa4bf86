------------------------------- MODULE DbPool -------------------------------
(***************************************************************************)
(* The requests of one server process and the database connections they    *)
(* share (db.py).  A request is a sequence of jobs: a service function     *)
(* that asks get_pool for the pool, takes one of its MaxSize connections,  *)
(* runs one statement or one transaction and gives the connection back.    *)
(* The statements keep the row locks they take until their job ends, and   *)
(* wait, connection in hand, for rows that another request has locked.     *)
(* What the statements compute is in the other modules; here a job is the  *)
(* sequence of rows its statements lock, in the order in which they meet   *)
(* them.                                                                   *)
(***************************************************************************)
EXTENDS Naturals, FiniteSets, Sequences, Functions

CONSTANTS
  Claims, Sweeps, Updates, Revocations,  \* the requests, by what they ask for
  Runs, Users, Keys,  \* the rows of the tables run, app_user and api_key
  Args,          \* Args[r]: the rows that the statements of request r will meet
  MaxSize,       \* DB_POOL_MAX_SIZE
  MaxFailures,   \* a bound: how often the database cannot be reached
  NULL

Requests == Claims \cup Sweeps \cup Updates \cup Revocations
Rows == Runs \cup Users \cup Keys

ASSUME SizeAssumption ==
  MaxSize \in Nat \ {0} /\ MaxFailures \in Nat /\ NULL \notin Requests

\* What requests are about.  No statement has an ORDER BY for the rows it waits
\* for, and an update moves a row in its table: two requests may meet the same rows
\* in any two orders.  Yet a scan meets a row once, and a sweep's second update
\* none that the first requeued; an admin to revoke is one of the admins; and a
\* key is one user's.
ASSUME ArgsAssumption ==
  /\ Claims \cap (Sweeps \cup Updates \cup Revocations) = {}
  /\ Sweeps \cap (Updates \cup Revocations) = {} /\ Updates \cap Revocations = {}
  /\ Runs \cap (Users \cup Keys) = {}
  /\ Users \cap Keys = {}
  /\ \A r \in Claims : Args[r] \in Seq(Runs)
  /\ \A r \in Updates : Args[r] \in Rows
  /\ \A r \in Sweeps :
       /\ Args[r] \in [requeued : Seq(Runs), lost : Seq(Runs)]
       /\ IsInjective(Args[r].requeued \o Args[r].lost)
  /\ \A r \in Revocations :
       /\ Args[r] \in [user : Users, admins : Seq(Users), keys : Seq(Keys)]
       /\ IsInjective(Args[r].admins) /\ IsInjective(Args[r].keys)
       /\ Args[r].admins # <<>> => Args[r].user \in Range(Args[r].admins)
  /\ \A r, s \in Revocations :
       Range(Args[r].keys) \cap Range(Args[s].keys) # {} => Args[r].user = Args[s].user

VARIABLES
  pool,     \* _pool: 0 while it is None, else the number of the pool
  made,     \* the pools this process has created
  lock,     \* the request that holds _pool_lock, or NULL
  at,       \* what each request is doing
  job,      \* the job it is at
  row,      \* the row of that job it is about to lock
  conn,     \* the pool its connection is of, 0 while it has none
  owner,    \* the request whose open transaction has locked each row
  failures, \* how often the database could not be reached
  changed   \* the rows changed since in what the statements look for

vars == <<pool, made, lock, at, job, row, conn, owner, changed, failures>>

-----------------------------------------------------------------------------
(* The jobs of the handlers.  The query by which a route authenticates its *)
(* caller is one more read, ended before these begin; it is left out.      *)

\* Statements that change these rows, waiting for each in turn; one that first
\* locks others (FOR UPDATE); and one that passes over the rows that are locked
\* (FOR UPDATE SKIP LOCKED).
Update(rows) == [rows |-> rows, changes |-> Range(rows), first |-> 0, skip |-> FALSE]
LockFirst(locked, rows) ==
  [rows |-> locked \o rows, changes |-> Range(rows), first |-> Len(locked), skip |-> FALSE]
SkipLocked(rows) == [rows |-> rows, changes |-> Range(rows), first |-> 0, skip |-> TRUE]
Read == Update(<<>>)

\* claim_queue: one transaction, then a query of its own for a run claimed.
ClaimJobs(ready) == <<SkipLocked(ready), Read>>

\* sweep_expired_leases: the two updates of one transaction.
SweepJobs(requeued, lost) == <<Update(requeued \o lost)>>

\* Variant: the user to revoke is locked before the admins are counted.
RevokeTargetFirst(user, admins, keys) ==
  <<LockFirst(<<user>> \o admins, <<user>> \o keys)>>

\* revoke_user: the user is read, the admins are locked and counted, the user
\* and the user's keys are updated.
RevokeJobs(user, admins, keys) ==
  <<LockFirst(admins, <<user>> \o keys)>>

\* renew_lease, set_run_status, cancel_run...: one update and the read of what
\* it made. That of a user is set_user_token or clear_user_token, and no statement
\* looks for a user by the token.
UpdateJobs(updated) ==
  <<[Update(<<updated>>) EXCEPT !.changes = {updated} \ Users], Read>>

\* The jobs of a request, in order.
Work == [r \in Requests |->
  CASE r \in Claims -> ClaimJobs(Args[r])
    [] r \in Sweeps -> SweepJobs(Args[r].requeued, Args[r].lost)
    [] r \in Updates -> UpdateJobs(Args[r])
    [] r \in Revocations -> RevokeJobs(Args[r].user, Args[r].admins, Args[r].keys)]

-----------------------------------------------------------------------------
Active(r) == at[r] = "running"
Job(r) == Work[r][job[r]]
AtRow(r) == Active(r) /\ row[r] <= Len(Job(r).rows)
Wanted(r) == Job(r).rows[row[r]]

InUse(p) == {r \in Requests : conn[r] = p}

\* The request whose end r has to wait for, if any.
WaitsOn(r) ==
  IF AtRow(r) /\ ~Job(r).skip /\ owner[Wanted(r)] # r
    THEN owner[Wanted(r)] ELSE NULL

Waiting == {r \in Requests : WaitsOn(r) # NULL}

\* Requests each of which waits for another one of them.
Cycle(C) ==
  /\ C # {}
  /\ \A r \in C : WaitsOn(r) \in C
  /\ \A r \in C : \E s \in C : WaitsOn(s) = r

InitPool ==
  /\ pool = 0 /\ made = 0 /\ lock = NULL
  /\ at = [r \in Requests |-> "new"]
  /\ job = [r \in Requests |-> 1]
  /\ row = [r \in Requests |-> 1]
  /\ conn = [r \in Requests |-> 0]
  /\ owner = [x \in Rows |-> NULL] /\ changed = {} /\ failures = 0

\* get_pool finds no pool and queues for _pool_lock.
GetPool(r) ==
  /\ at[r] = "new" /\ pool = 0
  /\ at' = [at EXCEPT ![r] = "lock"]
  /\ UNCHANGED <<pool, made, lock, job, row, conn, owner, changed, failures>>

\* Variant: who waited for the lock makes a pool, made already or not.
NobodyMadeIt == TRUE

\* The second look at _pool, under the lock.
StillNone == pool = 0

\* _pool_lock is acquired: create_pool is called, or found to be needless.
TakePoolLock(r) ==
  /\ at[r] = "lock" /\ lock = NULL
  /\ IF StillNone
       THEN lock' = r /\ at' = [at EXCEPT ![r] = "making"]
       ELSE lock' = lock /\ at' = [at EXCEPT ![r] = "new"]
  /\ UNCHANGED <<pool, made, job, row, conn, owner, changed, failures>>

\* create_pool returns.
MakePool(r) ==
  /\ at[r] = "making"
  /\ made' = made + 1 /\ pool' = made'
  /\ lock' = NULL
  /\ at' = [at EXCEPT ![r] = "new"]
  /\ UNCHANGED <<job, row, conn, owner, changed, failures>>

\* get_pool has a pool to return, and acquire: any of those that ask may be
\* given a connection that is free.
Asks(r) == at[r] = "new" /\ pool # 0
Acquire(r) ==
  /\ Asks(r)
  /\ Cardinality(InUse(pool)) < MaxSize
  /\ conn' = [conn EXCEPT ![r] = pool]
  /\ at' = [at EXCEPT ![r] = "running"]
  /\ UNCHANGED <<pool, made, lock, job, row, owner, changed, failures>>

\* The row no longer matches the statement's conditions: a revoked user or key
\* never does, a run may. A user is also updated by id, revoked or not.
Changed(r) ==
  Wanted(r) \in changed /\ (Wanted(r) \in Users => row[r] <= Job(r).first)

\* The statement locks the row it has come to, if the row is free ...
LockRow(r) ==
  /\ AtRow(r)
  /\ owner[Wanted(r)] \in {NULL, r}
  /\ Changed(r) => Wanted(r) \in Runs
  /\ owner' = [owner EXCEPT ![Wanted(r)] = r]
  /\ row' = [row EXCEPT ![r] = @ + 1]
  /\ UNCHANGED <<pool, made, lock, at, job, conn, changed, failures>>

\* ... or passes over it: somebody has changed it, or it is locked and the
\* statement skips such rows.
PassRow(r) ==
  /\ AtRow(r)
  /\ \/ owner[Wanted(r)] = NULL /\ Changed(r)
     \/ owner[Wanted(r)] # NULL /\ Job(r).skip
  /\ row' = [row EXCEPT ![r] = @ + 1]
  /\ UNCHANGED <<pool, made, lock, at, job, conn, owner, changed, failures>>

\* The end of `async with pool.acquire() as conn, conn.transaction()', by a
\* commit or by an exception.
GivesBack(r) ==
  /\ conn' = [conn EXCEPT ![r] = 0]
  /\ owner' = [x \in Rows |-> IF owner[x] = r THEN NULL ELSE owner[x]]

EndJob(r) ==
  /\ Active(r) /\ ~AtRow(r)
  /\ GivesBack(r)
  /\ changed' = changed \cup {x \in Job(r).changes : owner[x] = r}
  /\ IF job[r] = Len(Work[r])
       THEN at' = [at EXCEPT ![r] = "ended"] /\ UNCHANGED <<job, row>>
       ELSE /\ at' = [at EXCEPT ![r] = "new"]
            /\ job' = [job EXCEPT ![r] = @ + 1]
            /\ row' = [row EXCEPT ![r] = 1]
  /\ UNCHANGED <<pool, made, lock, failures>>

\* Variant: the lock is not an `async with' block: an exception leaves it taken.
LeavesLock(r) == lock' = lock

\* An exception on the way out of get_pool releases _pool_lock.
LeaveLock(r) == lock' = IF lock = r THEN NULL ELSE lock

\* The exception reaches the route: the request is answered with an error.
Raise(r) ==
  /\ at' = [at EXCEPT ![r] = "ended"]
  /\ GivesBack(r)
  /\ LeaveLock(r)
  /\ UNCHANGED <<pool, made, job, row, changed>>

\* create_pool or a statement fails: the database cannot be reached.
DatabaseFails(r) ==
  /\ at[r] \in {"making", "running"}
  /\ failures < MaxFailures
  /\ Raise(r)
  /\ failures' = failures + 1

\* Postgres ends a deadlock by refusing the statement of one of those in it.
DeadlockDetected(r) ==
  /\ \E C \in SUBSET Waiting : Cycle(C) /\ r \in C
  /\ Raise(r)
  /\ UNCHANGED failures

Step(r) ==
  \/ GetPool(r) \/ TakePoolLock(r) \/ MakePool(r) \/ Acquire(r)
  \/ LockRow(r) \/ PassRow(r) \/ EndJob(r)
  \/ DatabaseFails(r) \/ DeadlockDetected(r)

NextPool == \E r \in Requests : Step(r)

\* The event loop never rests while there is a task it can resume, and that is
\* all: nothing is assumed of which one it is.
PoolSpec == InitPool /\ [][NextPool]_vars /\ WF_vars(NextPool)

-----------------------------------------------------------------------------
\* Shapes; a row is locked only by a request that has a connection, and
\* _pool_lock is held exactly while its holder makes the pool.
TypeOK ==
  /\ made \in Nat /\ pool \in 0 .. made
  /\ lock \in Requests \cup {NULL}
  /\ at \in [Requests -> {"new", "lock", "making", "running", "ended"}]
  /\ conn \in [Requests -> 0 .. made]
  /\ owner \in [Rows -> Requests \cup {NULL}]
  /\ changed \subseteq Rows /\ failures \in 0 .. MaxFailures
  /\ \A x \in Rows : owner[x] # NULL => conn[owner[x]] # 0
  /\ \A r \in Requests : lock = r <=> at[r] = "making"

\* However many requests race for the first connection, and whatever fails,
\* the process never has more than DB_POOL_MAX_SIZE connections at work:
\* nobody's pool replaces a pool that others are using (get_pool).
ConnectionsWithinLimit ==
  Cardinality({r \in Requests : conn[r] # 0}) <= MaxSize

\* A request that waits for the pool or for a connection holds neither a
\* connection nor a row lock, so an exhausted pool always drains (claim_queue
\* reads the claimed runs after its transaction, verify_artifact asks GitHub
\* between two jobs).
WaitersHoldNothing ==
  \A r \in Requests : at[r] \notin {"running", "ended"} =>
    /\ conn[r] = 0
    /\ \A x \in Rows : owner[x] # r

\* However many requests race, the connections in use stay within the pool's
\* size, and those that wait for one hold nothing others need (get_pool and the
\* acquire blocks of the services).
PoolIsSafe == TypeOK /\ ConnectionsWithinLimit /\ WaitersHoldNothing

\* The rows that sweeps and revocations meet with no order of their own: the runs
\* of a sweep's two updates, the admins of a revocation's FOR UPDATE.
Scan(r) ==
  IF r \in Sweeps THEN Args[r].requeued \o Args[r].lost ELSE Args[r].admins

\* No order of the rows is that of all these requests' scans: among some rows,
\* whichever is taken as the first, one of the scans meets another one earlier.
AtOdds(C) ==
  \E X \in SUBSET Rows : X # {} /\ \A y \in X : \E x \in X, r \in C :
    \E j \in DOMAIN Scan(r) : \E i \in 1 .. j - 1 : Scan(r)[i] = x /\ Scan(r)[j] = y

\* Requests wait for each other's rows in a (smallest) circle only if all of them
\* are sweeps or all are revocations, and their scans met common rows in orders that
\* contradict each other (sweep_expired_leases, where different max_attempts are
\* enough for that; the FOR UPDATE of revoke_user). All else a revocation locks adds
\* no circle: neither its return to the user by id, after others of that user have
\* locked the admins behind it, nor the user's keys, in whatever order it meets them.
CirclesAreOfScansAtOdds ==
  \A C \in SUBSET Waiting :
    Cycle(C) /\ (\A D \in SUBSET C : Cycle(D) => D = C) =>
      /\ C \subseteq Sweeps \/ C \subseteq Revocations
      /\ AtOdds(C)

\* Every request is answered: none waits for ever for the pool, for a
\* connection or for a row, even if the first attempt to create the pool fails
\* or requests deadlock.
EveryRequestEnds == <>(\A r \in Requests : at[r] = "ended")
=============================================================================
