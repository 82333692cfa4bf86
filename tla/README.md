# chuk-experiments-server in TLA+

Formal models of the experiment registry and run queue in this repository,
model-checked with TLC and proved with TLAPS. Every safety invariant, action
property and refinement that a run checks is also a theorem, for every value of
the constants; liveness is only model-checked. Every definition is a translation
of the Python and SQL in `src/`; `PROJECT.json` maps each definition to the lines
it stands for.

## The system

A Starlette/asyncio server over one PostgreSQL database, started by Fly.io on
demand and possibly on several machines at once. Clients are harness workers,
operators and agents (through the MCP tools, which forward to the REST routes),
the dashboard, and a scheduled sweep. All durable state is in PostgreSQL, plus
files on Google Drive and in R2. Handlers are coroutines: anything may run
between two `await`s, and each statement outside a `conn.transaction()` block
commits by itself.

| Component | State | Operations | Correct when |
|---|---|---|---|
| Run queue (`service/runs.py`) | `run`: status, claimed_by, lease_expires_at, claim_attempts, depends_on, priority | enqueue, PATCH, cancel, claim, heartbeat (lease), sweep, peek | no run is claimed twice at once; dependencies first; finished runs and live leases are not overwritten; every abandoned run is requeued or lost; attempts count lapses |
| Session packing (`_pack_runs_by_session_budget`) | loop variables | one pass over the candidates | the runs taken fit the session, and one is passed over only because it does not |
| Team and keys (`service/users.py`, `auth.py`, `cli.py`) | `app_user`, `api_key` | create and revoke members, mint and revoke keys, identity check, bootstrap on migrate | an admin remains; revocation is final; revoked members keep no keys |
| Artifacts, lineage, pins (`service/artifacts.py`, `rest/artifacts.py`, `drive_storage.py`) | `artifact`, `artifact_pin`, Drive files | upload (single, batch, raw), register (pointer, git, hf), lineage, pins, external refs | lineage names every run; files hold what rows say; used content has a producer |
| External references (`external_refs.py`, `verify_artifact`, `scripts/audit_artifacts_for_git_refs.py`) | `verify_status`, `verified_at`, `uri`, members' provider tokens | verify, set and clear tokens, audit | a verdict is about the reference the row now has and has a cause; the audit makes of an upload only a reference that held its content, or whose working copy did |
| Experiments and write-ups (`service/experiments.py`) | `experiment`, `writeup` | create, update, append write-up, search | versions are consecutive; the index shows the latest |
| Programmes (`service/programmes.py`) | `programme` | upsert | none stays empty |
| Results (`service/results.py`) | `result` | submit, supersede, compare | a corrected result never shows as current, and nothing else is hidden |
| MCP tools (`tools/`, `internal_client.py`) | none; calls in flight | one REST request per call, given up after 30 s | nothing is stored twice without a repeat; what was acknowledged stands |
| Dashboard session (`web.py`, `webauth.py`, `rest/users.py`) | signed cookies of a browser | login, callback, logout, team routes | nobody revoked is let in, whatever cookie they have; nobody mints beyond their role |
| Database pool (`db.py`) | pool, connections, row locks | lazy creation, acquire, release | one pool; waiting requests hold nothing others need; every request is answered |
| History import (`scripts/migrate_*.py`) | local sources, the registry | plan, post experiment, write-up, runs, results | reruns post nothing twice; gaps have a cause |
| Drive archive (`scripts/archive_*.py`) | manifest, Drive files | upload, note, link, last pass, --verify | every file is copied, once; directories are linked to the runs made of them |
| Migrations, R2 presigning, models, configuration, Markdown, dashboard JavaScript, check scripts | none of their own, or none that changes | computation, rendering | not modelled: see below and PROJECT.json |

How they interact: the claim calls the packing inside its transaction; every
route calls `auth` first and uses the identity after further awaits; artifacts
and results hang on runs or experiments; the sweep, the claim and the
single-statement operations meet in the row locks of `run`, two revocations in
those of `app_user`, two registrations in the unique indexes of `artifact`, two
appends in that of `writeup`. All requests of a process share one pool of ten
connections. Agents reach the routes through MCP tools that may give up while
the handler goes on. The scripts are clients of the same routes, except the
audit, which rewrites artifact rows in the database while verifications of them
may be under way.

The hard behaviours, each listed under `hazards` in PROJECT.json at its line:
transactions of several statements that overlap (claim, sweep, revocation);
READ COMMITTED re-evaluation of a WHERE after a lock wait; check-then-act across
awaits (key minting, upload deduplication, verification); replies lost after a
commit, calls given up and repeated, workers and scripts that die; two sweeps at
once; connections held over lock waits; off-by-one limits; NULL leases and
parents; names that are worked out anew from data that has grown.

## Modules

    SessionPacking      Pack: the packing as a recursive function
      PackingLoop       the loop itself; shown to compute Pack
    RunLifecycle        abstract: each queue operation atomic
    RunQueue            the queue with locks and transactions (EXTENDS
                        SessionPacking), refines RunLifecycle
      RunQueueProofs    theorems about RunQueue and PackingLoop
    TeamAccess          members, keys, revocation
      DashboardAccess   the browser, its cookies and the routes in front of it;
                        implements TeamAccess
        DashboardProofs theorems about both
    ArtifactStore       uploads, registration, lineage, pins
      ArtifactStoreProofs
                        theorems about ArtifactStore
    WriteupLog          abstract: the write-ups of an experiment are a log
    Catalogue           programmes, experiments, write-ups, search index;
                        refines WriteupLog
      CatalogueProofs   theorems about Catalogue
    ToolCalls           an agent's calls, given up and repeated
      Results           results, corrections and comparisons behind them
        AgentTools      all other tools that change the registry
          AgentToolsProofs
                        theorems about AgentTools
    ExternalRefs        verifications, providers, tokens
      RefAudit          the audit script beside them
        RefAuditProofs  theorems about both
    HistoryImport       the scripts that post earlier work
      DriveArchive      the scripts that archive its files, beside them
        DriveProofs     theorems about both
    DbPool              pool, connections and row locks of one process
      DbPoolProofs      theorems about DbPool
    MC*                 instances for TLC

Definitions headed "Variant:" repeat the definition they precede with one
plausible bug (a dropped guard, a limit off by one, a missing lock). No action
uses them; put in place of the original, each makes a property of some run fail,
which shows that the property depends on that line of the code.

A property that several sentences make up is a conjunction of named parts, each
with its own comment: `QueueInv`, `MembersOnly`, `VersionsInv`, `ContentIsTrue`,
`RepeatsHaveCause`, `AcknowledgedStands`, `VerdictIsJust`, `AuditIsSound`,
`ImportIsSound`, `ArchiveIsSound`, `PoolIsSafe`, `TakesWhatFits`. Each has the
type invariant of its module (or of the modules it composes) among its parts
where it is the first of its run.

### SessionPacking and PackingLoop

`PackedPrefix[n]` is what the loop has claimed and what remains after `n`
candidates, `Pack` the set it returns. PackingLoop has the loop's own variables
and one action per way through its body (`SkipCandidate`, `TakeCandidate`,
`FinishLoop`, the `break`). Run `packing_loop` checks every list of up to four
estimates (absent, negative, zero, one to three) against every session length,
so each comparison meets its boundary; it ends in a state with nothing to do, so
deadlock is not checked.

### RunQueue

State: the columns of `run` that the operations read or write (`status`,
`claimed_by`, `lease`, `claim_attempts`) as committed; `row_lock`, the
transaction that has the row locked; per worker the progress of a claim and the
runs it believes are its own (`holds`); per sweep the progress of its two
UPDATEs and their uncommitted rows. `lease` keeps of `lease_expires_at` what
matters: NULL, in the future ("live") or past ("expired"); `Lapse` is time
passing it. `claimed_at` follows `claimed_by` and is left out. Runs are numbered
in order of `created_at`. `MaxAttempts` is one constant of a model, where each
sweep of the command line may be given a limit of its own (`--max-attempts`).

| Code | Actions |
|---|---|
| `enqueue_run` | `EnqueueRun` |
| `update_run` | `UpdateRun` (operator), `FinishRun` (worker) |
| `cancel_run`, `renew_lease` | `CancelRun`, `RenewLease`, `RenewRefused` |
| `claim_queue` | `ClaimSelect` (SELECT ... FOR UPDATE SKIP LOCKED and the packing), `ClaimCommit`, `ClaimAbort`, `ClaimReply`, `ClaimReplyLost` |
| `sweep_expired_leases` | `SweepBegin`, `SweepRequeueRow`, `SweepNextStatement`, `SweepLoseRow`, `SweepCommit`, `SweepAbort`, `SweepDeadlockVictim` |
| a worker dying, time | `WorkerCrash`, `Lapse` |

Granularity. A single UPDATE that finds its row locked waits and then evaluates
its WHERE again on the row's new version (READ COMMITTED), so it is one action
that needs the row unlocked. The claim's SELECT never waits (SKIP LOCKED) and is
one action. Each sweep UPDATE takes a snapshot of matching rows and then goes
through them in any order, waiting for locks and testing again: one action per
row. `now()` is fixed when the sweep's transaction begins: `sweep_lapsed` holds
the leases older than that, and a renewal takes its run out.

What clients may write is a parameter (`EnqueueStatuses`, `PatchStatuses`,
`FinishStatuses`), because `RunCreate` and `RunUpdate` accept every status.
Several properties hold only for clients that keep to some statuses and say so.

RunLifecycle is the abstract specification: enqueue, claim of a set of ready
runs, renewal, sweep, cancel and PATCH, each in one step. `ImplementsLifecycle`
states that RunQueue refines it with the committed columns as they are.

### TeamAccess

`user` and `key_state` are committed; a revocation (`revoke_user`) goes through
`RevokeRead`, and for an admin `RevokeSnapshot` and one `LockAdmin` per row of
`SELECT ... FOR UPDATE`, then `RevokeUpdate`, `RevokeCascade` and
`RevokeCommit`, or is refused or rolled back. Minting is two steps, the identity
check (`MintAuthorized`) and the INSERT (`MintInsert`), because the route awaits
between them; its foreign key waits for rows locked FOR UPDATE. `raced` records
the keys inserted after the cascade of their owner's revocation. Roles do not
change (no route changes one), scopes and names are left out, and any route may
be called at any time: who may call it is the subject of DashboardAccess.

### DashboardAccess

One browser with several tabs in front of TeamAccess. `state_cookie` and
`session` are its two cookies, shared by the tabs: `LoginGoogle` overwrites the
state of an earlier tab, `Callback` compares it, `Enter` (the code exchange has
named a member) sets the session and deletes the state, whichever tab's it is by
then, `Rejected` is every other outcome of the exchange, `Logout` deletes the
session only, and `Tick` lets cookies expire. `Request` is
`require_dashboard_role` followed by the team routes: a live admin key makes the
caller nobody in particular with the admin role, otherwise the session's e-mail
must be an active member's (`SessionUser`). `Authorize` keeps what it hands on
(`Identities`) per call, and `Acts` calls an operation of TeamAccess under that
role and scope ceiling a step later, whatever has become of the caller since:
the code awaits in between, and a revocation may commit there. A member who asks
for a key is kept by TeamAccess instead (`AuthorizeMint`, then `MintInsert`). So a
revoked member may still act, in a call that was in progress when the revocation
committed (`overtaken`); `LateCallersWereLetIn` says that no other call does, and
`OnlyRacingKeysSurvive` says the like of keys. `Background` is the command line and
the transactions already under way. An admin key, however, mints keys that
belong to nobody, which no revocation of a member reaches: this is how the code
is (`rest/users.py`, `create_api_key` without an owner), and the properties
about owners say nothing of those keys.

A bound of the instance, `Overlapping`, keeps sign-ins and calls in progress
apart in time: who is signed in matters to a call only when it is let in, and
tabs that sign in meet each other without a call. The theorems hold for either
value. The signature of a cookie is taken to be good.

### ArtifactStore

`rows` is the artifact table in order of creation, `drive` the files. A request
looks its content up (`LookUp`), stores it (`Store`), inserts its row
(`Insert`) and, when a unique index objects, inserts it again as used
(`Retry`); a batch does so for each item. `Fail` stops a request anywhere and
leaves what it has done. `Refuse` is a request whose kind or meta no row can hold
(`Malformed`): upload-raw takes both as they come, and they are first checked when
the content has been stored, by the merge of meta and by `ArtifactCreate`; of the
other routes it is a meta that jsonb does not take. Its file stays. `Lineage` is
what its route answers: with an experiment among the users of a content nobody at
all, as a list of run ids cannot hold its NULL and the route raises. Decoding, size
limits, metadata, hash computation and the checks that refuse a request before
anything happens are left out, and so is everything about R2.

### Catalogue and WriteupLog

`programme`, `experiment`, `writeup` and `search` are committed; `search` keeps
of the tsvector which write-up version it was computed from. Creating an
experiment is `CreateBegin` (the upsert of `get_or_create_programme`, committed
by itself) and `CreateInsert` or `CreateConflict`. Appending a write-up is
`AppendRead` (BEGIN and the two SELECTs), `AppendInsert` (the INSERT and its
trigger, which wait for an open transaction with the same version or the same
experiment), `AppendCommit`, or `AppendRefused`, the unique violation that no
handler translates. `Fail` stops a request: a transaction is rolled back, the
upsert stays. A generated slug is an unused one of `Slugs`; an append finds its
experiment by slug alone and so may reach any. Titles, tags, status, design and
the text of write-ups are left out here; the columns `update_experiment` writes
are in AgentTools.

WriteupLog is the abstract specification: per experiment a sequence of authors
that only grows at its end. `ImplementsLog` maps each experiment to the authors
of its versions 1, 2, ... in order, so a gap, a number used twice or an
overwritten version would be a step WriteupLog does not have.

### ToolCalls, Results and AgentTools

ToolCalls is an agent that makes one MCP call at a time. `Send` forwards it as
one REST request; `GiveUp` is the 30 seconds of the loopback client running out
(or any `httpx.HTTPError`), after which the agent may call again while the
handler of the first request goes on; `AnswerOk` and `AnswerError` end a handler
and reach the agent if it still waits. `missed` counts, per intent, the calls
that ended in an error.

Results goes statement by statement: `InsertResult` commits the row, and
`MarkSuperseded` marks the result it corrects in a second call, so a handler may
fail in between; `Compare` is one row of `compare_runs`.

AgentTools has every other tool that changes the registry. Its handlers' own
interleavings are in the other modules, so each commit is one step here:
`InsertRow` (experiments with their unique slug, write-ups, runs),
`RegisterItem` (each artifact of a batch, as a producer or, when the content is
taken, as a user), `WriteColumns` (pins, statuses, conclusions: only the columns
the call gives), `ServeResults`, `Fail`, and `TimeOut` for `GiveUp`.
`RefuseParents` is the call that names no parent, or two: refused by the tool
itself. A batch may name a content twice: its second item then becomes a use of
what the first has stored, with no call repeated, and `RepeatsHaveCause` counts
it as a cause of its own. `ToolAssumption` says that no batch is empty, which the
request model refuses, and that `NULL` is none of the values it stands beside.

### ExternalRefs and RefAudit

`verify_artifact` in its steps: `VerifyBegin` reads the row, `ResolveToken` the
caller's provider token (a token that cannot be decrypted since
TOKEN_ENCRYPTION_KEY changed, `RotateKey`, fails the request), `Ask` gets the
provider's `Verdict` or none (`VerifyFails`), `Write` stores it by id. `Publish`
is somebody pushing or deleting at GitHub or on the Hub. A reference is as large
as what the provider has of it; `was` remembers all sizes it has had, so "had a
cause" can be said of a verdict that is no longer true.

The audit goes through `HashRepositories` (the local clones of repositories whose
HEAD is pushed: what is hashed is the working copy, not the commit), `ReadRows` (rows that are not references, with their matches by
content), `AskHub` for the names that match a Hub repository, `Choose` (the ids
the operator applies) and one `Apply` per row, and may end anywhere
(`AuditEnds`). `Edit` is somebody changing tracked files of a clone without a
commit, or taking that back; `EditMatch` says which contents an edited clone has,
`HashMatch` which the commit has. So an audit may make of an upload a reference to a
commit that never had its content, and `AuditIsSound` says that this needs a clone
that was hashed with edits. Nothing is locked in between. Two verifications and one audit run
at once; two audits do not (it is a script run by hand). A provider's answer of
nothing and a file of no bytes are one in `size`.

### HistoryImport and DriveArchive

A source is a sequence of items that may grow, at the end or before others; that
items are taken away or changed is not modelled.
Each of the four scripts turns it into a plan (`ChrisPlan` with its numbered
slugs, `MlxPlan`, `LazarusPlan`, `LarqlPlan`), one entry per item or one per
group (`Listed`, `Grouped`: recursive functions), and posts it request by request:
`PostExperiment` (409 skips the entry with all it has), `PostWriteup`,
`PostRun`, `PostResult`; the answers of the later posts are printed, not acted
on. A request may fail and a script may die (`ImportDies`) and is run again from
the start. What headings, tags and verdicts say is not modelled.

A directory of mlx may slugify to the same name as another: the second is then
never posted (`SameRun` says which items one experiment stands for). `Name` lists
the slugs `build_slug` may try for a base; the model's assumption that they suffice
for the source stands for base-2, base-3, ... never ending (`ImportAssumption`).

The archive scripts walk the same source: `NextDir`, `Upload` of each file the
manifest does not know, `Record` in the manifest after each, `Link` (the
historical run of each slug of the directory, unless it is linked),
`CatchAll` for the files in no directory of INDEX.md, and `Verify` of the
manifest against the disk. A death between `Upload` and its `Record` uploads the
file again; a death while the manifest is written tears it, and it is then given
up (`DropManifest`). Imports and archives do not run at the same moment.

### DbPool

The requests of one process. A request is a sequence of jobs, a job one service
function's `async with pool.acquire()`: the rows its statements lock, in the
order it meets them (`ClaimJobs`, `SweepJobs`, `RevokeJobs`, `UpdateJobs`), which
`Work` gives each request from the rows it will find (`Args`). Two requests may
meet the same rows in any two orders: no statement that waits for rows has an ORDER
BY, and an update moves a row in its table. `ArgsAssumption` says only that a scan
meets no row twice, that an admin to revoke is one of the admins, and that a key is
one user's.
`GetPool`, `TakePoolLock`, `MakePool`, `LeaveLock` are the lazy creation under
the asyncio lock; `Acquire` waits for a free connection; `LockRow` waits for a
row with the connection in hand, `PassRow` passes it over (SKIP LOCKED);
`EndJob` gives both back. A row that a committed transaction has `changed` may no
longer match the statement that has come to it and is then passed over: a run may
or may not, a revoked user or key never does (`Changed`). So the `SELECT ... FOR
UPDATE` of a second revocation of one admin leaves that admin unlocked, and its
UPDATE by id comes back to the row, behind its scan. `DatabaseFails`
raises out of any of these, and `DeadlockDetected` picks a victim among requests
that wait in a circle. Which circles there can be is `CirclesAreOfScansAtOdds`: of sweeps
only or of revocations only, and only if their scans met common rows in orders that
no one order of the rows agrees with (`AtOdds`). The query that authenticates each request, one more job without locks, is left out,
and so is `close_pool`, which only the command line calls. What the statements
compute is in the other modules.

## Runs

| Run | Bounds | Shows |
|---|---|---|
| packing_loop | lists of up to 4 estimates, all sessions 0..3 | the loop stays within the session, passes over only what it must, and computes `Pack` |
| queue_safety | 2 runs in a dependency chain, 2 workers, 1 sweep, MaxAttempts 2, one fault | transactions own their rows, no double claim, duplicates only after a requeue, dependencies first, leases present, finished stays finished, live leases safe |
| queue_two_sweeps | 2 runs, 1 worker, 2 sweeps, MaxAttempts 3 | overlapping sweeps count each lapse once and give no run up early; refinement of RunLifecycle |
| queue_liveness | 1 run, 2 workers (one with too short a session), 2 sweeps, requeueing operator | abandoned runs are recovered, sweeps end |
| team_access | 2 admins, 1 member, 2 admin keys, 2 revocations, 2 tabs, 1 call between check and act, one tick of time | an admin remains, revocation is final, only racing keys survive, only members are let in and act within their role, who acts after being revoked was let in before, sign-ins are refused only for a cause |
| artifact_store | 2 requests, 2 runs, 1 experiment, 3 rows, one failure, one refusal | lineage names each run unless an experiment uses the content, used content has a producer, each failed or refused request orphans one file at most |
| catalogue | 3 requests, 2 programmes, 2 slugs, 2 experiments, 2 versions, one failure | consecutive versions, current search index, no empty programmes, refinement of WriteupLog |
| agent_tools | 21 calls of 15 tools in 4 plans, 2 requests at once, 4 sent, 2 missed | nothing is stored twice without a repeat, acknowledged writes are complete and stand, corrections hide exactly what they correct |
| ref_audit | 2 uploads, 3 references, 1 clone, 2 verifications and an audit, 2 lookups, one change or edit | verdicts are about the URI the row has and have a cause, older verdicts replace newer ones only where two overlapped, the audit rewrites only to what held the content, or whose edited clone did |
| history | 4 sources of 2 or 3 items, one file in a directory each and one loose, 2 faults | nothing posted twice, gaps and second copies have a cause, passes and --verify leave no file behind, links lead to the right run |
| db_pool | 6 requests (2 sweeps, 3 revocations, 2 of them of one admin, a claim), scans in both orders, 2 connections, 5 rows, one failure | one pool, waiters hold nothing, circles are of sweeps or of revocations whose scans are at odds, every request is answered |

Why the bounds are enough: every conflict in the code is between two
transactions over one row (double claim, sweep against heartbeat, two sweeps,
two revocations, two uploads, two appends), and the deadlocks need two rows; two
of each actor and two rows make all of them happen. MaxAttempts 2 and 3 reach
both sides of both limits. `MaxFaults` bounds crashes, rollbacks and lost replies
together; one is enough for every property here to fail if recovery did, and
without a bound a run could crash for ever. `MaxRows` bounds the artifact table;
three rows hold a producer, a user and a raced or batched third. One refusal
(`MaxRefusals`) meets one failure. With three
requests and two versions per experiment (`MaxVersions`), Catalogue has an append
that is still behind after another has overtaken it and a third has read the new
version. Four requests (`MaxSent`) of which two are given up (`MaxMissed`) let an
agent repeat a call, see the late handler of the first overtake the second, and
go on to another. `MaxLookups` 2 with `MaxChanges` 1 gives two verifications
that see different content. Two faults let an import or archive die, be rerun
and die again. In db_pool the six requests outnumber the two connections, so
each combination of holders meets each combination of waiters; like sweeps and
revocations of one admin are among them, each pair in both orders. Single updates
(`Updates`) do nothing there that the others do not, as they wait with no row in
hand: only the safety theorems cover them. Cookies live one
tick at most (`StateLife`, `SessionLife`, `MaxTime`): what matters is whether
they expire before or after the step that reads them. The statuses clients write
are bounded in the queue runs; the theorems below hold for all of them.

The largest runs are ref_audit (7.1 million states), team_access (3.3 million),
history (1.0 million), agent_tools and db_pool (0.5 million each, db_pool with
liveness). Processes that an instance treats alike are symmetric; liveness is
checked without symmetry. Deadlock is not checked in packing_loop, agent_tools
and db_pool, where the loop ends, the agent has done what it set out to do or
has used up its calls, and every request has been answered.

One run shows where a document and the code disagree:

| Run | Sentence | What the code does |
|---|---|---|
| revoke_race | a removed collaborator leaves no live credentials (`service/users.py:63`) | a key request that overlaps the revocation does |

More disagreements need no run to see:

* a run is requeued DEFAULT_MAX_CLAIM_ATTEMPTS - 1 times before it is lost, not
  that many times (`constants.py:140` against `service/runs.py:319`);
* cancellation's guard is not "bypassable via the generic status-setting PATCH"
  (`rest/runs.py:195`), yet PATCH sets any status (`service/runs.py:103`);
* content is "stored exactly once" (`README.md:48`), but two uploads that
  overlap both store it (`rest/artifacts.py:101`; `LineageNamesEveryRun` and
  `OrphansHaveCause` say what does hold);
* a programme's display name is "used only the first time" (`models.py:131`),
  but every experiment created overwrites it (`service/programmes.py:27`);
* slugs are unique per programme but looked up alone
  (`service/experiments.py:132`): with two experiments of one slug, reads and
  updates reach an arbitrary one or both;
* one pin on an artifact of an experiment makes `GET /v1/pins` fail, since a
  `PinSummary` must name a run (`service/artifacts.py:377`); `git+` and `hf://`
  artifacts of experiments are missing from the list of external references, an
  inner join with `run` (`service/artifacts.py:270`, against `README.md:76`); and
  a lineage that an experiment uses cannot be answered, its run ids being strings
  (`service/artifacts.py:333-334` and `models.py:298`, against
  `tools/artifacts.py:65`): `LineageNamesEveryRun` excepts exactly these;
* the audit's candidates are "verified byte-for-byte, safe to apply"
  (`scripts/audit_artifacts_for_git_refs.py:271`, and its lines 3-4) "at their
  pushed HEAD", but its line 190 hashes the files of the working copy: with an edit
  that is not committed, an upload of the edited file is made a reference to a
  commit without it (`AuditIsSound` excepts such clones and no others);
* a kind or meta that no row can hold is refused only after its content is on
  Drive (`rest/artifacts.py:118` before its lines 120-127), and the file stays;
* candidates of the audit are "verified by content, not just name", but one
  without a known size is matched by name alone
  (`scripts/audit_artifacts_for_git_refs.py:9-16` against its lines 121-143); in
  the ref_audit run sizes are known;
* an import is "safe to rerun" (`scripts/_migrate_common.py:31`), but a rerun
  never completes an experiment whose posts failed half-way, never adds items to
  a group that exists (lazarus, larql), and records two larql artifacts of one
  test and model as one run;
* the archive "never re-uploads what's already done"
  (`scripts/_drive_common.py:128-132`), but a file whose upload was not yet noted
  is uploaded again, and one that has changed since never is;
* selection for upload and verification "can never silently disagree"
  (`scripts/_drive_common.py:57`), but `archive_chuk_mlx_to_drive.py` verifies
  the whole tree while it uploads only its subdirectories, and so never passes
  with a file beside them; it also registers its artifact again on every run.

Two consequences of the code that are documented or intended: `migrate` makes a
revoked bootstrap key live again (`auth.py:171`), and a poll that overlaps
another may find the queue empty (SKIP LOCKED, `service/runs.py:247`).

### Fairness

`queue_liveness` assumes, in `Fairness`: the server finishes a claim's
transaction and sends the reply (WF; a failure is a fault, and faults are
bounded); the sweep is started again and again (WF; the scheduled
`chuk-experiments-server sweep` or `POST /v1/queue/sweep`) and carries on from
statement to statement; PostgreSQL detects deadlocks (WF); time passes for a run
nobody holds (WF). Row locks need SF: a worker whose session is too short locks
the run, takes nothing and gives it back, again and again, so the sweep's turn is
enabled infinitely often but not always; PostgreSQL queues lock waiters, so a
waiting sweep gets the row. With WF alone TLC shows `SweepsEnd` violated by
exactly this worker. Nothing is assumed about workers: they may never call
again.

`db_pool` assumes WF of the whole next-state relation: the event loop does not
rest while some task can be resumed. Which task is resumed is left open, so
`EveryRequestEnds` says that no schedule leaves a request waiting for ever.

## Proofs

`RunQueueProofs`, from `QueueAssumption` only (numbers are natural, MaxAttempts
positive, finitely many workers, distinct identities, statuses among the
table's), for any number of runs, workers, sweeps and any requests:

* `StepsAreSafe` (`QueueInv`), from `TypeCorrect`, by one step per action
  (`TypeStep`), and `TransactionsOwnTheirRows`: the inductive invariant `TypeOK /\
  TransactionsInv`. A claim that has selected holds the lock of each run it will
  overwrite, and it is still queued; a sweep holds the lock of each row it has
  updated, and the row still satisfies its WHERE; transactions at rest keep
  nothing. Without it no property of a commit follows, as the UPDATE by id does
  not look at the row again: the proof is where the row locks are used. One
  lemma per kind of action; all single-statement operations share
  `SetStatusKeepsTransactions`.
* `ClaimsAreDisjoint` follows from it: two claims cannot both own a row.
* `AttemptsCountLapses`, `FinishedIsFinal`, `LiveLeasesAreSafe`: action
  properties, from one case distinction over what a step may do to a row
  (`RowEffects`) under the invariant.
* `LostIsExhausted`, `LeasedHasLease`, `DependenciesComeFirst`: invariants
  carried by `RowEffects` and the history variable.
* `DuplicatesNeedRequeues`: the cardinality of the claimants of a run is bounded
  by its requeues, by counting over `FiniteSetTheorems`.
* `QueueImplementsLifecycle`: each step of RunQueue is a step of RunLifecycle or
  leaves its variables alone.

and, from `PackingAssumption` only, for lists of any length and any estimates and
sessions:

* `BatchesRespectSession` (`TakesWhatFits`): `LoopInv` says that what is left is
  the session less what the taken runs ask for (`Spent`, a recursive function),
  and that it has not run out unless the session had no seconds at first.
* `LoopsComputePack`: after each candidate the loop's variables are
  `PackedPrefix` at that candidate, and from where the recursion is exhausted it
  stays what it is (`FollowsPrefix`).

`DashboardProofs` on TeamAccess, from `TeamAssumption` only, for any number of
members, keys and revocations:

* `TypeCorrect`; `CountedAdminsAreLocked`, the inductive invariant: what a
  revocation has counted is locked by it and active, and past its check one of
  the counted is not its target.
* `AnAdminRemains`: at a commit, that other admin is still active.
* `RevocationsAreFinal`, from the type invariant.
* `SurvivorsRaced`: the strengthening `KeysInv` adds that unborn keys have no
  owner and that what a cascade missed is in `raced`.

and on DashboardAccess, from `DashboardAssumption` too, for any number of tabs and
any lifetime of the cookies:

* `DashboardImplementsTeam`: every step of the browser and the routes is a step
  of TeamAccess or leaves its variables alone, given that sessions name users
  (`SessionOK`). All theorems about TeamAccess hold behind the dashboard;
  `AdminRemainsBehindDashboard` states the first.
* `LateCallersHadBeenLetIn`: only the commit of a revocation makes a member
  revoked (`OnlyCommitRevokes`), and it puts every call of theirs in progress into
  `overtaken`; a call that is let in later is an active member's or nobody's
  (`LateStep`, one step per action). `SessionsNameMembers`, because nobody who has been a
  member is a stranger again (`MembersStay`); `AdminKeysBelongToAdmins`, because
  the owner a key is minted for is the caller whose role was looked at.
* `OnlyMembersAct`: all of these, with the types, make `MembersOnly`.
* `RefusalsHaveCause`: `RefusalInv` says that the state cookie names a tab that
  signs in and that no other one has crossed, until that tab's time is over.

`CatalogueProofs`, from `CatalogueAssumption` only, for any number of requests,
programmes, experiments and versions:

* `TypeCorrect` and `DraftsAreNext`: the inductive invariant `TypeOK /\
  AppendsInv`. The committed versions of an experiment are 1 up to the one in
  its search index; a draft is at most one ahead of that, and an inserted one
  exactly one ahead, so no two appends to an experiment are ever both inserted.
  The unique index and the wait for an open insert are what it needs.
* `VersionsAreInOrder` and `SearchIsCurrent` follow from it; `VersionsHold` is
  `VersionsInv`, the invariant with the former.
* `NoEmptyProgrammes`: one step per action, from the type invariant.
* `WriteupsAreALog`: `AppendCommit` maps to `AppendEntry` (`CommitAppends`), every
  other step to a stutter (`LogUnchanged`).

`ArtifactStoreProofs`, from `StoreAssumption` only (batches are sequences, roles
are what the API accepts, NULL names no parent), for any number of requests, uploads and
failures. The inductive invariant is `StoreInv`: rows are well formed and only
ever added; a row that names a Drive file never names one that is not there yet;
a named content has at most one producing row (`OneProducer`); a request that is
about to insert keeps these for its row; each file has a row or such a request.

* `LineageStaysComplete`, for which `OneProducer` is needed: with two producers
  the answer would name the older and drop the other. Where an experiment's row
  is among the users the route answers nobody, and the property excepts it. The unique indexes and the
  second INSERT as "used" give it, as a row is only inserted once nothing with
  its content is in its way.
* `ContentStaysTrue`: used content has a producer, and a reused file holds it.
  Its hypothesis `ForeignPointers` says that no client registers the URI of the
  server's own Drive files as a pointer: the code does not look, so such a client
  could name any file as anything.
* `FilesStayOwned` (`OrphansHaveCause`): the orphans are a finite set that grows
  only when a request breaks off, by the file of the row it was about to insert
  (`OrphansCounted`), so they are at most as many as the requests that failed or
  were refused.

`AgentToolsProofs`, from `CallAssumption`, `ResultAssumption` (a submission names a
run and a metric) and, for the last two, `ToolAssumption`, for any agent, any
number of requests in flight, calls given up and repeated. The invariant
`ResultsInv` says that requests to the result tools name results, that every
correction that was not misdirected points forward in its group, and that
acknowledged corrections are marked; `AgentInv` adds what the handlers in flight
have stored so far (`Flown`) and the count of rows.

* `NewestStaysCurrent`: the greatest of a group has nothing after it to point
  to, so it is not marked and is what a comparison answers (the maximum of a set
  exists by well-foundedness, `MaxIsGreatest`).
* `CorrectionsHold`: marks are never taken back, as no statement writes NULL.
* `RepeatsAreCause`: the rows stored for an intent and those its requests in flight
  may still store are, together, at most its items times the calls made for it
  (`OnceInv`). The second number is the cardinality of a set of pairs `<<request,
  n>>`, which a step changes at one request only (`OnceAt`). Content is used only
  if it was produced, and by its own producer only after a repeat or where a batch
  names it twice.
* `AcknowledgedHolds`: what a call still to be answered has stored, with what it
  has yet to store, is all it was asked for; and a column differs from what was
  acknowledged last only if a call for what is in it was given up (`ColumnsInv`).

`RefAuditProofs`, from `RefsAssumption` and `AuditAssumption`, for any number of
verifications, artifacts, lookups and changes at the providers, with the audit
beside them. The invariant `AuditInv` says that a verification in progress is
about the URI the row still has, because the audit rewrites uploads only and no
verification begins on one; that what a provider has is in its history, which only
grows; and that candidates suit the artifacts they were found for.

* `VerdictsStayJust`: a verdict is about the URI of its row, and was once true of it.
* `OldVerdictsOverlapped`: who is alone with an artifact has asked last.
* `AuditStaysSound`: what the audit wrote held the content, or is a commit whose
  clone was hashed with edits, for clones edited at any time; and it was found by
  name only where nothing was found by content.

`DriveProofs`, from `ImportAssumption` (at most as many items as slugs are tried;
items are told apart by their ids; the runs of chris and mlx are all
"historical") and `ArchiveAssumption` (every file has a place), for any number of
items, files and failures:

* `ImportsAreSound` (`ImportIsSound`) from `ImportInv`. Between its posts a script
  knows what it has made (`JobFollows`); what was posted without a failure is there
  up to the item it is at (`WholeSoFar`), and in full once the script has left the
  experiment (`LeftWhole`); each run was made from an item of its experiment
  (`RunsAreMade`), and what was claimed is in the experiment that was made or found
  (`ClaimsHold`). The plans are recursive functions, shown to be what their
  recursion says (`ListedSteps`, `GroupedSteps`, `ByTimeSteps`) before anything is said of them. A
  fresh slug exists by the pigeonhole principle (`SlugIsFresh`).
* `ArchivesAreSound`, `CopiesAreCaused`, `LinksAreRight` (`ArchiveIsSound`,
  `CopiesHaveCause`, `LinkedToItsRun`) from `DriveInv`. What is noted has a copy
  (`KnownCopies`); what was there when a pass began is noted or still to come
  (`PassCovers`); and copies are counted against the deaths between an upload and
  its note and the manifests given up, one less where nothing is noted
  (`CopiesAreCounted`). That a link leads to the right run needs that the slugs of
  INDEX.md stay what they were when entries are added at its end (`SlugsStay`):
  `build_slug` looks only at the entries before, an induction over the plan.

`DbPoolProofs`, from `SizeAssumption` and `ArgsAssumption`, for any number of
requests of the modelled kinds, whatever rows they meet, and any size:

* `PoolStaysSafe` (`PoolIsSafe`) from `PoolInv`: the pool is made once, under the
  lock, by whoever holds it; connections and row locks belong to running requests
  of that pool, so a request that waits to become one has neither; and the running
  ones are finitely many and at most `MaxSize`, counted with `FiniteSetTheorems`.
* `CirclesHaveCause` (`CirclesAreOfScansAtOdds`) from `RowsInv`: what a request has
  locked its statements have gone past, and the admins a revocation has gone past
  are locked by it or revoked, its own user too once it has updated it
  (`AdminsAreLocked`). Of requests that wait in a circle, claims wait for nobody,
  single updates hold nothing, and sweeps and revocations have no row in common
  (`CircleKinds`). Nobody in a circle waits for a key, as whoever holds one has
  locked the user it belongs to (`NobodyWantsKeys`); nor for the user it revokes by
  id, as its scan has locked every admin it could be waited for
  (`CirclesAreAtAdmins`). So each waits in its scan for a row that the next one's
  scan has gone past: the rows they wait for are the set that no order can begin
  (`CirclesAreInScans`).

Induction. The library's induction theorems are out of reach here, so where a proof
goes by induction over a sequence, a plan or the rounds of a loop it is over a set:
a number is the least one outside of it (`NatLessThanWellFounded`), which the step
refutes (`UpTo`, `LeastExists`).

Each inductive invariant was first checked by TLC on the instance of the run of
its component.

Only model-checked: liveness (`AbandonedRunsAreRecovered`, `SweepsEnd`,
`EveryRequestEnds`), which TLAPS does not reach, and the finding below the runs.
Every other property of a run is a theorem.

## Not modelled, and planned

Left out for good: R2 presigning, models and configuration, rendering, the
dashboard's JavaScript and the check scripts (`verify_harness_contract.py` is one
sequential client of the queue, `smoke_test.py` only reads), which keep no state
of their own or only compute; the ranking and snippets of search; the encryption
of tokens, a library call; artifact metadata and download redirects. Two tabs
that mint or revoke through the dashboard at once are two requests of TeamAccess,
one call at a time between check and act in the instance (`Calls`), any number in
the theorems.

In this order, for the rest:

1. Abstract specifications of Results and DriveArchive, and that these implement
   them: the result table as the log of what agents report, the archive as a set
   of copies that only grows.
2. `Migrations`: repeated application of the files over each schema they leave.
3. `close_pool` in DbPool, if a server ever calls it.
