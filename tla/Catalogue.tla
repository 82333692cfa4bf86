----------------------------- MODULE Catalogue -----------------------------
(***************************************************************************)
(* Programmes, experiments and their versioned write-ups:                  *)
(* service/programmes.py, service/experiments.py and the search triggers.  *)
(*                                                                         *)
(* Creating an experiment is two statements that commit by themselves: the *)
(* upsert of its programme, then the INSERT.  Appending a write-up is one  *)
(* transaction that reads the highest version and inserts the next; the    *)
(* unique index on (experiment_id, version) is all that keeps two of them  *)
(* apart.  Nothing is ever deleted.                                        *)
(***************************************************************************)
EXTENDS Naturals, Sequences, FiniteSets

CONSTANTS Programmes,      \* slugs of programmes
          Slugs,           \* slugs of experiments; a generated one is unique
          Names,           \* display names clients may give
          Clients,         \* requests in progress at once, each with its key
          NULL,            \* no name given, no such programme
          Humanized,       \* _humanize_slug of any slug
          MaxExperiments,  \* bound
          MaxVersions,     \* bound: write-ups of one experiment
          MaxFaults        \* bound: requests that fail half-way

Ids == 1..MaxExperiments

ASSUME CatalogueAssumption ==
  /\ MaxExperiments \in Nat /\ MaxVersions \in Nat /\ MaxFaults \in Nat
  /\ NULL \notin Names \cup {Humanized}

VARIABLES
  programme,   \* name by slug
  experiment,  \* rows in order of creation: [programme, slug]
  writeup,     \* rows, committed: [experiment, version, author]
  search,      \* the write-up version in experiment.search, 0 for none
  \* Requests.
  step,        \* "idle", "create", "append" (version read), "inserted"
  new,         \* the experiment about to be created
  draft,       \* the write-up being appended
  indexed,     \* uncommitted: what the trigger wrote to search
  faults

table_vars == <<programme, experiment, writeup, search>>
request_vars == <<step, new, draft, indexed>>
vars == <<table_vars, request_vars, faults>>

NoExperiment == [programme |-> NULL, slug |-> NULL]
NoDraft == [experiment |-> 0, version |-> 0, author |-> NULL]

Init ==
  /\ programme = [p \in Programmes |-> NULL]
  /\ experiment = <<>> /\ writeup = {} /\ faults = 0
  /\ search = [e \in Ids |-> 0]
  /\ step = [c \in Clients |-> "idle"]
  /\ new = [c \in Clients |-> NoExperiment]
  /\ draft = [c \in Clients |-> NoDraft]
  /\ indexed = [c \in Clients |-> 0]

\* Definitions headed "Variant:" are the definition below them with a plausible
\* bug; no action uses them, mutation runs put them in its place.
-----------------------------------------------------------------------------
(* create_experiment. *)

Coalesce(a, b) == IF a = NULL THEN b ELSE a

\* Variant: slugs are unique across programmes.
SlugTakenAnywhere(row) == \E i \in DOMAIN experiment : experiment[i].slug = row.slug

\* UNIQUE (programme_id, slug)
SlugTaken(row) == \E i \in DOMAIN experiment : experiment[i] = row

\* Bound: experiments that exist or are being created.
Room == Len(experiment) + Cardinality({c \in Clients : step[c] = "create"}) < MaxExperiments

\* get_or_create_programme: an upsert that commits by itself.
CreateBegin(c, p, s, name) ==
  LET row == [programme |-> p, slug |-> s] IN
  /\ step[c] = "idle"
  /\ Room \/ SlugTaken(row)
  /\ programme' = [programme EXCEPT ![p] = Coalesce(Coalesce(name, Humanized), @)]
  /\ step' = [step EXCEPT ![c] = "create"]
  /\ new' = [new EXCEPT ![c] = row]
  /\ UNCHANGED <<experiment, writeup, search, draft, indexed, faults>>

CreateEnds(c) ==
  /\ step' = [step EXCEPT ![c] = "idle"]
  /\ new' = [new EXCEPT ![c] = NoExperiment]
  /\ UNCHANGED <<programme, writeup, draft, indexed>>

\* The INSERT; its trigger indexes title and hypothesis, and no write-up yet.
CreateInsert(c) ==
  /\ step[c] = "create" /\ ~SlugTaken(new[c])
  /\ Len(experiment) < MaxExperiments
  /\ experiment' = Append(experiment, new[c])
  /\ search' = [search EXCEPT ![Len(experiment) + 1] = 0]
  /\ CreateEnds(c)
  /\ UNCHANGED faults

\* A ConflictError; the programme stays as the upsert left it.
CreateConflict(c) ==
  /\ step[c] = "create" /\ SlugTaken(new[c])
  /\ CreateEnds(c)
  /\ UNCHANGED <<experiment, search, faults>>
-----------------------------------------------------------------------------
(* append_writeup. *)

Versions(e) == {r.version : r \in {q \in writeup : q.experiment = e}}

\* COALESCE(MAX(version), 0)
Latest(e) == CHOOSE v \in Versions(e) \cup {0} : \A u \in Versions(e) : u <= v

\* BEGIN, and the two SELECTs: an experiment of that slug, whichever comes
\* first, and the highest version committed.
AppendRead(c, e) ==
  /\ step[c] = "idle"
  /\ e \in DOMAIN experiment /\ Latest(e) < MaxVersions
  /\ step' = [step EXCEPT ![c] = "append"]
  /\ draft' = [draft EXCEPT ![c] =
       [experiment |-> e, version |-> Latest(e) + 1, author |-> c]]
  /\ UNCHANGED <<table_vars, new, indexed, faults>>

SameVersion(r, q) == r.experiment = q.experiment /\ r.version = q.version

\* Another transaction has inserted this version and not committed: the INSERT
\* waits for it.
VersionPending(c) ==
  \E d \in Clients \ {c} : step[d] = "inserted" /\ SameVersion(draft[d], draft[c])

\* Variant: without the unique index.
VersionNeverTaken(c) == FALSE

\* UNIQUE (experiment_id, version)
VersionTaken(c) == \E r \in writeup : SameVersion(r, draft[c])

\* Variant: the trigger fires before the INSERT and finds the version before.
IndexedBefore(c) == Latest(draft[c].experiment)

\* experiment_search_refresh, after the INSERT: the latest version, which
\* counts the row just inserted.
Indexed(c) ==
  IF Latest(draft[c].experiment) > draft[c].version
  THEN Latest(draft[c].experiment) ELSE draft[c].version

\* The trigger's UPDATE of the experiment waits for another append to it.
ExperimentLocked(c) ==
  \E d \in Clients \ {c} :
    step[d] = "inserted" /\ draft[d].experiment = draft[c].experiment

\* The INSERT and its trigger.
AppendInsert(c) ==
  /\ step[c] = "append"
  /\ ~VersionPending(c) /\ ~VersionTaken(c) /\ ~ExperimentLocked(c)
  /\ step' = [step EXCEPT ![c] = "inserted"]
  /\ indexed' = [indexed EXCEPT ![c] = Indexed(c)]
  /\ UNCHANGED <<table_vars, new, draft, faults>>

AppendEnds(c) ==
  /\ step' = [step EXCEPT ![c] = "idle"]
  /\ draft' = [draft EXCEPT ![c] = NoDraft]
  /\ indexed' = [indexed EXCEPT ![c] = 0]
  /\ UNCHANGED <<programme, experiment, new>>

\* Variant: the INSERT is an upsert, so the loser of a race overwrites.
AppendUpserts(c) ==
  /\ step[c] = "append" /\ ~VersionPending(c) /\ VersionTaken(c)
  /\ writeup' = {r \in writeup : ~SameVersion(r, draft[c])} \cup {draft[c]}
  /\ AppendEnds(c)
  /\ UNCHANGED <<search, faults>>

\* The unique violation, which no handler translates: a 500 and a rollback.
AppendRefused(c) ==
  /\ step[c] = "append" /\ ~VersionPending(c) /\ VersionTaken(c)
  /\ AppendEnds(c)
  /\ UNCHANGED <<writeup, search, faults>>

AppendCommit(c) ==
  /\ step[c] = "inserted"
  /\ writeup' = writeup \cup {draft[c]}
  /\ search' = [search EXCEPT ![draft[c].experiment] = indexed[c]]
  /\ AppendEnds(c)
  /\ UNCHANGED faults
-----------------------------------------------------------------------------
\* The database fails or the machine stops: a transaction is rolled back, the
\* upsert of a programme stays.
Fail(c) ==
  /\ step[c] # "idle" /\ faults < MaxFaults
  /\ faults' = faults + 1
  /\ step' = [step EXCEPT ![c] = "idle"]
  /\ new' = [new EXCEPT ![c] = NoExperiment]
  /\ draft' = [draft EXCEPT ![c] = NoDraft]
  /\ indexed' = [indexed EXCEPT ![c] = 0]
  /\ UNCHANGED table_vars

Request(c) ==
  \/ \E p \in Programmes, s \in Slugs, name \in Names \cup {NULL} :
       CreateBegin(c, p, s, name)
  \/ CreateInsert(c) \/ CreateConflict(c)
  \/ \E e \in Ids : AppendRead(c, e)
  \/ AppendInsert(c) \/ AppendRefused(c) \/ AppendCommit(c) \/ Fail(c)

Next == \E c \in Clients : Request(c)

Spec == Init /\ [][Next]_vars
-----------------------------------------------------------------------------
(* Properties. *)

Rows == [programme : Programmes, slug : Slugs]
Drafts(c) == [experiment : 1..Len(experiment), version : Nat \ {0}, author : {c}]

TypeOK ==
  /\ programme \in [Programmes -> Names \cup {Humanized, NULL}]
  /\ experiment \in Seq(Rows) /\ Len(experiment) <= MaxExperiments
  /\ \A r \in writeup : \E c \in Clients : r \in Drafts(c)
  /\ search \in [Ids -> Nat]
  /\ step \in [Clients -> {"idle", "create", "append", "inserted"}]
  /\ new \in [Clients -> Rows \cup {NoExperiment}]
  /\ draft \in [Clients -> [experiment : Nat, version : Nat, author : Clients \cup {NULL}]]
  /\ \A c \in Clients :
       /\ step[c] = "create" => new[c] \in Rows /\ programme[new[c].programme] # NULL
       /\ step[c] \in {"append", "inserted"} => draft[c] \in Drafts(c)
  /\ indexed \in [Clients -> Nat]
  /\ faults \in 0..MaxFaults

\* The inductive invariant behind the properties of write-ups.  A draft is at
\* most one version ahead of what is committed; one that has been inserted is
\* exactly that version, alone on its experiment, and indexed as such.
AppendsInv ==
  /\ \A e \in Ids : Versions(e) = 1..search[e]
  /\ \A r, q \in writeup : SameVersion(r, q) => r = q
  /\ \A c \in Clients : LET ahead == search[draft[c].experiment] + 1 IN
       /\ step[c] = "append" => draft[c].version <= ahead
       /\ step[c] = "inserted" => draft[c].version = ahead /\ indexed[c] = ahead
  /\ \A c, d \in Clients :
       step[c] = "inserted" /\ step[d] = "inserted" /\ c # d =>
         draft[c].experiment # draft[d].experiment

\* The versions of an experiment are 1, 2, 3 and so on, each used once, however
\* many appends read the same highest version and however many are refused.
VersionsInOrder ==
  \A r \in writeup :
    /\ \A q \in writeup : SameVersion(q, r) => q = r
    /\ r.version > 1 =>
         \E q \in writeup : q.experiment = r.experiment /\ q.version = r.version - 1

\* The write-ups of an experiment are in order, and every append under way will
\* keep them so (append_writeup and the unique index of writeup).
VersionsInv == TypeOK /\ AppendsInv /\ VersionsInOrder

\* The full-text index of an experiment shows its latest committed write-up:
\* triggers of overlapping appends never leave an older one behind.
SearchShowsLatest == \A e \in DOMAIN experiment : search[e] = Latest(e)

\* Without failures a programme never stays empty: what the upsert created has
\* an experiment, or is about to get one, also when the INSERT conflicts.
ProgrammesHaveExperiments ==
  faults = 0 => \A p \in Programmes : programme[p] # NULL =>
    \/ \E i \in DOMAIN experiment : experiment[i].programme = p
    \/ \E c \in Clients : step[c] = "create" /\ new[c].programme = p

\* A write-up, once committed, keeps its version and its author: an append only
\* ever adds the next entry to the experiment's log.
Entry(e, v) == CHOOSE r \in writeup : r.experiment = e /\ r.version = v
LogOf(e) == [v \in 1..Latest(e) |-> Entry(e, v).author]
Log == INSTANCE WriteupLog WITH Authors <- Clients, log <- [e \in Ids |-> LogOf(e)]
ImplementsLog == Log!Spec
=============================================================================
