--------------------------- MODULE ArtifactStore ---------------------------
(***************************************************************************)
(* Artifact rows, the Google Drive files behind them, and pins:            *)
(* rest/artifacts.py and service/artifacts.py.                             *)
(*                                                                         *)
(* An upload looks the content up, stores it if it found nothing, and then *)
(* registers a row; several requests do this at once, in any order.  Drive *)
(* calls block the server's event loop, but the lookup before and the      *)
(* INSERT after them are awaited, so two requests interleave statement by  *)
(* statement.  Rows are never changed in these columns, nor deleted.       *)
(***************************************************************************)
EXTENDS Naturals, Sequences, FiniteSetsExt

CONSTANTS Requests,      \* HTTP requests in progress at once
          Runs,          \* ids of existing runs
          Experiments,   \* experiments artifacts are attached to directly
          Batches,       \* upload bodies: sequences of [name, sha, role]
          Pointers,      \* register bodies: [name, sha, uri, role]
          PinNames,
          Malformed,     \* uploads whose kind or meta no row can hold
          NULL,          \* no name, no hash, no role given, no parent run
          MaxRows,       \* bound: artifact rows altogether
          MaxFaults,     \* bound: requests that fail half-way
          MaxRefusals    \* bound: requests with a malformed upload

ASSUME StoreAssumption ==
  /\ MaxRows \in Nat /\ MaxFaults \in Nat /\ MaxRefusals \in Nat
  /\ NULL \notin Runs \cup Experiments
  /\ Batches \subseteq Seq(UNION {{b[n] : n \in DOMAIN b} : b \in Batches})
  /\ \A b \in Batches : b # <<>> /\ \A n \in DOMAIN b : b[n].role \in {NULL, "produced", "used"}
  /\ \A p \in Pointers : p.role \in {"produced", "used"}   \* default "produced"
  /\ Malformed \cap Pointers = {}   \* register bodies are validated as they come in

VARIABLES
  rows,    \* the artifact table, in order of created_at
  drive,   \* the files on Google Drive: what each holds
  pins,    \* artifact_pin: name -> index of a row, 0 for none
  \* Requests.
  step,    \* "idle", "lookup", "store", "insert" or "retry"
  parent,  \* the run or experiment in the path
  items,   \* uploads not registered yet, the current one first
  row,     \* the row about to be inserted
  \* Counts of requests that did not answer.
  faults, refusals

request_vars == <<step, parent, items, row>>
vars == <<rows, drive, pins, request_vars, faults, refusals>>

NoRow == [parent |-> NULL, name |-> NULL, sha |-> NULL, uri |-> NULL, role |-> NULL]

Init ==
  /\ rows = <<>> /\ drive = <<>> /\ faults = 0 /\ refusals = 0
  /\ pins = [p \in PinNames |-> 0]
  /\ step = [q \in Requests |-> "idle"]
  /\ parent = [q \in Requests |-> NULL]
  /\ items = [q \in Requests |-> <<>>]
  /\ row = [q \in Requests |-> NoRow]

DriveUri(file) == <<"gdrive", file>>
Content(item) == [name |-> item.name, sha |-> item.sha]

\* Definitions headed "Variant:" are the definition below them with a plausible
\* bug; no action uses them, mutation runs put them in its place.

\* Bound: what is registered and what the requests in progress may add.
MayAdd(n) ==
  Len(rows) + n + MapThenSumSet(LAMBDA q : Len(items[q]), Requests) <= MaxRows

HasMalformed(batch) == \E n \in DOMAIN batch : batch[n] \in Malformed

\* Bound: requests refused and those in progress that will be.
MayRefuse(batch) ==
  HasMalformed(batch) =>
    refusals + Cardinality({q \in Requests : HasMalformed(items[q])}) < MaxRefusals
-----------------------------------------------------------------------------
(* service/artifacts.py: the lookup and the unique indexes. *)

\* Variant: only the name is compared.
MatchesByName(item) == {i \in DOMAIN rows : rows[i].name = item.name}

Matches(item) == {i \in DOMAIN rows : Content(rows[i]) = Content(item)}

\* find_artifact_by_name_sha: ORDER BY (role = 'produced') DESC, created_at.
Existing(item) ==
  LET produced == {i \in Matches(item) : rows[i].role = "produced"}
  IN  rows[Min(IF produced # {} THEN produced ELSE Matches(item))]

\* Variant: without the index on (name, uri).
ViolatesShaIndex(r) ==
  r.role = "produced" /\ r.name # NULL /\ r.sha # NULL
    /\ \E i \in DOMAIN rows : rows[i].role = "produced" /\ Content(rows[i]) = Content(r)

\* idx_artifact_produced_name_sha_unique, idx_artifact_produced_name_uri_unique.
ViolatesUnique(r) ==
  /\ r.role = "produced" /\ r.name # NULL
  /\ \E i \in DOMAIN rows :
       /\ rows[i].role = "produced" /\ Content(rows[i]) = Content(r)
       /\ r.sha = NULL => rows[i].uri = r.uri
-----------------------------------------------------------------------------
(* Requests. *)

\* POST /v1/runs/{id}/artifacts/upload, upload-raw, upload-batch: the whole
\* body is decoded before the first item is looked at.
UploadBegin(q, r, batch) ==
  /\ step[q] = "idle" /\ MayAdd(Len(batch)) /\ MayRefuse(batch)
  /\ step' = [step EXCEPT ![q] = "lookup"]
  /\ parent' = [parent EXCEPT ![q] = r]
  /\ items' = [items EXCEPT ![q] = batch]
  /\ UNCHANGED <<rows, drive, pins, row, faults, refusals>>

\* Register bodies carry the row; the git and hf routes build its URI.
RegisterBegin(q, p, pointer) ==
  /\ step[q] = "idle" /\ MayAdd(1)
  /\ step' = [step EXCEPT ![q] = "insert"]
  /\ parent' = [parent EXCEPT ![q] = p]
  /\ items' = [items EXCEPT ![q] = <<pointer>>]
  /\ row' = [row EXCEPT ![q] = [parent |-> p, name |-> pointer.name, sha |-> pointer.sha,
                                uri |-> pointer.uri, role |-> pointer.role]]
  /\ UNCHANGED <<rows, drive, pins, faults, refusals>>

UploadedRow(q, uri, default) ==
  LET item == Head(items[q]) IN
  [parent |-> parent[q], name |-> item.name, sha |-> item.sha, uri |-> uri,
   role |-> IF item.role = NULL THEN default ELSE item.role]

\* _upload_or_dedup_artifact: the content is known, or has to be stored.
LookUp(q) ==
  /\ step[q] = "lookup"
  /\ IF Matches(Head(items[q])) # {}
     THEN /\ step' = [step EXCEPT ![q] = "insert"]
          /\ row' = [row EXCEPT ![q] =
               UploadedRow(q, Existing(Head(items[q])).uri, "used")]
     ELSE step' = [step EXCEPT ![q] = "store"] /\ UNCHANGED row
  /\ UNCHANGED <<rows, drive, pins, parent, items, faults, refusals>>

\* The folders of the content are found or made, then the file created.
Store(q) ==
  /\ step[q] = "store"
  /\ drive' = Append(drive, Content(Head(items[q])))
  /\ row' = [row EXCEPT ![q] = UploadedRow(q, DriveUri(Len(drive) + 1), "produced")]
  /\ step' = [step EXCEPT ![q] = "insert"]
  /\ UNCHANGED <<rows, pins, parent, items, faults, refusals>>

\* The request goes on to its next item, or answers.
NextItem(q) ==
  /\ items' = [items EXCEPT ![q] = Tail(@)]
  /\ row' = [row EXCEPT ![q] = NoRow]
  /\ IF Len(items[q]) > 1
     THEN step' = [step EXCEPT ![q] = "lookup"] /\ UNCHANGED parent
     ELSE step' = [step EXCEPT ![q] = "idle"] /\ parent' = [parent EXCEPT ![q] = NULL]

\* The request ends early; what it has done so far stays.
BreakOff(q) ==
  /\ step' = [step EXCEPT ![q] = "idle"]
  /\ parent' = [parent EXCEPT ![q] = NULL]
  /\ items' = [items EXCEPT ![q] = <<>>]
  /\ row' = [row EXCEPT ![q] = NoRow]
  /\ UNCHANGED <<rows, drive, pins>>

\* A kind or meta is first checked once the content is stored: upload-raw's by
\* the merge of meta and by ArtifactCreate, a meta of any route that jsonb does
\* not take (a NUL in a string) by the INSERT.
Refuse(q) ==
  /\ step[q] = "insert" /\ Head(items[q]) \in Malformed
  /\ refusals' = refusals + 1
  /\ BreakOff(q)
  /\ UNCHANGED faults

\* register_artifact's first INSERT.
Insert(q) ==
  /\ step[q] = "insert" /\ Head(items[q]) \notin Malformed
  /\ IF ViolatesUnique(row[q])
     THEN step' = [step EXCEPT ![q] = "retry"] /\ UNCHANGED <<rows, parent, items, row>>
     ELSE rows' = Append(rows, row[q]) /\ NextItem(q)
  /\ UNCHANGED <<drive, pins, faults, refusals>>

\* Variant: the loser of the race answers without a row of its own.
RetryForgotten(q) ==
  /\ step[q] = "retry"
  /\ NextItem(q)
  /\ UNCHANGED <<rows, drive, pins, faults, refusals>>

\* Its second INSERT, after a unique violation: the row again, as USED.
Retry(q) ==
  /\ step[q] = "retry"
  /\ rows' = Append(rows, [row[q] EXCEPT !.role = "used"])
  /\ NextItem(q)
  /\ UNCHANGED <<drive, pins, faults, refusals>>

\* Drive or the database fails, or the machine stops.
Fail(q) ==
  /\ step[q] # "idle" /\ faults < MaxFaults
  /\ faults' = faults + 1
  /\ BreakOff(q)
  /\ UNCHANGED refusals

\* set_pin: the artifact exists, and nothing deletes it before the upsert.
SetPin(p, i) ==
  /\ i \in DOMAIN rows
  /\ pins' = [pins EXCEPT ![p] = i]
  /\ UNCHANGED <<rows, drive, request_vars, faults, refusals>>

Request(q) ==
  \/ \E r \in Runs, b \in Batches : UploadBegin(q, r, b)
  \/ \E p \in Runs \cup Experiments, pointer \in Pointers : RegisterBegin(q, p, pointer)
  \/ LookUp(q) \/ Store(q) \/ Refuse(q) \/ Insert(q) \/ Retry(q) \/ Fail(q)

Next ==
  \/ \E q \in Requests : Request(q)
  \/ \E p \in PinNames, i \in 1..MaxRows : SetPin(p, i)

Spec == Init /\ [][Next]_vars
-----------------------------------------------------------------------------
(* What the read routes answer. *)

RunOf(i) == IF rows[i].parent \in Runs THEN rows[i].parent ELSE NULL

\* get_artifact_lineage's groups: by (name, sha256), or by (name, uri).
SameContent(i, j) ==
  Content(rows[i]) = Content(rows[j]) /\ (rows[i].sha = NULL => rows[i].uri = rows[j].uri)

\* A nameless artifact has no group.
Group(i) == {j \in DOMAIN rows : rows[i].name # NULL /\ SameContent(i, j)}
Users(i) == {RunOf(j) : j \in {k \in Group(i) : rows[k].role = "used"}}

NoLineage == [produced_by |-> NULL, used_by |-> {}]

\* used_by_run_ids is a list of strings: with an experiment's row among the
\* users, whose run_id is null, the answer does not validate and the route
\* raises instead.
Lineage(i) ==
  LET produced == {j \in Group(i) : rows[j].role = "produced"}
  IN  IF NULL \in Users(i) THEN NoLineage
      ELSE [produced_by |-> IF produced = {} THEN NULL ELSE RunOf(Min(produced)),
            used_by |-> Users(i)]
-----------------------------------------------------------------------------
(* Properties. *)

Uris == {p.uri : p \in Pointers} \cup {DriveUri(f) : f \in DOMAIN drive}

TypeOK ==
  /\ \A i \in DOMAIN rows :
       rows[i].parent \in Runs \cup Experiments /\ rows[i].uri \in Uris
         /\ rows[i].role \in {"produced", "used"}
  /\ pins \in [PinNames -> 0..Len(rows)]
  /\ step \in [Requests -> {"idle", "lookup", "store", "insert", "retry"}]
  /\ \A q \in Requests :
       /\ step[q] = "idle" <=> items[q] = <<>>
       /\ step[q] \in {"insert", "retry"} => row[q].uri \in Uris
  /\ faults \in 0..MaxFaults /\ refusals \in Nat

\* No run is dropped from lineage: whichever uploads and registrations raced,
\* the lineage of a named artifact of a run names that run (the purpose of the
\* unique indexes and of the retry as USED), unless an experiment has the
\* content as a user: then it names nobody.
LineageNamesEveryRun ==
  \A i \in DOMAIN rows : rows[i].name # NULL /\ rows[i].parent \in Runs =>
    \/ rows[i].parent \in {Lineage(i).produced_by} \cup Lineage(i).used_by
    \/ \E j \in DOMAIN rows :
         SameContent(i, j) /\ rows[j].role = "used" /\ rows[j].parent \in Experiments

\* Named content somebody used was produced by somebody, unless a client said
\* "used" of content nobody had registered.
UsedContentWasProduced ==
  ("used" \notin {p.role : p \in Pointers}
     /\ \A b \in Batches : \A n \in DOMAIN b : b[n].role # "used") =>
    \A i \in DOMAIN rows : rows[i].role = "used" =>
      \E j \in 1..(i - 1) : rows[j].role = "produced" /\ SameContent(i, j)

\* A row whose URI is a Drive file points at the bytes it names and hashes,
\* reused files included.
DriveFileHoldsContent ==
  \A i \in DOMAIN rows : \A f \in DOMAIN drive :
    rows[i].uri = DriveUri(f) => drive[f] = Content(rows[i])

\* Files without a row whose request is not about to insert one either.
Orphans ==
  {f \in DOMAIN drive :
     /\ \A i \in DOMAIN rows : rows[i].uri # DriveUri(f)
     /\ \A q \in Requests : step[q] \in {"insert", "retry"} => row[q].uri # DriveUri(f)}

\* A stored file is forgotten only by a request that broke off, and each of
\* those forgets at most one, however many files it stored: the loser of a race
\* for a content keeps its file in use (_upload_or_dedup_artifact,
\* register_artifact).
OrphansHaveCause == Cardinality(Orphans) <= faults + refusals

\* What the registry says of a content is true however requests overlap: who
\* used it got it from a producer, and a reused Drive file holds it
\* (find_artifact_by_name_sha, _upload_or_dedup_artifact).
ContentIsTrue == TypeOK /\ UsedContentWasProduced /\ DriveFileHoldsContent
=============================================================================
