---------------------------- MODULE DriveArchive ----------------------------
(***************************************************************************)
(* The scripts that copy a source's files to Google Drive and link each    *)
(* directory to the experiments made of it: scripts/archive_*_to_drive.py  *)
(* and scripts/_drive_common.py, beside the migrations. One script runs at *)
(* a time.                                                                 *)
(*                                                                         *)
(* A file is uploaded and then noted in a manifest, a JSON file written    *)
(* after every upload; a script may die between the two, or in the middle  *)
(* of the writing. What a later run skips it reads from the manifest.      *)
(***************************************************************************)
EXTENDS HistoryImport

CONSTANTS Files,  \* the files that are archived once they are there
          Dir,    \* Files -> the directory of an item, or Loose
          Loose,  \* outside every directory of an item
          Torn    \* a manifest cut off in the middle

Dirs == {i.path : i \in UNION {Range(Data[s]) : s \in Sources}} \ {NULL}

\* What an archive script knows: the directories of each slug, and how far it is.
ArchiveJob ==
  [linkable : SUBSET (Slugs \X Dirs), left : SUBSET Dirs, dir : Dirs \cup {NULL, Loose},
   todo : SUBSET Files, noting : Files \cup {NULL}, slugs : SUBSET Slugs, start : SUBSET Files]

ASSUME ArchiveAssumption ==
  /\ Loose \notin Dirs \cup {NULL} /\ Dir \in [Files -> Dirs \cup {Loose}]
  /\ NULL \notin Files \cup ArchiveJob /\ \A noted \in SUBSET Files : Torn # noted

VARIABLES
  disk,        \* the local files
  manifest,    \* the files noted as uploaded, or Torn
  copies,      \* how many copies of each file Drive has
  links,       \* <<slug, directory>> -> artifacts of its run that point there
  archive,     \* the archive script that runs, or NULL
  \* History.
  interrupted, \* per file: deaths between its upload and its note
  lost,        \* manifests given up
  archived,    \* the files there when the last finished pass began
  verified     \* the files there when --verify last answered OK

drive_vars == <<disk, manifest, copies, links, archive, interrupted, lost, archived, verified>>
vars == <<import_vars, drive_vars>>

ArchiveInit ==
  /\ Init
  /\ disk \in {{f \in Files : Dir[f] # Loose}, Files}
  /\ manifest = {} /\ copies = [f \in Files |-> 0]
  /\ links = [p \in Slugs \X Dirs |-> 0] /\ archive = NULL
  /\ interrupted = [f \in Files |-> 0] /\ lost = 0 /\ archived = {} /\ verified = {}

InDir(d) == {f \in disk : Dir[f] = d}

\* Variant: only entries that have a directory are numbered.
LinkableOfPaths(its) ==
  {<<e.slug, e.items[1].path>> :
     e \in Range(ChrisPlan(SelectSeq(its, LAMBDA i : i.path # NULL)))}

\* build_path_to_slugs, or discover_experiments and the slug formula.
Linkable(its) ==
  {<<e.slug, e.items[1].path>> : e \in Range(IF source = "mlx" THEN MlxPlan(its) ELSE ChrisPlan(its))}

\* run_archive up to its loop: left are the directories of INDEX.md that exist,
\* or every subdirectory. The manifest must be readable.
StartArchive ==
  /\ source \in {"chris", "mlx"} /\ archive = NULL /\ manifest # Torn
  /\ LET dirs == {d \in Dirs : InDir(d) # {}}
         linkable == {l \in Linkable(items) : l[2] # NULL} IN
     archive' = [linkable |-> linkable,
                 left |-> IF source = "mlx" THEN dirs
                          ELSE {d \in dirs : \E l \in linkable : l[2] = d},
                 dir |-> NULL, todo |-> {}, noting |-> NULL, slugs |-> {}, start |-> disk]
  /\ UNCHANGED <<disk, manifest, copies, links, faults, interrupted, lost, archived, verified>>

Between == archive # NULL /\ archive.noting = NULL /\ archive.todo = {}

\* upload_directory: what the manifest has not.
NextDir(d) ==
  /\ Between /\ archive.slugs = {} /\ d \in archive.left
  /\ archive' = [archive EXCEPT !.left = @ \ {d}, !.dir = d, !.todo = InDir(d) \ manifest,
                                !.slugs = {l[1] : l \in {l \in archive.linkable : l[2] = d}}]
  /\ UNCHANGED <<disk, manifest, copies, links, faults, interrupted, lost, archived, verified>>

\* The file is on Drive; only then is it noted.
Upload(f) ==
  /\ archive # NULL /\ archive.noting = NULL /\ f \in archive.todo
  /\ copies' = [copies EXCEPT ![f] = @ + 1]
  /\ archive' = [archive EXCEPT !.noting = f, !.todo = @ \ {f}]
  /\ UNCHANGED <<disk, manifest, links, faults, interrupted, lost, archived, verified>>

\* Variant: nothing is written.
RecordNothing ==
  /\ archive # NULL /\ archive.noting # NULL
  /\ archive' = [archive EXCEPT !.noting = NULL]
  /\ UNCHANGED <<disk, manifest, copies, links, faults, interrupted, lost, archived, verified>>

\* Variant: everything still to be uploaded is noted at once.
RecordAhead ==
  /\ archive # NULL /\ archive.noting # NULL
  /\ manifest' = manifest \cup {archive.noting} \cup archive.todo
  /\ archive' = [archive EXCEPT !.noting = NULL]
  /\ UNCHANGED <<disk, copies, links, faults, interrupted, lost, archived, verified>>

\* Manifest.record.
Record ==
  /\ archive # NULL /\ archive.noting # NULL
  /\ manifest' = manifest \cup {archive.noting}
  /\ archive' = [archive EXCEPT !.noting = NULL]
  /\ UNCHANGED <<disk, copies, links, faults, interrupted, lost, archived, verified>>

\* has_archive_artifact; the chuk-mlx script does not ask.
HasArtifact(s, d) == source = "chris" /\ links[<<s, d>>] > 0

\* find_historical_run_id and register_archive_artifact of one experiment: no
\* such run, linked before, registered, or refused and only printed.
Link(s) ==
  /\ Between /\ s \in archive.slugs
  /\ archive' = [archive EXCEPT !.slugs = @ \ {s}]
  /\ LET d == archive.dir IN
     \/ /\ <<s, "historical">> \in DOMAIN runs /\ ~HasArtifact(s, d)
        /\ links' = [links EXCEPT ![<<s, d>>] = IF @ = 2 THEN 2 ELSE @ + 1]
        /\ UNCHANGED faults
     \/ /\ <<s, "historical">> \notin DOMAIN runs \/ HasArtifact(s, d)
        /\ UNCHANGED <<links, faults>>
     \/ Fault /\ UNCHANGED links
  /\ UNCHANGED <<disk, manifest, copies, interrupted, lost, archived, verified>>

\* The last pass over the whole tree takes what no directory led to.
Residual == disk \ manifest

CatchAll ==
  /\ Between /\ source = "chris" /\ archive.slugs = {} /\ archive.left = {}
  /\ archive.dir # Loose
  /\ archive' = [archive EXCEPT !.dir = Loose, !.todo = Residual]
  /\ UNCHANGED <<disk, manifest, copies, links, faults, interrupted, lost, archived, verified>>

\* "Done". The chuk-mlx script has no last pass.
ArchiveEnds ==
  /\ Between /\ archive.slugs = {} /\ archive.left = {}
  /\ source = "chris" => archive.dir = Loose
  /\ archived' = {f \in archive.start : source = "mlx" => Dir[f] # Loose}
  /\ archive' = NULL
  /\ UNCHANGED <<disk, manifest, copies, links, faults, interrupted, lost, verified>>

\* Killed, or a request failed: while the manifest is written it may be cut.
ArchiveDies ==
  /\ archive # NULL /\ Fault
  /\ archive' = NULL
  /\ IF archive.noting = NULL THEN UNCHANGED <<manifest, interrupted>>
     ELSE /\ manifest' \in {manifest, Torn}
          /\ interrupted' = [interrupted EXCEPT ![archive.noting] = @ + 1]
  /\ UNCHANGED <<disk, copies, links, lost, archived, verified>>

\* Manifest() fails on a torn file until the operator removes it.
DropManifest ==
  /\ manifest = Torn
  /\ manifest' = {} /\ lost' = lost + 1
  /\ UNCHANGED <<disk, copies, links, archive, faults, interrupted, archived, verified>>

\* run_verify: every local file is in the manifest, or exit status 1.
Verify ==
  /\ archive = NULL /\ manifest # Torn
  /\ verified' = IF disk \subseteq manifest THEN disk ELSE verified
  /\ UNCHANGED <<disk, manifest, copies, links, archive, faults, interrupted, lost, archived>>

NewFile(f) ==
  /\ f \notin disk /\ disk' = disk \cup {f}
  /\ UNCHANGED <<manifest, copies, links, archive, faults, interrupted, lost, archived, verified>>

Archive ==
  /\ job = NULL
  /\ \/ StartArchive \/ Record \/ CatchAll \/ ArchiveEnds \/ ArchiveDies
     \/ DropManifest \/ Verify
     \/ \E d \in Dirs : NextDir(d)
     \/ \E f \in Files : Upload(f) \/ NewFile(f)
     \/ \E s \in Slugs : Link(s)
  /\ UNCHANGED <<source, items, db_vars, job, reordered, disturbed, claimed>>

Migrate ==
  /\ archive = NULL /\ (StartImport \/ Import \/ \E first \in BOOLEAN : NewItem(first))
  /\ UNCHANGED drive_vars

Next == Archive \/ Migrate

Spec == ArchiveInit /\ [][Next]_vars
-----------------------------------------------------------------------------
TypeOK ==
  /\ source \in Sources /\ Range(items) \subseteq Range(Data[source])
  /\ exps \in [Slugs -> PlanEntry(source) \cup {NULL}]
  /\ writeups \in [Slugs -> Nat] /\ DOMAIN runs \subseteq RunKeys
  /\ disturbed \subseteq Slugs /\ claimed \subseteq {i.id : i \in Range(Data[source])}
  /\ faults \in 0..MaxFaults /\ lost \in 0..MaxFaults /\ reordered \in BOOLEAN
  /\ manifest = Torn \/ manifest \subseteq disk
  /\ copies \in [Files -> 0..(MaxFaults + 1)] /\ interrupted \in [Files -> 0..MaxFaults]
  /\ links \in [Slugs \X Dirs -> 0..2]
  /\ disk \cup archived \cup verified \subseteq Files
  /\ job = NULL \/ job \in Job(source)
  /\ archive = NULL \/ archive \in ArchiveJob
  /\ job = NULL \/ archive = NULL

\* A file is on Drive more than once only for a cause: a script died between
\* its upload and its note in the manifest, or a manifest torn by such a death
\* was given up (Manifest: "a killed and re-run script never re-uploads").
CopiesHaveCause ==
  \A f \in Files : copies[f] <= 1 + interrupted[f] + lost

\* A finished pass has copied every file that was there when it began, those
\* beside the directories of INDEX.md too (compute_residual_files).
PassCopiesEverything == \A f \in archived : copies[f] > 0

\* What --verify answered OK for is on Drive, although it reads only the
\* manifest and scripts died meanwhile (verify_directory).
VerifiedIsOnDrive == \A f \in verified : copies[f] > 0

\* A directory is linked to the run that was made of it, although the slugs are
\* worked out anew from an INDEX.md that has grown (build_path_to_slugs: "this
\* must match exactly"); only an entry put before others breaks it. Directories
\* of mlx whose names slugify alike are linked to the one run they have.
LinkedToItsRun ==
  \A s \in Slugs, d \in Dirs : links[<<s, d>>] > 0 =>
    LET made == Item(runs[<<s, "historical">>].of)
    IN  reordered \/ \E i \in Range(items) : i.path = d /\ SameRun(i, made)

\* Run again, the chris-experiments script links nothing a second time
\* (has_archive_artifact).
LinkedOnce == source = "chris" => \A l \in DOMAIN links : links[l] <= 1

\* What the archive scripts say is archived or verified is on Drive, and linked
\* once, whatever died in between (run_archive, verify_directory).
ArchiveIsSound ==
  TypeOK /\ PassCopiesEverything /\ VerifiedIsOnDrive /\ LinkedOnce
=============================================================================
