---------------------------- MODULE HistoryImport ----------------------------
(***************************************************************************)
(* The one-off scripts that record earlier work on the server:             *)
(* scripts/migrate_*.py over scripts/_migrate_common.py.                   *)
(*                                                                         *)
(* A script reads its local source, plans one experiment per entry, and    *)
(* posts each: the experiment, its write-up, its runs, their results.      *)
(* Every post is a request of its own, most answers are not looked at, and *)
(* the script may die between any two; it is then run again from the       *)
(* start, where an experiment that exists is skipped with all it has.      *)
(***************************************************************************)
EXTENDS Naturals, Sequences, SequencesExt

CONSTANTS
  Data,      \* per source: the items it has or will have, a sequence of
             \* [id, base, path, ok, run, at, results]
  Name,      \* Name[base][n]: the n-th slug tried for a base
  Began,     \* how many of the items are there at first
  NULL,
  MaxFaults  \* bound: failed requests and deaths of a script

Sources == DOMAIN Data
Slugs == UNION {Range(Name[b]) : b \in DOMAIN Name}
RunKeys == Slugs \X {i.run : i \in UNION {Range(Data[s]) : s \in Sources}}

\* What a script plans to post, and where it stands.
PlanEntry(s) == [slug : Slugs, writeup : BOOLEAN, items : Seq(Range(Data[s]))]
Job(s) == [plan : Seq(PlanEntry(s)), n : Nat, at : {"experiment", "writeup", "run", "result"},
           k : Nat, r : Nat]

\* The runs of chris and mlx are all called "historical". No base runs out of
\* slugs: base-2, base-3, ... never ends.
ASSUME ImportAssumption ==
  /\ Sources \subseteq {"chris", "mlx", "lazarus", "larql"}
  /\ Began \in Nat /\ MaxFaults \in Nat
  /\ \A s \in Sources :
       /\ Data[s] \in Seq(Range(Data[s])) /\ Began <= Len(Data[s])
       /\ \A m, n \in DOMAIN Data[s] : Data[s][m].id = Data[s][n].id => m = n
       /\ \A i \in Range(Data[s]) :
            /\ i.base \in DOMAIN Name /\ i.ok \in BOOLEAN /\ i.results \in Nat
            /\ s \in {"chris", "mlx"} => i.run = "historical"
       /\ NULL \notin PlanEntry(s) \cup Job(s)
  /\ \A b \in DOMAIN Name :
       /\ Name[b] \in Seq(Range(Name[b])) /\ IsInjective(Name[b]) /\ Name[b] # << >>
       /\ \A s \in Sources : Len(Data[s]) <= Len(Name[b])

VARIABLES
  source,    \* the source of this behaviour
  items,     \* the items the source has, in order
  exps,      \* experiments: Slugs -> the plan entry they were made from, or NULL
  writeups,  \* how many write-ups each has
  runs,      \* RunKeys that exist -> [of |-> item, results |-> how many]
  job,       \* the migration that runs: [plan, n, at, k, r], or NULL
  faults,
  \* History.
  reordered, \* an item was put before others
  disturbed, \* experiments one of whose posts failed, or a script died at
  claimed    \* items of experiments that a script made or found there already

db_vars == <<exps, writeups, runs>>
import_vars == <<source, items, db_vars, job, faults, reordered, disturbed, claimed>>

Init ==
  /\ source \in Sources
  /\ items = SubSeq(Data[source], 1, Began)
  /\ exps = [s \in Slugs |-> NULL] /\ writeups = [s \in Slugs |-> 0]
  /\ runs = << >>
  /\ job = NULL /\ faults = 0 /\ reordered = FALSE /\ disturbed = {} /\ claimed = {}
-----------------------------------------------------------------------------
(* What each script makes of its source. *)

Entry(slug, writeup, its) == [slug |-> slug, writeup |-> writeup, items |-> its]

\* build_slug: base, base-2, base-3, ... until unused.
BuildSlug(base, seen) ==
  LET free == {n \in DOMAIN Name[base] : Name[base][n] \notin seen}
  IN Name[base][CHOOSE n \in free : \A m \in free : n <= m]

\* parse_index and run_migration, or discover_experiments and run_migration:
\* one experiment per heading with a Path bullet, or per directory with a
\* write-up file (ok), with a write-up and one run. Only the slugs of headings
\* are numbered.
Listed(its, numbered) ==
  LET list[n \in 0..Len(its)] ==
        IF n = 0 THEN << >>
        ELSE IF ~its[n].ok THEN list[n - 1]
        ELSE LET seen == {e.slug : e \in Range(list[n - 1])}
                 slug == IF numbered THEN BuildSlug(its[n].base, seen) ELSE Name[its[n].base][1]
             IN  Append(list[n - 1], Entry(slug, TRUE, <<its[n]>>))
  IN  list

ChrisPlan(its) == Listed(its, TRUE)[Len(its)]
MlxPlan(its) == Listed(its, FALSE)[Len(its)]

\* group_by_name, or the grouping of load_valid_artifacts by test_id: one
\* experiment per base, in order of appearance.
Grouped(its) ==
  LET groups[n \in 0..Len(its)] ==
        IF n = 0 THEN << >>
        ELSE IF ~its[n].ok THEN groups[n - 1]
        ELSE IF \A e \in Range(groups[n - 1]) : e.items[1].base # its[n].base
             THEN Append(groups[n - 1], Entry(Name[its[n].base][1], FALSE, <<its[n]>>))
             ELSE [g \in DOMAIN groups[n - 1] |->
                     LET e == groups[n - 1][g]
                     IN  IF e.items[1].base = its[n].base
                         THEN [e EXCEPT !.items = Append(@, its[n])] ELSE e]
  IN  groups

LarqlPlan(its) == Grouped(its)[Len(its)]

\* group.sort by created_at, which keeps the order of equal times.
ByTime(its) ==
  LET sorted[n \in 0..Len(its)] ==
        IF n = 0 THEN << >>
        ELSE LET earlier == {k \in DOMAIN sorted[n - 1] : sorted[n - 1][k].at <= its[n].at}
             IN  InsertAt(sorted[n - 1], Cardinality(earlier) + 1, its[n])
  IN  sorted

LazarusPlan(its) ==
  LET groups == Grouped(its)[Len(its)]
  IN  [n \in DOMAIN groups |-> [groups[n] EXCEPT !.items = ByTime(@)[Len(@)]]]

Plan == CASE source = "chris" -> ChrisPlan(items)
          [] source = "mlx" -> MlxPlan(items)
          [] source = "lazarus" -> LazarusPlan(items)
          [] source = "larql" -> LarqlPlan(items)
-----------------------------------------------------------------------------
(* The posts. *)

Cur == job.plan[job.n]
At(step) == job # NULL /\ job.n <= Len(job.plan) /\ job.at = step

NextEntry == [job EXCEPT !.n = @ + 1, !.at = "experiment", !.k = 1, !.r = 0]
NextRun == IF job.k = Len(Cur.items) THEN NextEntry
           ELSE [job EXCEPT !.at = "run", !.k = @ + 1, !.r = 0]

\* A request answered 400 or more: printed or not looked at, the script goes on.
Fault == faults < MaxFaults /\ faults' = faults + 1

StartImport ==
  /\ job = NULL
  /\ job' = [plan |-> Plan, n |-> 1, at |-> "experiment", k |-> 1, r |-> 0]
  /\ UNCHANGED <<source, items, db_vars, faults, reordered, disturbed, claimed>>

\* The items whose experiment the script takes to be on the server. Of a
\* source with several runs per experiment only those it posts are.
Claim(found) ==
  claimed' = IF found /\ source \in {"lazarus", "larql"} THEN claimed
             ELSE claimed \cup {i.id : i \in Range(Cur.items)}

\* create_experiment: 409 is "already exists, skipping".
PostExperiment ==
  /\ At("experiment")
  /\ \/ /\ exps[Cur.slug] = NULL
        /\ exps' = [exps EXCEPT ![Cur.slug] = Cur]
        /\ job' = [job EXCEPT !.at = IF Cur.writeup THEN "writeup" ELSE "run"]
        /\ Claim(FALSE) /\ UNCHANGED faults
     \/ /\ exps[Cur.slug] # NULL
        /\ job' = NextEntry /\ Claim(TRUE) /\ UNCHANGED <<exps, faults>>
     \/ Fault /\ job' = NextEntry /\ UNCHANGED <<exps, claimed>>
  /\ UNCHANGED <<writeups, runs, disturbed>>

PostWriteup ==
  /\ At("writeup")
  /\ job' = [job EXCEPT !.at = "run"]
  /\ \/ /\ writeups' = [writeups EXCEPT ![Cur.slug] = @ + 1]
        /\ UNCHANGED <<faults, disturbed>>
     \/ Fault /\ disturbed' = disturbed \cup {Cur.slug} /\ UNCHANGED writeups
  /\ UNCHANGED <<exps, runs, claimed>>

WithRun(key, i) ==
  [k \in DOMAIN runs \cup {key} |-> IF k = key THEN [of |-> i.id, results |-> 0] ELSE runs[k]]

\* Variant: the results are left out.
PostRunOnly ==
  LET i == Cur.items[job.k]  key == <<Cur.slug, i.run>> IN
  /\ At("run")
  /\ runs' = IF key \in DOMAIN runs THEN runs
             ELSE WithRun(key, i)
  /\ job' = NextRun
  /\ UNCHANGED <<exps, writeups, claimed, faults, disturbed>>

\* create_run: a slug that exists is skipped, with its results.
PostRun ==
  LET i == Cur.items[job.k]  key == <<Cur.slug, i.run>> IN
  /\ At("run")
  /\ \/ /\ key \notin DOMAIN runs
        /\ runs' = WithRun(key, i)
        /\ job' = IF i.results > 0 THEN [job EXCEPT !.at = "result"] ELSE NextRun
        /\ UNCHANGED <<faults, disturbed>>
     \/ /\ key \in DOMAIN runs
        /\ job' = NextRun /\ UNCHANGED <<runs, faults, disturbed>>
     \/ /\ Fault /\ job' = NextRun
        /\ disturbed' = disturbed \cup {Cur.slug} /\ UNCHANGED runs
  /\ UNCHANGED <<exps, writeups, claimed>>

PostResult ==
  LET i == Cur.items[job.k] IN
  /\ At("result")
  /\ job' = IF job.r + 1 = i.results THEN NextRun ELSE [job EXCEPT !.r = @ + 1]
  /\ \/ /\ runs' = [runs EXCEPT ![<<Cur.slug, i.run>>].results = @ + 1]
        /\ UNCHANGED <<faults, disturbed>>
     \/ Fault /\ disturbed' = disturbed \cup {Cur.slug} /\ UNCHANGED runs
  /\ UNCHANGED <<exps, writeups, claimed>>

ImportEnds ==
  /\ job # NULL /\ job.n > Len(job.plan)
  /\ job' = NULL
  /\ UNCHANGED <<db_vars, faults, disturbed, claimed>>

\* The operator stops the script, or a request times out: whether the server
\* has done it or not, it is not repeated.
ImportDies ==
  /\ job # NULL /\ job.n <= Len(job.plan) /\ Fault
  /\ disturbed' = IF job.at = "experiment" THEN disturbed ELSE disturbed \cup {Cur.slug}
  /\ job' = NULL
  /\ UNCHANGED <<db_vars, claimed>>

Import ==
  /\ PostExperiment \/ PostWriteup \/ PostRun \/ PostResult \/ ImportEnds \/ ImportDies
  /\ UNCHANGED <<source, items, reordered>>

\* The next item of the source appears, after the others or before them.
NewItem(first) ==
  LET next == SubSeq(Data[source], Len(items) + 1, Len(items) + 1) IN
  /\ Len(items) < Len(Data[source])
  /\ items' = IF first THEN next \o items ELSE items \o next
  /\ reordered' = (reordered \/ first)
  /\ UNCHANGED <<source, db_vars, job, faults, disturbed, claimed>>
-----------------------------------------------------------------------------
Item(id) == CHOOSE i \in Range(Data[source]) : i.id = id

\* However often the scripts are run, and wherever they die, nothing is posted
\* twice: an experiment has at most the one write-up, and a run at most the
\* results of its item ("safe to rerun", _migrate_common.py).
PostedOnce ==
  /\ \A s \in Slugs : writeups[s] <= 1
  /\ \A key \in DOMAIN runs : runs[key].results <= Item(runs[key].of).results

\* An experiment the scripts have left has its write-up and every run with its
\* results, unless a request failed or a script died while it was posted. It
\* then never gets them: create_experiment answers None for it ever after.
Whole(s) ==
  /\ exps[s].writeup => writeups[s] = 1
  /\ \A i \in Range(exps[s].items) :
       /\ <<s, i.run>> \in DOMAIN runs
       /\ runs[<<s, i.run>>].results = Item(runs[<<s, i.run>>].of).results

GapsHaveCause ==
  \A s \in Slugs : (exps[s] # NULL /\ s \notin disturbed) =>
    Whole(s) \/ (job # NULL /\ job.n <= Len(job.plan) /\ Cur.slug = s)

\* One item, or two for which the scripts write the same slugs: larql artifacts of one
\* test and one model, lazarus files of one name and day with alike ids, mlx
\* directories whose names slugify alike. The entries of INDEX.md are numbered.
SameRun(i, j) ==
  \/ i = j
  \/ source # "chris" /\ Name[i.base][1] = Name[j.base][1] /\ i.run = j.run

\* Every item a script claims to have recorded, or found recorded, has a run of
\* its own, also when its base slug is another's, or one with an item of the same
\* slugs; only an item put before others takes their slugs (build_slug numbers in
\* order of appearance).
ClaimedIsRecorded ==
  \A c \in claimed :
    \/ \E key \in DOMAIN runs : SameRun(Item(runs[key].of), Item(c))
    \/ reordered
    \/ \E s \in Slugs :
         /\ exps[s] # NULL /\ \E i \in Range(exps[s].items) : SameRun(i, Item(c))
         /\ s \in disturbed \/ (job # NULL /\ job.n <= Len(job.plan) /\ Cur.slug = s)

\* Runs of the import scripts add up: nothing is posted twice, and what a script
\* claims to have recorded is there in full, unless it died or failed over it
\* ("safe to rerun", _migrate_common.py).
ImportIsSound == PostedOnce /\ GapsHaveCause /\ ClaimedIsRecorded
=============================================================================
