-------------------------- MODULE CatalogueProofs --------------------------
(***************************************************************************)
(* Proofs about Catalogue, for any number of requests, programmes and      *)
(* experiments: write-up versions are consecutive and used once, the       *)
(* search index shows the latest, and appending implements WriteupLog.     *)
(***************************************************************************)
EXTENDS Catalogue, TLAPS

\* The highest of the versions 1 to n is n, also when there is none.
LEMMA LatestOfVersions ==
  ASSUME NEW e, NEW n \in Nat, Versions(e) = 1..n
  PROVE  Latest(e) = n
BY DEF Latest

\* In a reachable state the latest version is the one the search index has.
LEMMA LatestIsIndexed ==
  ASSUME TypeOK, AppendsInv, NEW e \in Ids
  PROVE  Latest(e) = search[e] /\ search[e] \in Nat
BY LatestOfVersions DEF TypeOK, AppendsInv

\* A draft stays one when an experiment is added.
LEMMA DraftsGrow ==
  ASSUME TypeOK, NEW row \in Rows, experiment' = Append(experiment, row)
  PROVE  /\ experiment' \in Seq(Rows) /\ Len(experiment') = Len(experiment) + 1
         /\ \A c : Drafts(c) \subseteq Drafts(c)'
<1>1. experiment' \in Seq(Rows) /\ Len(experiment') = Len(experiment) + 1
  BY DEF TypeOK
<1>2. 1..Len(experiment) \subseteq 1..Len(experiment')
  BY <1>1 DEF TypeOK
<1>3. QED
  BY <1>1, <1>2 DEF Drafts

\* A draft names an experiment.
LEMMA DraftsHaveIds ==
  ASSUME TypeOK, NEW c, NEW r \in Drafts(c)
  PROVE  /\ r.experiment \in Ids /\ r.experiment \in 1..Len(experiment)
         /\ r.version \in Nat \ {0} /\ r.author = c
BY CatalogueAssumption DEF CatalogueAssumption, TypeOK, Drafts, Ids
-----------------------------------------------------------------------------
LEMMA TypeStep == TypeOK /\ AppendsInv /\ [Next]_vars => TypeOK'
<1> SUFFICES ASSUME TypeOK, AppendsInv, [Next]_vars PROVE TypeOK'
  OBVIOUS
<1> USE CatalogueAssumption DEF CatalogueAssumption
<1>1. ASSUME NEW c \in Clients, NEW p \in Programmes, NEW s \in Slugs,
             NEW name \in Names \cup {NULL}, CreateBegin(c, p, s, name)
      PROVE  TypeOK'
  <2>1. /\ programme' \in [Programmes -> Names \cup {Humanized, NULL}]
        /\ programme'[p] # NULL
        /\ \A q \in Programmes : programme[q] # NULL => programme'[q] # NULL
    BY <1>1 DEF TypeOK, CreateBegin, Coalesce
  <2>2. new' \in [Clients -> Rows \cup {NoExperiment}] /\ new'[c] \in Rows
          /\ new'[c].programme = p /\ \A d \in Clients \ {c} : new'[d] = new[d]
    BY <1>1 DEF TypeOK, CreateBegin, Rows
  <2>3. \A d : Drafts(d)' = Drafts(d)
    BY <1>1 DEF CreateBegin, Drafts
  <2>4. \A d \in Clients : step'[d] = "create" =>
          new'[d] \in Rows /\ programme'[new'[d].programme] # NULL
    BY <1>1, <2>1, <2>2 DEF TypeOK, CreateBegin, Rows
  <2>5. QED
    BY <1>1, <2>1, <2>2, <2>3, <2>4 DEF TypeOK, CreateBegin
<1>2. ASSUME NEW c \in Clients, CreateInsert(c) PROVE TypeOK'
  <2>1. new[c] \in Rows
    BY <1>2 DEF TypeOK, CreateInsert
  <2>2. /\ experiment' \in Seq(Rows) /\ Len(experiment') = Len(experiment) + 1
        /\ \A d : Drafts(d) \subseteq Drafts(d)'
    BY <1>2, <2>1, DraftsGrow DEF CreateInsert
  <2>3. Len(experiment') <= MaxExperiments /\ search' \in [Ids -> Nat]
    <3>1. Len(experiment) < MaxExperiments /\ Len(experiment) \in Nat
      BY <1>2 DEF TypeOK, CreateInsert
    <3>2. search' \in [Ids -> Nat]
      BY <1>2 DEF TypeOK, CreateInsert
    <3>3. QED
      BY <2>2, <3>1, <3>2
  <2>4. \A r \in writeup' : \E d \in Clients : r \in Drafts(d)'
    <3> SUFFICES ASSUME NEW r \in writeup PROVE \E d \in Clients : r \in Drafts(d)'
      BY <1>2 DEF CreateInsert, CreateEnds
    <3>1. PICK d \in Clients : r \in Drafts(d)
      BY DEF TypeOK
    <3>2. r \in Drafts(d)'
      BY <2>2, <3>1
    <3>3. QED
      BY <3>2
  <2>5. \A d \in Clients : step'[d] \in {"append", "inserted"} => draft'[d] \in Drafts(d)'
    BY <1>2, <2>2 DEF TypeOK, CreateInsert, CreateEnds
  <2>6. QED
    BY <1>2, <2>2, <2>3, <2>4, <2>5 DEF TypeOK, CreateInsert, CreateEnds
<1>3. ASSUME NEW c \in Clients, CreateConflict(c) PROVE TypeOK'
  <2>1. \A d : Drafts(d)' = Drafts(d)
    BY <1>3 DEF CreateConflict, Drafts
  <2>2. QED
    BY <1>3, <2>1 DEF TypeOK, CreateConflict, CreateEnds
<1>4. ASSUME NEW c \in Clients, NEW e \in Ids, AppendRead(c, e) PROVE TypeOK'
  <2>1. \A d : Drafts(d)' = Drafts(d)
    BY <1>4 DEF AppendRead, table_vars, Drafts
  <2>2. Latest(e) + 1 \in Nat \ {0} /\ e \in 1..Len(experiment)
    BY <1>4, LatestIsIndexed DEF AppendRead, TypeOK
  <2>3. draft'[c] \in Drafts(c)
    BY <1>4, <2>2 DEF AppendRead, TypeOK, Drafts
  <2>4. draft' \in [Clients -> [experiment : Nat, version : Nat, author : Clients \cup {NULL}]]
    BY <1>4, <2>2 DEF AppendRead, TypeOK, Ids
  <2>5. QED
    BY <1>4, <2>1, <2>3, <2>4 DEF TypeOK, AppendRead, table_vars
<1>5. ASSUME NEW c \in Clients, AppendInsert(c) PROVE TypeOK'
  <2>1. \A d : Drafts(d)' = Drafts(d)
    BY <1>5 DEF AppendInsert, table_vars, Drafts
  <2>2. Indexed(c) \in Nat
    BY <1>5, LatestIsIndexed, DraftsHaveIds DEF AppendInsert, TypeOK, Indexed
  <2>3. QED
    BY <1>5, <2>1, <2>2 DEF TypeOK, AppendInsert, table_vars
<1>6. ASSUME NEW c \in Clients, AppendRefused(c) \/ Fail(c) PROVE TypeOK'
  <2>1. \A d : Drafts(d)' = Drafts(d)
    BY <1>6 DEF AppendRefused, AppendEnds, Fail, table_vars, Drafts
  <2>2. NoDraft \in [experiment : Nat, version : Nat, author : Clients \cup {NULL}]
    BY DEF NoDraft
  <2>3. CASE AppendRefused(c)
    BY <2>1, <2>2, <2>3 DEF TypeOK, AppendRefused, AppendEnds
  <2>4. CASE Fail(c)
    BY <2>1, <2>2, <2>4 DEF TypeOK, Fail, table_vars
  <2>5. QED
    BY <1>6, <2>3, <2>4
<1>7. ASSUME NEW c \in Clients, AppendCommit(c) PROVE TypeOK'
  <2>1. \A d : Drafts(d)' = Drafts(d)
    BY <1>7 DEF AppendCommit, AppendEnds, Drafts
  <2>2. \A r \in writeup' : \E d \in Clients : r \in Drafts(d)
    BY <1>7 DEF TypeOK, AppendCommit
  <2>3. search' \in [Ids -> Nat]
    BY <1>7 DEF TypeOK, AppendCommit
  <2>4. QED
    BY <1>7, <2>1, <2>2, <2>3 DEF TypeOK, AppendCommit, AppendEnds, NoDraft
<1>8. CASE UNCHANGED vars
  <2>1. \A d : Drafts(d)' = Drafts(d)
    BY <1>8 DEF vars, table_vars, Drafts
  <2>2. QED
    BY <1>8, <2>1 DEF TypeOK, vars, table_vars, request_vars
<1>9. QED
  BY <1>1, <1>2, <1>3, <1>4, <1>5, <1>6, <1>7, <1>8 DEF Next, Request
-----------------------------------------------------------------------------
\* A step that leaves write-ups, index and the drafts in progress alone.
LEMMA AppendsUnchanged ==
  ASSUME AppendsInv, UNCHANGED <<writeup, search>>,
         \A d \in Clients : step'[d] \in {"append", "inserted"} =>
           step'[d] = step[d] /\ draft'[d] = draft[d] /\ indexed'[d] = indexed[d]
  PROVE  AppendsInv'
BY DEF AppendsInv, Versions, SameVersion

\* A row added to the table adds its version to its experiment's.
LEMMA VersionsGrow ==
  ASSUME NEW r, writeup' = writeup \cup {r}
  PROVE  /\ Versions(r.experiment)' = Versions(r.experiment) \cup {r.version}
         /\ \A f : f # r.experiment => Versions(f)' = Versions(f)
BY DEF Versions

LEMMA AppendsStep == TypeOK /\ AppendsInv /\ [Next]_vars => AppendsInv'
<1> SUFFICES ASSUME TypeOK, AppendsInv, [Next]_vars PROVE AppendsInv'
  OBVIOUS
<1> USE CatalogueAssumption DEF CatalogueAssumption
<1>1. ASSUME NEW c \in Clients, NEW p \in Programmes, NEW s \in Slugs,
             NEW name \in Names \cup {NULL}, CreateBegin(c, p, s, name)
      PROVE  AppendsInv'
  BY <1>1, AppendsUnchanged DEF CreateBegin, TypeOK
<1>2. ASSUME NEW c \in Clients, CreateInsert(c) PROVE AppendsInv'
  \* The row of the new experiment starts with no version indexed; it had none.
  <2>1. Len(experiment) + 1 \in Ids
    BY <1>2 DEF CreateInsert, TypeOK, Ids
  <2>2. Versions(Len(experiment) + 1) = {}
    <3> SUFFICES ASSUME NEW r \in writeup, r.experiment = Len(experiment) + 1 PROVE FALSE
      BY DEF Versions
    <3>1. r.experiment \in 1..Len(experiment)
      BY DraftsHaveIds DEF TypeOK
    <3>2. QED
      BY <3>1 DEF TypeOK
  <2>3. search[Len(experiment) + 1] = 0
    <3>1. 1..search[Len(experiment) + 1] = {}
      BY <2>1, <2>2 DEF AppendsInv
    <3>2. search[Len(experiment) + 1] \in Nat
      BY <2>1 DEF TypeOK
    <3>3. QED
      BY <3>1, <3>2
  <2>4. search' = search
    BY <1>2, <2>1, <2>3 DEF CreateInsert, TypeOK
  <2>5. QED
    BY <1>2, <2>4, AppendsUnchanged DEF CreateInsert, CreateEnds, TypeOK
<1>3. ASSUME NEW c \in Clients,
             CreateConflict(c) \/ AppendRefused(c) \/ Fail(c)
      PROVE  AppendsInv'
  <2>1. UNCHANGED <<writeup, search>>
    BY <1>3 DEF CreateConflict, CreateEnds, AppendRefused, Fail, table_vars
  <2>2. \A d \in Clients : step'[d] \in {"append", "inserted"} =>
          step'[d] = step[d] /\ draft'[d] = draft[d] /\ indexed'[d] = indexed[d]
    BY <1>3 DEF CreateConflict, CreateEnds, AppendRefused, AppendEnds, Fail, TypeOK
  <2>3. QED
    BY <2>1, <2>2, AppendsUnchanged
<1>4. ASSUME NEW c \in Clients, NEW e \in Ids, AppendRead(c, e) PROVE AppendsInv'
  <2>1. Latest(e) = search[e] /\ search[e] \in Nat
    BY LatestIsIndexed
  <2>2. /\ UNCHANGED <<writeup, search, indexed>> /\ step[c] = "idle"
        /\ step' = [step EXCEPT ![c] = "append"]
        /\ draft' = [draft EXCEPT ![c] =
             [experiment |-> e, version |-> search[e] + 1, author |-> c]]
    BY <1>4, <2>1 DEF AppendRead, table_vars
  <2>3. \A f \in Ids : Versions(f)' = 1..search'[f]
    BY <2>2 DEF AppendsInv, Versions
  <2>4. \A r, q \in writeup' : SameVersion(r, q) => r = q
    BY <2>2 DEF AppendsInv
  <2>5. \A d \in Clients \ {c} : step'[d] = step[d] /\ draft'[d] = draft[d]
    BY <2>2 DEF TypeOK
  <2>6. step'[c] = "append" /\ draft'[c].experiment = e /\ draft'[c].version = search[e] + 1
    BY <2>2 DEF TypeOK
  <2>7. \A d \in Clients : LET ahead == search'[draft'[d].experiment] + 1 IN
          /\ step'[d] = "append" => draft'[d].version <= ahead
          /\ step'[d] = "inserted" => draft'[d].version = ahead /\ indexed'[d] = ahead
    BY <2>1, <2>2, <2>5, <2>6 DEF AppendsInv
  <2>8. \A d, b \in Clients :
          step'[d] = "inserted" /\ step'[b] = "inserted" /\ d # b =>
            draft'[d].experiment # draft'[b].experiment
    BY <2>5, <2>6 DEF AppendsInv
  <2>9. QED
    BY <2>3, <2>4, <2>7, <2>8 DEF AppendsInv, SameVersion
<1>5. ASSUME NEW c \in Clients, AppendInsert(c) PROVE AppendsInv'
  \* The version is not taken, so it is the next one, and nobody else has
  \* inserted one.
  <2>1. draft[c] \in Drafts(c)
    BY <1>5 DEF AppendInsert, TypeOK
  <2> DEFINE e == draft[c].experiment
  <2>2. /\ e \in Ids /\ draft[c].version \in Nat \ {0}
        /\ Latest(e) = search[e] /\ search[e] \in Nat
    BY <2>1, DraftsHaveIds, LatestIsIndexed
  <2>3. draft[c].version \notin 1..search[e]
    BY <1>5, <2>2 DEF AppendInsert, VersionTaken, SameVersion, AppendsInv, Versions
  <2>4. draft[c].version = search[e] + 1
    BY <1>5, <2>2, <2>3 DEF AppendInsert, AppendsInv
  <2>5. Indexed(c) = draft[c].version
    BY <2>2, <2>4 DEF Indexed
  <2>6. \A d \in Clients \ {c} : step[d] = "inserted" => draft[d].experiment # e
    BY <1>5 DEF AppendInsert, ExperimentLocked
  <2>7. QED
    BY <1>5, <2>4, <2>5, <2>6
       DEF AppendInsert, table_vars, TypeOK, AppendsInv, Versions, SameVersion
<1>6. ASSUME NEW c \in Clients, AppendCommit(c) PROVE AppendsInv'
  <2>0. draft[c].experiment \in Ids
    BY <1>6, DraftsHaveIds DEF AppendCommit, TypeOK
  <2> PICK e \in Ids, row \in {draft[c]} : e = row.experiment
    BY <2>0
  <2>1. /\ search[e] \in Nat /\ row.version = search[e] + 1 /\ row.experiment = e
        /\ search' = [search EXCEPT ![e] = search[e] + 1]
        /\ writeup' = writeup \cup {row}
    BY <1>6 DEF AppendCommit, TypeOK, AppendsInv
  <2>2. Versions(e)' = Versions(e) \cup {search[e] + 1}
          /\ \A f \in Ids \ {e} : Versions(f)' = Versions(f)
    BY <2>1, VersionsGrow
  <2>3. \A f \in Ids : Versions(f)' = 1..search'[f]
    <3>1. Versions(e)' = 1..search'[e]
      <4>1. Versions(e) = 1..search[e]
        BY <2>1 DEF AppendsInv
      <4>2. search'[e] = search[e] + 1
        BY <2>1 DEF TypeOK
      <4>3. QED
        BY <2>1, <2>2, <4>1, <4>2
    <3>2. \A f \in Ids \ {e} : Versions(f)' = 1..search'[f]
      BY <2>1, <2>2 DEF AppendsInv, TypeOK
    <3>3. QED
      BY <3>1, <3>2
  <2>4. \A r \in writeup : ~SameVersion(r, row)
    BY <2>1 DEF AppendsInv, Versions, SameVersion
  <2>5. (\A r, q \in writeup : SameVersion(r, q) => r = q)'
    BY <2>1, <2>4 DEF AppendsInv, SameVersion
  <2>6. \A d \in Clients \ {c} : step'[d] = step[d] /\ draft'[d] = draft[d]
                                  /\ indexed'[d] = indexed[d]
    BY <1>6 DEF AppendCommit, AppendEnds, TypeOK
  <2>7. \A d \in Clients \ {c} : step[d] = "inserted" => draft[d].experiment # e
    BY <1>6 DEF AppendCommit, AppendsInv
  <2>8. step'[c] = "idle"
    BY <1>6 DEF AppendCommit, AppendEnds, TypeOK
  <2>9. ASSUME NEW d \in Clients
        PROVE  LET ahead == search'[draft'[d].experiment] + 1 IN
               /\ step'[d] = "append" => draft'[d].version <= ahead
               /\ step'[d] = "inserted" => draft'[d].version = ahead /\ indexed'[d] = ahead
    <3>1. CASE d = c
      BY <2>8, <3>1
    <3>2. CASE d # c /\ step[d] \in {"append", "inserted"}
      <4>1. draft[d].experiment \in Ids /\ draft[d].version \in Nat
        BY <3>2, DraftsHaveIds DEF TypeOK
      <4>2. search[draft[d].experiment] \in Nat /\ search'[draft[d].experiment] \in Nat
              /\ search[draft[d].experiment] <= search'[draft[d].experiment]
        BY <2>1, <4>1 DEF TypeOK
      <4>3. draft[d].experiment # e => search'[draft[d].experiment] = search[draft[d].experiment]
        BY <2>1, <4>1 DEF TypeOK
      <4>4. QED
        BY <2>6, <2>7, <3>2, <4>1, <4>2, <4>3 DEF AppendsInv
    <3>3. CASE d # c /\ step[d] \notin {"append", "inserted"}
      BY <2>6, <3>3
    <3>4. QED
      BY <3>1, <3>2, <3>3
  <2>10. \A d, f \in Clients :
           step'[d] = "inserted" /\ step'[f] = "inserted" /\ d # f =>
             draft'[d].experiment # draft'[f].experiment
    BY <2>6, <2>8 DEF AppendsInv
  <2>11. QED
    BY <2>3, <2>5, <2>9, <2>10 DEF AppendsInv
<1>7. CASE UNCHANGED vars
  BY <1>7, AppendsUnchanged DEF vars, table_vars, request_vars
<1>8. QED
  BY <1>1, <1>2, <1>3, <1>4, <1>5, <1>6, <1>7 DEF Next, Request

LEMMA InitiallyInvariant == Init => TypeOK /\ AppendsInv
BY CatalogueAssumption
   DEF CatalogueAssumption, Init, TypeOK, AppendsInv, Versions, NoDraft, NoExperiment, Rows

\* Tables and requests are well typed, and drafts are at most one version ahead
\* of what is committed: the invariant that makes the unique index enough.
THEOREM DraftsAreNext == Spec => [](TypeOK /\ AppendsInv)
BY InitiallyInvariant, TypeStep, AppendsStep, PTL DEF Spec

THEOREM TypeCorrect == Spec => []TypeOK
BY DraftsAreNext, PTL

\* The versions of an experiment are 1, 2, 3 and so on, each used once.
THEOREM VersionsAreInOrder == Spec => []VersionsInOrder
<1>1. TypeOK /\ AppendsInv => VersionsInOrder
  <2> SUFFICES ASSUME TypeOK, AppendsInv, NEW r \in writeup, r.version > 1
               PROVE  \E q \in writeup : q.experiment = r.experiment /\ q.version = r.version - 1
    BY DEF AppendsInv, VersionsInOrder
  <2>1. r.experiment \in Ids /\ r.version \in Nat
    BY DraftsHaveIds DEF TypeOK
  <2>2. r.version \in 1..search[r.experiment] /\ search[r.experiment] \in Nat
    BY <2>1 DEF AppendsInv, Versions, TypeOK
  <2>3. r.version - 1 \in Versions(r.experiment)
    BY <2>1, <2>2 DEF AppendsInv
  <2>4. QED
    BY <2>3 DEF Versions
<1>2. QED
  BY <1>1, DraftsAreNext, PTL

\* The write-ups are in order, and every append under way keeps them so.
THEOREM VersionsHold == Spec => []VersionsInv
  BY DraftsAreNext, VersionsAreInOrder, PTL DEF VersionsInv

\* The search index of an experiment has its latest write-up.
THEOREM SearchIsCurrent == Spec => []SearchShowsLatest
<1>1. TypeOK /\ AppendsInv => SearchShowsLatest
  BY LatestIsIndexed, CatalogueAssumption
     DEF CatalogueAssumption, SearchShowsLatest, TypeOK, Ids
<1>2. QED
  BY <1>1, DraftsAreNext, PTL
-----------------------------------------------------------------------------
LEMMA NoEmptyProgrammeStep ==
  TypeOK /\ ProgrammesHaveExperiments /\ [Next]_vars => ProgrammesHaveExperiments'
<1> SUFFICES ASSUME TypeOK, ProgrammesHaveExperiments, [Next]_vars,
                    faults' = 0, NEW p \in Programmes, programme'[p] # NULL
             PROVE  \/ \E i \in DOMAIN experiment' : experiment'[i].programme = p
                    \/ \E c \in Clients : step'[c] = "create" /\ new'[c].programme = p
  BY DEF ProgrammesHaveExperiments
<1> USE CatalogueAssumption DEF CatalogueAssumption
<1>1. ASSUME NEW c \in Clients, NEW q \in Programmes, NEW s \in Slugs,
             NEW name \in Names \cup {NULL}, CreateBegin(c, q, s, name)
      PROVE  \/ \E i \in DOMAIN experiment' : experiment'[i].programme = p
             \/ \E d \in Clients : step'[d] = "create" /\ new'[d].programme = p
  BY <1>1 DEF CreateBegin, TypeOK, ProgrammesHaveExperiments
<1>2. ASSUME NEW c \in Clients, CreateInsert(c)
      PROVE  \/ \E i \in DOMAIN experiment' : experiment'[i].programme = p
             \/ \E d \in Clients : step'[d] = "create" /\ new'[d].programme = p
  <2>1. /\ \A i \in DOMAIN experiment : i \in DOMAIN experiment' /\ experiment'[i] = experiment[i]
        /\ Len(experiment) + 1 \in DOMAIN experiment'
        /\ experiment'[Len(experiment) + 1] = new[c]
    BY <1>2 DEF CreateInsert, TypeOK
  <2>2. \A d \in Clients \ {c} : step'[d] = step[d] /\ new'[d] = new[d]
    BY <1>2 DEF CreateInsert, CreateEnds, TypeOK
  <2>3. faults = 0 /\ programme[p] # NULL
    BY <1>2 DEF CreateInsert, CreateEnds
  <2>4. QED
    BY <2>1, <2>2, <2>3 DEF ProgrammesHaveExperiments
<1>3. ASSUME NEW c \in Clients, CreateConflict(c)
      PROVE  \/ \E i \in DOMAIN experiment' : experiment'[i].programme = p
             \/ \E d \in Clients : step'[d] = "create" /\ new'[d].programme = p
  <2>1. PICK i \in DOMAIN experiment : experiment[i] = new[c]
    BY <1>3 DEF CreateConflict, SlugTaken
  <2>2. \A d \in Clients \ {c} : step'[d] = step[d] /\ new'[d] = new[d]
    BY <1>3 DEF CreateConflict, CreateEnds, TypeOK
  <2>3. UNCHANGED <<programme, experiment, faults>>
    BY <1>3 DEF CreateConflict, CreateEnds
  <2>4. QED
    BY <2>1, <2>2, <2>3 DEF ProgrammesHaveExperiments
<1>4. CASE \E c \in Clients :
             \/ \E e \in Ids : AppendRead(c, e)
             \/ AppendInsert(c) \/ AppendRefused(c) \/ AppendCommit(c)
  <2>1. UNCHANGED <<programme, experiment, new, faults>>
    BY <1>4 DEF AppendRead, AppendInsert, AppendRefused, AppendCommit, AppendEnds, table_vars
  <2>2. \A d \in Clients : step[d] = "create" => step'[d] = "create"
    BY <1>4 DEF AppendRead, AppendInsert, AppendRefused, AppendCommit, AppendEnds, TypeOK
  <2>3. QED
    BY <2>1, <2>2 DEF ProgrammesHaveExperiments
<1>5. ASSUME NEW c \in Clients, Fail(c) PROVE FALSE
  BY <1>5 DEF Fail, TypeOK
<1>6. CASE UNCHANGED vars
  BY <1>6 DEF vars, table_vars, request_vars, ProgrammesHaveExperiments
<1>7. QED
  BY <1>1, <1>2, <1>3, <1>4, <1>5, <1>6 DEF Next, Request

\* Only a failure leaves a programme without experiments; a conflict never does.
THEOREM NoEmptyProgrammes == Spec => []ProgrammesHaveExperiments
<1>1. Init => ProgrammesHaveExperiments
  BY DEF Init, ProgrammesHaveExperiments
<1>2. QED
  BY <1>1, NoEmptyProgrammeStep, TypeCorrect, PTL DEF Spec
-----------------------------------------------------------------------------
(* Refinement of WriteupLog. *)

LEMMA LogIsSequence ==
  ASSUME TypeOK, AppendsInv, NEW e \in Ids
  PROVE  /\ LogOf(e) \in Seq(Clients) /\ Len(LogOf(e)) = search[e]
         /\ DOMAIN LogOf(e) = 1..search[e]
<1>1. Latest(e) = search[e] /\ search[e] \in Nat
  BY LatestIsIndexed
<1>2. ASSUME NEW v \in 1..search[e] PROVE LogOf(e)[v] \in Clients
  <2>1. v \in Versions(e)
    BY <1>1, <1>2 DEF AppendsInv
  <2>2. PICK r \in writeup : r.experiment = e /\ r.version = v
    BY <2>1 DEF Versions
  <2>3. Entry(e, v) \in writeup
    BY <2>2 DEF Entry
  <2>4. QED
    BY <1>1, <2>3, DraftsHaveIds DEF LogOf, TypeOK
<1>3. LogOf(e) \in [1..search[e] -> Clients]
  <2>1. LogOf(e) = [v \in 1..search[e] |-> LogOf(e)[v]]
    BY <1>1 DEF LogOf
  <2>2. QED
    BY <1>2, <2>1
<1>4. QED
  BY <1>1, <1>3

\* A step that keeps the write-ups and the latest versions keeps the log.
LEMMA LogUnchanged ==
  ASSUME UNCHANGED writeup
  PROVE  UNCHANGED [e \in Ids |-> LogOf(e)]
BY DEF LogOf, Entry, Latest, Versions

LEMMA CommitAppends ==
  ASSUME TypeOK, AppendsInv, TypeOK', AppendsInv', NEW c \in Clients, AppendCommit(c)
  PROVE  Log!Next
<1>1. draft[c] \in Drafts(c)
  BY DEF AppendCommit, TypeOK
<1>2. draft[c].experiment \in Ids /\ draft[c].author = c
  BY <1>1, DraftsHaveIds
<1> PICK e \in Ids, row \in {draft[c]} : e = row.experiment
  BY <1>2
<1>3. /\ search[e] \in Nat /\ search'[e] = search[e] + 1
      /\ \A f \in Ids \ {e} : search'[f] = search[f] /\ search[f] \in Nat
      /\ row.version = search[e] + 1 /\ row.experiment = e /\ row.author = c
      /\ writeup' = writeup \cup {row}
  BY <1>2 DEF AppendCommit, TypeOK, AppendsInv
<1>4. \A f \in Ids : Latest(f)' = search'[f]
  <2>1. ASSUME NEW f \in Ids PROVE Latest(f)' = search'[f]
    <3>1. Versions(f)' = 1..search'[f] /\ search'[f] \in Nat
      BY DEF AppendsInv, TypeOK
    <3>2. QED
      BY <3>1 DEF Latest
  <2>2. QED
    BY <2>1
<1>5. ASSUME NEW f \in Ids, NEW v \in Nat, ~(f = e /\ v = search[e] + 1)
      PROVE  Entry(f, v)' = Entry(f, v)
  <2>1. \A q : (q \in writeup' /\ q.experiment = f /\ q.version = v)
              <=> (q \in writeup /\ q.experiment = f /\ q.version = v)
    BY <1>3, <1>5
  <2>2. QED
    BY <2>1 DEF Entry
<1>6. \A v : v = search[e] + 1 => Entry(e, v)' = row
  BY <1>3 DEF AppendsInv, SameVersion, Entry
<1>7. \A f \in Ids \ {e} : LogOf(f)' = LogOf(f)
  <2>1. ASSUME NEW f \in Ids \ {e} PROVE LogOf(f)' = LogOf(f)
    <3>1. Latest(f)' = search[f] /\ Latest(f) = search[f] /\ search[f] \in Nat
      BY <1>3, <1>4, LatestIsIndexed
    <3>2. \A v \in 1..search[f] : Entry(f, v)' = Entry(f, v)
      BY <1>5, <3>1
    <3>3. QED
      BY <3>1, <3>2 DEF LogOf
  <2>2. QED
    BY <2>1
<1>8. LogOf(e)' = Append(LogOf(e), c)
  <2>1. Latest(e)' = search[e] + 1 /\ Latest(e) = search[e]
    BY <1>3, <1>4, LatestIsIndexed
  <2>2. \A v \in 1..search[e] : Entry(e, v)' = Entry(e, v)
    BY <1>3, <1>5
  <2>3. \A v \in 1..search[e] : LogOf(e)[v] = Entry(e, v).author
    BY <2>1 DEF LogOf
  <2>4. LogOf(e)' = [v \in 1..(search[e] + 1) |-> Entry(e, v)'.author]
    BY <2>1 DEF LogOf
  <2>5. LogOf(e)' = [v \in 1..(search[e] + 1) |->
                       IF v = search[e] + 1 THEN c ELSE LogOf(e)[v]]
    BY <1>3, <1>6, <2>2, <2>3, <2>4
  <2>6. LogOf(e) \in Seq(Clients) /\ Len(LogOf(e)) = search[e]
    BY LogIsSequence
  <2>7. QED
    BY <1>3, <2>5, <2>6
<1>9. QED
  BY <1>7, <1>8 DEF Log!Next, Log!AppendEntry

\* The write-ups of an experiment are an append-only log, however appends
\* overlap: each commit adds one entry, and nothing else touches them.
THEOREM WriteupsAreALog == Spec => ImplementsLog
<1>1. Init => Log!Init
  <2>1. ASSUME Init, NEW e \in Ids PROVE LogOf(e) = <<>>
    <3>1. Versions(e) = {}
      BY <2>1 DEF Init, Versions
    <3>2. Latest(e) = 0
      BY <3>1 DEF Latest
    <3>3. QED
      BY <3>2 DEF LogOf
  <2>2. QED
    BY <2>1 DEF Log!Init
<1>2. TypeOK /\ AppendsInv /\ TypeOK' /\ AppendsInv' /\ [Next]_vars
        => [Log!Next]_([e \in Ids |-> LogOf(e)])
  <2> SUFFICES ASSUME TypeOK, AppendsInv, TypeOK', AppendsInv', [Next]_vars
               PROVE  [Log!Next]_([e \in Ids |-> LogOf(e)])
    OBVIOUS
  <2>1. ASSUME NEW c \in Clients, AppendCommit(c) PROVE Log!Next
    BY <2>1, CommitAppends
  <2>2. CASE UNCHANGED writeup
    BY <2>2, LogUnchanged
  <2>3. QED
    BY <2>1, <2>2
       DEF Next, Request, CreateBegin, CreateInsert, CreateConflict, CreateEnds, AppendRead,
           AppendInsert, AppendRefused, AppendEnds, Fail, vars, table_vars
<1>3. QED
  BY <1>1, <1>2, DraftsAreNext, PTL DEF Spec, ImplementsLog, Log!Spec
=============================================================================
