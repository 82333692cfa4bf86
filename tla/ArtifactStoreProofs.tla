------------------------ MODULE ArtifactStoreProofs -------------------------
(***************************************************************************)
(* Proofs about ArtifactStore, for any number of requests, uploads and     *)
(* failures.                                                               *)
(***************************************************************************)
EXTENDS ArtifactStore, SequenceTheorems, FiniteSetTheorems, WellFoundedInduction, TLAPS

Items == UNION {{b[n] : n \in DOMAIN b} : b \in Batches}
Bodies == Items \cup Pointers
ContentSet == [name : {t.name : t \in Bodies}, sha : {t.sha : t \in Bodies}]
Row == [parent : Runs \cup Experiments, name : {t.name : t \in Bodies},
        sha : {t.sha : t \in Bodies}, uri : {p.uri : p \in Pointers} \cup {DriveUri(f) : f \in Nat},
        role : {"produced", "used"}]

\* Clients do not register the server's own files as if they were elsewhere.
ForeignPointers == \A p \in Pointers, f \in Nat : p.uri # DriveUri(f)

\* No client says itself that it used a content.
NobodyClaimsUse ==
  /\ "used" \notin {p.role : p \in Pointers}
  /\ \A b \in Batches : \A n \in DOMAIN b : b[n].role # "used"

\* As rows of lineage, r and s have the same content.
SameRow(r, s) == Content(r) = Content(s) /\ (r.sha = NULL => r.uri = s.uri)

Kept(r) == \A f \in DOMAIN drive : r.uri = DriveUri(f) => drive[f] = Content(r)

Sourced(r, n) == \E j \in 1..n : rows[j].role = "produced" /\ SameRow(r, rows[j])

\* What holds of a row, in the table or about to be inserted, after n others.
RowOk(r, n) ==
  /\ r \in Row /\ r.uri \in Uris
  /\ ForeignPointers => Kept(r)
  /\ (NobodyClaimsUse /\ r.role = "used") => Sourced(r, n)

RequestOk(q) ==
  /\ step[q] \in {"idle", "lookup", "store", "insert", "retry"}
  /\ items[q] \in Seq(Bodies)
  /\ step[q] = "idle" <=> items[q] = <<>>
  /\ step[q] \in {"lookup", "store"} => items[q] \in Seq(Items) /\ parent[q] \in Runs
  /\ step[q] \in {"insert", "retry"} =>
       /\ RowOk(row[q], Len(rows))
       /\ (items[q] \in Seq(Items) /\ parent[q] \in Runs) \/ Len(items[q]) = 1
  /\ step[q] = "retry" => ViolatesUnique(row[q])

TablesOk ==
  /\ rows \in Seq(Row) /\ drive \in Seq(ContentSet)
  /\ pins \in [PinNames -> 0..Len(rows)] /\ faults \in 0..MaxFaults /\ refusals \in Nat
  /\ step \in [Requests -> {"idle", "lookup", "store", "insert", "retry"}]
  /\ DOMAIN parent = Requests /\ DOMAIN items = Requests /\ DOMAIN row = Requests
  /\ \A i \in DOMAIN rows : RowOk(rows[i], i - 1)

\* A content has one producer: what the unique indexes are for.
OneProducer ==
  \A i, j \in DOMAIN rows :
    (/\ rows[i].role = "produced" /\ rows[j].role = "produced" /\ rows[i].name # NULL
     /\ SameRow(rows[i], rows[j])) => i = j

StoreInv ==
  TablesOk /\ (\A q \in Requests : RequestOk(q)) /\ OneProducer /\ OrphansHaveCause
-----------------------------------------------------------------------------
LEMMA MinIsLeast ==
  ASSUME NEW S \in SUBSET Nat, S # {}
  PROVE  Min(S) \in S /\ \A x \in S : Min(S) <= x
<1>1. PICK t \in S : \A u \in S : <<u, t>> \notin OpToRel(<, Nat)
  BY NatLessThanWellFounded, WFMin, Zenon
<1>2. \A u \in S : ~(u < t)
  BY <1>1, Zenon DEF OpToRel
<1>3. \E x \in S : \A y \in S : x <= y
  BY <1>2
<1>4. QED
  BY <1>3 DEF Min

LEMMA LeastIsMin ==
  ASSUME NEW S \in SUBSET Nat, NEW m \in S, \A x \in S : m <= x
  PROVE  Min(S) = m
<1>1. Min(S) \in S /\ Min(S) <= m
  BY MinIsLeast
<1>2. Min(S) \in Nat /\ m \in Nat /\ m <= Min(S)
  BY <1>1
<1>3. QED
  BY <1>1, <1>2

LEMMA StoreInit == Init => StoreInv
<1> SUFFICES ASSUME Init PROVE StoreInv
  OBVIOUS
<1> USE DEF Init
<1>1. /\ rows \in Seq(Row) /\ drive \in Seq(ContentSet) /\ Len(rows) = 0 /\ Len(drive) = 0
      /\ <<>> \in Seq(Bodies)
  BY EmptySeq
<1>2. DOMAIN rows = 1..0 /\ DOMAIN drive = 1..0
  BY <1>1
<1>3. (\A i \in DOMAIN rows : FALSE) /\ (\A f \in DOMAIN drive : FALSE)
  BY <1>2
<1>4. TablesOk
  BY <1>1, <1>3, StoreAssumption DEF TablesOk, StoreAssumption
<1>5. \A q \in Requests : RequestOk(q)
  BY <1>1 DEF RequestOk
<1>6. OneProducer /\ OrphansHaveCause
  <2>1. Orphans = {}
    BY <1>3 DEF Orphans
  <2>2. QED
    BY <1>3, <2>1, FS_EmptySet DEF OneProducer, OrphansHaveCause
<1>7. QED
  BY <1>4, <1>5, <1>6 DEF StoreInv
-----------------------------------------------------------------------------
(* What stays true when tables only grow. *)

Grows ==
  /\ Len(rows) <= Len(rows') /\ rows' \in Seq(Row)
  /\ \A i \in DOMAIN rows : rows'[i] = rows[i]
  /\ drive' \in Seq(ContentSet) /\ Len(drive) <= Len(drive')
  /\ \A f \in DOMAIN drive : drive'[f] = drive[f]

\* Whatever is added, an old row keeps its producer and its file: no row names
\* a file that is not there yet.
LEMMA RowsStayOk ==
  ASSUME TablesOk, Grows, NEW n \in 0..Len(rows), NEW m \in Nat, n <= m, NEW r, RowOk(r, n)
  PROVE  RowOk(r, m)'
<1> USE DEF TablesOk, Grows
<1>1. /\ DOMAIN rows = 1..Len(rows) /\ DOMAIN drive = 1..Len(drive)
      /\ DOMAIN drive' = 1..Len(drive') /\ Len(rows) \in Nat /\ Len(drive) \in Nat
      /\ Len(drive') \in Nat
  BY LenProperties
<1>2. r \in Row /\ r.uri \in Uris'
  BY <1>1 DEF RowOk, Uris
<1>3. ForeignPointers => Kept(r)'
  <2>1. SUFFICES ASSUME ForeignPointers, NEW f \in DOMAIN drive', r.uri = DriveUri(f)
                 PROVE  drive'[f] = Content(r)
    BY DEF Kept
  <2>2. PICK g \in DOMAIN drive : r.uri = DriveUri(g)
    BY <1>1, <2>1 DEF RowOk, Uris, ForeignPointers
  <2>3. f = g
    BY <2>1, <2>2 DEF DriveUri
  <2>4. QED
    BY <2>1, <2>2, <2>3 DEF RowOk, Kept
<1>4. Sourced(r, n) => Sourced(r, m)'
  <2> HIDE DEF TablesOk, Grows
  <2>1. \A j \in 1..n : j \in 1..Len(rows) /\ j \in 1..m
    BY <1>1
  <2>2. \A j \in 1..n : j \in DOMAIN rows /\ j \in 1..m /\ rows'[j] = rows[j]
    BY <1>1, <2>1 DEF Grows
  <2>3. QED
    BY <2>2 DEF Sourced, SameRow
<1>5. QED
  BY <1>2, <1>3, <1>4 DEF RowOk

LEMMA ViolationsStay ==
  ASSUME TablesOk, Grows, NEW r, ViolatesUnique(r)
  PROVE  ViolatesUnique(r)'
<1>1. /\ DOMAIN rows = 1..Len(rows) /\ DOMAIN rows' = 1..Len(rows') /\ Len(rows) \in Nat
      /\ Len(rows') \in Nat
  BY LenProperties DEF TablesOk, Grows
<1>2. QED
  BY <1>1 DEF ViolatesUnique, Grows

\* The requests that a step does not touch.
LEMMA OthersStayOk ==
  ASSUME TablesOk, Grows, NEW q \in Requests, RequestOk(q),
         step'[q] = step[q], parent'[q] = parent[q], items'[q] = items[q], row'[q] = row[q]
  PROVE  RequestOk(q)'
<1>1. Len(rows) \in Nat /\ Len(rows') \in Nat /\ Len(rows) <= Len(rows')
  BY LenProperties DEF TablesOk, Grows
<1>2. ASSUME step[q] \in {"insert", "retry"} PROVE RowOk(row[q], Len(rows))'
  <2>1. RowOk(row[q], Len(rows))
    BY <1>2 DEF RequestOk
  <2>2. \A r, n, m : (n \in 0..Len(rows) /\ m \in Nat /\ n <= m /\ RowOk(r, n)) => RowOk(r, m)'
    BY RowsStayOk
  <2>3. QED
    BY <1>1, <2>1, <2>2
<1>3. QED
  BY <1>2, ViolationsStay DEF RequestOk
-----------------------------------------------------------------------------
\* Only request q changes, and only in these variables.
Acts(q) ==
  /\ step' \in [Requests -> {"idle", "lookup", "store", "insert", "retry"}]
  /\ DOMAIN parent' = Requests /\ DOMAIN items' = Requests /\ DOMAIN row' = Requests
  /\ \A p \in Requests \ {q} :
       step'[p] = step[p] /\ parent'[p] = parent[p] /\ items'[p] = items[p] /\ row'[p] = row[p]

\* A step of a request that adds no row and no file.
LEMMA QuietKeepsInv ==
  ASSUME StoreInv, NEW q \in Requests, Acts(q), UNCHANGED <<rows, drive, pins>>,
         faults' \in 0..MaxFaults, refusals' \in Nat, RequestOk(q)', OrphansHaveCause'
  PROVE  StoreInv'
<1> USE DEF StoreInv
<1>1. Grows /\ Len(rows) \in Nat
  BY LenProperties DEF Grows, TablesOk
<1>2. \A p \in Requests : RequestOk(p)'
  BY <1>1, OthersStayOk DEF Acts
<1>3. \A r, n : (n \in 0..Len(rows) /\ RowOk(r, n)) => RowOk(r, n)'
  BY <1>1, RowsStayOk
<1>4. TablesOk'
  <2>1. \A i \in DOMAIN rows : i - 1 \in 0..Len(rows)
    BY <1>1, LenProperties DEF TablesOk
  <2>2. QED
    BY <1>3, <2>1 DEF TablesOk, Acts
<1>5. OneProducer'
  BY DEF OneProducer, SameRow
<1>6. QED
  BY <1>2, <1>4, <1>5

\* The files nobody owns are finitely many.
LEMMA OrphansAreFinite ==
  ASSUME drive \in Seq(ContentSet)
  PROVE  IsFiniteSet(Orphans) /\ Cardinality(Orphans) \in Nat
<1>1. Orphans \subseteq 1..Len(drive) /\ Len(drive) \in Nat
  BY LenProperties DEF Orphans
<1>2. IsFiniteSet(1..Len(drive))
  BY <1>1, FS_Interval
<1>3. QED
  BY <1>1, <1>2, FS_Subset, FS_CardinalityType

\* Nobody's files are those from before, and one more for one more request that
\* broke off.
LEMMA OrphansCounted ==
  ASSUME StoreInv, drive' \in Seq(ContentSet), NEW g,
         \/ Orphans' \subseteq Orphans /\ UNCHANGED <<faults, refusals>>
         \/ /\ Orphans' \subseteq Orphans \cup {g}
            /\ faults' \in Nat /\ refusals' \in Nat
            /\ faults' + refusals' = faults + refusals + 1
  PROVE  OrphansHaveCause'
<1>1. /\ IsFiniteSet(Orphans) /\ Cardinality(Orphans) \in Nat
      /\ Cardinality(Orphans) <= faults + refusals /\ faults \in Nat /\ refusals \in Nat
  BY OrphansAreFinite DEF StoreInv, TablesOk, OrphansHaveCause
<1>2. CASE Orphans' \subseteq Orphans /\ UNCHANGED <<faults, refusals>>
  <2>1. Cardinality(Orphans') <= Cardinality(Orphans) /\ Cardinality(Orphans') \in Nat
    BY <1>1, <1>2, FS_Subset, FS_CardinalityType
  <2>2. QED
    BY <1>1, <1>2, <2>1 DEF OrphansHaveCause
<1>3. CASE /\ Orphans' \subseteq Orphans \cup {g}
           /\ faults' \in Nat /\ refusals' \in Nat
           /\ faults' + refusals' = faults + refusals + 1
  <2>1. /\ IsFiniteSet(Orphans \cup {g})
        /\ Cardinality(Orphans \cup {g}) \in {Cardinality(Orphans), Cardinality(Orphans) + 1}
    BY <1>1, FS_AddElement
  <2>2. /\ Cardinality(Orphans') <= Cardinality(Orphans \cup {g})
        /\ Cardinality(Orphans') \in Nat /\ Cardinality(Orphans \cup {g}) \in Nat
    BY <1>3, <2>1, FS_Subset, FS_CardinalityType
  <2>3. \A k, l, m \in Nat : (l \in {k, k + 1} /\ m <= l) => m <= k + 1
    OBVIOUS
  <2>4. Cardinality(Orphans') <= Cardinality(Orphans) + 1
    BY <1>1, <2>1, <2>2, <2>3
  <2>5. \A k, m, n, t \in Nat : (k <= n /\ m <= k + 1 /\ t = n + 1) => m <= t
    OBVIOUS
  <2>6. /\ faults + refusals \in Nat /\ faults' + refusals' \in Nat
        /\ faults' + refusals' = (faults + refusals) + 1
    <3>1. \A x, y \in Nat : x + y \in Nat
      OBVIOUS
    <3>2. QED
      BY <1>1, <1>3, <3>1
  <2>7. Cardinality(Orphans') <= faults' + refusals'
    BY <1>1, <2>2, <2>4, <2>5, <2>6
  <2>8. QED
    BY <2>7 DEF OrphansHaveCause
<1>4. QED
  BY <1>2, <1>3

\* Who owns a file keeps it, unless the request that does is the one that acts.
LEMMA OwnersStay ==
  ASSUME StoreInv, NEW q \in Requests, Acts(q), UNCHANGED <<drive, faults, refusals>>,
         \A i \in DOMAIN rows : i \in DOMAIN rows' /\ rows'[i] = rows[i],
         \A f \in DOMAIN drive :
           (step[q] \in {"insert", "retry"} /\ row[q].uri = DriveUri(f)) =>
             \/ \E i \in DOMAIN rows' : rows'[i].uri = DriveUri(f)
             \/ step'[q] \in {"insert", "retry"} /\ row'[q].uri = DriveUri(f)
  PROVE  OrphansHaveCause'
<1>1. ASSUME NEW f \in DOMAIN drive, f \notin Orphans PROVE f \notin Orphans'
  <2>1. CASE \E i \in DOMAIN rows : rows[i].uri = DriveUri(f)
    BY <2>1 DEF Orphans, DriveUri
  <2>2. CASE \E p \in Requests : step[p] \in {"insert", "retry"} /\ row[p].uri = DriveUri(f)
    BY <2>2 DEF Orphans, Acts, DriveUri
  <2>3. QED
    BY <1>1, <2>1, <2>2 DEF Orphans
<1>2. Orphans' \subseteq Orphans
  BY <1>1 DEF Orphans
<1>3. QED
  BY <1>2, OrphansCounted DEF StoreInv, TablesOk

\* The items of an upload are bodies, as are pointers.
LEMMA ItemsAreBodies ==
  /\ \A s \in Seq(Items) : s \in Seq(Bodies)
  /\ \A b \in Batches : b \in Seq(Items) /\ b # <<>>
  /\ \A t \in Items : t.role \in {NULL, "produced", "used"}
<1>1. ASSUME NEW s \in Seq(Items) PROVE s \in Seq(Bodies)
  BY LenProperties DEF Bodies
<1>2. \A b \in Batches : b \in Seq(Items) /\ b # <<>>
  BY StoreAssumption DEF StoreAssumption, Items
<1>3. \A t \in Items : t.role \in {NULL, "produced", "used"}
  BY StoreAssumption DEF StoreAssumption, Items
<1>4. QED
  BY <1>1, <1>2, <1>3

LEMMA BeginKeepsInv ==
  ASSUME StoreInv, NEW q \in Requests,
         \/ \E r \in Runs, b \in Batches : UploadBegin(q, r, b)
         \/ \E p \in Runs \cup Experiments, pointer \in Pointers : RegisterBegin(q, p, pointer)
  PROVE  StoreInv'
<1> USE DEF StoreInv, TablesOk
<1>1. ASSUME NEW r \in Runs, NEW b \in Batches, UploadBegin(q, r, b) PROVE StoreInv'
  <2> USE <1>1 DEF UploadBegin
  <2>1. b \in Seq(Items) /\ b \in Seq(Bodies) /\ b # <<>>
    BY ItemsAreBodies
  <2>2. Acts(q) /\ step'[q] = "lookup" /\ items'[q] = b /\ parent'[q] = r
    BY DEF Acts
  <2>3. RequestOk(q)'
    BY <2>1, <2>2 DEF RequestOk
  <2>4. OrphansHaveCause'
    BY <2>2, OwnersStay
  <2>5. QED
    BY <2>2, <2>3, <2>4, QuietKeepsInv
<1>2. ASSUME NEW p \in Runs \cup Experiments, NEW t \in Pointers, RegisterBegin(q, p, t)
      PROVE  StoreInv'
  <2> USE <1>2 DEF RegisterBegin
  <2>1. /\ Acts(q) /\ step'[q] = "insert" /\ items'[q] = <<t>>
        /\ row'[q] = [parent |-> p, name |-> t.name, sha |-> t.sha, uri |-> t.uri, role |-> t.role]
    BY DEF Acts
  <2>2. <<t>> \in Seq(Bodies) /\ Len(<<t>>) = 1 /\ <<t>> # <<>>
    BY DEF Bodies
  <2>3. t.role \in {"produced", "used"}
    BY StoreAssumption DEF StoreAssumption
  <2>4. RowOk(row[q], Len(rows))'
    <3> DEFINE r == [parent |-> p, name |-> t.name, sha |-> t.sha, uri |-> t.uri, role |-> t.role]
    <3>1. r \in Row /\ row'[q] = r
      BY <2>1, <2>3 DEF Row, Bodies
    <3>2. r.uri \in Uris' /\ r.uri = t.uri /\ r.role = t.role
      BY DEF Uris
    <3>3. \A f \in DOMAIN drive : f \in Nat
      BY LenProperties
    <3>4. ForeignPointers => Kept(r)'
      BY <3>2, <3>3 DEF ForeignPointers, Kept
    <3>5. NobodyClaimsUse => r.role # "used"
      BY <3>2 DEF NobodyClaimsUse
    <3> HIDE DEF r
    <3>6. QED
      BY <3>1, <3>2, <3>4, <3>5 DEF RowOk
  <2>5. RequestOk(q)'
    BY <2>1, <2>2, <2>4 DEF RequestOk
  <2>6. OrphansHaveCause'
    BY <2>1, OwnersStay
  <2>7. QED
    BY <2>1, <2>5, <2>6, QuietKeepsInv
<1>3. QED
  BY <1>1, <1>2

\* The row of an upload: its parent, name and hash are those of the body.
LEMMA UploadedRowFields ==
  ASSUME StoreInv, NEW q \in Requests, step[q] \in {"lookup", "store"},
         NEW u, NEW d \in {"produced", "used"}
  PROVE  /\ Head(items[q]) \in Items
         /\ Content(UploadedRow(q, u, d)) = Content(Head(items[q]))
         /\ UploadedRow(q, u, d).uri = u
         /\ (u \in {p.uri : p \in Pointers} \cup {DriveUri(f) : f \in Nat}) =>
              UploadedRow(q, u, d) \in Row
         /\ (NobodyClaimsUse /\ UploadedRow(q, u, d).role = "used") => d = "used"
<1> DEFINE t == Head(items[q])
<1>1. t \in Items
  BY HeadTailProperties DEF StoreInv, RequestOk
<1>2. t.role \in {NULL, "produced", "used"} /\ parent[q] \in Runs
  BY <1>1, ItemsAreBodies DEF StoreInv, RequestOk
<1>3. t \in Bodies
  BY <1>1 DEF Bodies
<1>4. NobodyClaimsUse => t.role # "used"
  BY <1>1 DEF NobodyClaimsUse, Items
<1> HIDE DEF t
<1>5. UploadedRow(q, u, d) = [parent |-> parent[q], name |-> t.name, sha |-> t.sha, uri |-> u,
                              role |-> IF t.role = NULL THEN d ELSE t.role]
  BY DEF UploadedRow, t
<1>6. (IF t.role = NULL THEN d ELSE t.role) \in {"produced", "used"}
  BY <1>2
<1>7. (u \in {p.uri : p \in Pointers} \cup {DriveUri(f) : f \in Nat}) =>
        UploadedRow(q, u, d) \in Row
  BY <1>2, <1>3, <1>5, <1>6 DEF Row
<1>8. Content(UploadedRow(q, u, d)) = Content(t) /\ UploadedRow(q, u, d).uri = u
  BY <1>5 DEF Content
<1>9. (NobodyClaimsUse /\ UploadedRow(q, u, d).role = "used") => d = "used"
  BY <1>4, <1>5
<1>10. QED
  BY <1>1, <1>7, <1>8, <1>9 DEF t

\* The row an upload reuses has its content, and a producer if any row has.
LEMMA ExistingRow ==
  ASSUME StoreInv, NEW t, Matches(t) # {}
  PROVE  \E i \in DOMAIN rows :
           /\ Existing(t) = rows[i] /\ Content(rows[i]) = Content(t)
           /\ NobodyClaimsUse => rows[i].role = "produced"
<1> DEFINE P == {i \in Matches(t) : rows[i].role = "produced"}
<1>1. /\ rows \in Seq(Row) /\ DOMAIN rows = 1..Len(rows) /\ Len(rows) \in Nat
      /\ \A i \in DOMAIN rows : RowOk(rows[i], i - 1)
  BY LenProperties DEF StoreInv, TablesOk
<1>2. Matches(t) \in SUBSET Nat /\ P \in SUBSET Nat
  BY <1>1 DEF Matches
<1>3. Existing(t) = rows[Min(IF P # {} THEN P ELSE Matches(t))]
  BY DEF Existing
<1>4. CASE P # {}
  <2>1. Min(P) \in P
    BY <1>2, <1>4, MinIsLeast
  <2>2. QED
    BY <1>3, <1>4, <2>1 DEF Matches
<1>5. CASE P = {}
  <2>1. Min(Matches(t)) \in Matches(t)
    BY <1>2, MinIsLeast
  <2>2. ASSUME NobodyClaimsUse PROVE FALSE
    <3>1. PICK i \in Matches(t) : TRUE
      OBVIOUS
    <3>2. i \in 1..Len(rows) /\ rows[i] \in Row /\ rows[i].role # "produced"
      BY <1>1, <1>5 DEF Matches
    <3>3. rows[i].role = "used"
      BY <3>2 DEF Row
    <3>4. PICK j \in 1..(i - 1) : rows[j].role = "produced" /\ SameRow(rows[i], rows[j])
      BY <1>1, <2>2, <3>2, <3>3 DEF RowOk, Sourced
    <3>5. j \in DOMAIN rows /\ Content(rows[j]) = Content(t)
      BY <1>1, <3>2, <3>4 DEF SameRow, Matches
    <3>6. j \in P
      BY <3>4, <3>5 DEF Matches
    <3>7. QED
      BY <1>5, <3>6
  <2>3. QED
    BY <1>3, <1>5, <2>1, <2>2 DEF Matches
<1>6. QED
  BY <1>4, <1>5

LEMMA LookUpKeepsInv ==
  ASSUME StoreInv, NEW q \in Requests, LookUp(q)
  PROVE  StoreInv'
<1> DEFINE t == Head(items[q])
<1>1. /\ step[q] = "lookup" /\ UNCHANGED <<rows, drive, pins, parent, items, faults, refusals>>
      /\ RequestOk(q) /\ TablesOk
  BY DEF LookUp, StoreInv
<1>2. items'[q] = items[q] /\ parent'[q] = parent[q] /\ items[q] # <<>>
      /\ items[q] \in Seq(Items) /\ items[q] \in Seq(Bodies) /\ parent[q] \in Runs
  BY <1>1 DEF RequestOk
<1>3. CASE Matches(t) = {}
  <2>1. Acts(q) /\ step'[q] = "store"
    BY <1>1, <1>3 DEF LookUp, Acts, TablesOk
  <2>2. RequestOk(q)'
    BY <1>2, <2>1 DEF RequestOk
  <2>3. OrphansHaveCause'
    BY <1>1, <2>1, OwnersStay
  <2>4. QED
    BY <1>1, <2>1, <2>2, <2>3, QuietKeepsInv DEF TablesOk
<1>4. CASE Matches(t) # {}
  <2> DEFINE e == Existing(t)  r == UploadedRow(q, e.uri, "used")
  <2>1. Acts(q) /\ step'[q] = "insert" /\ row'[q] = r
    BY <1>1, <1>4 DEF LookUp, Acts, TablesOk
  <2>2. PICK i \in DOMAIN rows : /\ e = rows[i] /\ Content(rows[i]) = Content(t)
                                 /\ NobodyClaimsUse => rows[i].role = "produced"
    BY <1>4, ExistingRow
  <2>3. RowOk(e, i - 1) /\ e \in Row
    BY <1>1, <2>2 DEF TablesOk, RowOk
  <2>4. e.uri \in {p.uri : p \in Pointers} \cup {DriveUri(f) : f \in Nat}
    BY <2>3 DEF Row
  <2>5. Content(r) = Content(t) /\ r.uri = e.uri /\ r \in Row
    BY <1>1, <2>4, UploadedRowFields
  <2> HIDE DEF r, e
  <2>6. r.uri \in Uris /\ (ForeignPointers => Kept(r))
    BY <2>2, <2>3, <2>5 DEF RowOk, Kept
  <2>7. NobodyClaimsUse => Sourced(r, Len(rows))
    <3>1. i \in 1..Len(rows)
      BY <1>1, LenProperties DEF TablesOk
    <3>2. QED
      BY <2>2, <2>5, <3>1 DEF Sourced, SameRow
  <2>8. RowOk(r, Len(rows))
    BY <2>5, <2>6, <2>7 DEF RowOk
  <2>9. \A s, n : RowOk(s, n) => RowOk(s, n)'
    BY <1>1 DEF RowOk, Uris, Kept, Sourced, SameRow
  <2>10. RowOk(row[q], Len(rows))'
    BY <1>1, <2>1, <2>8, <2>9
  <2>11. RequestOk(q)'
    BY <1>2, <2>1, <2>10 DEF RequestOk
  <2>12. OrphansHaveCause'
    BY <1>1, <2>1, OwnersStay
  <2>13. QED
    BY <1>1, <2>1, <2>11, <2>12, QuietKeepsInv DEF TablesOk
<1>5. QED
  BY <1>3, <1>4

\* The new file holds the content of its row, and no older row names it.
LEMMA StoreKeepsInv ==
  ASSUME StoreInv, NEW q \in Requests, Store(q)
  PROVE  StoreInv'
<1> DEFINE t == Head(items[q])  n == Len(drive) + 1  r == UploadedRow(q, DriveUri(n), "produced")
<1>1. /\ step[q] = "store" /\ UNCHANGED <<rows, pins, parent, items, faults, refusals>>
      /\ drive' = Append(drive, Content(t))
      /\ RequestOk(q) /\ TablesOk
  BY DEF Store, StoreInv
<1>2. items'[q] = items[q] /\ parent'[q] = parent[q] /\ items[q] # <<>>
      /\ items[q] \in Seq(Items) /\ items[q] \in Seq(Bodies) /\ parent[q] \in Runs
  BY <1>1 DEF RequestOk
<1>3. Acts(q) /\ step'[q] = "insert" /\ row'[q] = r
  BY <1>1 DEF Store, Acts, TablesOk
<1>4. n \in Nat /\ n > 0
  BY <1>1, LenProperties DEF TablesOk
<1>5. /\ t \in Items /\ Content(r) = Content(t) /\ r.uri = DriveUri(n) /\ r \in Row
      /\ NobodyClaimsUse => r.role # "used"
  BY <1>1, <1>4, UploadedRowFields
<1>6. Content(t) \in ContentSet
  BY <1>5 DEF Content, ContentSet, Bodies
<1> HIDE DEF r, t
<1>7. /\ drive' \in Seq(ContentSet) /\ DOMAIN drive' = 1..n /\ DOMAIN drive = 1..(n - 1)
      /\ Len(drive') = n /\ drive'[n] = Content(t) /\ \A f \in DOMAIN drive : drive'[f] = drive[f]
  BY <1>1, <1>4, <1>6, AppendProperties, LenProperties DEF TablesOk
<1>8. Grows /\ Len(rows) \in Nat
  BY <1>1, <1>4, <1>7, LenProperties DEF Grows, TablesOk
<1>9. RowOk(row[q], Len(rows))'
  <2>1. r.uri \in Uris'
    BY <1>4, <1>5, <1>7 DEF Uris
  <2>2. ASSUME NEW f \in DOMAIN drive', r.uri = DriveUri(f) PROVE drive'[f] = Content(r)
    <3>1. f = n
      BY <1>5, <2>2 DEF DriveUri
    <3>2. QED
      BY <1>5, <1>7, <3>1
  <2>3. QED
    BY <1>3, <1>5, <2>1, <2>2 DEF RowOk, Kept
<1>10. RequestOk(q)'
  BY <1>2, <1>3, <1>9 DEF RequestOk
<1>11. \A p \in Requests : RequestOk(p)'
  BY <1>1, <1>3, <1>8, <1>10, OthersStayOk DEF StoreInv, Acts
<1>12. TablesOk'
  <2>1. \A s, k : (k \in 0..Len(rows) /\ RowOk(s, k)) => RowOk(s, k)'
    BY <1>1, <1>8, RowsStayOk
  <2>2. \A i \in DOMAIN rows : i - 1 \in 0..Len(rows)
    BY <1>1, <1>8, LenProperties DEF TablesOk
  <2>3. QED
    BY <1>1, <1>3, <1>7, <2>1, <2>2 DEF TablesOk, Acts
<1>13. OneProducer'
  BY <1>1 DEF StoreInv, OneProducer, SameRow
<1>14. OrphansHaveCause'
  <2>1. n \notin Orphans'
    BY <1>3, <1>5 DEF Orphans, DriveUri
  <2>2. ASSUME NEW f \in DOMAIN drive, f \in Orphans' PROVE f \in Orphans
    BY <1>1, <1>3, <2>2 DEF Orphans, Acts, DriveUri
  <2>3. Orphans' \subseteq Orphans
    <3>1. \A f \in 1..n : f # n => f \in 1..(n - 1)
      BY <1>4
    <3>2. \A f \in Orphans' : f \in 1..n
      BY <1>7 DEF Orphans
    <3>3. QED
      BY <1>7, <2>1, <2>2, <3>1, <3>2
  <2>4. QED
    BY <1>1, <1>7, <2>3, OrphansCounted
<1>15. QED
  BY <1>11, <1>12, <1>13, <1>14 DEF StoreInv

\* After an item its request goes on to the next, or answers.
LEMMA NextItemOk ==
  ASSUME StoreInv, NEW q \in Requests, step[q] \in {"insert", "retry"}, NextItem(q),
         UNCHANGED <<drive, pins, faults, refusals>>
  PROVE  Acts(q) /\ RequestOk(q)'
<1>1. RequestOk(q) /\ TablesOk /\ items[q] \in Seq(Bodies) /\ items[q] # <<>>
      /\ ((items[q] \in Seq(Items) /\ parent[q] \in Runs) \/ Len(items[q]) = 1)
  BY DEF StoreInv, RequestOk
<1>2. /\ Tail(items[q]) \in Seq(Bodies) /\ Len(Tail(items[q])) = Len(items[q]) - 1
      /\ Len(items[q]) \in Nat /\ Len(items[q]) > 0
  BY <1>1, HeadTailProperties, EmptySeq
<1>3. Acts(q) /\ items'[q] = Tail(items[q])
  BY <1>1 DEF NextItem, Acts, TablesOk
<1>4. CASE Len(items[q]) > 1
  <2>1. items[q] \in Seq(Items) /\ parent[q] \in Runs
    <3>1. \A l \in Nat : l > 1 => l # 1
      OBVIOUS
    <3>2. QED
      BY <1>1, <1>2, <1>4, <3>1
  <2>2. Tail(items[q]) \in Seq(Items) /\ Tail(items[q]) # <<>>
    <3>1. \A l \in Nat : l > 1 => l - 1 # 0
      OBVIOUS
    <3>2. Len(Tail(items[q])) # 0
      BY <1>2, <1>4, <3>1
    <3>3. Tail(items[q]) # <<>>
      BY <3>2, EmptySeq
    <3>4. QED
      BY <1>1, <2>1, <3>3, HeadTailProperties
  <2>3. step'[q] = "lookup" /\ parent'[q] = parent[q]
    BY <1>1, <1>4 DEF NextItem, TablesOk
  <2>4. QED
    BY <1>2, <1>3, <2>1, <2>2, <2>3 DEF RequestOk
<1>5. CASE ~(Len(items[q]) > 1)
  <2>1. Tail(items[q]) = <<>>
    BY <1>2, <1>5, EmptySeq
  <2>2. step'[q] = "idle"
    BY <1>1, <1>5 DEF NextItem, TablesOk
  <2>3. QED
    BY <1>2, <1>3, <2>1, <2>2 DEF RequestOk
<1>6. QED
  BY <1>4, <1>5

\* A row is added: no second producer of its content.
LEMMA RowAddedKeepsInv ==
  ASSUME StoreInv, NEW q \in Requests, step[q] \in {"insert", "retry"},
         NEW r, RowOk(r, Len(rows)), r.uri = row[q].uri,
         r.role = "produced" => ~ViolatesUnique(r),
         rows' = Append(rows, r), NextItem(q), UNCHANGED <<drive, pins, faults, refusals>>
  PROVE  StoreInv'
<1> DEFINE n == Len(rows) + 1
<1>1. TablesOk /\ r \in Row
  BY DEF StoreInv, RowOk
<1>2. /\ rows' \in Seq(Row) /\ DOMAIN rows' = 1..n /\ DOMAIN rows = 1..(n - 1) /\ n \in Nat
      /\ Len(rows') = n /\ rows'[n] = r /\ \A i \in DOMAIN rows : rows'[i] = rows[i]
  BY <1>1, AppendProperties, LenProperties DEF TablesOk
<1>3. Grows /\ Len(rows) \in Nat
  BY <1>1, <1>2, LenProperties DEF Grows, TablesOk
<1>4. Acts(q) /\ RequestOk(q)'
  BY NextItemOk
<1>5. \A p \in Requests : RequestOk(p)'
  BY <1>1, <1>3, <1>4, OthersStayOk DEF StoreInv, Acts
<1>6. TablesOk'
  <2>1. \A s, k : (k \in 0..Len(rows) /\ RowOk(s, k)) => RowOk(s, k)'
    BY <1>1, <1>3, RowsStayOk
  <2>2. RowOk(r, Len(rows)) /\ Len(rows) = n - 1
    BY <1>3
  <2>3. \A i \in DOMAIN rows : i - 1 \in 0..Len(rows) /\ RowOk(rows[i], i - 1)
    BY <1>1, <1>2 DEF TablesOk
  <2>4. \A i \in 1..n : RowOk(rows[i], i - 1)'
    <3>1. ASSUME NEW i \in 1..n PROVE \E s : s = rows'[i] /\ RowOk(s, i - 1)'
      <4>1. CASE i = n
        BY <1>2, <1>3, <2>1, <2>2, <4>1
      <4>2. CASE i # n
        BY <1>2, <2>1, <2>3, <4>2
      <4>3. QED
        BY <4>1, <4>2
    <3>2. QED
      BY <3>1
  <2>5. pins' \in [PinNames -> 0..Len(rows')]
    BY <1>1, <1>2 DEF TablesOk
  <2>6. QED
    BY <1>1, <1>2, <1>4, <2>4, <2>5 DEF TablesOk, Acts
<1>7. OneProducer'
  <2>1. SUFFICES ASSUME NEW i \in 1..n, NEW j \in 1..n,
                        rows'[i].role = "produced", rows'[j].role = "produced",
                        rows'[i].name # NULL, SameRow(rows'[i], rows'[j])
                 PROVE  i = j
    BY <1>2 DEF OneProducer, SameRow, Content
  <2>2. CASE i \in DOMAIN rows /\ j \in DOMAIN rows
    BY <1>2, <2>1, <2>2 DEF StoreInv, OneProducer
  <2>3. CASE i = n /\ j \in DOMAIN rows
    BY <1>2, <2>1, <2>3 DEF ViolatesUnique, SameRow
  <2>4. CASE j = n /\ i \in DOMAIN rows
    <3>1. r.name # NULL /\ rows[i].role = "produced" /\ Content(rows[i]) = Content(r)
          /\ (r.sha = NULL => rows[i].uri = r.uri)
      BY <1>2, <2>1, <2>4 DEF SameRow, Content
    <3>2. QED
      BY <1>2, <2>1, <2>4, <3>1 DEF ViolatesUnique
  <2>5. QED
    BY <1>2, <2>2, <2>3, <2>4
<1>8. OrphansHaveCause'
  BY <1>2, <1>4, OwnersStay
<1>9. QED
  BY <1>5, <1>6, <1>7, <1>8 DEF StoreInv

LEMMA InsertKeepsInv ==
  ASSUME StoreInv, NEW q \in Requests, Insert(q)
  PROVE  StoreInv'
<1>1. /\ step[q] = "insert" /\ UNCHANGED <<drive, pins, faults, refusals>> /\ RequestOk(q) /\ TablesOk
      /\ RowOk(row[q], Len(rows))
  BY DEF Insert, StoreInv, RequestOk
<1>2. CASE ViolatesUnique(row[q])
  <2>1. /\ UNCHANGED <<rows, parent, items, row>> /\ Acts(q) /\ step'[q] = "retry"
    BY <1>1, <1>2 DEF Insert, Acts, TablesOk
  <2>2. RequestOk(q)'
    BY <1>1, <1>2, <2>1 DEF RequestOk, RowOk, Uris, Kept, Sourced, SameRow, ViolatesUnique
  <2>3. OrphansHaveCause'
    BY <1>1, <2>1, OwnersStay
  <2>4. QED
    BY <1>1, <2>1, <2>2, <2>3, QuietKeepsInv DEF TablesOk
<1>3. CASE ~ViolatesUnique(row[q])
  <2>1. rows' = Append(rows, row[q]) /\ NextItem(q)
    BY <1>3 DEF Insert
  <2>2. QED
    BY <1>1, <1>3, <2>1, RowAddedKeepsInv
<1>4. QED
  BY <1>2, <1>3

\* The loser of the race is registered as a user of the winner's content.
LEMMA RetryKeepsInv ==
  ASSUME StoreInv, NEW q \in Requests, Retry(q)
  PROVE  StoreInv'
<1> DEFINE r == [row[q] EXCEPT !.role = "used"]  n == Len(rows)
<1>1. /\ step[q] = "retry" /\ UNCHANGED <<drive, pins, faults, refusals>> /\ TablesOk
      /\ rows' = Append(rows, r) /\ NextItem(q)
      /\ RowOk(row[q], n) /\ ViolatesUnique(row[q])
  BY DEF Retry, StoreInv, RequestOk
<1>2. /\ row[q] \in Row /\ r \in Row /\ r.role = "used" /\ r.uri = row[q].uri
      /\ r.name = row[q].name /\ r.sha = row[q].sha
  BY <1>1 DEF RowOk, Row
<1> HIDE DEF r
<1>3. Sourced(r, n)
  <2>1. PICK i \in DOMAIN rows :
          /\ rows[i].role = "produced" /\ Content(rows[i]) = Content(row[q])
          /\ row[q].sha = NULL => rows[i].uri = row[q].uri
    BY <1>1 DEF ViolatesUnique
  <2>2. i \in 1..n
    BY <1>1, LenProperties DEF TablesOk
  <2>3. Content(r) = Content(row[q])
    BY <1>2 DEF Content
  <2>4. QED
    BY <1>2, <2>1, <2>2, <2>3 DEF Sourced, SameRow
<1>4. RowOk(r, n)
  BY <1>1, <1>2, <1>3 DEF RowOk, Kept, Content
<1>5. QED
  BY <1>1, <1>2, <1>4, RowAddedKeepsInv

\* A request that breaks off leaves at most the file of the row it had not
\* inserted.
LEMMA BreakOffKeepsInv ==
  ASSUME StoreInv, NEW q \in Requests, BreakOff(q),
         faults' \in 0..MaxFaults, refusals' \in Nat,
         faults' + refusals' = faults + refusals + 1
  PROVE  StoreInv'
<1>1. /\ Acts(q) /\ step'[q] = "idle" /\ items'[q] = <<>> /\ UNCHANGED <<rows, drive, pins>>
      /\ drive \in Seq(ContentSet)
  BY DEF StoreInv, TablesOk, BreakOff, Acts
<1>2. RequestOk(q)'
  BY <1>1, EmptySeq DEF RequestOk
<1>3. \E g : Orphans' \subseteq Orphans \cup {g}
  <2>1. ASSUME NEW f \in Orphans', f \notin Orphans PROVE row[q].uri = DriveUri(f)
    BY <1>1, <2>1 DEF Orphans, Acts, DriveUri
  <2>2. \A f, g : DriveUri(f) = DriveUri(g) => f = g
    BY DEF DriveUri
  <2>3. \A f, g \in Orphans' : f \notin Orphans /\ g \notin Orphans => f = g
    BY <2>1, <2>2
  <2>4. QED
    BY <2>3
<1>4. OrphansHaveCause'
  <2>1. faults' \in Nat
    BY StoreAssumption DEF StoreAssumption
  <2>2. QED
    BY <1>1, <1>3, <2>1, OrphansCounted
<1>5. QED
  BY <1>1, <1>2, <1>4, QuietKeepsInv

LEMMA FailKeepsInv ==
  ASSUME StoreInv, NEW q \in Requests, Fail(q)
  PROVE  StoreInv'
<1>1. faults \in 0..MaxFaults /\ refusals \in Nat /\ MaxFaults \in Nat
  BY StoreAssumption DEF StoreAssumption, StoreInv, TablesOk
<1>2. BreakOff(q) /\ faults < MaxFaults /\ faults' = faults + 1 /\ refusals' = refusals
  BY DEF Fail
<1>3. faults' \in 0..MaxFaults /\ faults' + refusals' = faults + refusals + 1
  BY <1>1, <1>2
<1>4. QED
  BY <1>1, <1>2, <1>3, BreakOffKeepsInv

LEMMA RefuseKeepsInv ==
  ASSUME StoreInv, NEW q \in Requests, Refuse(q)
  PROVE  StoreInv'
<1>1. faults \in 0..MaxFaults /\ faults \in Nat /\ refusals \in Nat
  BY StoreAssumption DEF StoreAssumption, StoreInv, TablesOk
<1>2. BreakOff(q) /\ refusals' = refusals + 1 /\ faults' = faults
  BY DEF Refuse
<1>3. refusals' \in Nat /\ faults' + refusals' = faults + refusals + 1
  BY <1>1, <1>2
<1>4. QED
  BY <1>1, <1>2, <1>3, BreakOffKeepsInv

LEMMA PinKeepsInv ==
  ASSUME StoreInv, NEW p \in PinNames, NEW i, SetPin(p, i)
  PROVE  StoreInv'
<1>1. /\ i \in 1..Len(rows) /\ pins' = [pins EXCEPT ![p] = i]
      /\ UNCHANGED <<rows, drive, step, parent, items, row, faults, refusals>>
  BY LenProperties DEF SetPin, request_vars, StoreInv, TablesOk
<1>2. TablesOk'
  <2>1. pins' \in [PinNames -> 0..Len(rows')]
    BY <1>1 DEF StoreInv, TablesOk
  <2>2. \A j \in DOMAIN rows : RowOk(rows[j], j - 1)'
    BY <1>1 DEF StoreInv, TablesOk, RowOk, Uris, Kept, Sourced, SameRow
  <2>3. QED
    BY <1>1, <2>1, <2>2 DEF StoreInv, TablesOk
<1>3. \A q \in Requests : RequestOk(q)'
  BY <1>1 DEF StoreInv, RequestOk, RowOk, Uris, Kept, Sourced, SameRow, ViolatesUnique
<1>4. OneProducer' /\ OrphansHaveCause'
  BY <1>1 DEF StoreInv, OneProducer, SameRow, OrphansHaveCause, Orphans, DriveUri
<1>5. QED
  BY <1>2, <1>3, <1>4 DEF StoreInv

LEMMA StoreStep == StoreInv /\ [Next]_vars => StoreInv'
<1> SUFFICES ASSUME StoreInv, [Next]_vars PROVE StoreInv'
  OBVIOUS
<1>1. ASSUME NEW q \in Requests, Request(q) PROVE StoreInv'
  BY <1>1, BeginKeepsInv, LookUpKeepsInv, StoreKeepsInv, InsertKeepsInv, RetryKeepsInv,
     FailKeepsInv, RefuseKeepsInv DEF Request
<1>2. ASSUME NEW p \in PinNames, NEW i \in 1..MaxRows, SetPin(p, i) PROVE StoreInv'
  BY <1>2, PinKeepsInv
<1>3. CASE UNCHANGED vars
  <2>1. UNCHANGED <<rows, drive, pins, step, parent, items, row, faults, refusals>>
    BY <1>3 DEF vars, request_vars
  <2>2. TablesOk' /\ OneProducer' /\ OrphansHaveCause'
    BY <2>1 DEF StoreInv, TablesOk, RowOk, Uris, Kept, Sourced, SameRow, OneProducer, OrphansHaveCause,
             Orphans, DriveUri
  <2>3. \A q \in Requests : RequestOk(q)'
    BY <2>1 DEF StoreInv, RequestOk, RowOk, Uris, Kept, Sourced, SameRow, ViolatesUnique
  <2>4. QED
    BY <2>2, <2>3 DEF StoreInv
<1>4. QED
  BY <1>1, <1>2, <1>3 DEF Next

LEMMA StoreInvHolds == Spec => []StoreInv
<1>1. QED
  BY StoreInit, StoreStep, PTL DEF Spec
-----------------------------------------------------------------------------
\* Whichever uploads and registrations race, who used a content got it from a
\* producer, and a reused Drive file holds it, provided no client registers the
\* server's own files as its own (find_artifact_by_name_sha,
\* _upload_or_dedup_artifact, register_artifact).
THEOREM ContentStaysTrue == ForeignPointers => (Spec => []ContentIsTrue)
<1> SUFFICES ASSUME ForeignPointers PROVE Spec => []ContentIsTrue
  OBVIOUS
<1>1. StoreInv => ContentIsTrue
  <2> SUFFICES ASSUME StoreInv PROVE ContentIsTrue
    OBVIOUS
  <2>1. /\ rows \in Seq(Row) /\ DOMAIN rows = 1..Len(rows) /\ Len(rows) \in Nat
        /\ \A i \in DOMAIN rows : RowOk(rows[i], i - 1)
    BY LenProperties DEF StoreInv, TablesOk
  <2>2. TypeOK
    <3>1. \A i \in DOMAIN rows : rows[i].parent \in Runs \cup Experiments /\ rows[i].uri \in Uris
                                   /\ rows[i].role \in {"produced", "used"}
      BY <2>1 DEF RowOk, Row
    <3>2. pins \in [PinNames -> 0..Len(rows)] /\ faults \in 0..MaxFaults /\ refusals \in Nat
      BY DEF StoreInv, TablesOk
    <3>3. step \in [Requests -> {"idle", "lookup", "store", "insert", "retry"}]
      BY DEF StoreInv, TablesOk
    <3>4. \A q \in Requests : /\ step[q] = "idle" <=> items[q] = <<>>
                              /\ step[q] \in {"insert", "retry"} => row[q].uri \in Uris
      BY DEF StoreInv, RequestOk, RowOk
    <3>5. QED
      BY <3>1, <3>2, <3>3, <3>4 DEF TypeOK
  <2>3. DriveFileHoldsContent
    BY <2>1 DEF DriveFileHoldsContent, RowOk, Kept
  <2>4. UsedContentWasProduced
    <3>1. SUFFICES ASSUME NobodyClaimsUse, NEW i \in DOMAIN rows, rows[i].role = "used"
                   PROVE  \E j \in 1..(i - 1) : rows[j].role = "produced" /\ SameContent(i, j)
      BY DEF UsedContentWasProduced, NobodyClaimsUse
    <3>2. QED
      BY <2>1, <3>1 DEF RowOk, Sourced, SameRow, SameContent
  <2>5. QED
    BY <2>2, <2>3, <2>4 DEF ContentIsTrue
<1>2. QED
  BY <1>1, StoreInvHolds, PTL

\* No run is dropped from lineage, whichever requests raced, unless an
\* experiment used the content: what the unique indexes and the second INSERT
\* are for (register_artifact, get_artifact_lineage).
THEOREM LineageStaysComplete == Spec => []LineageNamesEveryRun
<1>1. StoreInv => LineageNamesEveryRun
  <2> DEFINE AnExperimentUses(i) ==
        \E j \in DOMAIN rows :
          SameContent(i, j) /\ rows[j].role = "used" /\ rows[j].parent \in Experiments
  <2>1. SUFFICES ASSUME StoreInv, NEW i \in DOMAIN rows, rows[i].name # NULL,
                        rows[i].parent \in Runs, ~AnExperimentUses(i)
                 PROVE  rows[i].parent \in {Lineage(i).produced_by} \cup Lineage(i).used_by
    BY DEF LineageNamesEveryRun
  <2> DEFINE P == {j \in Group(i) : rows[j].role = "produced"}
  <2>2. /\ rows \in Seq(Row) /\ DOMAIN rows = 1..Len(rows) /\ Len(rows) \in Nat
    BY LenProperties, <2>1 DEF StoreInv, TablesOk
  <2>3. rows[i] \in Row /\ RunOf(i) = rows[i].parent
    BY <2>1, <2>2 DEF RunOf
  <2>4. i \in Group(i)
    BY <2>1 DEF Group, SameContent
  <2>5. NULL \notin Users(i)
    <3>1. ASSUME NEW j \in Group(i), rows[j].role = "used" PROVE RunOf(j) # NULL
      <4>1. j \in DOMAIN rows /\ rows[j] \in Row /\ SameContent(i, j)
        BY <2>2 DEF Group
      <4>2. rows[j].parent \in Runs
        BY <2>1, <3>1, <4>1 DEF Row
      <4>3. QED
        BY <4>2, StoreAssumption DEF RunOf, StoreAssumption
    <3>2. QED
      BY <3>1 DEF Users
  <2>6. /\ Lineage(i).used_by = Users(i)
        /\ Lineage(i).produced_by = IF P = {} THEN NULL ELSE RunOf(Min(P))
    BY <2>5 DEF Lineage
  <2>7. CASE rows[i].role = "used"
    BY <2>3, <2>4, <2>6, <2>7 DEF Users
  <2>8. CASE rows[i].role = "produced"
    <3>1. i \in P
      BY <2>4, <2>8
    <3>2. \A j \in P : j = i
      BY <2>1, <2>8 DEF StoreInv, OneProducer, SameRow, SameContent, Group
    <3>3. P \in SUBSET Nat /\ \A j \in P : i <= j
      BY <2>2, <3>2 DEF Group
    <3>4. Min(P) = i
      BY <3>1, <3>3, LeastIsMin
    <3>5. QED
      BY <2>3, <2>6, <3>1, <3>4
  <2>9. QED
    BY <2>3, <2>7, <2>8 DEF Row
<1>2. QED
  BY <1>1, StoreInvHolds, PTL

\* Every file on Drive without a row, or a request about to insert one, has a
\* request of its own that broke off, whichever uploads raced and however many
\* files each stored (_upload_or_dedup_artifact).
THEOREM FilesStayOwned == Spec => []OrphansHaveCause
<1>1. StoreInv => OrphansHaveCause
  BY DEF StoreInv
<1>2. QED
  BY <1>1, StoreInvHolds, PTL
=============================================================================
