---------------------------- MODULE DriveProofs ----------------------------
(***************************************************************************)
(* Theorems about HistoryImport and DriveArchive, for any number of items  *)
(* and files in the local sources, and any number of failures.             *)
(***************************************************************************)
EXTENDS DriveArchive, FiniteSetTheorems, WellFoundedInduction, TLAPS

(* Induction over a set of numbers.                                        *)

\* A set of numbers has a least one.
LEMMA LeastExists ==
  ASSUME NEW S \in SUBSET Nat, S # {}
  PROVE  \E m \in S : \A k \in S : m <= k
<1>0. S \in SUBSET Nat /\ S # {}
  OBVIOUS
<1>1. PICK m \in S : \A u \in S : <<u, m>> \notin OpToRel(<, Nat)
  BY <1>0, NatLessThanWellFounded, WFMin, Zenon
<1>2. \A u \in S : ~(u < m)
  BY <1>1, Zenon DEF OpToRel
<1>3. QED
  BY <1>2

\* What a number hands on to the next holds of all.
LEMMA UpTo ==
  ASSUME NEW S, NEW n \in Nat, 0 \in S, \A k \in 1..n : k - 1 \in S => k \in S
  PROVE  \A k \in 0..n : k \in S
<1> DEFINE bad == (0..n) \ S
<1>1. SUFFICES ASSUME bad # {} PROVE FALSE
  OBVIOUS
<1>2. PICK m \in bad : \A k \in bad : m <= k
  <2>1. bad \in SUBSET Nat
    OBVIOUS
  <2> HIDE DEF bad
  <2>2. QED
    BY <1>1, <2>1, LeastExists
<1>3. m \in 1..n /\ m - 1 \in 0..n /\ m - 1 < m
  BY <1>2
<1>4. m - 1 \in S
  BY <1>2, <1>3
<1>5. QED
  BY <1>2, <1>3, <1>4

LEMMA Interval == ASSUME NEW n \in Nat PROVE IsFiniteSet(1..n) /\ Cardinality(1..n) = n
  BY FS_Interval

-----------------------------------------------------------------------------
(* Plans.                                                                  *)

ItemsOf(src) == Range(Data[src])

\* What a script may post of a source: an experiment, and one run for each of
\* its items. Only the slugs of chris are numbered.
Entries(src) ==
  {e \in PlanEntry(src) :
     /\ e.items # << >>
     /\ src # "chris" => \A i \in Range(e.items) : Name[i.base][1] = e.slug
     /\ src \in {"chris", "mlx"} => Len(e.items) = 1}

\* A base that is tried for fewer items than it has slugs gets a fresh one.
LEMMA SlugIsFresh ==
  ASSUME NEW b \in DOMAIN Name, NEW seen, IsFiniteSet(seen), Cardinality(seen) < Len(Name[b])
  PROVE  BuildSlug(b, seen) \in Slugs /\ BuildSlug(b, seen) \notin seen
<1> DEFINE N == 1..Len(Name[b])
           free == {n \in DOMAIN Name[b] : Name[b][n] \notin seen}
<1>1. Name[b] \in Seq(Range(Name[b])) /\ IsInjective(Name[b])
  BY ImportAssumption
<1>2. Len(Name[b]) \in Nat /\ DOMAIN Name[b] = N
  BY <1>1
<1>3. free # {}
  <2>1. SUFFICES ASSUME free = {} PROVE FALSE
    OBVIOUS
  <2>2. Name[b] \in [N -> seen]
    <3>1. \A n \in N : Name[b][n] \in seen
      BY <1>2, <2>1
    <3>2. Name[b] = [n \in N |-> Name[b][n]]
      BY <1>1, <1>2
    <3>3. QED
      BY <3>1, <3>2
  <2>3. IsFiniteSet(N) /\ Cardinality(N) = Len(Name[b])
    BY <1>2, FS_Interval
  <2> HIDE DEF N
  <2>4. \E x, y \in N : x # y /\ Name[b][x] = Name[b][y]
    BY <2>2, <2>3, FS_PigeonHole
  <2>5. QED
    BY <1>1, <1>2, <2>4 DEF IsInjective
<1>4. \E n \in free : \A m \in free : n <= m
  <2>1. free \in SUBSET Nat
    BY <1>2
  <2> HIDE DEF free
  <2>2. QED
    BY <1>3, <2>1, LeastExists
<1>5. (CHOOSE n \in free : \A m \in free : n <= m) \in free
  BY <1>4
<1>6. BuildSlug(b, seen) \in Range(Name[b]) /\ BuildSlug(b, seen) \notin seen
  BY <1>5 DEF BuildSlug, Range
<1>7. QED
  BY <1>6 DEF Slugs

LEMMA FirstSlug == ASSUME NEW b \in DOMAIN Name PROVE Name[b][1] \in Slugs
<1>1. Name[b] \in Seq(Range(Name[b])) /\ Name[b] # << >>
  BY ImportAssumption
<1>2. 1 \in DOMAIN Name[b]
  BY <1>1
<1>3. Name[b][1] \in Range(Name[b])
  BY <1>2 DEF Range
<1>4. QED
  BY <1>3 DEF Slugs

\* One step of Listed.
ListStep(i, sofar, numbered) ==
  IF ~i.ok THEN sofar
  ELSE Append(sofar, Entry(IF numbered THEN BuildSlug(i.base, {e.slug : e \in Range(sofar)})
                           ELSE Name[i.base][1], TRUE, <<i>>))

\* Listed is well defined: each plan comes of the one before.
LEMMA ListedSteps ==
  ASSUME NEW its, Len(its) \in Nat, NEW numbered
  PROVE  /\ Listed(its, numbered)[0] = << >>
         /\ \A k \in 1..Len(its) :
              Listed(its, numbered)[k]
                = ListStep(its[k], Listed(its, numbered)[k - 1], numbered)
<1> DEFINE n == Len(its)
           Is(f, m) == f = [k \in 0..m |-> IF k = 0 THEN << >>
                                           ELSE ListStep(its[k], f[k - 1], numbered)]
           S == {m \in 0..n : \E f : Is(f, m)}
<1>1. 0 \in S
  <2> DEFINE f == [k \in 0..0 |-> << >>]
  <2>1. Is(f, 0)
    OBVIOUS
  <2> HIDE DEF f
  <2>2. QED
    BY <2>1
<1>2. ASSUME NEW m \in 1..n, m - 1 \in S PROVE m \in S
  <2>1. PICK f : Is(f, m - 1)
    BY <1>2
  <2> DEFINE last == ListStep(its[m], f[m - 1], numbered)
             g == [k \in 0..m |-> IF k = m THEN last ELSE f[k]]
  <2>2. ASSUME NEW k \in 0..m
        PROVE  g[k] = (IF k = 0 THEN << >> ELSE ListStep(its[k], g[k - 1], numbered))
    <3>1. CASE k = m
      <4>1. g[k - 1] = f[m - 1] /\ k # 0
        BY <3>1
      <4>2. QED
        BY <3>1, <4>1
    <3>2. CASE k # m
      <4>1. k \in 0..(m - 1) /\ g[k] = f[k]
        BY <3>2
      <4>2. k # 0 => g[k - 1] = f[k - 1]
        BY <3>2
      <4>3. f[k] = IF k = 0 THEN << >> ELSE ListStep(its[k], f[k - 1], numbered)
        BY <2>1, <4>1
      <4>4. QED
        BY <4>1, <4>2, <4>3
    <3>3. QED
      BY <3>1, <3>2
  <2>3. g = [k \in 0..m |-> g[k]]
    OBVIOUS
  <2> HIDE DEF g
  <2>4. Is(g, m)
    BY <2>2, <2>3
  <2>5. QED
    BY <2>4
<1> HIDE DEF S
<1>3. n \in S
  BY <1>1, <1>2, UpTo
<1>4. PICK f : Is(f, n)
  BY <1>3 DEF S
<1> DEFINE P == Listed(its, numbered)
<1>5. Is(P, n)
  BY <1>4 DEF Listed, ListStep
<1> HIDE DEF P
<1>6. QED
  BY <1>5 DEF P

LEMMA ItemFacts ==
  ASSUME NEW src \in Sources, NEW i \in ItemsOf(src)
  PROVE  /\ i.base \in DOMAIN Name /\ i.ok \in BOOLEAN /\ i.results \in Nat
         /\ src \in {"chris", "mlx"} => i.run = "historical"
  BY ImportAssumption DEF ItemsOf

LEMMA LenData == ASSUME NEW src \in Sources PROVE Len(Data[src]) \in Nat
<1>1. Data[src] \in Seq(Range(Data[src]))
  BY ImportAssumption
<1>2. QED
  BY <1>1

\* A step of Listed leaves the plan, or adds an entry for the item.
LEMMA ListStepAdds ==
  ASSUME NEW src \in Sources, src \in {"chris", "mlx"}, NEW i \in ItemsOf(src),
         NEW sofar \in Seq(Entries(src)), Len(sofar) < Len(Data[src])
  PROVE  \/ ListStep(i, sofar, src = "chris") = sofar
         \/ \E e \in Entries(src) :
              /\ ListStep(i, sofar, src = "chris") = Append(sofar, e)
              /\ e.items = <<i>>
              /\ src = "chris" => e.slug \notin {d.slug : d \in Range(sofar)}
<1> DEFINE seen == {d.slug : d \in Range(sofar)}
           slug == IF src = "chris" THEN BuildSlug(i.base, seen) ELSE Name[i.base][1]
           N == 1..Len(sofar)
           f == [k \in N |-> sofar[k].slug]
<1>1. Len(sofar) \in Nat /\ Len(Data[src]) \in Nat /\ DOMAIN sofar = N
  BY LenData
<1>2. IsFiniteSet(seen) /\ Cardinality(seen) <= Len(sofar) /\ Cardinality(seen) \in Nat
  <2>1. f \in Surjection(N, seen)
    <3>1. f \in [N -> seen]
      BY <1>1 DEF Range
    <3>2. \A t \in seen : \E k \in N : f[k] = t
      BY <1>1 DEF Range
    <3> HIDE DEF f, N, seen
    <3>3. QED
      BY <3>1, <3>2 DEF Surjection
  <2> HIDE DEF f, seen, slug
  <2>2. IsFiniteSet(N) /\ Cardinality(N) = Len(sofar)
    BY <1>1, Interval
  <2> HIDE DEF N
  <2>3. IsFiniteSet(seen) /\ Cardinality(seen) <= Cardinality(N)
    BY <2>1, <2>2, FS_Surjection
  <2>4. QED
    BY <2>2, <2>3, FS_CardinalityType
<1> HIDE DEF seen
<1>3. i.base \in DOMAIN Name
  BY ItemFacts
<1>4. Len(Data[src]) <= Len(Name[i.base]) /\ Len(Name[i.base]) \in Nat
  BY <1>3, ImportAssumption
<1>5. slug \in Slugs /\ (src = "chris" => slug \notin seen)
  <2>1. Cardinality(seen) < Len(Name[i.base])
    BY <1>1, <1>2, <1>4
  <2>2. QED
    BY <1>2, <1>3, <2>1, SlugIsFresh, FirstSlug
<1> DEFINE e == Entry(slug, TRUE, <<i>>)
<1>6. e \in Entries(src)
  <2>1. <<i>> \in Seq(ItemsOf(src)) /\ Len(<<i>>) = 1 /\ <<i>> # << >> /\ Range(<<i>>) = {i}
    BY DEF Range
  <2>2. src # "chris" => slug = Name[i.base][1]
    OBVIOUS
  <2> HIDE DEF slug
  <2>3. QED
    BY <1>5, <2>1, <2>2 DEF Entry, Entries, PlanEntry, ItemsOf
<1>7. e.items = <<i>> /\ e.slug = slug
  BY DEF Entry
<1>8. i.ok => ListStep(i, sofar, src = "chris") = Append(sofar, e)
  BY DEF ListStep, seen
<1>9. ~i.ok => ListStep(i, sofar, src = "chris") = sofar
  BY DEF ListStep
<1> HIDE DEF e, slug
<1>10. QED
  BY <1>5, <1>6, <1>7, <1>8, <1>9 DEF seen

\* What a plan of chris or mlx is made of.
LEMMA ListedEntries ==
  ASSUME NEW src \in Sources, src \in {"chris", "mlx"}, NEW its \in Seq(ItemsOf(src)),
         Len(its) <= Len(Data[src]), NEW k \in 0..Len(its)
  PROVE  LET p == Listed(its, src = "chris")[k] IN
         /\ p \in Seq(Entries(src)) /\ Len(p) <= k
         /\ \A e \in Range(p) : e.items[1] \in Range(its)
         /\ src = "chris" => \A x, y \in DOMAIN p : p[x].slug = p[y].slug => x = y
<1> DEFINE n == Len(its)
           P == Listed(its, src = "chris")
           Good(p, m) == /\ p \in Seq(Entries(src)) /\ Len(p) <= m
                         /\ \A e \in Range(p) : e.items[1] \in Range(its)
                         /\ src = "chris" => \A x, y \in DOMAIN p : p[x].slug = p[y].slug => x = y
           S == {m \in 0..n : Good(P[m], m)}
<1>1. n \in Nat /\ Len(Data[src]) \in Nat
  BY LenData
<1>2. 0 \in S
  <2>1. P[0] = << >>
    BY <1>1, ListedSteps
  <2>2. Range(<< >>) = {} /\ DOMAIN << >> = {} /\ Len(<< >>) = 0 /\ << >> \in Seq(Entries(src))
    BY DEF Range
  <2>3. Good(<< >>, 0)
    BY <2>2
  <2> HIDE DEF P, Good
  <2>4. QED
    BY <1>1, <2>1, <2>3
<1>3. ASSUME NEW m \in 1..n, m - 1 \in S PROVE m \in S
  <2> DEFINE q == P[m - 1]
  <2>1. P[m] = ListStep(its[m], q, src = "chris")
    BY <1>1, ListedSteps
  <2>2. Good(q, m - 1)
    BY <1>3
  <2>3. its[m] \in ItemsOf(src) /\ its[m] \in Range(its)
    BY DEF Range
  <2> HIDE DEF P, q
  <2>4. q \in Seq(Entries(src)) /\ Len(q) \in Nat /\ Len(q) < Len(Data[src]) /\ DOMAIN q = 1..Len(q)
    BY <1>1, <2>2
  <2>5. CASE P[m] = q
    BY <1>1, <2>2, <2>4, <2>5
  <2>6. CASE P[m] # q
    <3>1. PICK e \in Entries(src) :
            /\ P[m] = Append(q, e)
            /\ e.items = <<its[m]>>
            /\ src = "chris" => e.slug \notin {d.slug : d \in Range(q)}
      <4>1. \/ ListStep(its[m], q, src = "chris") = q
            \/ \E e \in Entries(src) :
                 /\ ListStep(its[m], q, src = "chris") = Append(q, e)
                 /\ e.items = <<its[m]>>
                 /\ src = "chris" => e.slug \notin {d.slug : d \in Range(q)}
        BY <2>3, <2>4, ListStepAdds
      <4>2. QED
        BY <2>1, <2>6, <4>1
    <3>2. /\ Append(q, e) \in Seq(Entries(src)) /\ Len(Append(q, e)) = Len(q) + 1
          /\ DOMAIN Append(q, e) = 1..(Len(q) + 1)
          /\ Append(q, e)[Len(q) + 1] = e
          /\ \A x \in 1..Len(q) : Append(q, e)[x] = q[x]
      BY <2>4
    <3>3. \A x \in 1..Len(q) : q[x] \in Range(q)
      BY <2>4 DEF Range
    <3>4. \A d \in Range(Append(q, e)) : d = e \/ d \in Range(q)
      BY <2>4, <3>2, <3>3 DEF Range
    <3>5. e.items[1] \in Range(its)
      BY <2>3, <3>1
    <3>6. ASSUME src = "chris", NEW x \in DOMAIN Append(q, e), NEW y \in DOMAIN Append(q, e),
                 Append(q, e)[x].slug = Append(q, e)[y].slug
          PROVE  x = y
      <4>1. \A z \in 1..Len(q) : q[z].slug # e.slug
        BY <3>1, <3>3, <3>6
      <4>2. (x \in 1..Len(q) \/ x = Len(q) + 1) /\ (y \in 1..Len(q) \/ y = Len(q) + 1)
        BY <2>4, <3>2
      <4>3. QED
        BY <2>2, <2>4, <3>2, <3>6, <4>1, <4>2
    <3>7. Good(Append(q, e), m)
      <4>1. \A d \in Range(Append(q, e)) : d.items[1] \in Range(its)
        BY <2>2, <3>4, <3>5
      <4>2. Len(Append(q, e)) <= m
        BY <1>1, <2>2, <2>4, <3>2
      <4>3. QED
        BY <3>2, <3>6, <4>1, <4>2
    <3> HIDE DEF Good
    <3>8. Good(P[m], m)
      BY <3>1, <3>7
    <3>9. m \in 0..n
      BY <1>1
    <3>10. QED
      BY <3>8, <3>9
  <2>7. QED
    BY <2>5, <2>6
<1> HIDE DEF S
<1>4. \A m \in 0..n : m \in S
  BY <1>1, <1>2, <1>3, UpTo
<1>5. QED
  BY <1>4 DEF S

\* build_slug gives the entries of INDEX.md the slugs they had before others
\* were put after them.
LEMMA ListedGrows ==
  ASSUME NEW src \in Sources, src \in {"chris", "mlx"}, NEW its \in Seq(ItemsOf(src)),
         Len(its) < Len(Data[src]), NEW i \in ItemsOf(src)
  PROVE  Range(Listed(its, src = "chris")[Len(its)])
           \subseteq Range(Listed(its \o <<i>>, src = "chris")[Len(its \o <<i>>)])
<1> DEFINE n == Len(its)
           new == its \o <<i>>
           P == Listed(its, src = "chris")
           Q == Listed(new, src = "chris")
           S == {m \in 0..n : Q[m] = P[m]}
<1>1. /\ n \in Nat /\ Len(new) = n + 1 /\ new[n + 1] = i
      /\ \A m \in 1..n : new[m] = its[m]
  OBVIOUS
<1>2. /\ P[0] = << >> /\ \A m \in 1..n : P[m] = ListStep(its[m], P[m - 1], src = "chris")
      /\ Q[0] = << >> /\ \A m \in 1..(n + 1) : Q[m] = ListStep(new[m], Q[m - 1], src = "chris")
  <2>1. P[0] = << >> /\ \A m \in 1..Len(its) : P[m] = ListStep(its[m], P[m - 1], src = "chris")
    BY <1>1, ListedSteps
  <2> HIDE DEF new
  <2>2. Len(new) \in Nat
    BY <1>1
  <2>3. Q[0] = << >> /\ \A m \in 1..Len(new) : Q[m] = ListStep(new[m], Q[m - 1], src = "chris")
    BY <2>2, ListedSteps
  <2> HIDE DEF P, Q
  <2>4. QED
    BY <1>1, <2>1, <2>3
<1> HIDE DEF new
<1>3. P[n] \in Seq(Entries(src)) /\ Len(P[n]) <= n
  <2>1. n \in 0..Len(its) /\ Len(its) <= Len(Data[src])
    BY <1>1, LenData
  <2>2. QED
    BY <2>1, ListedEntries
<1> HIDE DEF P, Q
<1>4. 0 \in S
  BY <1>1, <1>2
<1>5. ASSUME NEW m \in 1..n, m - 1 \in S PROVE m \in S
  <2>1. m \in 1..(n + 1) /\ m \in 0..n /\ new[m] = its[m] /\ Q[m - 1] = P[m - 1]
    BY <1>1, <1>5
  <2>2. ListStep(new[m], Q[m - 1], src = "chris") = ListStep(its[m], P[m - 1], src = "chris")
    BY <2>1
  <2>3. Q[m] = P[m]
    BY <1>2, <2>1, <2>2
  <2>4. QED
    BY <2>1, <2>3
<1> HIDE DEF S
<1>6. n \in S
  <2>1. n \in Nat
    BY <1>1
  <2>2. \A m \in 0..n : m \in S
    BY <1>4, <1>5, <2>1, UpTo
  <2>3. QED
    BY <2>1, <2>2
<1>7. Q[n + 1] = ListStep(i, P[n], src = "chris")
  BY <1>1, <1>2, <1>6 DEF S
<1>8. Q[n + 1] = P[n] \/ \E e : Q[n + 1] = Append(P[n], e)
  BY <1>7 DEF ListStep
<1>9. \A e : Range(P[n]) \subseteq Range(Append(P[n], e))
  BY <1>3 DEF Range
<1>10. Range(P[n]) \subseteq Range(Q[n + 1])
  BY <1>8, <1>9
<1>11. QED
  BY <1>1, <1>10 DEF P, Q, new

\* One step of Grouped.
GroupStep(i, sofar) ==
  IF ~i.ok THEN sofar
  ELSE IF \A e \in Range(sofar) : e.items[1].base # i.base
       THEN Append(sofar, Entry(Name[i.base][1], FALSE, <<i>>))
       ELSE [g \in DOMAIN sofar |->
               LET e == sofar[g]
               IN  IF e.items[1].base = i.base THEN [e EXCEPT !.items = Append(@, i)] ELSE e]

\* So is Grouped.
LEMMA GroupedSteps ==
  ASSUME NEW its, Len(its) \in Nat
  PROVE  /\ Grouped(its)[0] = << >>
         /\ \A k \in 1..Len(its) :
              Grouped(its)[k]
                = GroupStep(its[k], Grouped(its)[k - 1])
<1> DEFINE n == Len(its)
           Is(f, m) == f = [k \in 0..m |-> IF k = 0 THEN << >>
                                           ELSE GroupStep(its[k], f[k - 1])]
           S == {m \in 0..n : \E f : Is(f, m)}
<1>1. 0 \in S
  <2> DEFINE f == [k \in 0..0 |-> << >>]
  <2>1. Is(f, 0)
    OBVIOUS
  <2> HIDE DEF f
  <2>2. QED
    BY <2>1
<1>2. ASSUME NEW m \in 1..n, m - 1 \in S PROVE m \in S
  <2>1. PICK f : Is(f, m - 1)
    BY <1>2
  <2> DEFINE last == GroupStep(its[m], f[m - 1])
             g == [k \in 0..m |-> IF k = m THEN last ELSE f[k]]
  <2>2. ASSUME NEW k \in 0..m
        PROVE  g[k] = (IF k = 0 THEN << >> ELSE GroupStep(its[k], g[k - 1]))
    <3>1. CASE k = m
      <4>1. g[k - 1] = f[m - 1] /\ k # 0
        BY <3>1
      <4>2. QED
        BY <3>1, <4>1
    <3>2. CASE k # m
      <4>1. k \in 0..(m - 1) /\ g[k] = f[k]
        BY <3>2
      <4>2. k # 0 => g[k - 1] = f[k - 1]
        BY <3>2
      <4>3. f[k] = IF k = 0 THEN << >> ELSE GroupStep(its[k], f[k - 1])
        BY <2>1, <4>1
      <4>4. QED
        BY <4>1, <4>2, <4>3
    <3>3. QED
      BY <3>1, <3>2
  <2>3. g = [k \in 0..m |-> g[k]]
    OBVIOUS
  <2> HIDE DEF g
  <2>4. Is(g, m)
    BY <2>2, <2>3
  <2>5. QED
    BY <2>4
<1> HIDE DEF S
<1>3. n \in S
  BY <1>1, <1>2, UpTo
<1>4. PICK f : Is(f, n)
  BY <1>3 DEF S
<1> DEFINE P == Grouped(its)
<1>5. Is(P, n)
  BY <1>4 DEF Grouped, GroupStep
<1> HIDE DEF P
<1>6. QED
  BY <1>5 DEF P

LEMMA GroupStepEntries ==
  ASSUME NEW src \in Sources, src \notin {"chris", "mlx"}, NEW i \in ItemsOf(src),
         NEW sofar \in Seq(Entries(src))
  PROVE  GroupStep(i, sofar) \in Seq(Entries(src))
<1>1. i.base \in DOMAIN Name /\ Name[i.base][1] \in Slugs
  BY ItemFacts, FirstSlug
<1>2. CASE \A e \in Range(sofar) : e.items[1].base # i.base
  <2>1. <<i>> \in Seq(ItemsOf(src)) /\ Len(<<i>>) = 1 /\ <<i>> # << >> /\ Range(<<i>>) = {i}
    BY DEF Range
  <2>2. Entry(Name[i.base][1], FALSE, <<i>>) \in Entries(src)
    BY <1>1, <2>1 DEF Entry, Entries, PlanEntry, ItemsOf
  <2> DEFINE e == Entry(Name[i.base][1], FALSE, <<i>>)
  <2> HIDE DEF e
  <2>3. Append(sofar, e) \in Seq(Entries(src))
    <3>1. e \in Entries(src)
      BY <2>2 DEF e
    <3>2. QED
      BY <3>1
  <2>4. GroupStep(i, sofar) = sofar \/ GroupStep(i, sofar) = Append(sofar, e)
    BY <1>2 DEF GroupStep, e
  <2>5. QED
    BY <2>3, <2>4
<1>3. CASE ~(\A e \in Range(sofar) : e.items[1].base # i.base)
  <2> DEFINE More(e) == IF e.items[1].base = i.base THEN [e EXCEPT !.items = Append(@, i)] ELSE e
  <2>1. ASSUME NEW e \in Entries(src), e.items[1].base = i.base
        PROVE  [e EXCEPT !.items = Append(@, i)] \in Entries(src)
    <3>1. /\ e \in PlanEntry(src)
          /\ e.items \in Seq(ItemsOf(src)) /\ e.items # << >>
          /\ \A j \in Range(e.items) : Name[j.base][1] = e.slug
      BY <2>1 DEF Entries, PlanEntry, ItemsOf
    <3>2. Append(e.items, i) \in Seq(ItemsOf(src)) /\ Append(e.items, i) # << >>
      BY <3>1
    <3>3. e.items[1] \in Range(e.items)
      BY <3>1 DEF Range
    <3>4. Name[i.base][1] = e.slug
      BY <2>1, <3>1, <3>3
    <3>5. \A j \in Range(Append(e.items, i)) : j = i \/ j \in Range(e.items)
      BY <3>1 DEF Range
    <3>6. \A j \in Range(Append(e.items, i)) : Name[j.base][1] = e.slug
      BY <3>1, <3>4, <3>5
    <3> DEFINE new == Append(e.items, i)
               d == [e EXCEPT !.items = new]
    <3> HIDE DEF new
    <3>7. /\ d \in PlanEntry(src)
          /\ d.items = new /\ d.slug = e.slug
      BY <3>1, <3>2 DEF new, PlanEntry, ItemsOf
    <3> HIDE DEF d
    <3>8. d \in Entries(src)
      BY <3>2, <3>6, <3>7 DEF Entries, new
    <3>9. QED
      BY <3>8 DEF d, new
  <2>2. \A e \in Entries(src) : More(e) \in Entries(src)
    BY <2>1
  <2> HIDE DEF More
  <2>3. [g \in DOMAIN sofar |-> More(sofar[g])] \in Seq(Entries(src))
    BY <2>2
  <2>4. i.ok => GroupStep(i, sofar) = [g \in DOMAIN sofar |-> More(sofar[g])]
    BY <1>3 DEF GroupStep, More
  <2>5. ~i.ok => GroupStep(i, sofar) = sofar
    BY DEF GroupStep
  <2>6. QED
    BY <2>3, <2>4, <2>5
<1>4. QED
  BY <1>2, <1>3

LEMMA GroupedEntries ==
  ASSUME NEW src \in Sources, src \notin {"chris", "mlx"}, NEW its \in Seq(ItemsOf(src))
  PROVE  Grouped(its)[Len(its)] \in Seq(Entries(src))
<1> DEFINE P == Grouped(its)
           n == Len(its)
           S == {m \in 0..n : P[m] \in Seq(Entries(src))}
<1>1. n \in Nat
  OBVIOUS
<1>2. P[0] = << >> /\ \A m \in 1..n : P[m] = GroupStep(its[m], P[m - 1])
  BY <1>1, GroupedSteps
<1> HIDE DEF P
<1>3. 0 \in S
  <2>1. << >> \in Seq(Entries(src)) /\ 0 \in 0..n
    BY <1>1
  <2>2. QED
    BY <1>2, <2>1
<1>4. ASSUME NEW m \in 1..n, m - 1 \in S PROVE m \in S
  <2>1. its[m] \in ItemsOf(src) /\ m \in 0..n
    OBVIOUS
  <2>2. QED
    BY <1>2, <1>4, <2>1, GroupStepEntries
<1> HIDE DEF S
<1>5. \A m \in 0..n : m \in S
  BY <1>1, <1>3, <1>4, UpTo
<1>6. QED
  BY <1>1, <1>5 DEF S, P

\* One step of ByTime.
TimeStep(i, sofar) ==
  InsertAt(sofar, Cardinality({k \in DOMAIN sofar : sofar[k].at <= i.at}) + 1, i)

\* So is ByTime.
LEMMA ByTimeSteps ==
  ASSUME NEW its, Len(its) \in Nat
  PROVE  /\ ByTime(its)[0] = << >>
         /\ \A k \in 1..Len(its) :
              ByTime(its)[k]
                = TimeStep(its[k], ByTime(its)[k - 1])
<1> DEFINE n == Len(its)
           Is(f, m) == f = [k \in 0..m |-> IF k = 0 THEN << >>
                                           ELSE TimeStep(its[k], f[k - 1])]
           S == {m \in 0..n : \E f : Is(f, m)}
<1>1. 0 \in S
  <2> DEFINE f == [k \in 0..0 |-> << >>]
  <2>1. Is(f, 0)
    OBVIOUS
  <2> HIDE DEF f
  <2>2. QED
    BY <2>1
<1>2. ASSUME NEW m \in 1..n, m - 1 \in S PROVE m \in S
  <2>1. PICK f : Is(f, m - 1)
    BY <1>2
  <2> DEFINE last == TimeStep(its[m], f[m - 1])
             g == [k \in 0..m |-> IF k = m THEN last ELSE f[k]]
  <2>2. ASSUME NEW k \in 0..m
        PROVE  g[k] = (IF k = 0 THEN << >> ELSE TimeStep(its[k], g[k - 1]))
    <3>1. CASE k = m
      <4>1. g[k - 1] = f[m - 1] /\ k # 0
        BY <3>1
      <4>2. QED
        BY <3>1, <4>1
    <3>2. CASE k # m
      <4>1. k \in 0..(m - 1) /\ g[k] = f[k]
        BY <3>2
      <4>2. k # 0 => g[k - 1] = f[k - 1]
        BY <3>2
      <4>3. f[k] = IF k = 0 THEN << >> ELSE TimeStep(its[k], f[k - 1])
        BY <2>1, <4>1
      <4>4. QED
        BY <4>1, <4>2, <4>3
    <3>3. QED
      BY <3>1, <3>2
  <2>3. g = [k \in 0..m |-> g[k]]
    OBVIOUS
  <2> HIDE DEF g
  <2>4. Is(g, m)
    BY <2>2, <2>3
  <2>5. QED
    BY <2>4
<1> HIDE DEF S
<1>3. n \in S
  BY <1>1, <1>2, UpTo
<1>4. PICK f : Is(f, n)
  BY <1>3 DEF S
<1> DEFINE P == ByTime(its)
<1>5. Is(P, n)
  BY <1>4 DEF ByTime, TimeStep
<1> HIDE DEF P
<1>6. QED
  BY <1>5 DEF P

LEMMA SortedItems ==
  ASSUME NEW T, NEW its \in Seq(T)
  PROVE  ByTime(its)[Len(its)] \in Seq(T) /\ Len(ByTime(its)[Len(its)]) = Len(its)
<1> DEFINE P == ByTime(its)
           n == Len(its)
           S == {m \in 0..n : P[m] \in Seq(T) /\ Len(P[m]) = m}
<1>1. n \in Nat
  OBVIOUS
<1>2. P[0] = << >> /\ \A m \in 1..n : P[m] = TimeStep(its[m], P[m - 1])
  BY <1>1, ByTimeSteps
<1> HIDE DEF P
<1>3. 0 \in S
  <2>1. << >> \in Seq(T) /\ Len(<< >>) = 0 /\ 0 \in 0..n
    BY <1>1
  <2>2. QED
    BY <1>2, <2>1
<1>4. ASSUME NEW m \in 1..n, m - 1 \in S PROVE m \in S
  <2> DEFINE q == P[m - 1]
             earlier == {k \in DOMAIN q : q[k].at <= its[m].at}
             c == Cardinality(earlier)
  <2>1. q \in Seq(T) /\ Len(q) = m - 1 /\ its[m] \in T /\ m \in 0..n
    BY <1>4
  <2> HIDE DEF q
  <2>2. DOMAIN q = 1..(m - 1) /\ m - 1 \in Nat
    BY <2>1
  <2>3. c \in 0..(m - 1)
    <3>1. IsFiniteSet(1..(m - 1)) /\ Cardinality(1..(m - 1)) = m - 1
      BY <2>2, Interval
    <3>2. earlier \in SUBSET (1..(m - 1))
      BY <2>2
    <3> HIDE DEF earlier
    <3>3. IsFiniteSet(earlier) /\ c <= m - 1
      BY <3>1, <3>2, FS_Subset
    <3>4. c \in Nat
      BY <3>3, FS_CardinalityType
    <3>5. QED
      BY <2>2, <3>3, <3>4
  <2> HIDE DEF c
  <2>4. P[m] = SubSeq(q, 1, c) \o <<its[m]>> \o SubSeq(q, c + 1, m - 1)
    <3>1. P[m] = InsertAt(q, c + 1, its[m])
      BY <1>2 DEF TimeStep, q, c
    <3>2. (c + 1) - 1 = c
      BY <2>3
    <3>3. QED
      BY <2>1, <3>1, <3>2 DEF InsertAt
  <2>5. SubSeq(q, 1, c) \in Seq(T) /\ Len(SubSeq(q, 1, c)) = c
    BY <2>1, <2>2, <2>3
  <2>6. SubSeq(q, c + 1, m - 1) \in Seq(T) /\ Len(SubSeq(q, c + 1, m - 1)) = m - 1 - c
    BY <2>1, <2>2, <2>3
  <2> DEFINE lo == SubSeq(q, 1, c)
             hi == SubSeq(q, c + 1, m - 1)
  <2> HIDE DEF lo, hi
  <2>7. lo \o <<its[m]>> \o hi \in Seq(T) /\ Len(lo \o <<its[m]>> \o hi) = m
    BY <2>1, <2>2, <2>3, <2>5, <2>6 DEF lo, hi
  <2>8. QED
    BY <2>1, <2>4, <2>7 DEF lo, hi
<1> HIDE DEF S
<1>5. \A m \in 0..n : m \in S
  BY <1>1, <1>3, <1>4, UpTo
<1>6. QED
  BY <1>1, <1>5 DEF S, P

\* A script only posts what its source has, under the source's slugs.
LEMMA PlanEntries ==
  ASSUME source \in Sources, items \in Seq(ItemsOf(source)), Len(items) <= Len(Data[source])
  PROVE  Plan \in Seq(Entries(source))
<1>1. Len(items) \in 0..Len(items)
  OBVIOUS
<1>2. CASE source = "chris"
  BY <1>1, <1>2, ListedEntries DEF Plan, ChrisPlan
<1>3. CASE source = "mlx"
  BY <1>1, <1>3, ListedEntries DEF Plan, MlxPlan
<1>4. CASE source = "larql"
  BY <1>4, GroupedEntries DEF Plan, LarqlPlan
<1>5. CASE source = "lazarus"
  <2> DEFINE groups == Grouped(items)[Len(items)]
             Sorted(e) == [e EXCEPT !.items = ByTime(@)[Len(@)]]
  <2>1. groups \in Seq(Entries(source))
    BY <1>5, GroupedEntries
  <2>2. ASSUME NEW e \in Entries(source) PROVE Sorted(e) \in Entries(source)
    <3> DEFINE T == {i \in ItemsOf(source) : Name[i.base][1] = e.slug}
               new == ByTime(e.items)[Len(e.items)]
    <3>1. /\ e \in PlanEntry(source)
          /\ e.items \in Seq(ItemsOf(source)) /\ e.items # << >>
          /\ \A j \in Range(e.items) : Name[j.base][1] = e.slug
      BY <1>5 DEF Entries, PlanEntry, ItemsOf
    <3>2. e.items \in Seq(T)
      <4>1. \A k \in 1..Len(e.items) : e.items[k] \in T
        BY <3>1 DEF Range
      <4>2. QED
        BY <3>1, <4>1
    <3>3. new \in Seq(T) /\ Len(new) = Len(e.items)
      <4> HIDE DEF T
      <4>1. QED
        BY <3>2, SortedItems
    <3> HIDE DEF new
    <3>4. new \in Seq(ItemsOf(source)) /\ new # << >> /\ \A j \in Range(new) : Name[j.base][1] = e.slug
      BY <3>1, <3>3 DEF Range
    <3> DEFINE d == [e EXCEPT !.items = new]
    <3>5. /\ d \in PlanEntry(source)
          /\ d.items = new /\ d.slug = e.slug
      BY <3>1, <3>4 DEF PlanEntry, ItemsOf
    <3> HIDE DEF d
    <3>6. d \in Entries(source)
      BY <1>5, <3>4, <3>5 DEF Entries
    <3>7. QED
      BY <3>6 DEF d, new
  <2> HIDE DEF Sorted
  <2>3. [n \in DOMAIN groups |-> Sorted(groups[n])] \in Seq(Entries(source))
    <3> HIDE DEF groups
    <3>1. QED
      BY <2>1, <2>2
  <2>4. Plan = [n \in DOMAIN groups |-> Sorted(groups[n])]
    BY <1>5 DEF Plan, LazarusPlan, Sorted
  <2>5. QED
    BY <2>3, <2>4
<1>6. QED
  BY <1>2, <1>3, <1>4, <1>5, ImportAssumption

-----------------------------------------------------------------------------
(* The imports.                                                            *)

Jobs(src) ==
  {j \in Job(src) : j.plan \in Seq(Entries(src)) /\ j.n > 0 /\ j.k > 0}

\* The entry a script is at, and whether it has made its experiment.
Posting == job # NULL /\ job.n <= Len(job.plan)
Open(s) == Posting /\ job.at # "experiment" /\ Cur.slug = s
CurItem == Cur.items[job.k]
CurKey == <<Cur.slug, CurItem.run>>

ImportTypes ==
  /\ source \in Sources /\ items \in Seq(ItemsOf(source)) /\ Len(items) <= Len(Data[source])
  /\ exps \in [Slugs -> Entries(source) \cup {NULL}]
  /\ \A s \in Slugs : exps[s] # NULL => exps[s].slug = s
  /\ writeups \in [Slugs -> 0..1] /\ \A s \in Slugs : exps[s] = NULL => writeups[s] = 0
  /\ reordered \in BOOLEAN /\ disturbed \subseteq Slugs
  /\ claimed \subseteq {i.id : i \in ItemsOf(source)}
  /\ job = NULL \/ job \in Jobs(source)

\* Between its posts a script knows what it has made.
JobFollows ==
  Posting =>
    /\ job.k <= Len(Cur.items)
    /\ job.at \in {"experiment", "writeup"} => job.k = 1
    /\ job.at # "result" => job.r = 0
    /\ job.at # "experiment" => exps[Cur.slug] = Cur
    /\ job.at = "writeup" =>
         Cur.writeup /\ writeups[Cur.slug] = 0 /\ \A key \in DOMAIN runs : key[1] # Cur.slug
    /\ job.at = "result" =>
         /\ CurKey \in DOMAIN runs /\ runs[CurKey].of = CurItem.id
         /\ runs[CurKey].results <= job.r /\ job.r < CurItem.results

\* A run was made from an item of its experiment, and has no result too many.
RunsAreMade ==
  /\ runs = [key \in DOMAIN runs |-> runs[key]]
  /\ \A key \in DOMAIN runs :
       /\ runs[key] \in [of : {i.id : i \in ItemsOf(source)}, results : Nat]
       /\ runs[key].results <= Item(runs[key].of).results
       /\ \E s \in Slugs : /\ exps[s] # NULL
                           /\ \E i \in Range(exps[s].items) : key = <<s, i.run>> /\ runs[key].of = i.id

Full(key) == runs[key].results = Item(runs[key].of).results

\* What was posted of an experiment without a failure is there, up to the item
\* the script is at; and all of it once the script has left the experiment.
WholeSoFar ==
  Posting /\ job.at \in {"run", "result"} /\ Cur.slug \notin disturbed =>
    /\ Cur.writeup => writeups[Cur.slug] = 1
    /\ \A j \in 1..(job.k - 1) : <<Cur.slug, Cur.items[j].run>> \in DOMAIN runs
    /\ \A key \in DOMAIN runs : key[1] = Cur.slug =>
         Full(key) \/ (job.at = "result" /\ key = CurKey /\ runs[key].results = job.r)

LeftWhole == \A s \in Slugs : exps[s] # NULL /\ s \notin disturbed /\ ~Open(s) => Whole(s)

\* What was claimed is in the experiment the script made or found.
ClaimsHold ==
  \A c \in claimed : reordered \/
    \E s \in Slugs : exps[s] # NULL /\ \E i \in Range(exps[s].items) : SameRun(i, Item(c))

\* The slugs of INDEX.md stay what they were while nothing is put before others.
SlugsStay ==
  source = "chris" /\ ~reordered =>
    /\ \A s \in Slugs : exps[s] # NULL => exps[s] \in Range(ChrisPlan(items))
    /\ job # NULL => Range(job.plan) \subseteq Range(ChrisPlan(items))

ImportInv ==
  ImportTypes /\ JobFollows /\ RunsAreMade /\ WholeSoFar /\ LeftWhole /\ ClaimsHold /\ SlugsStay

LEMMA ItemOfId ==
  ASSUME source \in Sources, NEW i \in ItemsOf(source)
  PROVE  Item(i.id) = i
<1>1. \A j \in ItemsOf(source) : j.id = i.id => j = i
  <2>1. PICK m \in DOMAIN Data[source] : i = Data[source][m]
    BY DEF ItemsOf, Range
  <2>2. ASSUME NEW j \in ItemsOf(source), j.id = i.id PROVE j = i
    <3>1. PICK n \in DOMAIN Data[source] : j = Data[source][n]
      BY DEF ItemsOf, Range
    <3>2. n = m
      BY <2>1, <2>2, <3>1, ImportAssumption
    <3>3. QED
      BY <2>1, <3>1, <3>2
  <2>3. QED
    BY <2>2
<1>2. \E j \in ItemsOf(source) : j.id = i.id
  OBVIOUS
<1>3. Item(i.id) \in ItemsOf(source) /\ Item(i.id).id = i.id
  BY <1>2 DEF Item, ItemsOf
<1>4. QED
  BY <1>1, <1>3

\* Where a script stands, there is an entry and an item.
LEMMA CurFacts ==
  ASSUME ImportInv, Posting
  PROVE  /\ job \in Jobs(source) /\ job.plan \in Seq(Entries(source)) /\ job.n \in 1..Len(job.plan)
         /\ job.k \in Nat /\ job.r \in Nat /\ job.n \in Nat /\ Len(job.plan) \in Nat
         /\ Cur \in Entries(source) /\ Cur \in Range(job.plan) /\ Cur \in PlanEntry(source)
         /\ Cur.slug \in Slugs /\ Cur.items \in Seq(ItemsOf(source)) /\ Len(Cur.items) \in Nat
         /\ job.k \in 1..Len(Cur.items)
         /\ CurItem \in Range(Cur.items) /\ CurItem \in ItemsOf(source) /\ CurItem.results \in Nat
<1>1. job \in Jobs(source) /\ source \in Sources
  BY DEF ImportInv, ImportTypes, Posting
<1>2. /\ job.plan \in Seq(Entries(source)) /\ job.n \in Nat /\ job.n > 0
      /\ job.k \in Nat /\ job.k > 0 /\ job.r \in Nat
  BY <1>1 DEF Jobs, Job
<1>3. job.n \in 1..Len(job.plan) /\ Len(job.plan) \in Nat
  BY <1>2 DEF Posting
<1>4. Cur \in Entries(source) /\ Cur \in Range(job.plan)
  BY <1>2, <1>3 DEF Cur, Range
<1>5. Cur \in PlanEntry(source) /\ Cur.slug \in Slugs /\ Cur.items \in Seq(ItemsOf(source))
  BY <1>4 DEF Entries, PlanEntry, ItemsOf
<1>6. job.k \in 1..Len(Cur.items) /\ Len(Cur.items) \in Nat
  BY <1>2, <1>5 DEF ImportInv, JobFollows
<1>7. CurItem \in Range(Cur.items) /\ CurItem \in ItemsOf(source)
  BY <1>5, <1>6 DEF CurItem, Range
<1>8. CurItem.results \in Nat
  BY <1>1, <1>7, ItemFacts
<1>9. QED
  BY <1>1, <1>2, <1>3, <1>4, <1>5, <1>6, <1>7, <1>8

\* What a step leaves alone that touches no part of the database.
LEMMA SameDatabase ==
  ASSUME UNCHANGED <<source, items, db_vars, reordered>>
  PROVE  /\ \A s : Whole(s)' = Whole(s)
         /\ \A x : Item(x)' = Item(x)
         /\ RunsAreMade => RunsAreMade'
<1>1. source' = source /\ exps' = exps /\ writeups' = writeups /\ runs' = runs
  BY DEF db_vars
<1>2. \A x : Item(x)' = Item(x)
  BY <1>1 DEF Item
<1>3. \A s : Whole(s)' = Whole(s)
  BY <1>1, <1>2 DEF Whole
<1>4. RunsAreMade => RunsAreMade'
  BY <1>1, <1>2 DEF RunsAreMade
<1>5. QED
  BY <1>2, <1>3, <1>4

\* A script before an entry has an item to come to.
LEMMA AtEntry ==
  ASSUME Posting', job' \in Jobs(source), job'.at = "experiment", job'.k = 1
  PROVE  job'.k <= Len(Cur'.items)
<1>1. /\ job'.plan \in Seq(Entries(source)) /\ job'.n \in Nat /\ job'.n > 0
      /\ job'.n <= Len(job'.plan)
  BY DEF Posting, Jobs, Job
<1>2. job'.n \in 1..Len(job'.plan)
  BY <1>1
<1>3. Cur' \in Entries(source)
  BY <1>1, <1>2 DEF Cur
<1>4. Cur'.items \in Seq(ItemsOf(source)) /\ Cur'.items # << >>
  BY <1>3 DEF Entries, PlanEntry, ItemsOf
<1>5. QED
  BY <1>4

\* A step that leaves the script before an entry, or ends it.
LEMMA BetweenEntries ==
  ASSUME ImportInv, UNCHANGED <<source, items, db_vars, reordered>>,
         job' = NULL \/ (job' \in Jobs(source) /\ job'.at = "experiment" /\ job'.k = 1 /\ job'.r = 0),
         source = "chris" /\ ~reordered /\ job' # NULL =>
           Range(job'.plan) \subseteq Range(ChrisPlan(items)),
         disturbed \subseteq disturbed', disturbed' \subseteq Slugs,
         \A s \in Slugs : Open(s) => s \in disturbed' \/ Whole(s),
         claimed' \subseteq {i.id : i \in ItemsOf(source)}, ClaimsHold'
  PROVE  ImportInv'
<1>1. /\ source' = source /\ items' = items /\ reordered' = reordered
      /\ exps' = exps /\ writeups' = writeups /\ runs' = runs
  BY DEF db_vars
<1>2. ImportTypes' /\ (Posting' => job' \in Jobs(source) /\ job'.at = "experiment" /\ job'.k = 1)
  BY <1>1 DEF ImportInv, ImportTypes, Posting
<1>3. Posting' => job'.at = "experiment" /\ job'.k = 1 /\ job'.r = 0 /\ job'.k <= Len(Cur'.items)
  BY <1>1, <1>2, AtEntry DEF ImportInv, ImportTypes, Posting
<1>4. JobFollows'
  BY <1>3 DEF JobFollows
<1>5. RunsAreMade'
  BY SameDatabase DEF ImportInv
<1>6. WholeSoFar'
  BY <1>3 DEF WholeSoFar
<1>7. LeftWhole'
  <2>1. SUFFICES ASSUME NEW s \in Slugs, exps[s] # NULL, s \notin disturbed' PROVE Whole(s)'
    BY <1>1 DEF LeftWhole
  <2>2. s \notin disturbed
    BY <2>1
  <2>3. Whole(s)
    BY <2>1, <2>2 DEF ImportInv, LeftWhole
  <2>4. QED
    BY <2>3, SameDatabase
<1>8. SlugsStay'
  BY <1>1 DEF ImportInv, SlugsStay
<1>9. QED
  BY <1>2, <1>4, <1>5, <1>6, <1>7, <1>8 DEF ImportInv
\* The runs of the other experiments.
OtherRunsStay ==
  \A key : key[1] # Cur.slug =>
    /\ key \in DOMAIN runs' <=> key \in DOMAIN runs
    /\ key \in DOMAIN runs => runs'[key] = runs[key]

\* Where a script may come to: the next entry, or another step of the same.
LEMMA NextJobs ==
  ASSUME ImportInv, Posting
  PROVE  /\ NextEntry \in Jobs(source) /\ NextEntry.at = "experiment"
         /\ NextEntry.k = 1 /\ NextEntry.r = 0 /\ NextEntry.plan = job.plan
<1>1. job \in Job(source) /\ job.plan \in Seq(Entries(source)) /\ job.n > 0 /\ job.n \in Nat
  BY CurFacts DEF Jobs
<1> DEFINE m == job.n + 1
           j == [job EXCEPT !.n = m, !.at = "experiment", !.k = 1, !.r = 0]
<1>2. m \in Nat /\ m > 0 /\ NextEntry = j
  BY <1>1 DEF NextEntry
<1> HIDE DEF m
<1>3. /\ j \in Job(source) /\ j.n = m /\ j.plan = job.plan /\ j.k = 1
      /\ j.at = "experiment" /\ j.r = 0
  BY <1>1, <1>2 DEF Job
<1> HIDE DEF j
<1>4. QED
  BY <1>1, <1>2, <1>3 DEF Jobs

StepJob(at, k, r) == [job EXCEPT !.at = at, !.k = k, !.r = r]

LEMMA StepJobs ==
  ASSUME ImportInv, Posting, NEW at \in {"writeup", "run", "result"}, NEW k \in Nat \ {0}, NEW r \in Nat
  PROVE  LET j == StepJob(at, k, r) IN
         /\ j \in Jobs(source) /\ j # NULL /\ j.plan = job.plan /\ j.n = job.n
         /\ j.at = at /\ j.k = k /\ j.r = r
<1> DEFINE j == [job EXCEPT !.at = at, !.k = k, !.r = r]
<1>1. job \in Job(source) /\ job.plan \in Seq(Entries(source)) /\ job.n > 0 /\ job.n \in Nat
  BY CurFacts DEF Jobs
<1>2. j \in Job(source) /\ j.plan = job.plan /\ j.n = job.n /\ j.at = at /\ j.k = k /\ j.r = r
  BY <1>1 DEF Job
<1> HIDE DEF j
<1>3. j # NULL
  BY <1>2, ImportAssumption DEF ImportInv, ImportTypes
<1>4. j \in Jobs(source)
  BY <1>1, <1>2 DEF Jobs
<1>5. QED
  BY <1>2, <1>3, <1>4 DEF j, StepJob

\* What a post of a run or a result leaves alone.
LEMMA RunKeeps ==
  ASSUME ImportInv, Posting, job.at # "experiment",
         UNCHANGED <<source, items, exps, writeups, reordered, claimed>>,
         disturbed' = disturbed \/ disturbed' = disturbed \cup {Cur.slug},
         OtherRunsStay, job' \in Jobs(source), job'.plan = job.plan
  PROVE  /\ ImportTypes' /\ ClaimsHold' /\ SlugsStay'
         /\ exps[Cur.slug] = Cur
         /\ \A x : Item(x)' = Item(x)
         /\ \A s \in Slugs : s # Cur.slug /\ exps[s] # NULL /\ s \notin disturbed' => Whole(s)'
<1>1. Cur.slug \in Slugs /\ exps[Cur.slug] = Cur
  BY CurFacts DEF ImportInv, JobFollows
<1>2. ImportTypes'
  BY <1>1 DEF ImportInv, ImportTypes
<1>3. \A x : Item(x)' = Item(x)
  BY DEF Item
<1>4. \A i, j : SameRun(i, j)' = SameRun(i, j)
  BY DEF SameRun
<1>5. ClaimsHold'
  BY <1>3, <1>4 DEF ImportInv, ClaimsHold
<1>6. SlugsStay'
  BY DEF ImportInv, SlugsStay, Posting
<1>7. ASSUME NEW s \in Slugs, s # Cur.slug, exps[s] # NULL, s \notin disturbed' PROVE Whole(s)'
  <2>1. ~Open(s) /\ s \notin disturbed
    BY <1>7 DEF Open
  <2>2. Whole(s)
    BY <1>7, <2>1 DEF ImportInv, LeftWhole
  <2>3. \A i : <<s, i.run>>[1] # Cur.slug
    BY <1>7
  <2>4. \A i : <<s, i.run>> \in DOMAIN runs => /\ <<s, i.run>> \in DOMAIN runs'
                                              /\ runs'[<<s, i.run>>] = runs[<<s, i.run>>]
    BY <2>3 DEF OtherRunsStay
  <2>5. QED
    BY <1>3, <2>2, <2>4 DEF Whole
<1>8. QED
  BY <1>1, <1>2, <1>3, <1>5, <1>6, <1>7

\* A step that ends a run, in full unless something failed over its experiment.
LEMMA RunEnds ==
  ASSUME ImportInv, Posting, job.at \in {"run", "result"},
         UNCHANGED <<source, items, exps, writeups, reordered, claimed>>,
         disturbed' = disturbed \/ disturbed' = disturbed \cup {Cur.slug},
         OtherRunsStay, RunsAreMade', job' = NextRun,
         Cur.slug \notin disturbed' =>
           /\ CurKey \in DOMAIN runs' /\ DOMAIN runs \subseteq DOMAIN runs'
           /\ \A key \in DOMAIN runs' : key[1] = Cur.slug => Full(key)'
  PROVE  ImportInv'
<1> DEFINE cur == Cur
           K == job.k
           further == StepJob("run", K + 1, 0)
<1>1. /\ cur.slug \in Slugs /\ cur.items \in Seq(ItemsOf(source)) /\ Len(cur.items) \in Nat
      /\ K \in Nat /\ K \in 1..Len(cur.items) /\ job.n \in Nat
  BY CurFacts
<1>2. job' = IF K = Len(cur.items) THEN NextEntry ELSE further
  BY DEF NextRun, StepJob
<1>3. NextEntry \in Jobs(source) /\ NextEntry.at = "experiment" /\ NextEntry.k = 1
      /\ NextEntry.r = 0 /\ NextEntry.plan = job.plan
  BY NextJobs
<1>4. /\ further \in Jobs(source) /\ further # NULL /\ further.plan = job.plan
      /\ further.n = job.n /\ further.at = "run" /\ further.k = K + 1 /\ further.r = 0
  <2>1. K + 1 \in Nat \ {0} /\ 0 \in Nat /\ "run" \in {"writeup", "run", "result"}
    BY <1>1
  <2>2. QED
    BY <2>1, StepJobs DEF K
<1>5. job' \in Jobs(source) /\ job'.plan = job.plan
  BY <1>2, <1>3, <1>4
<1>6. /\ ImportTypes' /\ ClaimsHold' /\ SlugsStay'
      /\ exps[cur.slug] = cur
      /\ \A x : Item(x)' = Item(x)
      /\ \A s \in Slugs : s # cur.slug /\ exps[s] # NULL /\ s \notin disturbed' => Whole(s)'
  BY <1>5, RunKeeps
<1>7. cur.slug \notin disturbed' =>
        /\ cur.writeup => writeups[cur.slug] = 1
        /\ \A j \in 1..K : <<cur.slug, cur.items[j].run>> \in DOMAIN runs'
  <2>1. SUFFICES ASSUME cur.slug \notin disturbed'
                 PROVE  /\ cur.writeup => writeups[cur.slug] = 1
                        /\ \A j \in 1..K : <<cur.slug, cur.items[j].run>> \in DOMAIN runs'
    OBVIOUS
  <2>2. cur.slug \notin disturbed
    BY <2>1
  <2>3. /\ cur.writeup => writeups[cur.slug] = 1
        /\ \A j \in 1..(K - 1) : <<cur.slug, cur.items[j].run>> \in DOMAIN runs
    BY <2>2 DEF ImportInv, WholeSoFar
  <2>4. <<cur.slug, cur.items[K].run>> \in DOMAIN runs'
    BY <2>1 DEF CurKey, CurItem
  <2>5. DOMAIN runs \subseteq DOMAIN runs'
    BY <2>1
  <2> HIDE DEF cur, K
  <2>6. \A j \in 1..K : j = K \/ j \in 1..(K - 1)
    BY <1>1
  <2>7. QED
    BY <2>3, <2>4, <2>5, <2>6
<1>8. CASE K = Len(cur.items)
  <2>1. job' = NextEntry
    BY <1>2, <1>8
  <2>2. Posting' => job'.at = "experiment" /\ job'.k = 1 /\ job'.r = 0 /\ job'.k <= Len(Cur'.items)
    BY <1>3, <2>1, AtEntry
  <2>3. JobFollows' /\ WholeSoFar'
    BY <2>2 DEF JobFollows, WholeSoFar
  <2>4. ASSUME NEW s, s = cur.slug, s \notin disturbed' PROVE Whole(s)'
    <3>1. /\ exps'[s] = cur /\ (cur.writeup => writeups'[s] = 1)
          /\ \A j \in 1..K : <<s, cur.items[j].run>> \in DOMAIN runs'
          /\ \A key \in DOMAIN runs' : key[1] = s => Full(key)'
      BY <1>6, <1>7, <2>4
    <3> HIDE DEF cur, K
    <3>2. \A i \in Range(cur.items) : <<s, i.run>> \in DOMAIN runs'
      <4>1. SUFFICES ASSUME NEW j \in 1..Len(cur.items) PROVE <<s, cur.items[j].run>> \in DOMAIN runs'
        BY <1>1 DEF Range
      <4>2. QED
        BY <1>8, <3>1
    <3>3. \A i \in Range(cur.items) : Full(<<s, i.run>>)'
      BY <3>1, <3>2
    <3>4. QED
      BY <3>1, <3>2, <3>3 DEF Whole, Full
  <2>5. LeftWhole'
    <3>1. SUFFICES ASSUME NEW s \in Slugs, exps[s] # NULL, s \notin disturbed' PROVE Whole(s)'
      BY DEF LeftWhole
    <3> HIDE DEF cur
    <3>2. QED
      BY <1>6, <2>4, <3>1
  <2>6. QED
    BY <1>6, <2>3, <2>5 DEF ImportInv
<1>9. CASE K # Len(cur.items)
  <2>1. job' = further
    BY <1>2, <1>9
  <2>2. Posting' /\ Cur' = cur /\ job'.at = "run" /\ job'.k = K + 1 /\ job'.r = 0
    BY <1>4, <2>1 DEF Posting, Cur
  <2>3. K + 1 <= Len(cur.items) /\ (K + 1) - 1 = K
    BY <1>1, <1>9
  <2> HIDE DEF cur, K
  <2>4. JobFollows'
    BY <1>6, <2>2, <2>3 DEF JobFollows
  <2>5. WholeSoFar'
    BY <1>6, <1>7, <2>2, <2>3 DEF WholeSoFar, cur
  <2>7. LeftWhole'
    <3>1. SUFFICES ASSUME NEW s \in Slugs, exps[s] # NULL, s \notin disturbed', ~Open(s)'
                   PROVE  Whole(s)'
      BY DEF LeftWhole
    <3>2. s # cur.slug
      BY <2>2, <3>1 DEF Open
    <3>3. QED
      BY <1>6, <3>1, <3>2
  <2>8. QED
    BY <1>6, <2>4, <2>5, <2>7 DEF ImportInv
<1>10. QED
  BY <1>8, <1>9
\* A step to a result of the run, which has those before it unless something
\* failed over its experiment.
LEMMA RunGoesOn ==
  ASSUME ImportInv, Posting, job.at \in {"run", "result"},
         UNCHANGED <<source, items, exps, writeups, reordered, claimed>>,
         disturbed' = disturbed \/ disturbed' = disturbed \cup {Cur.slug},
         OtherRunsStay, RunsAreMade',
         NEW x \in Nat, x < CurItem.results, job' = StepJob("result", job.k, x),
         CurKey \in DOMAIN runs', runs'[CurKey].of = CurItem.id, runs'[CurKey].results <= x,
         Cur.slug \notin disturbed' =>
           /\ DOMAIN runs \subseteq DOMAIN runs' /\ runs'[CurKey].results = x
           /\ \A key \in DOMAIN runs' : key[1] = Cur.slug /\ key # CurKey => Full(key)'
  PROVE  ImportInv'
<1> DEFINE cur == Cur
           K == job.k
<1>1. /\ cur.slug \in Slugs /\ cur.items \in Seq(ItemsOf(source)) /\ Len(cur.items) \in Nat
      /\ K \in Nat \ {0} /\ K \in 1..Len(cur.items) /\ job.n \in Nat
  BY CurFacts
<1>2. /\ job' \in Jobs(source) /\ job' # NULL /\ job'.plan = job.plan
      /\ job'.n = job.n /\ job'.at = "result" /\ job'.k = K /\ job'.r = x
  BY <1>1, StepJobs
<1>3. /\ ImportTypes' /\ ClaimsHold' /\ SlugsStay'
      /\ exps[cur.slug] = cur
      /\ \A i : Item(i)' = Item(i)
      /\ \A s \in Slugs : s # cur.slug /\ exps[s] # NULL /\ s \notin disturbed' => Whole(s)'
  BY <1>2, RunKeeps
<1>4. cur.slug \notin disturbed' =>
        /\ cur.writeup => writeups[cur.slug] = 1
        /\ \A j \in 1..(K - 1) : <<cur.slug, cur.items[j].run>> \in DOMAIN runs'
  <2>1. SUFFICES ASSUME cur.slug \notin disturbed'
                 PROVE  /\ cur.writeup => writeups[cur.slug] = 1
                        /\ \A j \in 1..(K - 1) : <<cur.slug, cur.items[j].run>> \in DOMAIN runs'
    OBVIOUS
  <2>2. cur.slug \notin disturbed
    BY <2>1
  <2>3. /\ cur.writeup => writeups[cur.slug] = 1
        /\ \A j \in 1..(K - 1) : <<cur.slug, cur.items[j].run>> \in DOMAIN runs
    BY <2>2 DEF ImportInv, WholeSoFar
  <2>4. QED
    BY <2>1, <2>3
<1>5. Posting' /\ Cur' = cur /\ CurItem' = CurItem /\ CurKey' = CurKey
  BY <1>2 DEF Posting, Cur, CurItem, CurKey
<1>6. JobFollows'
  BY <1>1, <1>2, <1>3, <1>5 DEF JobFollows
<1>7. WholeSoFar'
  <2>1. SUFFICES ASSUME cur.slug \notin disturbed'
                 PROVE  \A key \in DOMAIN runs' : key[1] = cur.slug =>
                          Full(key)' \/ (key = CurKey /\ runs'[key].results = x)
    BY <1>2, <1>4, <1>5, <1>3 DEF WholeSoFar
  <2>2. QED
    BY <2>1
<1>8. LeftWhole'
  <2>1. SUFFICES ASSUME NEW s \in Slugs, exps[s] # NULL, s \notin disturbed', ~Open(s)'
                 PROVE  Whole(s)'
    BY DEF LeftWhole
  <2>2. s # cur.slug
    BY <1>2, <1>5, <2>1 DEF Open
  <2>3. QED
    BY <1>3, <2>1, <2>2
<1>9. QED
  BY <1>3, <1>6, <1>7, <1>8 DEF ImportInv

\* The runs of the script's experiment, while nothing failed over it.
LEMMA FullSoFar ==
  ASSUME ImportInv, Posting, job.at \in {"run", "result"}, Cur.slug \notin disturbed,
         NEW key \in DOMAIN runs, key[1] = Cur.slug
  PROVE  Full(key) \/ (job.at = "result" /\ key = CurKey /\ runs[key].results = job.r)
  BY DEF ImportInv, WholeSoFar

LEMMA PostRunStep ==
  ASSUME ImportInv, PostRun, UNCHANGED <<source, items, reordered>>
  PROVE  ImportInv'
<1> DEFINE i == CurItem
           key == CurKey
<1>1. Posting /\ job.at = "run" /\ UNCHANGED <<exps, writeups, claimed>>
  BY DEF PostRun, At, Posting
<1>2. /\ i \in Range(Cur.items) /\ i \in ItemsOf(source) /\ i.results \in Nat
      /\ Cur.slug \in Slugs /\ exps[Cur.slug] = Cur /\ Cur \in Entries(source) /\ Item(i.id) = i
      /\ job.r = 0 /\ job.k \in Nat /\ job.k # 0 /\ job.k \in 1..Len(Cur.items)
  <2>1. exps[Cur.slug] = Cur /\ job.r = 0
    BY <1>1 DEF ImportInv, JobFollows
  <2>2. source \in Sources
    BY DEF ImportInv, ImportTypes
  <2>3. QED
    BY <1>1, <2>1, <2>2, CurFacts, ItemOfId
<1>3. \A x : Item(x)' = Item(x)
  BY DEF Item
<1>4. key = <<Cur.slug, i.run>> /\ key[1] = Cur.slug
  BY DEF CurKey
<1>5. CASE /\ key \notin DOMAIN runs /\ runs' = WithRun(key, i) /\ disturbed' = disturbed
           /\ job' = IF i.results > 0 THEN [job EXCEPT !.at = "result"] ELSE NextRun
  <2>0. disturbed' = disturbed /\ job' = IF i.results > 0 THEN [job EXCEPT !.at = "result"] ELSE NextRun
    BY <1>5
  <2>1. /\ DOMAIN runs' = DOMAIN runs \cup {key} /\ runs'[key] = [of |-> i.id, results |-> 0]
        /\ \A k \in DOMAIN runs : runs'[k] = runs[k]
        /\ runs' = [k \in DOMAIN runs' |-> runs'[k]]
    BY <1>5 DEF WithRun
  <2> HIDE DEF key, i
  <2>2. OtherRunsStay
    BY <1>4, <2>1 DEF OtherRunsStay
  <2>3. RunsAreMade'
    <3>1. runs'[key] \in [of : {j.id : j \in ItemsOf(source)}, results : Nat]
          /\ runs'[key].of = i.id /\ runs'[key].results = 0
      BY <1>2, <2>1
    <3>2. exps[Cur.slug] # NULL
      BY <1>2, ImportAssumption DEF Entries, ImportInv, ImportTypes
    <3>3. \E s \in Slugs : /\ exps[s] # NULL
                           /\ \E j \in Range(exps[s].items) : key = <<s, j.run>> /\ runs'[key].of = j.id
      BY <1>2, <1>4, <3>1, <3>2
    <3>4. runs'[key].results <= Item(runs'[key].of).results
      BY <1>2, <3>1
    <3>5. RunsAreMade
      BY DEF ImportInv
    <3>6. \A k \in DOMAIN runs' : k = key \/ (k \in DOMAIN runs /\ runs'[k] = runs[k])
      BY <2>1
    <3>7. QED
      BY <1>1, <1>3, <2>1, <3>1, <3>3, <3>4, <3>5, <3>6 DEF RunsAreMade
  <2>4. ASSUME Cur.slug \notin disturbed, NEW k \in DOMAIN runs, k[1] = Cur.slug
        PROVE  Full(k)'
    <3>1. Full(k)
      BY <1>1, <2>4, FullSoFar
    <3>2. runs'[k] = runs[k]
      BY <2>1
    <3>3. QED
      BY <1>3, <3>1, <3>2 DEF Full
  <2>5. CASE i.results > 0
    <3>1. job' = StepJob("result", job.k, 0)
      <4>1. job' = [job EXCEPT !.at = "result"]
        BY <2>0, <2>5
      <4>2. job = [job EXCEPT !.k = job.k, !.r = 0]
        BY <1>1, <1>2, CurFacts DEF Jobs, Job
      <4>3. QED
        BY <1>1, <1>2, <4>1, CurFacts DEF StepJob, Jobs, Job
    <3>2. \A k \in DOMAIN runs' : k # key => k \in DOMAIN runs
      BY <2>1
    <3>3. /\ CurKey \in DOMAIN runs' /\ runs'[CurKey].of = CurItem.id /\ runs'[CurKey].results = 0
      BY <2>1 DEF key, i
    <3>4. Cur.slug \notin disturbed' =>
           /\ DOMAIN runs \subseteq DOMAIN runs' /\ runs'[CurKey].results = 0
           /\ \A k \in DOMAIN runs' : k[1] = Cur.slug /\ k # CurKey => Full(k)'
      BY <2>0, <2>1, <2>4, <3>2, <3>3 DEF key
    <3>5. 0 < CurItem.results /\ 0 \in Nat
      BY <1>2, <2>5 DEF i
    <3>6. QED
      BY <1>1, <2>0, <2>2, <2>3, <3>1, <3>3, <3>4, <3>5, RunGoesOn
  <2>6. CASE ~(i.results > 0)
    <3>1. job' = NextRun
      BY <2>0, <2>6
    <3>2. ASSUME NEW k, k = key PROVE Full(k)'
      BY <3>2, <1>2, <1>3, <2>1, <2>6 DEF Full
    <3>3. Cur.slug \notin disturbed' =>
           /\ CurKey \in DOMAIN runs' /\ DOMAIN runs \subseteq DOMAIN runs'
           /\ \A k \in DOMAIN runs' : k[1] = Cur.slug => Full(k)'
      <4>1. \A k \in DOMAIN runs' : k = key \/ k \in DOMAIN runs
        BY <2>1
      <4>2. QED
        BY <2>0, <2>1, <2>4, <3>2, <4>1 DEF key
    <3>4. QED
      BY <1>1, <2>0, <2>2, <2>3, <3>1, <3>3, RunEnds
  <2>7. QED
    BY <2>5, <2>6
<1>6. CASE /\ job' = NextRun /\ UNCHANGED runs
           /\ \/ key \in DOMAIN runs /\ disturbed' = disturbed
              \/ disturbed' = disturbed \cup {Cur.slug}
  <2>1. OtherRunsStay /\ RunsAreMade'
    BY <1>1, <1>3, <1>6 DEF OtherRunsStay, ImportInv, RunsAreMade
  <2>2. ASSUME Cur.slug \notin disturbed', NEW k \in DOMAIN runs, k[1] = Cur.slug PROVE Full(k)'
    <3>1. Cur.slug \notin disturbed
      BY <1>6, <2>2
    <3>2. Full(k)
      BY <1>1, <2>2, <3>1, FullSoFar
    <3>3. QED
      BY <1>3, <1>6, <3>2 DEF Full
  <2>3. Cur.slug \notin disturbed' =>
           /\ CurKey \in DOMAIN runs' /\ DOMAIN runs \subseteq DOMAIN runs'
           /\ \A k \in DOMAIN runs' : k[1] = Cur.slug => Full(k)'
    BY <1>6, <2>2
  <2>4. QED
    BY <1>1, <1>6, <2>1, <2>3, RunEnds
<1>7. QED
  BY <1>5, <1>6 DEF PostRun, CurKey, CurItem
LEMMA PostResultStep ==
  ASSUME ImportInv, PostResult, UNCHANGED <<source, items, reordered>>
  PROVE  ImportInv'
<1> DEFINE i == CurItem
           key == CurKey
           x == job.r + 1
<1>1. Posting /\ job.at = "result" /\ UNCHANGED <<exps, writeups, claimed>>
  BY DEF PostResult, At, Posting
<1>2. /\ i \in ItemsOf(source) /\ i.results \in Nat /\ Item(i.id) = i
      /\ job.k \in Nat /\ job.r \in Nat /\ x \in Nat /\ RunsAreMade
      /\ key \in DOMAIN runs /\ runs[key].of = i.id /\ runs[key].results <= job.r /\ job.r < i.results
      /\ key[1] = Cur.slug
  <2>1. source \in Sources
    BY DEF ImportInv, ImportTypes
  <2>2. /\ key \in DOMAIN runs /\ runs[key].of = i.id /\ runs[key].results <= job.r
        /\ job.r < i.results
    BY <1>1 DEF ImportInv, JobFollows
  <2>3. QED
    BY <1>1, <2>1, <2>2, CurFacts, ItemOfId DEF ImportInv, CurKey
<1>3. \A id : Item(id)' = Item(id)
  BY DEF Item
<1>4. runs[key] \in [of : {j.id : j \in ItemsOf(source)}, results : Nat] /\ runs = [k \in DOMAIN runs |-> runs[k]]
  BY <1>2 DEF RunsAreMade
<1>5. /\ job' = IF x = i.results THEN NextRun ELSE StepJob("result", job.k, x)
      /\ \/ runs' = [runs EXCEPT ![key].results = @ + 1] /\ disturbed' = disturbed
         \/ runs' = runs /\ disturbed' = disturbed \cup {Cur.slug}
  <2>1. [job EXCEPT !.r = @ + 1] = StepJob("result", job.k, x)
    <3>1. job = [job EXCEPT !.at = "result", !.k = job.k]
      BY <1>1, CurFacts DEF Jobs, Job
    <3>2. QED
      BY <1>1, <3>1, CurFacts DEF StepJob, Jobs, Job
  <2>2. QED
    BY <2>1 DEF PostResult, CurKey, CurItem
<1> HIDE DEF key, i
<1>6. /\ DOMAIN runs' = DOMAIN runs /\ \A k \in DOMAIN runs : k # key => runs'[k] = runs[k]
      /\ runs' = [k \in DOMAIN runs' |-> runs'[k]]
      /\ runs'[key] \in [of : {j.id : j \in ItemsOf(source)}, results : Nat]
      /\ runs'[key].of = i.id /\ runs'[key].results <= x
      /\ Cur.slug \notin disturbed' => runs'[key].results = runs[key].results + 1
  <2>1. CASE runs' = [runs EXCEPT ![key].results = @ + 1]
    <3> DEFINE new == [runs[key] EXCEPT !.results = @ + 1]
    <3>1. /\ new \in [of : {j.id : j \in ItemsOf(source)}, results : Nat]
          /\ new.of = i.id /\ new.results = runs[key].results + 1 /\ new.results <= x
      BY <1>2, <1>4
    <3>2. runs' = [runs EXCEPT ![key] = new]
      BY <2>1
    <3> HIDE DEF new
    <3>3. /\ DOMAIN runs' = DOMAIN runs /\ \A k \in DOMAIN runs : k # key => runs'[k] = runs[k]
          /\ runs' = [k \in DOMAIN runs' |-> runs'[k]] /\ runs'[key] = new
      BY <1>2, <1>4, <3>2
    <3>4. QED
      BY <3>1, <3>3
  <2>2. CASE runs' = runs /\ disturbed' = disturbed \cup {Cur.slug}
    <3>1. runs[key].results <= x
      BY <1>2, <1>4
    <3>2. QED
      BY <1>2, <1>4, <2>2, <3>1
  <2>3. QED
    BY <1>5, <2>1, <2>2
<1>7. OtherRunsStay
  BY <1>2, <1>6 DEF OtherRunsStay
<1>8. x <= i.results
  BY <1>2
<1>9. RunsAreMade'
  <2>1. runs'[key].results <= Item(runs'[key].of).results
    BY <1>2, <1>6, <1>8
  <2>2. \E s \in Slugs : /\ exps[s] # NULL
                         /\ \E j \in Range(exps[s].items) : key = <<s, j.run>> /\ runs'[key].of = j.id
    BY <1>2, <1>6 DEF RunsAreMade
  <2>3. \A k \in DOMAIN runs' : k = key \/ (k \in DOMAIN runs /\ runs'[k] = runs[k])
    BY <1>6
  <2>4. ASSUME NEW k \in DOMAIN runs'
        PROVE  /\ runs'[k] \in [of : {j.id : j \in ItemsOf(source)}, results : Nat]
               /\ runs'[k].results <= Item(runs'[k].of).results
               /\ \E s \in Slugs : /\ exps[s] # NULL
                                   /\ \E j \in Range(exps[s].items) : k = <<s, j.run>> /\ runs'[k].of = j.id
    <3>1. CASE k = key
      BY <1>6, <2>1, <2>2, <3>1
    <3>2. CASE k # key
      BY <1>2, <2>3, <3>2 DEF RunsAreMade
    <3>3. QED
      BY <3>1, <3>2
  <2>5. runs' = [k \in DOMAIN runs' |-> runs'[k]]
    BY <1>6
  <2>6. QED
    BY <1>1, <1>3, <2>4, <2>5 DEF RunsAreMade
<1>10. ASSUME Cur.slug \notin disturbed' PROVE runs'[key].results = x
  <2>1. Cur.slug \notin disturbed /\ disturbed' = disturbed
    BY <1>5, <1>10
  <2>2. Full(key) \/ runs[key].results = job.r
    BY <1>1, <1>2, <2>1, FullSoFar
  <2>3. runs[key].results = job.r
    BY <1>2, <1>4, <2>2 DEF Full
  <2>4. QED
    BY <1>6, <2>1, <2>3
<1>11. ASSUME Cur.slug \notin disturbed', NEW k \in DOMAIN runs, k # key, k[1] = Cur.slug
       PROVE  Full(k)'
  <2>1. Cur.slug \notin disturbed
    BY <1>5, <1>11
  <2>2. Full(k)
    BY <1>1, <1>11, <2>1, FullSoFar DEF key
  <2>3. runs'[k] = runs[k]
    BY <1>6, <1>11
  <2>4. QED
    BY <1>3, <2>2, <2>3 DEF Full
<1>12. disturbed' = disturbed \/ disturbed' = disturbed \cup {Cur.slug}
  BY <1>5
<1>13. CASE x = i.results
  <2>1. ASSUME Cur.slug \notin disturbed', NEW k, k = key PROVE Full(k)'
    BY <1>2, <1>3, <1>6, <1>10, <1>13, <2>1 DEF Full
  <2>2. Cur.slug \notin disturbed' =>
           /\ CurKey \in DOMAIN runs' /\ DOMAIN runs \subseteq DOMAIN runs'
           /\ \A k \in DOMAIN runs' : k[1] = Cur.slug => Full(k)'
    BY <1>2, <1>6, <1>11, <2>1 DEF key
  <2>3. QED
    BY <1>1, <1>5, <1>7, <1>9, <1>12, <1>13, <2>2, RunEnds
<1>14. CASE x # i.results
  <2>1. x < CurItem.results
    BY <1>2, <1>14 DEF i
  <2>2. Cur.slug \notin disturbed' =>
           /\ DOMAIN runs \subseteq DOMAIN runs' /\ runs'[CurKey].results = x
           /\ \A k \in DOMAIN runs' : k[1] = Cur.slug /\ k # CurKey => Full(k)'
    BY <1>6, <1>10, <1>11 DEF key
  <2>3. /\ CurKey \in DOMAIN runs' /\ runs'[CurKey].of = CurItem.id /\ runs'[CurKey].results <= x
    BY <1>2, <1>6 DEF key, i
  <2>4. x \in Nat /\ job' = StepJob("result", job.k, x)
    BY <1>2, <1>5, <1>14
  <2> HIDE DEF x
  <2>5. QED
    BY <1>1, <1>7, <1>9, <1>12, <2>1, <2>2, <2>3, <2>4, RunGoesOn
<1>15. QED
  BY <1>13, <1>14
LEMMA PostWriteupStep ==
  ASSUME ImportInv, PostWriteup, UNCHANGED <<source, items, reordered>>
  PROVE  ImportInv'
<1> DEFINE cur == Cur
<1>1. Posting /\ job.at = "writeup" /\ UNCHANGED <<exps, runs, claimed>>
  BY DEF PostWriteup, At, Posting
<1>2. /\ cur.slug \in Slugs /\ cur.writeup /\ writeups[cur.slug] = 0 /\ exps[cur.slug] = cur
      /\ job.k = 1 /\ job.r = 0 /\ job.k <= Len(cur.items)
      /\ \A key \in DOMAIN runs : key[1] # cur.slug
  BY <1>1, CurFacts DEF ImportInv, JobFollows
<1>3. /\ job' \in Jobs(source) /\ job' # NULL /\ job'.plan = job.plan /\ job'.n = job.n
      /\ job'.at = "run" /\ job'.k = 1 /\ job'.r = 0
  <2>1. job' = StepJob("run", 1, 0)
    <3>1. job' = [job EXCEPT !.at = "run"] /\ job = [job EXCEPT !.k = 1, !.r = 0]
      BY <1>1, <1>2, CurFacts DEF PostWriteup, Jobs, Job
    <3>2. QED
      BY <1>1, <3>1, CurFacts DEF StepJob, Jobs, Job
  <2>2. QED
    BY <1>1, <2>1, StepJobs
<1>4. Posting' /\ Cur' = cur
  BY <1>1, <1>3 DEF Posting, Cur
<1>5. /\ \A s \in Slugs : s # cur.slug => writeups'[s] = writeups[s]
      /\ writeups' \in [Slugs -> 0..1] /\ \A s \in Slugs : exps[s] = NULL => writeups'[s] = 0
      /\ disturbed \subseteq disturbed' /\ disturbed' \subseteq Slugs
      /\ cur.slug \in disturbed' \/ writeups'[cur.slug] = 1
  <2>1. /\ writeups \in [Slugs -> 0..1] /\ \A s \in Slugs : exps[s] = NULL => writeups[s] = 0
        /\ disturbed \subseteq Slugs /\ exps[cur.slug] # NULL
    BY <1>2, CurFacts, <1>1, ImportAssumption DEF ImportInv, ImportTypes
  <2>2. CASE writeups' = [writeups EXCEPT ![cur.slug] = @ + 1] /\ disturbed' = disturbed
    <3> HIDE DEF cur
    <3>1. QED
      BY <1>2, <2>1, <2>2
  <2>3. CASE writeups' = writeups /\ disturbed' = disturbed \cup {cur.slug}
    <3> HIDE DEF cur
    <3>1. QED
      BY <1>2, <2>1, <2>3
  <2>4. QED
    BY <2>2, <2>3 DEF PostWriteup
<1>6. \A x : Item(x)' = Item(x)
  BY DEF Item
<1>7. ImportTypes'
  BY <1>1, <1>3, <1>5 DEF ImportInv, ImportTypes
<1>8. JobFollows'
  BY <1>1, <1>2, <1>3, <1>4 DEF JobFollows
<1>9. RunsAreMade'
  BY <1>1, <1>6 DEF ImportInv, RunsAreMade
<1>10. WholeSoFar'
  BY <1>1, <1>2, <1>3, <1>4, <1>5 DEF WholeSoFar
<1>11. LeftWhole'
  <2>1. SUFFICES ASSUME NEW s \in Slugs, exps[s] # NULL, s \notin disturbed', ~Open(s)'
                 PROVE  Whole(s)'
    BY <1>1 DEF LeftWhole
  <2>2. s # cur.slug
    BY <1>3, <1>4, <2>1 DEF Open
  <2>3. Whole(s)
    BY <1>5, <2>1, <2>2 DEF ImportInv, LeftWhole, Open
  <2>4. writeups'[s] = writeups[s]
    BY <1>5, <2>2
  <2>5. QED
    BY <1>1, <1>6, <2>3, <2>4 DEF Whole
<1>12. ClaimsHold'
  <2>1. \A i, j : SameRun(i, j)' = SameRun(i, j)
    BY DEF SameRun
  <2>2. QED
    BY <1>1, <1>6, <2>1 DEF ImportInv, ClaimsHold
<1>13. SlugsStay'
  BY <1>1, <1>3 DEF ImportInv, SlugsStay, Posting
<1>14. QED
  BY <1>7, <1>8, <1>9, <1>10, <1>11, <1>12, <1>13 DEF ImportInv

\* A new experiment has nothing yet, and is that of the items it is made from.
LEMMA MakesExperiment ==
  ASSUME ImportInv, Posting, job.at = "experiment", exps[Cur.slug] = NULL,
         UNCHANGED <<source, items, reordered, writeups, runs, disturbed>>,
         exps' = [exps EXCEPT ![Cur.slug] = Cur],
         job' = StepJob(IF Cur.writeup THEN "writeup" ELSE "run", 1, 0),
         claimed' = claimed \cup {i.id : i \in Range(Cur.items)}
  PROVE  ImportInv'
<1> DEFINE cur == Cur
<1>1. /\ cur \in Entries(source) /\ cur \in Range(job.plan) /\ cur.slug \in Slugs
      /\ cur.writeup \in BOOLEAN /\ cur.items \in Seq(ItemsOf(source)) /\ cur # NULL
      /\ job.k = 1 /\ job.r = 0 /\ job.k <= Len(cur.items) /\ source \in Sources
  <2>1. Cur \in PlanEntry(source) /\ NULL \notin PlanEntry(source)
    BY CurFacts, ImportAssumption DEF ImportInv, ImportTypes
  <2>2. Cur.writeup \in BOOLEAN /\ Cur # NULL
    BY <2>1 DEF PlanEntry
  <2>3. job.k = 1 /\ job.r = 0 /\ job.k <= Len(Cur.items) /\ source \in Sources
    BY DEF ImportInv, JobFollows, ImportTypes
  <2>4. QED
    BY <2>2, <2>3, CurFacts
<1>2. /\ job' \in Jobs(source) /\ job' # NULL /\ job'.plan = job.plan /\ job'.n = job.n
      /\ job'.at = (IF cur.writeup THEN "writeup" ELSE "run") /\ job'.k = 1 /\ job'.r = 0
  <2>1. CASE cur.writeup
    <3>1. job' = StepJob("writeup", 1, 0)
      BY <2>1
    <3>2. QED
      BY <2>1, <3>1, StepJobs
  <2>2. CASE ~cur.writeup
    <3>1. job' = StepJob("run", 1, 0)
      BY <2>2
    <3>2. QED
      BY <2>2, <3>1, StepJobs
  <2>3. QED
    BY <2>1, <2>2
<1>3. Posting' /\ Cur' = cur
  BY <1>2 DEF Posting, Cur
<1>4. exps \in [Slugs -> Entries(source) \cup {NULL}]
  BY DEF ImportInv, ImportTypes
<1> HIDE DEF cur
<1>5. /\ exps' \in [Slugs -> Entries(source) \cup {NULL}] /\ exps'[cur.slug] = cur
      /\ \A s \in Slugs : s # cur.slug => exps'[s] = exps[s]
      /\ writeups[cur.slug] = 0
      /\ \A s \in Slugs : exps[s] # NULL => s # cur.slug /\ exps'[s] = exps[s]
  BY <1>1, <1>4 DEF cur, ImportInv, ImportTypes
<1>6. \A key \in DOMAIN runs : key[1] # cur.slug
  <2>1. SUFFICES ASSUME NEW key \in DOMAIN runs PROVE key[1] # cur.slug
    OBVIOUS
  <2>2. PICK s \in Slugs : exps[s] # NULL /\ \E i \in Range(exps[s].items) : key = <<s, i.run>>
    BY <2>1 DEF ImportInv, RunsAreMade
  <2>3. key[1] = s /\ s # cur.slug
    BY <1>5, <2>2
  <2>4. QED
    BY <2>3
<1>7. \A x : Item(x)' = Item(x)
  BY DEF Item
<1>8. \A i, j : SameRun(i, j)' = SameRun(i, j)
  BY DEF SameRun
<1>9. ImportTypes'
  <2>1. claimed' \subseteq {i.id : i \in ItemsOf(source)}
    BY <1>1 DEF Range, ImportInv, ImportTypes, cur
  <2>2. \A s \in Slugs : exps'[s] # NULL => exps'[s].slug = s
    BY <1>5 DEF ImportInv, ImportTypes
  <2>3. \A s \in Slugs : exps'[s] = NULL => writeups[s] = 0
    BY <1>1, <1>5 DEF ImportInv, ImportTypes
  <2>4. QED
    BY <1>2, <1>5, <2>1, <2>2, <2>3 DEF ImportInv, ImportTypes
<1>10. JobFollows'
  BY <1>1, <1>2, <1>3, <1>5, <1>6 DEF JobFollows
<1>11. RunsAreMade'
  BY <1>5, <1>7 DEF ImportInv, RunsAreMade
<1>12. WholeSoFar'
  BY <1>1, <1>2, <1>3, <1>6 DEF WholeSoFar
<1>13. LeftWhole'
  <2>1. SUFFICES ASSUME NEW s \in Slugs, exps'[s] # NULL, s \notin disturbed, ~Open(s)'
                 PROVE  Whole(s)'
    BY DEF LeftWhole
  <2>2. s # cur.slug
    BY <1>2, <1>3, <2>1 DEF Open
  <2>3. exps'[s] = exps[s]
    BY <1>5, <2>2
  <2>4. Whole(s)
    BY <2>1, <2>3 DEF ImportInv, LeftWhole, Open
  <2>5. QED
    BY <1>7, <2>3, <2>4 DEF Whole
<1>14. ClaimsHold'
  <2>1. SUFFICES ASSUME NEW c \in claimed', ~reordered
                 PROVE  \E s \in Slugs : exps'[s] # NULL
                          /\ \E i \in Range(exps'[s].items) : SameRun(i, Item(c))
    BY <1>7, <1>8 DEF ClaimsHold
  <2>2. CASE c \in claimed
    BY <1>5, <2>1, <2>2 DEF ImportInv, ClaimsHold
  <2>3. CASE c \notin claimed
    <3>1. PICK i \in Range(cur.items) : c = i.id
      BY <2>1, <2>3 DEF cur
    <3>2. i \in ItemsOf(source)
      BY <1>1 DEF Range
    <3>3. SameRun(i, Item(c))
      BY <1>1, <3>1, <3>2, ItemOfId DEF SameRun
    <3>4. QED
      BY <1>1, <1>5, <3>3
  <2>4. QED
    BY <2>2, <2>3
<1>15. SlugsStay'
  BY <1>1, <1>2, <1>5 DEF ImportInv, SlugsStay, Posting
<1>16. QED
  BY <1>9, <1>10, <1>11, <1>12, <1>13, <1>14, <1>15 DEF ImportInv
\* An experiment that is found is that of the entry, or of one that would post
\* the same.
LEMMA FoundClaims ==
  ASSUME ImportInv, Posting, exps[Cur.slug] # NULL, source \in {"chris", "mlx"}, ~reordered,
         NEW i \in Range(Cur.items)
  PROVE  \E j \in Range(exps[Cur.slug].items) : SameRun(j, i)
<1> DEFINE e == exps[Cur.slug]
<1>1. /\ Cur \in Entries(source) /\ e \in Entries(source) /\ e.slug = Cur.slug
      /\ Cur.slug \in Slugs /\ Cur \in Range(job.plan) /\ source \in Sources /\ job # NULL
  BY CurFacts DEF ImportInv, ImportTypes, Posting
<1>2. CASE source = "chris"
  <2>1. e \in Range(ChrisPlan(items)) /\ Cur \in Range(ChrisPlan(items))
    BY <1>1, <1>2 DEF ImportInv, SlugsStay
  <2>2. \A x, y \in DOMAIN ChrisPlan(items) :
          ChrisPlan(items)[x].slug = ChrisPlan(items)[y].slug => x = y
    <3>1. items \in Seq(ItemsOf(source)) /\ Len(items) <= Len(Data[source])
      BY DEF ImportInv, ImportTypes
    <3>2. Len(items) \in 0..Len(items)
      BY <3>1
    <3>3. QED
      BY <1>1, <1>2, <3>1, <3>2, ListedEntries DEF ChrisPlan
  <2>3. e = Cur
    BY <1>1, <2>1, <2>2 DEF Range
  <2>4. QED
    BY <2>3 DEF SameRun
<1>3. CASE source = "mlx"
  <2>1. ASSUME NEW d \in Entries(source), NEW j \in Range(d.items)
        PROVE  Name[j.base][1] = d.slug /\ j.run = "historical"
    <3>1. Name[j.base][1] = d.slug /\ d.items \in Seq(ItemsOf(source))
      BY <1>3, <2>1 DEF Entries, PlanEntry, ItemsOf
    <3>2. j \in ItemsOf(source)
      BY <2>1, <3>1 DEF Range
    <3>3. QED
      BY <1>1, <1>3, <3>1, <3>2, ItemFacts
  <2>2. PICK j : j \in Range(e.items)
    <3>1. e.items # << >> /\ e.items \in Seq(ItemsOf(source))
      BY <1>1 DEF Entries, PlanEntry, ItemsOf
    <3>2. 1 \in DOMAIN e.items
      BY <3>1
    <3>3. QED
      BY <3>2 DEF Range
  <2>3. /\ Name[j.base][1] = e.slug /\ j.run = "historical"
        /\ Name[i.base][1] = Cur.slug /\ i.run = "historical"
    BY <1>1, <2>1, <2>2
  <2>4. SameRun(j, i)
    BY <1>1, <1>3, <2>3 DEF SameRun
  <2>5. QED
    BY <2>2, <2>4
<1>4. QED
  BY <1>2, <1>3

LEMMA PostExperimentStep ==
  ASSUME ImportInv, PostExperiment, UNCHANGED <<source, items, reordered>>
  PROVE  ImportInv'
<1>1. Posting /\ job.at = "experiment" /\ UNCHANGED <<writeups, runs, disturbed>>
  BY DEF PostExperiment, At, Posting
<1>2. /\ job \in Job(source) /\ job.k = 1 /\ job.r = 0 /\ Cur.items \in Seq(ItemsOf(source))
      /\ source \in Sources /\ Cur.slug \in Slugs
  BY <1>1, CurFacts DEF Jobs, ImportInv, JobFollows, ImportTypes
<1>3. \A x : Item(x)' = Item(x)
  BY DEF Item
<1>4. \A i, j : SameRun(i, j)' = SameRun(i, j)
  BY DEF SameRun
<1>5. CASE /\ exps[Cur.slug] = NULL
           /\ exps' = [exps EXCEPT ![Cur.slug] = Cur]
           /\ job' = [job EXCEPT !.at = IF Cur.writeup THEN "writeup" ELSE "run"]
           /\ Claim(FALSE)
  <2>1. \A at : [job EXCEPT !.at = at] = StepJob(at, 1, 0)
    BY <1>2 DEF StepJob, Job
  <2>2. job' = StepJob(IF Cur.writeup THEN "writeup" ELSE "run", 1, 0)
    BY <1>5, <2>1
  <2>3. claimed' = claimed \cup {i.id : i \in Range(Cur.items)}
    BY <1>5 DEF Claim
  <2>4. exps[Cur.slug] = NULL /\ exps' = [exps EXCEPT ![Cur.slug] = Cur]
    BY <1>5
  <2>5. QED
    BY <1>1, <2>2, <2>3, <2>4, MakesExperiment
<1>6. CASE /\ job' = NextEntry /\ UNCHANGED exps
           /\ \/ exps[Cur.slug] # NULL /\ Claim(TRUE)
              \/ UNCHANGED claimed
  <2>1. /\ job' \in Jobs(source) /\ job'.at = "experiment" /\ job'.k = 1 /\ job'.r = 0
        /\ job'.plan = job.plan
    BY <1>1, <1>6, NextJobs
  <2>2. \A s \in Slugs : ~Open(s)
    BY <1>1 DEF Open
  <2>3. ClaimsHold'
    <3>1. SUFFICES ASSUME NEW c \in claimed', ~reordered
                   PROVE  \E s \in Slugs : exps[s] # NULL
                            /\ \E i \in Range(exps[s].items) : SameRun(i, Item(c))
      BY <1>3, <1>4, <1>6 DEF ClaimsHold
    <3>2. CASE c \in claimed
      BY <3>1, <3>2 DEF ImportInv, ClaimsHold
    <3>3. CASE c \notin claimed
      <4>1. /\ exps[Cur.slug] # NULL /\ source \in {"chris", "mlx"}
            /\ c \in {i.id : i \in Range(Cur.items)}
        BY <1>2, <1>6, <3>1, <3>3, ImportAssumption DEF Claim
      <4>2. PICK i \in Range(Cur.items) : c = i.id
        BY <4>1
      <4>3. i \in ItemsOf(source)
        BY <1>2 DEF Range
      <4>4. \E j \in Range(exps[Cur.slug].items) : SameRun(j, i)
        BY <1>1, <3>1, <4>1, FoundClaims
      <4>5. Item(c) = i
        BY <1>2, <4>2, <4>3, ItemOfId
      <4>6. QED
        BY <1>2, <4>1, <4>4, <4>5
    <3>4. QED
      BY <3>2, <3>3
  <2>4. claimed' \subseteq {i.id : i \in ItemsOf(source)}
    <3>1. claimed' \subseteq claimed \cup {i.id : i \in Range(Cur.items)}
      BY <1>6 DEF Claim
    <3>2. QED
      BY <1>2, <3>1 DEF Range, ImportInv, ImportTypes
  <2>5. source = "chris" /\ ~reordered /\ job' # NULL =>
           Range(job'.plan) \subseteq Range(ChrisPlan(items))
    BY <1>1, <2>1 DEF ImportInv, SlugsStay, Posting
  <2>6. disturbed' = disturbed /\ disturbed \subseteq Slugs /\ UNCHANGED <<source, items, db_vars, reordered>>
    BY <1>1, <1>6 DEF ImportInv, ImportTypes, db_vars
  <2>7. QED
    BY <2>1, <2>2, <2>3, <2>4, <2>5, <2>6, BetweenEntries
<1>7. QED
  BY <1>5, <1>6 DEF PostExperiment

LEMMA StartImportStep ==
  ASSUME ImportInv, StartImport
  PROVE  ImportInv'
<1>1. job = NULL /\ UNCHANGED <<source, items, db_vars, reordered, disturbed, claimed>>
  BY DEF StartImport
<1>2. Plan \in Seq(Entries(source))
  BY PlanEntries DEF ImportInv, ImportTypes
<1>3. job' = [plan |-> Plan, n |-> 1, at |-> "experiment", k |-> 1, r |-> 0]
  BY DEF StartImport
<1>4. /\ job' \in Jobs(source) /\ job'.at = "experiment" /\ job'.k = 1 /\ job'.r = 0
      /\ job'.plan = Plan
  <2>1. Plan \in Seq(PlanEntry(source))
    BY <1>2 DEF Entries
  <2>2. QED
    BY <1>2, <1>3, <2>1 DEF Jobs, Job
<1>5. \A s \in Slugs : ~Open(s)
  BY <1>1 DEF Open, Posting
<1>6. ClaimsHold'
  <2>1. (\A x : Item(x)' = Item(x)) /\ (\A i, j : SameRun(i, j)' = SameRun(i, j))
    BY <1>1 DEF Item, SameRun
  <2>2. QED
    BY <1>1, <2>1 DEF ImportInv, ClaimsHold, db_vars
<1>7. source = "chris" => Range(job'.plan) \subseteq Range(ChrisPlan(items))
  BY <1>4 DEF Plan
<1>8. disturbed \subseteq Slugs /\ claimed' \subseteq {i.id : i \in ItemsOf(source)}
  BY <1>1 DEF ImportInv, ImportTypes
<1>9. QED
  BY <1>1, <1>4, <1>5, <1>6, <1>7, <1>8, BetweenEntries

LEMMA EndsStep ==
  ASSUME ImportInv, ImportEnds \/ ImportDies, UNCHANGED <<source, items, reordered>>
  PROVE  ImportInv'
<1>1. job' = NULL /\ job # NULL /\ UNCHANGED <<db_vars, claimed>>
  BY DEF ImportEnds, ImportDies
<1>2. /\ disturbed \subseteq disturbed' /\ disturbed' \subseteq Slugs
      /\ \A s \in Slugs : Open(s) => s \in disturbed'
  <2>1. disturbed \subseteq Slugs
    BY DEF ImportInv, ImportTypes
  <2>2. CASE ImportEnds
    <3>1. ~Posting
      <4>1. job \in Jobs(source) /\ job.n > Len(job.plan)
        BY <2>2, <1>1 DEF ImportEnds, ImportInv, ImportTypes
      <4>2. job.n \in Nat /\ job.plan \in Seq(Entries(source))
        BY <4>1 DEF Jobs, Job
      <4>3. Len(job.plan) \in Nat
        BY <4>2
      <4>4. QED
        BY <4>1, <4>2, <4>3 DEF Posting
    <3>2. QED
      BY <2>1, <2>2, <3>1 DEF ImportEnds, Open
  <2>3. CASE ImportDies
    <3>1. Posting
      BY <2>3 DEF ImportDies, Posting
    <3>2. Cur.slug \in Slugs
      BY <3>1, CurFacts
    <3>3. QED
      BY <2>1, <2>3, <3>2 DEF ImportDies, Open
  <2>4. QED
    BY <2>2, <2>3
<1>3. ClaimsHold'
  <2>1. (\A x : Item(x)' = Item(x)) /\ (\A i, j : SameRun(i, j)' = SameRun(i, j))
    BY DEF Item, SameRun
  <2>2. QED
    BY <1>1, <2>1 DEF ImportInv, ClaimsHold, db_vars
<1>4. claimed' \subseteq {i.id : i \in ItemsOf(source)}
  BY <1>1 DEF ImportInv, ImportTypes
<1>5. QED
  BY <1>1, <1>2, <1>3, <1>4, BetweenEntries
LEMMA IdleStep ==
  ASSUME ImportInv, UNCHANGED <<source, items, db_vars, job, reordered, disturbed, claimed>>
  PROVE  ImportInv'
<1>1. /\ source' = source /\ items' = items /\ exps' = exps /\ writeups' = writeups
      /\ runs' = runs /\ job' = job /\ reordered' = reordered /\ disturbed' = disturbed
      /\ claimed' = claimed
  BY DEF db_vars
<1>2. /\ \A s : Whole(s)' = Whole(s) /\ Open(s)' = Open(s)
      /\ \A x : Item(x)' = Item(x)
      /\ \A i, j : SameRun(i, j)' = SameRun(i, j)
      /\ \A k : Full(k)' = Full(k)
      /\ Posting' = Posting /\ Cur' = Cur /\ CurItem' = CurItem /\ CurKey' = CurKey
  BY <1>1 DEF Whole, Open, Item, SameRun, Full, Posting, Cur, CurItem, CurKey
<1>3. ImportTypes'
  BY <1>1 DEF ImportInv, ImportTypes
<1>4. JobFollows'
  BY <1>1, <1>2 DEF ImportInv, JobFollows
<1>5. RunsAreMade'
  BY <1>1, <1>2 DEF ImportInv, RunsAreMade
<1>6. WholeSoFar'
  BY <1>1, <1>2 DEF ImportInv, WholeSoFar
<1>7. LeftWhole'
  BY <1>1, <1>2 DEF ImportInv, LeftWhole
<1>8. ClaimsHold'
  BY <1>1, <1>2 DEF ImportInv, ClaimsHold
<1>9. SlugsStay'
  BY <1>1 DEF ImportInv, SlugsStay
<1>10. QED
  BY <1>3, <1>4, <1>5, <1>6, <1>7, <1>8, <1>9 DEF ImportInv

LEMMA NewItemStep ==
  ASSUME ImportInv, NEW first \in BOOLEAN, NewItem(first)
  PROVE  ImportInv'
<1> DEFINE L == Len(items)
           d == Data[source][L + 1]
<1>1. /\ UNCHANGED <<source, db_vars, job, disturbed, claimed>>
      /\ reordered' = (reordered \/ first) /\ L < Len(Data[source])
      /\ items' = IF first THEN SubSeq(Data[source], L + 1, L + 1) \o items
                  ELSE items \o SubSeq(Data[source], L + 1, L + 1)
  BY DEF NewItem
<1>2. /\ source' = source /\ exps' = exps /\ writeups' = writeups
      /\ runs' = runs /\ job' = job /\ disturbed' = disturbed /\ claimed' = claimed
  BY <1>1 DEF db_vars
<1>3. source \in Sources /\ items \in Seq(ItemsOf(source)) /\ L \in Nat /\ reordered \in BOOLEAN
  BY DEF ImportInv, ImportTypes
<1>4. Data[source] \in Seq(ItemsOf(source)) /\ Len(Data[source]) \in Nat
  BY <1>3, ImportAssumption, LenData DEF ItemsOf
<1>5. SubSeq(Data[source], L + 1, L + 1) = <<d>> /\ d \in ItemsOf(source)
  <2> DEFINE D == Data[source]
             m == L + 1
  <2>1. D \in Seq(ItemsOf(source)) /\ m \in 1..Len(D)
    BY <1>1, <1>3, <1>4
  <2> HIDE DEF D, m
  <2>2. SubSeq(D, m, m) = <<D[m]>>
    <3>1. SubSeq(D, m, m) \in Seq(ItemsOf(source)) /\ Len(SubSeq(D, m, m)) = 1
          /\ SubSeq(D, m, m)[1] = D[m]
      BY <2>1
    <3> DEFINE one == SubSeq(D, m, m)
    <3> HIDE DEF one
    <3>2. one \in Seq(ItemsOf(source)) /\ Len(one) = 1
      BY <3>1 DEF one
    <3>3. one = <<one[1]>>
      BY <3>2
    <3>4. QED
      BY <3>1, <3>3 DEF one
  <2>3. D[m] \in ItemsOf(source)
    BY <2>1
  <2>4. QED
    BY <2>2, <2>3 DEF D, m
<1> HIDE DEF d
<1>6. /\ items' \in Seq(ItemsOf(source)) /\ Len(items') <= Len(Data[source])
      /\ ~first => items' = items \o <<d>>
  <2>1. <<d>> \in Seq(ItemsOf(source)) /\ Len(<<d>>) = 1
    BY <1>5
  <2>2. /\ items \o <<d>> \in Seq(ItemsOf(source)) /\ Len(items \o <<d>>) = L + 1
        /\ <<d>> \o items \in Seq(ItemsOf(source)) /\ Len(<<d>> \o items) = L + 1
    BY <1>3, <2>1
  <2>3. L + 1 <= Len(Data[source])
    BY <1>1, <1>3, <1>4
  <2>4. items' = IF first THEN <<d>> \o items ELSE items \o <<d>>
    BY <1>1, <1>5
  <2> HIDE DEF L
  <2>5. QED
    BY <2>2, <2>3, <2>4
<1>7. /\ \A s : Whole(s)' = Whole(s) /\ Open(s)' = Open(s)
      /\ \A x : Item(x)' = Item(x)
      /\ \A i, j : SameRun(i, j)' = SameRun(i, j)
      /\ \A k : Full(k)' = Full(k)
      /\ Posting' = Posting /\ Cur' = Cur /\ CurItem' = CurItem /\ CurKey' = CurKey
  BY <1>2 DEF Whole, Open, Item, SameRun, Full, Posting, Cur, CurItem, CurKey
<1>8. ImportTypes'
  BY <1>1, <1>2, <1>3, <1>6 DEF ImportInv, ImportTypes
<1>9. JobFollows'
  BY <1>2, <1>7 DEF ImportInv, JobFollows
<1>10. RunsAreMade'
  BY <1>2, <1>7 DEF ImportInv, RunsAreMade
<1>11. WholeSoFar'
  BY <1>2, <1>7 DEF ImportInv, WholeSoFar
<1>12. LeftWhole'
  BY <1>2, <1>7 DEF ImportInv, LeftWhole
<1>13. ClaimsHold'
  BY <1>1, <1>2, <1>7 DEF ImportInv, ClaimsHold
<1>14. SlugsStay'
  <2>1. SUFFICES ASSUME source = "chris", ~reordered, ~first
                 PROVE  Range(ChrisPlan(items)) \subseteq Range(ChrisPlan(items'))
    BY <1>1, <1>2 DEF ImportInv, SlugsStay
  <2>2. items' = items \o <<d>> /\ Len(items) < Len(Data[source]) /\ (source = "chris") = TRUE
    BY <1>1, <1>6, <2>1
  <2>3. Range(Listed(items, source = "chris")[Len(items)])
           \subseteq Range(Listed(items \o <<d>>, source = "chris")[Len(items \o <<d>>)])
    BY <1>3, <1>5, <2>1, <2>2, ListedGrows
  <2>4. QED
    BY <2>2, <2>3 DEF ChrisPlan
<1>15. QED
  BY <1>8, <1>9, <1>10, <1>11, <1>12, <1>13, <1>14 DEF ImportInv

LEMMA ImportStarts == ASSUME Init PROVE ImportInv
<1>1. source \in Sources /\ items = SubSeq(Data[source], 1, Began) /\ job = NULL /\ runs = << >>
      /\ exps = [s \in Slugs |-> NULL] /\ writeups = [s \in Slugs |-> 0]
      /\ reordered = FALSE /\ disturbed = {} /\ claimed = {}
  BY DEF Init
<1>2. Data[source] \in Seq(ItemsOf(source)) /\ Began \in Nat /\ Began <= Len(Data[source])
  BY <1>1, ImportAssumption DEF ItemsOf
<1>3. items \in Seq(ItemsOf(source)) /\ Len(items) <= Len(Data[source])
  <2> DEFINE D == Data[source]
  <2>1. D \in Seq(ItemsOf(source)) /\ items = SubSeq(D, 1, Began)
    BY <1>1, <1>2
  <2>2. Len(D) \in Nat /\ Began <= Len(D)
    BY <1>2, <2>1
  <2> HIDE DEF D
  <2>3. SubSeq(D, 1, Began) \in Seq(ItemsOf(source)) /\ Len(SubSeq(D, 1, Began)) = Began
    BY <1>2, <2>1, <2>2
  <2>4. QED
    BY <2>1, <2>2, <2>3 DEF D
<1>4. ImportTypes
  <2>1. /\ exps \in [Slugs -> Entries(source) \cup {NULL}] /\ writeups \in [Slugs -> 0..1]
        /\ \A s \in Slugs : exps[s] = NULL /\ writeups[s] = 0
    BY <1>1
  <2>2. reordered \in BOOLEAN /\ disturbed \subseteq Slugs /\ claimed \subseteq {i.id : i \in ItemsOf(source)}
    BY <1>1
  <2>3. QED
    BY <1>1, <1>3, <2>1, <2>2 DEF ImportTypes
<1>5. ~Posting
  BY <1>1 DEF Posting
<1>6. RunsAreMade
  BY <1>1 DEF RunsAreMade
<1>7. JobFollows /\ WholeSoFar /\ LeftWhole /\ ClaimsHold /\ SlugsStay
  BY <1>1, <1>5 DEF JobFollows, WholeSoFar, LeftWhole, ClaimsHold, SlugsStay
<1>8. QED
  BY <1>4, <1>6, <1>7 DEF ImportInv

\* What the invariant says of the properties.
LEMMA ImportSays == ASSUME ImportInv PROVE ImportIsSound
<1>1. PostedOnce
  <2>1. \A s \in Slugs : writeups[s] <= 1
    BY DEF ImportInv, ImportTypes
  <2>2. \A key \in DOMAIN runs : runs[key].results <= Item(runs[key].of).results
    BY DEF ImportInv, RunsAreMade
  <2>3. QED
    BY <2>1, <2>2 DEF PostedOnce
<1>2. GapsHaveCause
  BY DEF ImportInv, LeftWhole, GapsHaveCause, Open, Posting
<1>3. ClaimedIsRecorded
  <2>1. SUFFICES ASSUME NEW c \in claimed, ~reordered,
                        NEW s \in Slugs, exps[s] # NULL, NEW i \in Range(exps[s].items), SameRun(i, Item(c))
                 PROVE  \/ \E key \in DOMAIN runs : SameRun(Item(runs[key].of), Item(c))
                        \/ s \in disturbed \/ (job # NULL /\ job.n <= Len(job.plan) /\ Cur.slug = s)
    BY DEF ImportInv, ClaimsHold, ClaimedIsRecorded
  <2>2. CASE Whole(s) /\ ~Open(s)
    <3> DEFINE key == <<s, i.run>>
    <3>1. key \in DOMAIN runs
      BY <2>1, <2>2 DEF Whole
    <3>2. PICK t \in Slugs : /\ exps[t] # NULL
                             /\ \E j \in Range(exps[t].items) : key = <<t, j.run>> /\ runs[key].of = j.id
      BY <3>1 DEF ImportInv, RunsAreMade
    <3>3. PICK j \in Range(exps[t].items) : key = <<t, j.run>> /\ runs[key].of = j.id
      BY <3>2
    <3>4. t = s /\ j.run = i.run
      BY <3>3
    <3>5. SameRun(Item(runs[key].of), Item(c))
      <4>1. /\ exps[s] \in Entries(source) /\ exps[s].slug = s /\ source \in Sources
            /\ j \in Range(exps[s].items) /\ i \in Range(exps[s].items) /\ j.run = i.run
        BY <2>1, <3>3, <3>4 DEF ImportInv, ImportTypes
      <4>2. exps[s].items \in Seq(ItemsOf(source))
        BY <4>1 DEF Entries, PlanEntry, ItemsOf
      <4>3. j \in ItemsOf(source)
        BY <4>1, <4>2 DEF Range
      <4>4. Item(runs[key].of) = j
        BY <3>3, <4>1, <4>3, ItemOfId
      <4>5. CASE source = "chris"
        <5>1. Len(exps[s].items) = 1
          BY <4>1, <4>5 DEF Entries
        <5>2. i = j
          BY <4>1, <4>2, <5>1 DEF Range
        <5>3. QED
          BY <2>1, <4>4, <5>2
      <4>6. CASE source # "chris"
        <5>1. Name[i.base][1] = s /\ Name[j.base][1] = s
          BY <4>1, <4>6 DEF Entries
        <5>2. QED
          BY <2>1, <4>1, <4>4, <4>6, <5>1 DEF SameRun
      <4>7. QED
        BY <4>5, <4>6
    <3>6. QED
      BY <3>1, <3>5
  <2>3. QED
    BY <2>1, <2>2 DEF ImportInv, LeftWhole, Open, Posting
<1>4. QED
  BY <1>1, <1>2, <1>3 DEF ImportIsSound
LEMMA ImportKept == ASSUME ImportInv, [Next]_vars PROVE ImportInv'
<1>1. CASE Archive
  BY <1>1, IdleStep DEF Archive
<1>2. CASE Migrate
  <2>1. CASE StartImport
    BY <2>1, StartImportStep
  <2>2. CASE Import
    <3>1. UNCHANGED <<source, items, reordered>>
      BY <2>2 DEF Import
    <3>2. CASE PostExperiment
      BY <3>1, <3>2, PostExperimentStep
    <3>3. CASE PostWriteup
      BY <3>1, <3>3, PostWriteupStep
    <3>4. CASE PostRun
      BY <3>1, <3>4, PostRunStep
    <3>5. CASE PostResult
      BY <3>1, <3>5, PostResultStep
    <3>6. CASE ImportEnds \/ ImportDies
      BY <3>1, <3>6, EndsStep
    <3>7. QED
      BY <2>2, <3>2, <3>3, <3>4, <3>5, <3>6 DEF Import
  <2>3. CASE \E first \in BOOLEAN : NewItem(first)
    BY <2>3, NewItemStep
  <2>4. QED
    BY <1>2, <2>1, <2>2, <2>3 DEF Migrate
<1>3. CASE UNCHANGED vars
  BY <1>3, IdleStep DEF vars, import_vars
<1>4. QED
  BY <1>1, <1>2, <1>3 DEF Next

LEMMA ImportHolds == Spec => []ImportInv
<1>1. ArchiveInit => ImportInv
  BY ImportStarts DEF ArchiveInit
<1>2. ImportInv /\ [Next]_vars => ImportInv'
  BY ImportKept
<1>3. QED
  BY <1>1, <1>2, PTL DEF Spec

\* However often the scripts are run, and wherever they die, nothing is posted
\* twice; an experiment they left is whole, and what they claim to have recorded
\* has a run, unless a request failed or a script died over it.
THEOREM ImportsAreSound == Spec => []ImportIsSound
<1>1. ImportInv => ImportIsSound
  BY ImportSays
<1>2. QED
  BY <1>1, ImportHolds, PTL

-----------------------------------------------------------------------------
(* The archives.                                                           *)

DriveTypes ==
  /\ manifest = Torn \/ manifest \in SUBSET disk
  /\ disk \in SUBSET Files /\ archived \in SUBSET Files /\ verified \in SUBSET Files
  /\ copies \in [Files -> Nat] /\ interrupted \in [Files -> Nat]
  /\ lost \in Nat /\ faults \in 0..MaxFaults /\ MaxFaults \in Nat
  /\ links \in [Slugs \X Dirs -> 0..2]
  /\ archive = NULL \/ archive \in ArchiveJob

Noting(f) == archive # NULL /\ archive.noting = f

\* What a script knows while it runs.
ArchiveFollows ==
  archive # NULL =>
    /\ job = NULL /\ manifest # Torn /\ source \in {"chris", "mlx"}
    /\ archive.linkable \subseteq Linkable(items)
    /\ \A s \in archive.slugs : <<s, archive.dir>> \in archive.linkable
    /\ archive.todo \subseteq disk \ manifest
    /\ archive.noting # NULL =>
         archive.noting \in disk \ archive.todo /\ copies[archive.noting] > 0
    /\ archive.start \subseteq disk

\* What has a copy: all that is noted, and all that a pass or --verify answered for.
KnownCopies ==
  /\ manifest # Torn => \A f \in manifest : copies[f] > 0
  /\ PassCopiesEverything /\ VerifiedIsOnDrive

\* What was there at the start of a pass is noted, or still to come.
PassCovers ==
  archive # NULL => \A f \in archive.start :
    (IF source = "chris" THEN archive.dir = Loose ELSE Dir[f] # Loose /\ Dir[f] \notin archive.left)
      => f \in manifest \cup archive.todo \/ archive.noting = f

\* A copy too many costs a death between an upload and its note, or a manifest.
CopiesAreCounted ==
  \A f \in Files :
    LET known == manifest # Torn /\ (f \in manifest \/ Noting(f)) IN
    /\ copies[f] <= 1 + interrupted[f] + lost
    /\ ~known /\ manifest # Torn => copies[f] <= interrupted[f] + lost
    /\ copies[f] <= 1 + faults
    /\ ~known => copies[f] <= faults
    /\ interrupted[f] <= faults

ManifestsAreCounted == lost + (IF manifest = Torn THEN 1 ELSE 0) <= faults

LinksHold ==
  \A s \in Slugs, d \in Dirs : links[<<s, d>>] > 0 =>
    /\ <<s, "historical">> \in DOMAIN runs
    /\ \/ reordered
       \/ \E i \in Range(items) : i.path = d /\ SameRun(i, Item(runs[<<s, "historical">>].of))

DriveInv ==
  DriveTypes /\ ArchiveFollows /\ KnownCopies /\ PassCovers /\ CopiesAreCounted
    /\ ManifestsAreCounted /\ LinksHold /\ LinkedOnce
ImportSame == UNCHANGED <<source, items, db_vars, job, reordered, disturbed, claimed>>

LEMMA SameLinks ==
  ASSUME LinksHold, LinkedOnce, ImportSame, links' = links
  PROVE  LinksHold' /\ LinkedOnce'
<1>1. source' = source /\ items' = items /\ runs' = runs /\ reordered' = reordered
  BY DEF ImportSame, db_vars
<1>2. (\A x : Item(x)' = Item(x)) /\ (\A i, j : SameRun(i, j)' = SameRun(i, j))
  BY <1>1 DEF Item, SameRun
<1>3. QED
  BY <1>1, <1>2 DEF LinksHold, LinkedOnce

LEMMA NoArchive == NULL \notin ArchiveJob /\ NULL \notin Files /\ Torn \notin SUBSET Files
  BY ArchiveAssumption

LEMMA StartArchiveStep ==
  ASSUME ImportInv, DriveInv, StartArchive, job = NULL, ImportSame
  PROVE  DriveInv'
<1> DEFINE dirs == {d \in Dirs : InDir(d) # {}}
           linkable == {l \in Linkable(items) : l[2] # NULL}
           left == IF source = "mlx" THEN dirs ELSE {d \in dirs : \E l \in linkable : l[2] = d}
           new == [linkable |-> linkable, left |-> left, dir |-> NULL, todo |-> {},
                   noting |-> NULL, slugs |-> {}, start |-> disk]
<1>1. /\ source \in {"chris", "mlx"} /\ archive = NULL /\ manifest # Torn /\ archive' = new
      /\ UNCHANGED <<disk, manifest, copies, links, faults, interrupted, lost, archived, verified>>
  BY DEF StartArchive
<1>2. /\ source \in Sources /\ items \in Seq(ItemsOf(source)) /\ Len(items) <= Len(Data[source])
      /\ source' = source /\ items' = items /\ job' = NULL
  BY DEF ImportInv, ImportTypes, ImportSame
<1>3. linkable \in SUBSET (Slugs \X Dirs)
  <2>1. SUFFICES ASSUME NEW l \in linkable PROVE l \in Slugs \X Dirs
    OBVIOUS
  <2>2. PICK e \in Range(Plan) : l = <<e.slug, e.items[1].path>>
    BY <1>1 DEF Linkable, Plan
  <2>3. Plan \in Seq(Entries(source))
    BY <1>2, PlanEntries
  <2>4. e \in Entries(source)
    BY <2>2, <2>3 DEF Range
  <2>5. e.slug \in Slugs /\ e.items \in Seq(ItemsOf(source)) /\ e.items # << >>
    BY <2>4 DEF Entries, PlanEntry, ItemsOf
  <2>6. e.items[1] \in ItemsOf(source)
    BY <2>5
  <2>7. e.items[1].path \in Dirs
    BY <1>2, <2>1, <2>2, <2>6 DEF Dirs, ItemsOf
  <2>8. QED
    BY <2>2, <2>5, <2>7
<1>4. left \in SUBSET Dirs /\ linkable \subseteq Linkable(items)
  OBVIOUS
<1>5. disk \in SUBSET Files
  BY DEF DriveInv, DriveTypes
<1>6. ASSUME source = "mlx", NEW f \in disk, Dir[f] # Loose PROVE Dir[f] \in left
  <2>1. Dir[f] \in Dirs
    BY <1>5, <1>6, ArchiveAssumption
  <2>2. f \in InDir(Dir[f])
    BY DEF InDir
  <2>3. QED
    BY <1>6, <2>1, <2>2
<1> HIDE DEF linkable, left, dirs
<1>7. /\ archive' \in ArchiveJob /\ archive' # NULL /\ archive'.linkable = linkable
      /\ archive'.left = left /\ archive'.dir = NULL /\ archive'.todo = {}
      /\ archive'.noting = NULL /\ archive'.slugs = {} /\ archive'.start = disk
  <2>1. archive' \in ArchiveJob
    BY <1>1, <1>3, <1>4, <1>5 DEF ArchiveJob
  <2>2. QED
    BY <1>1, <2>1, NoArchive
<1>8. \A f \in Files : Noting(f) = FALSE /\ Noting(f)' = FALSE
  BY <1>1, <1>7, NoArchive DEF Noting
<1>9. DriveTypes'
  BY <1>1, <1>7 DEF DriveInv, DriveTypes
<1>10. Linkable(items)' = Linkable(items)
  BY <1>2 DEF Linkable, MlxPlan, ChrisPlan
<1>11. ArchiveFollows'
  BY <1>1, <1>2, <1>4, <1>7, <1>10 DEF ArchiveFollows
<1>12. KnownCopies'
  BY <1>1 DEF DriveInv, KnownCopies, PassCopiesEverything, VerifiedIsOnDrive
<1>13. PassCovers'
  <2>1. Loose # NULL
    BY ArchiveAssumption
  <2>2. QED
    BY <1>1, <1>2, <1>6, <1>7, <2>1 DEF PassCovers
<1>14. CopiesAreCounted'
  BY <1>1, <1>8 DEF DriveInv, CopiesAreCounted
<1>15. ManifestsAreCounted'
  BY <1>1 DEF DriveInv, ManifestsAreCounted
<1>16. LinksHold' /\ LinkedOnce'
  BY <1>1, SameLinks DEF DriveInv
<1>17. QED
  BY <1>9, <1>11, <1>12, <1>13, <1>14, <1>15, <1>16 DEF DriveInv

\* The steps of a script between two uploads that only change what it is at.
LEMMA NextDirStep ==
  ASSUME ImportInv, DriveInv, NEW d \in Dirs, NextDir(d), job = NULL, ImportSame
  PROVE  DriveInv'
<1> DEFINE slugs == {l[1] : l \in {l \in archive.linkable : l[2] = d}}
           todo == InDir(d) \ manifest
           left == archive.left \ {d}
<1>1. /\ archive # NULL /\ archive.noting = NULL /\ archive.todo = {} /\ d \in archive.left
      /\ archive' = [archive EXCEPT !.left = left, !.dir = d, !.todo = todo, !.slugs = slugs]
      /\ UNCHANGED <<disk, manifest, copies, links, faults, interrupted, lost, archived, verified>>
  BY DEF NextDir, Between
<1>2. /\ archive \in ArchiveJob /\ disk \in SUBSET Files
      /\ manifest # Torn /\ source \in {"chris", "mlx"} /\ archive.start \subseteq disk
      /\ archive.linkable \subseteq Linkable(items)
  BY <1>1 DEF DriveInv, DriveTypes, ArchiveFollows
<1>3. source' = source /\ items' = items /\ job' = NULL
  BY DEF ImportSame
<1>4. /\ slugs \in SUBSET Slugs /\ \A s \in slugs : <<s, d>> \in archive.linkable
      /\ archive.linkable \in SUBSET (Slugs \X Dirs)
  <2>1. archive.linkable \in SUBSET (Slugs \X Dirs)
    BY <1>2 DEF ArchiveJob
  <2>2. QED
    BY <2>1
<1>5. todo \in SUBSET Files /\ todo \subseteq disk \ manifest /\ left \in SUBSET Dirs
      /\ \A f \in disk : Dir[f] = d => f \in manifest \cup todo
  BY <1>2 DEF InDir, ArchiveJob
<1>6. \A x \in Dirs : x \notin left => x = d \/ x \notin archive.left
  OBVIOUS
<1> HIDE DEF slugs, todo, left
<1>7. /\ archive' \in ArchiveJob /\ archive' # NULL /\ archive'.linkable = archive.linkable
      /\ archive'.left = left /\ archive'.dir = d /\ archive'.todo = todo
      /\ archive'.noting = NULL /\ archive'.slugs = slugs /\ archive'.start = archive.start
  <2>1. archive' \in ArchiveJob
    BY <1>1, <1>2, <1>4, <1>5 DEF ArchiveJob
  <2>2. QED
    BY <1>1, <1>2, <2>1, NoArchive DEF ArchiveJob
<1>8. \A f \in Files : Noting(f) = FALSE /\ Noting(f)' = FALSE
  BY <1>1, <1>7, NoArchive DEF Noting
<1>9. DriveTypes'
  BY <1>1, <1>7 DEF DriveInv, DriveTypes
<1>10. Linkable(items)' = Linkable(items)
  BY <1>3 DEF Linkable, MlxPlan, ChrisPlan
<1>11. ArchiveFollows'
  BY <1>1, <1>2, <1>3, <1>4, <1>5, <1>7, <1>10 DEF ArchiveFollows
<1>12. KnownCopies'
  BY <1>1 DEF DriveInv, KnownCopies, PassCopiesEverything, VerifiedIsOnDrive
<1>13. PassCovers'
  <2>1. SUFFICES ASSUME NEW f \in archive.start,
                        IF source = "chris" THEN d = Loose ELSE Dir[f] # Loose /\ Dir[f] \notin left
                 PROVE  f \in manifest \cup todo
    BY <1>1, <1>3, <1>7 DEF PassCovers
  <2>2. d # Loose /\ f \in disk /\ f \in Files
    BY <1>2, ArchiveAssumption
  <2>3. source # "chris" /\ Dir[f] # Loose /\ Dir[f] \in Dirs /\ Dir[f] \notin left
    BY <2>1, <2>2, ArchiveAssumption
  <2>4. CASE Dir[f] = d
    BY <1>5, <2>2, <2>4
  <2>5. CASE Dir[f] \notin archive.left
    BY <1>1, <2>2, <2>3, <2>5, NoArchive DEF DriveInv, PassCovers
  <2>6. QED
    BY <1>6, <2>3, <2>4, <2>5
<1>14. CopiesAreCounted'
  BY <1>1, <1>8 DEF DriveInv, CopiesAreCounted
<1>15. ManifestsAreCounted'
  BY <1>1 DEF DriveInv, ManifestsAreCounted
<1>16. LinksHold' /\ LinkedOnce'
  BY <1>1, SameLinks DEF DriveInv
<1>17. QED
  BY <1>9, <1>11, <1>12, <1>13, <1>14, <1>15, <1>16 DEF DriveInv
LEMMA CatchAllStep ==
  ASSUME ImportInv, DriveInv, CatchAll, job = NULL, ImportSame
  PROVE  DriveInv'
<1>1. /\ archive # NULL /\ archive.noting = NULL /\ archive.todo = {} /\ source = "chris"
      /\ archive.slugs = {}
      /\ archive' = [archive EXCEPT !.dir = Loose, !.todo = disk \ manifest]
      /\ UNCHANGED <<disk, manifest, copies, links, faults, interrupted, lost, archived, verified>>
  BY DEF CatchAll, Between, Residual
<1>2. /\ archive \in ArchiveJob /\ disk \in SUBSET Files
      /\ manifest # Torn /\ archive.start \subseteq disk
      /\ archive.linkable \subseteq Linkable(items)
  BY <1>1 DEF DriveInv, DriveTypes, ArchiveFollows
<1>3. source' = source /\ items' = items /\ job' = NULL
  BY DEF ImportSame
<1> DEFINE todo == disk \ manifest
<1>4. todo \in SUBSET Files /\ todo \subseteq disk \ manifest /\ disk \subseteq manifest \cup todo
  BY <1>2
<1> HIDE DEF todo
<1>5. /\ archive' \in ArchiveJob /\ archive' # NULL /\ archive'.linkable = archive.linkable
      /\ archive'.dir = Loose /\ archive'.todo = todo
      /\ archive'.noting = NULL /\ archive'.slugs = {} /\ archive'.start = archive.start
  <2>1. archive' = [archive EXCEPT !.dir = Loose, !.todo = todo]
    BY <1>1 DEF todo
  <2>2. archive' \in ArchiveJob
    BY <1>2, <1>4, <2>1 DEF ArchiveJob
  <2>3. QED
    BY <1>1, <1>2, <2>1, <2>2, NoArchive DEF ArchiveJob
<1>6. \A f \in Files : Noting(f) = FALSE /\ Noting(f)' = FALSE
  BY <1>1, <1>5, NoArchive DEF Noting
<1>7. DriveTypes'
  BY <1>1, <1>5 DEF DriveInv, DriveTypes
<1>8. Linkable(items)' = Linkable(items)
  BY <1>3 DEF Linkable, MlxPlan, ChrisPlan
<1>9. ArchiveFollows'
  BY <1>1, <1>2, <1>3, <1>4, <1>5, <1>8 DEF ArchiveFollows
<1>10. KnownCopies'
  BY <1>1 DEF DriveInv, KnownCopies, PassCopiesEverything, VerifiedIsOnDrive
<1>11. PassCovers'
  BY <1>1, <1>2, <1>4, <1>5 DEF PassCovers
<1>12. CopiesAreCounted'
  BY <1>1, <1>6 DEF DriveInv, CopiesAreCounted
<1>13. ManifestsAreCounted'
  BY <1>1 DEF DriveInv, ManifestsAreCounted
<1>14. LinksHold' /\ LinkedOnce'
  BY <1>1, SameLinks DEF DriveInv
<1>15. QED
  BY <1>7, <1>9, <1>10, <1>11, <1>12, <1>13, <1>14 DEF DriveInv

LEMMA UploadStep ==
  ASSUME ImportInv, DriveInv, NEW f \in Files, Upload(f), job = NULL, ImportSame
  PROVE  DriveInv'
<1> DEFINE todo == archive.todo \ {f}
<1>1. /\ archive # NULL /\ archive.noting = NULL /\ f \in archive.todo
      /\ archive' = [archive EXCEPT !.noting = f, !.todo = todo]
      /\ copies' = [copies EXCEPT ![f] = @ + 1]
      /\ UNCHANGED <<disk, manifest, links, faults, interrupted, lost, archived, verified>>
  BY DEF Upload
<1>2. /\ archive \in ArchiveJob /\ disk \in SUBSET Files
      /\ manifest # Torn /\ archive.start \subseteq disk
      /\ archive.linkable \subseteq Linkable(items)
      /\ \A s \in archive.slugs : <<s, archive.dir>> \in archive.linkable
      /\ archive.todo \subseteq disk \ manifest /\ source \in {"chris", "mlx"}
      /\ copies \in [Files -> Nat] /\ f # NULL
  BY <1>1, NoArchive DEF DriveInv, DriveTypes, ArchiveFollows
<1>3. source' = source /\ items' = items /\ job' = NULL
  BY DEF ImportSame
<1>4. /\ todo \in SUBSET Files /\ todo \subseteq disk \ manifest
      /\ f \in disk /\ f \notin manifest /\ f \notin todo
      /\ \A g \in archive.todo : g # f => g \in todo
  BY <1>1, <1>2
<1> HIDE DEF todo
<1>5. /\ archive' \in ArchiveJob /\ archive' # NULL /\ archive'.linkable = archive.linkable
      /\ archive'.left = archive.left /\ archive'.dir = archive.dir /\ archive'.todo = todo
      /\ archive'.noting = f /\ archive'.slugs = archive.slugs /\ archive'.start = archive.start
  <2>1. archive' \in ArchiveJob
    BY <1>1, <1>2, <1>4 DEF ArchiveJob
  <2>2. QED
    BY <1>1, <1>2, <2>1, NoArchive DEF ArchiveJob
<1>6. /\ copies' \in [Files -> Nat] /\ copies'[f] = copies[f] + 1 /\ copies'[f] > 0
      /\ \A g \in Files : g # f => copies'[g] = copies[g]
      /\ \A g \in Files : copies[g] > 0 => copies'[g] > 0
  BY <1>1, <1>2
<1>7. \A g \in Files : ~Noting(g) /\ (Noting(g)' <=> g = f)
  BY <1>1, <1>5, NoArchive DEF Noting
<1>8. DriveTypes'
  BY <1>1, <1>5, <1>6 DEF DriveInv, DriveTypes
<1>9. Linkable(items)' = Linkable(items)
  BY <1>3 DEF Linkable, MlxPlan, ChrisPlan
<1>10. ArchiveFollows'
  BY <1>1, <1>2, <1>3, <1>4, <1>5, <1>6, <1>9 DEF ArchiveFollows
<1>11. KnownCopies'
  <2>1. manifest # Torn => \A g \in manifest : copies[g] > 0 /\ g \in Files
    BY <1>2 DEF DriveInv, KnownCopies, DriveTypes
  <2>2. \A g \in archived \cup verified : copies[g] > 0 /\ g \in Files
    BY DEF DriveInv, KnownCopies, DriveTypes, PassCopiesEverything, VerifiedIsOnDrive
  <2>3. QED
    BY <1>1, <1>6, <2>1, <2>2 DEF KnownCopies, PassCopiesEverything, VerifiedIsOnDrive
<1>12. PassCovers'
  <2>1. SUFFICES ASSUME NEW g \in archive.start,
                        IF source = "chris" THEN archive.dir = Loose
                        ELSE Dir[g] # Loose /\ Dir[g] \notin archive.left
                 PROVE  g \in manifest \cup todo \/ f = g
    BY <1>1, <1>3, <1>5 DEF PassCovers
  <2>2. g \in manifest \cup archive.todo
    BY <1>1, <1>2, <2>1, NoArchive DEF DriveInv, PassCovers
  <2>3. QED
    BY <1>4, <2>2
<1>13. CopiesAreCounted'
  <2>1. /\ copies[f] <= interrupted[f] + lost /\ copies[f] <= faults
        /\ interrupted[f] <= faults
    <3>1. ~Noting(f) /\ manifest # Torn
      BY <1>2, <1>7
    <3>2. LET known == manifest # Torn /\ (f \in manifest \/ Noting(f)) IN
          /\ ~known /\ manifest # Torn => copies[f] <= interrupted[f] + lost
          /\ ~known => copies[f] <= faults
          /\ interrupted[f] <= faults
      BY DEF DriveInv, CopiesAreCounted
    <3>3. QED
      BY <1>4, <3>1, <3>2
  <2>2. interrupted \in [Files -> Nat] /\ lost \in Nat /\ faults \in Nat
    BY DEF DriveInv, DriveTypes
  <2>3. SUFFICES ASSUME NEW g \in Files
                 PROVE  LET known == manifest # Torn /\ (g \in manifest \/ Noting(g)') IN
                        /\ copies'[g] <= 1 + interrupted[g] + lost
                        /\ ~known /\ manifest # Torn => copies'[g] <= interrupted[g] + lost
                        /\ copies'[g] <= 1 + faults
                        /\ ~known => copies'[g] <= faults
                        /\ interrupted[g] <= faults
    BY <1>1 DEF CopiesAreCounted
  <2>4. CASE g = f
    <3>1. copies'[g] <= 1 + interrupted[g] + lost /\ copies'[g] <= 1 + faults
      BY <1>2, <1>6, <2>1, <2>2, <2>4
    <3>2. QED
      BY <1>2, <1>6, <1>7, <2>1, <2>4, <3>1
  <2>5. CASE g # f
    BY <1>6, <1>7, <2>5 DEF DriveInv, CopiesAreCounted
  <2>6. QED
    BY <2>4, <2>5
<1>14. ManifestsAreCounted'
  BY <1>1 DEF DriveInv, ManifestsAreCounted
<1>15. LinksHold' /\ LinkedOnce'
  BY <1>1, SameLinks DEF DriveInv
<1>16. QED
  BY <1>8, <1>10, <1>11, <1>12, <1>13, <1>14, <1>15 DEF DriveInv

LEMMA RecordStep ==
  ASSUME ImportInv, DriveInv, Record, job = NULL, ImportSame
  PROVE  DriveInv'
<1> DEFINE f == archive.noting
<1>1. /\ archive # NULL /\ f # NULL /\ manifest' = manifest \cup {f}
      /\ archive' = [archive EXCEPT !.noting = NULL]
      /\ UNCHANGED <<disk, copies, links, faults, interrupted, lost, archived, verified>>
  BY DEF Record
<1>2. /\ archive \in ArchiveJob /\ disk \in SUBSET Files /\ f \in disk /\ copies[f] > 0
      /\ f \notin archive.todo
      /\ manifest # Torn /\ manifest \in SUBSET disk /\ archive.start \subseteq disk
      /\ archive.linkable \subseteq Linkable(items)
      /\ \A s \in archive.slugs : <<s, archive.dir>> \in archive.linkable
      /\ archive.todo \subseteq disk \ manifest /\ source \in {"chris", "mlx"}
  BY <1>1 DEF DriveInv, DriveTypes, ArchiveFollows
<1>3. source' = source /\ items' = items /\ job' = NULL
  BY DEF ImportSame
<1> HIDE DEF f
<1>4. manifest' \in SUBSET disk /\ manifest' # Torn
  BY <1>1, <1>2, NoArchive
<1>5. /\ archive' \in ArchiveJob /\ archive' # NULL /\ archive'.linkable = archive.linkable
      /\ archive'.left = archive.left /\ archive'.dir = archive.dir /\ archive'.todo = archive.todo
      /\ archive'.noting = NULL /\ archive'.slugs = archive.slugs /\ archive'.start = archive.start
  <2>1. archive' \in ArchiveJob
    BY <1>1, <1>2 DEF ArchiveJob
  <2>2. QED
    BY <1>1, <1>2, <2>1, NoArchive DEF ArchiveJob
<1>6. \A g \in Files : Noting(g)' = FALSE /\ (Noting(g) <=> g = f)
  BY <1>1, <1>5, NoArchive DEF Noting, f
<1>7. DriveTypes'
  BY <1>1, <1>2, <1>4, <1>5 DEF DriveInv, DriveTypes
<1>8. Linkable(items)' = Linkable(items)
  BY <1>3 DEF Linkable, MlxPlan, ChrisPlan
<1>10. ArchiveFollows'
  BY <1>1, <1>2, <1>3, <1>4, <1>5, <1>8 DEF ArchiveFollows
<1>11. KnownCopies'
  BY <1>1, <1>2 DEF DriveInv, KnownCopies, PassCopiesEverything, VerifiedIsOnDrive
<1>12. PassCovers'
  <2>1. SUFFICES ASSUME NEW g \in archive.start,
                        IF source = "chris" THEN archive.dir = Loose
                        ELSE Dir[g] # Loose /\ Dir[g] \notin archive.left
                 PROVE  g \in manifest' \cup archive.todo
    BY <1>1, <1>3, <1>5 DEF PassCovers
  <2>2. g \in manifest \cup archive.todo \/ g = f
    BY <1>1, <2>1 DEF DriveInv, PassCovers, f
  <2>3. QED
    BY <1>1, <2>2
<1>13. CopiesAreCounted'
  <2>1. SUFFICES ASSUME NEW g \in Files
                 PROVE  LET known == g \in manifest' IN
                        /\ copies[g] <= 1 + interrupted[g] + lost
                        /\ ~known => copies[g] <= interrupted[g] + lost
                        /\ copies[g] <= 1 + faults
                        /\ ~known => copies[g] <= faults
                        /\ interrupted[g] <= faults
    BY <1>1, <1>4, <1>6 DEF CopiesAreCounted
  <2>2. g \notin manifest' => g \notin manifest /\ ~Noting(g)
    BY <1>1, <1>6
  <2>3. QED
    BY <1>2, <2>2 DEF DriveInv, CopiesAreCounted
<1>14. ManifestsAreCounted'
  BY <1>1, <1>2, <1>4 DEF DriveInv, ManifestsAreCounted
<1>15. LinksHold' /\ LinkedOnce'
  BY <1>1, SameLinks DEF DriveInv
<1>16. QED
  BY <1>7, <1>10, <1>11, <1>12, <1>13, <1>14, <1>15 DEF DriveInv
\* The run a directory is linked to was made of it.
LEMMA LinkIsRight ==
  ASSUME ImportInv, source \in {"chris", "mlx"}, ~reordered,
         NEW s \in Slugs, NEW d \in Dirs, <<s, d>> \in Linkable(items),
         <<s, "historical">> \in DOMAIN runs
  PROVE  \E i \in Range(items) : i.path = d /\ SameRun(i, Item(runs[<<s, "historical">>].of))
<1> DEFINE key == <<s, "historical">>
           p == Listed(items, source = "chris")[Len(items)]
<1>1. source \in Sources /\ items \in Seq(ItemsOf(source)) /\ Len(items) <= Len(Data[source])
  BY DEF ImportInv, ImportTypes
<1>2. Len(items) \in 0..Len(items)
  BY <1>1
<1>3. /\ p \in Seq(Entries(source)) /\ \A e \in Range(p) : e.items[1] \in Range(items)
      /\ source = "chris" => \A x, y \in DOMAIN p : p[x].slug = p[y].slug => x = y
  BY <1>1, <1>2, ListedEntries
<1>4. p = IF source = "mlx" THEN MlxPlan(items) ELSE ChrisPlan(items)
  <2>1. CASE source = "chris"
    <3>1. (source = "chris") = TRUE
      BY <2>1
    <3>2. QED
      BY <2>1, <3>1 DEF ChrisPlan
  <2>2. CASE source = "mlx"
    <3>1. (source = "chris") = FALSE
      BY <2>2
    <3>2. QED
      BY <2>2, <3>1 DEF MlxPlan
  <2>3. QED
    BY <2>1, <2>2
<1> HIDE DEF p
<1>5. PICK e \in Range(p) : <<s, d>> = <<e.slug, e.items[1].path>>
  BY <1>4 DEF Linkable
<1> DEFINE i == e.items[1]
<1>6. e \in Entries(source) /\ e.slug = s /\ i.path = d /\ i \in Range(items)
  BY <1>3, <1>5 DEF Range
<1>7. PICK t \in Slugs : /\ exps[t] # NULL
                         /\ \E j \in Range(exps[t].items) : key = <<t, j.run>> /\ runs[key].of = j.id
  BY DEF ImportInv, RunsAreMade
<1>8. PICK j \in Range(exps[t].items) : key = <<t, j.run>> /\ runs[key].of = j.id
  BY <1>7
<1>9. /\ t = s /\ exps[s] \in Entries(source) /\ exps[s].slug = s
      /\ j \in Range(exps[s].items)
  BY <1>7, <1>8 DEF ImportInv, ImportTypes
<1>10. \A x \in Entries(source) : /\ x.items \in Seq(ItemsOf(source)) /\ Len(x.items) = 1
                                  /\ \A y \in Range(x.items) : y = x.items[1] /\ y \in ItemsOf(source)
  <2>1. SUFFICES ASSUME NEW x \in Entries(source)
                 PROVE  /\ x.items \in Seq(ItemsOf(source)) /\ Len(x.items) = 1
                        /\ \A y \in Range(x.items) : y = x.items[1] /\ y \in ItemsOf(source)
    OBVIOUS
  <2>2. x.items \in Seq(ItemsOf(source)) /\ Len(x.items) = 1
    BY DEF Entries, PlanEntry, ItemsOf
  <2>3. QED
    BY <2>2 DEF Range
<1>11. j \in ItemsOf(source) /\ Item(runs[key].of) = j /\ i \in ItemsOf(source) /\ i \in Range(e.items)
  <2>1. j \in ItemsOf(source)
    BY <1>9, <1>10
  <2>2. e.items \in Seq(ItemsOf(source)) /\ Len(e.items) = 1
    BY <1>6, <1>10
  <2>3. i \in Range(e.items) /\ i \in ItemsOf(source)
    BY <2>2 DEF Range
  <2>4. QED
    BY <1>1, <1>8, <2>1, <2>3, ItemOfId
<1>12. CASE source = "chris"
  <2>1. exps[s] \in Range(p)
    BY <1>4, <1>7, <1>9, <1>12 DEF ImportInv, SlugsStay
  <2>2. exps[s] = e
    BY <1>3, <1>5, <1>6, <1>9, <1>12, <2>1 DEF Range
  <2>3. j = i
    BY <1>6, <1>9, <1>10, <2>2
  <2>4. QED
    BY <1>6, <1>11, <2>3 DEF SameRun
<1>13. CASE source = "mlx"
  <2>1. Name[i.base][1] = s /\ Name[j.base][1] = s
    BY <1>6, <1>9, <1>11, <1>13 DEF Entries
  <2>2. i.run = "historical" /\ j.run = "historical"
    BY <1>1, <1>11, <1>13, ItemFacts
  <2>3. SameRun(i, j)
    BY <1>13, <2>1, <2>2 DEF SameRun
  <2>4. QED
    BY <1>6, <1>11, <2>3
<1>14. QED
  BY <1>12, <1>13

LEMMA LinkStep ==
  ASSUME ImportInv, DriveInv, NEW s \in Slugs, Link(s), job = NULL, ImportSame
  PROVE  DriveInv'
<1> DEFINE slugs == archive.slugs \ {s}
           d == archive.dir
<1>1. /\ archive # NULL /\ archive.noting = NULL /\ archive.todo = {} /\ s \in archive.slugs
      /\ archive' = [archive EXCEPT !.slugs = slugs]
      /\ UNCHANGED <<disk, manifest, copies, interrupted, lost, archived, verified>>
      /\ \/ /\ <<s, "historical">> \in DOMAIN runs /\ ~HasArtifact(s, d)
            /\ links' = [links EXCEPT ![<<s, d>>] = IF @ = 2 THEN 2 ELSE @ + 1]
            /\ UNCHANGED faults
         \/ UNCHANGED links /\ (UNCHANGED faults \/ Fault)
  BY DEF Link, Between
<1>2. /\ archive \in ArchiveJob /\ manifest # Torn /\ archive.start \subseteq disk
      /\ archive.linkable \subseteq Linkable(items)
      /\ \A t \in archive.slugs : <<t, d>> \in archive.linkable
      /\ source \in {"chris", "mlx"} /\ faults \in 0..MaxFaults /\ MaxFaults \in Nat
      /\ links \in [Slugs \X Dirs -> 0..2]
  BY <1>1 DEF DriveInv, DriveTypes, ArchiveFollows
<1>3. /\ source' = source /\ items' = items /\ job' = NULL /\ runs' = runs
      /\ reordered' = reordered
  BY DEF ImportSame, db_vars
<1>4. d \in Dirs /\ <<s, d>> \in Linkable(items)
  <2>1. archive.linkable \in SUBSET (Slugs \X Dirs)
    BY <1>2 DEF ArchiveJob
  <2>2. <<s, d>> \in Slugs \X Dirs
    BY <1>1, <1>2, <2>1
  <2>3. QED
    BY <1>1, <1>2, <2>2
<1>5. /\ archive' \in ArchiveJob /\ archive' # NULL /\ archive'.linkable = archive.linkable
      /\ archive'.left = archive.left /\ archive'.dir = d /\ archive'.todo = {}
      /\ archive'.noting = NULL /\ archive'.slugs = slugs /\ archive'.start = archive.start
  <2>1. archive' \in ArchiveJob
    BY <1>1, <1>2 DEF ArchiveJob
  <2>2. QED
    BY <1>1, <1>2, <2>1, NoArchive DEF ArchiveJob
<1> HIDE DEF d
<1>6. faults' \in 0..MaxFaults /\ faults <= faults'
  BY <1>1, <1>2 DEF Fault
<1>7. /\ links' \in [Slugs \X Dirs -> 0..2]
      /\ \A l \in Slugs \X Dirs : l # <<s, d>> => links'[l] = links[l]
      /\ links' = links \/ /\ <<s, "historical">> \in DOMAIN runs
                           /\ source = "chris" => links'[<<s, d>>] = 1
  <2>1. CASE links' = links
    BY <1>2, <2>1
  <2>2. CASE /\ <<s, "historical">> \in DOMAIN runs /\ ~HasArtifact(s, d)
             /\ links' = [links EXCEPT ![<<s, d>>] = IF @ = 2 THEN 2 ELSE @ + 1]
    <3> DEFINE l == <<s, d>>
               n == IF links[l] = 2 THEN 2 ELSE links[l] + 1
    <3>1. l \in Slugs \X Dirs /\ links[l] \in 0..2 /\ links' = [links EXCEPT ![l] = n]
      BY <1>2, <1>4, <2>2
    <3>2. n \in 0..2
      BY <3>1
    <3>3. source = "chris" => n = 1
      BY <2>2, <3>1 DEF HasArtifact
    <3> HIDE DEF l, n
    <3>4. links' \in [Slugs \X Dirs -> 0..2] /\ links'[l] = n
          /\ \A k \in Slugs \X Dirs : k # l => links'[k] = links[k]
      BY <1>2, <3>1, <3>2
    <3>5. QED
      BY <2>2, <3>3, <3>4 DEF l
  <2>3. QED
    BY <1>1, <2>1, <2>2
<1>8. \A f \in Files : ~Noting(f) /\ ~Noting(f)'
  BY <1>1, <1>5, NoArchive DEF Noting
<1>9. DriveTypes'
  BY <1>1, <1>5, <1>6, <1>7 DEF DriveInv, DriveTypes
<1>10. Linkable(items)' = Linkable(items)
  BY <1>3 DEF Linkable, MlxPlan, ChrisPlan
<1>11. ArchiveFollows'
  BY <1>1, <1>2, <1>3, <1>5, <1>10 DEF ArchiveFollows, d
<1>12. KnownCopies'
  BY <1>1 DEF DriveInv, KnownCopies, PassCopiesEverything, VerifiedIsOnDrive
<1>13. PassCovers'
  BY <1>1, <1>3, <1>5 DEF DriveInv, PassCovers, d
<1>14. CopiesAreCounted'
  <2>1. SUFFICES ASSUME NEW f \in Files
                 PROVE  LET known == manifest # Torn /\ f \in manifest IN
                        /\ copies[f] <= 1 + interrupted[f] + lost
                        /\ ~known /\ manifest # Torn => copies[f] <= interrupted[f] + lost
                        /\ copies[f] <= 1 + faults'
                        /\ ~known => copies[f] <= faults'
                        /\ interrupted[f] <= faults'
    BY <1>1, <1>8 DEF CopiesAreCounted
  <2>2. LET known == manifest # Torn /\ f \in manifest IN
        /\ copies[f] <= 1 + interrupted[f] + lost
        /\ ~known /\ manifest # Torn => copies[f] <= interrupted[f] + lost
        /\ copies[f] <= 1 + faults
        /\ ~known => copies[f] <= faults
        /\ interrupted[f] <= faults
    BY <1>8 DEF DriveInv, CopiesAreCounted
  <2>3. copies[f] \in Nat /\ interrupted[f] \in Nat /\ faults \in Nat /\ faults' \in Nat
    BY <1>2, <1>6 DEF DriveInv, DriveTypes
  <2>4. QED
    BY <1>6, <2>2, <2>3
<1>15. ManifestsAreCounted'
  BY <1>1, <1>2, <1>6 DEF DriveInv, ManifestsAreCounted, DriveTypes
<1>16. LinkedOnce'
  <2>1. SUFFICES ASSUME source = "chris", NEW l \in Slugs \X Dirs PROVE links'[l] <= 1
    BY <1>3, <1>7 DEF LinkedOnce
  <2>2. links[l] <= 1
    BY <1>2, <2>1 DEF DriveInv, LinkedOnce
  <2>3. QED
    BY <1>7, <2>1, <2>2
<1>17. LinksHold'
  <2>1. (\A x : Item(x)' = Item(x)) /\ (\A i, j : SameRun(i, j)' = SameRun(i, j))
    BY <1>3 DEF Item, SameRun
  <2>2. SUFFICES ASSUME NEW t \in Slugs, NEW x \in Dirs, links'[<<t, x>>] > 0
                 PROVE  /\ <<t, "historical">> \in DOMAIN runs
                        /\ \/ reordered
                           \/ \E i \in Range(items) :
                                i.path = x /\ SameRun(i, Item(runs[<<t, "historical">>].of))
    BY <1>3, <2>1 DEF LinksHold
  <2>3. CASE links[<<t, x>>] > 0
    BY <2>3 DEF DriveInv, LinksHold
  <2>4. CASE ~(links[<<t, x>>] > 0)
    <3>1. <<t, x>> = <<s, d>> /\ <<s, "historical">> \in DOMAIN runs
      BY <1>7, <2>2, <2>4
    <3>2. t = s /\ x = d
      BY <3>1
    <3>3. QED
      BY <1>2, <1>4, <3>1, <3>2, LinkIsRight
  <2>5. QED
    BY <2>3, <2>4
<1>18. QED
  BY <1>9, <1>11, <1>12, <1>13, <1>14, <1>15, <1>16, <1>17 DEF DriveInv
LEMMA ArchiveEndsStep ==
  ASSUME ImportInv, DriveInv, ArchiveEnds, job = NULL, ImportSame
  PROVE  DriveInv'
<1>1. /\ archive # NULL /\ archive.noting = NULL /\ archive.todo = {} /\ archive.left = {}
      /\ source = "chris" => archive.dir = Loose
      /\ archived' = {f \in archive.start : source = "mlx" => Dir[f] # Loose}
      /\ archive' = NULL
      /\ UNCHANGED <<disk, manifest, copies, links, faults, interrupted, lost, verified>>
  BY DEF ArchiveEnds, Between
<1>2. /\ archive \in ArchiveJob /\ manifest # Torn /\ archive.start \subseteq disk
      /\ source \in {"chris", "mlx"} /\ disk \in SUBSET Files
  BY <1>1 DEF DriveInv, DriveTypes, ArchiveFollows
<1>3. archived' \in SUBSET Files
  BY <1>1, <1>2
<1>4. \A f \in Files : ~Noting(f) /\ ~Noting(f)'
  BY <1>1, NoArchive DEF Noting
<1>5. DriveTypes'
  BY <1>1, <1>3 DEF DriveInv, DriveTypes
<1>6. ArchiveFollows' /\ PassCovers'
  BY <1>1 DEF ArchiveFollows, PassCovers
<1>7. KnownCopies'
  <2>1. ASSUME NEW f \in archived' PROVE copies[f] > 0
    <3>1. f \in archive.start /\ f \in Files /\ (source = "mlx" => Dir[f] # Loose)
      BY <1>1, <1>2, <2>1
    <3>2. f \in manifest
      <4>1. IF source = "chris" THEN archive.dir = Loose ELSE Dir[f] # Loose /\ Dir[f] \notin archive.left
        BY <1>1, <1>2, <3>1
      <4>2. f \in manifest \cup archive.todo \/ archive.noting = f
        BY <1>1, <3>1, <4>1 DEF DriveInv, PassCovers
      <4>3. QED
        BY <1>1, <3>1, <4>2, NoArchive
    <3>3. QED
      BY <1>2, <3>2 DEF DriveInv, KnownCopies
  <2>2. QED
    BY <1>1, <2>1 DEF DriveInv, KnownCopies, PassCopiesEverything, VerifiedIsOnDrive
<1>8. CopiesAreCounted'
  BY <1>1, <1>4 DEF DriveInv, CopiesAreCounted
<1>9. ManifestsAreCounted'
  BY <1>1 DEF DriveInv, ManifestsAreCounted
<1>10. LinksHold' /\ LinkedOnce'
  BY <1>1, SameLinks DEF DriveInv
<1>11. QED
  BY <1>5, <1>6, <1>7, <1>8, <1>9, <1>10 DEF DriveInv

LEMMA ArchiveDiesStep ==
  ASSUME ImportInv, DriveInv, ArchiveDies, job = NULL, ImportSame
  PROVE  DriveInv'
<1> DEFINE f == archive.noting
<1>1. /\ archive # NULL /\ archive' = NULL /\ faults < MaxFaults /\ faults' = faults + 1
      /\ UNCHANGED <<disk, copies, links, lost, archived, verified>>
      /\ \/ f = NULL /\ UNCHANGED <<manifest, interrupted>>
         \/ /\ f # NULL /\ (manifest' = manifest \/ manifest' = Torn)
            /\ interrupted' = [interrupted EXCEPT ![f] = @ + 1]
  BY DEF ArchiveDies, Fault
<1>2. /\ archive \in ArchiveJob /\ manifest # Torn /\ disk \in SUBSET Files
      /\ f # NULL => f \in Files
      /\ faults \in 0..MaxFaults /\ MaxFaults \in Nat /\ lost \in Nat
      /\ copies \in [Files -> Nat] /\ interrupted \in [Files -> Nat] /\ manifest \in SUBSET disk
  BY <1>1 DEF DriveInv, DriveTypes, ArchiveFollows
<1>3. \A g \in Files : (Noting(g) <=> g = f) /\ ~Noting(g)'
  BY <1>1 DEF Noting
<1> HIDE DEF f
<1>4. /\ interrupted' \in [Files -> Nat]
      /\ \A g \in Files : interrupted'[g] = IF g = f THEN interrupted[g] + 1 ELSE interrupted[g]
  <2>1. CASE f = NULL /\ UNCHANGED <<manifest, interrupted>>
    BY <1>2, <2>1, NoArchive
  <2>2. CASE f # NULL /\ interrupted' = [interrupted EXCEPT ![f] = @ + 1]
    BY <1>2, <2>2
  <2>3. QED
    BY <1>1, <2>1, <2>2
<1>5. (manifest' = manifest \/ manifest' = Torn) /\ faults' \in 0..MaxFaults
  BY <1>1, <1>2
<1>6. DriveTypes'
  BY <1>1, <1>2, <1>4, <1>5 DEF DriveInv, DriveTypes
<1>7. ArchiveFollows' /\ PassCovers'
  BY <1>1 DEF ArchiveFollows, PassCovers
<1>8. KnownCopies'
  BY <1>1, <1>2, <1>5 DEF DriveInv, KnownCopies, PassCopiesEverything, VerifiedIsOnDrive
<1>9. CopiesAreCounted'
  <2>1. SUFFICES ASSUME NEW g \in Files
                 PROVE  LET known == manifest' # Torn /\ g \in manifest' IN
                        /\ copies[g] <= 1 + interrupted'[g] + lost
                        /\ ~known /\ manifest' # Torn => copies[g] <= interrupted'[g] + lost
                        /\ copies[g] <= 1 + faults'
                        /\ ~known => copies[g] <= faults'
                        /\ interrupted'[g] <= faults'
    BY <1>1, <1>3 DEF CopiesAreCounted
  <2>2. LET known == g \in manifest \/ g = f IN
        /\ copies[g] <= 1 + interrupted[g] + lost
        /\ ~known => copies[g] <= interrupted[g] + lost
        /\ copies[g] <= 1 + faults
        /\ ~known => copies[g] <= faults
        /\ interrupted[g] <= faults
    BY <1>2, <1>3 DEF DriveInv, CopiesAreCounted
  <2>3. copies[g] \in Nat /\ interrupted[g] \in Nat /\ faults \in Nat
    BY <1>2
  <2>4. QED
    BY <1>1, <1>2, <1>4, <1>5, <2>2, <2>3
<1>10. ManifestsAreCounted'
  BY <1>1, <1>2, <1>5 DEF DriveInv, ManifestsAreCounted
<1>11. LinksHold' /\ LinkedOnce'
  BY <1>1, SameLinks DEF DriveInv
<1>12. QED
  BY <1>6, <1>7, <1>8, <1>9, <1>10, <1>11 DEF DriveInv

LEMMA DropManifestStep ==
  ASSUME ImportInv, DriveInv, DropManifest, job = NULL, ImportSame
  PROVE  DriveInv'
<1>1. /\ manifest = Torn /\ manifest' = {} /\ lost' = lost + 1
      /\ UNCHANGED <<disk, copies, links, archive, faults, interrupted, archived, verified>>
  BY DEF DropManifest
<1>2. archive = NULL
  BY <1>1 DEF DriveInv, ArchiveFollows
<1>3. /\ lost \in Nat /\ copies \in [Files -> Nat] /\ interrupted \in [Files -> Nat]
      /\ faults \in Nat
  BY DEF DriveInv, DriveTypes
<1>4. {} # Torn
  BY NoArchive
<1>5. DriveTypes'
  BY <1>1, <1>3 DEF DriveInv, DriveTypes
<1>6. ArchiveFollows' /\ PassCovers'
  BY <1>1, <1>2 DEF ArchiveFollows, PassCovers
<1>7. KnownCopies'
  BY <1>1 DEF DriveInv, KnownCopies, PassCopiesEverything, VerifiedIsOnDrive
<1>8. CopiesAreCounted'
  <2>1. \A f \in Files : ~Noting(f) /\ ~Noting(f)'
    BY <1>1, <1>2 DEF Noting
  <2>2. SUFFICES ASSUME NEW f \in Files
                 PROVE  /\ copies[f] <= interrupted[f] + lost'
                        /\ copies[f] <= faults /\ interrupted[f] <= faults
                        /\ copies[f] \in Nat /\ interrupted[f] \in Nat
    BY <1>1, <1>3, <2>1 DEF CopiesAreCounted
  <2>3. /\ copies[f] <= 1 + interrupted[f] + lost
        /\ copies[f] <= faults /\ interrupted[f] <= faults
    BY <1>1 DEF DriveInv, CopiesAreCounted
  <2>4. QED
    BY <1>1, <1>3, <2>3
<1>9. ManifestsAreCounted'
  BY <1>1, <1>3, <1>4 DEF DriveInv, ManifestsAreCounted
<1>10. LinksHold' /\ LinkedOnce'
  BY <1>1, SameLinks DEF DriveInv
<1>11. QED
  BY <1>5, <1>6, <1>7, <1>8, <1>9, <1>10 DEF DriveInv

LEMMA VerifyStep ==
  ASSUME ImportInv, DriveInv, Verify, job = NULL, ImportSame
  PROVE  DriveInv'
<1>1. /\ archive = NULL /\ manifest # Torn
      /\ verified' = IF disk \subseteq manifest THEN disk ELSE verified
      /\ UNCHANGED <<disk, manifest, copies, links, archive, faults, interrupted, lost, archived>>
  BY DEF Verify
<1>2. DriveTypes'
  BY <1>1 DEF DriveInv, DriveTypes
<1>3. ArchiveFollows' /\ PassCovers'
  BY <1>1 DEF ArchiveFollows, PassCovers
<1>4. KnownCopies'
  BY <1>1 DEF DriveInv, KnownCopies, PassCopiesEverything, VerifiedIsOnDrive
<1>5. CopiesAreCounted'
  BY <1>1 DEF DriveInv, CopiesAreCounted, Noting
<1>6. ManifestsAreCounted'
  BY <1>1 DEF DriveInv, ManifestsAreCounted
<1>7. LinksHold' /\ LinkedOnce'
  BY <1>1, SameLinks DEF DriveInv
<1>8. QED
  BY <1>2, <1>3, <1>4, <1>5, <1>6, <1>7 DEF DriveInv

LEMMA NewFileStep ==
  ASSUME ImportInv, DriveInv, NEW f \in Files, NewFile(f), job = NULL, ImportSame
  PROVE  DriveInv'
<1>1. /\ disk' = disk \cup {f}
      /\ UNCHANGED <<manifest, copies, links, archive, faults, interrupted, lost, archived, verified>>
  BY DEF NewFile
<1>2. source' = source /\ items' = items /\ job' = job
  BY DEF ImportSame
<1>3. DriveTypes'
  BY <1>1 DEF DriveInv, DriveTypes
<1>4. Linkable(items)' = Linkable(items)
  BY <1>2 DEF Linkable, MlxPlan, ChrisPlan
<1>5. ArchiveFollows'
  <2>1. SUFFICES ASSUME archive # NULL PROVE ArchiveFollows'
    BY <1>1 DEF ArchiveFollows
  <2>2. ArchiveFollows
    BY DEF DriveInv
  <2>3. QED
    BY <1>1, <1>2, <1>4, <2>1, <2>2 DEF ArchiveFollows
<1>6. PassCovers'
  BY <1>1, <1>2 DEF DriveInv, PassCovers
<1>7. KnownCopies'
  BY <1>1 DEF DriveInv, KnownCopies, PassCopiesEverything, VerifiedIsOnDrive
<1>8. CopiesAreCounted'
  BY <1>1 DEF DriveInv, CopiesAreCounted, Noting
<1>9. ManifestsAreCounted'
  BY <1>1 DEF DriveInv, ManifestsAreCounted
<1>10. LinksHold' /\ LinkedOnce'
  BY <1>1, SameLinks DEF DriveInv
<1>11. QED
  BY <1>3, <1>5, <1>6, <1>7, <1>8, <1>9, <1>10 DEF DriveInv
\* A migration never makes a run anew.
LEMMA RunsStayMade ==
  ASSUME ImportInv, Migrate
  PROVE  /\ source' = source /\ Range(items) \subseteq Range(items')
         /\ reordered => reordered'
         /\ faults' = faults \/ Fault
         /\ \A key \in DOMAIN runs : key \in DOMAIN runs' /\ runs'[key].of = runs[key].of
<1>1. CASE StartImport
  BY <1>1 DEF StartImport, db_vars
<1>2. CASE \E first \in BOOLEAN : NewItem(first)
  <2>1. PICK first \in BOOLEAN : NewItem(first)
    BY <1>2
  <2> DEFINE next == SubSeq(Data[source], Len(items) + 1, Len(items) + 1)
  <2>2. /\ items' = IF first THEN next \o items ELSE items \o next
        /\ source' = source /\ (reordered => reordered') /\ faults' = faults /\ runs' = runs
        /\ Len(items) < Len(Data[source])
    BY <2>1 DEF NewItem, db_vars
  <2>3. Range(items) \subseteq Range(items')
    <3>1. /\ items \in Seq(ItemsOf(source)) /\ Data[source] \in Seq(ItemsOf(source))
          /\ Len(Data[source]) \in Nat
      BY ImportAssumption, LenData DEF ImportInv, ImportTypes, ItemsOf
    <3>2. next \in Seq(ItemsOf(source))
      BY <2>2, <3>1
    <3> HIDE DEF next
    <3>3. \A i \in DOMAIN items : items'[IF first THEN Len(next) + i ELSE i] = items[i]
                                  /\ (IF first THEN Len(next) + i ELSE i) \in DOMAIN items'
      BY <2>2, <3>1, <3>2
    <3>4. QED
      BY <3>3 DEF Range
  <2>4. QED
    BY <2>2, <2>3
<1>3. CASE Import
  <2>1. source' = source /\ items' = items /\ reordered' = reordered
    BY <1>3 DEF Import
  <2>2. CASE PostRun
    <3>1. runs' = runs \/ \E key, i : runs' = WithRun(key, i) /\ key \notin DOMAIN runs
      BY <2>2 DEF PostRun
    <3>2. \A k \in DOMAIN runs : k \in DOMAIN runs' /\ runs'[k].of = runs[k].of
      BY <3>1 DEF WithRun
    <3>3. faults' = faults \/ Fault
      BY <2>2 DEF PostRun
    <3>4. QED
      BY <2>1, <3>2, <3>3
  <2>3. CASE PostResult
    <3>1. Posting /\ job.at = "result" /\ (faults' = faults \/ Fault)
      BY <2>3 DEF PostResult, At, Posting
    <3>2. CurKey \in DOMAIN runs /\ RunsAreMade
      BY <3>1 DEF ImportInv, JobFollows
    <3>3. /\ runs = [k \in DOMAIN runs |-> runs[k]]
          /\ \A k \in DOMAIN runs : runs[k] \in [of : {i.id : i \in ItemsOf(source)}, results : Nat]
      BY <3>2 DEF RunsAreMade
    <3>4. runs' = [runs EXCEPT ![CurKey].results = @ + 1] \/ runs' = runs
      BY <2>3 DEF PostResult, CurKey, CurItem
    <3>5. \A k \in DOMAIN runs : k \in DOMAIN runs' /\ runs'[k].of = runs[k].of
      BY <3>2, <3>3, <3>4
    <3>6. QED
      BY <2>1, <3>1, <3>5
  <2>4. CASE PostExperiment \/ PostWriteup
    <3>1. runs' = runs /\ (faults' = faults \/ Fault)
      BY <2>4 DEF PostExperiment, PostWriteup
    <3>2. QED
      BY <2>1, <3>1
  <2>5. CASE ImportEnds \/ ImportDies
    <3>1. runs' = runs /\ (faults' = faults \/ Fault)
      BY <2>5 DEF ImportEnds, ImportDies, db_vars
    <3>2. QED
      BY <2>1, <3>1
  <2>6. QED
    BY <1>3, <2>2, <2>3, <2>4, <2>5 DEF Import
<1>4. QED
  BY <1>1, <1>2, <1>3 DEF Migrate

LEMMA MigrateStep ==
  ASSUME ImportInv, DriveInv, Migrate
  PROVE  DriveInv'
<1>1. /\ archive = NULL
      /\ UNCHANGED <<disk, manifest, copies, links, archive, interrupted, lost, archived, verified>>
  BY DEF Migrate, drive_vars
<1>2. /\ source' = source /\ Range(items) \subseteq Range(items')
      /\ reordered => reordered'
      /\ faults' = faults \/ (faults < MaxFaults /\ faults' = faults + 1)
      /\ \A key \in DOMAIN runs : key \in DOMAIN runs' /\ runs'[key].of = runs[key].of
  BY RunsStayMade DEF Fault
<1>3. /\ faults \in 0..MaxFaults /\ MaxFaults \in Nat /\ lost \in Nat
      /\ copies \in [Files -> Nat] /\ interrupted \in [Files -> Nat]
  BY DEF DriveInv, DriveTypes
<1>4. faults' \in 0..MaxFaults /\ faults <= faults'
  BY <1>2, <1>3
<1>5. DriveTypes'
  BY <1>1, <1>4 DEF DriveInv, DriveTypes
<1>6. ArchiveFollows' /\ PassCovers'
  BY <1>1 DEF ArchiveFollows, PassCovers
<1>7. KnownCopies'
  BY <1>1 DEF DriveInv, KnownCopies, PassCopiesEverything, VerifiedIsOnDrive
<1>8. CopiesAreCounted'
  <2>1. \A f \in Files : ~Noting(f) /\ ~Noting(f)'
    BY <1>1 DEF Noting
  <2>2. SUFFICES ASSUME NEW f \in Files
                 PROVE  LET known == manifest # Torn /\ f \in manifest IN
                        /\ copies[f] <= 1 + interrupted[f] + lost
                        /\ ~known /\ manifest # Torn => copies[f] <= interrupted[f] + lost
                        /\ copies[f] <= 1 + faults'
                        /\ ~known => copies[f] <= faults'
                        /\ interrupted[f] <= faults'
    BY <1>1, <2>1 DEF CopiesAreCounted
  <2>3. LET known == manifest # Torn /\ f \in manifest IN
        /\ copies[f] <= 1 + interrupted[f] + lost
        /\ ~known /\ manifest # Torn => copies[f] <= interrupted[f] + lost
        /\ copies[f] <= 1 + faults
        /\ ~known => copies[f] <= faults
        /\ interrupted[f] <= faults
    BY <2>1 DEF DriveInv, CopiesAreCounted
  <2>4. copies[f] \in Nat /\ interrupted[f] \in Nat /\ faults \in Nat /\ faults' \in Nat
    BY <1>3, <1>4
  <2>5. QED
    BY <1>4, <2>3, <2>4
<1>9. ManifestsAreCounted'
  BY <1>1, <1>3, <1>4 DEF DriveInv, ManifestsAreCounted
<1>10. LinksHold'
  <2>1. (\A x : Item(x)' = Item(x)) /\ (\A i, j : SameRun(i, j)' = SameRun(i, j))
    BY <1>2 DEF Item, SameRun
  <2>2. SUFFICES ASSUME NEW s \in Slugs, NEW d \in Dirs, links[<<s, d>>] > 0
                 PROVE  /\ <<s, "historical">> \in DOMAIN runs'
                        /\ \/ reordered'
                           \/ \E i \in Range(items') :
                                i.path = d /\ SameRun(i, Item(runs'[<<s, "historical">>].of))
    BY <1>1, <2>1 DEF LinksHold
  <2>3. /\ <<s, "historical">> \in DOMAIN runs
        /\ \/ reordered
           \/ \E i \in Range(items) : i.path = d /\ SameRun(i, Item(runs[<<s, "historical">>].of))
    BY <2>2 DEF DriveInv, LinksHold
  <2>4. QED
    BY <1>2, <2>3
<1>11. LinkedOnce'
  BY <1>1, <1>2 DEF DriveInv, LinkedOnce
<1>12. QED
  BY <1>5, <1>6, <1>7, <1>8, <1>9, <1>10, <1>11 DEF DriveInv

LEMMA DriveKept == ASSUME ImportInv, DriveInv, [Next]_vars PROVE DriveInv'
<1>1. CASE Archive
  <2>1. job = NULL /\ ImportSame
    BY <1>1 DEF Archive, ImportSame
  <2>2. CASE StartArchive
    BY <2>1, <2>2, StartArchiveStep
  <2>3. CASE Record
    BY <2>1, <2>3, RecordStep
  <2>4. CASE CatchAll
    BY <2>1, <2>4, CatchAllStep
  <2>5. CASE ArchiveEnds
    BY <2>1, <2>5, ArchiveEndsStep
  <2>6. CASE ArchiveDies
    BY <2>1, <2>6, ArchiveDiesStep
  <2>7. CASE DropManifest
    BY <2>1, <2>7, DropManifestStep
  <2>8. CASE Verify
    BY <2>1, <2>8, VerifyStep
  <2>9. CASE \E d \in Dirs : NextDir(d)
    BY <2>1, <2>9, NextDirStep
  <2>10. CASE \E f \in Files : Upload(f) \/ NewFile(f)
    BY <2>1, <2>10, UploadStep, NewFileStep
  <2>11. CASE \E s \in Slugs : Link(s)
    BY <2>1, <2>11, LinkStep
  <2>12. QED
    BY <1>1, <2>2, <2>3, <2>4, <2>5, <2>6, <2>7, <2>8, <2>9, <2>10, <2>11 DEF Archive
<1>2. CASE Migrate
  BY <1>2, MigrateStep
<1>3. CASE UNCHANGED vars
  <2>1. /\ source' = source /\ items' = items /\ job' = job /\ faults' = faults /\ ImportSame
        /\ UNCHANGED <<disk, manifest, copies, links, archive, interrupted, lost, archived, verified>>
    BY <1>3 DEF vars, import_vars, drive_vars, ImportSame
  <2>2. Linkable(items)' = Linkable(items)
    BY <2>1 DEF Linkable, MlxPlan, ChrisPlan
  <2>3. DriveTypes'
    BY <2>1 DEF DriveInv, DriveTypes
  <2>4. ArchiveFollows'
    BY <2>1, <2>2 DEF DriveInv, ArchiveFollows
  <2>5. KnownCopies' /\ PassCovers'
    BY <2>1 DEF DriveInv, KnownCopies, PassCovers, PassCopiesEverything, VerifiedIsOnDrive
  <2>6. CopiesAreCounted' /\ ManifestsAreCounted'
    BY <2>1 DEF DriveInv, CopiesAreCounted, ManifestsAreCounted, Noting
  <2>7. LinksHold' /\ LinkedOnce'
    BY <2>1, SameLinks DEF DriveInv
  <2>8. QED
    BY <2>3, <2>4, <2>5, <2>6, <2>7 DEF DriveInv
<1>4. QED
  BY <1>1, <1>2, <1>3 DEF Next

LEMMA DriveStarts == ASSUME ArchiveInit PROVE DriveInv
<1>1. /\ disk \in SUBSET Files /\ manifest = {} /\ archive = NULL /\ faults = 0 /\ lost = 0
      /\ copies = [f \in Files |-> 0] /\ interrupted = [f \in Files |-> 0]
      /\ links = [p \in Slugs \X Dirs |-> 0] /\ archived = {} /\ verified = {}
  BY DEF ArchiveInit, Init
<1>2. MaxFaults \in Nat /\ {} # Torn
  BY ImportAssumption, NoArchive
<1>3. DriveTypes
  <2>1. copies \in [Files -> Nat] /\ interrupted \in [Files -> Nat] /\ links \in [Slugs \X Dirs -> 0..2]
    BY <1>1
  <2>2. QED
    BY <1>1, <1>2, <2>1 DEF DriveTypes
<1>4. ArchiveFollows /\ KnownCopies /\ PassCovers
  BY <1>1 DEF ArchiveFollows, KnownCopies, PassCovers, PassCopiesEverything, VerifiedIsOnDrive
<1>5. CopiesAreCounted /\ ManifestsAreCounted
  BY <1>1, <1>2 DEF CopiesAreCounted, ManifestsAreCounted
<1>6. LinksHold /\ LinkedOnce
  BY <1>1 DEF LinksHold, LinkedOnce
<1>7. QED
  BY <1>3, <1>4, <1>5, <1>6 DEF DriveInv

LEMMA DriveHolds == Spec => [](ImportInv /\ DriveInv)
<1>1. ArchiveInit => DriveInv
  BY DriveStarts
<1>2. ImportInv /\ DriveInv /\ [Next]_vars => DriveInv'
  BY DriveKept
<1>3. QED
  BY <1>1, <1>2, ImportHolds, PTL DEF Spec

\* A file is on Drive more than once only if a script died between its upload and
\* its note, or a manifest was given up.
THEOREM CopiesAreCaused == Spec => []CopiesHaveCause
<1>1. DriveInv => CopiesHaveCause
  BY DEF DriveInv, CopiesAreCounted, CopiesHaveCause
<1>2. QED
  BY <1>1, DriveHolds, PTL

\* What a pass says is archived, and what --verify answers OK for, is on Drive,
\* and no directory of chris-experiments is linked twice, whatever died meanwhile.
THEOREM ArchivesAreSound == Spec => []ArchiveIsSound
<1>1. ASSUME ImportInv, DriveInv PROVE TypeOK
  <2>1. /\ source \in Sources /\ items \in Seq(ItemsOf(source))
        /\ exps \in [Slugs -> Entries(source) \cup {NULL}] /\ writeups \in [Slugs -> 0..1]
        /\ reordered \in BOOLEAN /\ disturbed \subseteq Slugs
        /\ claimed \subseteq {i.id : i \in ItemsOf(source)}
        /\ job = NULL \/ job \in Jobs(source)
    BY <1>1 DEF ImportInv, ImportTypes
  <2>2. Range(items) \subseteq Range(Data[source])
    BY <2>1 DEF Range, ItemsOf
  <2>3. /\ exps \in [Slugs -> PlanEntry(source) \cup {NULL}] /\ writeups \in [Slugs -> Nat]
        /\ job = NULL \/ job \in Job(source)
    BY <2>1 DEF Entries, Jobs
  <2>4. DOMAIN runs \subseteq RunKeys
    <3>1. SUFFICES ASSUME NEW key \in DOMAIN runs PROVE key \in RunKeys
      OBVIOUS
    <3>2. PICK s \in Slugs : exps[s] # NULL /\ \E i \in Range(exps[s].items) : key = <<s, i.run>>
      BY <1>1 DEF ImportInv, RunsAreMade
    <3>3. PICK i \in Range(exps[s].items) : key = <<s, i.run>>
      BY <3>2
    <3>4. exps[s].items \in Seq(ItemsOf(source))
      BY <2>1, <3>2 DEF Entries, PlanEntry, ItemsOf
    <3>5. i \in Range(Data[source])
      BY <3>4 DEF Range, ItemsOf
    <3>6. QED
      BY <2>1, <3>3, <3>5 DEF RunKeys
  <2>5. /\ manifest = Torn \/ manifest \subseteq disk
        /\ disk \cup archived \cup verified \subseteq Files
        /\ copies \in [Files -> Nat] /\ interrupted \in [Files -> Nat] /\ lost \in Nat
        /\ faults \in 0..MaxFaults /\ MaxFaults \in Nat
        /\ links \in [Slugs \X Dirs -> 0..2] /\ (archive = NULL \/ archive \in ArchiveJob)
    BY <1>1 DEF DriveInv, DriveTypes
  <2>6. lost \in 0..MaxFaults
    BY <1>1, <2>5 DEF DriveInv, ManifestsAreCounted
  <2>7. copies \in [Files -> 0..(MaxFaults + 1)] /\ interrupted \in [Files -> 0..MaxFaults]
    <3>1. \A f \in Files : copies[f] <= 1 + faults /\ interrupted[f] <= faults
      BY <1>1 DEF DriveInv, CopiesAreCounted
    <3>2. \A f \in Files : copies[f] \in 0..(MaxFaults + 1) /\ interrupted[f] \in 0..MaxFaults
      BY <2>5, <3>1
    <3>3. QED
      BY <2>5, <3>2
  <2>8. job = NULL \/ archive = NULL
    BY <1>1 DEF DriveInv, ArchiveFollows
  <2>9. QED
    BY <2>1, <2>2, <2>3, <2>4, <2>5, <2>6, <2>7, <2>8 DEF TypeOK, ItemsOf
<1>2. ImportInv /\ DriveInv => ArchiveIsSound
  BY <1>1 DEF DriveInv, KnownCopies, ArchiveIsSound
<1>3. QED
  BY <1>2, DriveHolds, PTL

\* A directory is linked to the run that was made of it, although the slugs are
\* worked out anew from a source that has grown.
THEOREM LinksAreRight == Spec => []LinkedToItsRun
<1>1. DriveInv => LinkedToItsRun
  BY DEF DriveInv, LinksHold, LinkedToItsRun
<1>2. QED
  BY <1>1, DriveHolds, PTL
=============================================================================
