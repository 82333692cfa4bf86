--------------------------- MODULE RefAuditProofs ---------------------------
(***************************************************************************)
(* Proofs about RefAudit and ExternalRefs, for any artifacts, references,  *)
(* callers and verifications at once, and any number of changes at the     *)
(* providers.                                                              *)
(***************************************************************************)
EXTENDS RefAudit, TLAPS

all_vars == <<vars, audit_vars>>

\* What is there now is part of the history.
HistoryInv == \A r \in Refs : size[r] \in was[r]

\* Reference r once held what artifact a is to have, or once did not.
Held(a, r) ==
  \E n \in was[r] :
    n > 0 /\ (r \in GitRefs \/ ExpectedSize[a] = NULL \/ n >= ExpectedSize[a])

Lacked(a, r) ==
  \E n \in was[r] :
    ~(n > 0 /\ (r \in GitRefs \/ ExpectedSize[a] = NULL \/ n >= ExpectedSize[a]))

HasCause(a, r, s) ==
  /\ s = "verified" => Held(a, r)
  /\ s = "missing" => r \in Private \/ Lacked(a, r)

\* A verification in progress is about the reference the row still names: the
\* audit rewrites uploads only, and no verification begins on one.
ChecksInv ==
  \A v \in Verifiers : check[v] # NULL =>
    /\ check[v].ref = uri[check[v].artifact]
    /\ check[v].stage = "write" =>
         HasCause(check[v].artifact, check[v].ref, check[v].verdict)

VerdictsInv ==
  \A a \in Artifacts : verdict[a] # NULL =>
    uri[a] \in Refs /\ about[a] = uri[a] /\ HasCause(a, uri[a], verdict[a])

\* What a reference must be to become a candidate for artifact a.
Suits(a, r) ==
  Held(a, r) /\ r \in HashMatch[a] \cup (NameMatch[a] \ Private) \cup (EditMatch[a] \cap hashed_edited)

\* The audit asks about uploads only, and what it has chosen are uploads until
\* they are rewritten. Matches by content are not asked about.
CandidatesInv ==
  /\ audit = "hashed" =>
       \A a \in Artifacts : \A r \in found[a] :
         /\ \E n \in was[r] : n > 0
         /\ r \in HashMatch[a] \cup (EditMatch[a] \cap hashed_edited)
  /\ audit = "asking" =>
       \A a \in Artifacts :
         /\ candidate[a] # NULL => uri[a] = Drive /\ Suits(a, candidate[a])
         /\ \A r \in Refs : <<a, r>> \notin asked => uri[a] = Drive /\ r \in NameMatch[a]
         /\ (uri[a] = Drive /\ found[a] # {}) =>
              /\ candidate[a] \in found[a]
              /\ \A r \in Refs : <<a, r>> \in asked
  /\ audit = "applying" =>
       \A a \in chosen :
         /\ uri[a] = Drive /\ candidate[a] # NULL /\ Suits(a, candidate[a])
         /\ found[a] # {} => candidate[a] \in found[a]
  /\ audit # "applying" => chosen = {}

\* What was an upload and is one no longer suits its artifact.
AppliedInv ==
  \A a \in Artifacts : (StartUri[a] = Drive /\ uri[a] # Drive) => Suits(a, uri[a])

\* Who is alone with an artifact has asked later than whoever was before.
OrderInv ==
  /\ \A a \in Artifacts : newest[a] <= lookups
  /\ \A v \in Verifiers : check[v] # NULL => check[v].time <= lookups
  /\ \A a \in Artifacts : a \notin overlaid =>
       /\ time[a] = newest[a]
       /\ \A v, w \in Verifiers :
            (/\ check[v] # NULL /\ check[v].artifact = a
             /\ check[w] # NULL /\ check[w].artifact = a) => v = w
       /\ \A v \in Verifiers :
            (check[v] # NULL /\ check[v].artifact = a /\ check[v].stage = "write") =>
              check[v].time >= newest[a]

AuditInv ==
  /\ TypeOK /\ HistoryInv /\ ChecksInv /\ VerdictsInv
  /\ CandidatesInv /\ AppliedInv /\ OrderInv
-----------------------------------------------------------------------------
(* Types, and the histories, which only grow. *)

LEMMA AuditInvInit == AuditInit => AuditInv
<1> SUFFICES ASSUME AuditInit PROVE AuditInv
  OBVIOUS
<1> USE RefsAssumption, AuditAssumption DEF RefsAssumption, AuditAssumption, AuditInit, Init
<1>1. TypeOK
  <2>1. size \in [Refs -> 0..FullSize] /\ was \in [Refs -> SUBSET (0..FullSize)]
    OBVIOUS
  <2>2. token \in [Users -> {NULL, "current", "old"}] /\ uri \in [Artifacts -> Refs \cup {Drive}]
    OBVIOUS
  <2>3. {time, newest} \subseteq [Artifacts -> 0..MaxLookups]
    OBVIOUS
  <2>4. found \in [Artifacts -> SUBSET GitRefs] /\ edited \cup hashed_edited \subseteq GitRefs
    BY DEF Nothing
  <2>5. QED
    BY <2>1, <2>2, <2>3, <2>4 DEF TypeOK, RefsTypeOK
<1>2. HistoryInv /\ ChecksInv /\ VerdictsInv
  BY DEF HistoryInv, ChecksInv, VerdictsInv
<1>3. CandidatesInv /\ AppliedInv /\ OrderInv
  BY DEF CandidatesInv, AppliedInv, OrderInv
<1>4. QED
  BY <1>1, <1>2, <1>3 DEF AuditInv

\* A change at a provider or of a token.
LEMMA WorldStep ==
  ASSUME AuditInv, World, UNCHANGED audit_vars
  PROVE  /\ size' \in [Refs -> 0..FullSize] /\ was' \in [Refs -> SUBSET (0..FullSize)]
         /\ token' \in [Users -> {NULL, "current", "old"}] /\ changes' \in 0..MaxChanges
         /\ HistoryInv' /\ \A r \in Refs : was[r] \subseteq was'[r]
         /\ UNCHANGED <<row_vars, check, lookups, overlaid>>
<1> USE RefsAssumption DEF RefsAssumption, AuditInv, TypeOK, RefsTypeOK, HistoryInv
<1>1. CASE \E r \in Refs, n \in 0..FullSize : Publish(r, n)
  BY <1>1 DEF Publish
<1>2. ASSUME NEW u \in Users, NEW t \in {NULL, "current", "old"}, SetToken(u, t)
      PROVE  /\ token' \in [Users -> {NULL, "current", "old"}] /\ changes' \in 0..MaxChanges
             /\ UNCHANGED <<size, was, row_vars, check, lookups, overlaid>>
  BY <1>2 DEF SetToken
<1>3. CASE \E u \in Users : SetUserToken(u) \/ ClearUserToken(u) \/ RotateKey(u)
  BY <1>2, <1>3 DEF SetUserToken, ClearUserToken, RotateKey
<1>4. QED
  BY <1>1, <1>3 DEF World

\* What once was stays in the history.
LEMMA CausesStay ==
  ASSUME NEW a, NEW r \in Refs, was[r] \subseteq was'[r], hashed_edited \subseteq hashed_edited'
  PROVE  /\ Held(a, r) => Held(a, r)'
         /\ Suits(a, r) => Suits(a, r)'
         /\ \A s : HasCause(a, r, s) => HasCause(a, r, s)'
  BY DEF Held, Suits, HasCause, Lacked

\* A step of the providers keeps the invariant.
LEMMA WorldKeepsInv ==
  ASSUME AuditInv, World, UNCHANGED audit_vars
  PROVE  AuditInv'
<1> USE DEF AuditInv, row_vars, audit_vars, script_vars, clone_vars
<1>1. /\ size' \in [Refs -> 0..FullSize] /\ was' \in [Refs -> SUBSET (0..FullSize)]
      /\ token' \in [Users -> {NULL, "current", "old"}] /\ changes' \in 0..MaxChanges
      /\ HistoryInv' /\ \A r \in Refs : was[r] \subseteq was'[r]
      /\ UNCHANGED <<row_vars, check, lookups, overlaid>>
  BY WorldStep
<1>2. TypeOK'
  BY <1>1 DEF TypeOK, RefsTypeOK
<1>3. \A a \in Artifacts, r \in Refs :
        /\ Held(a, r) => Held(a, r)'
        /\ Suits(a, r) => Suits(a, r)'
        /\ \A s : HasCause(a, r, s) => HasCause(a, r, s)'
  BY <1>1, CausesStay
<1>4. ChecksInv'
  <2>1. \A v \in Verifiers : check[v] # NULL =>
          check[v].artifact \in Artifacts /\ check[v].ref \in Refs
    BY DEF TypeOK, RefsTypeOK, Check
  <2>2. QED
    BY <1>1, <1>3, <2>1 DEF ChecksInv
<1>5. VerdictsInv'
  BY <1>1, <1>3 DEF VerdictsInv
<1>6. CandidatesInv'
  <2>1. \A a \in Artifacts : candidate[a] # NULL => candidate[a] \in Refs
    BY DEF TypeOK
  <2>2. \A a \in Artifacts : found[a] \subseteq Refs
    BY RefsAssumption DEF RefsAssumption, TypeOK
  <2>3. QED
    BY <1>1, <1>3, <2>1, <2>2 DEF CandidatesInv, TypeOK
<1>7. AppliedInv'
  <2>1. \A a \in Artifacts : uri[a] # Drive => uri[a] \in Refs
    BY DEF TypeOK, RefsTypeOK
  <2>2. QED
    BY <1>1, <1>3, <2>1 DEF AppliedInv
<1>8. OrderInv'
  BY <1>1 DEF OrderInv
<1>9. QED
  BY <1>1, <1>2, <1>4, <1>5, <1>6, <1>7, <1>8
-----------------------------------------------------------------------------
(* Verifications. *)

\* The answer of a provider has its cause in what it has.
LEMMA AnswersHaveCause ==
  ASSUME TypeOK, HistoryInv, NEW a \in Artifacts, NEW r \in Refs, NEW t,
         NEW s \in {Verdict(a, r, t), "unverifiable"}
  PROVE  s \in {"verified", "missing", "unverifiable"} /\ HasCause(a, r, s)
<1> USE RefsAssumption DEF RefsAssumption, TypeOK, RefsTypeOK, HistoryInv
<1>1. size[r] \in was[r] /\ size[r] \in 0..FullSize
  OBVIOUS
<1>2. ExpectedSize[a] \in 1..FullSize \cup {NULL}
  OBVIOUS
<1>3. CASE s = "unverifiable"
  BY <1>3 DEF HasCause
<1>4. CASE s = Verdict(a, r, t) /\ s # "unverifiable"
  <2>1. s = "verified" =>
          size[r] > 0 /\ (r \in GitRefs \/ ExpectedSize[a] = NULL \/ size[r] >= ExpectedSize[a])
    BY <1>1, <1>2, <1>4 DEF Verdict
  <2>2. s = "missing" => r \in Private \/
          ~(size[r] > 0 /\ (r \in GitRefs \/ ExpectedSize[a] = NULL \/ size[r] >= ExpectedSize[a]))
    BY <1>1, <1>2, <1>4 DEF Verdict
  <2>3. s \in {"verified", "missing", "unverifiable"}
    BY <1>4 DEF Verdict
  <2>4. QED
    BY <1>1, <2>1, <2>2, <2>3 DEF HasCause, Held, Lacked
<1>5. QED
  BY <1>3, <1>4

\* What a step of a verification that does not write leaves alone.
Quiet == UNCHANGED <<world_vars, row_vars, audit_vars>>

LEMMA QuietKeepsInv ==
  ASSUME AuditInv, Quiet, check' \in [Verifiers -> Check \cup {NULL}], ChecksInv', OrderInv',
         lookups' \in 0..MaxLookups, overlaid' \subseteq Artifacts
  PROVE  AuditInv'
<1> USE DEF AuditInv, Quiet, world_vars, row_vars, audit_vars, script_vars, clone_vars
<1>1. TypeOK'
  BY DEF TypeOK, RefsTypeOK
<1>2. HistoryInv'
  BY DEF HistoryInv
<1>3. \A a, r : /\ Held(a, r)' <=> Held(a, r)
                /\ Suits(a, r)' <=> Suits(a, r)
                /\ \A s : HasCause(a, r, s)' <=> HasCause(a, r, s)
  BY DEF Held, Suits, HasCause, Lacked
<1>4. VerdictsInv'
  BY <1>3 DEF VerdictsInv
<1>5. CandidatesInv'
  BY <1>3 DEF CandidatesInv
<1>6. AppliedInv'
  BY <1>3 DEF AppliedInv
<1>7. QED
  BY <1>1, <1>2, <1>4, <1>5, <1>6

LEMMA BeginKeepsInv ==
  ASSUME AuditInv, NEW v \in Verifiers, NEW a \in Artifacts, NEW u \in Users \cup {NULL},
         VerifyBegin(v, a, u), UNCHANGED audit_vars
  PROVE  AuditInv'
<1> USE DEF AuditInv, VerifyBegin
<1> DEFINE c == [stage |-> "token", artifact |-> a, ref |-> uri[a], user |-> u,
                 token |-> NULL, verdict |-> NULL, time |-> 0]
<1>1. c \in Check
  BY RefsAssumption DEF RefsAssumption, TypeOK, RefsTypeOK, Check
<1>2. check' = [check EXCEPT ![v] = c] /\ check \in [Verifiers -> Check \cup {NULL}]
  BY DEF TypeOK, RefsTypeOK
<1>3. /\ c.stage = "token" /\ c.artifact = a /\ c.ref = uri[a] /\ c.time = 0
      /\ UNCHANGED <<world_vars, row_vars, lookups>>
      /\ overlaid' = IF \E w \in Verifiers : check[w] # NULL /\ check[w].artifact = a
                     THEN overlaid \cup {a} ELSE overlaid
  OBVIOUS
<1> HIDE DEF c
<1>4. ChecksInv'
  BY <1>2, <1>3 DEF ChecksInv, row_vars, world_vars, HasCause, Held, Lacked
<1>5. OrderInv'
  <2>1. lookups \in Nat
    BY RefsAssumption DEF RefsAssumption, TypeOK, RefsTypeOK
  <2>2. \A w \in Verifiers : check'[w] # NULL => check'[w].time <= lookups'
    BY <1>2, <1>3, <2>1 DEF OrderInv
  <2>3. QED
    BY <1>2, <1>3, <2>2 DEF OrderInv, row_vars
<1>6. Quiet
  BY <1>3 DEF Quiet
<1>7. QED
  BY <1>1, <1>2, <1>3, <1>4, <1>5, <1>6, QuietKeepsInv DEF TypeOK, RefsTypeOK

\* A verification that goes on, with another field of its own, or ends.
LEMMA ChangeKeepsInv ==
  ASSUME AuditInv, NEW v \in Verifiers, check[v] # NULL, NEW c \in Check \cup {NULL},
         check' = [check EXCEPT ![v] = c],
         c # NULL => /\ c.artifact = check[v].artifact /\ c.ref = check[v].ref
                     /\ c.time <= lookups'
                     /\ c.stage = "write" => /\ HasCause(c.artifact, c.ref, c.verdict)
                                             /\ c.time >= newest[c.artifact],
         lookups' \in lookups .. MaxLookups, UNCHANGED <<world_vars, row_vars, overlaid, audit_vars>>
  PROVE  AuditInv'
<1> USE DEF AuditInv
<1>1. check \in [Verifiers -> Check \cup {NULL}] /\ newest \in [Artifacts -> 0..MaxLookups]
      /\ lookups \in 0..MaxLookups
  BY DEF TypeOK, RefsTypeOK
<1>2. ChecksInv'
  BY <1>1 DEF ChecksInv, row_vars, world_vars, HasCause, Held, Lacked
<1>3. OrderInv'
  <2>1. \A w \in Verifiers : check'[w] # NULL => check'[w].time <= lookups'
    <3>1. \A w \in Verifiers : check[w] # NULL => check[w].time \in 0..MaxLookups
      BY <1>1 DEF Check
    <3>2. QED
      BY <1>1, <3>1, RefsAssumption DEF RefsAssumption, OrderInv
  <2>2. \A a \in Artifacts : newest'[a] <= lookups'
    BY <1>1, RefsAssumption DEF RefsAssumption, OrderInv, row_vars
  <2>3. QED
    BY <1>1, <2>1, <2>2 DEF OrderInv, row_vars
<1>4. Quiet /\ lookups' \in 0..MaxLookups
  BY <1>1, RefsAssumption DEF RefsAssumption, Quiet
<1>5. QED
  BY <1>1, <1>2, <1>3, <1>4, QuietKeepsInv DEF TypeOK, RefsTypeOK
\* The verdict written is the one the lookup gave, about the reference the row
\* names now as it did then.
LEMMA WriteKeepsInv ==
  ASSUME AuditInv, NEW v \in Verifiers, Write(v), UNCHANGED audit_vars
  PROVE  AuditInv'
<1> DEFINE c == check[v]  a == c.artifact
<1> USE DEF AuditInv, At
<1>1. c \in Check /\ c # NULL /\ c.stage = "write" /\ a \in Artifacts
      /\ c.ref \in Refs /\ c.time \in 0..MaxLookups
      /\ c.verdict \in {NULL, "verified", "missing", "unverifiable"}
  BY DEF Write, TypeOK, RefsTypeOK, Check
<1>2. c.ref = uri[a] /\ HasCause(a, c.ref, c.verdict)
  BY <1>1 DEF ChecksInv
<1>3. /\ verdict' = [verdict EXCEPT ![a] = c.verdict] /\ about' = [about EXCEPT ![a] = c.ref]
      /\ time' = [time EXCEPT ![a] = c.time]
      /\ newest' = [newest EXCEPT ![a] = IF c.time > @ THEN c.time ELSE @]
      /\ check' = [check EXCEPT ![v] = NULL]
      /\ UNCHANGED <<world_vars, uri, lookups, overlaid, audit_vars>>
  BY DEF Write
<1>4. \A b, r : /\ Held(b, r)' <=> Held(b, r)
                /\ Suits(b, r)' <=> Suits(b, r)
                /\ \A s : HasCause(b, r, s)' <=> HasCause(b, r, s)
  BY <1>3 DEF Held, Suits, HasCause, Lacked, world_vars, audit_vars, clone_vars
<1>5. /\ check \in [Verifiers -> Check \cup {NULL}]
      /\ about \in [Artifacts -> Refs \cup {NULL}]
      /\ verdict \in [Artifacts -> {NULL, "verified", "missing", "unverifiable"}]
      /\ time \in [Artifacts -> 0..MaxLookups] /\ newest \in [Artifacts -> 0..MaxLookups]
      /\ lookups \in 0..MaxLookups
  BY DEF TypeOK, RefsTypeOK
<1> HIDE DEF c, a
<1>6. TypeOK'
  <2>1. /\ check' \in [Verifiers -> Check \cup {NULL}]
        /\ about' \in [Artifacts -> Refs \cup {NULL}]
        /\ verdict' \in [Artifacts -> {NULL, "verified", "missing", "unverifiable"}]
        /\ time' \in [Artifacts -> 0..MaxLookups] /\ newest' \in [Artifacts -> 0..MaxLookups]
    BY <1>1, <1>3, <1>5
  <2>2. QED
    BY <1>3, <2>1 DEF TypeOK, RefsTypeOK, world_vars, audit_vars, script_vars, clone_vars
<1>7. HistoryInv' /\ CandidatesInv' /\ AppliedInv'
  <2>1. HistoryInv' /\ AppliedInv'
    BY <1>3, <1>4 DEF HistoryInv, AppliedInv, world_vars
  <2>2. CandidatesInv'
    BY <1>3, <1>4 DEF CandidatesInv, world_vars, audit_vars, script_vars, clone_vars
  <2>3. QED
    BY <2>1, <2>2
<1>8. ChecksInv'
  BY <1>3, <1>4, <1>5 DEF ChecksInv
<1>9. VerdictsInv'
  BY <1>1, <1>2, <1>3, <1>4, <1>5 DEF VerdictsInv
<1>10. OrderInv'
  <2>1. \A b \in Artifacts : newest'[b] <= lookups'
    <3>1. c.time <= lookups
      BY <1>1 DEF OrderInv, c, a
    <3>2. QED
      BY <1>1, <1>3, <1>5, <3>1, RefsAssumption DEF OrderInv, RefsAssumption
  <2>2. ASSUME NEW b \in Artifacts, b \notin overlaid' PROVE time'[b] = newest'[b]
    <3>1. b = a => c.time >= newest[a]
      BY <1>1, <1>3, <2>2 DEF OrderInv, c, a
    <3>2. QED
      BY <1>1, <1>3, <1>5, <2>2, <3>1, RefsAssumption DEF OrderInv, RefsAssumption
  <2>3. ASSUME NEW b \in Artifacts, b \notin overlaid', NEW w \in Verifiers, check'[w] # NULL,
               check'[w].artifact = b
        PROVE  check'[w] = check[w] /\ w # v /\ newest'[b] = newest[b]
    <3>1. check'[w] = check[w] /\ w # v
      BY <1>3, <1>5, <2>3
    <3>2. a # b
      BY <1>1, <1>3, <2>3, <3>1 DEF OrderInv, c, a
    <3>3. QED
      BY <1>3, <1>5, <3>1, <3>2
  <2>4. \A w \in Verifiers : check'[w] # NULL => check'[w].time <= lookups'
    BY <1>3, <1>5 DEF OrderInv
  <2>5. QED
    BY <1>3, <2>1, <2>2, <2>3, <2>4 DEF OrderInv
<1>11. QED
  BY <1>6, <1>7, <1>8, <1>9, <1>10

LEMMA VerificationKeepsInv ==
  ASSUME AuditInv, Verifications, UNCHANGED audit_vars
  PROVE  AuditInv'
<1>1. PICK v \in Verifiers :
        Verify(v) \/ \E a \in Artifacts, u \in Users \cup {NULL} : VerifyBegin(v, a, u)
  BY DEF Verifications
<1>2. /\ check \in [Verifiers -> Check \cup {NULL}] /\ lookups \in 0..MaxLookups
      /\ token \in [Users -> {NULL, "current", "old"}] /\ MaxLookups \in Nat
      /\ newest \in [Artifacts -> 0..MaxLookups]
  BY RefsAssumption DEF RefsAssumption, AuditInv, TypeOK, RefsTypeOK
<1>3. CASE \E a \in Artifacts, u \in Users \cup {NULL} : VerifyBegin(v, a, u)
  BY <1>3, BeginKeepsInv
<1>4. CASE ResolveToken(v)
  <2>1. check[v] # NULL /\ check[v] \in Check /\ check[v].stage = "token"
    BY <1>2, <1>4 DEF ResolveToken, At
  <2>2. PICK c \in Check \cup {NULL} :
          /\ check' = [check EXCEPT ![v] = c]
          /\ c # NULL => /\ c.artifact = check[v].artifact /\ c.ref = check[v].ref
                         /\ c.stage = "ask" /\ c.time = check[v].time
    <3> DEFINE u == check[v].user
               own == IF u = NULL THEN NULL ELSE token[u]
               c == IF own = "old" THEN NULL
                    ELSE [check[v] EXCEPT !.stage = "ask", !.token = own]
    <3>1. check' = [check EXCEPT ![v] = c]
      BY <1>2, <1>4 DEF ResolveToken
    <3>2. own \in {NULL, "current", "old"}
      BY <1>2, <2>1 DEF Check
    <3> HIDE DEF own
    <3>3. c \in Check \cup {NULL}
      BY <2>1, <3>2 DEF Check
    <3>4. c # NULL => /\ c.artifact = check[v].artifact /\ c.ref = check[v].ref
                      /\ c.stage = "ask" /\ c.time = check[v].time
      BY <2>1 DEF Check
    <3>5. QED
      BY <3>1, <3>3, <3>4
  <2>3. lookups' \in lookups .. MaxLookups /\ UNCHANGED <<world_vars, row_vars, overlaid>>
    BY <1>2, <1>4 DEF ResolveToken
  <2>4. c # NULL => c.stage # "write" /\ c.time <= lookups'
    BY <1>2, <1>4, <2>1, <2>2 DEF ResolveToken, AuditInv, OrderInv
  <2>5. QED
    BY <1>2, <2>1, <2>2, <2>3, <2>4, ChangeKeepsInv
<1>5. CASE Ask(v)
  <2> DEFINE d == check[v]
  <2>1. d # NULL /\ d \in Check /\ d.artifact \in Artifacts /\ d.ref \in Refs
    BY <1>2, <1>5 DEF Ask, At, Check
  <2>2. PICK s \in {Verdict(d.artifact, d.ref, d.token), "unverifiable"} :
          check' = [check EXCEPT ![v] =
            [d EXCEPT !.stage = "write", !.verdict = s, !.time = lookups + 1]]
    BY <1>2, <1>5 DEF Ask
  <2>3. s \in {"verified", "missing", "unverifiable"} /\ HasCause(d.artifact, d.ref, s)
    BY <2>1, AnswersHaveCause DEF AuditInv
  <2> DEFINE c == [d EXCEPT !.stage = "write", !.verdict = s, !.time = lookups + 1]
  <2>4. lookups < MaxLookups /\ lookups + 1 \in 0..MaxLookups /\ lookups + 1 >= newest[d.artifact]
    BY <1>2, <1>5, <2>1 DEF Ask, AuditInv, OrderInv
  <2>5. /\ c \in Check /\ c.artifact = d.artifact /\ c.ref = d.ref
        /\ c.verdict = s /\ c.time = lookups + 1
    BY <2>1, <2>3, <2>4 DEF Check
  <2>6. /\ lookups' = lookups + 1 /\ lookups' \in lookups .. MaxLookups
        /\ UNCHANGED <<world_vars, row_vars, overlaid>>
    BY <1>2, <1>5, <2>4 DEF Ask
  <2>7. check' = [check EXCEPT ![v] = c]
    BY <2>2
  <2> HIDE DEF c
  <2>8. /\ HasCause(c.artifact, c.ref, c.verdict)
        /\ c.time >= newest[c.artifact] /\ c.time <= lookups'
    BY <1>2, <2>3, <2>4, <2>5, <2>6
  <2>9. QED
    BY <2>1, <2>5, <2>6, <2>7, <2>8, ChangeKeepsInv
<1>6. CASE Write(v)
  BY <1>6, WriteKeepsInv
<1>7. CASE VerifyFails(v)
  <2>1. /\ check[v] # NULL /\ check' = [check EXCEPT ![v] = NULL]
        /\ UNCHANGED <<world_vars, row_vars, overlaid>>
        /\ lookups' \in lookups .. MaxLookups
    BY <1>2, <1>7 DEF VerifyFails
  <2>2. QED
    BY <2>1, ChangeKeepsInv
<1>8. QED
  BY <1>1, <1>3, <1>4, <1>5, <1>6, <1>7 DEF Verify
-----------------------------------------------------------------------------
(* The audit. *)

\* What a step of the script that writes no row leaves alone.
ScriptOnly == UNCHANGED vars

LEMMA ScriptKeepsInv ==
  ASSUME AuditInv, ScriptOnly, CandidatesInv',
         audit' \in {"idle", "hashed", "asking", "applying"},
         found' \in [Artifacts -> SUBSET GitRefs], rows' \cup chosen' \subseteq Artifacts,
         edited' \cup hashed_edited' \subseteq GitRefs, hashed_edited \subseteq hashed_edited',
         candidate' \in [Artifacts -> Refs \cup {NULL}], asked' \subseteq Artifacts \X Refs
  PROVE  AuditInv'
<1> USE DEF AuditInv, ScriptOnly, vars, world_vars, row_vars
<1>1. TypeOK'
  BY DEF TypeOK, RefsTypeOK
<1>2. HistoryInv' /\ ChecksInv' /\ VerdictsInv'
  BY DEF HistoryInv, ChecksInv, VerdictsInv, HasCause, Held, Lacked
<1>3. AppliedInv' /\ OrderInv'
  BY DEF AppliedInv, Suits, Held, OrderInv
<1>4. QED
  BY <1>1, <1>2, <1>3

\* What is found is at the head of its branch, and in the commit itself unless
\* the clone is edited.
LEMMA HashKeepsInv ==
  ASSUME AuditInv, HashRepositories
  PROVE  AuditInv'
<1> USE DEF AuditInv, HashRepositories
<1>1. /\ \A a \in Artifacts : found'[a] =
           {r \in Pushed : r \in IF r \in edited THEN EditMatch[a] ELSE HashMatch[a]}
      /\ found' \in [Artifacts -> SUBSET GitRefs]
      /\ hashed_edited' = hashed_edited \cup (Pushed \cap edited)
      /\ hashed_edited' \subseteq GitRefs /\ ScriptOnly /\ edited' = edited
      /\ edited \subseteq GitRefs /\ hashed_edited \subseteq GitRefs
  BY DEF Pushed, ScriptOnly, TypeOK
<1>2. \A r \in Pushed : \E n \in was'[r] : n > 0
  BY RefsAssumption DEF RefsAssumption, Pushed, HistoryInv, vars, world_vars
<1>3. ASSUME NEW a \in Artifacts, NEW r \in found'[a]
      PROVE  /\ \E n \in was'[r] : n > 0
             /\ r \in HashMatch[a] \cup (EditMatch[a] \cap hashed_edited')
  BY <1>1, <1>2, <1>3
<1>4. audit' = "hashed" /\ chosen' = chosen /\ chosen = {}
  BY DEF CandidatesInv
<1>5. CandidatesInv'
  BY <1>3, <1>4 DEF CandidatesInv
<1>6. QED
  BY <1>1, <1>4, <1>5, ScriptKeepsInv DEF TypeOK

\* The candidates by content are commits that had been pushed.
LEMMA ReadKeepsInv ==
  ASSUME AuditInv, ReadRows
  PROVE  AuditInv'
<1> USE AuditAssumption DEF AuditInv, AuditAssumption
<1>1. PICK c \in [Artifacts -> Refs \cup {NULL}] :
        /\ \A a \in Artifacts :
             IF a \in AuditedRows /\ found[a] # {} THEN c[a] \in found[a] ELSE c[a] = NULL
        /\ candidate' = c
        /\ asked' = {p \in Artifacts \X Refs :
             p[1] \notin AuditedRows \/ c[p[1]] # NULL \/ p[2] \notin NameMatch[p[1]]}
  BY DEF ReadRows
<1>2. audit = "hashed" /\ audit' = "asking" /\ rows' = AuditedRows
      /\ UNCHANGED <<vars, found, chosen, clone_vars>>
  BY DEF ReadRows
<1>3. AuditedRows = {a \in Artifacts : uri[a] = Drive}
  BY DEF AuditedRows
<1>4. \A a \in Artifacts, r \in Refs :
        <<a, r>> \in asked' <=> a \notin AuditedRows \/ c[a] # NULL \/ r \notin NameMatch[a]
  BY <1>1
<1>5. ASSUME NEW a \in Artifacts, c[a] # NULL
      PROVE  uri[a] = Drive /\ c[a] \in found[a] /\ Suits(a, c[a])'
  <2>1. a \in AuditedRows /\ c[a] \in found[a]
    BY <1>1, <1>5
  <2>2. /\ c[a] \in GitRefs /\ \E n \in was[c[a]] : n > 0
        /\ c[a] \in HashMatch[a] \cup (EditMatch[a] \cap hashed_edited)
    BY <1>2, <2>1 DEF CandidatesInv, TypeOK
  <2>3. Held(a, c[a])'
    BY <1>2, <2>2 DEF Held, vars, world_vars
  <2>4. QED
    BY <1>2, <1>3, <2>1, <2>2, <2>3 DEF Suits, clone_vars
<1>6. CandidatesInv'
  <2>1. ASSUME NEW a \in Artifacts, uri[a] = Drive, found[a] # {}
        PROVE  c[a] \in found[a] /\ c[a] # NULL
    <3>1. c[a] \in found[a] /\ found[a] \subseteq GitRefs
      BY <1>1, <1>3, <2>1 DEF TypeOK
    <3>2. QED
      BY <3>1, RefsAssumption DEF RefsAssumption
  <2>2. chosen = {} /\ uri' = uri /\ chosen' = chosen /\ found' = found
    BY <1>2 DEF CandidatesInv, vars, row_vars
  <2>3. QED
    BY <1>1, <1>2, <1>3, <1>4, <1>5, <2>1, <2>2 DEF CandidatesInv
<1>7. asked' \subseteq Artifacts \X Refs
  BY <1>1
<1>8. QED
  BY <1>1, <1>2, <1>3, <1>6, <1>7, ScriptKeepsInv DEF ScriptOnly, TypeOK, clone_vars

\* A repository becomes a candidate only if it holds what the artifact is to
\* have, and only of an artifact without a match by content.
LEMMA AskKeepsInv ==
  ASSUME AuditInv, NEW a \in Artifacts, NEW r \in Refs, AskHub(a, r)
  PROVE  AuditInv'
<1> USE AuditAssumption, RefsAssumption DEF AuditInv, AuditAssumption, RefsAssumption
<1>1. /\ audit = "asking" /\ <<a, r>> \notin asked /\ asked' = asked \cup {<<a, r>>}
      /\ candidate' = IF Matches(a, r) THEN [candidate EXCEPT ![a] = r] ELSE candidate
      /\ UNCHANGED <<vars, audit, found, rows, chosen, clone_vars>>
  BY DEF AskHub
<1>2. candidate \in [Artifacts -> Refs \cup {NULL}] /\ asked \subseteq Artifacts \X Refs
  BY DEF TypeOK
<1>3. uri[a] = Drive /\ r \in NameMatch[a] /\ found[a] = {}
  BY <1>1 DEF CandidatesInv
<1>4. Matches(a, r) => Suits(a, r)
  <2>1. SUFFICES ASSUME Matches(a, r) PROVE Suits(a, r)
    OBVIOUS
  <2>2. size[r] > 0 /\ r \notin Private
        /\ (ExpectedSize[a] = NULL \/ size[r] >= ExpectedSize[a]) /\ size[r] \in was[r]
    BY <2>1 DEF Matches, HistoryInv
  <2>3. QED
    BY <1>3, <2>2 DEF Suits, Held
<1>5. \A b, s : Suits(b, s)' <=> Suits(b, s)
  BY <1>1 DEF Suits, Held, vars, world_vars, clone_vars
<1>6. \A b \in Artifacts :
        candidate'[b] = candidate[b] \/ (b = a /\ candidate'[b] = r /\ Suits(a, r))
  <2>1. CASE Matches(a, r)
    BY <1>1, <1>2, <1>4, <2>1
  <2>2. CASE ~Matches(a, r)
    BY <1>1, <2>2
  <2>3. QED
    BY <2>1, <2>2
<1>7. CandidatesInv'
  <2>1. audit' = "asking" /\ UNCHANGED <<uri, found, chosen>>
    BY <1>1 DEF vars, row_vars
  <2>2. ASSUME NEW b \in Artifacts
        PROVE  /\ candidate'[b] # NULL => uri[b] = Drive /\ Suits(b, candidate'[b])
               /\ \A s \in Refs : <<b, s>> \notin asked' => uri[b] = Drive /\ s \in NameMatch[b]
               /\ (uri[b] = Drive /\ found[b] # {}) =>
                    /\ candidate'[b] \in found[b]
                    /\ \A s \in Refs : <<b, s>> \in asked'
    BY <1>1, <1>3, <1>6 DEF CandidatesInv
  <2>3. QED
    BY <1>1, <1>5, <2>1, <2>2 DEF CandidatesInv
<1>8. candidate' \in [Artifacts -> Refs \cup {NULL}] /\ asked' \subseteq Artifacts \X Refs
  BY <1>1, <1>2
<1>9. QED
  BY <1>1, <1>7, <1>8, ScriptKeepsInv DEF ScriptOnly, TypeOK, clone_vars

LEMMA ChooseKeepsInv ==
  ASSUME AuditInv, NEW ids \in SUBSET Artifacts, Choose(ids)
  PROVE  AuditInv'
<1> USE DEF AuditInv, Choose
<1>1. \A b, s : Suits(b, s)' <=> Suits(b, s)
  BY DEF Suits, Held, vars, world_vars, clone_vars
<1>2. CandidatesInv'
  BY <1>1 DEF CandidatesInv, vars, row_vars
<1>3. QED
  BY <1>2, ScriptKeepsInv DEF ScriptOnly, TypeOK, clone_vars

LEMMA EndKeepsInv ==
  ASSUME AuditInv, AuditEnds
  PROVE  AuditInv'
<1>1. CandidatesInv'
  BY DEF CandidatesInv, AuditEnds
<1>2. candidate' \in [Artifacts -> Refs \cup {NULL}] /\ found' \in [Artifacts -> SUBSET GitRefs]
  BY DEF AuditEnds, Nothing
<1>3. QED
  BY <1>1, <1>2, ScriptKeepsInv DEF ScriptOnly, AuditEnds, AuditInv, TypeOK, clone_vars

\* The upload rewritten has no verdict and no verification under way: both are
\* of references only.
LEMMA ApplyKeepsInv ==
  ASSUME AuditInv, NEW a \in Artifacts, Apply(a)
  PROVE  AuditInv'
<1> USE RefsAssumption DEF AuditInv, RefsAssumption
<1>1. /\ audit = "applying" /\ a \in chosen
      /\ uri' = [uri EXCEPT ![a] = candidate[a]] /\ chosen' = chosen \ {a}
      /\ UNCHANGED <<world_vars, verdict, about, time, newest, check, lookups, overlaid,
                     audit, found, rows, candidate, asked, clone_vars>>
  BY DEF Apply
<1>2. /\ uri[a] = Drive /\ candidate[a] \in Refs /\ Suits(a, candidate[a])
      /\ uri \in [Artifacts -> Refs \cup {Drive}]
  BY <1>1 DEF CandidatesInv, TypeOK, RefsTypeOK
<1>3. verdict[a] = NULL
  BY <1>2 DEF VerdictsInv
<1>4. \A v \in Verifiers : check[v] # NULL =>
        check[v] \in Check /\ check[v].artifact \in Artifacts /\ check[v].artifact # a
  BY <1>2 DEF ChecksInv, TypeOK, RefsTypeOK, Check
<1>5. \A b, r : /\ Suits(b, r)' <=> Suits(b, r)
                /\ \A s : HasCause(b, r, s)' <=> HasCause(b, r, s)
  BY <1>1 DEF Suits, Held, HasCause, Lacked, world_vars, clone_vars
<1>6. TypeOK'
  BY <1>1, <1>2 DEF TypeOK, RefsTypeOK, world_vars, clone_vars
<1>7. HistoryInv' /\ OrderInv'
  BY <1>1 DEF HistoryInv, OrderInv, world_vars
<1>8. ChecksInv'
  BY <1>1, <1>2, <1>4, <1>5 DEF ChecksInv
<1>9. VerdictsInv'
  BY <1>1, <1>2, <1>3, <1>5 DEF VerdictsInv
<1>10. CandidatesInv'
  BY <1>1, <1>2, <1>5 DEF CandidatesInv, TypeOK
<1>11. AppliedInv'
  BY <1>1, <1>2, <1>5 DEF AppliedInv
<1>12. QED
  BY <1>6, <1>7, <1>8, <1>9, <1>10, <1>11
\* Edits of a clone are not seen before the next audit hashes it.
LEMMA EditKeepsInv ==
  ASSUME AuditInv, NEW r \in GitRefs, Edit(r)
  PROVE  AuditInv'
<1> USE RefsAssumption DEF AuditInv, RefsAssumption, Edit, row_vars, script_vars
<1>1. edited' \subseteq GitRefs /\ changes' \in 0..MaxChanges
  BY DEF TypeOK, RefsTypeOK
<1>2. TypeOK'
  BY <1>1 DEF TypeOK, RefsTypeOK
<1>3. \A b, q : /\ Held(b, q)' <=> Held(b, q)
                /\ Suits(b, q)' <=> Suits(b, q)
                /\ \A s : HasCause(b, q, s)' <=> HasCause(b, q, s)
  BY DEF Held, Suits, HasCause, Lacked
<1>4. HistoryInv' /\ ChecksInv' /\ VerdictsInv' /\ AppliedInv' /\ OrderInv'
  <2>1. HistoryInv' /\ OrderInv'
    BY DEF HistoryInv, OrderInv
  <2>2. ChecksInv'
    BY <1>3 DEF ChecksInv
  <2>3. VerdictsInv'
    BY <1>3 DEF VerdictsInv
  <2>4. AppliedInv'
    BY <1>3 DEF AppliedInv
  <2>5. QED
    BY <2>1, <2>2, <2>3, <2>4
<1>5. CandidatesInv'
  BY <1>3 DEF CandidatesInv
<1>6. QED
  BY <1>2, <1>4, <1>5
-----------------------------------------------------------------------------
LEMMA AuditStep == AuditInv /\ [Next]_all_vars => AuditInv'
<1> SUFFICES ASSUME AuditInv, [Next]_all_vars PROVE AuditInv'
  OBVIOUS
<1>1. CASE Audit
  BY <1>1, HashKeepsInv, ReadKeepsInv, AskKeepsInv, ChooseKeepsInv, ApplyKeepsInv, EndKeepsInv
     DEF Audit
<1>2. CASE World /\ UNCHANGED audit_vars
  BY <1>2, WorldKeepsInv
<1>6. CASE \E r \in GitRefs \ OtherHosts : Edit(r)
  BY <1>6, EditKeepsInv
<1>3. CASE Verifications /\ UNCHANGED audit_vars
  BY <1>3, VerificationKeepsInv
<1>4. CASE UNCHANGED all_vars
  <2>1. ScriptOnly /\ UNCHANGED audit_vars
    BY <1>4 DEF all_vars, ScriptOnly
  <2>2. CandidatesInv'
    BY <2>1 DEF AuditInv, ScriptOnly, vars, world_vars, row_vars, audit_vars,
                script_vars, clone_vars, CandidatesInv, Suits, Held
  <2>3. QED
    BY <2>1, <2>2, ScriptKeepsInv DEF AuditInv, TypeOK, audit_vars, script_vars, clone_vars
<1>5. QED
  BY <1>1, <1>2, <1>3, <1>4, <1>6 DEF Next

LEMMA AuditInvHolds == Spec => []AuditInv
<1>1. QED
  BY AuditInvInit, AuditStep, PTL DEF Spec, all_vars

\* However slowly the providers answer, whatever changes there meanwhile and
\* whatever the audit rewrites, a verdict is about the reference its row names,
\* and that reference once was as the verdict says (verify_artifact).
THEOREM VerdictsStayJust == Spec => []VerdictIsJust
<1>1. AuditInv => VerdictIsJust
  <2>1. SUFFICES ASSUME AuditInv, NEW a \in Artifacts, verdict[a] # NULL
        PROVE  /\ about[a] = uri[a]
               /\ verdict[a] = "verified" => \E n \in was[uri[a]] : Complete(a, n)
               /\ verdict[a] = "missing" =>
                    uri[a] \in Private \/ \E n \in was[uri[a]] : ~Complete(a, n)
    BY RefsAssumption DEF RefsAssumption, VerdictIsJust, VerdictIsAboutUri, VerdictHasCause
  <2>2. about[a] = uri[a] /\ HasCause(a, uri[a], verdict[a])
    BY <2>1 DEF AuditInv, VerdictsInv
  <2>3. QED
    BY <2>2 DEF HasCause, Held, Lacked, Complete
<1>2. QED
  BY <1>1, AuditInvHolds, PTL

\* Only where verifications of an artifact overlapped is its verdict not the one
\* of the newest lookup: the UPDATE does not compare times (verify_artifact).
THEOREM OldVerdictsOverlapped == Spec => []OldVerdictNeedsOverlap
<1>1. AuditInv => OldVerdictNeedsOverlap
  BY DEF AuditInv, OrderInv, OldVerdictNeedsOverlap
<1>2. QED
  BY <1>1, AuditInvHolds, PTL

\* The audit makes of an upload only a reference that held its content, or a
\* pushed commit whose clone did once its files were edited, and prefers what
\* matches by content to what only a name suggests
\* (scripts/audit_artifacts_for_git_refs.py).
THEOREM AuditStaysSound == Spec => []AuditIsSound
<1>1. AuditInv => AuditIsSound
  <2>1. AuditInv => AppliedWasThere
    BY DEF AuditInv, AppliedInv, Suits, Held, AppliedWasThere, Complete
  <2>2. AuditInv => ContentBeforeName
    BY DEF AuditInv, TypeOK, CandidatesInv, ContentBeforeName
  <2>3. QED
    BY <2>1, <2>2 DEF AuditInv, AuditIsSound
<1>2. QED
  BY <1>1, AuditInvHolds, PTL
=============================================================================
