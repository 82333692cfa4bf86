---------------------------- MODULE ExternalRefs ----------------------------
(***************************************************************************)
(* Artifacts that are references to GitHub and Hugging Face, and the       *)
(* verdicts kept about them: verify_artifact of service/artifacts.py,      *)
(* external_refs.py, and the provider tokens of service/users.py.          *)
(*                                                                         *)
(* A verification reads the row, looks up a token, asks the provider and   *)
(* writes the verdict, each step awaited and none under a lock; the        *)
(* provider's content changes meanwhile, and so may the tokens.            *)
(***************************************************************************)
EXTENDS Naturals

CONSTANTS Artifacts,
          Refs,         \* commits on git hosts and revisions on the Hub
          GitRefs,      \* those that are git+ URIs; the others are hf:// URIs
          OtherHosts,   \* git references whose host is not github.com
          Private,      \* references only a token of their owner sees
          ExpectedSize, \* artifact.bytes: Artifacts -> 1..FullSize, or NULL
          StartUri,     \* Artifacts -> Refs, or Drive
          Users,        \* owners of the API keys that call; NULL for none
          Verifiers,    \* verifications in progress at once
          FullSize,     \* bound: size of a complete revision
          NULL, Drive,
          MaxChanges,   \* bound: changes at the providers and of tokens
          MaxLookups    \* bound: answers of the providers

ASSUME RefsAssumption ==
  /\ FullSize \in Nat \ {0} /\ MaxChanges \in Nat /\ MaxLookups \in Nat
  /\ OtherHosts \subseteq GitRefs /\ GitRefs \subseteq Refs /\ Private \subseteq Refs
  /\ ExpectedSize \in [Artifacts -> 1..FullSize \cup {NULL}]
  /\ StartUri \in [Artifacts -> Refs \cup {Drive}]
  /\ NULL \notin Users /\ NULL \notin Refs /\ Drive \notin Refs
  /\ NULL \notin 1..FullSize /\ NULL \notin {"verified", "missing", "unverifiable"}

VARIABLES
  size,     \* what the provider has of each reference, 0 if nothing
  token,    \* a user's stored token: NULL, "current" or "old" (encrypted under
            \* an earlier TOKEN_ENCRYPTION_KEY); one provider stands for both
  uri,      \* artifact.uri
  verdict,  \* artifact.verify_status
  check,    \* per verifier: [stage, artifact, ref, user, token, verdict, time], or NULL
  changes,
  lookups,
  \* History.
  about,    \* the reference the verdict is about
  time,     \* the lookup the verdict comes from
  newest,   \* the newest lookup of a finished verification, per artifact
  overlaid, \* artifacts two verifications of which were in progress at once
  was       \* all sizes a reference has had

world_vars == <<size, token, changes, was>>
row_vars == <<uri, verdict, about, time, newest>>
vars == <<world_vars, row_vars, check, lookups, overlaid>>

Init ==
  /\ size \in [Refs -> {0, FullSize}] /\ was = [r \in Refs |-> {size[r]}]
  /\ token \in [Users -> {NULL, "current"}]
  /\ uri = StartUri /\ verdict = [a \in Artifacts |-> NULL]
  /\ check = [v \in Verifiers |-> NULL]
  /\ changes = 0 /\ lookups = 0
  /\ about = [a \in Artifacts |-> NULL]
  /\ time = [a \in Artifacts |-> 0] /\ newest = time
  /\ overlaid = {}

At(v, stage) == check[v] # NULL /\ check[v].stage = stage
-----------------------------------------------------------------------------
(* The providers, and the tokens users store. *)

\* A push or upload, part of one, a force-push, a deletion.
Publish(r, n) ==
  /\ changes < MaxChanges /\ n # size[r]
  /\ size' = [size EXCEPT ![r] = n]
  /\ was' = [was EXCEPT ![r] = @ \cup {n}]
  /\ changes' = changes + 1
  /\ UNCHANGED <<token, row_vars, check, lookups, overlaid>>

SetToken(u, t) ==
  /\ changes < MaxChanges /\ t # token[u]
  /\ token' = [token EXCEPT ![u] = t]
  /\ changes' = changes + 1
  /\ UNCHANGED <<size, was, row_vars, check, lookups, overlaid>>

\* set_user_token encrypts under the key of today, clear_user_token removes.
SetUserToken(u) == SetToken(u, "current")
ClearUserToken(u) == SetToken(u, NULL)

\* The server restarts with another TOKEN_ENCRYPTION_KEY: what is stored can
\* no longer be decrypted.
RotateKey(u) == token[u] = "current" /\ SetToken(u, "old")
-----------------------------------------------------------------------------
(* A verification. *)

\* get_artifact; only git+ and hf:// URIs go on.
VerifyBegin(v, a, u) ==
  /\ check[v] = NULL /\ uri[a] # Drive /\ lookups < MaxLookups
  /\ check' = [check EXCEPT ![v] =
       [stage |-> "token", artifact |-> a, ref |-> uri[a], user |-> u,
        token |-> NULL, verdict |-> NULL, time |-> 0]]
  /\ overlaid' = IF \E w \in Verifiers : check[w] # NULL /\ check[w].artifact = a
                 THEN overlaid \cup {a} ELSE overlaid
  /\ UNCHANGED <<world_vars, row_vars, lookups>>

\* get_user_token: the caller's own token; the server has none of its own
\* (settings.github_token). A token under an old key raises (decrypt_token).
ResolveToken(v) ==
  LET u == check[v].user
      own == IF u = NULL THEN NULL ELSE token[u] IN
  /\ At(v, "token")
  /\ check' = [check EXCEPT ![v] =
       IF own = "old" THEN NULL ELSE [@ EXCEPT !.stage = "ask", !.token = own]]
  /\ UNCHANGED <<world_vars, row_vars, lookups, overlaid>>

\* What the provider says of reference r to a caller with token t: nothing to
\* see is 404; a revision must hold the bytes the artifact is to have.
Verdict(a, r, t) ==
  IF r \in OtherHosts THEN "unverifiable"
  ELSE IF size[r] = 0 \/ (r \in Private /\ t = NULL) THEN "missing"
  ELSE IF r \notin GitRefs /\ ExpectedSize[a] # NULL /\ size[r] < ExpectedSize[a]
       THEN "missing" ELSE "verified"

\* verify_git_ref, verify_hf_ref: the answer, or none (a network error, a
\* rate limit).
Ask(v) ==
  /\ At(v, "ask") /\ lookups < MaxLookups
  /\ \E s \in {Verdict(check[v].artifact, check[v].ref, check[v].token), "unverifiable"} :
       check' = [check EXCEPT ![v] =
         [@ EXCEPT !.stage = "write", !.verdict = s, !.time = lookups + 1]]
  /\ lookups' = lookups + 1
  /\ UNCHANGED <<world_vars, row_vars, overlaid>>

\* Variant: a verdict once stored is kept.
WriteOnce(v) ==
  LET c == check[v]  a == c.artifact IN
  /\ At(v, "write")
  /\ verdict' = [verdict EXCEPT ![a] = IF @ = NULL THEN c.verdict ELSE @]
  /\ about' = [about EXCEPT ![a] = IF @ = NULL THEN c.ref ELSE @]
  /\ time' = [time EXCEPT ![a] = IF @ = 0 THEN c.time ELSE @]
  /\ newest' = [newest EXCEPT ![a] = IF c.time > @ THEN c.time ELSE @]
  /\ check' = [check EXCEPT ![v] = NULL]
  /\ UNCHANGED <<world_vars, uri, lookups, overlaid>>

\* UPDATE artifact SET verify_status, verified_at, verify_detail WHERE id.
Write(v) ==
  LET c == check[v]  a == c.artifact IN
  /\ At(v, "write")
  /\ verdict' = [verdict EXCEPT ![a] = c.verdict]
  /\ about' = [about EXCEPT ![a] = c.ref]
  /\ time' = [time EXCEPT ![a] = c.time]
  /\ newest' = [newest EXCEPT ![a] = IF c.time > @ THEN c.time ELSE @]
  /\ check' = [check EXCEPT ![v] = NULL]
  /\ UNCHANGED <<world_vars, uri, lookups, overlaid>>

\* The handler fails between two steps: the old verdict stays.
VerifyFails(v) ==
  /\ check[v] # NULL
  /\ check' = [check EXCEPT ![v] = NULL]
  /\ UNCHANGED <<world_vars, row_vars, lookups, overlaid>>

Verify(v) == ResolveToken(v) \/ Ask(v) \/ Write(v) \/ VerifyFails(v)

World ==
  \/ \E r \in Refs, n \in 0..FullSize : Publish(r, n)
  \/ \E u \in Users : SetUserToken(u) \/ ClearUserToken(u) \/ RotateKey(u)

Verifications ==
  \E v \in Verifiers :
    Verify(v) \/ \E a \in Artifacts, u \in Users \cup {NULL} : VerifyBegin(v, a, u)
-----------------------------------------------------------------------------
Check == [stage : {"token", "ask", "write"}, artifact : Artifacts, ref : Refs,
          user : Users \cup {NULL}, token : {NULL, "current"},
          verdict : {NULL, "verified", "missing", "unverifiable"}, time : 0..MaxLookups]

RefsTypeOK ==
  /\ size \in [Refs -> 0..FullSize] /\ was \in [Refs -> SUBSET (0..FullSize)]
  /\ token \in [Users -> {NULL, "current", "old"}]
  /\ uri \in [Artifacts -> Refs \cup {Drive}]
  /\ verdict \in [Artifacts -> {NULL, "verified", "missing", "unverifiable"}]
  /\ check \in [Verifiers -> Check \cup {NULL}]
  /\ changes \in 0..MaxChanges /\ lookups \in 0..MaxLookups
  /\ about \in [Artifacts -> Refs \cup {NULL}]
  /\ {time, newest} \subseteq [Artifacts -> 0..MaxLookups]
  /\ overlaid \subseteq Artifacts

\* The verdict of an artifact is about the reference it now is, although the
\* row is read before and written after the provider is asked, and the audit
\* script rewrites URIs (verify_artifact, scripts/audit_artifacts_for_git_refs.py).
VerdictIsAboutUri ==
  \A a \in Artifacts : verdict[a] # NULL => about[a] = uri[a]

\* Every verdict has a cause: "verified" means that once the reference was all
\* there, "missing" that once it was not, or is not shown to everybody: no
\* outage, token or race makes a public complete reference "missing", nor an
\* incomplete one "verified" (verify_git_ref, verify_hf_ref).
Complete(a, n) ==
  n > 0 /\ (uri[a] \in GitRefs \/ ExpectedSize[a] = NULL \/ n >= ExpectedSize[a])

VerdictHasCause ==
  \A a \in Artifacts :
    /\ verdict[a] = "verified" => \E n \in was[uri[a]] : Complete(a, n)
    /\ verdict[a] = "missing" =>
         uri[a] \in Private \/ \E n \in was[uri[a]] : ~Complete(a, n)

\* The verdict kept is about the reference the row now names, and that reference
\* once was as the verdict says (verify_artifact, the audit script).
VerdictIsJust == VerdictIsAboutUri /\ VerdictHasCause

\* The verdict kept comes from the newest lookup, unless verifications of the
\* artifact overlapped: then the slower one, which may have asked first,
\* overwrites the other.
OldVerdictNeedsOverlap ==
  \A a \in Artifacts : a \notin overlaid => time[a] = newest[a]
=============================================================================
