------------------------------ MODULE RefAudit ------------------------------
(***************************************************************************)
(* The script that turns uploaded artifacts into references, beside the    *)
(* verifications: scripts/audit_artifacts_for_git_refs.py.                 *)
(*                                                                         *)
(* One run hashes the files of the local clones, reads the rows that are   *)
(* not references yet, asks the Hub about those a name matches, and        *)
(* rewrites the rows among the candidates that the operator names, one     *)
(* UPDATE each.  One audit runs at a time.  The clones are working copies: *)
(* files may be edited and not committed.                                  *)
(***************************************************************************)
EXTENDS ExternalRefs

CONSTANTS HashMatch,  \* per artifact: the commits whose tree has its content
          EditMatch,  \* per artifact: those whose clone has it once edited
          NameMatch   \* per artifact: the Hub repositories its name resembles

ASSUME AuditAssumption ==
  /\ {HashMatch, EditMatch} \subseteq [Artifacts -> SUBSET (GitRefs \ OtherHosts)]
  /\ NameMatch \in [Artifacts -> SUBSET (Refs \ GitRefs)]

VARIABLES
  audit,      \* "idle", "hashed", "asking" or "applying"
  found,      \* per artifact: pushed commits whose clone has its content
  rows,       \* the artifacts read: neither git+ nor hf://
  candidate,  \* per artifact: the reference to replace its URI by, or NULL
  asked,      \* [artifact, ref] the Hub has been asked about
  chosen,     \* the ids of --apply-ids still to be applied
  edited,     \* commits whose clone has files that differ from it
  \* History.
  hashed_edited  \* commits whose clone was hashed in such a state

script_vars == <<audit, found, rows, candidate, asked, chosen>>
clone_vars == <<edited, hashed_edited>>
audit_vars == <<script_vars, clone_vars>>

Nothing == [a \in Artifacts |-> {}]

AuditInit ==
  /\ Init
  /\ audit = "idle" /\ found = Nothing /\ rows = {} /\ asked = {} /\ chosen = {}
  /\ candidate = [a \in Artifacts |-> NULL]
  /\ edited \in SUBSET (GitRefs \ OtherHosts) /\ hashed_edited = {}

\* Somebody edits tracked files of a clone, or takes the edits back.
Edit(r) ==
  /\ changes < MaxChanges
  /\ edited' = IF r \in edited THEN edited \ {r} ELSE edited \cup {r}
  /\ changes' = changes + 1
  /\ UNCHANGED <<size, token, was, row_vars, check, lookups, overlaid, script_vars, hashed_edited>>

\* Variant: a local commit need not have been pushed.
PushedUnchecked == GitRefs

\* Repositories whose HEAD is what ls-remote answers.
Pushed == {r \in GitRefs : size[r] > 0}

\* build_content_hash_map: ls-tree names the files of HEAD, and the bytes that
\* are hashed are those of the working copy.
HashRepositories ==
  /\ audit = "idle"
  /\ audit' = "hashed"
  /\ found' = [a \in Artifacts |->
       {r \in Pushed : r \in IF r \in edited THEN EditMatch[a] ELSE HashMatch[a]}]
  /\ hashed_edited' = hashed_edited \cup (Pushed \cap edited)
  /\ UNCHANGED <<vars, rows, candidate, asked, chosen, edited>>

\* Variant: references are read too.
AuditedRowsAll == Artifacts

\* SELECT ... WHERE uri NOT LIKE 'git+%' AND uri NOT LIKE 'hf://%'.
AuditedRows == {a \in Artifacts : uri[a] = Drive}

\* The SELECT, and the matches by content: these are not asked about.
ReadRows ==
  /\ audit = "hashed"
  /\ audit' = "asking" /\ rows' = AuditedRows
  /\ \E c \in [Artifacts -> Refs \cup {NULL}] :
       /\ \A a \in Artifacts :
            IF a \in AuditedRows /\ found[a] # {} THEN c[a] \in found[a] ELSE c[a] = NULL
       /\ candidate' = c
       /\ asked' = {p \in Artifacts \X Refs :
            p[1] \notin AuditedRows \/ c[p[1]] # NULL \/ p[2] \notin NameMatch[p[1]]}
  /\ UNCHANGED <<vars, found, chosen, clone_vars>>

\* check_hf_content_match, without a token: all there, or the answer failed.
Matches(a, r) ==
  size[r] > 0 /\ r \notin Private /\ (ExpectedSize[a] = NULL \/ size[r] >= ExpectedSize[a])

\* One name-matched repository; of several complete ones the last stays.
AskHub(a, r) ==
  /\ audit = "asking" /\ <<a, r>> \notin asked
  /\ asked' = asked \cup {<<a, r>>}
  /\ candidate' = IF Matches(a, r) THEN [candidate EXCEPT ![a] = r] ELSE candidate
  /\ UNCHANGED <<vars, audit, found, rows, chosen, clone_vars>>

\* The report; --apply-ids names some of the candidates.
Choose(ids) ==
  /\ audit = "asking" /\ asked = Artifacts \X Refs
  /\ ids \subseteq {a \in Artifacts : candidate[a] # NULL}
  /\ audit' = "applying" /\ chosen' = ids
  /\ UNCHANGED <<vars, found, rows, candidate, asked, clone_vars>>

\* UPDATE artifact SET uri, meta WHERE id: the verdict stays as it is.
Apply(a) ==
  /\ audit = "applying" /\ a \in chosen
  /\ uri' = [uri EXCEPT ![a] = candidate[a]]
  /\ chosen' = chosen \ {a}
  /\ UNCHANGED <<world_vars, verdict, about, time, newest, check, lookups, overlaid,
                 audit, found, rows, candidate, asked, clone_vars>>

\* The script ends, or dies: a network failure, a unique index, the operator.
AuditEnds ==
  /\ audit # "idle"
  /\ audit' = "idle"
  /\ found' = Nothing /\ rows' = {} /\ asked' = {} /\ chosen' = {}
  /\ candidate' = [a \in Artifacts |-> NULL]
  /\ UNCHANGED <<vars, clone_vars>>

Audit ==
  \/ HashRepositories \/ ReadRows \/ AuditEnds
  \/ \E a \in Artifacts, r \in Refs : AskHub(a, r)
  \/ \E ids \in SUBSET Artifacts : Choose(ids)
  \/ \E a \in Artifacts : Apply(a)

Next ==
  \/ Audit \/ \E r \in GitRefs \ OtherHosts : Edit(r)
  \/ ((World \/ Verifications) /\ UNCHANGED audit_vars)

Spec == AuditInit /\ [][Next]_<<vars, audit_vars>>
-----------------------------------------------------------------------------
TypeOK ==
  /\ RefsTypeOK
  /\ audit \in {"idle", "hashed", "asking", "applying"}
  /\ found \in [Artifacts -> SUBSET GitRefs] /\ rows \cup chosen \subseteq Artifacts
  /\ candidate \in [Artifacts -> Refs \cup {NULL}]
  /\ asked \subseteq Artifacts \X Refs
  /\ edited \cup hashed_edited \subseteq GitRefs

\* An artifact the audit has turned into a reference was found there: its
\* content in a commit that had been pushed, or a public repository that its
\* name matches and that once held as many bytes as it is to have.  Only a
\* clone hashed with its files edited makes it a reference to a commit that
\* never had its content (the script's docstring: "at their pushed HEAD").
AppliedWasThere ==
  \A a \in Artifacts : (StartUri[a] = Drive /\ uri[a] # Drive) =>
    /\ \E n \in was[uri[a]] : Complete(a, n)
    /\ uri[a] \in HashMatch[a] \cup (NameMatch[a] \ Private) \cup (EditMatch[a] \cap hashed_edited)

\* An artifact whose content was found in a clone is never made a reference to
\* a repository that only its name matches, within one audit.
ContentBeforeName ==
  \A a \in Artifacts : (a \in chosen /\ found[a] # {}) => candidate[a] \in found[a]

\* The audit, which looks at rows and repositories minutes before it rewrites a
\* URI, makes of an upload only the reference that held its content, or whose
\* clone did.
AuditIsSound == TypeOK /\ AppliedWasThere /\ ContentBeforeName
=============================================================================
