----------------------------- MODULE AgentTools -----------------------------
(***************************************************************************)
(* The MCP tools that change the registry, called by an agent that repeats *)
(* what it got an error for: tools/*.py over the REST routes.              *)
(*                                                                         *)
(* Results (module Results) go statement by statement; of the other        *)
(* handlers, whose statements are the subject of the other modules, each   *)
(* step is what it commits.  A table that grows keeps who stored what, a   *)
(* column that tools overwrite keeps the intent that wrote it last.        *)
(***************************************************************************)
EXTENDS Results, FiniteSets, Functions

VARIABLES
  stored,     \* rows inserted: [intent, run, key, role]; key is what must be unique
  column,     \* per column: the intent that wrote it last, or NULL
  acked_last  \* per column: the intent whose write was acknowledged last, or NULL

table_vars == <<stored, column, acked_last>>
vars == <<call_vars, result_vars, table_vars>>

Columns == {"pin", "run.status", "experiment.status", "experiment.tags",
            "experiment.conclusion", "experiment.next_action"}

InsertTools == {"create_experiment", "append_writeup", "enqueue_run"}
ArtifactTools == {"register_artifact", "register_git_artifact", "register_hf_artifact",
                  "upload_artifact_to_drive", "upload_artifacts_batch"}
OverwriteTools == {"set_pin", "set_run_status", "update_experiment_status",
                   "record_experiment_conclusion", "cancel_run"}

Batch(i) == ToolOf[i].items
Slugs == {ToolOf[i].slug : i \in {j \in Intents : Uses(j, "create_experiment")}}
Contents ==
  UNION {Range(Batch(i)) : i \in {j \in Intents : ToolOf[j].tool \in ArtifactTools}}

\* What the tools may send.
Bodies ==
  [result_id : Nat, by : Nat] \cup [key : Slugs \cup {NULL}]
    \cup [columns : SUBSET Columns] \cup [items : Seq(Contents)]

\* An upload without items is refused (ArtifactBatchUploadRequest); NULL, the
\* absence of an answer, is no body, no request and no content.
ASSUME ToolAssumption ==
  /\ NULL \notin Bodies /\ NULL \notin Contents
  /\ NULL \notin [intent : Intents, body : Bodies, stage : {"sent", "inserted"}]
  /\ \A i \in Intents : ToolOf[i].tool \in ArtifactTools =>
       Batch(i) \in Seq(Range(Batch(i))) /\ Batch(i) # <<>>

Init ==
  /\ InitCalls /\ InitResults
  /\ stored = <<>>
  /\ column = [c \in Columns |-> NULL]
  /\ acked_last = [c \in Columns |-> NULL]

Rows(i) == {n \in DOMAIN stored : stored[n].intent = i}
ResultRows(i) == {k \in DOMAIN results : results[k].intent = i}
-----------------------------------------------------------------------------
(* The tools: the arguments become the body.  Calls(q, i, tool, body) sends *)
(* it; an argument left out leaves its column alone.                        *)

Calls(q, i, tool, body) ==
  Uses(i, tool) /\ Send(q, i, body) /\ UNCHANGED <<result_vars, table_vars>>

CallCreateExperiment(q, i) == Calls(q, i, "create_experiment", [key |-> ToolOf[i].slug])
CallAppendWriteup(q, i) == Calls(q, i, "append_writeup", [key |-> NULL])
CallEnqueueRun(q, i) == Calls(q, i, "enqueue_run", [key |-> NULL])

CallSetPin(q, i) == Calls(q, i, "set_pin", [columns |-> {"pin"}])
CallSetRunStatus(q, i) == Calls(q, i, "set_run_status", [columns |-> {"run.status"}])
CallCancelRun(q, i) == Calls(q, i, "cancel_run", [columns |-> {"run.status"}])

CallUpdateStatus(q, i, given) ==
  Calls(q, i, "update_experiment_status", [columns |-> {"experiment.status"} \cup given])

CallRecordConclusion(q, i, given) ==
  Calls(q, i, "record_experiment_conclusion", [columns |-> given])

\* _artifact_parent_path: exactly one of run_id and experiment_slug.
OneParent(i) ==
  /\ ToolOf[i].tool \in ArtifactTools
  /\ (ToolOf[i].run_id = NULL) # (ToolOf[i].experiment_slug = NULL)

CallUpload(q, i) == Calls(q, i, "upload_artifact_to_drive", [items |-> Batch(i)])
CallUploadBatch(q, i) == Calls(q, i, "upload_artifacts_batch", [items |-> Batch(i)])
CallRegister(q, i) ==
  OneParent(i) /\ Calls(q, i, "register_artifact", [items |-> Batch(i)])
CallRegisterGit(q, i) ==
  OneParent(i) /\ Calls(q, i, "register_git_artifact", [items |-> Batch(i)])
CallRegisterHf(q, i) ==
  OneParent(i) /\ Calls(q, i, "register_hf_artifact", [items |-> Batch(i)])

\* The answer of register tools without exactly one parent; nothing is sent.
RefuseParents(i) ==
  /\ MayCall(i) /\ ToolOf[i].tool \in ArtifactTools /\ ~OneParent(i)
  /\ MayMiss
  /\ missed' = [missed EXCEPT ![i] = @ + 1]
  /\ UNCHANGED <<plan, request, awaited, acked, sent, result_vars, table_vars>>
-----------------------------------------------------------------------------
(* The handlers. *)

Handled(q, tools) == At(q, "sent") /\ ToolOf[request[q].intent].tool \in tools

\* A slug or content that is already in the table.
KeyTaken(key) ==
  key # NULL /\ \E n \in DOMAIN stored : stored[n].key = key /\ stored[n].role = "produced"

\* create_experiment (409 for a slug in use), append_writeup, enqueue_run.
InsertRow(q) ==
  LET i == request[q].intent  key == request[q].body.key IN
  /\ Handled(q, InsertTools)
  /\ IF KeyTaken(key)
     THEN AnswerError(q) /\ UNCHANGED stored
     ELSE /\ stored' = Append(stored, [intent |-> i, run |-> NULL, key |-> key,
                                       role |-> "produced"])
          /\ AnswerOk(q)
  /\ UNCHANGED <<result_vars, column, acked_last>>

\* An artifact of the call: produced, or used if its content is known.  A
\* batch commits item by item.
RegisterItem(q) ==
  LET i == request[q].intent  items == request[q].body.items IN
  /\ Handled(q, ArtifactTools)
  /\ stored' = Append(stored, [intent |-> i, run |-> ToolOf[i].run_id, key |-> Head(items),
                               role |-> IF KeyTaken(Head(items)) THEN "used" ELSE "produced"])
  /\ IF Len(items) = 1 THEN AnswerOk(q)
     ELSE Continue(q, [request[q] EXCEPT !.body.items = Tail(items)])
  /\ UNCHANGED <<result_vars, column, acked_last>>

\* cancel_run finds the run queued or claimed.
MayCancel ==
  column["run.status"] = NULL \/ ToolOf[column["run.status"]].value \in {"queued", "claimed"}

\* set_pin, update_run, cancel_run, update_experiment: one UPDATE.
WriteColumns(q) ==
  LET i == request[q].intent  given == request[q].body.columns IN
  /\ Handled(q, OverwriteTools)
  /\ IF Uses(i, "cancel_run") /\ ~MayCancel
     THEN AnswerError(q) /\ UNCHANGED <<column, acked_last>>
     ELSE /\ column' = [c \in Columns |-> IF c \in given THEN i ELSE column[c]]
          /\ acked_last' = [c \in Columns |->
               IF c \in given /\ q \in awaited THEN i ELSE acked_last[c]]
          /\ AnswerOk(q)
  /\ UNCHANGED <<result_vars, stored>>

ServeResults(q) == (InsertResult(q) \/ MarkSuperseded(q)) /\ UNCHANGED table_vars

\* An exception no handler translates, a connection lost: what the handler
\* has committed stays.
Fail(q) ==
  /\ request[q] # NULL
  /\ AnswerError(q)
  /\ UNCHANGED <<result_vars, table_vars>>

TimeOut(q) == GiveUp(q) /\ UNCHANGED <<result_vars, table_vars>>
-----------------------------------------------------------------------------
CallResults(q, i) ==
  /\ \E k \in 0..MaxResults :
       \/ CallSubmitResult(q, i, k)
       \/ \E by \in 1..MaxResults : k # 0 /\ CallMarkSuperseded(q, i, k, by)
  /\ UNCHANGED table_vars

Call(q, i) ==
  \/ CallResults(q, i)
  \/ CallCreateExperiment(q, i) \/ CallAppendWriteup(q, i) \/ CallEnqueueRun(q, i)
  \/ CallSetPin(q, i) \/ CallSetRunStatus(q, i) \/ CallCancelRun(q, i)
  \/ \E given \in SUBSET {"experiment.tags"} : CallUpdateStatus(q, i, given)
  \/ \E given \in SUBSET {"experiment.conclusion", "experiment.next_action"} :
       CallRecordConclusion(q, i, given)
  \/ CallUpload(q, i) \/ CallUploadBatch(q, i)
  \/ CallRegister(q, i) \/ CallRegisterGit(q, i) \/ CallRegisterHf(q, i)

Next ==
  \/ \E i \in plan : RefuseParents(i) \/ \E q \in Requests : MaySend(q, i) /\ Call(q, i)
  \/ \E q \in Requests :
       \/ InsertRow(q) \/ RegisterItem(q) \/ WriteColumns(q) \/ ServeResults(q)
       \/ Fail(q) \/ TimeOut(q)

Spec == Init /\ [][Next]_vars
-----------------------------------------------------------------------------
TypeOK ==
  /\ ResultsTypeOK
  /\ \A q \in Requests :
       request[q] # NULL => /\ request[q].intent \in Intents
                            /\ request[q].stage \in {"sent", "inserted"}
  /\ plan \in Plans
  /\ awaited \subseteq {q \in Requests : request[q] # NULL} /\ Cardinality(awaited) <= 1
  /\ missed \in [Intents -> Nat]
  /\ sent \in 0..MaxSent
  /\ {column, acked_last} \subseteq [Columns -> Intents \cup {NULL}]
  /\ \A n \in DOMAIN stored : stored[n].intent \in Intents /\ stored[n].role \in {"produced", "used"}

ItemsOf(i) == IF ToolOf[i].tool \in ArtifactTools THEN Len(Batch(i)) ELSE 1

\* An intent is carried out once, and again only for calls whose answer was an
\* error: no client or server repeats a POST by itself, and no failure after a
\* commit stores more than one row too many (_api_request, submit_result).
OnceUnlessRetried ==
  \A i \in Intents :
    Cardinality(Rows(i)) + Cardinality(ResultRows(i)) <= ItemsOf(i) * (1 + missed[i])

\* What the agent was told is done is done, in full: all items of a batch are
\* registered, and a result that corrects another is stored and the other marked.
AcknowledgedIsStored ==
  \A i \in Intents : acked[i] # NULL =>
    /\ ToolOf[i].tool \in InsertTools \cup ArtifactTools => Cardinality(Rows(i)) >= ItemsOf(i)
    /\ Uses(i, "submit_result") => ResultRows(i) # {}
    /\ (ToolOf[i].tool \in {"submit_result", "mark_result_superseded"} /\ acked[i].result_id # 0) =>
         results[acked[i].result_id].superseded_by # 0

\* However often calls are repeated, a slug names one experiment and a content
\* has one producer (experiment's unique slug, idx_artifact_produced_*_unique).
KeysStoredOnce ==
  \A n, p \in DOMAIN stored :
    (/\ stored[n].key = stored[p].key /\ stored[n].key # NULL
     /\ stored[n].role = "produced" /\ stored[p].role = "produced") => n = p

NamedTwice(i, content) ==
  \E a, b \in DOMAIN Batch(i) : a # b /\ Batch(i)[a] = content /\ Batch(i)[b] = content

\* A run is listed as a user of content it produced itself only after a call
\* for that content ended in an error or the content was named twice: the
\* repeated batch registers again what its first call had registered.
SelfUseNeedsRepeat ==
  \A n, p \in DOMAIN stored :
    (/\ stored[n].key = stored[p].key /\ stored[n].run = stored[p].run
     /\ stored[n].role = "produced" /\ stored[p].role = "used") =>
       \/ stored[n].intent # stored[p].intent
       \/ missed[stored[n].intent] > 0
       \/ NamedTwice(stored[n].intent, stored[n].key)

\* A column shows the write that was acknowledged last, unless a call that
\* wrote it ended in an error (its handler may still come late and overwrite
\* what was acknowledged since).
AcknowledgedWriteStands ==
  \A c \in Columns : column[c] # acked_last[c] => missed[column[c]] > 0

\* Nothing is stored twice, nor does a run come to use what it produced, without
\* a call that was repeated; keys are stored once however often it was
\* (_api_request, submit_result, register_artifact).
RepeatsHaveCause ==
  TypeOK /\ OnceUnlessRetried /\ KeysStoredOnce /\ SelfUseNeedsRepeat

\* What the agent was told is done is stored in full, and stands until a later
\* call, or the late handler of an earlier one, overwrites it.
AcknowledgedStands == AcknowledgedIsStored /\ AcknowledgedWriteStands
=============================================================================
