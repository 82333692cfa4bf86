------------------------------ MODULE Results -------------------------------
(***************************************************************************)
(* The results of runs, their corrections, and what a comparison answers:  *)
(* service/results.py, compare_runs of service/runs.py, tools/results.py.  *)
(*                                                                         *)
(* submit_result commits its INSERT and then marks the result it corrects  *)
(* in a second call, so the handler may fail, or be given up by its agent, *)
(* between the two.  Results are numbered in order of created_at and never *)
(* deleted.                                                                *)
(***************************************************************************)
EXTENDS ToolCalls, Sequences

CONSTANTS ToolOf,      \* Intents -> [tool, ...], the call that serves an intent
          Runs, Names, \* of runs and of metrics
          MaxResults   \* bound: ids an agent may name

ASSUME ResultAssumption ==
  /\ MaxResults \in Nat
  /\ \A i \in Intents :
       ToolOf[i].tool = "submit_result" => ToolOf[i].run \in Runs /\ ToolOf[i].name \in Names

VARIABLES
  results,    \* the result table: [run, name, intent, superseded_by], 0 for NULL
  misdirected \* history: a mark pointed at an older result, or at one of
              \* another run or metric

result_vars == <<results, misdirected>>

InitResults == results = <<>> /\ misdirected = FALSE

Uses(i, tool) == ToolOf[i].tool = tool

\* Requests for tool `tool` that have reached stage `stage`.
Handles(q, tool, stage) == At(q, stage) /\ Uses(request[q].intent, tool)

Group(run, name) == {k \in DOMAIN results : results[k].run = run /\ results[k].name = name}
SameGroup(k, by) == results[k].run = results[by].run /\ results[k].name = results[by].name

\* Definitions headed "Variant:" are the definition below them with a plausible
\* bug; no action uses them, mutation runs put them in its place.

\* Variant: superseded results are not filtered out.
CompareUnfiltered(run, name) ==
  IF Group(run, name) = {} THEN 0 ELSE Max(Group(run, name))

\* compare_runs, one row of it: the newest result that is current; 0 is
\* found = false.
Compare(run, name) ==
  LET current == {k \in Group(run, name) : results[k].superseded_by = 0}
  IN  IF current = {} THEN 0 ELSE Max(current)
-----------------------------------------------------------------------------
(* The tools. *)

\* submit_result(run_id, name, ..., supersedes).
CallSubmitResult(q, i, supersedes) ==
  /\ Uses(i, "submit_result")
  /\ Send(q, i, [result_id |-> supersedes, by |-> 0])
  /\ UNCHANGED result_vars

\* mark_result_superseded(result_id, superseded_by).
CallMarkSuperseded(q, i, result_id, by) ==
  /\ Uses(i, "mark_result_superseded")
  /\ Send(q, i, [result_id |-> result_id, by |-> by])
  /\ UNCHANGED result_vars
-----------------------------------------------------------------------------
(* The handlers. *)

\* Variant: the two ids the wrong way round.
MarkBackwards(k, by) ==
  /\ results' = [results EXCEPT ![by].superseded_by = k]
  /\ misdirected' = (misdirected \/ k > by \/ ~SameGroup(k, by))

\* mark_result_superseded: any two results that exist and differ.
Mark(k, by) ==
  /\ results' = [results EXCEPT ![k].superseded_by = by]
  /\ misdirected' = (misdirected \/ k > by \/ ~SameGroup(k, by))

MayMark(k, by) == k # by /\ by \in DOMAIN results /\ k \in DOMAIN results

InsertedRow(i) ==
  [run |-> ToolOf[i].run, name |-> ToolOf[i].name, intent |-> i, superseded_by |-> 0]

\* Variant: the handler answers before it has marked what it corrects.
InsertResultOnly(q) ==
  /\ Handles(q, "submit_result", "sent")
  /\ results' = Append(results, InsertedRow(request[q].intent))
  /\ AnswerOk(q)
  /\ UNCHANGED misdirected

\* submit_result: the INSERT, in a transaction of its own.
InsertResult(q) ==
  /\ Handles(q, "submit_result", "sent")
  /\ results' = Append(results, InsertedRow(request[q].intent))
  /\ IF request[q].body.result_id = 0
     THEN AnswerOk(q)
     ELSE Continue(q, [request[q] EXCEPT !.stage = "inserted",
                                         !.body.by = Len(results) + 1])
  /\ UNCHANGED misdirected

\* The marking, after the INSERT or as a call of its own.
MarkSuperseded(q) ==
  LET k == request[q].body.result_id  by == request[q].body.by IN
  /\ \/ Handles(q, "submit_result", "inserted")
     \/ Handles(q, "mark_result_superseded", "sent")
  /\ IF MayMark(k, by) THEN Mark(k, by) /\ AnswerOk(q)
     ELSE AnswerError(q) /\ UNCHANGED result_vars
-----------------------------------------------------------------------------
ResultsTypeOK ==
  /\ misdirected \in BOOLEAN
  /\ results \in Seq([run : Runs, name : Names, intent : Intents,
                      superseded_by : 0..Len(results)])
  /\ \A k \in DOMAIN results : results[k].superseded_by # k   \* a CHECK of the table

\* The newest result of a run under a metric is current, so a comparison finds
\* one, unless somebody marked a newer result as superseded by an older one or
\* by one of another run or metric: no retry, abandoned correction or failure
\* between the INSERT and the mark hides a metric (submit_result,
\* mark_result_superseded, compare_runs).
NewestIsCurrent ==
  ~misdirected =>
    \A run \in Runs, name \in Names :
      Group(run, name) # {} => Compare(run, name) = Max(Group(run, name))

\* A result whose correction was acknowledged to the agent is never the answer
\* of a comparison again, whatever is submitted, marked or repeated later
\* (tools/runs.py: "A superseded result is never returned here").
CorrectedStaysHidden ==
  \A i \in Intents :
    (acked[i] # NULL /\ ToolOf[i].tool \in {"submit_result", "mark_result_superseded"}) =>
      \A run \in Runs, name \in Names :
        acked[i].result_id # 0 => Compare(run, name) # acked[i].result_id

=============================================================================
