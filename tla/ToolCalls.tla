----------------------------- MODULE ToolCalls ------------------------------
(***************************************************************************)
(* An agent that calls the MCP tools: tools/_shared.py, internal_client.py.*)
(*                                                                         *)
(* Every tool forwards one request to the server's own REST API and waits  *)
(* 30 seconds for it.  When the wait ends first, or the request fails, the *)
(* agent gets an error for an answer and may call the tool again, while    *)
(* the handler of the first request goes on: nothing cancels it.  What     *)
(* handlers do to the tables is in the modules that extend this one.       *)
(***************************************************************************)
EXTENDS Naturals, FiniteSetsExt

CONSTANTS Intents,    \* what agents set out to do, each by one tool
          Plans,      \* bound: the sets of intents of one agent
          Requests,   \* REST requests the server works on at once
          NULL,       \* no request; an argument left out
          MaxSent,    \* bound: requests sent altogether
          MaxMissed   \* bound: calls that end in an error

ASSUME CallAssumption ==
  /\ MaxSent \in Nat /\ MaxMissed \in Nat
  /\ Plans \subseteq SUBSET Intents
  /\ NULL \notin Intents

VARIABLES
  plan,      \* the intents of the agent
  request,   \* per slot: [intent, body, stage], or NULL
  awaited,   \* the slots whose answer the agent waits for
  acked,     \* per intent: the body of the call that succeeded, or NULL
  missed,    \* per intent: its calls that ended in an error
  sent       \* requests sent altogether

call_vars == <<plan, request, awaited, acked, missed, sent>>

InitCalls ==
  /\ plan \in Plans
  /\ request = [q \in Requests |-> NULL]
  /\ awaited = {}
  /\ acked = [i \in Intents |-> NULL]
  /\ missed = [i \in Intents |-> 0]
  /\ sent = 0

At(q, stage) == request[q] # NULL /\ request[q].stage = stage

MayMiss == MapThenSumSet(LAMBDA i : missed[i], plan) < MaxMissed
-----------------------------------------------------------------------------
\* The agent makes one call at a time and does not repeat one that succeeded.
MayCall(i) == i \in plan /\ awaited = {} /\ acked[i] = NULL
MaySend(q, i) == MayCall(i) /\ request[q] = NULL /\ sent < MaxSent

\* A tool builds the body and _api_request sends it.
Send(q, i, body) ==
  /\ MaySend(q, i)
  /\ request' = [request EXCEPT ![q] = [intent |-> i, body |-> body, stage |-> "sent"]]
  /\ awaited' = {q}
  /\ sent' = sent + 1
  /\ UNCHANGED <<plan, acked, missed>>

\* Variant: the client repeats a request by itself instead of giving up.
GiveUpResends(q) ==
  /\ q \in awaited
  /\ \E p \in Requests :
       /\ request[p] = NULL /\ sent < MaxSent
       /\ request' = [request EXCEPT ![p] = [request[q] EXCEPT !.stage = "sent"]]
       /\ awaited' = {p}
  /\ sent' = sent + 1
  /\ UNCHANGED <<plan, acked, missed>>

\* httpx.HTTPError after timeout=30.0: {"error": "internal_request_failed"}.
GiveUp(q) ==
  /\ q \in awaited /\ MayMiss
  /\ awaited' = awaited \ {q}
  /\ missed' = [missed EXCEPT ![request[q].intent] = @ + 1]
  /\ UNCHANGED <<plan, request, acked, sent>>

\* The handler returns: the tool's answer, if anybody still waits for it.
AnswerOk(q) ==
  /\ request' = [request EXCEPT ![q] = NULL]
  /\ awaited' = awaited \ {q}
  /\ acked' = IF q \in awaited
              THEN [acked EXCEPT ![request[q].intent] = request[q].body] ELSE acked
  /\ UNCHANGED <<plan, missed, sent>>

\* The handler raises: _with_error_handling answers with an error.
AnswerError(q) ==
  /\ request' = [request EXCEPT ![q] = NULL]
  /\ awaited' = awaited \ {q}
  /\ q \in awaited => MayMiss
  /\ missed' = IF q \in awaited
               THEN [missed EXCEPT ![request[q].intent] = @ + 1] ELSE missed
  /\ UNCHANGED <<plan, acked, sent>>

\* The handler goes on to its next statement.
Continue(q, r) ==
  /\ request' = [request EXCEPT ![q] = r]
  /\ UNCHANGED <<plan, awaited, acked, missed, sent>>
=============================================================================
