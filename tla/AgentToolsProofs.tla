-------------------------- MODULE AgentToolsProofs ---------------------------
(***************************************************************************)
(* Proofs about AgentTools, for any agent, any number of requests in       *)
(* progress, calls given up and repeated: first about results and their    *)
(* corrections, then about everything the tools store.                     *)
(***************************************************************************)
EXTENDS AgentTools, SequenceTheorems, FiniteSetTheorems, WellFoundedInduction, TLAPS

ResultTools == {"submit_result", "mark_result_superseded"}

ResultRow == [run : Runs, name : Names, intent : Intents, superseded_by : Nat]

\* A request to a result tool names results.
ResultRequest ==
  [intent : Intents, body : [result_id : Nat, by : Nat], stage : {"sent", "inserted"}]

RequestsInv ==
  /\ DOMAIN request = Requests /\ DOMAIN acked = Intents
  /\ \A q \in Requests : request[q] # NULL =>
       /\ request[q].intent \in Intents
       /\ ToolOf[request[q].intent].tool \in ResultTools => request[q] \in ResultRequest

\* Every correction points forward in its group, if none was misdirected.
MarksInv ==
  /\ results \in Seq(ResultRow)
  /\ misdirected \in BOOLEAN
  /\ \A k \in DOMAIN results :
       (~misdirected /\ results[k].superseded_by # 0) =>
         /\ results[k].superseded_by \in DOMAIN results
         /\ results[k].superseded_by > k
         /\ SameGroup(k, results[k].superseded_by)

\* What an agent was told is corrected is marked.
AcksInv ==
  \A i \in Intents :
    (acked[i] # NULL /\ ToolOf[i].tool \in ResultTools /\ acked[i].result_id # 0) =>
      /\ acked[i].result_id \in DOMAIN results
      /\ results[acked[i].result_id].superseded_by # 0

ResultsInv == RequestsInv /\ MarksInv /\ AcksInv
-----------------------------------------------------------------------------
\* A finite set of positive numbers has a maximum, and Max is it.
LEMMA MaxIsGreatest ==
  ASSUME NEW n \in Nat, NEW S \in SUBSET (1..n), S # {}
  PROVE  Max(S) \in S /\ \A x \in S : x <= Max(S)
<1> DEFINE T == {n - x : x \in S}
<1>1. T \in SUBSET Nat /\ T # {}
  OBVIOUS
<1>2. PICK t \in T : \A u \in T : ~(u < t)
  <2> HIDE DEF T
  <2>1. PICK t \in T : \A u \in T : <<u, t>> \notin OpToRel(<, Nat)
    BY <1>1, NatLessThanWellFounded, WFMin, Zenon
  <2>2. QED
    BY <1>1, <2>1, Zenon DEF OpToRel
<1>3. \A u \in T : t <= u
  BY <1>1, <1>2
<1>4. PICK m \in S : t = n - m
  BY <1>2
<1>5. \A x \in S : m >= x
  <2>1. ASSUME NEW x \in S PROVE m >= x
    <3>1. n - x \in T
      OBVIOUS
    <3>2. n - m <= n - x
      BY <1>3, <1>4, <3>1
    <3>3. QED
      BY <3>2
  <2>2. QED
    BY <2>1
<1> HIDE DEF T
<1>6. \E x \in S : \A y \in S : x >= y
  BY <1>4, <1>5
<1>7. Max(S) \in S /\ \A y \in S : Max(S) >= y
  BY <1>6 DEF Max
<1>8. QED
  BY <1>7

\* The greatest member is Max.
LEMMA GreatestIsMax ==
  ASSUME NEW S \in SUBSET Nat, NEW m \in S, \A x \in S : x <= m
  PROVE  Max(S) = m
<1>1. \E x \in S : \A y \in S : x >= y
  OBVIOUS
<1>2. Max(S) \in S /\ \A y \in S : Max(S) >= y
  BY <1>1 DEF Max
<1>3. Max(S) >= m /\ Max(S) <= m /\ Max(S) \in Nat /\ m \in Nat
  BY <1>2
<1>4. QED
  BY <1>3

LEMMA ResultsInit == Init => ResultsInv
<1> SUFFICES ASSUME Init PROVE ResultsInv
  OBVIOUS
<1> USE DEF Init, InitCalls, InitResults
<1>1. results \in Seq(ResultRow) /\ Len(results) = 0
  BY EmptySeq
<1>2. (\A k \in DOMAIN results : FALSE) /\ misdirected = FALSE
  <2>1. DOMAIN results = 1..Len(results)
    BY <1>1
  <2>2. QED
    BY <1>1, <2>1
<1>3. MarksInv
  BY <1>1, <1>2 DEF MarksInv
<1>4. RequestsInv /\ AcksInv
  BY DEF RequestsInv, AcksInv
<1>5. QED
  BY <1>3, <1>4 DEF ResultsInv
-----------------------------------------------------------------------------
\* Whatever a call sends, results stay as they are.
LEMMA SendKeepsInv ==
  ASSUME ResultsInv, NEW q \in Requests, NEW i \in Intents, NEW body, Send(q, i, body),
         UNCHANGED result_vars,
         ToolOf[i].tool \in ResultTools => body \in [result_id : Nat, by : Nat]
  PROVE  ResultsInv'
<1> USE DEF ResultsInv, Send, result_vars
<1>1. RequestsInv'
  <2>1. /\ DOMAIN request' = Requests
        /\ request'[q] = [intent |-> i, body |-> body, stage |-> "sent"]
        /\ \A p \in Requests \ {q} : request'[p] = request[p]
    BY DEF RequestsInv
  <2>2. request'[q].intent = i
    BY <2>1
  <2>3. ToolOf[i].tool \in ResultTools => request'[q] \in ResultRequest
    BY <2>1 DEF ResultRequest
  <2>4. QED
    BY <2>1, <2>2, <2>3 DEF RequestsInv
<1>2. MarksInv' /\ AcksInv'
  BY DEF MarksInv, AcksInv, SameGroup
<1>3. QED
  BY <1>1, <1>2

\* An answer, or a given-up call, that leaves results as they are and
\* acknowledges no correction.
LEMMA AnswerKeepsInv ==
  ASSUME ResultsInv, UNCHANGED result_vars, DOMAIN acked' = Intents,
         DOMAIN request' = Requests,
         \A q \in Requests : request'[q] = request[q] \/ request'[q] = NULL,
         \A i \in Intents : acked'[i] = acked[i] \/ ToolOf[i].tool \notin ResultTools
  PROVE  ResultsInv'
<1> USE DEF ResultsInv, result_vars
<1>1. RequestsInv'
  BY DEF RequestsInv
<1>2. MarksInv' /\ AcksInv'
  BY DEF MarksInv, AcksInv, SameGroup
<1>3. QED
  BY <1>1, <1>2

LEMMA InsertKeepsInv ==
  ASSUME ResultsInv, NEW q \in Requests, InsertResult(q)
  PROVE  ResultsInv'
<1> USE DEF ResultsInv
<1> DEFINE i == request[q].intent  n == Len(results) + 1
<1>1. /\ request[q] # NULL /\ request[q].stage = "sent" /\ i \in Intents
      /\ ToolOf[i].tool = "submit_result" /\ request[q] \in ResultRequest
  BY DEF InsertResult, Handles, At, Uses, RequestsInv, ResultTools
<1>2. results' = Append(results, InsertedRow(i)) /\ misdirected' = misdirected
  BY DEF InsertResult
<1>3. InsertedRow(i) \in ResultRow
  BY <1>1, ResultAssumption DEF ResultAssumption, InsertedRow, ResultRow
<1>4. results \in Seq(ResultRow)
  BY DEF MarksInv
<1>5. /\ results' \in Seq(ResultRow) /\ DOMAIN results' = 1..n /\ DOMAIN results = 1..(n - 1)
      /\ n \in Nat /\ results'[n].superseded_by = 0
      /\ \A k \in DOMAIN results : results'[k] = results[k]
  BY <1>2, <1>3, <1>4 DEF InsertedRow
<1>6. MarksInv'
  BY <1>2, <1>5 DEF MarksInv, SameGroup
<1>7. CASE request[q].body.result_id = 0
  <2>1. AnswerOk(q)
    BY <1>7 DEF InsertResult
  <2>2. /\ DOMAIN request' = Requests /\ DOMAIN acked' = Intents
        /\ \A p \in Requests : request'[p] = request[p] \/ request'[p] = NULL
    BY <2>1 DEF AnswerOk, RequestsInv
  <2>3. \A j \in Intents : acked'[j] = acked[j] \/ acked'[j].result_id = 0
    BY <1>1, <1>7, <2>1 DEF AnswerOk, RequestsInv
  <2>4. AcksInv'
    BY <1>5, <2>3 DEF AcksInv
  <2>5. RequestsInv'
    BY <2>2 DEF RequestsInv
  <2>6. QED
    BY <1>6, <2>4, <2>5
<1>8. CASE request[q].body.result_id # 0
  <2> DEFINE r == [request[q] EXCEPT !.stage = "inserted", !.body.by = n]
  <2>1. Continue(q, r)
    BY <1>8 DEF InsertResult
  <2>2. r \in ResultRequest /\ r.intent = i
    BY <1>1, <1>5 DEF ResultRequest
  <2> HIDE DEF r
  <2>3. RequestsInv'
    BY <1>1, <2>1, <2>2 DEF RequestsInv, Continue
  <2>4. AcksInv'
    BY <1>5, <2>1 DEF AcksInv, Continue
  <2>5. QED
    BY <1>6, <2>3, <2>4
<1>9. QED
  BY <1>7, <1>8

\* A mark is never taken back, and points forward unless it is misdirected.
LEMMA MarkKeepsInv ==
  ASSUME ResultsInv, NEW q \in Requests, MarkSuperseded(q)
  PROVE  ResultsInv'
<1> USE DEF ResultsInv
<1> DEFINE i == request[q].intent  k == request[q].body.result_id  by == request[q].body.by
<1>1. /\ request[q] # NULL /\ i \in Intents /\ ToolOf[i].tool \in ResultTools
      /\ request[q] \in ResultRequest
  BY DEF MarkSuperseded, Handles, At, Uses, RequestsInv, ResultTools
<1>2. k \in Nat /\ by \in Nat
  BY <1>1 DEF ResultRequest
<1> HIDE DEF k, by
<1>3. results \in Seq(ResultRow)
  BY DEF MarksInv
<1>4. CASE MayMark(k, by)
  <2>1. Mark(k, by) /\ AnswerOk(q)
    BY <1>4 DEF MarkSuperseded, k, by
  <2>2. k # by /\ k \in DOMAIN results /\ by \in DOMAIN results /\ by # 0
    BY <1>3, <1>4 DEF MayMark
  <2>3. /\ results' = [results EXCEPT ![k].superseded_by = by]
        /\ misdirected' = (misdirected \/ k > by \/ ~SameGroup(k, by))
    BY <2>1 DEF Mark
  <2>4. /\ DOMAIN results' = DOMAIN results
        /\ \A n \in DOMAIN results : n # k => results'[n] = results[n]
        /\ results'[k] = [results[k] EXCEPT !.superseded_by = by]
    BY <1>3, <2>2, <2>3
  <2>5. results[k] \in ResultRow
    BY <1>3, <2>2
  <2>6. /\ results'[k] \in ResultRow /\ results'[k].superseded_by = by
        /\ results'[k].run = results[k].run /\ results'[k].name = results[k].name
    BY <1>2, <2>4, <2>5 DEF ResultRow
  <2>7. results' \in Seq(ResultRow)
    <3> DEFINE e == [results[k] EXCEPT !.superseded_by = by]
    <3>1. e \in ResultRow
      BY <2>4, <2>6
    <3>2. results' = [results EXCEPT ![k] = e] /\ k \in 1..Len(results)
      BY <1>3, <2>2, <2>3
    <3> HIDE DEF e
    <3>3. QED
      BY <1>3, <3>1, <3>2, ExceptSeq
  <2>8. MarksInv'
    <3>1. misdirected' \in BOOLEAN
      BY <2>3 DEF MarksInv
    <3>2. \A m, n \in DOMAIN results : SameGroup(m, n)' <=> SameGroup(m, n)
      BY <2>4, <2>6 DEF SameGroup
    <3>3. ASSUME NEW n \in DOMAIN results, ~misdirected', results'[n].superseded_by # 0
          PROVE  /\ results'[n].superseded_by \in DOMAIN results
                 /\ results'[n].superseded_by > n
                 /\ SameGroup(n, results'[n].superseded_by)
      <4>1. CASE n = k
        <5>1. ~(k > by) /\ SameGroup(k, by)
          BY <2>3, <3>3
        <5>2. QED
          BY <1>2, <2>2, <2>6, <4>1, <5>1
      <4>2. CASE n # k
        <5>1. ~misdirected
          BY <2>3, <3>3
        <5>2. QED
          BY <2>4, <3>3, <4>2, <5>1 DEF MarksInv
      <4>3. QED
        BY <4>1, <4>2
    <3>4. QED
      BY <2>4, <2>7, <3>1, <3>2, <3>3 DEF MarksInv
  <2>9. AcksInv'
    <3>1. \A j \in Intents : acked'[j] = acked[j] \/ acked'[j].result_id = k
      BY <1>1, <2>1 DEF AnswerOk, RequestsInv, k
    <3>2. \A n \in DOMAIN results :
            results[n].superseded_by # 0 \/ n = k => results'[n].superseded_by # 0
      BY <2>2, <2>4, <2>6
    <3>3. QED
      BY <2>2, <2>4, <3>1, <3>2 DEF AcksInv
  <2>10. RequestsInv'
    BY <2>1 DEF RequestsInv, AnswerOk
  <2>11. QED
    BY <2>8, <2>9, <2>10
<1>5. CASE ~MayMark(k, by)
  <2>1. AnswerError(q) /\ UNCHANGED result_vars
    BY <1>5 DEF MarkSuperseded, k, by
  <2>2. QED
    BY <2>1, AnswerKeepsInv DEF AnswerError, RequestsInv
<1>6. QED
  BY <1>4, <1>5

\* A tool that is not about results acknowledges calls of its own intents only.
LEMMA OtherAnswerKeepsInv ==
  ASSUME ResultsInv, NEW q \in Requests, request[q] # NULL, UNCHANGED result_vars,
         \/ AnswerError(q)
         \/ AnswerOk(q) /\ ToolOf[request[q].intent].tool \notin ResultTools
  PROVE  ResultsInv'
<1>1. DOMAIN request = Requests /\ DOMAIN acked = Intents /\ request[q].intent \in Intents
  BY DEF ResultsInv, RequestsInv
<1>2. CASE AnswerError(q)
  BY <1>1, <1>2, AnswerKeepsInv DEF AnswerError
<1>3. CASE AnswerOk(q) /\ ToolOf[request[q].intent].tool \notin ResultTools
  BY <1>1, <1>3, AnswerKeepsInv DEF AnswerOk
<1>4. QED
  BY <1>2, <1>3

\* A handler of another tool that goes on to its next statement.
LEMMA OtherContinueKeepsInv ==
  ASSUME ResultsInv, NEW q \in Requests, request[q] # NULL, UNCHANGED result_vars,
         ToolOf[request[q].intent].tool \notin ResultTools,
         NEW r, r.intent = request[q].intent, Continue(q, r)
  PROVE  ResultsInv'
<1> USE DEF ResultsInv, Continue, result_vars
<1>1. RequestsInv'
  BY DEF RequestsInv
<1>2. MarksInv' /\ AcksInv'
  BY DEF MarksInv, AcksInv, SameGroup
<1>3. QED
  BY <1>1, <1>2
-----------------------------------------------------------------------------
LEMMA CallKeepsInv ==
  ASSUME ResultsInv, NEW q \in Requests, NEW i \in Intents, Call(q, i)
  PROVE  ResultsInv'
<1>1. CASE CallResults(q, i)
  <2>1. PICK k \in 0..MaxResults :
          CallSubmitResult(q, i, k) \/ \E by \in 1..MaxResults : CallMarkSuperseded(q, i, k, by)
    BY <1>1 DEF CallResults
  <2>2. k \in Nat /\ \A by \in 1..MaxResults : by \in Nat
    BY ResultAssumption DEF ResultAssumption
  <2>3. QED
    BY <2>1, <2>2, SendKeepsInv DEF CallSubmitResult, CallMarkSuperseded
<1>2. ASSUME NEW tool, NEW body, Calls(q, i, tool, body), tool \notin ResultTools
      PROVE  ResultsInv'
  BY <1>2, SendKeepsInv DEF Calls, Uses
<1>3. CASE CallCreateExperiment(q, i) \/ CallAppendWriteup(q, i) \/ CallEnqueueRun(q, i)
  BY <1>2, <1>3
     DEF CallCreateExperiment, CallAppendWriteup, CallEnqueueRun, ResultTools
<1>4. CASE CallSetPin(q, i) \/ CallSetRunStatus(q, i) \/ CallCancelRun(q, i)
  BY <1>2, <1>4 DEF CallSetPin, CallSetRunStatus, CallCancelRun, ResultTools
<1>5. CASE \E given : CallUpdateStatus(q, i, given) \/ CallRecordConclusion(q, i, given)
  BY <1>2, <1>5 DEF CallUpdateStatus, CallRecordConclusion, ResultTools
<1>6. CASE CallUpload(q, i) \/ CallUploadBatch(q, i)
  BY <1>2, <1>6 DEF CallUpload, CallUploadBatch, ResultTools
<1>7. CASE CallRegister(q, i) \/ CallRegisterGit(q, i) \/ CallRegisterHf(q, i)
  BY <1>2, <1>7 DEF CallRegister, CallRegisterGit, CallRegisterHf, ResultTools
<1>8. QED
  BY <1>1, <1>3, <1>4, <1>5, <1>6, <1>7 DEF Call

LEMMA HandlerKeepsInv ==
  ASSUME ResultsInv, NEW q \in Requests,
         InsertRow(q) \/ RegisterItem(q) \/ WriteColumns(q) \/ ServeResults(q)
  PROVE  ResultsInv'
<1>1. ASSUME NEW tools, Handled(q, tools), tools \cap ResultTools = {}
      PROVE  request[q] # NULL /\ ToolOf[request[q].intent].tool \notin ResultTools
  BY <1>1 DEF Handled, At
<1>2. /\ InsertTools \cap ResultTools = {} /\ ArtifactTools \cap ResultTools = {}
      /\ OverwriteTools \cap ResultTools = {}
  BY DEF InsertTools, ArtifactTools, OverwriteTools, ResultTools
<1>3. CASE InsertRow(q)
  BY <1>1, <1>2, <1>3, OtherAnswerKeepsInv DEF InsertRow
<1>4. CASE RegisterItem(q)
  <2>1. request[q] # NULL /\ ToolOf[request[q].intent].tool \notin ResultTools
        /\ UNCHANGED result_vars
    BY <1>1, <1>2, <1>4 DEF RegisterItem
  <2>2. CASE AnswerOk(q)
    BY <2>1, <2>2, OtherAnswerKeepsInv
  <2>3. CASE Continue(q, [request[q] EXCEPT !.body.items = Tail(request[q].body.items)])
    <3> DEFINE r == [request[q] EXCEPT !.body.items = Tail(request[q].body.items)]
    <3>1. r.intent = request[q].intent
      OBVIOUS
    <3>2. Continue(q, r)
      BY <2>3
    <3> HIDE DEF r
    <3>3. QED
      BY <2>1, <3>1, <3>2, OtherContinueKeepsInv
  <2>4. QED
    BY <1>4, <2>2, <2>3 DEF RegisterItem
<1>5. CASE WriteColumns(q)
  BY <1>1, <1>2, <1>5, OtherAnswerKeepsInv DEF WriteColumns
<1>6. CASE ServeResults(q)
  BY <1>6, InsertKeepsInv, MarkKeepsInv DEF ServeResults
<1>7. QED
  BY <1>3, <1>4, <1>5, <1>6

LEMMA ResultsStep ==
  ASSUME ResultsInv, plan \subseteq Intents, [Next]_vars
  PROVE  ResultsInv'
<1>1. ASSUME NEW i \in plan, RefuseParents(i) PROVE ResultsInv'
  BY <1>1, AnswerKeepsInv DEF RefuseParents, ResultsInv, RequestsInv
<1>2. ASSUME NEW i \in plan, NEW q \in Requests, Call(q, i) PROVE ResultsInv'
  BY <1>2, CallKeepsInv
<1>3. ASSUME NEW q \in Requests,
             InsertRow(q) \/ RegisterItem(q) \/ WriteColumns(q) \/ ServeResults(q)
      PROVE  ResultsInv'
  BY <1>3, HandlerKeepsInv
<1>4. ASSUME NEW q \in Requests, Fail(q) PROVE ResultsInv'
  BY <1>4, OtherAnswerKeepsInv DEF Fail
<1>5. ASSUME NEW q \in Requests, TimeOut(q) PROVE ResultsInv'
  BY <1>5, AnswerKeepsInv DEF TimeOut, GiveUp, ResultsInv, RequestsInv
<1>6. CASE UNCHANGED vars
  BY <1>6, AnswerKeepsInv DEF vars, call_vars, ResultsInv, RequestsInv
<1>7. QED
  BY <1>1, <1>2, <1>3, <1>4, <1>5, <1>6 DEF Next

\* Nobody changes what the agent sets out to do.
LEMMA PlanStays == plan \subseteq Intents /\ [Next]_vars => (plan \subseteq Intents)'
<1> SUFFICES ASSUME plan \subseteq Intents, [Next]_vars PROVE plan' = plan
  OBVIOUS
<1>1. ASSUME NEW i \in plan, NEW q \in Requests, Call(q, i) PROVE plan' = plan
  BY <1>1 DEF Call, CallResults, CallSubmitResult, CallMarkSuperseded, Calls, Send,
     CallCreateExperiment, CallAppendWriteup, CallEnqueueRun, CallSetPin, CallSetRunStatus,
     CallCancelRun, CallUpdateStatus, CallRecordConclusion, CallUpload, CallUploadBatch,
     CallRegister, CallRegisterGit, CallRegisterHf
<1>2. ASSUME NEW q \in Requests,
             \/ InsertRow(q) \/ RegisterItem(q) \/ WriteColumns(q) \/ ServeResults(q)
             \/ Fail(q) \/ TimeOut(q)
      PROVE  plan' = plan
  BY <1>2 DEF InsertRow, RegisterItem, WriteColumns, ServeResults, InsertResult, MarkSuperseded,
     Fail, TimeOut, GiveUp, AnswerOk, AnswerError, Continue
<1>3. CASE UNCHANGED vars
  BY <1>3 DEF vars, call_vars
<1>4. QED
  BY <1>1, <1>2, <1>3 DEF Next, RefuseParents

LEMMA ResultsInvHolds == Spec => []ResultsInv
<1>1. Init => ResultsInv /\ plan \subseteq Intents
  BY ResultsInit, CallAssumption DEF CallAssumption, Init, InitCalls
<1>2. ResultsInv /\ plan \subseteq Intents /\ [Next]_vars
        => (ResultsInv /\ plan \subseteq Intents)'
  BY ResultsStep, PlanStays
<1>3. QED
  BY <1>1, <1>2, PTL DEF Spec

\* No retry, given-up call or failure between the INSERT and the mark makes a
\* comparison answer anything but the newest result, or find none, unless a mark
\* pointed backwards or out of its group (submit_result, compare_runs).
THEOREM NewestStaysCurrent == Spec => []NewestIsCurrent
<1>1. ResultsInv => NewestIsCurrent
  <2>1. SUFFICES ASSUME ResultsInv, ~misdirected, NEW run \in Runs, NEW name \in Names,
                        Group(run, name) # {}
                 PROVE  Compare(run, name) = Max(Group(run, name))
    BY DEF NewestIsCurrent
  <2> DEFINE G == Group(run, name)  m == Max(G)
             C == {k \in G : results[k].superseded_by = 0}
  <2>2. results \in Seq(ResultRow) /\ Len(results) \in Nat /\ DOMAIN results = 1..Len(results)
    BY <2>1 DEF ResultsInv, MarksInv
  <2>3. G \in SUBSET (1..Len(results))
    BY <2>2 DEF Group
  <2>4. m \in G /\ \A k \in G : k <= m
    BY <2>1, <2>2, <2>3, MaxIsGreatest
  <2>5. m \in C
    <3>1. SUFFICES ASSUME results[m].superseded_by # 0 PROVE FALSE
      BY <2>4
    <3>2. /\ results[m].superseded_by \in DOMAIN results /\ results[m].superseded_by > m
          /\ SameGroup(m, results[m].superseded_by)
      BY <2>1, <2>3, <2>4, <3>1, <2>2 DEF ResultsInv, MarksInv
    <3>3. results[m].superseded_by \in G
      BY <2>4, <3>2 DEF Group, SameGroup
    <3>4. QED
      BY <2>2, <2>3, <2>4, <3>2, <3>3
  <2>6. C \in SUBSET Nat /\ \A k \in C : k <= m
    BY <2>2, <2>3, <2>4
  <2>7. Max(C) = m
    BY <2>5, <2>6, GreatestIsMax
  <2>8. Compare(run, name) = IF C = {} THEN 0 ELSE Max(C)
    BY DEF Compare
  <2>9. QED
    BY <2>5, <2>7, <2>8
<1>2. QED
  BY <1>1, ResultsInvHolds, PTL

\* What an agent was told is corrected, a comparison never answers again
\* (tools/runs.py), whatever is submitted, marked or repeated later.
THEOREM CorrectionsHold == Spec => []CorrectedStaysHidden
<1>1. ResultsInv => CorrectedStaysHidden
  <2>1. SUFFICES ASSUME ResultsInv, NEW i \in Intents, acked[i] # NULL,
                        ToolOf[i].tool \in ResultTools,
                        NEW run \in Runs, NEW name \in Names, acked[i].result_id # 0
                 PROVE  Compare(run, name) # acked[i].result_id
    BY DEF CorrectedStaysHidden, ResultTools
  <2> DEFINE C == {k \in Group(run, name) : results[k].superseded_by = 0}
  <2>2. results[acked[i].result_id].superseded_by # 0
    BY <2>1 DEF ResultsInv, AcksInv
  <2>3. acked[i].result_id \notin C
    BY <2>2
  <2>4. Len(results) \in Nat /\ C \in SUBSET (1..Len(results))
    BY <2>1 DEF ResultsInv, MarksInv, Group
  <2>5. Compare(run, name) = IF C = {} THEN 0 ELSE Max(C)
    BY DEF Compare
  <2> HIDE DEF C
  <2>6. C # {} => Max(C) \in C
    BY <2>4, MaxIsGreatest
  <2>7. QED
    BY <2>1, <2>3, <2>5, <2>6
<1>2. QED
  BY <1>1, ResultsInvHolds, PTL
-----------------------------------------------------------------------------
(* Calls and their requests.                                               *)

Tools == InsertTools \cup ArtifactTools \cup OverwriteTools \cup ResultTools

\* What is left of a batch.
Rest(s, t) ==
  Len(s) \in 1..Len(t) /\ \A n \in 1..Len(s) : s[n] = t[Len(t) - Len(s) + n]

BodyFits(i, stage, body) ==
  LET tool == ToolOf[i].tool IN
  /\ tool \in InsertTools => stage = "sent" /\ body \in [key : Slugs \cup {NULL}]
  /\ tool \in ArtifactTools =>
       stage = "sent" /\ body \in [items : Seq(Contents)] /\ Rest(body.items, Batch(i))
  /\ tool \in OverwriteTools => stage = "sent" /\ body \in [columns : SUBSET Columns]
  /\ tool \in ResultTools => body \in [result_id : Nat, by : Nat]

RequestFits(r) ==
  /\ r \in [intent : Intents, body : Bodies, stage : {"sent", "inserted"}]
  /\ ToolOf[r.intent].tool \in Tools
  /\ BodyFits(r.intent, r.stage, r.body)

InFlight(q, i) == request[q] # NULL /\ request[q].intent = i

\* A request nobody waits for was given up; what is awaited is one call, of an
\* intent not yet acknowledged.
CallsInv ==
  /\ DOMAIN request = Requests /\ DOMAIN acked = Intents
  /\ missed \in [Intents -> Nat] /\ sent \in 0..MaxSent /\ plan \in Plans
  /\ \A q \in Requests : request[q] # NULL => RequestFits(request[q])
  /\ awaited \subseteq {q \in Requests : request[q] # NULL}
  /\ \A p, q \in awaited : p = q
  /\ \A q \in awaited : acked[request[q].intent] = NULL
  /\ \A q \in Requests : request[q] # NULL /\ q \notin awaited => missed[request[q].intent] > 0

\* The calls made for an intent that could have stored something.
Made(i) ==
  missed[i] + (IF acked[i] # NULL \/ \E q \in awaited : InFlight(q, i) THEN 1 ELSE 0)

LEMMA CallsInit == Init => CallsInv
  BY CallAssumption DEF CallAssumption, Init, InitCalls, CallsInv

LEMMA MadeIsBounded ==
  ASSUME CallsInv, NEW i \in Intents
  PROVE  Made(i) \in Nat /\ missed[i] \in Nat /\ Made(i) <= 1 + missed[i]
  BY DEF CallsInv, Made

LEMMA FitsIsBody ==
  ASSUME NEW i \in Intents, ToolOf[i].tool \in Tools, NEW stage, NEW body,
         BodyFits(i, stage, body)
  PROVE  body \in Bodies /\ body # NULL
<1>1. body \in Bodies
  BY DEF BodyFits, Bodies, Tools
<1>2. QED
  BY <1>1, ToolAssumption DEF ToolAssumption

\* A call.
LEMMA SendKeepsCalls ==
  ASSUME CallsInv, NEW q \in Requests, NEW i \in Intents, NEW body, Send(q, i, body),
         ToolOf[i].tool \in Tools, BodyFits(i, "sent", body),
         [intent |-> i, body |-> body, stage |-> "sent"] # NULL
  PROVE  /\ CallsInv' /\ InFlight(q, i)' /\ ~ \E j : InFlight(q, j)
         /\ \A p \in Requests \ {q} : request'[p] = request[p]
         /\ request'[q].body = body /\ request'[q].stage = "sent"
         /\ Made(i)' = 1 + Made(i) /\ \A j \in Intents \ {i} : Made(j)' = Made(j)
<1> USE DEF CallsInv, Send, MaySend, MayCall
<1>1. /\ request[q] = NULL /\ acked[i] = NULL /\ awaited = {} /\ awaited' = {q}
      /\ request'[q] = [intent |-> i, body |-> body, stage |-> "sent"]
      /\ \A p \in Requests \ {q} : request'[p] = request[p]
      /\ UNCHANGED <<plan, acked, missed>> /\ sent' = sent + 1 /\ sent < MaxSent
  OBVIOUS
<1>2. /\ request'[q].intent = i /\ request'[q].body = body /\ request'[q].stage = "sent"
      /\ request'[q] # NULL
  BY <1>1
<1>3. RequestFits(request'[q])
  BY <1>1, <1>2, FitsIsBody DEF RequestFits
<1>4. sent' \in 0..MaxSent
  BY <1>1, CallAssumption DEF CallAssumption
<1>5. CallsInv'
  BY <1>1, <1>2, <1>3, <1>4
<1>6. InFlight(q, i)' /\ ~ \E j : InFlight(q, j)
  BY <1>1, <1>2 DEF InFlight
<1>7. Made(i)' = 1 + Made(i) /\ \A j \in Intents \ {i} : Made(j)' = Made(j)
  BY <1>1, <1>2 DEF Made, InFlight
<1>8. QED
  BY <1>1, <1>2, <1>5, <1>6, <1>7

\* The answer to a call, or to nobody.
LEMMA OkKeepsCalls ==
  ASSUME CallsInv, NEW q \in Requests, request[q] # NULL, AnswerOk(q)
  PROVE  /\ CallsInv' /\ request'[q] = NULL
         /\ \A p \in Requests \ {q} : request'[p] = request[p]
         /\ \A j \in Intents : Made(j)' = Made(j) /\ missed'[j] = missed[j]
         /\ q \in awaited =>
              /\ acked' = [acked EXCEPT ![request[q].intent] = request[q].body]
              /\ acked'[request[q].intent] # NULL
         /\ q \notin awaited => acked' = acked
<1> USE DEF CallsInv, AnswerOk
<1> DEFINE i == request[q].intent
<1>1. i \in Intents /\ RequestFits(request[q]) /\ request[q].body # NULL
  BY FitsIsBody DEF RequestFits
<1>2. /\ request'[q] = NULL /\ \A p \in Requests \ {q} : request'[p] = request[p]
      /\ awaited' = awaited \ {q} /\ UNCHANGED <<plan, missed, sent>>
  OBVIOUS
<1>3. CASE q \in awaited
  <2>1. /\ acked' = [acked EXCEPT ![i] = request[q].body] /\ awaited = {q} /\ awaited' = {}
        /\ acked[i] = NULL
    BY <1>3
  <2>2. acked'[i] # NULL /\ \A j \in Intents \ {i} : acked'[j] = acked[j]
    BY <1>1, <2>1
  <2>3. CallsInv'
    BY <1>1, <1>2, <1>3, <2>1, <2>2
  <2>4. \A j \in Intents : Made(j)' = Made(j)
    BY <1>1, <1>2, <2>1, <2>2 DEF Made, InFlight
  <2>5. QED
    BY <1>2, <1>3, <2>1, <2>2, <2>3, <2>4
<1>4. CASE q \notin awaited
  <2>1. acked' = acked /\ awaited' = awaited
    BY <1>4
  <2>2. \A p \in awaited : p # q /\ p \in Requests
    BY <1>4
  <2>3. CallsInv'
    BY <1>2, <2>1, <2>2
  <2>4. \A j \in Intents : Made(j)' = Made(j)
    BY <1>2, <2>1, <2>2 DEF Made, InFlight
  <2>5. QED
    BY <1>2, <1>4, <2>1, <2>3, <2>4
<1>5. QED
  BY <1>3, <1>4

\* An error, or a call given up: the call is counted, and may be repeated.
LEMMA ErrorKeepsCalls ==
  ASSUME CallsInv, NEW q \in Requests, request[q] # NULL, AnswerError(q) \/ GiveUp(q)
  PROVE  /\ CallsInv' /\ acked' = acked
         /\ \A p \in Requests \ {q} : request'[p] = request[p]
         /\ AnswerError(q) => request'[q] = NULL
         /\ GiveUp(q) => request' = request
         /\ \A j \in Intents : Made(j)' = Made(j) /\ missed'[j] >= missed[j]
<1> USE DEF CallsInv, AnswerError, GiveUp
<1> DEFINE i == request[q].intent
<1>1. i \in Intents
  BY DEF RequestFits
<1>2. /\ request'[q] = NULL \/ (GiveUp(q) /\ request'[q] = request[q])
      /\ \A p \in Requests \ {q} : request'[p] = request[p]
      /\ awaited' = awaited \ {q} /\ UNCHANGED <<plan, acked, sent>>
      /\ DOMAIN request' = Requests
  OBVIOUS
<1>3. CASE q \in awaited
  <2>1. /\ missed' = [missed EXCEPT ![i] = @ + 1] /\ awaited = {q} /\ awaited' = {}
        /\ acked[i] = NULL
    BY <1>3
  <2>2. missed'[i] = missed[i] + 1 /\ \A j \in Intents \ {i} : missed'[j] = missed[j]
    BY <1>1, <2>1
  <2>3. missed' \in [Intents -> Nat] /\ \A j \in Intents : missed'[j] >= missed[j]
    BY <1>1, <2>1
  <2>4. CallsInv'
    BY <1>1, <1>2, <2>1, <2>2, <2>3
  <2>5. \A j \in Intents : Made(j)' = Made(j)
    BY <1>1, <1>2, <2>1, <2>2 DEF Made, InFlight
  <2>6. QED
    BY <1>2, <2>3, <2>4, <2>5
<1>4. CASE q \notin awaited
  <2>1. missed' = missed /\ awaited' = awaited /\ request'[q] = NULL
    BY <1>2, <1>4
  <2>2. \A p \in awaited : p # q /\ p \in Requests
    BY <1>4
  <2>3. CallsInv'
    BY <1>2, <2>1, <2>2
  <2>4. \A j \in Intents : Made(j)' = Made(j)
    BY <1>2, <2>1, <2>2 DEF Made, InFlight
  <2>5. QED
    BY <1>2, <1>4, <2>1, <2>3, <2>4
<1>5. QED
  BY <1>3, <1>4

\* A handler that goes on.
LEMMA ContinueKeepsCalls ==
  ASSUME CallsInv, NEW q \in Requests, request[q] # NULL, NEW r, Continue(q, r),
         r # NULL, r.intent = request[q].intent, RequestFits(r)
  PROVE  /\ CallsInv' /\ request'[q] = r /\ UNCHANGED <<acked, missed>>
         /\ \A p \in Requests \ {q} : request'[p] = request[p]
         /\ \A j \in Intents : Made(j)' = Made(j)
<1> USE DEF CallsInv, Continue
<1>1. /\ request'[q] = r /\ \A p \in Requests \ {q} : request'[p] = request[p]
      /\ UNCHANGED <<plan, awaited, acked, missed, sent>>
  OBVIOUS
<1>2. CallsInv'
  BY <1>1
<1>3. \A j \in Intents : Made(j)' = Made(j)
  BY <1>1 DEF Made, InFlight
<1>4. QED
  BY <1>1, <1>2, <1>3

LEMMA RefusalKeepsCalls ==
  ASSUME CallsInv, NEW i \in Intents, RefuseParents(i)
  PROVE  /\ CallsInv' /\ UNCHANGED <<request, acked>>
         /\ \A j \in Intents : /\ Made(j)' >= Made(j) /\ missed'[j] >= missed[j]
                               /\ Made(j)' \in Nat /\ Made(j) \in Nat
<1> USE DEF CallsInv, RefuseParents
<1>1. /\ missed' = [missed EXCEPT ![i] = @ + 1]
      /\ UNCHANGED <<plan, request, awaited, acked, sent>>
  OBVIOUS
<1>2. missed' \in [Intents -> Nat] /\ \A j \in Intents : missed'[j] >= missed[j]
  BY <1>1
<1>3. CallsInv'
  BY <1>1, <1>2 DEF RequestFits
<1>4. \A j \in Intents : Made(j)' >= Made(j) /\ Made(j)' \in Nat /\ Made(j) \in Nat
  BY <1>1, <1>2 DEF Made, InFlight
<1>5. QED
  BY <1>1, <1>2, <1>3, <1>4
-----------------------------------------------------------------------------
(* What a step may be.                                                     *)

\* A call: an artifact tool sends the whole batch.
Sends(q, i, body) ==
  /\ Send(q, i, body)
  /\ ToolOf[i].tool \in Tools /\ BodyFits(i, "sent", body)
  /\ ToolOf[i].tool \in ArtifactTools => body.items = Batch(i)
  /\ UNCHANGED <<result_vars, table_vars>>

\* An error, after which everything stored is as it was.
Refuses(q) ==
  request[q] # NULL /\ AnswerError(q) /\ UNCHANGED <<result_vars, table_vars>>

InsertsRow(q) ==
  LET i == request[q].intent  key == request[q].body.key IN
  /\ Handled(q, InsertTools) /\ ~KeyTaken(key)
  /\ stored' = Append(stored, [intent |-> i, run |-> NULL, key |-> key, role |-> "produced"])
  /\ AnswerOk(q) /\ UNCHANGED <<result_vars, column, acked_last>>

Writes(q) ==
  LET i == request[q].intent  given == request[q].body.columns IN
  /\ Handled(q, OverwriteTools)
  /\ column' = [c \in Columns |-> IF c \in given THEN i ELSE column[c]]
  /\ acked_last' = [c \in Columns |->
                      IF c \in given /\ q \in awaited THEN i ELSE acked_last[c]]
  /\ AnswerOk(q) /\ UNCHANGED <<result_vars, stored>>

Marks(q) ==
  LET k == request[q].body.result_id  by == request[q].body.by IN
  /\ request[q] # NULL /\ ToolOf[request[q].intent].tool \in ResultTools
  /\ Uses(request[q].intent, "submit_result") => request[q].stage = "inserted"
  /\ MayMark(k, by) /\ Mark(k, by) /\ AnswerOk(q) /\ UNCHANGED table_vars

LEMMA BatchFits ==
  ASSUME NEW i \in Intents, ToolOf[i].tool \in ArtifactTools
  PROVE  /\ Batch(i) \in Seq(Contents) /\ Len(Batch(i)) \in Nat \ {0}
         /\ BodyFits(i, "sent", [items |-> Batch(i)])
<1>1. Batch(i) \in Seq(Range(Batch(i))) /\ Batch(i) # <<>>
  BY ToolAssumption DEF ToolAssumption
<1>2. Range(Batch(i)) \subseteq Contents
  BY DEF Contents
<1>3. Batch(i) \in Seq(Contents)
  BY <1>1, <1>2, SeqMonotonic
<1>4. Len(Batch(i)) \in Nat \ {0}
  BY <1>3, <1>1, EmptySeq
<1>5. Rest(Batch(i), Batch(i))
  BY <1>4 DEF Rest
<1>6. BodyFits(i, "sent", [items |-> Batch(i)])
  BY <1>3, <1>5 DEF BodyFits, ArtifactTools, InsertTools, OverwriteTools, ResultTools
<1>7. QED
  BY <1>3, <1>4, <1>6

LEMMA CallIsSend ==
  ASSUME NEW q \in Requests, NEW i \in Intents, Call(q, i)
  PROVE  \E body : Sends(q, i, body)
<1> USE DEF Tools, InsertTools, ArtifactTools, OverwriteTools, ResultTools
<1>1. CASE CallResults(q, i)
  <2>1. PICK k \in 0..MaxResults :
          CallSubmitResult(q, i, k) \/ \E by \in 1..MaxResults : CallMarkSuperseded(q, i, k, by)
    BY <1>1 DEF CallResults
  <2>2. PICK body \in [result_id : Nat, by : Nat] :
          /\ Send(q, i, body) /\ UNCHANGED <<result_vars, table_vars>>
          /\ ToolOf[i].tool \in ResultTools
    <3>1. k \in Nat /\ \A by \in 1..MaxResults : by \in Nat
      BY ResultAssumption DEF ResultAssumption
    <3>2. UNCHANGED table_vars
      BY <1>1 DEF CallResults
    <3>3. CASE CallSubmitResult(q, i, k)
      <4>1. [result_id |-> k, by |-> 0] \in [result_id : Nat, by : Nat]
        BY <3>1
      <4>2. QED
        BY <3>2, <3>3, <4>1 DEF CallSubmitResult, Uses
    <3>4. ASSUME NEW by \in 1..MaxResults, CallMarkSuperseded(q, i, k, by)
          PROVE  \E body \in [result_id : Nat, by : Nat] :
                   /\ Send(q, i, body) /\ UNCHANGED <<result_vars, table_vars>>
                   /\ ToolOf[i].tool \in ResultTools
      <4>1. [result_id |-> k, by |-> by] \in [result_id : Nat, by : Nat]
        BY <3>1
      <4>2. QED
        BY <3>2, <3>4, <4>1 DEF CallMarkSuperseded, Uses
    <3>5. QED
      BY <2>1, <3>3, <3>4
  <2>3. BodyFits(i, "sent", body)
    BY <2>2 DEF BodyFits
  <2>4. QED
    BY <2>2, <2>3 DEF Sends
<1>2. CASE CallCreateExperiment(q, i) \/ CallAppendWriteup(q, i) \/ CallEnqueueRun(q, i)
  <2>1. PICK tool \in InsertTools, key \in Slugs \cup {NULL} : Calls(q, i, tool, [key |-> key])
    BY <1>2 DEF CallCreateExperiment, CallAppendWriteup, CallEnqueueRun, Slugs, Calls
  <2>2. QED
    BY <2>1 DEF Calls, Uses, BodyFits, Sends
<1>3. CASE \/ CallSetPin(q, i) \/ CallSetRunStatus(q, i) \/ CallCancelRun(q, i)
           \/ \E given \in SUBSET {"experiment.tags"} : CallUpdateStatus(q, i, given)
           \/ \E given \in SUBSET {"experiment.conclusion", "experiment.next_action"} :
                CallRecordConclusion(q, i, given)
  <2>1. PICK tool \in OverwriteTools, columns \in SUBSET Columns :
          Calls(q, i, tool, [columns |-> columns])
    BY <1>3 DEF CallSetPin, CallSetRunStatus, CallCancelRun, CallUpdateStatus,
       CallRecordConclusion, Columns
  <2>2. QED
    BY <2>1 DEF Calls, Uses, BodyFits, Sends
<1>4. CASE \/ CallUpload(q, i) \/ CallUploadBatch(q, i)
           \/ CallRegister(q, i) \/ CallRegisterGit(q, i) \/ CallRegisterHf(q, i)
  <2>1. PICK tool \in ArtifactTools : Calls(q, i, tool, [items |-> Batch(i)])
    BY <1>4 DEF CallUpload, CallUploadBatch, CallRegister, CallRegisterGit, CallRegisterHf
  <2>2. ToolOf[i].tool \in ArtifactTools
    BY <2>1 DEF Calls, Uses
  <2>3. QED
    BY <2>1, <2>2, BatchFits DEF Calls, Sends
<1>5. QED
  BY <1>1, <1>2, <1>3, <1>4 DEF Call

LEMMA StepKinds ==
  ASSUME CallsInv, Next
  PROVE  \/ \E i \in Intents : RefuseParents(i)
         \/ \E q \in Requests, i \in Intents : \E body : Sends(q, i, body)
         \/ \E q \in Requests :
              \/ Refuses(q) \/ TimeOut(q) \/ InsertsRow(q) \/ RegisterItem(q) \/ Writes(q)
              \/ InsertResult(q) /\ UNCHANGED table_vars
              \/ Marks(q)
<1>1. plan \subseteq Intents
  BY CallAssumption DEF CallAssumption, CallsInv
<1>2. ASSUME NEW i \in plan, NEW q \in Requests, Call(q, i)
      PROVE  \E body : Sends(q, i, body)
  BY <1>1, <1>2, CallIsSend
<1>3. ASSUME NEW q \in Requests, InsertRow(q) PROVE InsertsRow(q) \/ Refuses(q)
  BY <1>3 DEF InsertRow, InsertsRow, Refuses, Handled, At, table_vars
<1>4. ASSUME NEW q \in Requests, WriteColumns(q) PROVE Writes(q) \/ Refuses(q)
  BY <1>4 DEF WriteColumns, Writes, Refuses, Handled, At, table_vars
<1>5. ASSUME NEW q \in Requests, ServeResults(q)
      PROVE  Refuses(q) \/ Marks(q) \/ (InsertResult(q) /\ UNCHANGED table_vars)
  <2>1. CASE MarkSuperseded(q)
    <3>1. CASE MayMark(request[q].body.result_id, request[q].body.by)
      BY <1>5, <2>1, <3>1
         DEF ServeResults, MarkSuperseded, Marks, Handles, At, Uses, ResultTools
    <3>2. CASE ~MayMark(request[q].body.result_id, request[q].body.by)
      BY <1>5, <2>1, <3>2 DEF ServeResults, MarkSuperseded, Refuses, Handles, At
    <3>3. QED
      BY <3>1, <3>2
  <2>2. QED
    BY <1>5, <2>1 DEF ServeResults
<1>6. ASSUME NEW q \in Requests, Fail(q) PROVE Refuses(q)
  BY <1>6 DEF Fail, Refuses
<1>7. QED
  BY <1>1, <1>2, <1>3, <1>4, <1>5, <1>6 DEF Next
-----------------------------------------------------------------------------
(* Counting what is stored.                                                *)

StoredRow ==
  [intent : Intents,
   run : {ToolOf[i].run_id : i \in {j \in Intents : ToolOf[j].tool \in ArtifactTools}}
           \cup {NULL},
   key : Slugs \cup Contents \cup {NULL}, role : {"produced", "used"}]

\* What a request may still store for intent i.
LeftAt(r, i) ==
  IF r = NULL \/ r.intent # i THEN 0
  ELSE IF ToolOf[i].tool \in ArtifactTools THEN Len(r.body.items)
  ELSE IF r.stage = "sent" THEN 1 ELSE 0

LeftOf(i) == [q \in Requests |-> LeftAt(request[q], i)]

Area(L) == {x \in Requests \X (Nat \ {0}) : x[2] <= L[x[1]]}

\* Every call made for an intent stores what is asked for once at most.
OnceInv ==
  \A i \in Intents :
    /\ IsFiniteSet(Area(LeftOf(i)))
    /\ Cardinality(Rows(i)) + Cardinality(ResultRows(i)) + Cardinality(Area(LeftOf(i)))
         <= ItemsOf(i) * Made(i)

LEMMA ColumnCard ==
  ASSUME NEW q, NEW n \in Nat
  PROVE  IsFiniteSet({q} \X (1..n)) /\ Cardinality({q} \X (1..n)) = n
<1>1. IsFiniteSet({q}) /\ Cardinality({q}) = 1
  BY FS_Singleton
<1>2. IsFiniteSet(1..n) /\ Cardinality(1..n) = n
  BY FS_Interval
<1> DEFINE I == 1..n
<1> HIDE DEF I
<1>3. /\ IsFiniteSet({q} \X I)
      /\ Cardinality({q} \X I) = Cardinality({q}) * Cardinality(I)
  BY <1>1, <1>2, FS_Product DEF I
<1>4. QED
  BY <1>1, <1>2, <1>3 DEF I

LEMMA AreaParts ==
  ASSUME NEW L \in [Requests -> Nat], NEW q \in Requests, NEW others,
         others = {x \in Requests \X (Nat \ {0}) : x[1] # q /\ x[2] <= L[x[1]]},
         IsFiniteSet(others)
  PROVE  IsFiniteSet(Area(L)) /\ Cardinality(Area(L)) = Cardinality(others) + L[q]
<1> DEFINE c == {q} \X (1..L[q])
<1>1. IsFiniteSet(c) /\ Cardinality(c) = L[q] /\ L[q] \in Nat
  BY ColumnCard
<1>2. Area(L) = others \cup c
  BY DEF Area
<1>3. others \cap c = {}
  OBVIOUS
<1> HIDE DEF c
<1>4. Cardinality(others \cap c) = 0 /\ Cardinality(others) \in Nat
  BY <1>3, FS_EmptySet, FS_CardinalityType
<1>5. /\ IsFiniteSet(others \cup c)
      /\ Cardinality(others \cup c)
           = Cardinality(others) + Cardinality(c) - Cardinality(others \cap c)
  BY <1>1, FS_Union
<1>6. QED
  BY <1>1, <1>2, <1>4, <1>5

\* What is left changes by what it changes at one request.
LEMMA AreaChanges ==
  ASSUME NEW L \in [Requests -> Nat], NEW M \in [Requests -> Nat], NEW q \in Requests,
         \A p \in Requests \ {q} : M[p] = L[p], IsFiniteSet(Area(L))
  PROVE  /\ IsFiniteSet(Area(M)) /\ Cardinality(Area(L)) \in Nat /\ Cardinality(Area(M)) \in Nat
         /\ Cardinality(Area(M)) + L[q] = Cardinality(Area(L)) + M[q]
<1> DEFINE others == {x \in Requests \X (Nat \ {0}) : x[1] # q /\ x[2] <= L[x[1]]}
<1>1. others \subseteq Area(L)
  BY DEF Area
<1>2. others = {x \in Requests \X (Nat \ {0}) : x[1] # q /\ x[2] <= M[x[1]]}
  OBVIOUS
<1>3. IsFiniteSet(others)
  BY <1>1, FS_Subset
<1>4. Cardinality(Area(L)) = Cardinality(others) + L[q]
  BY <1>3, AreaParts
<1>5. IsFiniteSet(Area(M)) /\ Cardinality(Area(M)) = Cardinality(others) + M[q]
  BY <1>2, <1>3, AreaParts
<1>6. Cardinality(others) \in Nat
  BY <1>3, FS_CardinalityType
<1>7. QED
  BY <1>4, <1>5, <1>6

LEMMA LeftIsNat ==
  ASSUME NEW i \in Intents, NEW r, r # NULL => RequestFits(r)
  PROVE  LeftAt(r, i) \in Nat
<1>1. CASE r # NULL /\ r.intent = i /\ ToolOf[i].tool \in ArtifactTools
  <2>1. r.body.items \in Seq(Contents)
    BY <1>1 DEF RequestFits, BodyFits
  <2>2. QED
    BY <1>1, <2>1 DEF LeftAt
<1>2. QED
  BY <1>1 DEF LeftAt

LEMMA RowsAreFinite ==
  ASSUME NEW S, stored \in Seq(S), NEW T, results \in Seq(T), NEW i
  PROVE  /\ IsFiniteSet(Rows(i)) /\ Cardinality(Rows(i)) \in Nat
         /\ IsFiniteSet(ResultRows(i)) /\ Cardinality(ResultRows(i)) \in Nat
<1>1. Rows(i) \subseteq 1..Len(stored) /\ ResultRows(i) \subseteq 1..Len(results)
  BY DEF Rows, ResultRows
<1>2. IsFiniteSet(1..Len(stored)) /\ IsFiniteSet(1..Len(results))
  BY FS_Interval
<1>3. QED
  BY <1>1, <1>2, FS_Subset, FS_CardinalityType

\* A row more for its intent, and none for another.
LEMMA RowAppended ==
  ASSUME NEW S, stored \in Seq(S), NEW row \in S, stored' = Append(stored, row), NEW i
  PROVE  /\ DOMAIN stored' = 1..(Len(stored) + 1) /\ DOMAIN stored = 1..Len(stored)
         /\ Len(stored) \in Nat /\ stored' \in Seq(S)
         /\ stored'[Len(stored) + 1] = row
         /\ \A n \in DOMAIN stored : stored'[n] = stored[n]
         /\ row.intent = i => Rows(i)' = Rows(i) \cup {Len(stored) + 1}
         /\ row.intent = i => Cardinality(Rows(i)') = Cardinality(Rows(i)) + 1
         /\ row.intent # i => Rows(i)' = Rows(i)
<1>1. /\ DOMAIN stored' = 1..(Len(stored) + 1) /\ DOMAIN stored = 1..Len(stored)
      /\ Len(stored) \in Nat /\ stored' \in Seq(S)
      /\ stored'[Len(stored) + 1] = row
      /\ \A n \in DOMAIN stored : stored'[n] = stored[n]
  OBVIOUS
<1>2. row.intent = i => Rows(i)' = Rows(i) \cup {Len(stored) + 1}
  BY <1>1 DEF Rows
<1>3. row.intent # i => Rows(i)' = Rows(i)
  BY <1>1 DEF Rows
<1>4. IsFiniteSet(Rows(i)) /\ Len(stored) + 1 \notin Rows(i)
  <2>1. Rows(i) \subseteq 1..Len(stored) /\ IsFiniteSet(1..Len(stored))
    BY <1>1, FS_Interval DEF Rows
  <2>2. QED
    BY <1>1, <2>1, FS_Subset
<1>5. row.intent = i => Cardinality(Rows(i)') = Cardinality(Rows(i)) + 1
  BY <1>2, <1>4, FS_AddElement
<1>6. QED
  BY <1>1, <1>2, <1>3, <1>5

LEMMA ResultAppended ==
  ASSUME NEW S, results \in Seq(S), NEW row \in S, results' = Append(results, row), NEW i
  PROVE  /\ row.intent = i => Cardinality(ResultRows(i)') = Cardinality(ResultRows(i)) + 1
         /\ row.intent # i => ResultRows(i)' = ResultRows(i)
         /\ row.intent = i => ResultRows(i)' # {}
         /\ ResultRows(i) \subseteq ResultRows(i)'
<1>1. /\ DOMAIN results' = 1..(Len(results) + 1) /\ DOMAIN results = 1..Len(results)
      /\ Len(results) \in Nat /\ results'[Len(results) + 1] = row
      /\ \A n \in DOMAIN results : results'[n] = results[n]
  OBVIOUS
<1>2. row.intent = i => ResultRows(i)' = ResultRows(i) \cup {Len(results) + 1}
  BY <1>1 DEF ResultRows
<1>3. row.intent # i => ResultRows(i)' = ResultRows(i)
  BY <1>1 DEF ResultRows
<1>4. IsFiniteSet(ResultRows(i)) /\ Len(results) + 1 \notin ResultRows(i)
  <2>1. ResultRows(i) \subseteq 1..Len(results) /\ IsFiniteSet(1..Len(results))
    BY <1>1, FS_Interval DEF ResultRows
  <2>2. QED
    BY <1>1, <2>1, FS_Subset
<1>5. row.intent = i => Cardinality(ResultRows(i)') = Cardinality(ResultRows(i)) + 1
  BY <1>2, <1>4, FS_AddElement
<1>6. QED
  BY <1>2, <1>3, <1>5

LEMMA ItemsAreNat == ASSUME NEW i \in Intents PROVE ItemsOf(i) \in Nat
  BY BatchFits DEF ItemsOf

LEMMA OnceAt ==
  ASSUME NEW i \in Intents, NEW q \in Requests, CallsInv, CallsInv', OnceInv,
         \A p \in Requests \ {q} : request'[p] = request[p],
         NEW a \in Nat, NEW b \in Nat, NEW k \in Nat,
         a = Cardinality(Rows(i)) + Cardinality(ResultRows(i)),
         Made(i)' = Made(i) + k,
         b + LeftAt(request'[q], i) <= a + LeftAt(request[q], i) + ItemsOf(i) * k
  PROVE  /\ IsFiniteSet(Area(LeftOf(i)'))
         /\ b + Cardinality(Area(LeftOf(i)')) <= ItemsOf(i) * Made(i)'
<1> DEFINE L == LeftOf(i)  M == [p \in Requests |-> LeftAt(request'[p], i)]
<1>1. L \in [Requests -> Nat] /\ L[q] = LeftAt(request[q], i)
  BY LeftIsNat DEF LeftOf, CallsInv
<1>2. \A p \in Requests : LeftAt(request'[p], i) \in Nat
  BY LeftIsNat DEF CallsInv
<1>3. M \in [Requests -> Nat] /\ M[q] = LeftAt(request'[q], i) /\ LeftOf(i)' = M
  BY <1>2 DEF LeftOf, LeftAt
<1>4. \A p \in Requests \ {q} : M[p] = L[p]
  BY DEF LeftOf, LeftAt
<1>5. IsFiniteSet(Area(L)) /\ a + Cardinality(Area(L)) <= ItemsOf(i) * Made(i)
  BY DEF OnceInv
<1> HIDE DEF L, M
<1>6. /\ IsFiniteSet(Area(M)) /\ Cardinality(Area(L)) \in Nat /\ Cardinality(Area(M)) \in Nat
      /\ Cardinality(Area(M)) + L[q] = Cardinality(Area(L)) + M[q]
  BY <1>1, <1>3, <1>4, <1>5, AreaChanges
<1>7. ItemsOf(i) \in Nat /\ Made(i) \in Nat
  BY ItemsAreNat, MadeIsBounded
<1>8. ItemsOf(i) * (Made(i) + k) = ItemsOf(i) * Made(i) + ItemsOf(i) * k
  BY <1>7
<1>9. ItemsOf(i) * Made(i) \in Nat /\ ItemsOf(i) * k \in Nat
  BY <1>7
<1>10. L[q] \in Nat /\ M[q] \in Nat
  BY <1>1, <1>3
<1>11. b + Cardinality(Area(M)) <= ItemsOf(i) * Made(i) + ItemsOf(i) * k
  BY <1>1, <1>3, <1>5, <1>6, <1>9, <1>10
<1>12. QED
  BY <1>3, <1>6, <1>8, <1>11

LEMMA OnceElsewhere ==
  ASSUME NEW j \in Intents, NEW q \in Requests, CallsInv, CallsInv', OnceInv,
         NEW S, stored \in Seq(S), NEW T, results \in Seq(T),
         \A p \in Requests \ {q} : request'[p] = request[p],
         Rows(j)' = Rows(j), ResultRows(j)' = ResultRows(j),
         Made(j)' \in Nat, Made(j)' >= Made(j),
         LeftAt(request'[q], j) <= LeftAt(request[q], j)
  PROVE  /\ IsFiniteSet(Area(LeftOf(j)'))
         /\ Cardinality(Rows(j)') + Cardinality(ResultRows(j)') + Cardinality(Area(LeftOf(j)'))
              <= ItemsOf(j) * Made(j)'
<1> DEFINE a == Cardinality(Rows(j)) + Cardinality(ResultRows(j))  k == Made(j)' - Made(j)
<1>1. Made(j) \in Nat /\ ItemsOf(j) \in Nat
  BY MadeIsBounded, ItemsAreNat
<1>2. k \in Nat /\ Made(j)' = Made(j) + k /\ a \in Nat
  BY <1>1, RowsAreFinite
<1>3. LeftAt(request'[q], j) \in Nat /\ LeftAt(request[q], j) \in Nat
  BY LeftIsNat DEF CallsInv
<1> HIDE DEF k
<1>4. ItemsOf(j) * k \in Nat
  BY <1>1, <1>2
<1>5. a + LeftAt(request'[q], j) <= a + LeftAt(request[q], j) + ItemsOf(j) * k
  BY <1>2, <1>3, <1>4
<1> HIDE DEF a
<1>6. /\ IsFiniteSet(Area(LeftOf(j)'))
      /\ a + Cardinality(Area(LeftOf(j)')) <= ItemsOf(j) * Made(j)'
  BY <1>2, <1>5, OnceAt DEF a
<1>7. QED
  BY <1>6 DEF a
-----------------------------------------------------------------------------
(* The inductive invariant.                                                *)

\* Who uses a content, uses one that was produced.
StoredInv ==
  /\ stored \in Seq(StoredRow)
  /\ KeysStoredOnce /\ SelfUseNeedsRepeat
  /\ \A n \in DOMAIN stored : stored[n].role = "used" => KeyTaken(stored[n].key)

\* What a handler has stored so far: of a batch, the items it is past, and no
\* others unless a call for it was given up.
Flown(q, i) ==
  /\ ToolOf[i].tool \in ArtifactTools =>
       Cardinality(Rows(i)) + Len(request[q].body.items) >= ItemsOf(i)
  /\ (ToolOf[i].tool \in ArtifactTools /\ missed[i] = 0) =>
       \A n \in Rows(i) : \E m \in 1..(Len(Batch(i)) - Len(request[q].body.items)) :
         stored[n].key = Batch(i)[m]
  /\ (Uses(i, "submit_result") /\ request[q].stage = "inserted") => ResultRows(i) # {}

FlightInv == \A q \in Requests, i \in Intents : InFlight(q, i) => Flown(q, i)

\* What was acknowledged is stored.
AckedInv ==
  \A i \in Intents : acked[i] # NULL =>
    /\ ToolOf[i].tool \in InsertTools \cup ArtifactTools => Cardinality(Rows(i)) >= ItemsOf(i)
    /\ Uses(i, "submit_result") => ResultRows(i) # {}

ColumnsInv ==
  /\ column \in [Columns -> Intents \cup {NULL}]
  /\ acked_last \in [Columns -> Intents \cup {NULL}]
  /\ \A c \in Columns : column[c] # acked_last[c] =>
       column[c] \in Intents /\ missed[column[c]] > 0

PointersInv ==
  \A k \in DOMAIN results :
    results[k].superseded_by \in 0..Len(results) /\ results[k].superseded_by # k

StoreInv == OnceInv /\ StoredInv /\ FlightInv /\ AckedInv /\ ColumnsInv /\ PointersInv

AgentInv == ResultsInv /\ CallsInv /\ StoreInv

LEMMA Tables ==
  ASSUME AgentInv
  PROVE  stored \in Seq(StoredRow) /\ results \in Seq(ResultRow)
  BY DEF AgentInv, StoreInv, StoredInv, ResultsInv, MarksInv

LEMMA TimesMono ==
  ASSUME NEW a \in Nat, NEW b \in Nat, NEW c \in Nat, b <= c
  PROVE  a * b <= a * c
<1>1. c - b \in Nat /\ a * c = a * b + a * (c - b)
  OBVIOUS
<1>2. a * (c - b) \in Nat /\ a * b \in Nat
  BY <1>1
<1>3. QED
  BY <1>1, <1>2

\* A step that leaves the requests and what is stored as they are.
LEMMA OnceStill ==
  ASSUME AgentInv, UNCHANGED <<request, stored, results>>,
         \A j \in Intents : Made(j)' \in Nat /\ Made(j)' >= Made(j)
  PROVE  OnceInv'
<1>1. ASSUME NEW j \in Intents
      PROVE  /\ IsFiniteSet(Area(LeftOf(j)'))
             /\ Cardinality(Rows(j)') + Cardinality(ResultRows(j)')
                   + Cardinality(Area(LeftOf(j)')) <= ItemsOf(j) * Made(j)'
  <2>1. Rows(j)' = Rows(j) /\ ResultRows(j)' = ResultRows(j) /\ LeftOf(j)' = LeftOf(j)
    BY DEF Rows, ResultRows, LeftOf, LeftAt
  <2>2. /\ IsFiniteSet(Area(LeftOf(j)))
        /\ Cardinality(Rows(j)) + Cardinality(ResultRows(j)) + Cardinality(Area(LeftOf(j)))
              <= ItemsOf(j) * Made(j)
    BY DEF AgentInv, StoreInv, OnceInv
  <2>3. /\ ItemsOf(j) \in Nat /\ Made(j) \in Nat /\ ItemsOf(j) * Made(j) <= ItemsOf(j) * Made(j)'
        /\ ItemsOf(j) * Made(j) \in Nat /\ ItemsOf(j) * Made(j)' \in Nat
    BY ItemsAreNat, MadeIsBounded, TimesMono DEF AgentInv
  <2>4. /\ Cardinality(Rows(j)) \in Nat /\ Cardinality(ResultRows(j)) \in Nat
        /\ Cardinality(Area(LeftOf(j))) \in Nat
    BY <2>2, Tables, RowsAreFinite, FS_CardinalityType
  <2>5. QED
    BY <2>1, <2>2, <2>3, <2>4
<1>2. QED
  BY <1>1 DEF OnceInv, Area, ItemsOf

\* A step that leaves the rows as they are.
LEMMA StoredStays ==
  ASSUME AgentInv, CallsInv', stored' = stored, \A j \in Intents : missed'[j] >= missed[j]
  PROVE  StoredInv'
<1> USE DEF AgentInv, StoreInv
<1>1. \A j \in Intents : missed[j] \in Nat /\ missed'[j] \in Nat
  BY DEF CallsInv
<1>2. \A n \in DOMAIN stored : stored[n].intent \in Intents
  <2>1. stored \in [1..Len(stored) -> StoredRow]
    BY Tables, LenProperties
  <2>2. QED
    BY <2>1 DEF StoredRow
<1>3. KeysStoredOnce' /\ (\A n \in DOMAIN stored : stored[n].role = "used" => KeyTaken(stored[n].key)')
  BY DEF StoredInv, KeysStoredOnce, KeyTaken
<1>4. SelfUseNeedsRepeat'
  BY <1>1, <1>2 DEF StoredInv, SelfUseNeedsRepeat, NamedTwice
<1>5. QED
  BY <1>3, <1>4 DEF StoredInv, KeyTaken

\* A step that leaves the tables as they are and acknowledges nothing.
LEMMA QuietStep ==
  ASSUME AgentInv, UNCHANGED <<stored, results, column, acked_last, acked>>,
         CallsInv', \A j \in Intents : missed'[j] >= missed[j]
  PROVE  StoredInv' /\ AckedInv' /\ ColumnsInv' /\ PointersInv'
<1> USE DEF AgentInv, StoreInv
<1>1. \A j \in Intents : missed[j] \in Nat /\ missed'[j] \in Nat
  BY DEF CallsInv
<1>2. StoredInv'
  BY StoredStays
<1>3. AckedInv'
  BY DEF AckedInv, Rows, ResultRows
<1>4. ColumnsInv'
  BY <1>1 DEF ColumnsInv
<1>5. PointersInv'
  BY DEF PointersInv
<1>6. QED
  BY <1>2, <1>3, <1>4, <1>5

\* Requests that stay as they are, over rows that stay as they are.
LEMMA FlightStays ==
  ASSUME AgentInv, CallsInv', NEW p \in Requests, NEW i \in Intents, request'[p] = request[p],
         Cardinality(Rows(i)') \in Nat, Cardinality(Rows(i)') >= Cardinality(Rows(i)),
         (ToolOf[i].tool \in ArtifactTools /\ missed[i] = 0)
           => Rows(i)' = Rows(i) /\ \A n \in Rows(i) : stored'[n] = stored[n],
         ResultRows(i) \subseteq ResultRows(i)', missed'[i] >= missed[i], InFlight(p, i)'
  PROVE  Flown(p, i)'
<1>1. missed[i] \in Nat /\ missed'[i] \in Nat
  BY DEF AgentInv, CallsInv
<1>2. InFlight(p, i)
  BY DEF InFlight
<1>3. Flown(p, i)
  BY <1>2 DEF AgentInv, StoreInv, FlightInv
<1>4. ToolOf[i].tool \in ArtifactTools =>
        Cardinality(Rows(i)') + Len(request'[p].body.items) >= ItemsOf(i)
  <2>1. SUFFICES ASSUME ToolOf[i].tool \in ArtifactTools
                 PROVE  Cardinality(Rows(i)') + Len(request[p].body.items) >= ItemsOf(i)
    OBVIOUS
  <2>2. request[p].body.items \in Seq(Contents)
    BY <1>2, <2>1 DEF InFlight, AgentInv, CallsInv, RequestFits, BodyFits
  <2>3. Len(request[p].body.items) \in Nat /\ Cardinality(Rows(i)) \in Nat /\ ItemsOf(i) \in Nat
    BY <2>2, Tables, RowsAreFinite, ItemsAreNat
  <2>4. QED
    BY <1>3, <2>1, <2>3 DEF Flown
<1>5. (ToolOf[i].tool \in ArtifactTools /\ missed'[i] = 0) =>
        \A n \in Rows(i)' : \E m \in 1..(Len(Batch(i)) - Len(request'[p].body.items)) :
          stored'[n].key = Batch(i)[m]
  BY <1>1, <1>3 DEF Flown
<1>6. (Uses(i, "submit_result") /\ request'[p].stage = "inserted") => ResultRows(i)' # {}
  BY <1>3 DEF Flown
<1>7. QED
  BY <1>4, <1>5, <1>6 DEF Flown, ItemsOf, Uses

\* Requests other than the one that is served.
LEMMA OthersFly ==
  ASSUME AgentInv, CallsInv', NEW q \in Requests, NEW i \in Intents, InFlight(q, i),
         \A p \in Requests \ {q} : request'[p] = request[p],
         \A j \in Intents : missed'[j] = missed[j] /\ ResultRows(j) \subseteq ResultRows(j)',
         \A j \in Intents \ {i} : Rows(j)' = Rows(j),
         Cardinality(Rows(i)') \in Nat, Cardinality(Rows(i)') >= Cardinality(Rows(i)),
         \A n \in DOMAIN stored : stored'[n] = stored[n]
  PROVE  \A p \in Requests \ {q}, j \in Intents : InFlight(p, j)' => Flown(p, j)'
<1>1. SUFFICES ASSUME NEW p \in Requests, p # q, NEW j \in Intents, InFlight(p, j)'
               PROVE  Flown(p, j)'
  OBVIOUS
<1>2. request'[p] = request[p] /\ missed[j] \in Nat /\ InFlight(p, j)
  BY <1>1 DEF AgentInv, CallsInv, InFlight
<1>3. \A n \in Rows(j) : stored'[n] = stored[n]
  BY DEF Rows
<1>4. CASE j # i
  <2>1. Rows(j)' = Rows(j) /\ Cardinality(Rows(j)) \in Nat
    BY <1>4, Tables, RowsAreFinite
  <2>2. QED
    BY <1>1, <1>2, <1>3, <2>1, FlightStays
<1>5. CASE j = i
  <2>1. missed[i] > 0
    <3>1. request[p] # NULL /\ request[q] # NULL /\ request[p].intent = i /\ request[q].intent = i
      BY <1>2, <1>5 DEF InFlight
    <3>2. p \notin awaited \/ q \notin awaited
      BY <1>1 DEF AgentInv, CallsInv
    <3>3. QED
      BY <3>1, <3>2 DEF AgentInv, CallsInv
  <2>2. missed[i] # 0
    BY <1>2, <1>5, <2>1
  <2>3. QED
    BY <1>1, <1>2, <1>5, <2>2, FlightStays
<1>6. QED
  BY <1>4, <1>5
-----------------------------------------------------------------------------
(* The steps that store nothing.                                           *)

LEMMA RefusalKeepsStore ==
  ASSUME AgentInv, NEW i \in Intents, RefuseParents(i)
  PROVE  CallsInv' /\ StoreInv'
<1>1. /\ CallsInv' /\ UNCHANGED <<request, acked>>
      /\ \A j \in Intents : /\ Made(j)' >= Made(j) /\ missed'[j] >= missed[j]
                            /\ Made(j)' \in Nat
  BY RefusalKeepsCalls DEF AgentInv
<1>2. UNCHANGED <<stored, results, column, acked_last>>
  BY DEF RefuseParents, table_vars, result_vars
<1>3. OnceInv'
  BY <1>1, <1>2, OnceStill
<1>4. StoredInv' /\ AckedInv' /\ ColumnsInv' /\ PointersInv'
  BY <1>1, <1>2, QuietStep
<1>5. FlightInv'
  <2>1. \A j \in Intents : /\ Rows(j)' = Rows(j) /\ ResultRows(j)' = ResultRows(j)
                            /\ Cardinality(Rows(j)) \in Nat
    BY <1>2, Tables, RowsAreFinite DEF Rows, ResultRows
  <2>2. QED
    BY <1>1, <1>2, <2>1, FlightStays DEF FlightInv
<1>6. QED
  BY <1>1, <1>3, <1>4, <1>5 DEF StoreInv

LEMMA ErrorKeepsStore ==
  ASSUME AgentInv, NEW q \in Requests, Refuses(q) \/ TimeOut(q)
  PROVE  CallsInv' /\ StoreInv'
<1>1. request[q] # NULL /\ (AnswerError(q) \/ GiveUp(q))
  BY DEF Refuses, TimeOut, GiveUp, AgentInv, CallsInv
<1>2. /\ CallsInv' /\ acked' = acked
      /\ \A p \in Requests \ {q} : request'[p] = request[p]
      /\ AnswerError(q) => request'[q] = NULL
      /\ GiveUp(q) => request' = request
      /\ \A j \in Intents : Made(j)' = Made(j) /\ missed'[j] >= missed[j]
  BY <1>1, ErrorKeepsCalls DEF AgentInv
<1>3. UNCHANGED <<stored, results, column, acked_last>>
  BY DEF Refuses, TimeOut, table_vars, result_vars
<1>4. \A j \in Intents : /\ Rows(j)' = Rows(j) /\ ResultRows(j)' = ResultRows(j)
                         /\ Cardinality(Rows(j)) \in Nat
  BY <1>3, Tables, RowsAreFinite DEF Rows, ResultRows
<1>5. \A j \in Intents : LeftAt(request'[q], j) <= LeftAt(request[q], j) /\ Made(j) \in Nat
  <2>1. ASSUME NEW j \in Intents PROVE LeftAt(request[q], j) \in Nat /\ Made(j) \in Nat
    BY LeftIsNat, MadeIsBounded DEF AgentInv, CallsInv
  <2>2. CASE GiveUp(q)
    BY <1>2, <2>1, <2>2
  <2>3. CASE AnswerError(q)
    BY <1>2, <2>1, <2>3 DEF LeftAt
  <2>4. QED
    BY <1>1, <2>2, <2>3
<1>6. OnceInv'
  <2>1. ASSUME NEW j \in Intents
        PROVE  /\ IsFiniteSet(Area(LeftOf(j)'))
               /\ Cardinality(Rows(j)') + Cardinality(ResultRows(j)')
                     + Cardinality(Area(LeftOf(j)')) <= ItemsOf(j) * Made(j)'
    <3>1. Made(j)' \in Nat /\ Made(j)' >= Made(j)
      BY <1>2, <1>5
    <3>2. QED
      BY <1>2, <1>4, <1>5, <3>1, Tables, OnceElsewhere DEF AgentInv, StoreInv
  <2>2. QED
    BY <2>1 DEF OnceInv, Area, ItemsOf
<1>7. StoredInv' /\ AckedInv' /\ ColumnsInv' /\ PointersInv'
  BY <1>2, <1>3, QuietStep
<1>8. FlightInv'
  <2>1. \A p \in Requests : request'[p] = request[p] \/ request'[p] = NULL
    BY <1>1, <1>2
  <2>2. ASSUME NEW p \in Requests, NEW i \in Intents, InFlight(p, i)'
        PROVE  request'[p] = request[p]
    BY <2>1, <2>2 DEF InFlight
  <2>3. QED
    BY <1>2, <1>3, <1>4, <2>2, FlightStays DEF FlightInv
<1>9. QED
  BY <1>2, <1>6, <1>7, <1>8 DEF StoreInv

LEMMA SendKeepsStore ==
  ASSUME AgentInv, NEW q \in Requests, NEW i \in Intents, NEW body, Sends(q, i, body)
  PROVE  CallsInv' /\ StoreInv'
<1>1. body \in Bodies
  BY FitsIsBody DEF Sends
<1>2. [intent |-> i, body |-> body, stage |-> "sent"] # NULL
  <2>1. [intent |-> i, body |-> body, stage |-> "sent"]
          \in [intent : Intents, body : Bodies, stage : {"sent", "inserted"}]
    BY <1>1
  <2>2. QED
    BY <2>1, ToolAssumption DEF ToolAssumption
<1>3. /\ CallsInv' /\ InFlight(q, i)' /\ ~ \E j : InFlight(q, j)
      /\ \A p \in Requests \ {q} : request'[p] = request[p]
      /\ request'[q].body = body /\ request'[q].stage = "sent"
      /\ Made(i)' = 1 + Made(i) /\ \A j \in Intents \ {i} : Made(j)' = Made(j)
  BY <1>2, SendKeepsCalls DEF AgentInv, Sends
<1>4. /\ UNCHANGED <<stored, results, column, acked_last, acked, missed>>
      /\ acked[i] = NULL /\ awaited = {} /\ request[q] = NULL
      /\ request'[q].intent = i /\ request'[q] # NULL
  BY <1>3 DEF Sends, Send, MaySend, MayCall, table_vars, result_vars, InFlight
<1>5. \A j \in Intents : Rows(j)' = Rows(j) /\ ResultRows(j)' = ResultRows(j)
  BY <1>4 DEF Rows, ResultRows
<1>6. \A j \in Intents : /\ Made(j) \in Nat /\ missed[j] \in Nat /\ ItemsOf(j) \in Nat
                         /\ Cardinality(Rows(j)) \in Nat /\ Cardinality(ResultRows(j)) \in Nat
  BY Tables, RowsAreFinite, MadeIsBounded, ItemsAreNat DEF AgentInv
<1>7. LeftAt(request[q], i) = 0 /\ LeftAt(request'[q], i) = ItemsOf(i)
  <2>1. ToolOf[i].tool \in ArtifactTools => body.items = Batch(i)
    BY DEF Sends
  <2>2. QED
    BY <1>3, <1>4, <2>1 DEF LeftAt, ItemsOf
<1>8. OnceInv'
  <2>1. ASSUME NEW j \in Intents
        PROVE  /\ IsFiniteSet(Area(LeftOf(j)'))
               /\ Cardinality(Rows(j)') + Cardinality(ResultRows(j)')
                     + Cardinality(Area(LeftOf(j)')) <= ItemsOf(j) * Made(j)'
    <3>1. CASE j = i
      <4> DEFINE a == Cardinality(Rows(i)) + Cardinality(ResultRows(i))
      <4>1. a \in Nat /\ Made(i)' = Made(i) + 1 /\ ItemsOf(i) * 1 = ItemsOf(i)
        BY <1>3, <1>6
      <4>2. a + LeftAt(request'[q], i) <= a + LeftAt(request[q], i) + ItemsOf(i) * 1
        BY <1>6, <1>7, <4>1
      <4> HIDE DEF a
      <4>3. /\ IsFiniteSet(Area(LeftOf(i)'))
            /\ a + Cardinality(Area(LeftOf(i)')) <= ItemsOf(i) * Made(i)'
        BY <1>3, <4>1, <4>2, OnceAt DEF a, AgentInv, StoreInv
      <4>4. QED
        BY <1>5, <3>1, <4>3 DEF a
    <3>2. CASE j # i
      <4>1. LeftAt(request'[q], j) = 0 /\ LeftAt(request[q], j) = 0
        BY <1>4, <3>2 DEF LeftAt
      <4>2. Made(j)' \in Nat /\ Made(j)' >= Made(j)
        BY <1>3, <1>6, <3>2
      <4>3. QED
        BY <1>3, <1>5, <4>1, <4>2, Tables, OnceElsewhere DEF AgentInv, StoreInv
    <3>3. QED
      BY <3>1, <3>2
  <2>2. QED
    BY <2>1 DEF OnceInv, Area, ItemsOf
<1>9. StoredInv' /\ AckedInv' /\ ColumnsInv' /\ PointersInv'
  <2>1. \A j \in Intents : missed'[j] >= missed[j]
    BY <1>4, <1>6
  <2>2. QED
    BY <1>3, <1>4, <2>1, QuietStep
<1>10. FlightInv'
  <2>1. ASSUME NEW p \in Requests, NEW j \in Intents, InFlight(p, j)', p # q
        PROVE  Flown(p, j)'
    <3>1. request'[p] = request[p] /\ missed'[j] >= missed[j]
      BY <1>3, <1>4, <1>6, <2>1
    <3>2. QED
      BY <1>3, <1>4, <1>5, <1>6, <2>1, <3>1, FlightStays
  <2>2. ASSUME ToolOf[i].tool \in ArtifactTools
        PROVE  /\ Cardinality(Rows(i)') + Len(request'[q].body.items) >= ItemsOf(i)
               /\ missed'[i] = 0 => Rows(i)' = {}
    <3>1. Len(request'[q].body.items) = ItemsOf(i)
      BY <1>3, <2>2 DEF Sends, ItemsOf
    <3>2. ASSUME missed[i] = 0 PROVE Rows(i) = {}
      <4>1. Made(i) = 0
        BY <1>4, <3>2 DEF Made
      <4>2. /\ IsFiniteSet(Area(LeftOf(i)))
            /\ Cardinality(Rows(i)) + Cardinality(ResultRows(i)) + Cardinality(Area(LeftOf(i)))
                  <= ItemsOf(i) * Made(i)
        BY DEF AgentInv, StoreInv, OnceInv
      <4>3. Cardinality(Area(LeftOf(i))) \in Nat /\ ItemsOf(i) * Made(i) = 0
        BY <1>6, <4>1, <4>2, FS_CardinalityType
      <4>4. Cardinality(Rows(i)) = 0
        BY <1>6, <4>2, <4>3
      <4>5. QED
        BY <4>4, Tables, RowsAreFinite, FS_EmptySet
    <3>3. QED
      BY <1>4, <1>5, <1>6, <3>1, <3>2
  <2>3. ASSUME NEW j \in Intents, InFlight(q, j)' PROVE j = i
    BY <1>4, <2>3 DEF InFlight
  <2>4. Flown(q, i)'
    BY <1>3, <2>2 DEF Flown, ItemsOf
  <2>5. QED
    BY <2>1, <2>3, <2>4 DEF FlightInv
<1>11. QED
  BY <1>3, <1>8, <1>9, <1>10 DEF StoreInv
-----------------------------------------------------------------------------
(* The handlers.                                                           *)

LEMMA Served ==
  ASSUME AgentInv, NEW q \in Requests, request[q] # NULL, NEW i, i = request[q].intent
  PROVE  i \in Intents /\ InFlight(q, i) /\ RequestFits(request[q])
  BY DEF AgentInv, CallsInv, RequestFits, InFlight

LEMMA OnceServed ==
  ASSUME AgentInv, CallsInv', NEW q \in Requests, NEW i \in Intents, InFlight(q, i),
         \A p \in Requests \ {q} : request'[p] = request[p],
         request'[q] = NULL \/ request'[q].intent = i,
         \A j \in Intents : Made(j)' = Made(j),
         \A j \in Intents \ {i} : Rows(j)' = Rows(j) /\ ResultRows(j)' = ResultRows(j),
         NEW b \in Nat, b = Cardinality(Rows(i)') + Cardinality(ResultRows(i)'),
         b + LeftAt(request'[q], i)
           <= Cardinality(Rows(i)) + Cardinality(ResultRows(i)) + LeftAt(request[q], i)
  PROVE  OnceInv'
<1>1. ASSUME NEW j \in Intents
      PROVE  /\ IsFiniteSet(Area(LeftOf(j)'))
             /\ Cardinality(Rows(j)') + Cardinality(ResultRows(j)')
                   + Cardinality(Area(LeftOf(j)')) <= ItemsOf(j) * Made(j)'
  <2>1. Made(j) \in Nat /\ ItemsOf(j) \in Nat
    BY MadeIsBounded, ItemsAreNat DEF AgentInv
  <2>2. CASE j = i
    <3> DEFINE a == Cardinality(Rows(i)) + Cardinality(ResultRows(i))
    <3>1. a \in Nat
      BY Tables, RowsAreFinite
    <3>2. LeftAt(request'[q], i) \in Nat /\ LeftAt(request[q], i) \in Nat
      BY LeftIsNat DEF AgentInv, CallsInv
    <3>3. /\ b + LeftAt(request'[q], i) <= a + LeftAt(request[q], i) + ItemsOf(i) * 0
          /\ Made(i)' = Made(i) + 0
      BY <2>1, <2>2, <3>1, <3>2
    <3> HIDE DEF a
    <3>4. /\ IsFiniteSet(Area(LeftOf(i)'))
          /\ b + Cardinality(Area(LeftOf(i)')) <= ItemsOf(i) * Made(i)'
      BY <3>1, <3>3, OnceAt DEF a, AgentInv, StoreInv
    <3>5. QED
      BY <2>2, <3>4
  <2>3. CASE j # i
    <3>1. LeftAt(request'[q], j) = 0 /\ LeftAt(request[q], j) = 0
      BY <2>3 DEF LeftAt, InFlight
    <3>2. Made(j)' \in Nat /\ Made(j)' >= Made(j)
      BY <2>1
    <3>3. Rows(j)' = Rows(j) /\ ResultRows(j)' = ResultRows(j)
      BY <2>3
    <3>4. QED
      BY <3>1, <3>2, <3>3, Tables, OnceElsewhere DEF AgentInv, StoreInv
  <2>4. QED
    BY <2>2, <2>3
<1>2. QED
  BY <1>1 DEF OnceInv, Area, ItemsOf

\* What a row appended to the table may be.
LEMMA AppendKeepsStored ==
  ASSUME AgentInv, NEW row \in StoredRow, stored' = Append(stored, row),
         \A j \in Intents : missed'[j] = missed[j],
         row.role = "produced" => ~KeyTaken(row.key),
         row.role = "used" => KeyTaken(row.key),
         \A n \in DOMAIN stored :
           (/\ row.role = "used" /\ stored[n].role = "produced" /\ stored[n].key = row.key
            /\ stored[n].run = row.run) =>
              \/ stored[n].intent # row.intent
              \/ missed[stored[n].intent] > 0
              \/ NamedTwice(stored[n].intent, stored[n].key)
  PROVE  StoredInv'
<1> USE DEF AgentInv, StoreInv
<1> DEFINE N == Len(stored) + 1
<1>1. /\ DOMAIN stored' = 1..N /\ DOMAIN stored = 1..Len(stored) /\ Len(stored) \in Nat
      /\ stored' \in Seq(StoredRow) /\ stored'[N] = row
      /\ \A n \in DOMAIN stored : stored'[n] = stored[n]
  BY Tables, RowAppended
<1>2. /\ \A n \in DOMAIN stored' : n = N \/ (n \in DOMAIN stored /\ stored'[n] = stored[n])
      /\ N \in DOMAIN stored' /\ N \notin DOMAIN stored
      /\ \A n \in DOMAIN stored : n \in DOMAIN stored' /\ stored[n].intent \in Intents
  <2>1. \A n \in DOMAIN stored : stored[n] \in StoredRow
    BY <1>1, Tables, ElementOfSeq
  <2>2. QED
    BY <1>1, <2>1 DEF StoredRow
<1>3. stored'[N] = row
  BY <1>1
<1> HIDE DEF N
<1>4. KeysStoredOnce'
  <2>1. SUFFICES ASSUME NEW n \in DOMAIN stored', NEW p \in DOMAIN stored',
                        stored'[n].key = stored'[p].key, stored'[n].key # NULL,
                        stored'[n].role = "produced", stored'[p].role = "produced"
                 PROVE  n = p
    BY DEF KeysStoredOnce
  <2>2. CASE n = N \/ p = N
    BY <1>2, <1>3, <2>1, <2>2 DEF KeyTaken
  <2>3. CASE n # N /\ p # N
    BY <1>2, <2>1, <2>3 DEF StoredInv, KeysStoredOnce
  <2>4. QED
    BY <2>2, <2>3
<1>5. ASSUME NEW n \in DOMAIN stored', stored'[n].role = "used"
      PROVE  KeyTaken(stored'[n].key)
  <2>1. CASE n = N
    BY <1>3, <1>5, <2>1
  <2>2. CASE n # N
    BY <1>2, <1>5, <2>2 DEF StoredInv
  <2>3. QED
    BY <2>1, <2>2
<1>6. ASSUME NEW n \in DOMAIN stored', stored'[n].role = "used"
      PROVE  KeyTaken(stored[n].key)'
  <2>1. PICK m \in DOMAIN stored : stored[m].key = stored'[n].key /\ stored[m].role = "produced"
    BY <1>5, <1>6 DEF KeyTaken
  <2>2. stored'[n].key # NULL /\ m \in DOMAIN stored' /\ stored'[m] = stored[m]
    BY <1>1, <1>2, <1>5, <1>6, <2>1 DEF KeyTaken
  <2>3. QED
    BY <2>1, <2>2 DEF KeyTaken
<1>7. SelfUseNeedsRepeat'
  <2>1. SUFFICES ASSUME NEW n \in DOMAIN stored', NEW p \in DOMAIN stored',
                        stored'[n].key = stored'[p].key, stored'[n].run = stored'[p].run,
                        stored'[n].role = "produced", stored'[p].role = "used"
                 PROVE  \/ stored'[n].intent # stored'[p].intent
                        \/ missed'[stored'[n].intent] > 0
                        \/ NamedTwice(stored'[n].intent, stored'[n].key)
    BY DEF SelfUseNeedsRepeat, NamedTwice
  <2>2. n # N
    <3>1. SUFFICES ASSUME n = N PROVE FALSE
      OBVIOUS
    <3>2. KeyTaken(row.key) /\ ~KeyTaken(row.key)
      BY <1>3, <1>5, <2>1, <3>1
    <3>3. QED
      BY <3>2
  <2>3. n \in DOMAIN stored /\ stored'[n] = stored[n] /\ missed'[stored[n].intent] = missed[stored[n].intent]
    BY <1>2, <2>2
  <2>4. CASE p = N
    BY <1>3, <2>1, <2>3, <2>4
  <2>5. CASE p # N
    BY <1>2, <2>1, <2>3, <2>5 DEF StoredInv, SelfUseNeedsRepeat
  <2>6. QED
    BY <2>4, <2>5
<1>8. QED
  BY <1>1, <1>4, <1>6, <1>7 DEF StoredInv, KeyTaken

\* An answer leaves what was acknowledged before, and what the columns hold.
LEMMA OkKeepsRest ==
  ASSUME AgentInv, CallsInv', UNCHANGED <<column, acked_last>>,
         \A j \in Intents : missed'[j] = missed[j]
  PROVE  ColumnsInv'
  BY DEF AgentInv, StoreInv, ColumnsInv

LEMMA InsertKeepsStore ==
  ASSUME AgentInv, NEW q \in Requests, InsertsRow(q), NEW i, i = request[q].intent
  PROVE  CallsInv' /\ StoreInv'
<1> DEFINE row == [intent |-> i, run |-> NULL, key |-> request[q].body.key, role |-> "produced"]
<1>1. /\ request[q] # NULL /\ request[q].stage = "sent" /\ ToolOf[i].tool \in InsertTools
      /\ ~KeyTaken(row.key) /\ stored' = Append(stored, row) /\ AnswerOk(q)
      /\ UNCHANGED <<results, column, acked_last>>
  BY DEF InsertsRow, Handled, At, result_vars
<1>2. i \in Intents /\ InFlight(q, i) /\ RequestFits(request[q])
  BY <1>1, Served
<1>3. ToolOf[i].tool \notin ArtifactTools /\ ToolOf[i].tool # "submit_result"
  BY <1>1 DEF InsertTools, ArtifactTools
<1>4. request[q].body.key \in Slugs \cup {NULL}
  BY <1>1, <1>2 DEF RequestFits, BodyFits
<1>5. row \in StoredRow
  BY <1>2, <1>4 DEF StoredRow
<1>6. row.intent = i /\ row.role = "produced"
  OBVIOUS
<1> HIDE DEF row
<1>7. /\ CallsInv' /\ request'[q] = NULL
      /\ \A p \in Requests \ {q} : request'[p] = request[p]
      /\ \A j \in Intents : Made(j)' = Made(j) /\ missed'[j] = missed[j]
      /\ q \in awaited => acked' = [acked EXCEPT ![i] = request[q].body]
      /\ q \notin awaited => acked' = acked
  BY <1>1, OkKeepsCalls DEF AgentInv
<1>8. StoredInv'
  BY <1>1, <1>5, <1>6, <1>7, AppendKeepsStored
<1>9. /\ \A j \in Intents \ {i} : Rows(j)' = Rows(j)
      /\ Cardinality(Rows(i)') = Cardinality(Rows(i)) + 1
      /\ \A n \in DOMAIN stored : stored'[n] = stored[n]
  BY <1>1, <1>5, <1>6, Tables, RowAppended
<1>10. \A j \in Intents : /\ ResultRows(j)' = ResultRows(j)
                          /\ Cardinality(Rows(j)) \in Nat /\ Cardinality(ResultRows(j)) \in Nat
  BY <1>1, Tables, RowsAreFinite DEF ResultRows
<1>11. OnceInv'
  <2>1. LeftAt(request'[q], i) = 0 /\ LeftAt(request[q], i) = 1
    BY <1>1, <1>3, <1>7 DEF LeftAt
  <2> DEFINE b == Cardinality(Rows(i)') + Cardinality(ResultRows(i)')
  <2>2. /\ b \in Nat
        /\ b + LeftAt(request'[q], i)
             <= Cardinality(Rows(i)) + Cardinality(ResultRows(i)) + LeftAt(request[q], i)
    BY <1>2, <1>9, <1>10, <2>1
  <2> HIDE DEF b
  <2>3. QED
    BY <1>2, <1>7, <1>9, <1>10, <2>2, OnceServed DEF b
<1>12. FlightInv'
  <2>1. Cardinality(Rows(i)') \in Nat /\ Cardinality(Rows(i)') >= Cardinality(Rows(i))
    BY <1>2, <1>9, <1>10
  <2>2. \A p \in Requests \ {q}, j \in Intents : InFlight(p, j)' => Flown(p, j)'
    BY <1>2, <1>7, <1>9, <1>10, <2>1, OthersFly
  <2>3. \A j : ~InFlight(q, j)'
    BY <1>7 DEF InFlight
  <2>4. QED
    BY <2>2, <2>3 DEF FlightInv
<1>13. AckedInv'
  <2>1. SUFFICES ASSUME NEW j \in Intents, acked'[j] # NULL
                 PROVE  /\ ToolOf[j].tool \in InsertTools \cup ArtifactTools
                             => Cardinality(Rows(j)') >= ItemsOf(j)
                        /\ Uses(j, "submit_result") => ResultRows(j)' # {}
    BY DEF AckedInv, ItemsOf, Uses
  <2>2. CASE j = i
    BY <1>2, <1>3, <1>9, <1>10, <2>2 DEF ItemsOf, Uses
  <2>3. CASE j # i
    BY <1>2, <1>7, <1>9, <1>10, <2>1, <2>3 DEF AgentInv, StoreInv, AckedInv, CallsInv
  <2>4. QED
    BY <2>2, <2>3
<1>14. ColumnsInv' /\ PointersInv'
  BY <1>1, <1>7, OkKeepsRest DEF PointersInv, AgentInv, StoreInv
<1>15. QED
  BY <1>7, <1>8, <1>11, <1>12, <1>13, <1>14 DEF StoreInv

\* What is left of a batch after its first item.
LEMMA RestOfRest ==
  ASSUME NEW S, NEW t \in Seq(S), NEW s \in Seq(S), Rest(s, t)
  PROVE  /\ Head(s) = t[Len(t) - Len(s) + 1] /\ Head(s) \in S
         /\ Len(s) # 1 => /\ Rest(Tail(s), t) /\ Tail(s) \in Seq(S)
                          /\ Len(Tail(s)) = Len(s) - 1
<1>1. Len(s) \in 1..Len(t) /\ Len(t) \in Nat /\ \A n \in 1..Len(s) : s[n] = t[Len(t) - Len(s) + n]
  BY DEF Rest
<1>2. s # <<>>
  BY <1>1, EmptySeq
<1>3. /\ Head(s) \in S /\ Tail(s) \in Seq(S) /\ Len(Tail(s)) = Len(s) - 1
      /\ \A n \in 1..Len(Tail(s)) : Tail(s)[n] = s[n + 1]
  BY <1>2, HeadTailProperties
<1>4. Head(s) = s[1]
  BY <1>2
<1>5. Head(s) = t[Len(t) - Len(s) + 1]
  BY <1>1, <1>4
<1>6. ASSUME Len(s) # 1 PROVE Rest(Tail(s), t)
  <2>1. Len(Tail(s)) \in 1..Len(t)
    BY <1>1, <1>3, <1>6
  <2>2. ASSUME NEW n \in 1..Len(Tail(s))
        PROVE  Tail(s)[n] = t[Len(t) - Len(Tail(s)) + n]
    <3>1. /\ n \in Int /\ n + 1 \in 1..Len(s)
          /\ Len(t) - (Len(s) - 1) + n = Len(t) - Len(s) + (n + 1)
      BY <1>1, <1>3
    <3>2. s[n + 1] = t[Len(t) - Len(s) + (n + 1)]
      BY <1>1, <3>1
    <3>3. QED
      BY <1>3, <3>1, <3>2
  <2>3. QED
    BY <2>1, <2>2 DEF Rest
<1>7. QED
  BY <1>3, <1>5, <1>6

LEMMA ItemKeepsStore ==
  ASSUME AgentInv, NEW q \in Requests, RegisterItem(q), NEW i, i = request[q].intent,
         NEW items, items = request[q].body.items
  PROVE  CallsInv' /\ StoreInv'
<1> DEFINE row == [intent |-> i, run |-> ToolOf[i].run_id, key |-> Head(items),
                   role |-> IF KeyTaken(Head(items)) THEN "used" ELSE "produced"]
           r == [request[q] EXCEPT !.body.items = Tail(items)]
<1>1. /\ request[q] # NULL /\ request[q].stage = "sent" /\ ToolOf[i].tool \in ArtifactTools
      /\ stored' = Append(stored, row)
      /\ IF Len(items) = 1 THEN AnswerOk(q) ELSE Continue(q, r)
      /\ UNCHANGED <<results, column, acked_last>>
  BY DEF RegisterItem, Handled, At, result_vars
<1>2. i \in Intents /\ InFlight(q, i) /\ RequestFits(request[q]) /\ Flown(q, i)
  BY <1>1, Served DEF AgentInv, StoreInv, FlightInv
<1>3. /\ ToolOf[i].tool # "submit_result" /\ ToolOf[i].tool \notin InsertTools
      /\ ToolOf[i].tool \notin OverwriteTools /\ ToolOf[i].tool \notin ResultTools
      /\ ToolOf[i].tool \in Tools
  BY <1>1 DEF InsertTools, ArtifactTools, OverwriteTools, ResultTools, Tools
<1>4. items \in Seq(Contents) /\ Rest(items, Batch(i)) /\ request[q].body \in [items : Seq(Contents)]
  BY <1>1, <1>2 DEF RequestFits, BodyFits
<1>5. Batch(i) \in Seq(Contents)
  BY <1>1, <1>2, BatchFits
<1>6. /\ Head(items) = Batch(i)[Len(Batch(i)) - Len(items) + 1] /\ Head(items) \in Contents
      /\ Len(items) # 1 => /\ Rest(Tail(items), Batch(i)) /\ Tail(items) \in Seq(Contents)
                           /\ Len(Tail(items)) = Len(items) - 1
  BY <1>4, <1>5, RestOfRest
<1>7. Len(items) \in 1..Len(Batch(i)) /\ Len(Batch(i)) \in Nat
  BY <1>4, <1>5 DEF Rest
<1>8. /\ row \in StoredRow /\ row.intent = i /\ row.key = Head(items)
      /\ row.role = "produced" => ~KeyTaken(Head(items))
      /\ row.role = "used" => KeyTaken(Head(items))
  BY <1>1, <1>2, <1>6 DEF StoredRow
<1> HIDE DEF row
<1>9. ASSUME Len(items) # 1
      PROVE  /\ RequestFits(r) /\ r # NULL /\ r.intent = i /\ r.body.items = Tail(items)
             /\ r.stage = "sent"
  <2>1. r.intent = i /\ r.stage = "sent" /\ r.body = [request[q].body EXCEPT !.items = Tail(items)]
    BY <1>1, <1>2 DEF RequestFits
  <2>2. r.body \in [items : Seq(Contents)] /\ r.body.items = Tail(items)
    BY <1>4, <1>6, <1>9, <2>1
  <2>3. BodyFits(i, "sent", r.body)
    BY <1>3, <1>6, <1>9, <2>2 DEF BodyFits
  <2>4. r.body \in Bodies
    BY <2>2 DEF Bodies
  <2>5. r \in [intent : Intents, body : Bodies, stage : {"sent", "inserted"}]
    BY <1>2, <2>4 DEF RequestFits
  <2>6. r # NULL
    BY <2>5, ToolAssumption DEF ToolAssumption
  <2>7. QED
    BY <1>3, <2>1, <2>2, <2>3, <2>5, <2>6 DEF RequestFits
<1> HIDE DEF r
<1>10. /\ CallsInv'
       /\ \A p \in Requests \ {q} : request'[p] = request[p]
       /\ \A j \in Intents : Made(j)' = Made(j) /\ missed'[j] = missed[j]
       /\ \A j \in Intents \ {i} : acked'[j] = acked[j]
       /\ Len(items) = 1 => request'[q] = NULL
       /\ Len(items) # 1 => request'[q] = r /\ acked' = acked
  <2>1. CASE Len(items) = 1
    BY <1>1, <1>2, <2>1, OkKeepsCalls DEF AgentInv, CallsInv
  <2>2. CASE Len(items) # 1
    BY <1>1, <1>2, <1>9, <2>2, ContinueKeepsCalls DEF AgentInv
  <2>3. QED
    BY <2>1, <2>2
<1>11. StoredInv'
  <2>1. ASSUME NEW n \in DOMAIN stored, stored[n].key = Head(items), stored[n].intent = i,
               missed[i] = 0
        PROVE  NamedTwice(i, Head(items))
    <3>1. n \in Rows(i)
      BY <2>1 DEF Rows
    <3>2. PICK m \in 1..(Len(Batch(i)) - Len(items)) : stored[n].key = Batch(i)[m]
      BY <1>1, <1>2, <2>1, <3>1 DEF Flown
    <3>3. /\ m \in 1..Len(Batch(i)) /\ Len(Batch(i)) - Len(items) + 1 \in 1..Len(Batch(i))
          /\ m # Len(Batch(i)) - Len(items) + 1
      BY <1>7, <3>2
    <3>4. DOMAIN Batch(i) = 1..Len(Batch(i))
      BY <1>5
    <3>5. QED
      BY <1>6, <2>1, <3>2, <3>3, <3>4 DEF NamedTwice
  <2>2. missed[i] \in Nat
    BY <1>2 DEF AgentInv, CallsInv
  <2>3. \A n \in DOMAIN stored : (stored[n].key = row.key /\ stored[n].intent = i) =>
          missed[i] > 0 \/ NamedTwice(i, Head(items))
    BY <1>8, <2>1, <2>2
  <2>4. QED
    BY <1>1, <1>8, <1>10, <2>3, AppendKeepsStored
<1>12. /\ \A j \in Intents \ {i} : Rows(j)' = Rows(j)
       /\ Cardinality(Rows(i)') = Cardinality(Rows(i)) + 1
       /\ Rows(i)' = Rows(i) \cup {Len(stored) + 1} /\ stored'[Len(stored) + 1] = row
       /\ \A n \in DOMAIN stored : stored'[n] = stored[n]
  BY <1>1, <1>8, Tables, RowAppended
<1>13. \A j \in Intents : /\ ResultRows(j)' = ResultRows(j)
                          /\ Cardinality(Rows(j)) \in Nat /\ Cardinality(ResultRows(j)) \in Nat
  BY <1>1, Tables, RowsAreFinite DEF ResultRows
<1>14. OnceInv'
  <2>1. LeftAt(request'[q], i) = Len(items) - 1 /\ LeftAt(request[q], i) = Len(items)
    <3>1. LeftAt(request[q], i) = Len(items)
      BY <1>1 DEF LeftAt
    <3>2. CASE Len(items) = 1
      BY <1>10, <3>1, <3>2 DEF LeftAt
    <3>3. CASE Len(items) # 1
      BY <1>1, <1>6, <1>9, <1>10, <3>1, <3>3 DEF LeftAt
    <3>4. QED
      BY <3>2, <3>3
  <2> DEFINE b == Cardinality(Rows(i)') + Cardinality(ResultRows(i)')
  <2>2. /\ b \in Nat
        /\ b + LeftAt(request'[q], i)
             <= Cardinality(Rows(i)) + Cardinality(ResultRows(i)) + LeftAt(request[q], i)
    BY <1>2, <1>7, <1>12, <1>13, <2>1
  <2>3. request'[q] = NULL \/ request'[q].intent = i
    BY <1>9, <1>10
  <2> HIDE DEF b
  <2>4. QED
    BY <1>2, <1>10, <1>12, <1>13, <2>2, <2>3, OnceServed DEF b
<1>15. FlightInv'
  <2>1. Cardinality(Rows(i)') \in Nat /\ Cardinality(Rows(i)') >= Cardinality(Rows(i))
    BY <1>2, <1>12, <1>13
  <2>2. \A p \in Requests \ {q}, j \in Intents : InFlight(p, j)' => Flown(p, j)'
    BY <1>2, <1>10, <1>12, <1>13, <2>1, OthersFly
  <2>3. ASSUME NEW j \in Intents, InFlight(q, j)' PROVE Flown(q, j)'
    <3>1. Len(items) # 1 /\ request'[q] = r /\ j = i /\ r.body.items = Tail(items)
      BY <1>9, <1>10, <2>3 DEF InFlight
    <3>2. Cardinality(Rows(i)) + Len(items) >= ItemsOf(i) /\ ItemsOf(i) \in Nat
      BY <1>1, <1>2, ItemsAreNat DEF Flown
    <3>3. Cardinality(Rows(i)') + Len(request'[q].body.items) >= ItemsOf(i)
      BY <1>2, <1>6, <1>7, <1>12, <1>13, <3>1, <3>2
    <3>4. ASSUME missed'[i] = 0, NEW n \in Rows(i)'
          PROVE  \E m \in 1..(Len(Batch(i)) - Len(Tail(items))) : stored'[n].key = Batch(i)[m]
      <4>1. Len(Batch(i)) - Len(Tail(items)) = Len(Batch(i)) - Len(items) + 1
        <5>1. Len(Tail(items)) = Len(items) - 1
          BY <1>6, <3>1
        <5>2. Len(Batch(i)) - (Len(items) - 1) = Len(Batch(i)) - Len(items) + 1
          BY <1>7
        <5>3. QED
          BY <5>1, <5>2
      <4>2. CASE n = Len(stored) + 1
        <5>1. stored'[n].key = Batch(i)[Len(Batch(i)) - Len(items) + 1]
          BY <1>6, <1>8, <1>12, <4>2
        <5>2. Len(Batch(i)) - Len(items) + 1 \in 1..(Len(Batch(i)) - Len(items) + 1)
          BY <1>7
        <5>3. QED
          BY <4>1, <5>1, <5>2
      <4>3. CASE n # Len(stored) + 1
        <5>1. n \in Rows(i) /\ stored'[n] = stored[n] /\ missed[i] = 0
          BY <1>2, <1>10, <1>12, <3>4, <4>3 DEF Rows
        <5>2. PICK m \in 1..(Len(Batch(i)) - Len(items)) : stored[n].key = Batch(i)[m]
          BY <1>1, <1>2, <5>1 DEF Flown
        <5>3. m \in 1..(Len(Batch(i)) - Len(items) + 1)
          BY <1>7
        <5>4. QED
          BY <4>1, <5>1, <5>2, <5>3
      <4>4. QED
        BY <4>2, <4>3
    <3>5. QED
      BY <1>3, <3>1, <3>3, <3>4 DEF Flown, ItemsOf, Uses
  <2>4. QED
    BY <2>2, <2>3 DEF FlightInv
<1>16. AckedInv'
  <2>1. SUFFICES ASSUME NEW j \in Intents, acked'[j] # NULL
                 PROVE  /\ ToolOf[j].tool \in InsertTools \cup ArtifactTools
                             => Cardinality(Rows(j)') >= ItemsOf(j)
                        /\ Uses(j, "submit_result") => ResultRows(j)' # {}
    BY DEF AckedInv, ItemsOf, Uses
  <2>2. CASE j = i
    <3>1. Cardinality(Rows(i)) + Len(items) >= ItemsOf(i) /\ ItemsOf(i) \in Nat
      BY <1>1, <1>2, ItemsAreNat DEF Flown
    <3>2. CASE Len(items) = 1
      BY <1>2, <1>3, <1>12, <1>13, <2>2, <3>1, <3>2 DEF Uses
    <3>3. CASE Len(items) # 1
      <4>1. Cardinality(Rows(i)) >= ItemsOf(i)
        BY <1>1, <1>2, <1>10, <2>1, <2>2, <3>3 DEF AgentInv, StoreInv, AckedInv
      <4>2. Cardinality(Rows(i)') >= ItemsOf(i)
        BY <1>2, <1>12, <1>13, <3>1, <4>1
      <4>3. QED
        BY <1>3, <2>2, <4>2 DEF Uses
    <3>4. QED
      BY <3>2, <3>3
  <2>3. CASE j # i
    BY <1>2, <1>10, <1>12, <1>13, <2>1, <2>3 DEF AgentInv, StoreInv, AckedInv
  <2>4. QED
    BY <2>2, <2>3
<1>17. ColumnsInv' /\ PointersInv'
  BY <1>1, <1>10, OkKeepsRest DEF PointersInv, AgentInv, StoreInv
<1>18. QED
  BY <1>10, <1>11, <1>14, <1>15, <1>16, <1>17 DEF StoreInv

LEMMA WriteKeepsStore ==
  ASSUME AgentInv, NEW q \in Requests, Writes(q), NEW i, i = request[q].intent
  PROVE  CallsInv' /\ StoreInv'
<1> DEFINE given == request[q].body.columns
<1>1. /\ request[q] # NULL /\ request[q].stage = "sent" /\ ToolOf[i].tool \in OverwriteTools
      /\ column' = [c \in Columns |-> IF c \in given THEN i ELSE column[c]]
      /\ acked_last' = [c \in Columns |->
                         IF c \in given /\ q \in awaited THEN i ELSE acked_last[c]]
      /\ AnswerOk(q) /\ UNCHANGED <<results, stored>>
  BY DEF Writes, Handled, At, result_vars
<1> HIDE DEF given
<1>2. i \in Intents /\ InFlight(q, i)
  BY <1>1, Served
<1>3. /\ ToolOf[i].tool \notin ArtifactTools \cup InsertTools /\ ToolOf[i].tool # "submit_result"
  BY <1>1 DEF InsertTools, ArtifactTools, OverwriteTools
<1>4. /\ CallsInv' /\ request'[q] = NULL
      /\ \A p \in Requests \ {q} : request'[p] = request[p]
      /\ \A j \in Intents : Made(j)' = Made(j) /\ missed'[j] = missed[j]
      /\ q \in awaited => acked' = [acked EXCEPT ![i] = request[q].body]
      /\ q \notin awaited => acked' = acked
  BY <1>1, OkKeepsCalls DEF AgentInv
<1>5. \A j \in Intents : /\ Rows(j)' = Rows(j) /\ ResultRows(j)' = ResultRows(j)
                         /\ Cardinality(Rows(j)) \in Nat /\ Cardinality(ResultRows(j)) \in Nat
  BY <1>1, Tables, RowsAreFinite DEF Rows, ResultRows
<1>6. StoredInv'
  <2>1. \A j \in Intents : missed'[j] >= missed[j]
    BY <1>4 DEF AgentInv, CallsInv
  <2>2. QED
    BY <1>1, <1>4, <2>1, StoredStays
<1>7. OnceInv'
  <2>1. LeftAt(request'[q], i) = 0 /\ LeftAt(request[q], i) = 1
    BY <1>1, <1>3, <1>4 DEF LeftAt
  <2> DEFINE b == Cardinality(Rows(i)') + Cardinality(ResultRows(i)')
  <2>2. /\ b \in Nat
        /\ b + LeftAt(request'[q], i)
             <= Cardinality(Rows(i)) + Cardinality(ResultRows(i)) + LeftAt(request[q], i)
    BY <1>2, <1>5, <2>1
  <2> HIDE DEF b
  <2>3. QED
    BY <1>2, <1>4, <1>5, <2>2, OnceServed DEF b
<1>8. FlightInv'
  <2>1. Cardinality(Rows(i)') \in Nat /\ Cardinality(Rows(i)') >= Cardinality(Rows(i))
    BY <1>2, <1>5
  <2>2. \A p \in Requests \ {q}, j \in Intents : InFlight(p, j)' => Flown(p, j)'
    BY <1>1, <1>2, <1>4, <1>5, <2>1, OthersFly
  <2>3. \A j : ~InFlight(q, j)'
    BY <1>4 DEF InFlight
  <2>4. QED
    BY <2>2, <2>3 DEF FlightInv
<1>9. AckedInv'
  <2>1. SUFFICES ASSUME NEW j \in Intents, acked'[j] # NULL
                 PROVE  /\ ToolOf[j].tool \in InsertTools \cup ArtifactTools
                             => Cardinality(Rows(j)') >= ItemsOf(j)
                        /\ Uses(j, "submit_result") => ResultRows(j)' # {}
    BY DEF AckedInv, ItemsOf, Uses
  <2>2. CASE j = i
    BY <1>3, <2>2 DEF Uses
  <2>3. CASE j # i
    BY <1>2, <1>4, <1>5, <2>1, <2>3 DEF AgentInv, StoreInv, AckedInv, CallsInv
  <2>4. QED
    BY <2>2, <2>3
<1>10. ColumnsInv'
  <2>1. /\ column \in [Columns -> Intents \cup {NULL}]
        /\ acked_last \in [Columns -> Intents \cup {NULL}]
    BY DEF AgentInv, StoreInv, ColumnsInv
  <2>2. /\ column' \in [Columns -> Intents \cup {NULL}]
        /\ acked_last' \in [Columns -> Intents \cup {NULL}]
    BY <1>1, <1>2, <2>1
  <2>3. q \notin awaited => missed[i] > 0
    BY <1>1 DEF AgentInv, CallsInv
  <2>4. ASSUME NEW c \in Columns, column'[c] # acked_last'[c]
        PROVE  column'[c] \in Intents /\ missed'[column'[c]] > 0
    <3>1. CASE c \in given
      <4>1. column'[c] = i /\ q \notin awaited
        BY <1>1, <2>4, <3>1
      <4>2. QED
        BY <1>2, <1>4, <2>3, <4>1
    <3>2. CASE c \notin given
      <4>1. column'[c] = column[c] /\ acked_last'[c] = acked_last[c]
        BY <1>1, <3>2
      <4>2. column[c] \in Intents /\ missed[column[c]] > 0
        BY <2>4, <4>1 DEF AgentInv, StoreInv, ColumnsInv
      <4>3. QED
        BY <1>4, <4>1, <4>2
    <3>3. QED
      BY <3>1, <3>2
  <2>5. QED
    BY <2>2, <2>4 DEF ColumnsInv
<1>11. PointersInv'
  BY <1>1 DEF PointersInv, AgentInv, StoreInv
<1>12. QED
  BY <1>4, <1>6, <1>7, <1>8, <1>9, <1>10, <1>11 DEF StoreInv

LEMMA SubmitKeepsStore ==
  ASSUME AgentInv, NEW q \in Requests, InsertResult(q), UNCHANGED table_vars,
         NEW i, i = request[q].intent
  PROVE  CallsInv' /\ StoreInv'
<1> DEFINE r == [request[q] EXCEPT !.stage = "inserted", !.body.by = Len(results) + 1]
<1>1. /\ request[q] # NULL /\ request[q].stage = "sent" /\ ToolOf[i].tool = "submit_result"
      /\ results' = Append(results, InsertedRow(i))
      /\ IF request[q].body.result_id = 0 THEN AnswerOk(q) ELSE Continue(q, r)
      /\ UNCHANGED <<stored, column, acked_last>>
  BY DEF InsertResult, Handles, At, Uses, table_vars
<1>2. i \in Intents /\ InFlight(q, i) /\ RequestFits(request[q])
  BY <1>1, Served
<1>3. /\ ToolOf[i].tool \notin ArtifactTools /\ ToolOf[i].tool \notin InsertTools
      /\ ToolOf[i].tool \notin OverwriteTools /\ ToolOf[i].tool \in ResultTools
  BY <1>1 DEF InsertTools, ArtifactTools, OverwriteTools, ResultTools
<1>4. request[q].body \in [result_id : Nat, by : Nat]
  BY <1>2, <1>3 DEF RequestFits, BodyFits
<1>5. InsertedRow(i) \in ResultRow /\ InsertedRow(i).intent = i
  BY <1>1, <1>2, ResultAssumption DEF ResultAssumption, InsertedRow, ResultRow
<1>6. Len(results) \in Nat /\ results \in Seq(ResultRow)
  BY Tables
<1>7. RequestFits(r) /\ r # NULL /\ r.intent = i /\ r.stage = "inserted"
  <2>1. /\ r.intent = i /\ r.stage = "inserted"
        /\ r.body = [request[q].body EXCEPT !.by = Len(results) + 1]
    BY <1>1, <1>2 DEF RequestFits
  <2>2. r.body \in [result_id : Nat, by : Nat]
    BY <1>4, <1>6, <2>1
  <2>3. r.body \in Bodies
    BY <2>2 DEF Bodies
  <2>4. r \in [intent : Intents, body : Bodies, stage : {"sent", "inserted"}]
    BY <1>2, <2>3 DEF RequestFits
  <2>5. BodyFits(i, "inserted", r.body) /\ ToolOf[i].tool \in Tools
    BY <1>3, <2>2 DEF BodyFits, Tools
  <2>6. r # NULL
    BY <2>4, ToolAssumption DEF ToolAssumption
  <2>7. QED
    BY <2>1, <2>4, <2>5, <2>6 DEF RequestFits
<1> HIDE DEF r
<1>8. /\ CallsInv' /\ (request'[q] = NULL \/ request'[q] = r)
      /\ \A p \in Requests \ {q} : request'[p] = request[p]
      /\ \A j \in Intents : Made(j)' = Made(j) /\ missed'[j] = missed[j]
      /\ \A j \in Intents \ {i} : acked'[j] = acked[j]
  <2>1. CASE request[q].body.result_id = 0
    BY <1>1, <1>2, <2>1, OkKeepsCalls DEF AgentInv, CallsInv
  <2>2. CASE request[q].body.result_id # 0
    BY <1>1, <1>7, <2>2, ContinueKeepsCalls DEF AgentInv
  <2>3. QED
    BY <2>1, <2>2
<1>9. \A j \in Intents : /\ Rows(j)' = Rows(j)
                         /\ Cardinality(Rows(j)) \in Nat /\ Cardinality(ResultRows(j)) \in Nat
  BY <1>1, Tables, RowsAreFinite DEF Rows
<1>10. /\ Cardinality(ResultRows(i)') = Cardinality(ResultRows(i)) + 1 /\ ResultRows(i)' # {}
       /\ \A j \in Intents \ {i} : ResultRows(j)' = ResultRows(j)
       /\ \A j \in Intents : ResultRows(j) \subseteq ResultRows(j)'
  <2>1. ASSUME NEW j
        PROVE  /\ j = i => Cardinality(ResultRows(j)') = Cardinality(ResultRows(j)) + 1
               /\ j # i => ResultRows(j)' = ResultRows(j)
               /\ j = i => ResultRows(j)' # {}
               /\ ResultRows(j) \subseteq ResultRows(j)'
    <3> DEFINE row == InsertedRow(i)
    <3>1. row \in ResultRow /\ row.intent = i /\ results' = Append(results, row)
      BY <1>1, <1>5
    <3> HIDE DEF row
    <3>2. QED
      BY <1>6, <3>1, ResultAppended
  <2>2. QED
    BY <2>1
<1>11. StoredInv'
  <2>1. \A j \in Intents : missed'[j] >= missed[j]
    BY <1>8 DEF AgentInv, CallsInv
  <2>2. QED
    BY <1>1, <1>8, <2>1, StoredStays
<1>12. OnceInv'
  <2>1. LeftAt(request'[q], i) = 0 /\ LeftAt(request[q], i) = 1
    BY <1>1, <1>3, <1>7, <1>8 DEF LeftAt
  <2> DEFINE b == Cardinality(Rows(i)') + Cardinality(ResultRows(i)')
  <2>2. /\ b \in Nat
        /\ b + LeftAt(request'[q], i)
             <= Cardinality(Rows(i)) + Cardinality(ResultRows(i)) + LeftAt(request[q], i)
    BY <1>2, <1>9, <1>10, <2>1
  <2>3. request'[q] = NULL \/ request'[q].intent = i
    BY <1>7, <1>8
  <2> HIDE DEF b
  <2>4. QED
    BY <1>2, <1>8, <1>9, <1>10, <2>2, <2>3, OnceServed DEF b
<1>13. FlightInv'
  <2>1. Cardinality(Rows(i)') \in Nat /\ Cardinality(Rows(i)') >= Cardinality(Rows(i))
    BY <1>2, <1>9
  <2>2. \A p \in Requests \ {q}, j \in Intents : InFlight(p, j)' => Flown(p, j)'
    BY <1>1, <1>2, <1>8, <1>9, <1>10, <2>1, OthersFly
  <2>3. ASSUME NEW j \in Intents, InFlight(q, j)' PROVE Flown(q, j)'
    <3>1. j = i
      BY <1>7, <1>8, <2>3 DEF InFlight
    <3>2. QED
      BY <1>3, <1>10, <3>1 DEF Flown, Uses
  <2>4. QED
    BY <2>2, <2>3 DEF FlightInv
<1>14. AckedInv'
  <2>1. SUFFICES ASSUME NEW j \in Intents, acked'[j] # NULL
                 PROVE  /\ ToolOf[j].tool \in InsertTools \cup ArtifactTools
                             => Cardinality(Rows(j)') >= ItemsOf(j)
                        /\ Uses(j, "submit_result") => ResultRows(j)' # {}
    BY DEF AckedInv, ItemsOf, Uses
  <2>2. CASE j = i
    BY <1>3, <1>10, <2>2 DEF Uses
  <2>3. CASE j # i
    BY <1>8, <1>9, <1>10, <2>1, <2>3 DEF AgentInv, StoreInv, AckedInv
  <2>4. QED
    BY <2>2, <2>3
<1>15. ColumnsInv'
  BY <1>1, <1>8, OkKeepsRest
<1>16. PointersInv'
  <2> DEFINE n == Len(results) + 1
  <2>1. /\ DOMAIN results' = 1..n /\ DOMAIN results = 1..(n - 1) /\ n \in Nat /\ n # 0
        /\ results'[n].superseded_by = 0 /\ Len(results') = n
        /\ \A k \in DOMAIN results : results'[k] = results[k]
    BY <1>1, <1>5, <1>6 DEF InsertedRow
  <2>2. \A k \in DOMAIN results :
          results[k].superseded_by \in 0..(n - 1) /\ results[k].superseded_by # k
    BY DEF AgentInv, StoreInv, PointersInv
  <2> HIDE DEF n
  <2>3. QED
    BY <2>1, <2>2 DEF PointersInv
<1>17. QED
  BY <1>8, <1>11, <1>12, <1>13, <1>14, <1>15, <1>16 DEF StoreInv

LEMMA MarkKeepsStore ==
  ASSUME AgentInv, NEW q \in Requests, Marks(q), NEW i, i = request[q].intent
  PROVE  CallsInv' /\ StoreInv'
<1> DEFINE k == request[q].body.result_id  by == request[q].body.by
<1>1. /\ request[q] # NULL /\ ToolOf[i].tool \in ResultTools
      /\ Uses(i, "submit_result") => request[q].stage = "inserted"
      /\ MayMark(k, by) /\ Mark(k, by) /\ AnswerOk(q)
      /\ UNCHANGED <<stored, column, acked_last>>
  BY DEF Marks, table_vars
<1> HIDE DEF k, by
<1>2. i \in Intents /\ InFlight(q, i) /\ Flown(q, i)
  BY <1>1, Served DEF AgentInv, StoreInv, FlightInv
<1>3. ToolOf[i].tool \notin ArtifactTools \cup InsertTools
  BY <1>1 DEF InsertTools, ArtifactTools, ResultTools
<1>4. /\ CallsInv' /\ request'[q] = NULL
      /\ \A p \in Requests \ {q} : request'[p] = request[p]
      /\ \A j \in Intents : Made(j)' = Made(j) /\ missed'[j] = missed[j]
      /\ q \in awaited => acked' = [acked EXCEPT ![i] = request[q].body]
      /\ q \notin awaited => acked' = acked
  BY <1>1, OkKeepsCalls DEF AgentInv
<1>5. results \in Seq(ResultRow) /\ k # by /\ k \in DOMAIN results /\ by \in DOMAIN results
  BY <1>1, Tables DEF MayMark
<1>6. /\ DOMAIN results' = DOMAIN results /\ Len(results') = Len(results)
      /\ \A n \in DOMAIN results : n # k => results'[n] = results[n]
      /\ results'[k] = [results[k] EXCEPT !.superseded_by = by]
  BY <1>1, <1>5 DEF Mark
<1>7. results[k] \in ResultRow
  BY <1>5, ElementOfSeq
<1>8. results'[k].superseded_by = by /\ results'[k].intent = results[k].intent
  BY <1>6, <1>7 DEF ResultRow
<1>9. \A j \in Intents : /\ Rows(j)' = Rows(j) /\ ResultRows(j)' = ResultRows(j)
                         /\ Cardinality(Rows(j)) \in Nat /\ Cardinality(ResultRows(j)) \in Nat
  <2>1. \A j \in Intents : ResultRows(j)' = ResultRows(j)
    BY <1>6, <1>8 DEF ResultRows
  <2>2. QED
    BY <1>1, <2>1, Tables, RowsAreFinite DEF Rows
<1>10. StoredInv'
  <2>1. \A j \in Intents : missed'[j] >= missed[j]
    BY <1>4 DEF AgentInv, CallsInv
  <2>2. QED
    BY <1>1, <1>4, <2>1, StoredStays
<1>11. OnceInv'
  <2>1. LeftAt(request'[q], i) = 0 /\ LeftAt(request[q], i) \in Nat
    BY <1>2, <1>4, LeftIsNat DEF LeftAt, AgentInv, CallsInv
  <2> DEFINE b == Cardinality(Rows(i)') + Cardinality(ResultRows(i)')
  <2>2. /\ b \in Nat
        /\ b + LeftAt(request'[q], i)
             <= Cardinality(Rows(i)) + Cardinality(ResultRows(i)) + LeftAt(request[q], i)
    BY <1>2, <1>9, <2>1
  <2> HIDE DEF b
  <2>3. QED
    BY <1>2, <1>4, <1>9, <2>2, OnceServed DEF b
<1>12. FlightInv'
  <2>1. Cardinality(Rows(i)') \in Nat /\ Cardinality(Rows(i)') >= Cardinality(Rows(i))
    BY <1>2, <1>9
  <2>2. \A p \in Requests \ {q}, j \in Intents : InFlight(p, j)' => Flown(p, j)'
    BY <1>1, <1>2, <1>4, <1>9, <2>1, OthersFly
  <2>3. \A j : ~InFlight(q, j)'
    BY <1>4 DEF InFlight
  <2>4. QED
    BY <2>2, <2>3 DEF FlightInv
<1>13. AckedInv'
  <2>1. SUFFICES ASSUME NEW j \in Intents, acked'[j] # NULL
                 PROVE  /\ ToolOf[j].tool \in InsertTools \cup ArtifactTools
                             => Cardinality(Rows(j)') >= ItemsOf(j)
                        /\ Uses(j, "submit_result") => ResultRows(j)' # {}
    BY DEF AckedInv, ItemsOf, Uses
  <2>2. CASE j = i
    BY <1>1, <1>2, <1>3, <1>9, <2>2 DEF Uses, Flown
  <2>3. CASE j # i
    BY <1>2, <1>4, <1>9, <2>1, <2>3 DEF AgentInv, StoreInv, AckedInv, CallsInv
  <2>4. QED
    BY <2>2, <2>3
<1>14. ColumnsInv'
  BY <1>1, <1>4, OkKeepsRest
<1>15. PointersInv'
  <2>1. by \in 0..Len(results)
    BY <1>5
  <2>2. QED
    BY <1>5, <1>6, <1>8, <2>1 DEF PointersInv, AgentInv, StoreInv
<1>16. QED
  BY <1>4, <1>10, <1>11, <1>12, <1>13, <1>14, <1>15 DEF StoreInv
-----------------------------------------------------------------------------
LEMMA AgentInit == Init => AgentInv
<1> SUFFICES ASSUME Init PROVE AgentInv
  OBVIOUS
<1>1. ResultsInv /\ CallsInv
  BY ResultsInit, CallsInit
<1>2. /\ stored = <<>> /\ results = <<>> /\ \A q \in Requests : request[q] = NULL
      /\ \A i \in Intents : acked[i] = NULL
  BY DEF Init, InitCalls, InitResults
<1>3. \A i : Rows(i) = {} /\ ResultRows(i) = {}
  BY <1>2 DEF Rows, ResultRows
<1>4. OnceInv
  <2>1. ASSUME NEW i \in Intents
        PROVE  /\ IsFiniteSet(Area(LeftOf(i)))
               /\ Cardinality(Rows(i)) + Cardinality(ResultRows(i)) + Cardinality(Area(LeftOf(i)))
                    <= ItemsOf(i) * Made(i)
    <3>1. \A q \in Requests : LeftOf(i)[q] = 0
      BY <1>2 DEF LeftOf, LeftAt
    <3>2. Area(LeftOf(i)) = {}
      BY <3>1 DEF Area
    <3>3. ItemsOf(i) * Made(i) \in Nat
      BY <1>1, ItemsAreNat, MadeIsBounded
    <3>4. QED
      BY <1>3, <3>2, <3>3, FS_EmptySet
  <2>2. QED
    BY <2>1 DEF OnceInv
<1>5. StoredInv
  BY <1>2 DEF StoredInv, KeysStoredOnce, SelfUseNeedsRepeat
<1>6. FlightInv /\ AckedInv /\ PointersInv
  BY <1>2 DEF FlightInv, InFlight, AckedInv, PointersInv
<1>7. ColumnsInv
  BY DEF ColumnsInv, Init
<1>8. QED
  BY <1>1, <1>4, <1>5, <1>6, <1>7 DEF AgentInv, StoreInv

LEMMA AgentStep ==
  ASSUME AgentInv, [Next]_vars
  PROVE  AgentInv'
<1>1. ResultsInv'
  BY ResultsStep, CallAssumption DEF AgentInv, CallsInv, CallAssumption
<1>2. CASE Next
  <2>1. ASSUME NEW i \in Intents, RefuseParents(i) PROVE CallsInv' /\ StoreInv'
    BY <2>1, RefusalKeepsStore
  <2>2. ASSUME NEW q \in Requests, NEW i \in Intents, NEW body, Sends(q, i, body)
        PROVE  CallsInv' /\ StoreInv'
    BY <2>2, SendKeepsStore
  <2>3. ASSUME NEW q \in Requests, Refuses(q) \/ TimeOut(q) PROVE CallsInv' /\ StoreInv'
    BY <2>3, ErrorKeepsStore
  <2>4. ASSUME NEW q \in Requests,
               InsertsRow(q) \/ RegisterItem(q) \/ Writes(q) \/ Marks(q)
                 \/ (InsertResult(q) /\ UNCHANGED table_vars)
        PROVE  CallsInv' /\ StoreInv'
    BY <2>4, InsertKeepsStore, ItemKeepsStore, WriteKeepsStore, MarkKeepsStore, SubmitKeepsStore
  <2>5. CallsInv
    BY DEF AgentInv
  <2>6. QED
    BY <1>1, <1>2, <2>1, <2>2, <2>3, <2>4, <2>5, StepKinds DEF AgentInv
<1>3. CASE UNCHANGED vars
  <2>1. CallsInv'
    BY <1>3 DEF AgentInv, CallsInv, RequestFits, vars, call_vars
  <2>2. /\ UNCHANGED <<request, stored, results, column, acked_last, acked, missed, awaited>>
        /\ \A j \in Intents : Made(j)' = Made(j)
    BY <1>3 DEF vars, call_vars, result_vars, table_vars, Made, InFlight
  <2>3. \A j \in Intents : /\ missed'[j] >= missed[j] /\ Made(j)' \in Nat /\ Made(j)' >= Made(j)
    BY <2>2, MadeIsBounded DEF AgentInv
  <2>4. OnceInv'
    BY <2>2, <2>3, OnceStill
  <2>5. StoredInv' /\ AckedInv' /\ ColumnsInv' /\ PointersInv'
    BY <2>1, <2>2, <2>3, QuietStep
  <2>6. FlightInv'
    <3>1. \A j \in Intents : /\ Rows(j)' = Rows(j) /\ ResultRows(j)' = ResultRows(j)
                              /\ Cardinality(Rows(j)) \in Nat
      BY <2>2, Tables, RowsAreFinite DEF Rows, ResultRows
    <3>2. QED
      BY <2>1, <2>2, <2>3, <3>1, FlightStays DEF FlightInv
  <2>7. QED
    BY <1>1, <2>1, <2>4, <2>5, <2>6 DEF AgentInv, StoreInv
<1>4. QED
  BY <1>2, <1>3

LEMMA AgentInvHolds == Spec => []AgentInv
<1>1. QED
  BY AgentInit, AgentStep, PTL DEF Spec

LEMMA AgentTypes == AgentInv => TypeOK
<1> SUFFICES ASSUME AgentInv PROVE TypeOK
  OBVIOUS
<1>1. results \in Seq(ResultRow) /\ misdirected \in BOOLEAN
  BY DEF AgentInv, ResultsInv, MarksInv
<1>2. ResultsTypeOK
  <2> DEFINE S == [run : Runs, name : Names, intent : Intents, superseded_by : 0..Len(results)]
             n == Len(results)
  <2>1. results \in [1..n -> ResultRow] /\ n \in Nat
    BY <1>1, LenProperties
  <2>2. \A k \in 1..n : results[k].superseded_by \in 0..Len(results) /\ results[k].superseded_by # k
    BY <2>1 DEF AgentInv, StoreInv, PointersInv
  <2>3. \A k \in 1..n : results[k] \in S
    BY <2>1, <2>2 DEF ResultRow
  <2> HIDE DEF S, n
  <2>4. results \in [1..n -> S]
    BY <2>1, <2>3
  <2>5. results \in Seq(S)
    BY <2>1, <2>4, SeqDef
  <2>6. QED
    BY <1>1, <2>1, <2>2, <2>5 DEF ResultsTypeOK, S
<1>3. Cardinality(awaited) <= 1
  <2>1. \A p, q \in awaited : p = q
    BY DEF AgentInv, CallsInv
  <2>2. CASE awaited = {}
    BY <2>2, FS_EmptySet
  <2>3. CASE awaited # {}
    <3>1. PICK q : awaited = {q}
      BY <2>1, <2>3
    <3>2. QED
      BY <3>1, FS_Singleton
  <2>4. QED
    BY <2>2, <2>3
<1>4. \A n \in DOMAIN stored :
        stored[n].intent \in Intents /\ stored[n].role \in {"produced", "used"}
  <2>1. stored \in [1..Len(stored) -> StoredRow]
    BY Tables, LenProperties
  <2>2. QED
    BY <2>1 DEF StoredRow
<1>5. QED
  BY <1>2, <1>3, <1>4
     DEF TypeOK, AgentInv, CallsInv, RequestFits, StoreInv, ColumnsInv

\* Nothing is stored twice, nor does a run come to use what it produced, without
\* a call that was repeated or a content named twice; keys are stored once
\* however often calls are given up, fail or are repeated (_api_request,
\* submit_result, register_artifact).
THEOREM RepeatsAreCause == Spec => []RepeatsHaveCause
<1>1. AgentInv => RepeatsHaveCause
  <2>1. SUFFICES ASSUME AgentInv PROVE OnceUnlessRetried
    BY AgentTypes DEF RepeatsHaveCause, AgentInv, StoreInv, StoredInv
  <2>2. ASSUME NEW i \in Intents
        PROVE  Cardinality(Rows(i)) + Cardinality(ResultRows(i)) <= ItemsOf(i) * (1 + missed[i])
    <3>1. /\ IsFiniteSet(Area(LeftOf(i)))
          /\ Cardinality(Rows(i)) + Cardinality(ResultRows(i)) + Cardinality(Area(LeftOf(i)))
               <= ItemsOf(i) * Made(i)
      BY <2>1 DEF AgentInv, StoreInv, OnceInv
    <3>2. Made(i) \in Nat /\ missed[i] \in Nat /\ Made(i) <= 1 + missed[i] /\ ItemsOf(i) \in Nat
      BY <2>1, MadeIsBounded, ItemsAreNat DEF AgentInv
    <3>3. ItemsOf(i) * Made(i) <= ItemsOf(i) * (1 + missed[i])
      BY <3>2, TimesMono
    <3>4. ItemsOf(i) * Made(i) \in Nat /\ ItemsOf(i) * (1 + missed[i]) \in Nat
      BY <3>2
    <3>5. /\ Cardinality(Rows(i)) \in Nat /\ Cardinality(ResultRows(i)) \in Nat
          /\ Cardinality(Area(LeftOf(i))) \in Nat
      BY <2>1, <3>1, Tables, RowsAreFinite, FS_CardinalityType
    <3>6. QED
      BY <3>1, <3>3, <3>4, <3>5
  <2>3. QED
    BY <2>2 DEF OnceUnlessRetried
<1>2. QED
  BY <1>1, AgentInvHolds, PTL

\* What the agent was told is done is stored in full, to the last item of a
\* batch and the mark of a correction, and stands until a later call, or the
\* late handler of an earlier one, overwrites it (tools/*.py).
THEOREM AcknowledgedHolds == Spec => []AcknowledgedStands
<1>1. AgentInv => AcknowledgedStands
  <2>1. SUFFICES ASSUME AgentInv PROVE AcknowledgedStands
    OBVIOUS
  <2>2. AcknowledgedIsStored
    BY <2>1 DEF AcknowledgedIsStored, AgentInv, StoreInv, AckedInv, ResultsInv, AcksInv, ResultTools
  <2>3. AcknowledgedWriteStands
    BY <2>1 DEF AcknowledgedWriteStands, AgentInv, StoreInv, ColumnsInv
  <2>4. QED
    BY <2>2, <2>3 DEF AcknowledgedStands
<1>2. QED
  BY <1>1, AgentInvHolds, PTL
=============================================================================
