----------------------- MODULE ResearchWorkflowProofs -----------------------
(***************************************************************************)
(* Proofs about the research graph of a run, for any number of executions  *)
(* and of failures: the user is asked once, the run ends as decided, the   *)
(* trace of an execution is written by that execution alone, and what it   *)
(* leaves open is what failed to be written.                               *)
(***************************************************************************)
EXTENDS ResearchWorkflow, Integers, TLAPS

Gate == "evidence_decision_gate"
Before == {"query_analyzer", "query_adapter", "multi_retriever", "source_evaluator",
           "conflict_detector", "evidence_chain", "conclusion_synthesizer",
           "citation_validator"}
AfterGate == {"report_generator", "self_reviewer", "end"}

Resolutions == {"none", "pending", "provide_context", "limited_report", "cancel"}
Outcomes == Breaks \cup {"none", "succeeded", "interrupted", "lost", "budget"}
States ==
    [scores : {"none", "thin", "enough"}, chains : {"none", "thin", "enough", "unusable"},
     uncertain : BOOLEAN, seen : BOOLEAN, route : Resolutions \cup {"continue_report"},
     limited : BOOLEAN, confidence : {"medium", "low"}, gaps : {0, 3}, retries : {0, 1}]
Workers ==
    [pc : {"none", "ready", "body", "calling", "working", "closing", "accepting", "pausing",
           "ending"},
     node : Nodes \cup {"none", "end"}, st : States, answer : Resolutions,
     attempt : BOOLEAN, call : BOOLEAN, outcome : Outcomes]
Statuses == {"queued", "running", "waiting_for_input", "completed", "completed_with_warnings",
             "failed", "timed_out", "interrupted", "cancelled"}

Typed ==
    /\ run \in [status : Statuses, epoch : 0 .. MaxEpoch, live : BOOLEAN]
    /\ attempts \in [Epochs -> Int] /\ calls \in [Epochs -> Int]
    /\ saved \in [at : Nodes \cup {"none", "end"}, st : States, asked : BOOLEAN]
    /\ decision \in Resolutions
    /\ worker \in [Epochs -> Workers]
    /\ spent \in BOOLEAN

-----------------------------------------------------------------------------
(***************************************************************************)
(* The invariant: what the user has decided is in the state the graph goes *)
(* on with, or still to be delivered at the gate.                          *)
(***************************************************************************)
\* A state that node n begins with, behind the gate and before it.
Decided(n, st) ==
    \/ /\ decision \in {"none", "provide_context"} /\ ~st.limited
       /\ Doubtful(st) => decision = "provide_context"
    \/ n = "end" /\ st.limited /\ decision = "limited_report"
Undecided(st) ==
    \/ decision = "none" /\ ~st.seen /\ ~st.limited
    \/ decision = "provide_context" /\ st.seen /\ ~st.limited
Held(n, st) == IF n \in AfterGate THEN Decided(n, st) ELSE Undecided(st)

\* A state in which the gate asked.
Asking(n, st) == n = Gate /\ MustAsk(st) /\ ~st.limited

SavedAgrees == IF saved.asked THEN Asking(saved.at, saved.st) ELSE Held(saved.at, saved.st)

\* The decision follows the status, and what is published follows the decision.
StatusAgrees ==
    /\ decision = "pending" <=> run.status = "waiting_for_input"
    /\ decision = "cancel" => run.status = "cancelled"
    /\ decision \in {"pending", "cancel"} => saved.asked
    /\ run.status = "completed" => saved.at = "end" /\ ~saved.asked /\ ~saved.st.limited
    /\ run.status = "completed_with_warnings" => decision = "limited_report" \/ spent

\* The execution that has the run.
Working == {"ready", "body", "calling", "working"}
Delivering(w) ==
    /\ Asking(w.node, w.st)
    /\ decision \in {"provide_context", "limited_report"} /\ w.answer = decision
GoesOn(n, w) == Held(n, w.st) /\ (decision = "none" => w.answer = "none")

WorkerAgrees(e) ==
    LET w == worker[e]
    IN /\ w.pc \in Working \cup {"closing", "accepting", "pausing"} => w.node \in Nodes
       /\ w.pc = "closing" => w.outcome # "none"
       /\ w.pc = "accepting" => w.outcome \in {"succeeded", "interrupted"}
       /\ w.pc = "ending" => w.outcome \in Breaks \cup {"succeeded", "budget"}
       /\ w.pc \in {"closing", "ending"} /\ w.outcome = "budget" => spent
       /\ Authority(e) =>
            /\ w.pc \in Working => GoesOn(w.node, w) \/ Delivering(w)
            /\ w.pc \in {"closing", "accepting"} /\ w.outcome = "succeeded"
                 => GoesOn(NextNode(w.node, w.st), w)
            /\ w.pc \in {"closing", "accepting"} /\ w.outcome = "interrupted"
                 => Asking(w.node, w.st) /\ decision = "none"
            /\ w.pc = "pausing" => saved.asked /\ decision = "none"
            /\ w.pc = "ending" /\ w.outcome = "succeeded"
                 => saved.at = "end" /\ ~saved.asked /\ saved.st = w.st

WorkersAgree == \A e \in Epochs : WorkerAgrees(e)

IInv == Typed /\ SavedAgrees /\ StatusAgrees /\ WorkersAgree

-----------------------------------------------------------------------------
(***************************************************************************)
(* Facts about the graph.                                                  *)
(***************************************************************************)
LEMMA PipelineIs ==
    /\ Len(Pipeline) = 11 /\ DOMAIN Pipeline = 1 .. 11
    /\ Pipeline[1] = "query_analyzer" /\ Pipeline[2] = "query_adapter"
    /\ Pipeline[3] = "multi_retriever" /\ Pipeline[4] = "source_evaluator"
    /\ Pipeline[5] = "conflict_detector" /\ Pipeline[6] = "evidence_chain"
    /\ Pipeline[7] = "conclusion_synthesizer" /\ Pipeline[8] = "citation_validator"
    /\ Pipeline[9] = Gate /\ Pipeline[10] = "report_generator"
    /\ Pipeline[11] = "self_reviewer"
BY DEF Pipeline, Gate

LEMMA NodesAre == Nodes = Before \cup {Gate, "report_generator", "self_reviewer"}
<1>1. \A k \in 1 .. 11 : k = 1 \/ k = 2 \/ k = 3 \/ k = 4 \/ k = 5 \/ k = 6 \/ k = 7 \/ k = 8
                         \/ k = 9 \/ k = 10 \/ k = 11
  OBVIOUS
<1>2. \A k \in DOMAIN Pipeline :
         Pipeline[k] \in Before \cup {Gate, "report_generator", "self_reviewer"}
  BY <1>1, PipelineIs DEF Before
<1>3. \A n \in Before \cup {Gate, "report_generator", "self_reviewer"} :
         \E k \in DOMAIN Pipeline : n = Pipeline[k]
  BY PipelineIs DEF Before
<1> QED BY <1>2, <1>3 DEF Nodes

\* The fixed edges: up to the gate, and behind it.
LEMMA EdgesAre ==
    /\ \A n \in Before : Following(n) \in Before \cup {Gate}
    /\ Following("report_generator") = "self_reviewer"
<1>1. \A k \in 2 .. 11 : k = 2 \/ k = 3 \/ k = 4 \/ k = 5 \/ k = 6 \/ k = 7 \/ k = 8
                         \/ k = 9 \/ k = 10 \/ k = 11
  OBVIOUS
<1>2. ASSUME NEW n \in Before
      PROVE  Following(n) \in Before \cup {Gate}
  <2> DEFINE k == CHOOSE j \in 2 .. Len(Pipeline) : Pipeline[j - 1] = n
  <2>1. \E j \in 2 .. Len(Pipeline) : Pipeline[j - 1] = n
    <3>1. \E j \in 1 .. 8 : Pipeline[j] = n
      BY PipelineIs DEF Before
    <3>2. PICK j \in 1 .. 8 : Pipeline[j] = n
      BY <3>1
    <3>3. j + 1 \in 2 .. Len(Pipeline) /\ (j + 1) - 1 = j
      BY PipelineIs
    <3> QED BY <3>2, <3>3
  <2>2. k \in 2 .. 11 /\ Pipeline[k - 1] = n
    BY <2>1, PipelineIs
  <2>3. k \in 2 .. 9
    <3>1. k # 10 /\ k # 11
      BY <2>2, PipelineIs DEF Before, Gate
    <3> QED BY <2>2, <3>1
  <2>4. Pipeline[k] \in Before \cup {Gate}
    <3> HIDE DEF k
    <3>1. k = 2 \/ k = 3 \/ k = 4 \/ k = 5 \/ k = 6 \/ k = 7 \/ k = 8 \/ k = 9
      BY <2>3
    <3> QED BY <3>1, PipelineIs DEF Before
  <2> QED BY <2>4 DEF Following
<1>3. Following("report_generator") = "self_reviewer"
  <2> DEFINE k == CHOOSE j \in 2 .. Len(Pipeline) : Pipeline[j - 1] = "report_generator"
  <2>1. 11 \in 2 .. Len(Pipeline) /\ Pipeline[11 - 1] = "report_generator"
    BY PipelineIs
  <2>2. k \in 2 .. 11 /\ Pipeline[k - 1] = "report_generator"
    BY <2>1, PipelineIs
  <2>3. k = 11
    <3>1. k - 1 = 1 \/ k - 1 = 2 \/ k - 1 = 3 \/ k - 1 = 4 \/ k - 1 = 5 \/ k - 1 = 6 \/ k - 1 = 7
          \/ k - 1 = 8 \/ k - 1 = 9 \/ k - 1 = 10
      BY <2>2
    <3>2. k - 1 = 10
      BY <2>2, <3>1, PipelineIs DEF Gate
    <3> QED BY <2>2, <3>2
  <2>4. Pipeline[k] = "self_reviewer"
    BY <2>3, PipelineIs
  <2> QED BY <2>4 DEF Following
<1> QED BY <1>2, <1>3

LEMMA NextIsNode ==
    ASSUME NEW n \in Nodes, NEW st
    PROVE  NextNode(n, st) \in Nodes \cup {"end"}
<1>1. CASE n \in Before
  BY <1>1, EdgesAre, NodesAre DEF NextNode, Before, Gate
<1>2. CASE n = Gate
  BY <1>2, NodesAre DEF NextNode, Before, Gate
<1>3. CASE n = "report_generator"
  BY <1>3, EdgesAre, NodesAre DEF NextNode, Before, Gate
<1>4. CASE n = "self_reviewer"
  BY <1>4, NodesAre DEF NextNode, RouteAfterReview, Before, Gate
<1> QED BY <1>1, <1>2, <1>3, <1>4, NodesAre

\* No node but the gate touches what was decided, and nothing behind the gate what is in doubt.
LEMMA ResultsKeep ==
    ASSUME NEW n \in Nodes, NEW st \in States, NEW r \in Results(n, st)
    PROVE  /\ r \in States
           /\ r.seen = st.seen /\ r.limited = st.limited
           /\ n \notin Before => (Doubtful(r) <=> Doubtful(st))
           /\ n = "self_reviewer" => r.retries = 1
<1>1. CASE n = "source_evaluator"
  BY <1>1 DEF Results, States, Before
<1>2. CASE n = "evidence_chain"
  BY <1>2 DEF Results, States, Before
<1>3. CASE n = "conclusion_synthesizer"
  BY <1>3 DEF Results, States, Before
<1>4. CASE n = "self_reviewer"
  <2>1. PICK c \in {"medium", "low"} :
           r = [st EXCEPT !.confidence = c, !.gaps = IF c = "low" THEN 3 ELSE 0, !.retries = 1]
    BY <1>4 DEF Results
  <2>2. /\ r.seen = st.seen /\ r.limited = st.limited /\ r.retries = 1
        /\ r.chains = st.chains /\ r.scores = st.scores /\ r.uncertain = st.uncertain
    BY <2>1 DEF States
  <2>3. r \in States
    BY <2>1 DEF States
  <2>4. Doubtful(r) <=> Doubtful(st)
    BY <2>2 DEF Doubtful, MinimumMet, Usable
  <2> QED BY <2>2, <2>3, <2>4
<1>5. CASE n \notin {"source_evaluator", "evidence_chain", "conclusion_synthesizer",
                     "self_reviewer"}
  BY <1>5 DEF Results
<1> QED BY <1>1, <1>2, <1>3, <1>4, <1>5

LEMMA AnsweredIs ==
    ASSUME NEW st \in States,
           NEW a \in {"continue_report", "provide_context", "limited_report"}
    PROVE  /\ Answered(st, a) \in States
           /\ Answered(st, a).seen /\ Answered(st, a).route = a
           /\ Answered(st, a).limited <=> a = "limited_report"
           /\ Doubtful(Answered(st, a)) <=> Doubtful(st)
BY DEF Answered, States, Doubtful, MinimumMet, Usable, Resolutions

\* A node goes on with what was decided.
LEMMA ResultHeld ==
    ASSUME NEW n \in Nodes \ {Gate}, NEW st \in States, NEW r \in Results(n, st), Held(n, st)
    PROVE  Held(NextNode(n, r), r)
<1>1. /\ r.seen = st.seen /\ r.limited = st.limited
      /\ n \notin Before => (Doubtful(r) <=> Doubtful(st))
      /\ n = "self_reviewer" => r.retries = 1
  BY ResultsKeep
<1>2. CASE n \in Before
  <2>1. NextNode(n, r) \in Before \cup {Gate} /\ n \notin AfterGate
    BY <1>2, EdgesAre DEF NextNode, Before, Gate, AfterGate
  <2>2. NextNode(n, r) \notin AfterGate
    BY <2>1 DEF Before, Gate, AfterGate
  <2> QED BY <1>1, <2>1, <2>2 DEF Held, Undecided
<1>3. CASE n = "report_generator"
  <2>1. NextNode(n, r) = "self_reviewer"
    BY <1>3, EdgesAre DEF NextNode
  <2> QED BY <1>1, <1>3, <2>1 DEF Held, Decided, AfterGate, Before
<1>4. CASE n = "self_reviewer"
  <2>1. NextNode(n, r) = "end"
    BY <1>1, <1>4 DEF NextNode, RouteAfterReview
  <2> QED BY <1>1, <1>4, <2>1 DEF Held, Decided, AfterGate, Before
<1> QED BY <1>2, <1>3, <1>4, NodesAre

\* The gate lets a state pass that is beyond doubt or was asked about before.
LEMMA PassesHeld ==
    ASSUME NEW st \in States, ~MustAsk(st), Held(Gate, st),
           NEW r, r = Answered(st, "continue_report")
    PROVE  Held(NextNode(Gate, r), r)
<1>1. r.route = "continue_report" /\ ~r.limited /\ (Doubtful(r) <=> Doubtful(st))
  BY AnsweredIs
<1>2. NextNode(Gate, r) = "report_generator"
  BY <1>1 DEF NextNode, Gate
<1> QED BY <1>1, <1>2 DEF Held, AfterGate, Gate, Decided, Undecided, MustAsk

\* The gate takes the resolution it was waiting for.
LEMMA DeliveryHeld ==
    ASSUME NEW w \in Workers, Delivering(w), NEW r, r = Answered(w.st, w.answer)
    PROVE  Held(NextNode(Gate, r), r)
<1>1. w.st \in States /\ w.answer \in {"provide_context", "limited_report"}
  BY DEF Delivering, Workers
<1>2. r.route = w.answer /\ r.seen /\ (r.limited <=> w.answer = "limited_report")
  BY <1>1, AnsweredIs
<1>3. NextNode(Gate, r) = IF w.answer = "provide_context" THEN "query_adapter" ELSE "end"
  BY <1>1, <1>2 DEF NextNode, Gate
<1> QED BY <1>1, <1>2, <1>3 DEF Held, AfterGate, Decided, Undecided, Delivering

-----------------------------------------------------------------------------
(***************************************************************************)
(* A step of one execution.                                                *)
(***************************************************************************)
LEMMA GoesTo ==
    ASSUME NEW e \in Epochs, NEW w \in Workers, Typed, Goes(e, w)
    PROVE  /\ worker' \in [Epochs -> Workers] /\ worker'[e] = w
           /\ \A f \in Epochs \ {e} : worker'[f] = worker[f]
BY DEF Goes, Typed

LEMMA GoneIsWorker == NoWorker \in Workers /\ Gone \in Workers /\ Gone.pc = "none"
<1>1. Empty \in States
  BY DEF Empty, States, Resolutions
<1> QED BY <1>1, Zenon DEF Gone, NoWorker, Workers, Outcomes, Resolutions

\* The executions that do not take the step.
LEMMA OthersKeep ==
    ASSUME NEW f \in Epochs, WorkerAgrees(f), worker'[f] = worker[f], spent => spent',
           ~Authority(f)' \/ UNCHANGED <<run, saved, decision>>
    PROVE  WorkerAgrees(f)'
<1>1. CASE ~Authority(f)'
  BY <1>1 DEF WorkerAgrees
<1>2. CASE UNCHANGED <<run, saved, decision>>
  BY <1>2 DEF WorkerAgrees, Authority, GoesOn, Delivering, Held, Decided, Undecided, Asking
<1> QED BY <1>1, <1>2

\* An execution that is gone, or ends without a result, has nothing to agree with.
LEMMA EndsKeep ==
    ASSUME NEW e \in Epochs,
           \/ worker[e]'.pc = "none"
           \/ worker[e]'.pc = "ending" /\ worker[e]'.outcome \in Breaks
           \/ worker[e]'.pc = "ending" /\ worker[e]'.outcome = "budget" /\ spent'
    PROVE  WorkerAgrees(e)'
BY DEF WorkerAgrees, Breaks, Working

\* A step that leaves the rows of the run alone.
LEMMA RowsKeep ==
    ASSUME IInv, UNCHANGED <<run, saved, decision>>, spent' \in BOOLEAN, spent => spent',
           NEW e \in Epochs, NEW w \in Workers, Goes(e, w), WorkerAgrees(e)',
           attempts' \in [Epochs -> Int], calls' \in [Epochs -> Int]
    PROVE  IInv'
<1>1. /\ worker' \in [Epochs -> Workers]
      /\ \A f \in Epochs \ {e} : worker'[f] = worker[f]
  BY GoesTo DEF IInv
<1>2. Typed'
  BY <1>1 DEF IInv, Typed
<1>3. SavedAgrees' /\ StatusAgrees'
  BY DEF IInv, SavedAgrees, StatusAgrees, Held, Decided, Undecided, Asking
<1>4. WorkersAgree'
  BY <1>1, OthersKeep DEF IInv, WorkersAgree
<1> QED BY <1>2, <1>3, <1>4 DEF IInv

\* The trace keeps its types, whatever the write does.
LEMMA WritesKeep ==
    ASSUME Typed, NEW e \in Epochs, NEW b \in BOOLEAN,
           \/ Written(e, AttemptStarted(e)) \/ Written(e, AttemptFinished(e, b))
           \/ Written(e, CallStarted(e, b)) \/ Written(e, CallFinished(e, b))
           \/ NotWritten
    PROVE  attempts' \in [Epochs -> Int] /\ calls' \in [Epochs -> Int]
BY DEF Typed, Written, Missed, NotWritten, traceVars, AttemptStarted, AttemptFinished,
       CallStarted, CallFinished

LEMMA StartNodeKeeps ==
    ASSUME IInv, NEW e \in Epochs, StartNode(e)
    PROVE  IInv'
<1> DEFINE w == worker[e]
<1>1. w \in Workers /\ Typed /\ WorkerAgrees(e) /\ w.pc = "ready"
  BY DEF IInv, Typed, WorkersAgree, StartNode
<1>2. UNCHANGED <<run, saved, decision, spent>>
  BY DEF StartNode
<1>3. CASE ~Current(e) /\ Goes(e, Gone) /\ NotWritten
  <2>1. attempts' \in [Epochs -> Int] /\ calls' \in [Epochs -> Int]
    BY <1>1, <1>3, WritesKeep
  <2>2. WorkerAgrees(e)'
    BY <1>1, <1>3, GoneIsWorker, GoesTo, EndsKeep
  <2> QED BY <1>2, <1>3, <2>1, <2>2, GoneIsWorker, RowsKeep DEF IInv, Typed
<1>4. CASE /\ Current(e) /\ Written(e, AttemptStarted(e))
           /\ Goes(e, [w EXCEPT !.pc = "body", !.attempt = attempts' # attempts])
  <2> DEFINE v == [w EXCEPT !.pc = "body", !.attempt = attempts' # attempts]
  <2>1. /\ v \in Workers /\ v.pc = "body" /\ v.node = w.node /\ v.st = w.st
        /\ v.answer = w.answer /\ v.outcome = w.outcome
    <3> DEFINE b == attempts' # attempts
    <3>1. b \in BOOLEAN
      OBVIOUS
    <3> HIDE DEF b
    <3> QED BY <1>1, <3>1 DEF Workers
  <2> HIDE DEF v
  <2>2. worker'[e] = v
    BY <1>1, <1>4, <2>1, GoesTo DEF v
  <2>3. WorkerAgrees(e)'
    BY <1>1, <1>2, <2>1, <2>2
    DEF WorkerAgrees, Working, Authority, GoesOn, Delivering, Held, Decided, Undecided, Asking
  <2>4. attempts' \in [Epochs -> Int] /\ calls' \in [Epochs -> Int]
    BY <1>1, <1>4, WritesKeep
  <2> QED BY <1>2, <1>4, <2>1, <2>3, <2>4, RowsKeep DEF IInv, Typed, v
<1> QED BY <1>3, <1>4 DEF StartNode

LEMMA StartCallKeeps ==
    ASSUME IInv, NEW e \in Epochs, StartCall(e)
    PROVE  IInv'
<1> DEFINE w == worker[e]
           v == [w EXCEPT !.pc = "calling", !.call = calls' # calls]
<1>1. w \in Workers /\ Typed /\ WorkerAgrees(e) /\ w.pc = "body" /\ w.attempt \in BOOLEAN
  BY DEF IInv, Typed, WorkersAgree, StartCall, Workers
<1>2. UNCHANGED <<run, saved, decision, spent>> /\ Goes(e, v)
  BY DEF StartCall
<1>3. /\ v \in Workers /\ v.pc = "calling" /\ v.node = w.node /\ v.st = w.st
      /\ v.answer = w.answer /\ v.outcome = w.outcome
  <2> DEFINE b == calls' # calls
  <2>1. b \in BOOLEAN
    OBVIOUS
  <2> HIDE DEF b
  <2> QED BY <1>1, <2>1 DEF Workers
<1> HIDE DEF v
<1>4. worker'[e] = v
  BY <1>1, <1>2, <1>3, GoesTo
<1>5. WorkerAgrees(e)'
  BY <1>1, <1>2, <1>3, <1>4
  DEF WorkerAgrees, Working, Authority, GoesOn, Delivering, Held, Decided, Undecided, Asking
<1>6. attempts' \in [Epochs -> Int] /\ calls' \in [Epochs -> Int]
  BY <1>1, WritesKeep DEF StartCall
<1> QED BY <1>2, <1>3, <1>5, <1>6, RowsKeep DEF IInv, Typed

LEMMA EndCallKeeps ==
    ASSUME IInv, NEW e \in Epochs, EndCall(e)
    PROVE  IInv'
<1> DEFINE w == worker[e]
<1>1. w \in Workers /\ Typed /\ WorkerAgrees(e) /\ w.pc = "calling" /\ w.call \in BOOLEAN
  BY DEF IInv, Typed, WorkersAgree, EndCall, Workers
<1>2. UNCHANGED <<run, saved, decision>>
  BY DEF EndCall
<1>3. attempts' \in [Epochs -> Int] /\ calls' \in [Epochs -> Int]
  BY <1>1, WritesKeep DEF EndCall
<1>4. PICK v : /\ Goes(e, v)
               /\ \/ Overspent /\ v = [w EXCEPT !.pc = "closing", !.outcome = "budget"]
                  \/ Affordable /\ v = [w EXCEPT !.pc = "working"]
                  \/ /\ UNCHANGED spent
                     /\ \E s \in Breaks : v = [w EXCEPT !.pc = "closing", !.outcome = s]
  BY DEF EndCall
<1>5. /\ v \in Workers /\ v.node = w.node /\ v.st = w.st /\ v.answer = w.answer
      /\ \/ v.pc = "closing" /\ v.outcome = "budget" /\ spent'
         \/ v.pc = "closing" /\ v.outcome \in Breaks
         \/ v.pc = "working"
  BY <1>1, <1>4 DEF Workers, Outcomes, Overspent, Breaks
<1>6. spent' \in BOOLEAN /\ (spent => spent')
  <2>1. spent' = TRUE \/ spent' = spent
    BY <1>4 DEF Overspent, Affordable
  <2> QED BY <1>1, <2>1, Zenon DEF Typed
<1>7. worker'[e] = v
  BY <1>1, <1>4, <1>5, GoesTo
<1>8. WorkerAgrees(e)'
  BY <1>1, <1>2, <1>5, <1>7
  DEF WorkerAgrees, Working, Breaks, Authority, GoesOn, Delivering, Held, Decided, Undecided,
      Asking
<1> QED BY <1>2, <1>3, <1>4, <1>5, <1>6, <1>8, RowsKeep

\* A node returns with a state that holds what was decided.
LEMMA ReturnKeeps ==
    ASSUME IInv, NEW e \in Epochs, worker[e].pc \in Working, NEW st \in States,
           Return(e, worker[e], st), UNCHANGED <<run, saved, decision>>, NotWritten,
           Authority(e) => Held(NextNode(worker[e].node, st), st)
                             /\ (decision = "none" => worker[e].answer = "none")
    PROVE  IInv'
<1> DEFINE w == worker[e]
<1>1. w \in Workers /\ Typed /\ WorkerAgrees(e) /\ w.node \in Nodes
  BY DEF IInv, Typed, WorkersAgree, WorkerAgrees
<1>2. attempts' \in [Epochs -> Int] /\ calls' \in [Epochs -> Int]
  BY <1>1, WritesKeep
<1>3. PICK v :
        /\ Goes(e, v)
        /\ \/ ~Current(e) /\ UNCHANGED spent /\ v = [w EXCEPT !.pc = "closing", !.outcome = "lost"]
           \/ Overspent /\ v = [w EXCEPT !.pc = "closing", !.st = st, !.outcome = "budget"]
           \/ Affordable /\ v = [w EXCEPT !.pc = "closing", !.st = st, !.outcome = "succeeded"]
  BY DEF Return
<1>4. /\ v \in Workers /\ v.node = w.node /\ v.answer = w.answer /\ v.pc = "closing"
      /\ \/ v.outcome = "lost" /\ spent' = spent
         \/ v.outcome = "budget" /\ v.st = st /\ spent' = TRUE
         \/ v.outcome = "succeeded" /\ v.st = st /\ spent' = spent
  BY <1>1, <1>3 DEF Workers, Outcomes, Overspent, Affordable
<1>5. spent' \in BOOLEAN /\ (spent => spent')
  <2>1. spent' = TRUE \/ spent' = spent
    BY <1>4
  <2> QED BY <1>1, <2>1, Zenon DEF Typed
<1>6. worker'[e] = v
  BY <1>1, <1>3, <1>4, GoesTo
<1>7. Authority(e)' <=> Authority(e)
  BY DEF Authority
<1>8. v.outcome = "succeeded" /\ Authority(e) => GoesOn(NextNode(v.node, v.st), v)'
  BY <1>4, <1>7 DEF GoesOn, Held, Decided, Undecided
<1>9. WorkerAgrees(e)'
  BY <1>1, <1>4, <1>6, <1>7, <1>8 DEF WorkerAgrees, Working, Breaks
<1> QED BY <1>2, <1>3, <1>4, <1>5, <1>9, RowsKeep

LEMMA WorkKeeps ==
    ASSUME IInv, NEW e \in Epochs, Work(e)
    PROVE  IInv'
<1> DEFINE w == worker[e]
<1>1. /\ w \in Workers /\ Typed /\ WorkerAgrees(e) /\ w.pc \in Working /\ w.node \in Nodes
      /\ w.st \in States
  BY DEF IInv, Typed, WorkersAgree, WorkerAgrees, Work, Working, Workers
<1>2. UNCHANGED <<run, saved, decision>> /\ NotWritten
  BY DEF Work
<1>3. Authority(e) => GoesOn(w.node, w) \/ Delivering(w)
  BY <1>1 DEF WorkerAgrees
<1>4. CASE w.node # Gate /\ \E st \in Results(w.node, w.st) : Return(e, w, st)
  <2>1. PICK st \in Results(w.node, w.st) : Return(e, w, st)
    BY <1>4
  <2>2. Authority(e) => Held(NextNode(w.node, st), st) /\ (decision = "none" => w.answer = "none")
    BY <1>1, <1>3, <1>4, <2>1, ResultHeld DEF GoesOn, Delivering, Asking
  <2>3. st \in States
    BY <1>1, ResultsKeep
  <2> QED BY <1>1, <1>2, <2>1, <2>2, <2>3, ReturnKeeps
<1>5. CASE w.node = Gate /\ ~MustAsk(w.st) /\ Return(e, w, Answered(w.st, "continue_report"))
  <2> DEFINE st == Answered(w.st, "continue_report")
  <2>1. Authority(e) => GoesOn(Gate, w)
    BY <1>3, <1>5 DEF Delivering, Asking
  <2>2. Authority(e) => Held(NextNode(Gate, st), st)
    BY <1>1, <1>5, <2>1, PassesHeld DEF GoesOn
  <2>4. st \in States
    BY <1>1, AnsweredIs
  <2> HIDE DEF st
  <2>3. Authority(e) => Held(NextNode(w.node, st), st) /\ (decision = "none" => w.answer = "none")
    BY <1>5, <2>1, <2>2 DEF GoesOn
  <2> QED BY <1>1, <1>2, <1>5, <2>3, <2>4, ReturnKeeps DEF st
<1>6. CASE /\ w.node = Gate /\ MustAsk(w.st) /\ w.answer # "none"
           /\ Return(e, w, Answered(w.st, w.answer))
  <2> DEFINE st == Answered(w.st, w.answer)
  <2>1. Authority(e) => Delivering(w)
    <3>1. GoesOn(Gate, w) => FALSE
      BY <1>6 DEF GoesOn, Held, AfterGate, Gate, Undecided, MustAsk
    <3> QED BY <1>3, <1>6, <3>1
  <2>2. Authority(e) => Held(NextNode(Gate, st), st)
    BY <1>1, <2>1, DeliveryHeld
  <2>4. st \in States
    BY <1>1 DEF Answered, States, Workers
  <2> HIDE DEF st
  <2>3. Authority(e) => Held(NextNode(w.node, st), st) /\ (decision = "none" => w.answer = "none")
    BY <1>6, <2>1, <2>2 DEF Delivering
  <2> QED BY <1>1, <1>2, <1>6, <2>3, <2>4, ReturnKeeps DEF st
<1>7. CASE /\ w.node = Gate /\ MustAsk(w.st) /\ w.answer = "none"
           /\ Goes(e, [w EXCEPT !.pc = "closing", !.outcome = "interrupted"]) /\ UNCHANGED spent
  <2> DEFINE v == [w EXCEPT !.pc = "closing", !.outcome = "interrupted"]
  <2>1. /\ v \in Workers /\ v.pc = "closing" /\ v.outcome = "interrupted"
        /\ v.node = Gate /\ v.st = w.st
    BY <1>1, <1>7 DEF Workers, Outcomes
  <2> HIDE DEF v
  <2>2. worker'[e] = v
    BY <1>1, <1>7, <2>1, GoesTo DEF v
  <2>3. Authority(e) => Asking(Gate, w.st) /\ decision = "none"
    BY <1>3, <1>7
    DEF GoesOn, Delivering, Held, AfterGate, Gate, Undecided, Asking, MustAsk
  <2>4. WorkerAgrees(e)'
    BY <1>1, <1>2, <2>1, <2>2, <2>3, <1>7
    DEF WorkerAgrees, Working, Authority, Asking
  <2>5. attempts' \in [Epochs -> Int] /\ calls' \in [Epochs -> Int]
    BY <1>1, <1>2, WritesKeep
  <2> QED BY <1>1, <1>2, <1>7, <2>1, <2>4, <2>5, RowsKeep DEF v, Typed
<1>8. CASE /\ UNCHANGED spent
           /\ \E s \in Breaks : Goes(e, [w EXCEPT !.pc = "closing", !.outcome = s])
  <2>1. PICK s \in Breaks : Goes(e, [w EXCEPT !.pc = "closing", !.outcome = s])
    BY <1>8
  <2> DEFINE v == [w EXCEPT !.pc = "closing", !.outcome = s]
  <2>2. v \in Workers /\ v.pc = "closing" /\ v.outcome = s /\ v.node = w.node
    BY <1>1 DEF Workers, Outcomes
  <2> HIDE DEF v
  <2>3. worker'[e] = v
    BY <1>1, <2>1, <2>2, GoesTo DEF v
  <2>4. WorkerAgrees(e)'
    BY <1>1, <2>2, <2>3 DEF WorkerAgrees, Working, Breaks
  <2>5. attempts' \in [Epochs -> Int] /\ calls' \in [Epochs -> Int]
    BY <1>1, <1>2, WritesKeep
  <2> QED BY <1>1, <1>2, <1>8, <2>1, <2>2, <2>4, <2>5, RowsKeep DEF v, Typed
<1> QED
  <2>1. w.node # Gate => ~ (w.node = "evidence_decision_gate")
    BY DEF Gate
  <2> QED BY <1>4, <1>5, <1>6, <1>7, <1>8, <2>1 DEF Work, Gate

LEMMA CloseAttemptKeeps ==
    ASSUME IInv, NEW e \in Epochs, CloseAttempt(e)
    PROVE  IInv'
<1> DEFINE w == worker[e]
<1>1. /\ w \in Workers /\ Typed /\ WorkerAgrees(e) /\ w.pc = "closing" /\ w.attempt \in BOOLEAN
      /\ w.outcome \in Outcomes
  BY DEF IInv, Typed, WorkersAgree, CloseAttempt, Workers
<1>2. UNCHANGED <<run, saved, decision, spent>>
  BY DEF CloseAttempt
<1>3. attempts' \in [Epochs -> Int] /\ calls' \in [Epochs -> Int]
  BY <1>1, WritesKeep DEF CloseAttempt
<1>4. CASE w.outcome = "lost"
  <2>1. Goes(e, Gone)
    BY <1>4 DEF CloseAttempt
  <2>2. WorkerAgrees(e)'
    BY <1>1, <2>1, GoneIsWorker, GoesTo, EndsKeep
  <2> QED BY <1>1, <1>2, <1>3, <2>1, <2>2, GoneIsWorker, RowsKeep DEF Typed
<1>5. CASE w.outcome # "lost"
  <2> DEFINE p == IF w.outcome \in {"succeeded", "interrupted"} THEN "accepting" ELSE "ending"
             v == [w EXCEPT !.pc = p]
  <2>1. Goes(e, v)
    BY <1>5 DEF CloseAttempt
  <2>2. /\ v \in Workers /\ v.pc = p /\ v.node = w.node /\ v.st = w.st /\ v.answer = w.answer
        /\ v.outcome = w.outcome
    BY <1>1 DEF Workers
  <2> HIDE DEF v
  <2>3. worker'[e] = v
    BY <1>1, <2>1, <2>2, GoesTo
  <2>4. WorkerAgrees(e)'
    BY <1>1, <1>2, <1>5, <2>2, <2>3
    DEF WorkerAgrees, Working, Outcomes, Authority, GoesOn, Held, Decided, Undecided, Asking
  <2> QED BY <1>1, <1>2, <1>3, <2>1, <2>2, <2>4, RowsKeep DEF Typed
<1> QED BY <1>4, <1>5

\* An execution that is stopped or dies.
LEMMA StopKeeps ==
    ASSUME IInv, NEW e \in Epochs, Stop(e) \/ Crash(e)
    PROVE  IInv'
<1> DEFINE w == worker[e]
<1>1. w \in Workers /\ Typed
  BY DEF IInv, Typed
<1>2. UNCHANGED <<run, saved, decision, spent>> /\ NotWritten
  BY DEF Stop, Crash
<1>3. attempts' \in [Epochs -> Int] /\ calls' \in [Epochs -> Int]
  BY <1>1, <1>2, WritesKeep
<1>4. CASE Crash(e)
  <2>1. Goes(e, Gone) /\ WorkerAgrees(e)'
    BY <1>1, <1>4, GoneIsWorker, GoesTo, EndsKeep DEF Crash
  <2> QED BY <1>1, <1>2, <1>3, <2>1, GoneIsWorker, RowsKeep DEF Typed
<1>5. CASE Stop(e)
  <2> DEFINE v == [w EXCEPT !.pc = "ending", !.outcome = "cancelled"]
  <2>1. Goes(e, v)
    BY <1>5 DEF Stop
  <2>2. v \in Workers /\ v.pc = "ending" /\ v.outcome \in Breaks
    BY <1>1 DEF Workers, Outcomes, Breaks
  <2> HIDE DEF v
  <2>3. WorkerAgrees(e)'
    BY <1>1, <2>1, <2>2, GoesTo, EndsKeep
  <2> QED BY <1>1, <1>2, <1>3, <2>1, <2>2, <2>3, RowsKeep DEF Typed
<1> QED BY <1>4, <1>5

-----------------------------------------------------------------------------
(***************************************************************************)
(* The steps that change the rows of the run.                              *)
(***************************************************************************)
\* Only one execution has the run.
LEMMA OneAuthority ==
    ASSUME NEW e \in Epochs, NEW f \in Epochs \ {e}, Authority(e)
    PROVE  ~Authority(f)
BY DEF Authority

LEMMA AcceptKeeps ==
    ASSUME IInv, NEW e \in Epochs, Accept(e)
    PROVE  IInv'
<1> DEFINE w == worker[e]
           asks == w.outcome = "interrupted"
           next == IF asks THEN w.node ELSE NextNode(w.node, w.st)
<1>1. /\ w \in Workers /\ w.st \in States /\ Typed /\ WorkerAgrees(e) /\ w.pc = "accepting"
      /\ w.node \in Nodes /\ w.outcome \in {"succeeded", "interrupted"}
  BY DEF IInv, Typed, WorkersAgree, WorkerAgrees, Accept, Workers
<1>2. UNCHANGED <<run, decision, spent>> /\ NotWritten
  BY DEF Accept
<1>3. attempts' \in [Epochs -> Int] /\ calls' \in [Epochs -> Int]
  BY <1>1, <1>2, WritesKeep
<1>4. CASE ~Current(e)
  <2>1. Goes(e, Gone) /\ UNCHANGED saved
    BY <1>4 DEF Accept
  <2>2. WorkerAgrees(e)'
    BY <1>1, <2>1, GoneIsWorker, GoesTo, EndsKeep
  <2> QED BY <1>1, <1>2, <1>3, <2>1, <2>2, GoneIsWorker, RowsKeep DEF Typed
<1>5. CASE Current(e)
  <2>0. PICK n, a, v :
          /\ a = asks /\ n = next
          /\ v = [w EXCEPT !.node = n, !.pc = IF a THEN "pausing"
                                              ELSE IF n = "end" THEN "ending" ELSE "ready"]
    OBVIOUS
  <2> DEFINE p == IF a THEN "pausing" ELSE IF n = "end" THEN "ending" ELSE "ready"
  <2>1. saved' = [at |-> n, st |-> w.st, asked |-> a] /\ Goes(e, v)
    BY <1>5, <2>0 DEF Accept
  <2>2. n \in Nodes \cup {"end"} /\ (a => n = w.node)
    BY <1>1, <2>0, NextIsNode
  <2>3. /\ a => Asking(w.node, w.st) /\ decision = "none"
        /\ ~a => w.outcome = "succeeded" /\ GoesOn(n, w)
    BY <1>1, <1>5, <2>0 DEF WorkerAgrees, Current
  <2>4. a \in BOOLEAN
    BY <2>0
  <2>5. /\ v \in Workers /\ v.node = n /\ v.st = w.st /\ v.pc = p /\ v.answer = w.answer
        /\ v.outcome = w.outcome
    BY <1>1, <2>0, <2>2 DEF Workers
  <2>6. /\ saved'.at = n /\ saved'.st = w.st /\ saved'.asked = a
        /\ saved' \in [at : Nodes \cup {"none", "end"}, st : States, asked : BOOLEAN]
    <3>1. n \in Nodes \cup {"none", "end"}
      BY <2>2
    <3>2. [at |-> n, st |-> w.st, asked |-> a]
             \in [at : Nodes \cup {"none", "end"}, st : States, asked : BOOLEAN]
      BY <1>1, <2>4, <3>1, Zenon
    <3> QED BY <2>1, <3>2
  <2>7. /\ worker' \in [Epochs -> Workers] /\ worker'[e] = v
        /\ \A f \in Epochs \ {e} : worker'[f] = worker[f]
    BY <1>1, <2>1, <2>5, GoesTo
  <2>8. Typed'
    BY <1>1, <1>2, <1>3, <2>6, <2>7 DEF Typed
  <2>9. SavedAgrees'
    BY <1>2, <2>2, <2>3, <2>6
    DEF SavedAgrees, Asking, MustAsk, GoesOn, Held, Decided, Undecided
  <2>10. StatusAgrees'
    BY <1>2, <1>5 DEF StatusAgrees, Current, Authority, IInv
  <2>11. WorkerAgrees(e)'
    <3>1. Authority(e)' <=> Authority(e)
      BY <1>2 DEF Authority
    <3>2. ~a => w.outcome = "succeeded" /\ GoesOn(n, v)'
      BY <1>2, <2>3, <2>5 DEF GoesOn, Held, Decided, Undecided
    <3>3. n \in Nodes \/ n = "end"
      BY <2>2
    <3>4. CASE a
      BY <1>1, <1>2, <2>2, <2>3, <2>5, <2>6, <2>7, <3>1, <3>4 DEF WorkerAgrees, Working
    <3>5. CASE ~a /\ n = "end"
      BY <1>1, <1>2, <2>5, <2>6, <2>7, <3>1, <3>2, <3>5 DEF WorkerAgrees, Working, Breaks
    <3>6. CASE ~a /\ n # "end"
      BY <1>1, <1>2, <2>5, <2>6, <2>7, <3>1, <3>2, <3>3, <3>6 DEF WorkerAgrees, Working
    <3> QED BY <3>4, <3>5, <3>6
  <2>12. \A f \in Epochs \ {e} : ~Authority(f)'
    BY <1>2, <1>5, OneAuthority DEF Current, Authority
  <2>13. WorkersAgree'
    BY <1>2, <2>7, <2>11, <2>12, OthersKeep DEF IInv, WorkersAgree
  <2> QED BY <2>8, <2>9, <2>10, <2>13 DEF IInv
<1> QED BY <1>4, <1>5

\* A step that gives up the run, or leaves it without an execution.
LEMMA LeavingKeeps ==
    ASSUME IInv, NEW e \in Epochs, NEW w \in Workers,
           Goes(e, w) \/ UNCHANGED worker,
           worker'[e] = worker[e] \/ worker'[e].pc = "none",
           \A f \in Epochs : ~Authority(f)',
           run' \in [status : Statuses, epoch : 0 .. MaxEpoch, live : BOOLEAN],
           decision' \in Resolutions, UNCHANGED <<saved, spent>>, NotWritten,
           saved.asked \/ decision' = decision, StatusAgrees'
    PROVE  IInv'
<1>1. Typed
  BY DEF IInv
<1>2. /\ worker' \in [Epochs -> Workers]
      /\ \A f \in Epochs \ {e} : worker'[f] = worker[f]
  BY <1>1, GoesTo DEF Typed
<1>3. attempts' \in [Epochs -> Int] /\ calls' \in [Epochs -> Int]
  BY <1>1 DEF Typed, NotWritten, traceVars
<1>4. Typed'
  BY <1>1, <1>2, <1>3 DEF Typed
<1>5. SavedAgrees'
  BY DEF IInv, SavedAgrees, Asking, MustAsk, Held, Decided, Undecided
<1>6. WorkerAgrees(e)'
  <2>1. CASE worker'[e] = worker[e]
    BY <2>1, OthersKeep DEF IInv, WorkersAgree
  <2>2. CASE worker'[e].pc = "none"
    BY <2>2, EndsKeep
  <2> QED BY <2>1, <2>2
<1>7. WorkersAgree'
  BY <1>2, <1>6, OthersKeep DEF IInv, WorkersAgree
<1> QED BY <1>4, <1>5, <1>7 DEF IInv

LEMMA PauseKeeps ==
    ASSUME IInv, NEW e \in Epochs, Pause(e)
    PROVE  IInv'
<1> DEFINE w == worker[e]
<1>1. w \in Workers /\ Typed /\ WorkerAgrees(e) /\ w.pc = "pausing"
  BY DEF IInv, Typed, WorkersAgree, Pause
<1>2. UNCHANGED <<saved, spent>> /\ NotWritten
  BY DEF Pause
<1>3. attempts' \in [Epochs -> Int] /\ calls' \in [Epochs -> Int]
  BY <1>1, <1>2, WritesKeep
<1>4. CASE ~Current(e)
  <2>1. Goes(e, Gone) /\ UNCHANGED <<run, decision>>
    BY <1>4 DEF Pause
  <2>2. WorkerAgrees(e)'
    BY <1>1, <2>1, GoneIsWorker, GoesTo, EndsKeep
  <2> QED BY <1>1, <1>2, <1>3, <2>1, <2>2, GoneIsWorker, RowsKeep DEF Typed
<1>5. CASE Current(e) /\ decision = "none"
  <2>1. /\ run' = [run EXCEPT !.status = "waiting_for_input", !.live = FALSE]
        /\ decision' = "pending" /\ Goes(e, Gone)
    BY <1>5 DEF Pause
  <2>2. /\ run'.status = "waiting_for_input"
        /\ run' \in [status : Statuses, epoch : 0 .. MaxEpoch, live : BOOLEAN]
    BY <1>1, <2>1 DEF Typed, Statuses
  <2>3. saved.asked
    BY <1>1, <1>5 DEF WorkerAgrees, Current
  <2>4. worker'[e].pc = "none"
    BY <1>1, <2>1, GoneIsWorker, GoesTo
  <2>5. StatusAgrees'
    BY <1>2, <2>1, <2>2, <2>3 DEF StatusAgrees
  <2>6. \A f \in Epochs : ~Authority(f)'
    BY <2>2 DEF Authority
  <2>7. decision' \in Resolutions
    BY <2>1 DEF Resolutions
  <2> QED BY <1>2, <2>1, <2>2, <2>3, <2>4, <2>5, <2>6, <2>7, GoneIsWorker, LeavingKeeps
<1>6. CASE Current(e) /\ decision # "none"
  <2> DEFINE v == [w EXCEPT !.pc = "ending", !.outcome = "failed"]
  <2>1. Goes(e, v) /\ UNCHANGED <<run, decision>>
    BY <1>6 DEF Pause
  <2>2. v \in Workers /\ v.pc = "ending" /\ v.outcome \in Breaks
    BY <1>1 DEF Workers, Outcomes, Breaks
  <2> HIDE DEF v
  <2>3. WorkerAgrees(e)'
    BY <1>1, <2>1, <2>2, GoesTo, EndsKeep
  <2> QED BY <1>1, <1>2, <1>3, <2>1, <2>2, <2>3, RowsKeep DEF Typed
<1> QED BY <1>4, <1>5, <1>6

LEMMA EndKeeps ==
    ASSUME IInv, NEW e \in Epochs, End(e)
    PROVE  IInv'
<1> DEFINE w == worker[e]
<1>1. /\ w \in Workers /\ w.st \in States /\ Typed /\ WorkerAgrees(e) /\ w.pc = "ending"
      /\ SavedAgrees /\ StatusAgrees
  BY DEF IInv, Typed, WorkersAgree, End, Workers
<1>2. Goes(e, Gone) /\ UNCHANGED <<saved, decision, spent>> /\ NotWritten
  BY DEF End
<1>3. attempts' \in [Epochs -> Int] /\ calls' \in [Epochs -> Int]
  BY <1>1, <1>2, WritesKeep
<1>4. worker'[e].pc = "none"
  BY <1>1, <1>2, GoneIsWorker, GoesTo
<1>5. CASE ~Current(e)
  <2>1. run' = run
    BY <1>5 DEF End
  <2>2. WorkerAgrees(e)'
    BY <1>4, EndsKeep
  <2> QED BY <1>1, <1>2, <1>3, <2>1, <2>2, GoneIsWorker, RowsKeep DEF Typed
<1>6. CASE Current(e)
  <2> DEFINE s == FinalStatus(w)
  <2>1. run' = [run EXCEPT !.status = s, !.live = FALSE] /\ run.status = "running"
    BY <1>6 DEF End, Current, Authority
  <2>2. w.outcome \in Breaks \cup {"succeeded", "budget"}
    BY <1>1 DEF WorkerAgrees
  <2>3. s \in {"completed", "completed_with_warnings", "failed", "interrupted", "timed_out"}
    BY <2>2 DEF FinalStatus, Breaks
  <2>4. s = "completed" => w.outcome = "succeeded" /\ ~w.st.limited
    BY <2>2 DEF FinalStatus, Breaks
  <2>5. s = "completed_with_warnings" =>
           w.outcome = "budget" \/ (w.outcome = "succeeded" /\ w.st.limited)
    BY <2>2 DEF FinalStatus, Breaks
  <2> HIDE DEF s
  <2>6. /\ run'.status = s
        /\ run' \in [status : Statuses, epoch : 0 .. MaxEpoch, live : BOOLEAN]
    BY <1>1, <2>1, <2>3 DEF Typed, Statuses
  <2>7. w.outcome = "succeeded" => saved.at = "end" /\ ~saved.asked /\ saved.st = w.st
    BY <1>1, <1>6 DEF WorkerAgrees, Current
  <2>8. w.outcome = "budget" => spent
    BY <1>1 DEF WorkerAgrees
  <2>9. w.outcome = "succeeded" /\ w.st.limited => decision = "limited_report"
    BY <1>1, <2>7 DEF SavedAgrees, Held, AfterGate, Decided
  <2>10. StatusAgrees'
    BY <1>1, <1>2, <2>1, <2>3, <2>4, <2>5, <2>6, <2>7, <2>8, <2>9 DEF StatusAgrees
  <2>11. \A f \in Epochs : ~Authority(f)'
    BY <2>3, <2>6 DEF Authority
  <2> QED BY <1>1, <1>2, <1>4, <2>6, <2>10, <2>11, GoneIsWorker, LeavingKeeps DEF Typed
<1> QED BY <1>5, <1>6

LEMMA SteadyKeeps ==
    ASSUME IInv, Expire \/ Recover \/ \E a \in {"provide_context", "limited_report", "cancel"} :
                                         Resolve(a)
    PROVE  IInv'
<1>1. Typed /\ StatusAgrees
  BY DEF IInv
<1>2. UNCHANGED <<saved, worker, spent>> /\ NotWritten
  BY DEF Expire, Recover, Resolve
<1>3. CASE Expire
  <2>1. run' = [run EXCEPT !.live = FALSE] /\ UNCHANGED decision
    BY <1>3 DEF Expire
  <2>2. /\ run'.status = run.status /\ run'.epoch = run.epoch
        /\ run' \in [status : Statuses, epoch : 0 .. MaxEpoch, live : BOOLEAN]
    BY <1>1, <2>1 DEF Typed
  <2>3. Typed'
    BY <1>1, <1>2, <2>1, <2>2 DEF Typed, NotWritten, traceVars
  <2>4. SavedAgrees' /\ StatusAgrees'
    BY <1>2, <2>1, <2>2
    DEF IInv, SavedAgrees, StatusAgrees, Asking, MustAsk, Held, Decided, Undecided
  <2>5. WorkersAgree'
    BY <1>2, <2>1, <2>2
    DEF IInv, WorkersAgree, WorkerAgrees, Authority, GoesOn, Delivering, Asking, MustAsk, Held,
        Decided, Undecided
  <2> QED BY <2>3, <2>4, <2>5 DEF IInv
<1>4. CASE Recover \/ \E a \in {"provide_context", "limited_report", "cancel"} : Resolve(a)
  <2>1. /\ run' \in [status : Statuses, epoch : 0 .. MaxEpoch, live : BOOLEAN]
        /\ run'.status \in {"queued", "interrupted", "cancelled"}
    BY <1>1, <1>4 DEF Typed, Recover, Resolve, Statuses
  <2>2. StatusAgrees' /\ decision' \in Resolutions /\ (saved.asked \/ decision' = decision)
    <3>1. CASE Recover
      BY <1>1, <1>2, <2>1, <3>1 DEF Typed, Recover, Orphaned, StatusAgrees
    <3>2. ASSUME NEW a \in {"provide_context", "limited_report", "cancel"}, Resolve(a)
          PROVE  StatusAgrees' /\ decision' \in Resolutions /\ saved.asked
      BY <1>1, <1>2, <2>1, <3>2 DEF Typed, Resolve, StatusAgrees, Resolutions
    <3> QED BY <1>4, <3>1, <3>2
  <2>3. \A f \in Epochs : ~Authority(f)'
    BY <2>1 DEF Authority
  <2>4. Typed' /\ SavedAgrees'
    BY <1>1, <1>2, <2>1, <2>2
    DEF Typed, NotWritten, traceVars, IInv, SavedAgrees, Asking, MustAsk, Held, Decided, Undecided
  <2>5. WorkersAgree'
    BY <1>2, <2>3, OthersKeep DEF IInv, WorkersAgree
  <2> QED BY <2>2, <2>4, <2>5 DEF IInv
<1> QED BY <1>3, <1>4

\* acquire_run_lease goes on from the last checkpoint, with the resolution if it was asked there.
LEMMA LeaseKeeps ==
    ASSUME IInv, NEW e \in Epochs, Lease(e)
    PROVE  IInv'
<1>0. PICK v, p, n :
        /\ p = IF saved.at = "end" THEN "ending" ELSE "ready"
        /\ n = IF saved.at = "none" THEN "query_analyzer" ELSE saved.at
        /\ v = [NoWorker EXCEPT !.pc = p, !.node = n, !.st = saved.st, !.answer = Answer(e),
                                !.outcome = "succeeded"]
  OBVIOUS
<1>1. /\ Typed /\ SavedAgrees /\ StatusAgrees /\ run.status = "queued"
      /\ saved.at \in Nodes \cup {"none", "end"} /\ saved.st \in States
      /\ decision \in Resolutions
  BY DEF IInv, Typed, Lease
<1>2. /\ run' = [status |-> "running", epoch |-> e, live |-> TRUE] /\ Goes(e, v)
      /\ UNCHANGED <<saved, decision, spent>> /\ NotWritten
  BY <1>0 DEF Lease
<1>3. Answer(e) \in Resolutions
  BY <1>1 DEF Answer, Resolutions
<1>4. /\ v \in Workers /\ v.st = saved.st /\ v.answer = Answer(e) /\ v.outcome = "succeeded"
      /\ v.pc = IF saved.at = "end" THEN "ending" ELSE "ready"
      /\ v.node = IF saved.at = "none" THEN "query_analyzer" ELSE saved.at
  <2>1. p \in {"ready", "ending"} /\ n \in Nodes \cup {"none", "end"}
    BY <1>0, <1>1, NodesAre DEF Before
  <2>2. v = [pc |-> p, node |-> n, st |-> saved.st, answer |-> Answer(e), attempt |-> FALSE,
             call |-> FALSE, outcome |-> "succeeded"]
    BY <1>0 DEF NoWorker
  <2>3. v \in Workers
    BY <1>1, <1>3, <2>1, <2>2, Zenon DEF Workers, Outcomes
  <2> QED BY <1>0, <2>2, <2>3
<1>5. /\ worker' \in [Epochs -> Workers] /\ worker'[e] = v
      /\ \A f \in Epochs \ {e} : worker'[f] = worker[f]
  BY <1>1, <1>2, <1>4, GoesTo
<1>6. /\ run'.status = "running" /\ run'.epoch = e
      /\ run' \in [status : Statuses, epoch : 0 .. MaxEpoch, live : BOOLEAN]
  <2>1. e \in 0 .. MaxEpoch
    BY BoundsAssumption DEF Epochs
  <2>2. [status |-> "running", epoch |-> e, live |-> TRUE]
           \in [status : Statuses, epoch : 0 .. MaxEpoch, live : BOOLEAN]
    BY <2>1, Zenon DEF Statuses
  <2> QED BY <1>2, <2>2
<1>7. attempts' \in [Epochs -> Int] /\ calls' \in [Epochs -> Int]
  BY <1>1, <1>2 DEF Typed, NotWritten, traceVars
<1>8. Typed'
  BY <1>1, <1>2, <1>5, <1>6, <1>7 DEF Typed
<1>9. SavedAgrees'
  BY <1>1, <1>2 DEF SavedAgrees, Asking, MustAsk, Held, Decided, Undecided
<1>10. StatusAgrees'
  BY <1>1, <1>2, <1>6 DEF StatusAgrees
<1>11. decision \notin {"pending", "cancel"}
  BY <1>1 DEF StatusAgrees
<1>12. CASE saved.asked
  <2>1. saved.at = Gate /\ MustAsk(saved.st) /\ ~saved.st.limited
    BY <1>1, <1>12 DEF SavedAgrees, Asking
  <2>2. v.node = Gate /\ v.pc = "ready" /\ v.answer = decision
    BY <1>4, <1>11, <1>12, <2>1 DEF Answer, Gate
  <2>3. GoesOn(v.node, v)' \/ Delivering(v)'
    <3>1. CASE decision = "none"
      BY <1>2, <1>4, <2>1, <2>2, <3>1 DEF GoesOn, Held, AfterGate, Gate, Undecided, MustAsk
    <3>2. CASE decision # "none"
      BY <1>1, <1>2, <1>4, <1>11, <2>1, <2>2, <3>2
      DEF Delivering, Asking, Resolutions, MustAsk
    <3> QED BY <3>1, <3>2
  <2>4. WorkerAgrees(e)'
    BY <1>4, <1>5, <2>2, <2>3, NodesAre DEF WorkerAgrees, Working, Gate
  <2> QED BY <1>8, <1>9, <1>10, <2>4, <1>2, <1>5, <1>6, OthersKeep
         DEF IInv, WorkersAgree, Authority
<1>13. CASE ~saved.asked
  <2>1. v.answer = "none" /\ Held(saved.at, v.st)
    BY <1>1, <1>4, <1>13 DEF Answer, SavedAgrees
  <2>2. ASSUME saved.at = "end" PROVE WorkerAgrees(e)'
    BY <1>2, <1>4, <1>5, <1>13, <2>2 DEF WorkerAgrees, Working, Breaks
  <2>3. ASSUME saved.at # "end" PROVE WorkerAgrees(e)'
    <3>1. v.pc = "ready" /\ v.node \in Nodes
      BY <1>1, <1>4, <2>3, NodesAre DEF Before
    <3>2. Held(v.node, v.st)
      BY <1>4, <2>1 DEF Held, AfterGate
    <3>3. GoesOn(v.node, v)'
      BY <1>2, <2>1, <3>2 DEF GoesOn, Held, Decided, Undecided
    <3> QED BY <1>5, <3>1, <3>3 DEF WorkerAgrees, Working
  <2>4. WorkerAgrees(e)'
    BY <2>2, <2>3
  <2> QED BY <1>8, <1>9, <1>10, <2>4, <1>2, <1>5, <1>6, OthersKeep
         DEF IInv, WorkersAgree, Authority
<1> QED BY <1>12, <1>13

-----------------------------------------------------------------------------
(***************************************************************************)
(* The theorems.                                                           *)
(***************************************************************************)
LEMMA InitImplies == Init => IInv
<1> SUFFICES ASSUME Init PROVE IInv
  OBVIOUS
<1>1. Empty \in States /\ ~Empty.limited /\ ~Empty.seen
  BY DEF Empty, States, Resolutions
<1>2. run \in [status : Statuses, epoch : 0 .. MaxEpoch, live : BOOLEAN] /\ run.status = "queued"
  <2>1. 0 \in 0 .. MaxEpoch
    BY BoundsAssumption
  <2>2. [status |-> "queued", epoch |-> 0, live |-> FALSE]
           \in [status : Statuses, epoch : 0 .. MaxEpoch, live : BOOLEAN]
    BY <2>1, Zenon DEF Statuses
  <2> QED BY <2>2 DEF Init
<1>3. /\ saved \in [at : Nodes \cup {"none", "end"}, st : States, asked : BOOLEAN]
      /\ saved.at = "none" /\ saved.st = Empty /\ ~saved.asked
  <2>1. Nowhere \in [at : Nodes \cup {"none", "end"}, st : States, asked : BOOLEAN]
    BY <1>1, Zenon DEF Nowhere
  <2> QED BY <2>1 DEF Init, Nowhere
<1>4. Typed
  <2>1. worker \in [Epochs -> Workers]
    BY GoneIsWorker DEF Init
  <2>2. attempts \in [Epochs -> Int] /\ calls \in [Epochs -> Int]
    BY DEF Init, TraceInit
  <2>3. decision \in Resolutions
    BY DEF Init, Resolutions
  <2>4. spent \in BOOLEAN
    BY DEF Init
  <2> QED BY <1>2, <1>3, <2>1, <2>2, <2>3, <2>4 DEF Typed
<1>5. SavedAgrees
  BY <1>1, <1>3 DEF Init, SavedAgrees, Held, AfterGate, Undecided
<1>6. StatusAgrees
  BY <1>2 DEF Init, StatusAgrees
<1>7. WorkersAgree
  BY DEF Init, NoWorker, WorkersAgree, WorkerAgrees, Working
<1> QED BY <1>4, <1>5, <1>6, <1>7 DEF IInv

LEMMA NextKeeps == IInv /\ [Next]_vars => IInv'
<1> SUFFICES ASSUME IInv, [Next]_vars PROVE IInv'
  OBVIOUS
<1>1. ASSUME NEW e \in Epochs, Step(e) PROVE IInv'
  BY <1>1, StartNodeKeeps, StartCallKeeps, EndCallKeeps, WorkKeeps, CloseAttemptKeeps,
     AcceptKeeps, PauseKeeps, EndKeeps DEF Step
<1>2. ASSUME NEW e \in Epochs, Lease(e) \/ Stop(e) \/ Crash(e) PROVE IInv'
  BY <1>2, LeaseKeeps, StopKeeps
<1>3. CASE UNCHANGED vars
  BY <1>3
  DEF vars, IInv, Typed, SavedAgrees, StatusAgrees, WorkersAgree, WorkerAgrees, Authority, GoesOn,
      Delivering, Asking, MustAsk, Held, Decided, Undecided
<1> QED BY <1>1, <1>2, <1>3, SteadyKeeps DEF Next

LEMMA AgreesAlways == Spec => []IInv
BY InitImplies, NextKeeps, PTL DEF Spec

\* The user is asked once in the life of a run: no execution comes to a second
\* pause, whatever crashes, is resumed or is researched again
\* (evidence_decision_gate.py, pause_for_decision).
THEOREM UserIsAskedOnce == Spec => []RunAgrees
<1>1. IInv => RunAgrees
  <2> SUFFICES ASSUME IInv PROVE RunAgrees
    OBVIOUS
  <2>1. TypeOK
    BY DEF IInv, Typed, TypeOK, Resolutions, Workers
  <2>2. NeverAsksTwice
    BY DEF IInv, WorkersAgree, WorkerAgrees, NeverAsksTwice, Current
  <2> QED BY <2>1, <2>2 DEF RunAgrees
<1> QED BY <1>1, AgreesAlways, PTL

\* What is published is what the user decided on, through every crash between the
\* answer and the end of the run.
THEOREM RunEndsAsDecided == Spec => []EndsAsDecided
<1>1. IInv => EndsAsDecided
  <2> SUFFICES ASSUME IInv PROVE EndsAsDecided
    OBVIOUS
  <2>1. ASSUME run.status = "completed"
        PROVE  /\ decision \in {"none", "provide_context"}
               /\ Doubtful(saved.st) => decision = "provide_context"
    <3>1. saved.at = "end" /\ ~saved.asked /\ ~saved.st.limited
      BY <2>1 DEF IInv, StatusAgrees
    <3>2. Decided("end", saved.st)
      BY <3>1 DEF IInv, SavedAgrees, Held, AfterGate
    <3> QED BY <3>1, <3>2 DEF Decided
  <2>2. run.status = "completed_with_warnings" => decision = "limited_report" \/ spent
    BY DEF IInv, StatusAgrees
  <2> QED BY <2>1, <2>2 DEF EndsAsDecided
<1> QED BY <1>1, AgreesAlways, PTL

\* An execution writes to the trace only while it has the run (_assert_authority).
THEOREM TraceWritesAreFenced == Spec => TraceIsFenced
<1> DEFINE Fenced == \A e \in Epochs : OpenRows(e)' # OpenRows(e)
                                          => run.status = "running" /\ run.epoch = e
<1>1. IInv /\ [Next]_vars => [Fenced]_<<attempts, calls>>
  <2> SUFFICES ASSUME IInv, [Next]_vars, NEW f \in Epochs, OpenRows(f)' # OpenRows(f)
               PROVE  run.status = "running" /\ run.epoch = f
    OBVIOUS
  <2>1. ~UNCHANGED <<attempts, calls>>
    BY DEF OpenRows
  <2>2. PICK e \in Epochs : StartNode(e) \/ StartCall(e) \/ EndCall(e) \/ CloseAttempt(e)
    BY <2>1 DEF Next, vars, Step, Lease, Work, Accept, Pause, End, Stop, Crash, Expire, Recover,
                Resolve, NotWritten, traceVars
  <2>3. PICK b \in BOOLEAN :
           \/ Written(e, AttemptStarted(e)) \/ Written(e, AttemptFinished(e, b))
           \/ Written(e, CallStarted(e, b)) \/ Written(e, CallFinished(e, b))
    <3>1. worker[e].attempt \in BOOLEAN /\ worker[e].call \in BOOLEAN
      BY DEF IInv, Typed, Workers
    <3> QED BY <2>1, <2>2, <3>1
            DEF StartNode, StartCall, EndCall, CloseAttempt, NotWritten, traceVars
  <2>4. Authority(e)
    BY <2>1, <2>3 DEF Written, NotWritten, traceVars
  <2>5. \A g \in Epochs \ {e} : attempts'[g] = attempts[g] /\ calls'[g] = calls[g]
    BY <2>3 DEF IInv, Typed, Written, Missed, NotWritten, traceVars, AttemptStarted,
                AttemptFinished, CallStarted, CallFinished
  <2>6. f = e
    BY <2>5 DEF OpenRows
  <2> QED BY <2>4, <2>6 DEF Authority
<1> QED BY <1>1, AgreesAlways, PTL DEF Spec, TraceIsFenced

-----------------------------------------------------------------------------
(***************************************************************************)
(* The open rows of the trace.  A worker that was not stopped holds a row  *)
(* of its attempt and one of its call for as long as it is inside of them; *)
(* every other open row of its epoch is the loss of a write.               *)
(***************************************************************************)
InAttempt == {"body", "calling", "working", "closing"}
HeldAttempt(w) == IF w.attempt /\ w.pc \in InAttempt THEN 1 ELSE 0
HeldCall(w) == IF w.call /\ w.pc = "calling" THEN 1 ELSE 0
HeldRows(w) == HeldAttempt(w) + HeldCall(w)

\* An execution whose rows are accounted for: neither gone nor ending on a stop or an error.
Accounts(w) == w.pc # "none" /\ ~(w.pc = "ending" /\ w.outcome \in Breaks)
Rests == Published \/ run.status = "waiting_for_input"

RowsOf(e) ==
    /\ run.epoch < e => OpenRows(e) <= 0
    /\ Authority(e) /\ Accounts(worker[e]) => OpenRows(e) <= missed + HeldRows(worker[e])
    /\ run.epoch = e /\ Rests => OpenRows(e) <= missed

TraceAgrees == missed \in Nat /\ \A e \in Epochs : RowsOf(e)

LEMMA RowsAreInts ==
    ASSUME Typed
    PROVE  /\ \A e \in Epochs : OpenRows(e) \in Int
           /\ \A w : HeldAttempt(w) \in {0, 1} /\ HeldCall(w) \in {0, 1}
           /\ \A w : HeldRows(w) \in {0, 1, 2}
<1>1. \A w : HeldAttempt(w) \in {0, 1} /\ HeldCall(w) \in {0, 1}
  BY DEF HeldAttempt, HeldCall
<1>2. \A w : HeldRows(w) \in {0, 1, 2}
  BY <1>1 DEF HeldRows
<1>3. \A e \in Epochs : OpenRows(e) \in Int
  BY DEF Typed, OpenRows
<1> QED BY <1>1, <1>2, <1>3

\* A step that writes nothing: the rows of an execution stay accounted for as long as it holds
\* no fewer of them, and when it comes to rest, it holds none.
LEMMA UnwrittenKeeps ==
    ASSUME Typed, TraceAgrees, NotWritten, run'.epoch \in Nat, run.epoch <= run'.epoch,
           \A e \in Epochs : Authority(e)' /\ Accounts(worker[e])' =>
              \/ run.epoch < e
              \/ /\ Authority(e) /\ Accounts(worker[e])
                 /\ HeldRows(worker[e]) <= HeldRows(worker[e])',
           \A e \in Epochs : run'.epoch = e /\ Rests' =>
              \/ run.epoch = e /\ Rests
              \/ Authority(e) /\ Accounts(worker[e]) /\ HeldRows(worker[e]) = 0
    PROVE  TraceAgrees'
<1>1. missed' = missed /\ \A e \in Epochs : OpenRows(e)' = OpenRows(e)
  BY DEF NotWritten, traceVars, OpenRows
<1>2. SUFFICES ASSUME NEW e \in Epochs PROVE RowsOf(e)'
  BY <1>1 DEF TraceAgrees
<1>3. /\ OpenRows(e) \in Int /\ HeldRows(worker[e]) \in {0, 1, 2}
      /\ HeldRows(worker'[e]) \in {0, 1, 2} /\ run.epoch \in Nat /\ missed \in Nat /\ e \in Nat
  <2>1. run.epoch \in Nat /\ e \in Nat
    BY BoundsAssumption DEF Typed, Epochs
  <2> QED BY <2>1, RowsAreInts DEF TraceAgrees
<1>4. RowsOf(e)
  BY DEF TraceAgrees
<1>5. run'.epoch < e => OpenRows(e)' <= 0
  BY <1>1, <1>3, <1>4 DEF RowsOf
<1>6. ASSUME Authority(e)' /\ Accounts(worker[e])'
      PROVE  OpenRows(e) <= missed + HeldRows(worker'[e])
  <2>1. CASE run.epoch < e
    <3>1. OpenRows(e) <= 0
      BY <1>4, <2>1 DEF RowsOf
    <3> QED BY <1>3, <3>1
  <2>2. CASE /\ Authority(e) /\ Accounts(worker[e])
             /\ HeldRows(worker[e]) <= HeldRows(worker'[e])
    <3>1. OpenRows(e) <= missed + HeldRows(worker[e])
      BY <1>4, <2>2 DEF RowsOf
    <3> QED BY <1>3, <2>2, <3>1
  <2> QED BY <1>6, <2>1, <2>2
<1>7. ASSUME run'.epoch = e /\ Rests' PROVE OpenRows(e) <= missed
  <2>1. CASE run.epoch = e /\ Rests
    BY <1>4, <2>1 DEF RowsOf
  <2>2. CASE Authority(e) /\ Accounts(worker[e]) /\ HeldRows(worker[e]) = 0
    <3>1. OpenRows(e) <= missed + HeldRows(worker[e])
      BY <1>4, <2>2 DEF RowsOf
    <3> QED BY <1>3, <2>2, <3>1
  <2> QED BY <1>7, <2>1, <2>2
<1> QED BY <1>1, <1>5, <1>6, <1>7 DEF RowsOf

\* A write of the execution that has the run: its rows and what it holds change by the same,
\* or the write is missed.
LEMMA WrittenKeeps ==
    ASSUME Typed, TraceAgrees, NEW e \in Epochs, Authority(e), UNCHANGED run,
           NEW w \in Workers, Goes(e, w), Accounts(worker[e]),
           missed' \in Nat, OpenRows(e)' \in Int,
           \A f \in Epochs \ {e} : OpenRows(f)' = OpenRows(f),
           OpenRows(e)' - OpenRows(e) <= (missed' - missed) + (HeldRows(w) - HeldRows(worker[e]))
    PROVE  TraceAgrees'
<1>1. worker'[e] = w
  BY GoesTo
<1>2. /\ OpenRows(e) \in Int /\ HeldRows(worker[e]) \in {0, 1, 2} /\ HeldRows(w) \in {0, 1, 2}
      /\ run.epoch = e /\ e \in Nat /\ missed \in Nat
  BY RowsAreInts, BoundsAssumption DEF Authority, Epochs, TraceAgrees
<1>3. OpenRows(e) <= missed + HeldRows(worker[e])
  BY DEF TraceAgrees, RowsOf
<1>4. OpenRows(e)' <= missed' + HeldRows(w)
  BY <1>2, <1>3
<1>5. ~Rests /\ ~Rests'
  BY DEF Authority, Rests, Published
<1>6. RowsOf(e)'
  BY <1>1, <1>2, <1>4, <1>5 DEF RowsOf
<1>7. ASSUME NEW f \in Epochs \ {e} PROVE RowsOf(f)'
  <2>1. ~Authority(f)' /\ run'.epoch # f
    BY <1>2 DEF Authority
  <2> QED BY <2>1 DEF TraceAgrees, RowsOf
<1> QED BY <1>6, <1>7 DEF TraceAgrees

-----------------------------------------------------------------------------
(***************************************************************************)
(* The steps that write.                                                   *)
(***************************************************************************)
\* A write changes the rows of its own epoch.
Changes(e, d) ==
    /\ OpenRows(e)' = OpenRows(e) + d
    /\ \A f \in Epochs \ {e} : OpenRows(f)' = OpenRows(f)
Loses(e) == missed' = missed + 1 /\ attempts' = attempts /\ calls' = calls /\ Changes(e, 0)
Does(e, d) == missed' = missed /\ Changes(e, d)

LEMMA MissIs ==
    ASSUME Typed, NEW e \in Epochs, Missed
    PROVE  Loses(e)
<1>1. OpenRows(e) \in Int
  BY RowsAreInts
<1>2. missed' = missed + 1 /\ attempts' = attempts /\ calls' = calls
  BY DEF Missed
<1>3. \A f \in Epochs : OpenRows(f)' = OpenRows(f)
  BY <1>2 DEF OpenRows
<1>4. OpenRows(e) + 0 = OpenRows(e)
  BY <1>1
<1> QED BY <1>2, <1>3, <1>4 DEF Loses, Changes

LEMMA AttemptWriteIs ==
    ASSUME Typed, NEW e \in Epochs, NEW d \in Int, attempts'[e] = attempts[e] + d,
           \A f \in Epochs \ {e} : attempts'[f] = attempts[f],
           calls' = calls, missed' = missed
    PROVE  Does(e, d)
<1>1. attempts[e] \in Int /\ calls[e] \in Int
  BY DEF Typed
<1>2. OpenRows(e)' = OpenRows(e) + d
  BY <1>1 DEF OpenRows
<1> QED BY <1>2 DEF OpenRows, Does, Changes

LEMMA CallWriteIs ==
    ASSUME Typed, NEW e \in Epochs, NEW d \in Int, calls'[e] = calls[e] + d,
           \A f \in Epochs \ {e} : calls'[f] = calls[f],
           attempts' = attempts, missed' = missed
    PROVE  Does(e, d)
<1>1. attempts[e] \in Int /\ calls[e] \in Int
  BY DEF Typed
<1>2. OpenRows(e)' = OpenRows(e) + d
  BY <1>1 DEF OpenRows
<1> QED BY <1>2 DEF OpenRows, Does, Changes

\* A start opens a row that the worker then knows of, or is missed.
LEMMA AttemptStartIs ==
    ASSUME Typed, NEW e \in Epochs, Authority(e), Written(e, AttemptStarted(e))
    PROVE  \/ Loses(e) /\ attempts' = attempts
           \/ Does(e, 1) /\ attempts' # attempts
<1>1. CASE Missed
  BY <1>1, MissIs DEF Loses
<1>2. CASE AttemptStarted(e)
  <2>1. /\ attempts'[e] = attempts[e] + 1
        /\ \A f \in Epochs \ {e} : attempts'[f] = attempts[f]
        /\ calls' = calls /\ missed' = missed
    BY <1>2 DEF AttemptStarted, Typed
  <2>2. attempts' # attempts
    BY <2>1 DEF Typed
  <2>3. Does(e, 1)
    BY <2>1, AttemptWriteIs
  <2> QED BY <2>2, <2>3
<1> QED BY <1>1, <1>2 DEF Written

LEMMA CallStartIs ==
    ASSUME Typed, NEW e \in Epochs, Authority(e), NEW b \in BOOLEAN, Written(e, CallStarted(e, b))
    PROVE  \/ Loses(e) /\ calls' = calls
           \/ Does(e, 0) /\ calls' = calls
           \/ Does(e, 1) /\ calls' # calls
<1>1. CASE Missed
  BY <1>1, MissIs DEF Loses
<1>2. CASE CallStarted(e, b) /\ b
  <2>1. /\ calls'[e] = calls[e] + 1
        /\ \A f \in Epochs \ {e} : calls'[f] = calls[f]
        /\ attempts' = attempts /\ missed' = missed
    BY <1>2 DEF CallStarted, Typed
  <2>2. calls' # calls
    BY <2>1 DEF Typed
  <2>3. Does(e, 1)
    BY <2>1, CallWriteIs
  <2> QED BY <2>2, <2>3
<1>3. CASE CallStarted(e, b) /\ ~b
  <2>1. attempts' = attempts /\ calls' = calls /\ missed' = missed
    BY <1>3 DEF CallStarted, Typed
  <2>2. OpenRows(e) \in Int /\ \A f \in Epochs : OpenRows(f)' = OpenRows(f)
    BY <2>1, RowsAreInts DEF OpenRows
  <2>3. OpenRows(e) + 0 = OpenRows(e)
    BY <2>2
  <2> QED BY <2>1, <2>2, <2>3 DEF Does, Changes
<1> QED BY <1>1, <1>2, <1>3 DEF Written

\* An end closes the row that was opened, or is missed.
LEMMA EndIs ==
    ASSUME Typed, NEW e \in Epochs, Authority(e), NEW b \in BOOLEAN,
           Written(e, AttemptFinished(e, b)) \/ Written(e, CallFinished(e, b))
    PROVE  Loses(e) \/ Does(e, IF b THEN -1 ELSE 0)
<1>1. CASE Missed
  BY <1>1, MissIs
<1>2. CASE b
  <2>1. CASE AttemptFinished(e, b)
    <3>1. attempts[e] - 1 = attempts[e] + (-1)
      BY DEF Typed
    <3>2. /\ attempts'[e] = attempts[e] + (-1)
          /\ \A f \in Epochs \ {e} : attempts'[f] = attempts[f]
          /\ calls' = calls /\ missed' = missed
      BY <1>2, <2>1, <3>1 DEF AttemptFinished, Typed
    <3>3. Does(e, -1)
      BY <3>2, AttemptWriteIs
    <3> QED BY <1>2, <3>3
  <2>2. CASE CallFinished(e, b)
    <3>1. calls[e] - 1 = calls[e] + (-1)
      BY DEF Typed
    <3>2. /\ calls'[e] = calls[e] + (-1)
          /\ \A f \in Epochs \ {e} : calls'[f] = calls[f]
          /\ attempts' = attempts /\ missed' = missed
      BY <1>2, <2>2, <3>1 DEF CallFinished, Typed
    <3>3. Does(e, -1)
      BY <3>2, CallWriteIs
    <3> QED BY <1>2, <3>3
  <2> QED BY <1>1, <2>1, <2>2 DEF Written
<1>3. CASE ~b /\ (AttemptFinished(e, b) \/ CallFinished(e, b))
  <2>1. attempts' = attempts /\ calls' = calls /\ missed' = missed
    BY <1>3 DEF AttemptFinished, CallFinished, Typed
  <2>2. OpenRows(e) \in Int /\ \A f \in Epochs : OpenRows(f)' = OpenRows(f)
    BY <2>1, RowsAreInts DEF OpenRows
  <2>3. OpenRows(e) + 0 = OpenRows(e)
    BY <2>2
  <2> QED BY <1>3, <2>1, <2>2, <2>3 DEF Does, Changes
<1> QED BY <1>1, <1>2, <1>3 DEF Written

\* The row that a worker holds, and the row that is open, change together.
LEMMA ChangeKeeps ==
    ASSUME Typed, TraceAgrees, NEW e \in Epochs, Authority(e), UNCHANGED run,
           NEW w \in Workers, Goes(e, w), Accounts(worker[e]), NEW d \in Int,
           \/ Does(e, d) /\ d <= HeldRows(w) - HeldRows(worker[e])
           \/ Loses(e) /\ HeldRows(worker[e]) <= HeldRows(w) + 1
    PROVE  TraceAgrees'
<1>1. /\ OpenRows(e) \in Int /\ HeldRows(worker[e]) \in {0, 1, 2} /\ HeldRows(w) \in {0, 1, 2}
      /\ missed \in Nat
  BY RowsAreInts DEF TraceAgrees
<1>2. PICK x \in Int, m \in {0, 1} :
         /\ missed' = missed + m /\ Changes(e, x)
         /\ x <= m + (HeldRows(w) - HeldRows(worker[e]))
  <2>1. CASE Does(e, d) /\ d <= HeldRows(w) - HeldRows(worker[e])
    <3>1. missed' = missed + 0 /\ Changes(e, d)
      BY <1>1, <2>1 DEF Does
    <3>2. d <= 0 + (HeldRows(w) - HeldRows(worker[e]))
      BY <1>1, <2>1
    <3> QED BY <3>1, <3>2
  <2>2. CASE Loses(e) /\ HeldRows(worker[e]) <= HeldRows(w) + 1
    <3>1. missed' = missed + 1 /\ Changes(e, 0)
      BY <2>2 DEF Loses
    <3>2. 0 <= 1 + (HeldRows(w) - HeldRows(worker[e]))
      BY <1>1, <2>2
    <3> QED BY <3>1, <3>2
  <2> QED BY <2>1, <2>2
<1>3. missed' \in Nat
  BY <1>1, <1>2
<1>4. /\ OpenRows(e)' = OpenRows(e) + x
      /\ \A f \in Epochs \ {e} : OpenRows(f)' = OpenRows(f)
  BY <1>2 DEF Changes
<1>5. OpenRows(e)' \in Int
  BY <1>1, <1>4
<1>6. OpenRows(e)' - OpenRows(e) <= (missed' - missed) + (HeldRows(w) - HeldRows(worker[e]))
  <2>1. OpenRows(e)' - OpenRows(e) = x /\ missed' - missed = m
    BY <1>1, <1>2, <1>4
  <2> QED BY <1>2, <2>1
<1> QED BY <1>3, <1>4, <1>5, <1>6, WrittenKeeps

\* A step of one execution that writes nothing and leaves the rows of the run alone.
LEMMA AloneKeeps ==
    ASSUME IInv, TraceAgrees, NotWritten, UNCHANGED run, NEW e \in Epochs, NEW w \in Workers,
           Goes(e, w),
           Authority(e) /\ Accounts(w) =>
              Accounts(worker[e]) /\ HeldRows(worker[e]) <= HeldRows(w)
    PROVE  TraceAgrees'
<1>1. /\ worker'[e] = w /\ \A f \in Epochs \ {e} : worker'[f] = worker[f]
  BY GoesTo DEF IInv
<1>2. run.epoch \in Nat /\ run.epoch <= run'.epoch
  BY BoundsAssumption DEF IInv, Typed
<1>3. ASSUME NEW f \in Epochs, Authority(f)' /\ Accounts(worker[f])'
      PROVE  /\ Authority(f) /\ Accounts(worker[f])
             /\ HeldRows(worker[f]) <= HeldRows(worker[f])'
  <2>1. Authority(f)
    BY <1>3 DEF Authority
  <2>2. CASE f = e
    BY <1>1, <1>3, <2>1, <2>2
  <2>3. CASE f # e
    <3>1. worker'[f] = worker[f] /\ Accounts(worker[f])
      BY <1>1, <1>3, <2>3
    <3>2. HeldRows(worker[f]) \in {0, 1, 2}
      BY RowsAreInts DEF IInv
    <3> QED BY <2>1, <3>1, <3>2
  <2> QED BY <2>2, <2>3
<1>4. Rests' => Rests
  BY DEF Rests, Published
<1> QED BY <1>2, <1>3, <1>4, UnwrittenKeeps DEF IInv

\* An execution that goes has nothing to account for.
LEMMA GoneKeeps ==
    ASSUME IInv, TraceAgrees, NotWritten, UNCHANGED run, NEW e \in Epochs, Goes(e, Gone)
    PROVE  TraceAgrees'
<1>1. ~Accounts(Gone)
  BY GoneIsWorker DEF Accounts
<1> QED BY <1>1, GoneIsWorker, AloneKeeps

LEMMA StartNodeAccounts ==
    ASSUME IInv, TraceAgrees, NEW e \in Epochs, StartNode(e)
    PROVE  TraceAgrees'
<1> DEFINE w == worker[e]
<1>1. w \in Workers /\ Typed /\ w.pc = "ready" /\ UNCHANGED run
  BY DEF IInv, Typed, StartNode
<1>2. CASE ~Current(e) /\ Goes(e, Gone) /\ NotWritten
  BY <1>1, <1>2, GoneKeeps
<1>3. CASE /\ Current(e) /\ Written(e, AttemptStarted(e))
           /\ Goes(e, [w EXCEPT !.pc = "body", !.attempt = attempts' # attempts])
  <2> DEFINE b == attempts' # attempts
             v == [w EXCEPT !.pc = "body", !.attempt = b]
  <2>1. v \in Workers /\ v.pc = "body" /\ v.attempt = b
    <3>1. b \in BOOLEAN
      OBVIOUS
    <3> HIDE DEF b
    <3> QED BY <1>1, <3>1 DEF Workers
  <2>2. Goes(e, v)
    BY <1>3
  <2>3. \/ Loses(e) /\ ~b
        \/ Does(e, 1) /\ b
    BY <1>1, <1>3, AttemptStartIs DEF Current
  <2> HIDE DEF b, v
  <2>4. HeldRows(w) = 0 /\ HeldRows(v) = IF b THEN 1 ELSE 0
    BY <1>1, <2>1 DEF HeldRows, HeldAttempt, HeldCall, InAttempt
  <2>5. Accounts(w)
    BY <1>1 DEF Accounts
  <2> QED BY <1>1, <1>3, <2>1, <2>2, <2>3, <2>4, <2>5, ChangeKeeps DEF Current
<1> QED BY <1>2, <1>3 DEF StartNode

LEMMA StartCallAccounts ==
    ASSUME IInv, TraceAgrees, NEW e \in Epochs, StartCall(e)
    PROVE  TraceAgrees'
<1> DEFINE w == worker[e]
           b == calls' # calls
           v == [w EXCEPT !.pc = "calling", !.call = b]
<1>1. /\ w \in Workers /\ Typed /\ w.pc = "body" /\ w.attempt \in BOOLEAN /\ UNCHANGED run
      /\ Written(e, CallStarted(e, w.attempt)) /\ Goes(e, v)
  BY DEF IInv, Typed, StartCall, Workers
<1>2. v \in Workers /\ v.pc = "calling" /\ v.attempt = w.attempt /\ v.call = b
  <2>1. b \in BOOLEAN
    OBVIOUS
  <2> HIDE DEF b
  <2> QED BY <1>1, <2>1 DEF Workers
<1> HIDE DEF v
<1>3. Accounts(w) /\ Accounts(v)
  BY <1>1, <1>2 DEF Accounts
<1>4. /\ HeldRows(w) = HeldAttempt(w)
      /\ HeldRows(v) = HeldAttempt(w) + (IF b THEN 1 ELSE 0) /\ HeldAttempt(w) \in {0, 1}
  <2>1. HeldAttempt(v) = HeldAttempt(w) /\ HeldCall(w) = 0 /\ HeldCall(v) = IF b THEN 1 ELSE 0
    BY <1>1, <1>2 DEF HeldAttempt, HeldCall, InAttempt
  <2>2. HeldAttempt(w) \in {0, 1}
    BY <1>1, RowsAreInts
  <2> QED BY <2>1, <2>2 DEF HeldRows
<1>5. CASE Authority(e)
  <2>1. \/ Loses(e) /\ ~b
        \/ Does(e, 0) /\ ~b
        \/ Does(e, 1) /\ b
    BY <1>1, <1>5, CallStartIs
  <2> HIDE DEF b
  <2> QED BY <1>1, <1>2, <1>3, <1>4, <1>5, <2>1, ChangeKeeps
<1>6. CASE ~Authority(e)
  <2>1. NotWritten
    BY <1>1, <1>6 DEF Written
  <2> QED BY <1>1, <1>2, <1>6, <2>1, AloneKeeps
<1> QED BY <1>5, <1>6

LEMMA EndCallAccounts ==
    ASSUME IInv, TraceAgrees, NEW e \in Epochs, EndCall(e)
    PROVE  TraceAgrees'
<1> DEFINE w == worker[e]
<1>1. /\ w \in Workers /\ Typed /\ w.pc = "calling" /\ w.call \in BOOLEAN /\ UNCHANGED run
      /\ Written(e, CallFinished(e, w.call))
  BY DEF IInv, Typed, EndCall, Workers
<1>2. PICK v : /\ Goes(e, v)
               /\ \/ v = [w EXCEPT !.pc = "closing", !.outcome = "budget"]
                  \/ v = [w EXCEPT !.pc = "working"]
                  \/ \E s \in Breaks : v = [w EXCEPT !.pc = "closing", !.outcome = s]
  BY DEF EndCall
<1>3. v \in Workers /\ v.pc \in {"closing", "working"} /\ v.attempt = w.attempt
  BY <1>1, <1>2 DEF Workers, Outcomes, Breaks
<1>4. Accounts(w) /\ Accounts(v)
  BY <1>1, <1>3 DEF Accounts
<1>5. /\ HeldRows(w) = HeldAttempt(w) + (IF w.call THEN 1 ELSE 0)
      /\ HeldRows(v) = HeldAttempt(w) /\ HeldAttempt(w) \in {0, 1}
  <2>1. HeldAttempt(v) = HeldAttempt(w) /\ HeldCall(v) = 0
        /\ HeldCall(w) = IF w.call THEN 1 ELSE 0
    BY <1>1, <1>3 DEF HeldAttempt, HeldCall, InAttempt
  <2>2. HeldAttempt(w) \in {0, 1}
    BY <1>1, RowsAreInts
  <2> QED BY <2>1, <2>2 DEF HeldRows
<1>6. CASE Authority(e)
  <2>1. PICK d \in Int : d = IF w.call THEN -1 ELSE 0
    OBVIOUS
  <2>2. Loses(e) \/ Does(e, d)
    BY <1>1, <1>6, <2>1, EndIs
  <2>3. d <= HeldRows(v) - HeldRows(w) /\ HeldRows(w) <= HeldRows(v) + 1
    BY <1>5, <2>1
  <2> QED BY <1>1, <1>2, <1>3, <1>4, <1>6, <2>2, <2>3, ChangeKeeps
<1>7. CASE ~Authority(e)
  <2>1. NotWritten
    BY <1>1, <1>7 DEF Written
  <2> QED BY <1>1, <1>2, <1>3, <1>7, <2>1, AloneKeeps
<1> QED BY <1>6, <1>7

LEMMA CloseAttemptAccounts ==
    ASSUME IInv, TraceAgrees, NEW e \in Epochs, CloseAttempt(e)
    PROVE  TraceAgrees'
<1> DEFINE w == worker[e]
<1>1. /\ w \in Workers /\ Typed /\ w.pc = "closing" /\ w.attempt \in BOOLEAN /\ UNCHANGED run
  BY DEF IInv, Typed, CloseAttempt, Workers
<1>2. Written(e, AttemptFinished(e, w.attempt))
  <2>1. w.outcome # "none"
    BY <1>1 DEF IInv, WorkersAgree, WorkerAgrees
  <2>2. w.outcome \in Recorded
    BY <1>1, <2>1 DEF Workers, Outcomes, Recorded
  <2> QED BY <2>2 DEF CloseAttempt
<1>3. PICK v : /\ Goes(e, v)
               /\ \/ v = Gone \/ v = [w EXCEPT !.pc = "accepting"]
                  \/ v = [w EXCEPT !.pc = "ending"]
  BY DEF CloseAttempt
<1>4. v \in Workers /\ v.pc \in {"none", "accepting", "ending"}
  BY <1>1, <1>3, GoneIsWorker DEF Workers
<1>5. HeldRows(v) = 0 /\ HeldRows(w) = IF w.attempt THEN 1 ELSE 0
  BY <1>1, <1>4 DEF HeldRows, HeldAttempt, HeldCall, InAttempt
<1>6. Accounts(w)
  BY <1>1 DEF Accounts
<1>7. CASE Authority(e)
  <2>1. PICK d \in Int : d = IF w.attempt THEN -1 ELSE 0
    OBVIOUS
  <2>2. Loses(e) \/ Does(e, d)
    BY <1>1, <1>2, <1>7, <2>1, EndIs
  <2>3. d <= HeldRows(v) - HeldRows(w) /\ HeldRows(w) <= HeldRows(v) + 1
    BY <1>5, <2>1
  <2> QED BY <1>1, <1>3, <1>4, <1>6, <1>7, <2>2, <2>3, ChangeKeeps
<1>8. CASE ~Authority(e)
  <2>1. NotWritten
    BY <1>2, <1>8 DEF Written
  <2> QED BY <1>1, <1>3, <1>4, <1>8, <2>1, AloneKeeps
<1> QED BY <1>7, <1>8

-----------------------------------------------------------------------------
(***************************************************************************)
(* The steps that write nothing.                                           *)
(***************************************************************************)
LEMMA WorkAccounts ==
    ASSUME IInv, TraceAgrees, NEW e \in Epochs, Work(e)
    PROVE  TraceAgrees'
<1> DEFINE w == worker[e]
<1>1. /\ w \in Workers /\ Typed /\ w.pc \in {"body", "working"} /\ UNCHANGED run /\ NotWritten
      /\ worker' \in [Epochs -> Workers]
  <2>1. IInv'
    BY WorkKeeps
  <2> QED BY <2>1 DEF IInv, Typed, Work
<1>2. PICK st, o : \/ Goes(e, [w EXCEPT !.pc = "closing", !.outcome = o])
                   \/ Goes(e, [w EXCEPT !.pc = "closing", !.st = st, !.outcome = o])
  <2>1. CASE \E st : Return(e, w, st)
    BY <2>1 DEF Return
  <2>2. CASE \E o \in Breaks \cup {"interrupted"} :
                Goes(e, [w EXCEPT !.pc = "closing", !.outcome = o])
    BY <2>2
  <2>3. (\E st : Return(e, w, st)) \/ \E o \in Breaks \cup {"interrupted"} :
                                         Goes(e, [w EXCEPT !.pc = "closing", !.outcome = o])
    BY DEF Work
  <2> QED BY <2>1, <2>2, <2>3
<1> DEFINE same == [w EXCEPT !.pc = "closing", !.outcome = o]
           done == [w EXCEPT !.pc = "closing", !.st = st, !.outcome = o]
<1>3. /\ same.pc = "closing" /\ same.attempt = w.attempt /\ same.call = w.call
      /\ done.pc = "closing" /\ done.attempt = w.attempt /\ done.call = w.call
  BY <1>1 DEF Workers
<1>4. PICK v : Goes(e, v) /\ v.pc = "closing" /\ v.attempt = w.attempt /\ v.call = w.call
  <2> HIDE DEF same, done
  <2>1. Goes(e, same) \/ Goes(e, done)
    BY <1>2 DEF same, done
  <2> QED BY <1>3, <2>1
<1>5. v \in Workers
  BY <1>1, <1>4 DEF Goes, Typed
<1>6. Accounts(w) /\ HeldRows(w) <= HeldRows(v)
  <2>1. HeldAttempt(v) = HeldAttempt(w) /\ HeldCall(v) = 0 /\ HeldCall(w) = 0
    BY <1>1, <1>4 DEF HeldAttempt, HeldCall, InAttempt
  <2>2. HeldAttempt(w) \in {0, 1}
    BY <1>1, RowsAreInts
  <2> QED BY <1>1, <2>1, <2>2 DEF HeldRows, Accounts
<1> QED BY <1>1, <1>4, <1>5, <1>6, AloneKeeps

LEMMA AcceptAccounts ==
    ASSUME IInv, TraceAgrees, NEW e \in Epochs, Accept(e)
    PROVE  TraceAgrees'
<1> DEFINE w == worker[e]
<1>1. /\ w \in Workers /\ Typed /\ w.pc = "accepting" /\ UNCHANGED run /\ NotWritten
      /\ worker' \in [Epochs -> Workers]
  <2>1. IInv'
    BY AcceptKeeps
  <2> QED BY <2>1 DEF IInv, Typed, Accept
<1>2. PICK v : Goes(e, v)
  BY DEF Accept
<1>3. v \in Workers
  BY <1>1, <1>2 DEF Goes, Typed
<1>4. Accounts(w) /\ HeldRows(w) = 0
  BY <1>1 DEF HeldRows, HeldAttempt, HeldCall, InAttempt, Accounts
<1>5. HeldRows(v) \in {0, 1, 2}
  BY <1>1, RowsAreInts
<1> QED BY <1>1, <1>2, <1>3, <1>4, <1>5, AloneKeeps

\* The run waits for its user with the rows of the execution closed.
LEMMA PauseAccounts ==
    ASSUME IInv, TraceAgrees, NEW e \in Epochs, Pause(e)
    PROVE  TraceAgrees'
<1> DEFINE w == worker[e]
<1>1. w \in Workers /\ Typed /\ w.pc = "pausing" /\ NotWritten
  BY DEF IInv, Typed, Pause
<1>2. Accounts(w) /\ HeldRows(w) = 0
  BY <1>1 DEF HeldRows, HeldAttempt, HeldCall, InAttempt, Accounts
<1>3. CASE ~Current(e)
  BY <1>1, <1>3, GoneKeeps DEF Pause
<1>4. CASE Current(e) /\ decision = "none"
  <2>1. run' = [run EXCEPT !.status = "waiting_for_input", !.live = FALSE]
    BY <1>4 DEF Pause
  <2>2. run'.epoch = run.epoch /\ run'.status = "waiting_for_input" /\ run.epoch \in Nat
    BY <1>1, <2>1, BoundsAssumption DEF Typed
  <2>3. \A f \in Epochs : ~Authority(f)'
    BY <2>2 DEF Authority
  <2>4. Authority(e)
    BY <1>4 DEF Current
  <2>5. run.epoch <= run'.epoch
    BY <2>2
  <2> QED BY <1>1, <1>2, <2>2, <2>3, <2>4, <2>5, UnwrittenKeeps DEF Authority
<1>5. CASE Current(e) /\ decision # "none"
  <2> DEFINE v == [w EXCEPT !.pc = "ending", !.outcome = "failed"]
  <2>1. Goes(e, v) /\ UNCHANGED run
    BY <1>5 DEF Pause
  <2>2. v \in Workers
    BY <1>1 DEF Workers, Outcomes, Breaks
  <2> HIDE DEF v
  <2>3. HeldRows(v) \in {0, 1, 2}
    BY <1>1, RowsAreInts
  <2> QED BY <1>1, <1>2, <2>1, <2>2, <2>3, AloneKeeps
<1> QED BY <1>3, <1>4, <1>5

\* What is published was closed: an execution that was stopped publishes nothing.
LEMMA EndAccounts ==
    ASSUME IInv, TraceAgrees, NEW e \in Epochs, End(e)
    PROVE  TraceAgrees'
<1> DEFINE w == worker[e]
<1>1. w \in Workers /\ Typed /\ w.pc = "ending" /\ NotWritten /\ Goes(e, Gone)
  BY DEF IInv, Typed, End
<1>2. CASE ~Current(e)
  BY <1>1, <1>2, GoneKeeps DEF End
<1>3. CASE Current(e)
  <2>1. run' = [run EXCEPT !.status = FinalStatus(w), !.live = FALSE]
    BY <1>3 DEF End
  <2>2. run'.epoch = run.epoch /\ run'.status = FinalStatus(w) /\ run.epoch \in Nat
    BY <1>1, <2>1, BoundsAssumption DEF Typed
  <2>3. w.outcome \in Breaks \cup {"succeeded", "budget"}
    BY <1>1 DEF IInv, WorkersAgree, WorkerAgrees
  <2>4. run'.status \notin {"running", "waiting_for_input"}
    BY <2>2, <2>3 DEF FinalStatus, Breaks
  <2>5. Rests' => w.outcome \notin Breaks
    BY <2>2, <2>3, <2>4 DEF Rests, Published, FinalStatus, Breaks
  <2>6. Rests' => Accounts(w) /\ HeldRows(w) = 0
    BY <1>1, <2>5 DEF HeldRows, HeldAttempt, HeldCall, InAttempt, Accounts
  <2>7. \A f \in Epochs : ~Authority(f)'
    BY <2>4 DEF Authority
  <2>8. Authority(e) /\ run.epoch <= run'.epoch
    BY <1>3, <2>2 DEF Current
  <2> QED BY <1>1, <2>2, <2>6, <2>7, <2>8, UnwrittenKeeps DEF Authority
<1> QED BY <1>2, <1>3

LEMMA StopAccounts ==
    ASSUME IInv, TraceAgrees, NEW e \in Epochs, Stop(e) \/ Crash(e)
    PROVE  TraceAgrees'
<1>1. CASE Crash(e)
  BY <1>1, GoneKeeps DEF Crash
<1>2. CASE Stop(e)
  <2> DEFINE w == worker[e]
             v == [w EXCEPT !.pc = "ending", !.outcome = "cancelled"]
  <2>1. w \in Workers /\ Goes(e, v) /\ NotWritten /\ UNCHANGED run
    BY <1>2 DEF Stop, IInv, Typed
  <2>2. v \in Workers /\ ~Accounts(v)
    BY <2>1 DEF Workers, Outcomes, Breaks, Accounts
  <2> HIDE DEF v
  <2> QED BY <2>1, <2>2, AloneKeeps
<1> QED BY <1>1, <1>2

\* The lease of a new execution begins without rows.
LEMMA LeaseAccounts ==
    ASSUME IInv, TraceAgrees, NEW e \in Epochs, Lease(e)
    PROVE  TraceAgrees'
<1>1. /\ Typed /\ NotWritten /\ e = run.epoch + 1
      /\ run' = [status |-> "running", epoch |-> e, live |-> TRUE]
  BY DEF IInv, Lease
<1>2. run.epoch \in Nat /\ run'.epoch = e /\ run'.status = "running"
  BY <1>1, BoundsAssumption DEF Typed
<1>3. run.epoch < e /\ run.epoch <= run'.epoch /\ run'.epoch \in Nat
  BY <1>1, <1>2
<1>4. ~Rests' /\ \A f \in Epochs : Authority(f)' => f = e
  BY <1>2 DEF Rests, Published, Authority
<1> QED BY <1>1, <1>3, <1>4, UnwrittenKeeps

LEMMA SteadyAccounts ==
    ASSUME IInv, TraceAgrees,
           Expire \/ Recover \/ \E a \in {"provide_context", "limited_report", "cancel"} :
                                  Resolve(a)
    PROVE  TraceAgrees'
<1>1. Typed /\ NotWritten /\ worker' = worker
  BY DEF IInv, Expire, Recover, Resolve
<1>2. run'.epoch = run.epoch /\ run.epoch \in Nat
  BY <1>1, BoundsAssumption DEF Typed, Expire, Recover, Resolve
<1>3. \/ run'.status = run.status
      \/ run'.status \in {"queued", "interrupted", "cancelled"}
  BY <1>1 DEF Typed, Expire, Recover, Resolve
<1>4. /\ Rests' => Rests
      /\ \A f \in Epochs : Authority(f)' => Authority(f)
  BY <1>2, <1>3 DEF Rests, Published, Authority
<1>5. \A f \in Epochs : HeldRows(worker[f]) <= HeldRows(worker[f])'
  <2>1. \A f \in Epochs : HeldRows(worker[f]) \in {0, 1, 2}
    BY <1>1, RowsAreInts
  <2>2. \A f \in Epochs : HeldRows(worker[f])' = HeldRows(worker[f])
    BY <1>1
  <2> QED BY <2>1, <2>2
<1>6. \A f \in Epochs : Accounts(worker[f])' => Accounts(worker[f])
  BY <1>1
<1>7. run.epoch <= run'.epoch /\ run'.epoch \in Nat
  BY <1>2
<1> QED BY <1>1, <1>2, <1>4, <1>5, <1>6, <1>7, UnwrittenKeeps

LEMMA InitAccounts == Init => TraceAgrees
<1> SUFFICES ASSUME Init PROVE TraceAgrees
  OBVIOUS
<1>1. missed = 0 /\ \A e \in Epochs : attempts[e] = 0 /\ calls[e] = 0
  BY DEF Init, TraceInit
<1>2. \A e \in Epochs : OpenRows(e) = 0
  BY <1>1 DEF OpenRows
<1>3. ~Rests /\ \A e \in Epochs : ~Authority(e)
  BY DEF Init, Rests, Published, Authority
<1> QED BY <1>1, <1>2, <1>3 DEF TraceAgrees, RowsOf

LEMMA NextAccounts == IInv /\ TraceAgrees /\ [Next]_vars => TraceAgrees'
<1> SUFFICES ASSUME IInv, TraceAgrees, [Next]_vars PROVE TraceAgrees'
  OBVIOUS
<1>1. ASSUME NEW e \in Epochs, Step(e) PROVE TraceAgrees'
  BY <1>1, StartNodeAccounts, StartCallAccounts, EndCallAccounts, WorkAccounts,
     CloseAttemptAccounts, AcceptAccounts, PauseAccounts, EndAccounts DEF Step
<1>2. ASSUME NEW e \in Epochs, Lease(e) \/ Stop(e) \/ Crash(e) PROVE TraceAgrees'
  BY <1>2, LeaseAccounts, StopAccounts
<1>3. CASE UNCHANGED vars
  BY <1>3 DEF vars, TraceAgrees, RowsOf, OpenRows, Authority, Accounts, HeldRows, HeldAttempt,
              HeldCall, Rests, Published
<1> QED BY <1>1, <1>2, <1>3, SteadyAccounts DEF Next

\* Once a run is published or waits for its user, the rows that its execution left
\* open are no more than the trace writes that failed (_timed_node, _best_effort).
THEOREM OpenRowsAreExplained == Spec => []OpenRowsExplained
<1>1. TraceAgrees => OpenRowsExplained
  BY DEF TraceAgrees, RowsOf, Rests, OpenRowsExplained
<1> QED BY <1>1, AgreesAlways, InitAccounts, NextAccounts, PTL DEF Spec
=============================================================================
