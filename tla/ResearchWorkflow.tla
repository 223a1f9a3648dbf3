-------------------------- MODULE ResearchWorkflow --------------------------
(***************************************************************************)
(* The research graph of a run (agents/orchestrator.py), as the runner of  *)
(* the coordinator drives it: its nodes behind the guard and the trace,    *)
(* the evidence gate that may pause the run for one human decision         *)
(* (agents/evidence_decision_gate.py), the self review, the budget that    *)
(* may run out inside or behind any node and the limited report that then  *)
(* takes the place of the result (budget/limited.py).  An execution may    *)
(* stop, crash or lose its lease between any two steps; the next one goes  *)
(* on from the last accepted checkpoint.                                   *)
(***************************************************************************)
EXTENDS RunTrace, Sequences

CONSTANT Calling       \* the nodes that call a provider

VARIABLES saved,      \* the last accepted checkpoint: the node that is next, the state, and
                      \* whether it is the interrupt of the gate
          decision,   \* none, pending, or its resolution
          worker,     \* epoch -> the execution
          spent       \* a call or a node has found the hard limit of the run reached

vars == <<run, attempts, calls, missed, saved, decision, worker, spent, trouble>>

Pipeline == <<"query_analyzer", "query_adapter", "multi_retriever", "source_evaluator",
              "conflict_detector", "evidence_chain", "conclusion_synthesizer",
              "citation_validator", "evidence_decision_gate", "report_generator",
              "self_reviewer">>
Nodes == {Pipeline[k] : k \in DOMAIN Pipeline}
Following(n) == Pipeline[CHOOSE k \in 2 .. Len(Pipeline) : Pipeline[k - 1] = n]

\* What the graph's decisions depend on.  scores: the chains that the scored
\* sources would give; chains: evidence_chains.  unusable: disputed ones only.
Empty == [scores |-> "none", chains |-> "none", uncertain |-> FALSE, seen |-> FALSE,
          route |-> "none", limited |-> FALSE, confidence |-> "medium", gaps |-> 0,
          retries |-> 0]

Nowhere == [at |-> "none", st |-> Empty, asked |-> FALSE]
NoWorker == [pc |-> "none", node |-> "none", st |-> Empty, answer |-> "none",
             attempt |-> FALSE, call |-> FALSE, outcome |-> "none"]

Init ==
    /\ run = [status |-> "queued", epoch |-> 0, live |-> FALSE]
    /\ TraceInit
    /\ saved = Nowhere /\ decision = "none"
    /\ worker = [e \in Epochs |-> NoWorker]
    /\ spent = FALSE /\ trouble = 0

-----------------------------------------------------------------------------
\* usable_evidence_chains and minimum_evidence_is_met: an empty list stands for
\* chains that were not built yet.
Usable(st) == IF st.chains = "none" THEN st.scores
              ELSE IF st.chains = "unusable" THEN "none" ELSE st.chains
MinimumMet(st) == Usable(st) = "enough"

\* build_budget_limited_state, which asks for the minimum of what is usable.
LimitedState(st) == [st EXCEPT !.chains = Usable(st)]
LimitedPossible(st) == MinimumMet(LimitedState(st))

\* should_request_evidence_decision.  Mutant: only while no decision was asked for.
Doubtful(st) == ~MinimumMet(st) /\ st.uncertain
MustAsk_Undecided(st) == ~st.seen /\ Doubtful(st) /\ decision = "none"
MustAsk(st) == ~st.seen /\ Doubtful(st)

\* The gate with the resolution it is resumed with.  Mutant: a supplement opens
\* the gate again.
Answered_SeenLost(st, a) ==
    [st EXCEPT !.seen = a # "provide_context", !.route = a, !.limited = (a = "limited_report")]
Answered(st, a) ==
    [st EXCEPT !.seen = TRUE, !.route = a, !.limited = (a = "limited_report")]

\* What a node may make of the state.
Results(n, st) ==
    CASE n = "source_evaluator" -> {[st EXCEPT !.scores = s] : s \in {"thin", "enough"}}
      [] n = "evidence_chain" ->
            {[st EXCEPT !.chains = c] :
               c \in IF st.scores = "thin" THEN {"thin", "unusable"} ELSE {"enough"}}
      [] n = "conclusion_synthesizer" -> {[st EXCEPT !.uncertain = u] : u \in BOOLEAN}
      [] n = "self_reviewer" ->
            {[st EXCEPT !.confidence = c, !.gaps = IF c = "low" THEN 3 ELSE 0, !.retries = 1] :
               c \in {"medium", "low"}}
      [] OTHER -> {st}

\* _route_after_review: the review has counted itself by now.
RouteAfterReview(st) ==
    IF st.confidence # "low" \/ st.retries >= 1 THEN "end"
    ELSE IF st.gaps <= 2 THEN "query_adapter" ELSE "query_analyzer"

\* The edges of _create_workflow.
NextNode(n, st) ==
    CASE n = "evidence_decision_gate" ->
            (CASE st.route = "provide_context" -> "query_adapter"
               [] st.route = "limited_report" -> "end"
               [] OTHER -> "report_generator")
      [] n = "self_reviewer" -> RouteAfterReview(st)
      [] OTHER -> Following(n)

-----------------------------------------------------------------------------
\* The guard: owner, epoch, status and an unexpired lease.
Current(e) == Authority(e) /\ run.live
Goes(e, w) == worker' = [worker EXCEPT ![e] = w]
Gone == NoWorker
Overspent == spent' = TRUE
Affordable == ~spent /\ UNCHANGED spent
Breaks == {"cancelled", "timed_out", "failed"}
Troubled == trouble + missed < MaxTrouble /\ trouble' = trouble + 1
Quiet == UNCHANGED trouble

\* acquire_run_lease, and the checkpoint the coordinator resumes from.  The
\* resolution goes with the checkpoint it was asked at.
Answer(e) == IF saved.asked /\ decision # "pending" THEN decision ELSE "none"

Lease(e) ==
    /\ run.status = "queued" /\ e = run.epoch + 1
    /\ run' = [status |-> "running", epoch |-> e, live |-> TRUE]
    /\ Goes(e, [NoWorker EXCEPT !.pc = IF saved.at = "end" THEN "ending" ELSE "ready",
                                !.node = IF saved.at = "none" THEN "query_analyzer" ELSE saved.at,
                                !.st = saved.st, !.answer = Answer(e), !.outcome = "succeeded"])
    /\ UNCHANGED <<saved, decision, spent>> /\ Quiet /\ NotWritten

\* _timed_node: the guard, then the attempt.
StartNode(e) ==
    LET w == worker[e]
    IN /\ w.pc = "ready"
       /\ \/ ~Current(e) /\ Goes(e, Gone) /\ NotWritten
          \/ /\ Current(e)
             /\ Written(e, AttemptStarted(e))
             /\ Goes(e, [w EXCEPT !.pc = "body", !.attempt = attempts' # attempts])
       /\ UNCHANGED <<run, saved, decision, spent>> /\ Quiet

StartCall(e) ==
    LET w == worker[e]
    IN /\ w.pc = "body" /\ w.node \in Calling
       /\ Written(e, CallStarted(e, w.attempt))
       /\ Goes(e, [w EXCEPT !.pc = "calling", !.call = calls' # calls])
       /\ UNCHANGED <<run, saved, decision, spent>> /\ Quiet

\* The call ends, or was not admitted; a node goes on without the answer of a
\* provider that failed.
EndCall(e) ==
    LET w == worker[e]
    IN /\ w.pc = "calling"
       /\ Written(e, CallFinished(e, w.call))
       /\ \/ Overspent /\ Quiet /\ Goes(e, [w EXCEPT !.pc = "closing", !.outcome = "budget"])
          \/ Affordable /\ Quiet /\ Goes(e, [w EXCEPT !.pc = "working"])
          \/ /\ Troubled /\ UNCHANGED spent
             /\ \E s \in Breaks : Goes(e, [w EXCEPT !.pc = "closing", !.outcome = s])
       /\ UNCHANGED <<run, saved, decision>>

\* The node returns, behind the second guard and the budget.
Return(e, w, st) ==
    \/ /\ ~Current(e) /\ UNCHANGED spent
       /\ Goes(e, [w EXCEPT !.pc = "closing", !.outcome = "lost"])
    \/ /\ Current(e) /\ Overspent
       /\ Goes(e, [w EXCEPT !.pc = "closing", !.st = st, !.outcome = "budget"])
    \/ /\ Current(e) /\ Affordable
       /\ Goes(e, [w EXCEPT !.pc = "closing", !.st = st, !.outcome = "succeeded"])

Work(e) ==
    LET w == worker[e]
    IN /\ w.pc = (IF w.node \in Calling THEN "working" ELSE "body")
       /\ \/ /\ w.node # "evidence_decision_gate" /\ Quiet
             /\ \E st \in Results(w.node, w.st) : Return(e, w, st)
          \/ /\ w.node = "evidence_decision_gate" /\ Quiet
             /\ IF ~MustAsk(w.st) THEN Return(e, w, Answered(w.st, "continue_report"))
                ELSE IF w.answer # "none" THEN Return(e, w, Answered(w.st, w.answer))
                ELSE Goes(e, [w EXCEPT !.pc = "closing", !.outcome = "interrupted"])
                     /\ UNCHANGED spent
          \/ /\ Troubled /\ UNCHANGED spent
             /\ \E s \in Breaks :
                   Goes(e, [w EXCEPT !.pc = "closing", !.outcome = s])
       /\ UNCHANGED <<run, saved, decision>> /\ NotWritten

\* The ends of a node that _timed_node records: its except clauses, and its end.
\* Mutant: the clause for the budget records nothing.
Recorded_NoBudget == Breaks \cup {"succeeded", "interrupted", "lost"}
Recorded == Breaks \cup {"succeeded", "interrupted", "lost", "budget"}

CloseAttempt(e) ==
    LET w == worker[e]
    IN /\ w.pc = "closing"
       /\ IF w.outcome \in Recorded THEN Written(e, AttemptFinished(e, w.attempt)) ELSE NotWritten
       /\ Goes(e, CASE w.outcome = "lost" -> Gone
                    [] w.outcome \in {"succeeded", "interrupted"} -> [w EXCEPT !.pc = "accepting"]
                    [] OTHER -> [w EXCEPT !.pc = "ending"])
       /\ UNCHANGED <<run, saved, decision, spent>> /\ Quiet

\* The event of the node: the guard and _record_checkpoint.
Accept(e) ==
    LET w == worker[e]
        asks == w.outcome = "interrupted"
        next == IF asks THEN w.node ELSE NextNode(w.node, w.st)
    IN /\ w.pc = "accepting"
       /\ IF ~Current(e) THEN Goes(e, Gone) /\ UNCHANGED saved
          ELSE /\ saved' = [at |-> next, st |-> w.st, asked |-> asks]
               /\ Goes(e, [w EXCEPT !.node = next,
                                    !.pc = IF asks THEN "pausing"
                                           ELSE IF next = "end" THEN "ending" ELSE "ready"])
       /\ UNCHANGED <<run, decision, spent>> /\ Quiet /\ NotWritten

\* pause_for_decision: the lease is given up; a second decision is refused.
Pause(e) ==
    LET w == worker[e]
    IN /\ w.pc = "pausing"
       /\ CASE ~Current(e) -> Goes(e, Gone) /\ UNCHANGED <<run, decision>>
            [] Current(e) /\ decision = "none" ->
                  /\ run' = [run EXCEPT !.status = "waiting_for_input", !.live = FALSE]
                  /\ decision' = "pending" /\ Goes(e, Gone)
            [] OTHER -> Goes(e, [w EXCEPT !.pc = "ending", !.outcome = "failed"])
                        /\ UNCHANGED <<run, decision>>
       /\ UNCHANGED <<saved, spent>> /\ Quiet /\ NotWritten

\* The end of the stream, or the except clause of the runner: one fenced
\* finalize.  An execution that was stopped leaves the run interrupted.
FinalStatus(w) ==
    CASE w.outcome = "succeeded" ->
            IF w.st.limited THEN "completed_with_warnings" ELSE "completed"
      [] w.outcome = "budget" ->
            IF LimitedPossible(w.st) THEN "completed_with_warnings" ELSE "failed"
      [] w.outcome = "cancelled" -> "interrupted"
      [] OTHER -> w.outcome

End(e) ==
    LET w == worker[e]
    IN /\ w.pc = "ending"
       /\ run' = IF Current(e) THEN [run EXCEPT !.status = FinalStatus(w), !.live = FALSE] ELSE run
       /\ Goes(e, Gone)
       /\ UNCHANGED <<saved, decision, spent>> /\ Quiet /\ NotWritten

\* A stop is delivered at an await outside of the node: the end of an attempt that
\* is cut short there is lost.
Stop(e) ==
    LET w == worker[e]
    IN /\ w.pc \in {"ready", "closing", "accepting", "pausing"} /\ Troubled
       /\ Goes(e, [w EXCEPT !.pc = "ending", !.outcome = "cancelled"])
       /\ UNCHANGED <<run, saved, decision, spent>> /\ NotWritten

Crash(e) ==
    /\ worker[e].pc # "none" /\ Troubled /\ Goes(e, Gone)
    /\ UNCHANGED <<run, saved, decision, spent>> /\ NotWritten

\* The lease runs out: at once behind a crash, or under a live execution.
Expire ==
    /\ run.status = "running" /\ run.live
    /\ run' = [run EXCEPT !.live = FALSE]
    /\ IF worker[run.epoch].pc = "none" THEN Quiet ELSE Troubled
    /\ UNCHANGED <<saved, decision, worker, spent>> /\ NotWritten

\* Mutant: a run without a checkpoint is overlooked.
Orphaned_Resumable == run.status = "running" /\ ~run.live /\ saved.at # "none"
Orphaned == run.status = "running" /\ ~run.live

\* recover_runs: the orphan is interrupted, and queued again if it can resume.
Recover ==
    /\ \/ Orphaned
       \/ run.status = "interrupted" /\ saved.at # "none" /\ run.epoch < MaxEpoch
    /\ run' = [run EXCEPT !.status = IF saved.at # "none" /\ run.epoch < MaxEpoch
                                     THEN "queued" ELSE "interrupted"]
    /\ UNCHANGED <<saved, decision, worker, spent>> /\ Quiet /\ NotWritten

Resolve(a) ==
    /\ run.status = "waiting_for_input" /\ decision = "pending"
    /\ a # "cancel" => run.epoch < MaxEpoch
    /\ decision' = a
    /\ run' = [run EXCEPT !.status = IF a = "cancel" THEN "cancelled" ELSE "queued"]
    /\ UNCHANGED <<saved, worker, spent>> /\ Quiet /\ NotWritten

Step(e) == StartNode(e) \/ StartCall(e) \/ EndCall(e) \/ Work(e) \/ CloseAttempt(e)
             \/ Accept(e) \/ Pause(e) \/ End(e)

Next ==
    \/ \E e \in Epochs : Lease(e) \/ Step(e) \/ Stop(e) \/ Crash(e)
    \/ Expire \/ Recover
    \/ \E a \in {"provide_context", "limited_report", "cancel"} : Resolve(a)

Spec == Init /\ [][Next]_vars

\* The event loop runs an execution on, the recovery loop runs, and a queued run
\* is taken.
FairSpec ==
    /\ Spec
    /\ \A e \in Epochs : WF_vars(Step(e)) /\ WF_vars(Lease(e))
    /\ WF_vars(Recover) /\ WF_vars(Expire /\ worker[run.epoch].pc = "none")

-----------------------------------------------------------------------------
TypeOK ==
    /\ run.epoch \in 0 .. MaxEpoch /\ run.live \in BOOLEAN
    /\ decision \in {"none", "pending", "provide_context", "limited_report", "cancel"}
    /\ \A e \in Epochs : worker[e].node \in Nodes \cup {"none", "end"}

\* The user is asked once in the life of a run, whatever crashes, resumes or is
\* researched again: no execution comes to the pause of a second decision, which
\* the repository would refuse.
NeverAsksTwice ==
    \A e \in Epochs : worker[e].pc = "pausing" /\ Current(e) => decision = "none"

\* The rows and the executions keep their types, and none asks in vain.
RunAgrees == TypeOK /\ NeverAsksTwice

\* The run ends the way the user decided, through every crash between the answer
\* and the end: what is published in full was not asked to be limited, and what
\* is in doubt is published in full only after a supplement.
Published == run.status \in {"completed", "completed_with_warnings"}
EndsAsDecided ==
    /\ run.status = "completed" =>
          /\ decision \in {"none", "provide_context"}
          /\ Doubtful(saved.st) => decision = "provide_context"
    /\ run.status = "completed_with_warnings" => decision = "limited_report" \/ spent

\* Behind an execution that was neither killed nor overtaken, every row that is
\* still open is one whose write failed.
OpenRowsExplained ==
    \A e \in Epochs :
       run.epoch = e /\ (Published \/ run.status = "waiting_for_input")
          => OpenRows(e) <= missed

\* The run comes to rest: it ends or waits for its user; the graph does not go
\* round for ever.
ComesToRest == []<>(run.status \notin {"queued", "running"})
=============================================================================
