------------------------------ MODULE RunTrace ------------------------------
(***************************************************************************)
(* The trace of a run (observability/sqlite.py, observability/runtime.py): *)
(* a row per node attempt and per external call, each written and ended in *)
(* a transaction of its own by the execution that holds the run.  The      *)
(* recorder is best effort: a write that fails is missing, never an error  *)
(* of the run.  Of the rows the module keeps those not ended yet.          *)
(***************************************************************************)
EXTENDS Naturals

CONSTANTS MaxEpoch,     \* bound: executions of the run
          MaxTrouble    \* bound: crashes, stops, late leases, errors, failed trace writes

ASSUME BoundsAssumption == MaxEpoch \in Nat /\ MaxTrouble \in Nat

VARIABLES run,          \* the row of runs: status, execution_epoch, whether its lease is live
          attempts,     \* epoch -> how many of its node_attempts are "started"
          calls,        \* epoch -> how many of its external_calls are "started"
          missed,       \* the trace writes that failed
          trouble       \* everything else that went wrong

traceVars == <<attempts, calls, missed>>

Epochs == 1 .. MaxEpoch

TraceInit ==
    /\ attempts = [e \in Epochs |-> 0]
    /\ calls = [e \in Epochs |-> 0]
    /\ missed = 0

\* _assert_authority: the writer's epoch is the run's and the run is executing;
\* the lease may have expired meanwhile.
Authority(e) == run.status = "running" /\ run.epoch = e

Missed == /\ trouble + missed < MaxTrouble
          /\ missed' = missed + 1 /\ UNCHANGED <<attempts, calls>>
NotWritten == UNCHANGED traceVars

\* _transaction behind _best_effort: a write is done, is refused to a stale
\* writer, or is missed.
Written(e, write) == IF Authority(e) THEN write \/ Missed ELSE NotWritten

\* start_node_attempt
AttemptStarted(e) ==
    attempts' = [attempts EXCEPT ![e] = @ + 1] /\ UNCHANGED <<calls, missed>>

\* finish_node_attempt: of a start that was missed nothing is recorded.
AttemptFinished(e, started) ==
    /\ attempts' = [attempts EXCEPT ![e] = IF started THEN @ - 1 ELSE @]
    /\ UNCHANGED <<calls, missed>>

\* start_external_call asks for an open attempt.
CallStarted(e, inAttempt) ==
    /\ calls' = [calls EXCEPT ![e] = IF inAttempt THEN @ + 1 ELSE @]
    /\ UNCHANGED <<attempts, missed>>

\* finish_external_call
CallFinished(e, started) ==
    /\ calls' = [calls EXCEPT ![e] = IF started THEN @ - 1 ELSE @]
    /\ UNCHANGED <<attempts, missed>>

OpenRows(e) == attempts[e] + calls[e]

\* The trace of an execution changes only while that execution has the run: an
\* execution that was overtaken writes nothing more, not even the end of a row
\* of its own (_assert_authority).
TraceIsFenced ==
    [][\A e \in Epochs : OpenRows(e)' # OpenRows(e)
                            => run.status = "running" /\ run.epoch = e]_<<attempts, calls>>
=============================================================================
