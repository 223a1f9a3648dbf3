-------------------------- MODULE TaskEventStream --------------------------
(***************************************************************************)
(* One durable task as its readers see it - its row, its event log and its *)
(* decision - and the server side of one event stream over the log         *)
(* (server/task_event_stream.py).                                          *)
(*                                                                         *)
(* How the rows come to move is the subject of TaskRuns and Coordinator,   *)
(* which implement TaskLifecycle; here a task takes any move TaskLifecycle *)
(* allows.  Each move appends its status events to the log in the same     *)
(* transaction (TaskRuns!EventLogAgrees).                                  *)
(***************************************************************************)
EXTENDS Naturals, Sequences

CONSTANTS
    Bodies,      \* bodies of a decision resolution, "cancel" among them
    BatchSize,   \* batch_size of one read of the log
    MaxEvents    \* bound: length of the log

ASSUME StreamAssumption ==
    /\ "cancel" \in Bodies /\ "none" \notin Bodies
    /\ BatchSize \in Nat \ {0} /\ MaxEvents \in Nat

VARIABLES
    task,      \* the task row: status and version
    log,       \* task_events: the status each event carries, or "progress"
    decision,  \* hitl_decisions: status, and the body that settled it
    stream     \* the connection: next step of the generator, cursor, status read

streamVars == <<task, log, decision, stream>>

L == INSTANCE TaskLifecycle
       WITH Tasks <- {1}, Runs <- {1}, NoRun <- 0,
            status <- <<task.status>>, latest <- <<1>>, used <- {1}, published <- {}

Successes == L!Successes
Final     == Successes \cup {"cancelled"}

\* _TERMINAL_TASK_STATUSES and _STREAM_PAUSE_TASK_STATUSES
StreamEnds == Final \cup {"failed", "timed_out", "interrupted", "waiting_for_input"}

NoTask     == [status |-> "absent", version |-> 0]
NoDecision == [status |-> "none", body |-> "none"]
NoStream   == [stage |-> "closed", cursor |-> 0, seen |-> "absent", owed |-> 0]

StreamInit ==
    /\ task = NoTask
    /\ log = <<>>
    /\ decision = NoDecision
    /\ stream = NoStream

------------------------------------------------------------------------------
\* The task row moves to status s and the events es are logged with it.
MovesTo(s, es) ==
    /\ Len(log) + Len(es) <= MaxEvents
    /\ task' = [status |-> s, version |-> task.version + 1]
    /\ log' = log \o es

\* POST /api/v1/tasks has committed a new task.
Create ==
    /\ task' = [status |-> "queued", version |-> 0]
    /\ log' = <<"queued">>
    /\ decision' = NoDecision

\* Mutant: a version check in front of the replay check.
MayResolve_VersionFirst(body, version) ==
    /\ version = task.version
    /\ \/ decision.status = "pending"
       \/ decision.status \in {"resolved", "cancelled"} /\ decision.body = body

\* resolve_decision: a settled decision answers its own body again, whatever
\* the version; a pending one is settled at the version the caller has read.
MayResolve(body, version) ==
    \/ decision.status \in {"resolved", "cancelled"} /\ decision.body = body
    \/ decision.status = "pending" /\ version = task.version

Resolve(body) ==
    IF decision.status = "pending"
    THEN /\ decision' = [status |-> IF body = "cancel" THEN "cancelled" ELSE "resolved",
                         body   |-> body]
         /\ LET s == IF body = "cancel" THEN "cancelled" ELSE "queued"
            IN  MovesTo(s, <<s>>)
    ELSE UNCHANGED <<task, log, decision>>

\* cancel_task: an executing task is asked to stop, a resting one is over, and
\* for any other status the current row is the answer.
Cancel ==
    LET s == CASE task.status = "running" -> "cancelling"
               [] task.status \in {"queued", "waiting_for_input", "interrupted"} -> "cancelled"
               [] OTHER -> task.status
    IN  IF s = task.status
        THEN UNCHANGED <<task, log, decision>>
        ELSE /\ MovesTo(s, <<s>>)
             /\ decision' = IF decision.status = "pending"
                            THEN [decision EXCEPT !.status = "cancelled"] ELSE decision

\* resume: a retry or a resumption, at the version the caller has read.
MayResume(version) ==
    /\ version = task.version
    /\ task.status \in {"failed", "timed_out", "interrupted"}

Resume == MovesTo("queued", <<"queued">>) /\ UNCHANGED decision

------------------------------------------------------------------------------
(***************************************************************************)
(* The rest of the system: workers, recovery and other readers.            *)
(***************************************************************************)

\* A worker, recovery or another user moves the task.  A run pauses for at
\* most one decision, and this log holds one.
Advance ==
    \E s \in StreamEnds \cup {"queued", "running", "cancelling"} :
      /\ <<task.status, s>> \in L!SameRun \cup L!Recovery \cup L!NewRun
      /\ task.status = "waiting_for_input" => s = "cancelled"
      /\ s = "waiting_for_input" => decision.status = "none"
      /\ MovesTo(s, IF <<task.status, s>> \in L!Recovery THEN <<"interrupted", s>> ELSE <<s>>)
      /\ \/ s = "waiting_for_input" /\ decision' = [decision EXCEPT !.status = "pending"]
         \/ /\ task.status = "waiting_for_input"
            /\ \E d \in {"cancelled", "expired"} : decision' = [decision EXCEPT !.status = d]
         \/ "waiting_for_input" \notin {s, task.status} /\ UNCHANGED decision
      /\ UNCHANGED stream

\* A node finishes: an event without a status.
Progress ==
    /\ task.status = "running" /\ Len(log) < MaxEvents
    /\ log' = Append(log, "progress")
    /\ UNCHANGED <<task, decision, stream>>

\* Another reader of the task answers the decision first.
AnsweredElsewhere ==
    /\ decision.status = "pending"
    /\ \E b \in Bodies : Resolve(b)
    /\ UNCHANGED stream

Elsewhere == Advance \/ Progress \/ AnsweredElsewhere

------------------------------------------------------------------------------
(***************************************************************************)
(* iter_task_event_sse: a loop of three reads, each a query of its own.    *)
(* owed is the length the log had when the status was read (history only). *)
(***************************************************************************)

\* get_task_event_cursor of a Last-Event-ID the log still has.
Open(cursor) == stream' = [NoStream EXCEPT !.stage = "list", !.cursor = cursor]

\* list_task_events: the next batch is sent.
ListEvents ==
    /\ stream.stage = "list"
    /\ LET end == stream.cursor + BatchSize
       IN  stream' = [stream EXCEPT !.stage = "task",
                                    !.cursor = IF end < Len(log) THEN end ELSE Len(log)]
    /\ UNCHANGED <<task, log, decision>>

\* get_task
ReadStatus ==
    /\ stream.stage = "task"
    /\ stream' = [stream EXCEPT !.stage = "bounds", !.seen = task.status, !.owed = Len(log)]
    /\ UNCHANGED <<task, log, decision>>

\* Mutant: the status alone ends the stream.
CaughtUp_StatusOnly == stream.seen \in StreamEnds

\* The task is over or paused, and the log holds nothing the stream has not sent.
CaughtUp == stream.seen \in StreamEnds /\ stream.cursor >= Len(log)

\* get_task_event_cursor, then return or sleep.
ReadBounds ==
    /\ stream.stage = "bounds"
    /\ stream' = [stream EXCEPT !.stage = IF CaughtUp THEN "ended" ELSE "list",
                                !.seen = IF CaughtUp THEN stream.seen ELSE "absent",
                                !.owed = IF CaughtUp THEN stream.owed ELSE 0]
    /\ UNCHANGED <<task, log, decision>>

Serve == ListEvents \/ ReadStatus \/ ReadBounds

\* A stream that ends by itself has sent every event up to the one that made
\* the status it ended on: the status is read after a batch and before the
\* bounds, and events arrive in between.
EndsCaughtUp == stream.stage = "ended" => stream.cursor >= stream.owed
=============================================================================
