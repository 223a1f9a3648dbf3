--------------------------- MODULE TaskLifecycle ---------------------------
(***************************************************************************)
(* What DeepChoice promises about a task, without leases, epochs, clocks,  *)
(* checkpoints or decisions: the status a reader of the task sees, which   *)
(* attempt (run) it belongs to, and which attempts published a result.     *)
(* The transition tables are those of runtime/lifecycle.py.                *)
(***************************************************************************)
CONSTANTS Tasks, Runs, NoRun

VARIABLES
    status,     \* status of each task
    latest,     \* the attempt the status belongs to
    used,       \* the attempts made so far, of any task
    published   \* the attempts with a published result

absvars == <<status, latest, used, published>>

Successes == {"completed", "completed_with_warnings"}

\* _TASK_SAME_RUN_TRANSITIONS
SameRun ==
    ({"queued"} \X {"running", "cancelled"})
    \cup ({"running"} \X (Successes \cup {"waiting_for_input", "cancelling", "failed",
                                          "timed_out", "interrupted"}))
    \cup ({"waiting_for_input"} \X {"queued", "cancelled"})
    \cup ({"cancelling"} \X {"cancelled"})
    \cup ({"interrupted"} \X {"queued", "cancelled"})

\* A recovery interrupts a run and queues it again in one transaction: a reader
\* of the task row sees the two moves as one.
Recovery == {<<"running", "queued">>}

\* _TASK_NEW_RUN_TRANSITIONS
NewRun == {"failed", "timed_out", "interrupted"} \X {"queued"}

Init ==
    /\ status = [t \in Tasks |-> "absent"]
    /\ latest = [t \in Tasks |-> NoRun]
    /\ used = {}
    /\ published = {}

\* t is created, or a new attempt replaces its latest one: always a fresh run.
StartsAttempt(t) ==
    /\ \/ status[t] = "absent" /\ status'[t] = "queued"
       \/ <<status[t], status'[t]>> \in NewRun
    /\ latest'[t] \in Runs \ used

\* t moves on within its attempt.
Moves(t) ==
    /\ <<status[t], status'[t]>> \in SameRun \cup Recovery
    /\ latest'[t] = latest[t]

Stays(t) == status'[t] = status[t] /\ latest'[t] = latest[t]

\* One transaction may move many tasks (recovery does).  A result appears in
\* the step in which its task becomes successful, and never changes after.
Next ==
    /\ status' \in [Tasks -> {status'[t] : t \in Tasks}]
    /\ latest' \in [Tasks -> {latest'[t] : t \in Tasks}]
    /\ \A t \in Tasks : Stays(t) \/ Moves(t) \/ StartsAttempt(t)
    /\ used' = used \cup {latest'[t] : t \in {u \in Tasks : latest'[u] # latest[u]}}
    /\ published' = published \cup
         {latest[t] : t \in {u \in Tasks : status'[u] # status[u]
                                            /\ status'[u] \in Successes}}

Spec == Init /\ [][Next]_absvars
=============================================================================
