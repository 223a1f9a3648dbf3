------------------------------ MODULE TaskRuns ------------------------------
(***************************************************************************)
(* The durable task and run tables of DeepChoice and every transaction     *)
(* that writes them (persistence/repository.py, runtime/lifecycle.py).     *)
(*                                                                         *)
(* A task is what a user asked for; a run is one attempt at it.  A worker  *)
(* executes a run under a lease that names its owner and an execution      *)
(* epoch; a run may pause for one human decision; a crashed worker's run   *)
(* is recovered once its lease has expired.                                *)
(*                                                                         *)
(* Every repository method holds one asyncio lock and runs one             *)
(* BEGIN IMMEDIATE transaction, so each is ONE action here.  A call that   *)
(* raises rolls back: it is a disabled action.  The time a caller reads    *)
(* from its clock is the variable now.                                     *)
(***************************************************************************)
EXTENDS Naturals, Sequences

CONSTANTS
    Tasks,        \* task identifiers
    Runs,         \* run identifiers
    Owners,       \* lease owners: one uuid per coordinator process
    Answers,      \* bodies of a decision resolution that let the run go on
    NoTask, NoRun, NoOwner, NoAnswer,
    LeaseTTL,     \* lease_ttl of the coordinator
    RunTimeout,   \* run_timeout of the coordinator
    DecisionTTL,  \* hitl.contracts.DECISION_TTL
    MaxTime,      \* bound: the clock stops here
    MaxEpoch,     \* bound: leases granted per run
    MaxRefs       \* bound: checkpoint references accepted per run

ASSUME ConstantsAssumption ==
    /\ LeaseTTL \in Nat \ {0}
    /\ RunTimeout \in Nat \ {0}
    /\ DecisionTTL \in Nat \ {0}
    /\ MaxTime \in Nat /\ MaxEpoch \in Nat /\ MaxRefs \in Nat
    /\ NoTask \notin Tasks /\ NoRun \notin Runs /\ NoOwner \notin Owners
    /\ NoAnswer \notin Answers /\ "cancel" \notin Answers /\ NoAnswer # "cancel"

VARIABLES
    task,      \* tasks: status, latest run, cancel requested, version
    run,       \* runs: status, task, epoch, lease owner and expiry, deadline
    refs,      \* run_checkpoints: epochs of a run's references, in row order
    decision,  \* hitl_decisions: the decision of each run
    results,   \* run_results: the runs with a published result
    events,    \* task_events: status events per task, and the last one's status
    now        \* the clock; 0 stands for a NULL timestamp

vars == <<task, run, refs, decision, results, events, now>>

NoTime == 0

Successful == {"completed", "completed_with_warnings"}
Terminal   == Successful \cup {"failed", "timed_out", "cancelled"}
Executing  == {"running", "cancelling"}

Retryable == {"failed", "timed_out", "interrupted"}

\* cancel_task answers with the current row for every other status.
Cancellable == {"queued", "running", "waiting_for_input", "interrupted"}

Statuses == Terminal \cup Executing
              \cup {"queued", "waiting_for_input", "interrupted"}

Bodies == Answers \cup {"cancel"}

TaskRecord == [status  : Statuses \cup {"absent"},
               run     : Runs \cup {NoRun},
               cancel  : BOOLEAN,
               version : Nat]

RunRecord == [status   : Statuses \cup {"absent"},
              task     : Tasks \cup {NoTask},
              epoch    : Nat,
              owner    : Owners \cup {NoOwner},
              lease    : Nat,
              deadline : Nat,
              current  : BOOLEAN,  \* workflow_version = CURRENT_WORKFLOW_VERSION
              birth    : Nat]      \* history: task version its creation named

DecisionRecord == [status  : {"none", "pending", "resolved", "cancelled", "expired"},
                   ref     : Nat,  \* row of the checkpoint it is bound to
                   epoch   : Nat,  \* pause_execution_epoch
                   expires : Nat,
                   body    : Bodies \cup {NoAnswer}]

EventRecord == [count : Nat, last : Statuses \cup {"absent"}]

NoRunYet == [status |-> "absent", task |-> NoTask, epoch |-> 0, owner |-> NoOwner,
             lease |-> NoTime, deadline |-> NoTime, current |-> TRUE, birth |-> 0]

NoDecision == [status |-> "none", ref |-> 0, epoch |-> 0, expires |-> NoTime,
               body |-> NoAnswer]

Init ==
    /\ task = [t \in Tasks |-> [status |-> "absent", run |-> NoRun,
                                cancel |-> FALSE, version |-> 0]]
    /\ run = [r \in Runs |-> NoRunYet]
    /\ refs = [r \in Runs |-> << >>]
    /\ decision = [r \in Runs |-> NoDecision]
    /\ results = {}
    /\ events = [t \in Tasks |-> [count |-> 0, last |-> "absent"]]
    /\ now = 1

-----------------------------------------------------------------------------
(***************************************************************************)
(* Conditions the transactions test.                                       *)
(***************************************************************************)

\* The run a task points at: tasks.latest_run_id.
IsLatest(r) == run[r].task # NoTask /\ task[run[r].task].run = r

\* Mutant: the fence forgets who holds the lease.
Fenced_AnyHolder(r, o, e) ==
    /\ run[r].status \in Executing
    /\ run[r].lease > now

\* The (owner, epoch) pair a worker shows still holds an unexpired lease.
Fenced(r, o, e) ==
    /\ run[r].owner = o
    /\ run[r].epoch = e
    /\ run[r].status \in Executing
    /\ run[r].lease > now

\* Mutant: any accepted row will do.
IsLatestRef_AnyRow(r, i) == i \in DOMAIN refs[r]

\* Row i is what ORDER BY execution_epoch DESC, created_at DESC, rowid DESC
\* LIMIT 1 returns: the highest epoch, and within it the last row.
IsLatestRef(r, i) ==
    /\ i \in DOMAIN refs[r]
    /\ \A j \in DOMAIN refs[r] :
         \/ refs[r][j] < refs[r][i]
         \/ refs[r][j] = refs[r][i] /\ j <= i

HasRef(r) == refs[r] # << >>

\* A run whose checkpoint may be resumed: an accepted reference and the
\* workflow version this release executes.
Resumable(r) == HasRef(r) /\ run[r].current

DeadlinePassed(r) == run[r].deadline # NoTime /\ run[r].deadline <= now

\* Mutant: looks for a cancellation that has already happened.
CancelRequested_Completed(r) == task[run[r].task].status = "cancelled"

CancelRequested(r) ==
    LET t == run[r].task
    IN  \/ task[t].cancel
        \/ run[r].status = "cancelling"
        \/ task[t].status = "cancelling"

\* Mutant: the compare-and-swap on the version is lost.
AtVersion_Ignored(t, v) == v <= task[t].version

\* The version a request names (If-Match) is still the task's.
AtVersion(t, v) == task[t].version = v

\* Append one status-bearing event under the caller's transaction.
LogStatus(t, s) ==
    events' = [events EXCEPT ![t].count = @ + 1, ![t].last = s]

\* A task row that moves to status s; c is whether its cancellation is requested.
Moved(row, s, c) == [row EXCEPT !.status = s, !.cancel = c, !.version = @ + 1]

\* The task moves to status s and the event of the move is logged.
MoveTask(t, s, c) ==
    /\ task' = [task EXCEPT ![t] = Moved(@, s, c)]
    /\ LogStatus(t, s)

\* A run row that gives up execution: no owner, no lease, no deadline.
Released(row, s) == [row EXCEPT !.status = s, !.owner = NoOwner,
                                !.lease = NoTime, !.deadline = NoTime]

ReleaseRun(r, s) == run' = [run EXCEPT ![r] = Released(@, s)]

-----------------------------------------------------------------------------
(***************************************************************************)
(* Transactions of the task service.                                       *)
(***************************************************************************)

\* The row inserted for a new run of task t, for a request that named version v.
QueuedRun(t, v) == [NoRunYet EXCEPT !.status = "queued", !.task = t, !.birth = v]

\* create_task_with_run
CreateTask(t, r) ==
    /\ task[t].status = "absent"
    /\ run[r].status = "absent"
    /\ task' = [task EXCEPT ![t] = [status |-> "queued", run |-> r,
                                    cancel |-> FALSE, version |-> 0]]
    /\ run' = [run EXCEPT ![r] = QueuedRun(t, 0)]
    /\ LogStatus(t, "queued")
    /\ UNCHANGED <<refs, decision, results, now>>

Settled(d, s, body) == [d EXCEPT !.status = s, !.body = body]

\* The open decision of a task that is cancelled while it waits.
CancelledDecisions(t) ==
    LET r == task[t].run
    IN  IF task[t].status = "waiting_for_input" /\ decision[r].status = "pending"
        THEN [decision EXCEPT ![r] = Settled(@, "cancelled", "cancel")]
        ELSE decision

\* cancel_task: a task nobody is executing is cancelled at once; a running one
\* keeps its lease so that its worker can wind down.
CancelTask(t) ==
    LET r == task[t].run
        target == IF task[t].status = "running" THEN "cancelling" ELSE "cancelled"
    IN  /\ task[t].status \in Cancellable
        /\ run[r].status = task[t].status
        /\ MoveTask(t, target, TRUE)
        /\ IF target = "cancelling"
           THEN run' = [run EXCEPT ![r].status = target]
           ELSE ReleaseRun(r, target)
        /\ decision' = CancelledDecisions(t)
        /\ UNCHANGED <<refs, results, now>>

\* resume_interrupted_run: the same run goes back to the queue.
ResumeInterrupted(t, v) ==
    LET r == task[t].run
    IN  /\ task[t].status = "interrupted"
        /\ AtVersion(t, v)
        /\ run[r].status = "interrupted"
        /\ Resumable(r)
        /\ MoveTask(t, "queued", FALSE)
        /\ ReleaseRun(r, "queued")
        /\ UNCHANGED <<refs, decision, results, now>>

\* retry_task_with_run: a new run replaces the latest one, which stays as it is.
RetryWithRun(t, r, v) ==
    /\ task[t].status \in Retryable
    /\ AtVersion(t, v)
    /\ run[r].status = "absent"
    /\ run' = [run EXCEPT ![r] = QueuedRun(t, v)]
    /\ task' = [task EXCEPT ![t] = [Moved(@, "queued", FALSE) EXCEPT !.run = r]]
    /\ LogStatus(t, "queued")
    /\ UNCHANGED <<refs, decision, results, now>>

-----------------------------------------------------------------------------
(***************************************************************************)
(* Transactions of a worker, which shows its owner id and epoch.           *)
(***************************************************************************)

\* A run row that starts to execute under a fresh epoch.
Leased(row, o) == [row EXCEPT !.status = "running", !.owner = o, !.epoch = @ + 1,
                              !.lease = now + LeaseTTL, !.deadline = now + RunTimeout]

\* acquire_run_lease
AcquireLease(r, o) ==
    LET t == run[r].task
    IN  /\ run[r].status = "queued"
        /\ IsLatest(r)
        /\ task[t].status = "queued"
        /\ \/ run[r].owner = NoOwner
           \/ run[r].lease # NoTime /\ run[r].lease <= now
        /\ run[r].epoch < MaxEpoch
        /\ run' = [run EXCEPT ![r] = Leased(@, o)]
        /\ MoveTask(t, "running", task[t].cancel)
        /\ UNCHANGED <<refs, decision, results, now>>

\* heartbeat_run_lease
Heartbeat(r, o, e) ==
    /\ Fenced(r, o, e)
    /\ run[r].deadline # NoTime
    /\ run' = [run EXCEPT ![r].lease = now + LeaseTTL]
    /\ UNCHANGED <<task, refs, decision, results, events, now>>

\* add_checkpoint_reference of a checkpoint not yet recorded (one that is
\* recorded already is ignored, and so is its run.progress event).
AddCheckpointRef(r, o, e) ==
    /\ Fenced(r, o, e)
    /\ Len(refs[r]) < MaxRefs
    /\ refs' = [refs EXCEPT ![r] = Append(@, e)]
    /\ UNCHANGED <<task, run, decision, results, events, now>>

\* Mutant: only an open decision stops the run from asking again.
NotAskedYet_OpenOnly(r) == decision[r].status # "pending"

\* One decision per run, whatever became of it.
NotAskedYet(r) == decision[r].status = "none"

\* pause_for_decision: bind the one decision of the run to row i, which this
\* execution recorded and which is the latest, and give the lease up.
PauseForDecision(r, o, e, i) ==
    LET t == run[r].task
    IN  /\ Fenced(r, o, e)
        /\ run[r].status = "running"
        /\ IsLatest(r)
        /\ task[t].status = "running"
        /\ IsLatestRef(r, i)
        /\ refs[r][i] = e
        /\ NotAskedYet(r)
        /\ decision' = [decision EXCEPT ![r] =
                          [status |-> "pending", ref |-> i, epoch |-> e,
                           expires |-> now + DecisionTTL, body |-> NoAnswer]]
        /\ ReleaseRun(r, "waiting_for_input")
        /\ MoveTask(t, "waiting_for_input", task[t].cancel)
        /\ UNCHANGED <<refs, results, now>>

\* What finalize_run settles on: a cancellation beats the deadline, and the
\* deadline beats the outcome the worker asks for.
FinalStatus(r, s) ==
    IF CancelRequested(r) THEN "cancelled"
    ELSE IF DeadlinePassed(r) THEN "timed_out"
    ELSE s

\* The result is inserted only if the settled outcome is a success.
Published(r, s) ==
    IF s \in Successful /\ FinalStatus(r, s) \in Successful
    THEN results \cup {r} ELSE results

\* The settled row keeps the deadline it had, unless it was interrupted.
FinalRow(row, final) ==
    [Released(row, final) EXCEPT
       !.deadline = IF final = "interrupted" THEN NoTime ELSE row.deadline]

\* finalize_run and finalize_run_with_result; the coordinator passes a result
\* with the two successful outcomes and only with them.
Finalize(r, o, e, s) ==
    LET t == run[r].task
        final == FinalStatus(r, s)
    IN  /\ Fenced(r, o, e)
        /\ IsLatest(r)
        /\ run' = [run EXCEPT ![r] = FinalRow(@, final)]
        /\ MoveTask(t, final, task[t].cancel)
        /\ results' = Published(r, s)
        /\ UNCHANGED <<refs, decision, now>>

-----------------------------------------------------------------------------
(***************************************************************************)
(* The human decision and its expiry.                                      *)
(***************************************************************************)

Expired(r) == decision[r].status = "pending" /\ decision[r].expires <= now

\* The decision of r is what its task is waiting for.
Gates(r) ==
    /\ IsLatest(r)
    /\ run[r].status = "waiting_for_input"
    /\ task[run[r].task].status = "waiting_for_input"

\* resolve_decision of a pending decision within its time.  (Of a settled one
\* it replays the stored answer or raises; either way it changes nothing.)
ResolveDecision(r, body, v) ==
    LET t == run[r].task
        target == IF body = "cancel" THEN "cancelled" ELSE "queued"
    IN  /\ decision[r].status = "pending"
        /\ decision[r].expires > now
        /\ AtVersion(t, v)
        /\ Gates(r)
        /\ run[r].owner = NoOwner /\ run[r].lease = NoTime
        /\ decision[r].ref \in DOMAIN refs[r]
        /\ refs[r][decision[r].ref] = decision[r].epoch
        /\ decision' = [decision EXCEPT ![r] =
                          Settled(@, IF body = "cancel" THEN "cancelled" ELSE "resolved", body)]
        /\ ReleaseRun(r, target)
        /\ MoveTask(t, target, body = "cancel")
        /\ UNCHANGED <<refs, results, now>>

\* resolve_decision past the expiry: _expire_decision_unlocked is committed
\* before the call raises DecisionExpiredError.
ExpireDecision(r) ==
    LET t == run[r].task
    IN  /\ Expired(r)
        /\ decision' = [decision EXCEPT ![r].status = "expired"]
        /\ IF Gates(r)
           THEN /\ ReleaseRun(r, "cancelled")
                /\ MoveTask(t, "cancelled", TRUE)
           ELSE UNCHANGED <<run, task, events>>
        /\ UNCHANGED <<refs, results, now>>

-----------------------------------------------------------------------------
(***************************************************************************)
(* recover_runs: one transaction over all tasks, at start-up and on every  *)
(* recovery tick.  It expires decisions, settles the runs whose lease has  *)
(* run out, and puts what was interrupted and can be resumed back in the   *)
(* queue, an interruption of the same transaction included.                *)
(***************************************************************************)

\* Only the latest run of a task is looked at.
Orphaned(r) ==
    /\ IsLatest(r)
    /\ run[r].status \in Executing
    /\ run[r].lease <= now        \* NULL or expired

\* Mutant: the deadline beats the cancellation.
OrphanStatus_DeadlineFirst(r) ==
    IF DeadlinePassed(r) THEN "timed_out"
    ELSE IF CancelRequested(r) THEN "cancelled"
    ELSE "interrupted"

OrphanStatus(r) ==
    IF CancelRequested(r) THEN "cancelled"
    ELSE IF DeadlinePassed(r) THEN "timed_out"
    ELSE "interrupted"

ExpiresNow(r) == Expired(r) /\ Gates(r)

\* The status of r after the first two passes.
SettledStatus(r) ==
    IF ExpiresNow(r) THEN "cancelled"
    ELSE IF Orphaned(r) THEN OrphanStatus(r)
    ELSE run[r].status

\* The third pass takes r back to the queue.
AutoResumed(r) ==
    /\ IsLatest(r)
    /\ SettledStatus(r) = "interrupted"
    /\ Orphaned(r) \/ task[run[r].task].status = "interrupted"
    /\ Resumable(r)

RecoveredStatus(r) == IF AutoResumed(r) THEN "queued" ELSE SettledStatus(r)

\* How many of the passes write r, each with a version and an event.
RecoverySteps(r) ==
    (IF ExpiresNow(r) \/ Orphaned(r) THEN 1 ELSE 0) + (IF AutoResumed(r) THEN 1 ELSE 0)

\* Mutant: the row keeps the lease of the lost worker.
RecoveredRun_KeepsLease(r) ==
    IF RecoverySteps(r) = 0 THEN run[r]
    ELSE [run[r] EXCEPT !.status = RecoveredStatus(r)]

RecoveredRun(r) ==
    IF RecoverySteps(r) = 0 THEN run[r]
    ELSE [run[r] EXCEPT
            !.status = RecoveredStatus(r),
            !.owner = IF ExpiresNow(r) \/ Orphaned(r) THEN NoOwner ELSE @,
            !.lease = IF ExpiresNow(r) \/ Orphaned(r) THEN NoTime ELSE @,
            !.deadline = IF RecoveredStatus(r) = "timed_out" THEN @ ELSE NoTime]

RecoveredTask(t) ==
    LET r == task[t].run
    IN  IF r = NoRun \/ RecoverySteps(r) = 0 THEN task[t]
        ELSE [task[t] EXCEPT !.status = RecoveredStatus(r),
                             !.cancel = IF ExpiresNow(r) THEN TRUE ELSE @,
                             !.version = @ + RecoverySteps(r)]

\* Mutant: one event for the whole transaction.
RecoveredEvents_LastOnly(t) ==
    LET r == task[t].run
    IN  IF r = NoRun \/ RecoverySteps(r) = 0 THEN events[t]
        ELSE [count |-> events[t].count + 1, last |-> RecoveredStatus(r)]

RecoveredEvents(t) ==
    LET r == task[t].run
    IN  IF r = NoRun \/ RecoverySteps(r) = 0 THEN events[t]
        ELSE [count |-> events[t].count + RecoverySteps(r), last |-> RecoveredStatus(r)]

RecoverRuns ==
    /\ run' = [r \in Runs |-> RecoveredRun(r)]
    /\ task' = [t \in Tasks |-> RecoveredTask(t)]
    /\ events' = [t \in Tasks |-> RecoveredEvents(t)]
    /\ decision' = [r \in Runs |-> IF Expired(r)
                                   THEN [decision[r] EXCEPT !.status = "expired"]
                                   ELSE decision[r]]
    /\ UNCHANGED <<refs, results, now>>

-----------------------------------------------------------------------------
(***************************************************************************)
(* The environment: time passes; a release with another workflow version   *)
(* is deployed over the same database.                                     *)
(***************************************************************************)

Tick ==
    /\ now < MaxTime
    /\ now' = now + 1
    /\ UNCHANGED <<task, run, refs, decision, results, events>>

DeployWorkflow ==
    /\ \E r \in Runs : run[r].status # "absent" /\ run[r].current
    /\ run' = [r \in Runs |-> IF run[r].status = "absent" THEN run[r]
                              ELSE [run[r] EXCEPT !.current = FALSE]]
    /\ UNCHANGED <<task, refs, decision, results, events, now>>

UserNext ==
    \/ \E t \in Tasks, r \in Runs : CreateTask(t, r)
    \/ \E t \in Tasks : CancelTask(t)
    \/ \E t \in Tasks : \E v \in 0..task[t].version :
         \/ ResumeInterrupted(t, v)
         \/ \E r \in Runs : RetryWithRun(t, r, v)
    \/ \E r \in Runs : ExpireDecision(r)
    \/ \E r \in Runs, body \in Bodies :
         /\ run[r].task # NoTask
         /\ \E v \in 0..task[run[r].task].version : ResolveDecision(r, body, v)

\* The outcomes coordinator._run asks finalize for.
Outcomes == Successful \cup {"failed", "timed_out", "interrupted"}

WorkerNext ==
    \E r \in Runs, o \in Owners :
      \/ AcquireLease(r, o)
      \/ \E e \in 1..run[r].epoch :
           \/ Heartbeat(r, o, e)
           \/ AddCheckpointRef(r, o, e)
           \/ \E i \in DOMAIN refs[r] : PauseForDecision(r, o, e, i)
           \/ \E s \in Outcomes : Finalize(r, o, e, s)

Next == UserNext \/ WorkerNext \/ RecoverRuns \/ DeployWorkflow \/ Tick

Spec == Init /\ [][Next]_vars

-----------------------------------------------------------------------------
(***************************************************************************)
(* Invariants.                                                             *)
(***************************************************************************)

\* Every table holds rows of its type, and the clock has started.
TypeOK ==
    /\ task \in [Tasks -> TaskRecord]
    /\ run \in [Runs -> RunRecord]
    /\ refs \in [Runs -> Seq(Nat)]
    /\ decision \in [Runs -> DecisionRecord]
    /\ results \subseteq Runs
    /\ events \in [Tasks -> EventRecord]
    /\ now \in Nat \ {0}

\* A task and its latest run always show the same status and point at each
\* other: no transaction moves one of the two rows without the other.
TaskMirrorsRun ==
    \A t \in Tasks :
      /\ task[t].status = "absent" <=> task[t].run = NoRun
      /\ task[t].run # NoRun =>
           /\ run[task[t].run].status = task[t].status
           /\ run[task[t].run].task = t

\* A lease is held exactly while a run executes, with an owner, an expiry and
\* a deadline: no path out of execution (pause, finalize, cancel, recovery)
\* leaves a lease behind, and nothing executes without one.
LeaseMatchesStatus ==
    \A r \in Runs :
      /\ run[r].status \in Executing <=> run[r].owner # NoOwner
      /\ run[r].owner # NoOwner <=> run[r].lease # NoTime
      /\ run[r].status \in Executing =>
           run[r].epoch > 0 /\ run[r].deadline # NoTime

\* A run that a retry replaced is over: it is in no queue, no worker can show
\* a lease for it, and no decision about it is open.
SupersededRunsClosed ==
    \A r \in Runs :
      run[r].status # "absent" /\ ~IsLatest(r) =>
        run[r].status \in {"failed", "timed_out", "interrupted"}

\* A decision is open exactly while its run, the latest of its task, waits for
\* input; whatever ends the wait settles the decision in the same transaction.
PendingDecisionGates ==
    \A r \in Runs : decision[r].status = "pending" <=> run[r].status = "waiting_for_input"

\* A result is published with, and only with, a successful outcome.
ResultIffSuccessful ==
    \A r \in Runs : r \in results <=> run[r].status \in Successful

\* The cancel request of a task is recorded exactly while the task is being
\* cancelled or has been: no resume, retry or recovery carries it over.
CancelFlagMatchesStatus ==
    \A t \in Tasks : task[t].cancel <=> task[t].status \in {"cancelling", "cancelled"}

\* What the rows of a task, its runs, decisions and results say of one another:
\* the invariants above, together, which each of the transactions must keep.
RowsAgree ==
    /\ TypeOK
    /\ TaskMirrorsRun /\ LeaseMatchesStatus /\ SupersededRunsClosed
    /\ PendingDecisionGates /\ ResultIffSuccessful /\ CancelFlagMatchesStatus

\* The event log tells what the tables say: one status event per version of a
\* task, the last one with the status the task has.
EventLogAgrees ==
    \A t \in Tasks :
      /\ events[t].last = task[t].status
      /\ task[t].status # "absent" => events[t].count = task[t].version + 1

\* References are accepted in epoch order, so the row the resume query picks is
\* the one accepted last: a worker whose epoch is over never adds a newer row.
RefsInEpochOrder ==
    \A r \in Runs :
      /\ \A i, j \in DOMAIN refs[r] : i <= j => refs[r][i] <= refs[r][j]
      /\ \A i \in DOMAIN refs[r] : refs[r][i] \in 1..run[r].epoch

\* The answer to a decision reaches the run: until a later execution has
\* recorded progress, the reference a resume picks is the one the decision is
\* bound to, so get_resolved_decision_for_checkpoint finds it, through any
\* number of crashes before that progress.
AnswerStaysDeliverable ==
    \A r \in Runs :
      decision[r].status \in {"pending", "resolved"} =>
        /\ decision[r].ref \in DOMAIN refs[r]
        /\ refs[r][decision[r].ref] = decision[r].epoch
        /\ \A i \in DOMAIN refs[r] : i > decision[r].ref => refs[r][i] > decision[r].epoch

\* However often a retry request is delivered, it creates at most one run: two
\* runs of a task never come from requests that saw the same task version.
OneRunPerRetryRequest ==
    \A r, q \in Runs :
      /\ r # q
      /\ run[r].task # NoTask /\ run[r].task = run[q].task
      => \/ run[r].birth # run[q].birth
         \/ run[r].birth = 0 \/ run[q].birth = 0

-----------------------------------------------------------------------------
(***************************************************************************)
(* Action properties.                                                      *)
(***************************************************************************)

\* Once the cancellation of a task is requested nothing but its cancellation
\* follows: a completion, a failure, a timeout or a recovery that races with
\* the request cannot turn it into another outcome or publish a result.
CancelWins ==
    [][\A t \in Tasks : task[t].cancel =>
         /\ task'[t].status \in {"cancelling", "cancelled"}
         /\ task'[t].run = task[t].run
         /\ task[t].run \in results' => task[t].run \in results]_vars

\* A result is published only by an execution whose deadline has not passed.
DeadlineWins ==
    [][\A r \in results' \ results : now < run[r].deadline]_vars

\* An outcome is never overtaken by a later cause, whichever transaction comes
\* upon it: a cancellation, then the deadline, then what the worker reports.
FirstCauseWins == CancelWins /\ DeadlineWins

\* A run asks its user once, and the first settlement of the question stands.
DecisionSettlesOnce ==
    [][\A r \in Runs :
         /\ decision[r].status # "none" => decision'[r].status # "none"
                                           /\ decision'[r].ref = decision[r].ref
         /\ decision[r].status \in {"resolved", "cancelled", "expired"} =>
              decision'[r] = decision[r]]_vars

-----------------------------------------------------------------------------
(***************************************************************************)
(* The public contract these transactions implement.                       *)
(***************************************************************************)

Contract == INSTANCE TaskLifecycle WITH
    status    <- [t \in Tasks |-> task[t].status],
    latest    <- [t \in Tasks |-> task[t].run],
    used      <- {r \in Runs : run[r].task # NoTask},
    published <- results

\* Every transaction moves each task along the lifecycle the users are
\* promised (TaskLifecycle), or leaves it where it is.
ImplementsLifecycle == Contract!Spec
=============================================================================
