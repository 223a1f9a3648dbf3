---------------------------- MODULE Coordinator ----------------------------
(***************************************************************************)
(* The runners of DeepChoice (runtime/coordinator.py): asyncio tasks that  *)
(* execute the runs of a task in one or more server processes, together    *)
(* with the heartbeats, the recovery loop, graceful stop and crashes.      *)
(*                                                                         *)
(* The product database is seen through the transactions TaskRuns models   *)
(* in full; here a timestamp is only "still ahead" or "passed", so that    *)
(* time needs no bound and liveness can be stated.  One task: a runner     *)
(* touches no task but its own.                                            *)
(*                                                                         *)
(* Between two steps of a runner lies an await, where asyncio delivers a   *)
(* pending cancellation (signal).  A transaction is one step, and may      *)
(* commit although the runner that awaits it is already cancelled.         *)
(***************************************************************************)
EXTENDS Naturals, FiniteSets

CONSTANTS
    Procs,        \* server processes, each with an owner_id of its own
    Mortal,       \* the processes that may crash or be stopped
    Runs, NoRun, NoProc,
    MaxEpoch,     \* bound: leases granted per run
    MaxLate,      \* bound: leases that run out although a heartbeat is alive
    MaxFaults,    \* bound: transactions a runner sees fail with an exception
    MaxLost       \* bound: checkpoint payloads that become unreadable

\* The null values are no identifiers; the bounds are numbers.
ASSUME CoordinatorAssumption ==
    /\ Mortal \subseteq Procs
    /\ NoProc \notin Procs /\ NoRun \notin Runs
    /\ MaxEpoch \in Nat /\ MaxLate \in Nat /\ MaxFaults \in Nat /\ MaxLost \in Nat

VARIABLES
    task,     \* the task row; seen: the processes whose read of its version is current
    run,      \* run rows; live: the lease is unexpired; late: the deadline has passed
    proc,     \* off, up, stopping, stopped or crashed
    listed,   \* runs a process is about to submit: recover_runs and the API handlers
    runner,   \* the asyncio task of each process and run
    late, faults, lost   \* how often the environment has struck

dbvars  == <<task, run>>
envvars == <<late, faults, lost>>
vars    == <<task, run, proc, listed, runner, late, faults, lost>>

Successful == {"completed", "completed_with_warnings"}
Retryable  == {"failed", "timed_out", "interrupted"}
Executing  == {"running", "cancelling"}
Statuses   == Successful \cup Retryable \cup Executing
                \cup {"absent", "queued", "waiting_for_input", "cancelled"}

\* Where a runner is.  unwinding: in an except clause, before the protected part
\* of it; settling: in the finalize transaction of that clause.
Places == {"none", "acquiring", "preparing", "replacing", "streaming", "pausing",
           "paused", "publishing", "unwinding", "settling"}

Idle == [pc |-> "none", epoch |-> 0, signal |-> FALSE, beat |-> FALSE, out |-> "none",
         measured |-> FALSE]

Init ==
    /\ task = [status |-> "absent", run |-> NoRun, cancel |-> FALSE, seen |-> {}]
    /\ run = [r \in Runs |-> [status |-> "absent", epoch |-> 0, owner |-> NoProc,
                              live |-> FALSE, late |-> FALSE, ref |-> "none", asked |-> FALSE]]
    /\ proc = [o \in Procs |-> "off"]
    /\ listed = [o \in Procs |-> {}]
    /\ runner = [o \in Procs |-> [r \in Runs |-> Idle]]
    /\ late = 0 /\ faults = 0 /\ lost = 0

-----------------------------------------------------------------------------
(***************************************************************************)
(* The database.                                                           *)
(***************************************************************************)

\* Mutant: the epoch alone makes a worker current.
Fenced_EpochOnly(o, r) == run[r].epoch = runner[o][r].epoch

\* The runner of r in o still executes r: owner and epoch are its own, the run is
\* executing and its lease has not expired.
Fenced(o, r) ==
    /\ run[r].owner = o
    /\ run[r].epoch = runner[o][r].epoch
    /\ run[r].status \in Executing
    /\ run[r].live

\* The task and its latest run r move to status s; whoever had read the version
\* has a stale one now.
TaskTo(s, r, cancel) ==
    task' = [status |-> s, run |-> r, cancel |-> cancel, seen |-> {}]

Released(row, s) == [row EXCEPT !.status = s, !.owner = NoProc, !.live = FALSE, !.late = FALSE]

\* Mutant: a cancellation request is not looked at.
FinalStatus_NoCancel(r, s) == IF run[r].late THEN "timed_out" ELSE s

\* finalize_run: a cancellation beats the deadline, which beats what is asked for.
FinalStatus(r, s) ==
    IF task.cancel THEN "cancelled" ELSE IF run[r].late THEN "timed_out" ELSE s

Finalize(r, s) ==
    /\ run' = [run EXCEPT ![r] = Released(@, FinalStatus(r, s))]
    /\ TaskTo(FinalStatus(r, s), r, task.cancel)

\* A new run of the task.
Queue(r, old) == [old EXCEPT ![r].status = "queued"]

\* An execution whose lease has expired.
Orphaned(r) == task.run = r /\ run[r].status \in Executing /\ ~run[r].live

\* recover_runs as it moves the latest run: a decision past its expiry cancels
\* it, an execution without a live lease is settled, and what is interrupted and
\* has an accepted reference is queued again.
RecoveredStatus(r, expired) ==
    LET settled == IF run[r].status = "waiting_for_input" /\ expired THEN "cancelled"
                   ELSE IF Orphaned(r) THEN FinalStatus(r, "interrupted")
                   ELSE run[r].status
    IN  IF settled = "interrupted" /\ run[r].ref # "none" THEN "queued" ELSE settled

RecoverRuns(expired) ==
    LET r == task.run
        s == RecoveredStatus(r, expired)
    IN  IF r = NoRun \/ s = run[r].status
        THEN UNCHANGED dbvars
        ELSE /\ run' = [run EXCEPT ![r] = Released(@, s)]
             /\ TaskTo(s, r, s = "cancelled")

\* Mutant: recovery submits only the runs it has itself queued.
QueuedRuns_OwnMoves ==
    {r \in Runs : run'[r].status = "queued" /\ run[r].status # "queued" /\ task'.run = r}

\* recover_runs returns every queued latest run.
QueuedRuns == {r \in Runs : run'[r].status = "queued" /\ task'.run = r}

-----------------------------------------------------------------------------
(***************************************************************************)
(* The runner of run r in process o.                                       *)
(***************************************************************************)

Alive(o) == proc[o] \in {"up", "stopping"}

At(o, r, pc) == Alive(o) /\ runner[o][r].pc = pc

Signalled(o, r) == runner[o][r].signal

\* An await of the runner returns normally: no cancellation is pending.
Awake(o, r, pc) == At(o, r, pc) /\ ~Signalled(o, r)

Goto(o, r, pc) == runner' = [runner EXCEPT ![o][r].pc = pc]

\* The runner's asyncio task is over, its heartbeat with it.
Done(o, r) == runner' = [runner EXCEPT ![o][r] = Idle]

\* An exception takes the runner to the except clause that settles on out.
Unwind(o, r, out) ==
    runner' = [runner EXCEPT ![o][r] = [@ EXCEPT !.pc = "unwinding", !.out = out]]

\* A pending cancellation is delivered: the clause settles on interrupted.
Cancelled(o, r) ==
    runner' = [runner EXCEPT ![o][r] = [@ EXCEPT !.pc = "unwinding", !.out = "interrupted",
                                                 !.signal = FALSE]]

\* submit: one runner per run and process, none once the process is stopping.
Submit(o, r) ==
    /\ r \in listed[o]
    /\ listed' = [listed EXCEPT ![o] = @ \ {r}]
    /\ IF proc[o] = "up" /\ runner[o][r].pc = "none"
       THEN Goto(o, r, "acquiring")
       ELSE UNCHANGED runner
    /\ UNCHANGED <<dbvars, proc, envvars>>

\* Mutant: a run keeps the epoch of its first lease.
GrantedEpoch_First(r) == IF run[r].epoch = 0 THEN 1 ELSE run[r].epoch

GrantedEpoch(r) == run[r].epoch + 1

\* The lease acquisition is shielded: a cancelled runner waits for it and, if it
\* committed, finalizes the execution it was granted.
Acquire(o, r) ==
    /\ At(o, r, "acquiring")
    /\ run[r].epoch < MaxEpoch
    /\ IF run[r].status = "queued" /\ task.run = r
       THEN /\ run' = [run EXCEPT ![r] = [@ EXCEPT !.status = "running",
                                                   !.epoch = GrantedEpoch(r), !.owner = o, !.live = TRUE, !.late = FALSE]]
            /\ TaskTo("running", r, task.cancel)
            /\ runner' = [runner EXCEPT ![o][r] =
                 [@ EXCEPT !.epoch = GrantedEpoch(r),
                           !.pc = IF Signalled(o, r) THEN "settling" ELSE "preparing",
                           !.out = IF Signalled(o, r) THEN "interrupted" ELSE runner[o][r].out,
                           !.signal = FALSE]]
       ELSE Done(o, r) /\ UNCHANGED dbvars
    /\ UNCHANGED <<proc, listed, envvars>>

\* Reads of the row, the budget and the accepted checkpoint; the heartbeat and
\* the graph start last.
Prepare(o, r) ==
    /\ Awake(o, r, "preparing")
    /\ run[r].ref # "lost"
    /\ runner' = [runner EXCEPT ![o][r] = [@ EXCEPT !.pc = "streaming", !.beat = TRUE]]
    /\ UNCHANGED <<dbvars, proc, listed, envvars>>

\* The accepted checkpoint cannot be read: the execution is given up and, if the
\* task is interrupted by that, a fresh run will replace it.
GiveUpCheckpoint(o, r) ==
    /\ At(o, r, "preparing")
    /\ run[r].ref = "lost"
    /\ IF Fenced(o, r)
       THEN /\ run' = [run EXCEPT ![r] = Released(@, FinalStatus(r, "interrupted"))]
            /\ task' = [task EXCEPT !.status = FinalStatus(r, "interrupted"), !.seen = {o}]
            /\ IF FinalStatus(r, "interrupted") = "interrupted"
               THEN Goto(o, r, "replacing") ELSE Done(o, r)
       ELSE Done(o, r) /\ UNCHANGED dbvars
    /\ UNCHANGED <<proc, listed, envvars>>

\* Mutant: the replacement does not name a task version.
ReplacementWins_AnyVersion(o) == TRUE

\* retry_task_with_run names the task version that finalize returned to o.
ReplacementWins(o) == task.status = "interrupted" /\ o \in task.seen

\* A fresh run takes the place of the one that was given up, unless another
\* writer was faster.
Replace(o, r) ==
    /\ At(o, r, "replacing")
    /\ Done(o, r)
    /\ IF ReplacementWins(o)
       THEN \E q \in Runs :
              /\ run[q].status = "absent"
              /\ run' = Queue(q, run)
              /\ TaskTo("queued", q, FALSE)
              /\ listed' = IF Signalled(o, r) THEN listed
                           ELSE [listed EXCEPT ![o] = @ \cup {q}]
       ELSE UNCHANGED <<dbvars, listed>>
    /\ UNCHANGED <<proc, envvars>>

\* A node has run: guard, then record the checkpoint it left.
Record(o, r) ==
    /\ At(o, r, "streaming")
    /\ Fenced(o, r) /\ run[r].status = "running"
    /\ run[r].ref # "good"
    /\ run' = [run EXCEPT ![r].ref = "good"]
    /\ UNCHANGED <<task, proc, listed, runner, envvars>>

\* The graph asks its user, at most once in a run.
Ask(o, r) ==
    /\ Awake(o, r, "streaming")
    /\ Fenced(o, r) /\ run[r].status = "running"
    /\ run[r].ref = "good" /\ ~run[r].asked
    /\ Goto(o, r, "pausing")
    /\ UNCHANGED <<dbvars, proc, listed, envvars>>

\* The graph has ended and its report is built.
Finish(o, r) ==
    /\ Awake(o, r, "streaming")
    /\ Fenced(o, r) /\ run[r].status = "running"
    /\ Goto(o, r, "publishing")
    /\ UNCHANGED <<dbvars, proc, listed, envvars>>

\* A node raises, or a budget is exhausted: with enough evidence for a limited
\* report the run still completes.
Fail(o, r) ==
    /\ Awake(o, r, "streaming")
    /\ \E out \in {"failed", "completed_with_warnings"} : Unwind(o, r, out)
    /\ UNCHANGED <<dbvars, proc, listed, envvars>>

\* Mutant: the deadline is enforced only around the pause.
Timeout_Pausing(o, r) ==
    /\ Awake(o, r, "pausing") /\ run[r].late
    /\ Unwind(o, r, "timed_out")
    /\ UNCHANGED <<dbvars, proc, listed, envvars>>

\* asyncio.timeout around the stream
Timeout(o, r) ==
    /\ Awake(o, r, "streaming") \/ Awake(o, r, "pausing")
    /\ run[r].late
    /\ Unwind(o, r, "timed_out")
    /\ UNCHANGED <<dbvars, proc, listed, envvars>>

\* pause_for_decision
Pause(o, r) ==
    /\ At(o, r, "pausing")
    /\ Fenced(o, r) /\ run[r].status = "running"
    /\ run' = [run EXCEPT ![r] = [Released(@, "waiting_for_input") EXCEPT !.asked = TRUE]]
    /\ TaskTo("waiting_for_input", r, task.cancel)
    /\ Goto(o, r, "paused")
    /\ UNCHANGED <<proc, listed, envvars>>

\* After the pause the heartbeat is stopped and the runner returns.
LeavePaused(o, r) ==
    /\ Awake(o, r, "paused")
    /\ Done(o, r)
    /\ UNCHANGED <<dbvars, proc, listed, envvars>>

\* The heartbeat is stopped, the guard asked once more, the result published.
Publish(o, r) ==
    /\ At(o, r, "publishing")
    /\ IF runner[o][r].beat
       THEN /\ ~Signalled(o, r)
            /\ runner' = [runner EXCEPT ![o][r].beat = FALSE]
            /\ UNCHANGED dbvars
       ELSE /\ Fenced(o, r)
            /\ Finalize(r, "completed")
            /\ Done(o, r)
    /\ UNCHANGED <<proc, listed, envvars>>

\* A guard or a fenced transaction finds that the execution is over (the runner
\* returns) or that its task is being cancelled (it cancels itself).
Fence(o, r) ==
    /\ \E pc \in {"streaming", "pausing", "publishing"} : Awake(o, r, pc)
    /\ \/ ~Fenced(o, r) /\ Done(o, r)
       \/ Fenced(o, r) /\ run[r].status = "cancelling" /\ Cancelled(o, r)
    /\ UNCHANGED <<dbvars, proc, listed, envvars>>

\* A pending cancellation is delivered at the next await; a runner that has not
\* begun never begins.
Deliver(o, r) ==
    /\ Signalled(o, r)
    /\ \/ /\ \E pc \in {"preparing", "replacing", "streaming", "pausing", "paused",
                         "publishing"} : At(o, r, pc)
          /\ Cancelled(o, r)
       \/ At(o, r, "acquiring") /\ Done(o, r)
    /\ UNCHANGED <<dbvars, proc, listed, envvars>>

\* record_active_budget, once before a pause or a publication, is best effort and
\* swallows a cancellation.
Swallow(o, r) ==
    /\ At(o, r, "pausing") \/ At(o, r, "publishing")
    /\ Signalled(o, r) /\ ~runner[o][r].measured
    /\ runner' = [runner EXCEPT ![o][r] = [@ EXCEPT !.signal = FALSE, !.measured = TRUE]]
    /\ UNCHANGED <<dbvars, proc, listed, envvars>>

\* stop_heartbeat, record_active_budget and finish_trace of an except clause.  A
\* cancellation delivered in the second of them is swallowed.  One delivered in
\* the others leaves the clause and the finalize below it is not reached, unless
\* it strikes within the budget clause, which interrupts the run instead.
UnwindStep(o, r) ==
    LET SettleOn(out) == runner' = [runner EXCEPT ![o][r] =
                           [@ EXCEPT !.pc = "settling", !.out = out,
                                     !.signal = FALSE, !.beat = FALSE]]
        out == runner[o][r].out
    IN  /\ At(o, r, "unwinding")
        /\ \/ SettleOn(out)
           \/ Signalled(o, r) /\ Done(o, r)
           \/ Signalled(o, r) /\ out = "completed_with_warnings" /\ SettleOn("interrupted")
        /\ UNCHANGED <<dbvars, proc, listed, envvars>>

\* Mutant: a runner that has lost its lease keeps trying to finalize.
Settle_UntilFenced(o, r) ==
    /\ At(o, r, "settling") /\ Fenced(o, r)
    /\ Finalize(r, runner[o][r].out) /\ Done(o, r)
    /\ UNCHANGED <<proc, listed, envvars>>

\* The finalize transaction of an except clause.  Only the one of a cancelled
\* runner is shielded from a further cancellation.
Settle(o, r) ==
    LET out == runner[o][r].out
    IN  /\ At(o, r, "settling")
        /\ IF Signalled(o, r) /\ out # "interrupted"
           THEN /\ UNCHANGED dbvars
                /\ IF out = "completed_with_warnings"
                   THEN runner' = [runner EXCEPT ![o][r] =
                          [@ EXCEPT !.out = "interrupted", !.signal = FALSE]]
                   ELSE Done(o, r)
           ELSE /\ Done(o, r)
                /\ IF Fenced(o, r) THEN Finalize(r, out) ELSE UNCHANGED dbvars
        /\ UNCHANGED <<proc, listed, envvars>>

\* A transaction of the runner fails with an exception of the database.
DatabaseFault(o, r) ==
    /\ faults < MaxFaults
    /\ faults' = faults + 1
    /\ \/ (At(o, r, "acquiring") \/ At(o, r, "replacing")) /\ Done(o, r)
       \/ /\ Alive(o) /\ runner[o][r].beat
          /\ runner' = [runner EXCEPT ![o][r] = [@ EXCEPT !.signal = TRUE, !.beat = FALSE]]
       \/ /\ \E pc \in {"preparing", "streaming", "pausing", "publishing"} : At(o, r, pc)
          /\ Unwind(o, r, "failed")
       \/ /\ At(o, r, "settling")
          /\ IF runner[o][r].out = "completed_with_warnings"
             THEN runner' = [runner EXCEPT ![o][r].out = "failed"]
             ELSE Done(o, r)
    /\ UNCHANGED <<dbvars, proc, listed, late, lost>>

\* The heartbeat of an execution that is over, or is being cancelled, cancels its
\* runner; any other heartbeat only extends the lease.
Heartbeat(o, r) ==
    /\ Alive(o) /\ runner[o][r].beat
    /\ Fenced(o, r) => run[r].status = "cancelling"
    /\ runner' = [runner EXCEPT ![o][r] = [@ EXCEPT !.signal = TRUE, !.beat = FALSE]]
    /\ UNCHANGED <<dbvars, proc, listed, envvars>>

RunnerStep(o, r) ==
    \/ Acquire(o, r) \/ Prepare(o, r) \/ GiveUpCheckpoint(o, r) \/ Replace(o, r)
    \/ Pause(o, r) \/ LeavePaused(o, r) \/ Publish(o, r)
    \/ Fence(o, r) \/ Timeout(o, r) \/ UnwindStep(o, r) \/ Settle(o, r)

-----------------------------------------------------------------------------
(***************************************************************************)
(* Processes.                                                              *)
(***************************************************************************)

\* start() and every tick of the recovery loop
Recover(o, expired) ==
    /\ proc[o] \in {"off", "up"}
    /\ proc' = [proc EXCEPT ![o] = "up"]
    /\ RecoverRuns(expired)
    /\ listed' = [listed EXCEPT ![o] = @ \cup QueuedRuns]
    /\ UNCHANGED <<runner, envvars>>

\* stop(): no more submissions, and every runner is cancelled and waited for.
Stop(o) ==
    /\ o \in Mortal /\ proc[o] = "up"
    /\ proc' = [proc EXCEPT ![o] = "stopping"]
    /\ listed' = [listed EXCEPT ![o] = {}]
    /\ runner' = [runner EXCEPT ![o] =
         [r \in Runs |-> IF runner[o][r].pc = "none" THEN Idle
                         ELSE [runner[o][r] EXCEPT !.signal = TRUE]]]
    /\ UNCHANGED <<dbvars, envvars>>

Stopped(o) ==
    /\ proc[o] = "stopping"
    /\ \A r \in Runs : runner[o][r].pc = "none"
    /\ proc' = [proc EXCEPT ![o] = "stopped"]
    /\ listed' = [listed EXCEPT ![o] = {}]
    /\ UNCHANGED <<dbvars, runner, envvars>>

Crash(o) ==
    /\ o \in Mortal /\ Alive(o)
    /\ proc' = [proc EXCEPT ![o] = "crashed"]
    /\ listed' = [listed EXCEPT ![o] = {}]
    /\ runner' = [runner EXCEPT ![o] = [r \in Runs |-> Idle]]
    /\ UNCHANGED <<dbvars, envvars>>

-----------------------------------------------------------------------------
(***************************************************************************)
(* Requests, served by a process that is up.                               *)
(***************************************************************************)

CreateTask(o, r) ==
    /\ proc[o] = "up"
    /\ task.status = "absent"
    /\ run' = Queue(r, run)
    /\ TaskTo("queued", r, FALSE)
    /\ listed' = [listed EXCEPT ![o] = @ \cup {r}]
    /\ UNCHANGED <<proc, runner, envvars>>

\* cancel: a running task is marked, and a runner in this process is cancelled;
\* asking again cancels the runner again.
CancelTask(o) ==
    LET r == task.run
        cancelling == task.status \in Executing
    IN  /\ proc[o] = "up"
        /\ task.status \in Executing \cup {"queued", "waiting_for_input", "interrupted"}
        /\ IF cancelling
           THEN /\ run' = [run EXCEPT ![r].status = "cancelling"]
                /\ IF task.status = "running" THEN TaskTo("cancelling", r, TRUE)
                                              ELSE UNCHANGED task
                /\ runner' = [runner EXCEPT ![o][r].signal = @ \/ runner[o][r].pc # "none"]
           ELSE /\ run' = [run EXCEPT ![r] = Released(@, "cancelled")]
                /\ TaskTo("cancelled", r, TRUE)
                /\ UNCHANGED runner
        /\ UNCHANGED <<proc, listed, envvars>>

\* TaskService.resume of a task whose run has a checkpoint: the run goes on.
ResumeTask(o) ==
    /\ proc[o] = "up"
    /\ task.status = "interrupted" /\ run[task.run].ref # "none"
    /\ run' = [run EXCEPT ![task.run] = Released(@, "queued")]
    /\ TaskTo("queued", task.run, FALSE)
    /\ listed' = [listed EXCEPT ![o] = @ \cup {task.run}]
    /\ UNCHANGED <<proc, runner, envvars>>

\* TaskService.resume of any other unsuccessful task: a new run.
RetryTask(o, r) ==
    /\ proc[o] = "up"
    /\ task.status \in Retryable
    /\ task.status = "interrupted" => run[task.run].ref = "none"
    /\ run[r].status = "absent"
    /\ run' = Queue(r, run)
    /\ TaskTo("queued", r, FALSE)
    /\ listed' = [listed EXCEPT ![o] = @ \cup {r}]
    /\ UNCHANGED <<proc, runner, envvars>>

ResolveDecision(o) ==
    LET r == task.run
    IN  /\ proc[o] = "up"
        /\ task.status = "waiting_for_input"
        /\ \E s \in {"queued", "cancelled"} :
             /\ run' = [run EXCEPT ![r] = Released(@, s)]
             /\ TaskTo(s, r, s = "cancelled")
             /\ listed' = [listed EXCEPT ![o] = IF s = "queued" THEN @ \cup {r} ELSE @]
        /\ UNCHANGED <<proc, runner, envvars>>

-----------------------------------------------------------------------------
(***************************************************************************)
(* Time and storage.                                                       *)
(***************************************************************************)

\* The lease of r still has the runner it was granted to.
Held(r) == \E o \in Procs : Alive(o) /\ runner[o][r].pc # "none" /\ Fenced(o, r)

\* A lease whose runner is gone reaches its expiry.  One whose runner is alive
\* does so only if its heartbeat is late or not yet (no longer) running.
LeaseExpires(r) ==
    /\ run[r].status \in Executing /\ run[r].live
    /\ Held(r) => late < MaxLate
    /\ late' = IF Held(r) THEN late + 1 ELSE late
    /\ run' = [run EXCEPT ![r].live = FALSE]
    /\ UNCHANGED <<task, proc, listed, runner, faults, lost>>

DeadlinePasses(r) ==
    /\ run[r].status \in Executing /\ ~run[r].late
    /\ run' = [run EXCEPT ![r].late = TRUE]
    /\ UNCHANGED <<task, proc, listed, runner, envvars>>

\* A payload in the checkpoint store is lost while a spare run can replace it.
LoseCheckpoint(r) ==
    /\ lost < MaxLost
    /\ run[r].ref = "good" /\ \E q \in Runs : run[q].status = "absent"
    /\ lost' = lost + 1
    /\ run' = [run EXCEPT ![r].ref = "lost"]
    /\ UNCHANGED <<task, proc, listed, runner, late, faults>>

Next ==
    \/ \E o \in Procs : (\E expired \in BOOLEAN : Recover(o, expired)) \/ Stop(o) \/ Stopped(o) \/ Crash(o)
    \/ \E o \in Procs : CancelTask(o) \/ ResumeTask(o) \/ ResolveDecision(o)
    \/ \E o \in Procs, r \in Runs :
         \/ CreateTask(o, r) \/ RetryTask(o, r) \/ Submit(o, r)
         \/ RunnerStep(o, r)
         \/ Record(o, r) \/ Ask(o, r) \/ Finish(o, r) \/ Fail(o, r)
         \/ Deliver(o, r) \/ Swallow(o, r) \/ Heartbeat(o, r)
         \/ DatabaseFault(o, r)
    \/ \E r \in Runs : LeaseExpires(r) \/ DeadlinePasses(r) \/ LoseCheckpoint(r)

\* What the code's scheduling justifies: asyncio resumes every runner whose
\* await is over and delivers cancellations; heartbeats and recovery ticks
\* recur in a process that stays up; clocks advance.  A graph need not end, a
\* user need not act, a fault need not strike.
RunnerFairness ==
    \A o \in Procs, r \in Runs :
      /\ WF_vars(RunnerStep(o, r))
      /\ WF_vars(Deliver(o, r))
      /\ WF_vars(Heartbeat(o, r))
      /\ WF_vars(Submit(o, r))

ProcessFairness ==
    /\ \A o \in Procs \ Mortal : \A expired \in BOOLEAN : WF_vars(Recover(o, expired))
    /\ \A o \in Procs : WF_vars(Stopped(o))

ClockFairness ==
    \A r \in Runs : WF_vars(~Held(r) /\ LeaseExpires(r)) /\ WF_vars(DeadlinePasses(r))

Spec == Init /\ [][Next]_vars

FairSpec == Spec /\ RunnerFairness /\ ProcessFairness /\ ClockFairness

-----------------------------------------------------------------------------
(***************************************************************************)
(* Invariants.                                                             *)
(***************************************************************************)

\* Types.
TypeOK ==
    /\ task \in [status : Statuses, run : Runs \cup {NoRun}, cancel : BOOLEAN,
                 seen : SUBSET Procs]
    /\ run \in [Runs -> [status : Statuses, epoch : Nat, owner : Procs \cup {NoProc},
                         live : BOOLEAN, late : BOOLEAN,
                         ref : {"none", "good", "lost"}, asked : BOOLEAN]]
    /\ proc \in [Procs -> {"off", "up", "stopping", "stopped", "crashed"}]
    /\ listed \in [Procs -> SUBSET Runs]
    /\ runner \in [Procs -> [Runs -> [pc : Places, epoch : Nat, signal : BOOLEAN,
                                     beat : BOOLEAN, out : Statuses \cup {"none"},
                                     measured : BOOLEAN]]]
    /\ late \in 0..MaxLate /\ faults \in 0..MaxFaults /\ lost \in 0..MaxLost

\* Two processes never execute a run in the same epoch, however the lease moved
\* between them: the epoch is what tells a late worker from the current one.
EpochsDistinguishRunners ==
    \A r \in Runs : \A o, q \in Procs :
      o # q /\ runner[o][r].epoch = runner[q][r].epoch => runner[o][r].epoch = 0

\* The tables, the processes and their runners keep their types, and no two
\* runners are taken for one another.
RunnersAgree == TypeOK /\ EpochsDistinguishRunners

-----------------------------------------------------------------------------
(***************************************************************************)
(* Action properties.                                                      *)
(***************************************************************************)

\* A wait for the user is ended by the user or by its expiry, never by what is
\* left of the execution that asked: a heartbeat that finds its lease released,
\* a deadline, a cancelled runner or a failing one.
PauseStands ==
    [][\A r \in Runs :
         run[r].status = "waiting_for_input" /\ run'[r].status # "waiting_for_input" =>
           \A o \in Procs : runner'[o][r].pc = runner[o][r].pc]_vars

-----------------------------------------------------------------------------
(***************************************************************************)
(* Liveness.                                                               *)
(***************************************************************************)

\* A requested cancellation completes, whatever crashes, stops or is cancelled
\* twice on the way.
CancellationCompletes == task.status = "cancelling" ~> task.status = "cancelled"

\* Nothing stays in execution: a run whose runner is gone is recovered, one whose
\* graph hangs runs into its deadline.
ExecutionEnds == \A r \in Runs : run[r].status \in Executing ~> run[r].status \notin Executing

\* A queued run is started or cancelled, whichever process had it in hand.
QueueDrains == task.status = "queued" ~> task.status # "queued"

\* A graceful stop terminates.
StopTerminates == \A o \in Procs : proc[o] = "stopping" ~> proc[o] # "stopping"

-----------------------------------------------------------------------------
\* One task, seen by its users; a result is there when its run is successful.
Contract == INSTANCE TaskLifecycle WITH
    Tasks     <- {"task"},
    status    <- [t \in {"task"} |-> task.status],
    latest    <- [t \in {"task"} |-> task.run],
    used      <- {r \in Runs : run[r].status # "absent"},
    published <- {r \in Runs : run[r].status \in Successful}

\* Whatever the runners, heartbeats and processes do, a task moves only along
\* the lifecycle its users are promised.
ImplementsLifecycle == Contract!Spec
=============================================================================
