-------------------------- MODULE CoordinatorProofs --------------------------
(***************************************************************************)
(* Theorems about Coordinator, for any processes, runs and bounds: the     *)
(* epoch tells the runners of a run apart, a pause is not taken back by    *)
(* what is left of an execution, and runners, heartbeats, recovery loops,  *)
(* stops and crashes together implement the lifecycle of TaskLifecycle.    *)
(***************************************************************************)
EXTENDS Coordinator, TLAPS

-----------------------------------------------------------------------------
(***************************************************************************)
(* The inductive invariant.                                                *)
(***************************************************************************)

\* The task and its latest run tell one status.
TaskNamesRun ==
    IF task.status = "absent"
    THEN task.run = NoRun /\ \A r \in Runs : run[r].status = "absent"
    ELSE task.run \in Runs /\ run[task.run].status = task.status

\* Only the latest run can be executing, waiting or successful.
OthersClosed ==
    \A r \in Runs : r # task.run => run[r].status \in Retryable \cup {"absent"}

\* A cancellation is recorded exactly while the task is being cancelled or has been.
CancelAgrees == task.cancel <=> task.status \in {"cancelling", "cancelled"}

\* No runner shows an epoch that was not granted.
EpochsGranted == \A o \in Procs, r \in Runs : runner[o][r].epoch <= run[r].epoch

\* What the except clauses settle on.
Outs == {"failed", "timed_out", "interrupted", "completed_with_warnings"}

OutKnown ==
    \A o \in Procs, r \in Runs :
      runner[o][r].pc \in {"unwinding", "settling"} => runner[o][r].out \in Outs

TablesAgree == TaskNamesRun /\ OthersClosed /\ CancelAgrees

IInv == TypeOK /\ TablesAgree /\ OutKnown /\ EpochsGranted /\ EpochsDistinguishRunners

-----------------------------------------------------------------------------
(***************************************************************************)
(* How a step may change the tables.                                       *)
(***************************************************************************)

TaskRows == [status : Statuses, run : Runs \cup {NoRun}, cancel : BOOLEAN, seen : SUBSET Procs]

RunRows == [status : Statuses, epoch : Nat, owner : Procs \cup {NoProc}, live : BOOLEAN,
            late : BOOLEAN, ref : {"none", "good", "lost"}, asked : BOOLEAN]

\* Only the row of r changes, and keeps its type.
OnlyRow(r) ==
    /\ run' = [run EXCEPT ![r] = run'[r]]
    /\ run'[r] \in RunRows

Rests == task' = task /\ run' = run

\* r keeps its status.
Touches(r) ==
    /\ task' = task /\ OnlyRow(r)
    /\ run'[r].status = run[r].status

\* The task and its latest run r move to s along an edge of the lifecycle; if r
\* was waiting for its user, no runner moves with it.
Edges == Contract!SameRun \cup Contract!Recovery

Moves(r, s) ==
    /\ r = task.run /\ <<run[r].status, s>> \in Edges
    /\ OnlyRow(r) /\ run'[r].status = s
    /\ task' \in TaskRows
    /\ task'.status = s /\ task'.run = r
    /\ task'.cancel <=> s \in {"cancelling", "cancelled"}
    /\ run[r].status = "waiting_for_input" => \A o \in Procs : runner'[o][r].pc = runner[o][r].pc

\* A fresh run r becomes the latest one.
Begins(r) ==
    /\ run[r].status = "absent" /\ task.status \in Retryable \cup {"absent"}
    /\ OnlyRow(r) /\ run'[r].status = "queued"
    /\ task' \in TaskRows
    /\ task'.status = "queued" /\ task'.run = r /\ task'.cancel = FALSE

TablesStep ==
    \/ Rests
    \/ \E r \in Runs : Touches(r) \/ Begins(r) \/ \E s \in Statuses : Moves(r, s)

\* The rows after any such step are typed and agree.
LEMMA TablesStepKeeps ==
    ASSUME TablesAgree, task \in TaskRows, run \in [Runs -> RunRows], TablesStep
    PROVE  TablesAgree' /\ task' \in TaskRows /\ run' \in [Runs -> RunRows]
<1>1. CASE Rests
  BY <1>1 DEF Rests, TablesAgree, TaskNamesRun, OthersClosed, CancelAgrees
<1>2. ASSUME NEW r \in Runs, Touches(r)
      PROVE  TablesAgree' /\ task' \in TaskRows /\ run' \in [Runs -> RunRows]
  <2>1. run' \in [Runs -> RunRows] /\ \A q \in Runs : run'[q].status = run[q].status
    BY <1>2 DEF Touches, OnlyRow
  <2> QED BY <1>2, <2>1 DEF Touches, TablesAgree, TaskNamesRun, OthersClosed, CancelAgrees
<1>3. ASSUME NEW r \in Runs, Begins(r)
      PROVE  TablesAgree' /\ task' \in TaskRows /\ run' \in [Runs -> RunRows]
  <2>1. /\ run' \in [Runs -> RunRows]
        /\ run'[r].status = "queued" /\ \A q \in Runs \ {r} : run'[q].status = run[q].status
    BY <1>3 DEF Begins, OnlyRow
  <2>2. \A q \in Runs : run[q].status \in Retryable \cup {"absent"}
    BY <1>3 DEF Begins, TablesAgree, TaskNamesRun, OthersClosed
  <2> QED BY <1>3, <2>1, <2>2 DEF Begins, TablesAgree, TaskNamesRun, OthersClosed, CancelAgrees
<1>4. ASSUME NEW r \in Runs, NEW s \in Statuses, Moves(r, s)
      PROVE  TablesAgree' /\ task' \in TaskRows /\ run' \in [Runs -> RunRows]
  <2>1. /\ run' \in [Runs -> RunRows]
        /\ run'[r].status = s /\ \A q \in Runs \ {r} : run'[q].status = run[q].status
    BY <1>4 DEF Moves, OnlyRow
  <2>2. s # "absent"
    BY <1>4 DEF Moves, Edges, Contract!SameRun, Contract!Recovery, Contract!Successes
  <2> QED BY <1>4, <2>1, <2>2 DEF Moves, TablesAgree, TaskNamesRun, OthersClosed, CancelAgrees
<1> QED BY <1>1, <1>2, <1>3, <1>4 DEF TablesStep

-----------------------------------------------------------------------------
(***************************************************************************)
(* How a step may change the runners.                                      *)
(***************************************************************************)

RunnerRows == [pc : Places, epoch : Nat, signal : BOOLEAN, beat : BOOLEAN,
               out : Statuses \cup {"none"}, measured : BOOLEAN]

\* A runner goes on in its epoch, or is over.
GoesOn(o, r) ==
    /\ runner'[o][r] \in RunnerRows
    /\ runner'[o][r].epoch \in {0, runner[o][r].epoch}
    /\ runner'[o][r].pc \in {"unwinding", "settling"} => runner'[o][r].out \in Outs

RunnersGoOn ==
    /\ runner' \in [Procs -> [Runs -> RunnerRows]]
    /\ \A o \in Procs, r \in Runs : GoesOn(o, r)
    /\ \A r \in Runs : run'[r].epoch = run[r].epoch

\* The runner of r in o is granted the next epoch.
IsGranted(o, r) ==
    /\ runner' \in [Procs -> [Runs -> RunnerRows]]
    /\ \A p \in Procs, q \in Runs : p # o \/ q # r => runner'[p][q] = runner[p][q]
    /\ runner'[o][r].pc \in {"unwinding", "settling"} => runner'[o][r].out \in Outs
    /\ runner'[o][r].epoch = run[r].epoch + 1
    /\ run'[r].epoch = run[r].epoch + 1
    /\ \A q \in Runs \ {r} : run'[q].epoch = run[q].epoch

RunnersStep == RunnersGoOn \/ \E o \in Procs, r \in Runs : IsGranted(o, r)

\* After any such step the epochs still tell the runners apart.
LEMMA RunnersStepKeeps ==
    ASSUME IInv, run' \in [Runs -> RunRows], RunnersStep
    PROVE  /\ runner' \in [Procs -> [Runs -> RunnerRows]]
           /\ OutKnown' /\ EpochsGranted' /\ EpochsDistinguishRunners'
<1>1. /\ \A o \in Procs, r \in Runs : runner[o][r].epoch \in Nat
      /\ \A r \in Runs : run[r].epoch \in Nat
      /\ \A o \in Procs, r \in Runs : runner[o][r].epoch <= run[r].epoch
  BY DEF IInv, TypeOK, EpochsGranted
<1>2. CASE RunnersGoOn
  <2>1. \A o \in Procs, r \in Runs : runner'[o][r].epoch \in {0, runner[o][r].epoch}
    BY <1>2 DEF RunnersGoOn, GoesOn
  <2>2. OutKnown'
    BY <1>2 DEF RunnersGoOn, GoesOn, OutKnown
  <2>3. EpochsGranted'
    <3> SUFFICES ASSUME NEW o \in Procs, NEW r \in Runs
                 PROVE  runner'[o][r].epoch <= run'[r].epoch
      BY DEF EpochsGranted
    <3>1. run'[r].epoch = run[r].epoch
      BY <1>2 DEF RunnersGoOn
    <3> QED BY <1>1, <2>1, <3>1
  <2>4. EpochsDistinguishRunners'
    BY <2>1 DEF IInv, EpochsDistinguishRunners
  <2> QED BY <1>2, <2>2, <2>3, <2>4 DEF RunnersGoOn
<1>3. ASSUME NEW o \in Procs, NEW r \in Runs, IsGranted(o, r)
      PROVE  /\ runner' \in [Procs -> [Runs -> RunnerRows]]
             /\ OutKnown' /\ EpochsGranted' /\ EpochsDistinguishRunners'
  <2>1. \A p \in Procs, q \in Runs : p # o \/ q # r => runner'[p][q] = runner[p][q]
    BY <1>3 DEF IsGranted
  <2>2. OutKnown'
    BY <1>3, <2>1 DEF IsGranted, IInv, OutKnown
  <2>3. EpochsGranted'
    <3> SUFFICES ASSUME NEW p \in Procs, NEW q \in Runs
                 PROVE  runner'[p][q].epoch <= run'[q].epoch
      BY DEF EpochsGranted
    <3> QED BY <1>1, <1>3, <2>1 DEF IsGranted
  <2>4. \A p \in Procs : p # o => runner'[p][r].epoch # runner'[o][r].epoch
    BY <1>1, <1>3, <2>1 DEF IsGranted
  <2>5. EpochsDistinguishRunners'
    BY <2>1, <2>4 DEF IInv, EpochsDistinguishRunners
  <2> QED BY <1>3, <2>2, <2>3, <2>5 DEF IsGranted
<1> QED BY <1>2, <1>3 DEF RunnersStep

-----------------------------------------------------------------------------
(***************************************************************************)
(* One runner.                                                             *)
(***************************************************************************)

\* A row that the runner of r in o may come to have.
Continues(o, r, row) ==
    /\ row \in RunnerRows
    /\ row.epoch \in {0, runner[o][r].epoch}
    /\ row.pc \in {"unwinding", "settling"} => row.out \in Outs

\* The runner of r in o goes on, and every other one stays where it is.
OneGoesOn(o, r) ==
    \E row : Continues(o, r, row) /\ runner' = [runner EXCEPT ![o][r] = row]

LEMMA OneRunner ==
    ASSUME IInv, NEW o \in Procs, NEW r \in Runs, NEW row \in RunnerRows,
           runner' = [runner EXCEPT ![o][r] = row]
    PROVE  /\ runner' \in [Procs -> [Runs -> RunnerRows]]
           /\ runner'[o][r] = row
           /\ \A p \in Procs, q \in Runs : p # o \/ q # r => runner'[p][q] = runner[p][q]
<1>1. runner \in [Procs -> [Runs -> RunnerRows]]
  BY DEF IInv, TypeOK, RunnerRows
<1>2. [runner[o] EXCEPT ![r] = row] \in [Runs -> RunnerRows]
  BY <1>1
<1>3. runner' = [runner EXCEPT ![o] = [runner[o] EXCEPT ![r] = row]]
  OBVIOUS
<1> QED BY <1>1, <1>2, <1>3

\* Every runner goes on when none of them moves, or one of them does.
LEMMA StillRunnersGoOn ==
    ASSUME IInv, runner' = runner, \A r \in Runs : run'[r].epoch = run[r].epoch
    PROVE  RunnersStep
BY DEF IInv, TypeOK, OutKnown, RunnersStep, RunnersGoOn, GoesOn, RunnerRows

LEMMA OneRunnerGoesOn ==
    ASSUME IInv, NEW o \in Procs, NEW r \in Runs, OneGoesOn(o, r),
           \A q \in Runs : run'[q].epoch = run[q].epoch
    PROVE  RunnersStep
<1>1. PICK row : Continues(o, r, row) /\ runner' = [runner EXCEPT ![o][r] = row]
  BY DEF OneGoesOn
<1>2. /\ runner' \in [Procs -> [Runs -> RunnerRows]]
      /\ runner'[o][r] = row
      /\ \A p \in Procs, q \in Runs : p # o \/ q # r => runner'[p][q] = runner[p][q]
  BY <1>1, OneRunner DEF Continues
<1>3. ASSUME NEW p \in Procs, NEW q \in Runs
      PROVE  GoesOn(p, q)
  <2>1. runner'[p][q] \in RunnerRows
    BY <1>2
  <2>2. CASE p = o /\ q = r
    BY <1>1, <1>2, <2>1, <2>2 DEF GoesOn, Continues
  <2>3. CASE p # o \/ q # r
    BY <1>2, <2>1, <2>3 DEF GoesOn, IInv, OutKnown
  <2> QED BY <2>2, <2>3
<1> QED BY <1>2, <1>3 DEF RunnersStep, RunnersGoOn

\* The rows that the operators of the runner write.
LEMMA RunnerWrites ==
    ASSUME IInv, NEW o \in Procs, NEW r \in Runs
    PROVE  /\ Done(o, r) => OneGoesOn(o, r)
           /\ \A pc \in Places \ {"unwinding", "settling"} : Goto(o, r, pc) => OneGoesOn(o, r)
           /\ \A out \in Outs : Unwind(o, r, out) => OneGoesOn(o, r)
           /\ Cancelled(o, r) => OneGoesOn(o, r)
<1> DEFINE old == runner[o][r]
<1>1. /\ old \in RunnerRows /\ Outs \subseteq Statuses
      /\ old.pc \in {"unwinding", "settling"} => old.out \in Outs
  BY DEF IInv, TypeOK, OutKnown, RunnerRows, Outs, Statuses, Retryable, Successful
<1>2. Continues(o, r, Idle)
  BY DEF Continues, Idle, RunnerRows, Places
<1>3. \A pc \in Places \ {"unwinding", "settling"} : Continues(o, r, [old EXCEPT !.pc = pc])
  BY <1>1 DEF Continues, RunnerRows
<1>4. \A out \in Outs : Continues(o, r, [old EXCEPT !.pc = "unwinding", !.out = out])
  BY <1>1 DEF Continues, RunnerRows, Places
<1>5. Continues(o, r, [old EXCEPT !.pc = "unwinding", !.out = "interrupted", !.signal = FALSE])
  BY <1>1 DEF Continues, RunnerRows, Places, Outs
<1>6. ASSUME NEW pc \in Places \ {"unwinding", "settling"}, Goto(o, r, pc)
      PROVE  OneGoesOn(o, r)
  <2>1. runner' = [runner EXCEPT ![o][r] = [old EXCEPT !.pc = pc]]
    BY <1>6 DEF Goto
  <2> QED BY <1>3, <2>1 DEF OneGoesOn
<1>7. ASSUME NEW out \in Outs, Unwind(o, r, out)
      PROVE  OneGoesOn(o, r)
  <2>1. runner' = [runner EXCEPT ![o][r] = [old EXCEPT !.pc = "unwinding", !.out = out]]
    BY <1>7 DEF Unwind
  <2> QED BY <1>4, <2>1 DEF OneGoesOn
<1>8. Cancelled(o, r) => OneGoesOn(o, r)
  <2>1. Cancelled(o, r) => runner' = [runner EXCEPT ![o][r] =
          [old EXCEPT !.pc = "unwinding", !.out = "interrupted", !.signal = FALSE]]
    BY DEF Cancelled
  <2> QED BY <1>5, <2>1 DEF OneGoesOn
<1> QED BY <1>2, <1>6, <1>7, <1>8 DEF Done, OneGoesOn

-----------------------------------------------------------------------------
(***************************************************************************)
(* The actions that leave the tables alone.                                *)
(***************************************************************************)

OthersTyped ==
    /\ proc \in [Procs -> {"off", "up", "stopping", "stopped", "crashed"}]
    /\ listed \in [Procs -> SUBSET Runs]
    /\ late \in 0..MaxLate /\ faults \in 0..MaxFaults /\ lost \in 0..MaxLost

Steps == TablesStep /\ RunnersStep /\ OthersTyped'

LEMMA QuietSteps ==
    ASSUME IInv, Rests, NEW o \in Procs, NEW r \in Runs, runner' = runner \/ OneGoesOn(o, r)
    PROVE  TablesStep /\ RunnersStep
BY StillRunnersGoOn, OneRunnerGoesOn DEF Rests, TablesStep

\* A runner moves between two transactions.
LEMMA RunnerOnlySteps ==
    ASSUME IInv, NEW o \in Procs, NEW r \in Runs,
           \/ Submit(o, r) \/ Prepare(o, r) \/ Ask(o, r) \/ Finish(o, r) \/ Fail(o, r)
           \/ LeavePaused(o, r) \/ Fence(o, r) \/ Timeout(o, r) \/ UnwindStep(o, r)
           \/ Deliver(o, r) \/ Swallow(o, r) \/ Heartbeat(o, r) \/ DatabaseFault(o, r)
    PROVE  Rests /\ (runner' = runner \/ OneGoesOn(o, r)) /\ OthersTyped'
<1> DEFINE old == runner[o][r]
<1> USE DEF Rests, dbvars, envvars
<1>1. /\ old \in RunnerRows /\ OthersTyped
      /\ old.pc \in {"unwinding", "settling"} => old.out \in Outs
  BY DEF IInv, TypeOK, OutKnown, RunnerRows, OthersTyped
<1>2. /\ Done(o, r) => OneGoesOn(o, r)
      /\ \A pc \in Places \ {"unwinding", "settling"} : Goto(o, r, pc) => OneGoesOn(o, r)
      /\ \A out \in Outs : Unwind(o, r, out) => OneGoesOn(o, r)
      /\ Cancelled(o, r) => OneGoesOn(o, r)
  BY RunnerWrites
<1>3. /\ {"acquiring", "pausing", "publishing"} \subseteq Places \ {"unwinding", "settling"}
      /\ {"failed", "completed_with_warnings", "timed_out"} \subseteq Outs
  BY DEF Places, Outs
<1>4. ASSUME NEW row \in RunnerRows, row.epoch = old.epoch, row.out = old.out,
             row.pc \in {"unwinding", "settling"} => old.pc \in {"unwinding", "settling"},
             runner' = [runner EXCEPT ![o][r] = row]
      PROVE  OneGoesOn(o, r)
  BY <1>1, <1>4 DEF OneGoesOn, Continues
<1>5. CASE Submit(o, r)
  <2>1. listed' \in [Procs -> SUBSET Runs]
    BY <1>1, <1>5 DEF Submit, OthersTyped
  <2> QED BY <1>1, <1>2, <1>3, <1>5, <2>1 DEF Submit, OthersTyped
<1>6. CASE Prepare(o, r)
  <2> DEFINE row == [old EXCEPT !.pc = "streaming", !.beat = TRUE]
  <2>1. /\ row \in RunnerRows /\ row.epoch = old.epoch /\ row.out = old.out
        /\ row.pc = "streaming"
    BY <1>1 DEF RunnerRows, Places
  <2>2. runner' = [runner EXCEPT ![o][r] = row]
    BY <1>6 DEF Prepare
  <2> QED BY <1>1, <1>4, <1>6, <2>1, <2>2 DEF Prepare, OthersTyped
<1>7. CASE Ask(o, r) \/ Finish(o, r)
  BY <1>1, <1>2, <1>3, <1>7 DEF Ask, Finish, OthersTyped
<1>8. CASE Fail(o, r) \/ Timeout(o, r)
  BY <1>1, <1>2, <1>3, <1>8 DEF Fail, Timeout, OthersTyped
<1>9. CASE LeavePaused(o, r) \/ Fence(o, r) \/ Deliver(o, r)
  BY <1>1, <1>2, <1>9 DEF LeavePaused, Fence, Deliver, OthersTyped
<1>10. CASE UnwindStep(o, r)
  <2>1. ASSUME NEW out \in Outs,
               runner' = [runner EXCEPT ![o][r] = [old EXCEPT !.pc = "settling", !.out = out,
                                                     !.signal = FALSE, !.beat = FALSE]]
        PROVE  OneGoesOn(o, r)
    <3>1. Continues(o, r, [old EXCEPT !.pc = "settling", !.out = out, !.signal = FALSE,
                                      !.beat = FALSE])
      BY <1>1 DEF Continues, RunnerRows, Places, Outs, Statuses, Retryable, Successful
    <3> QED BY <2>1, <3>1 DEF OneGoesOn
  <2>2. old.out \in Outs /\ "interrupted" \in Outs
    BY <1>1, <1>10 DEF UnwindStep, At, Outs
  <2> QED BY <1>1, <1>2, <1>10, <2>1, <2>2 DEF UnwindStep, OthersTyped
<1>11. CASE Swallow(o, r)
  <2> DEFINE row == [old EXCEPT !.signal = FALSE, !.measured = TRUE]
  <2>1. /\ row \in RunnerRows /\ row.epoch = old.epoch /\ row.out = old.out
        /\ row.pc = old.pc
    BY <1>1 DEF RunnerRows
  <2>2. runner' = [runner EXCEPT ![o][r] = row]
    BY <1>11 DEF Swallow
  <2> QED BY <1>1, <1>4, <1>11, <2>1, <2>2 DEF Swallow, OthersTyped
<1>12. ASSUME runner' = [runner EXCEPT ![o][r] = [@ EXCEPT !.signal = TRUE, !.beat = FALSE]]
       PROVE  OneGoesOn(o, r)
  <2> DEFINE row == [old EXCEPT !.signal = TRUE, !.beat = FALSE]
  <2>1. /\ row \in RunnerRows /\ row.epoch = old.epoch /\ row.out = old.out
        /\ row.pc = old.pc
    BY <1>1 DEF RunnerRows
  <2>2. runner' = [runner EXCEPT ![o][r] = row]
    BY <1>12
  <2> QED BY <1>4, <2>1, <2>2
<1>13. CASE Heartbeat(o, r)
  BY <1>1, <1>12, <1>13 DEF Heartbeat, OthersTyped
<1>14. CASE DatabaseFault(o, r)
  <2>1. faults' \in 0..MaxFaults
    BY <1>1, <1>14, CoordinatorAssumption DEF DatabaseFault, OthersTyped
  <2>2. ASSUME runner' = [runner EXCEPT ![o][r].out = "failed"]
        PROVE  OneGoesOn(o, r)
    <3>1. Continues(o, r, [old EXCEPT !.out = "failed"])
      BY <1>1 DEF Continues, RunnerRows, Outs, Statuses, Retryable
    <3>2. runner' = [runner EXCEPT ![o][r] = [old EXCEPT !.out = "failed"]]
      BY <2>2
    <3> QED BY <3>1, <3>2 DEF OneGoesOn
  <2> QED BY <1>1, <1>2, <1>3, <1>12, <1>14, <2>1, <2>2 DEF DatabaseFault, OthersTyped
<1> QED BY <1>5, <1>6, <1>7, <1>8, <1>9, <1>10, <1>11, <1>13, <1>14

\* A process stops or crashes: its runners are signalled, or gone.
LEMMA ProcessSteps ==
    ASSUME IInv, NEW o \in Procs, Stop(o) \/ Stopped(o) \/ Crash(o)
    PROVE  Steps
<1>1. Rests /\ OthersTyped'
  BY DEF IInv, TypeOK, OthersTyped, Stop, Stopped, Crash, Rests, dbvars, envvars
<1>2. ASSUME NEW rows \in [Runs -> RunnerRows], runner' = [runner EXCEPT ![o] = rows],
             \A r \in Runs : Continues(o, r, rows[r])
      PROVE  RunnersStep
  <2>1. /\ runner' \in [Procs -> [Runs -> RunnerRows]]
        /\ \A p \in Procs, r \in Runs :
             runner'[p][r] = IF p = o THEN rows[r] ELSE runner[p][r]
    BY <1>2 DEF IInv, TypeOK, RunnerRows
  <2>2. \A p \in Procs, r \in Runs : GoesOn(p, r)
    BY <1>2, <2>1 DEF GoesOn, Continues, IInv, OutKnown
  <2> QED BY <1>1, <2>1, <2>2 DEF RunnersStep, RunnersGoOn, Rests
<1>3. /\ Idle \in RunnerRows /\ \A r \in Runs : Continues(o, r, Idle)
      /\ \A r \in Runs : Continues(o, r, [runner[o][r] EXCEPT !.signal = TRUE])
  <2>1. Idle \in RunnerRows /\ \A r \in Runs : Continues(o, r, Idle)
    BY DEF Continues, Idle, RunnerRows, Places
  <2>2. ASSUME NEW r \in Runs
        PROVE  Continues(o, r, [runner[o][r] EXCEPT !.signal = TRUE])
    <3>1. /\ runner[o][r] \in RunnerRows
          /\ runner[o][r].pc \in {"unwinding", "settling"} => runner[o][r].out \in Outs
      BY DEF IInv, TypeOK, OutKnown, RunnerRows
    <3> QED BY <3>1 DEF Continues, RunnerRows
  <2> QED BY <2>1, <2>2
<1>4. CASE Stop(o)
  <2> DEFINE rows == [r \in Runs |-> IF runner[o][r].pc = "none" THEN Idle
                                     ELSE [runner[o][r] EXCEPT !.signal = TRUE]]
  <2>1. runner' = [runner EXCEPT ![o] = rows]
    BY <1>4 DEF Stop
  <2>2. \A r \in Runs : Continues(o, r, rows[r])
    BY <1>3
  <2>3. rows \in [Runs -> RunnerRows]
    BY <2>2 DEF Continues
  <2> QED BY <1>1, <1>2, <2>1, <2>2, <2>3 DEF Steps, TablesStep
<1>5. CASE Stopped(o)
  BY <1>1, <1>5, StillRunnersGoOn DEF Stopped, Steps, TablesStep, Rests
<1>6. CASE Crash(o)
  <2> DEFINE rows == [r \in Runs |-> Idle]
  <2>1. runner' = [runner EXCEPT ![o] = rows]
    BY <1>6 DEF Crash
  <2>2. rows \in [Runs -> RunnerRows] /\ \A r \in Runs : Continues(o, r, rows[r])
    BY <1>3
  <2> QED BY <1>1, <1>2, <2>1, <2>2 DEF Steps, TablesStep
<1> QED BY <1>4, <1>5, <1>6

-----------------------------------------------------------------------------
(***************************************************************************)
(* The actions that write to the tables.                                   *)
(***************************************************************************)

\* One row of run is written.
LEMMA OneRow ==
    ASSUME IInv, NEW r \in Runs, NEW row \in RunRows, run' = [run EXCEPT ![r] = row]
    PROVE  /\ OnlyRow(r) /\ run'[r] = row
           /\ \A q \in Runs \ {r} : run'[q] = run[q]
BY DEF IInv, TypeOK, OnlyRow, RunRows

\* What releases a lease writes a row of its type, in the same epoch.
LEMMA ReleasedRow ==
    ASSUME IInv, NEW r \in Runs, NEW s \in Statuses
    PROVE  /\ Released(run[r], s) \in RunRows /\ Released(run[r], s).status = s
           /\ Released(run[r], s).epoch = run[r].epoch
<1>1. run[r] \in RunRows
  BY DEF IInv, TypeOK, RunRows
<1>2. Released(run[r], s) =
        [run[r] EXCEPT !.status = s, !.owner = NoProc, !.live = FALSE, !.late = FALSE]
  BY DEF Released
<1> QED BY <1>1, <1>2 DEF RunRows

\* The latest run and the task move together; a step of that shape that takes
\* an edge of the lifecycle is one of the tables' steps.
LEMMA TaskMoves ==
    ASSUME IInv, NEW r \in Runs, r = task.run, NEW s \in Statuses, NEW row \in RunRows,
           <<run[r].status, s>> \in Edges, row.status = s, row.epoch = run[r].epoch,
           run' = [run EXCEPT ![r] = row],
           NEW cancel \in BOOLEAN, cancel <=> s \in {"cancelling", "cancelled"},
           \/ TaskTo(s, r, cancel)
           \/ \E seen \in SUBSET Procs : task' = [task EXCEPT !.status = s, !.seen = seen]
                                         /\ cancel = task.cancel,
           run[r].status = "waiting_for_input" =>
             \A o \in Procs : runner'[o][r].pc = runner[o][r].pc
    PROVE  TablesStep /\ \A q \in Runs : run'[q].epoch = run[q].epoch
<1>1. OnlyRow(r) /\ run'[r] = row /\ \A q \in Runs \ {r} : run'[q] = run[q]
  BY OneRow
<1>2. task' \in TaskRows /\ task'.status = s /\ task'.run = r /\ task'.cancel = cancel
  <2>1. CASE TaskTo(s, r, cancel)
    BY <2>1 DEF TaskTo, TaskRows
  <2>2. CASE \E seen \in SUBSET Procs : task' = [task EXCEPT !.status = s, !.seen = seen]
                                        /\ cancel = task.cancel
    BY <2>2 DEF TaskRows, IInv, TypeOK
  <2> QED BY <2>1, <2>2
<1>3. Moves(r, s)
  BY <1>1, <1>2 DEF Moves
<1> QED BY <1>1, <1>3 DEF TablesStep

\* The runs whose lease is held are the latest of the task.
LEMMA FencedIsLatest ==
    ASSUME IInv, NEW r \in Runs, run[r].status \in Executing
    PROVE  r = task.run /\ task.status = run[r].status
           /\ (task.cancel <=> run[r].status = "cancelling")
BY DEF IInv, TablesAgree, TaskNamesRun, OthersClosed, CancelAgrees, Executing, Retryable

\* finalize_run of an executing run: to the status asked for, unless a
\* cancellation or the deadline came first.
LEMMA FinalizeMoves ==
    ASSUME IInv, NEW r \in Runs, run[r].status \in Executing,
           NEW s \in Outs \cup {"completed"}
    PROVE  /\ FinalStatus(r, s) \in Statuses /\ <<run[r].status, FinalStatus(r, s)>> \in Edges
           /\ task.cancel <=> FinalStatus(r, s) \in {"cancelling", "cancelled"}
<1>1. task.cancel <=> run[r].status = "cancelling"
  BY FencedIsLatest
<1>2. run[r].status \in {"running", "cancelling"} /\ task.cancel \in BOOLEAN
  BY DEF Executing, IInv, TypeOK
<1>3. FinalStatus(r, s) \in Outs \cup {"completed", "cancelled"}
      /\ (task.cancel <=> FinalStatus(r, s) = "cancelled")
  BY <1>2 DEF FinalStatus, Outs
<1> QED BY <1>1, <1>2, <1>3 DEF Outs, Edges, Contract!SameRun, Contract!Recovery,
             Contract!Successes, Statuses, Successful, Retryable

LEMMA FinalizeSteps ==
    ASSUME IInv, NEW o \in Procs, NEW r \in Runs, run[r].status \in Executing,
           NEW s \in Outs \cup {"completed"}, Finalize(r, s), Done(o, r)
    PROVE  TablesStep /\ RunnersStep
<1> DEFINE final == FinalStatus(r, s)
<1>1. /\ final \in Statuses /\ <<run[r].status, final>> \in Edges
      /\ task.cancel <=> final \in {"cancelling", "cancelled"}
  BY FinalizeMoves
<1>2. /\ Released(run[r], final) \in RunRows /\ Released(run[r], final).status = final
      /\ Released(run[r], final).epoch = run[r].epoch
  BY <1>1, ReleasedRow
<1>3. run' = [run EXCEPT ![r] = Released(run[r], final)] /\ TaskTo(final, r, task.cancel)
  BY DEF Finalize
<1>4. r = task.run /\ run[r].status # "waiting_for_input" /\ task.cancel \in BOOLEAN
  BY FencedIsLatest DEF Executing, IInv, TypeOK
<1>5. TablesStep /\ \A q \in Runs : run'[q].epoch = run[q].epoch
  BY <1>1, <1>2, <1>3, <1>4, TaskMoves
<1> QED BY <1>5, RunnerWrites, OneRunnerGoesOn

LEMMA AcquireSteps ==
    ASSUME IInv, NEW o \in Procs, NEW r \in Runs, Acquire(o, r)
    PROVE  Steps
<1> USE DEF dbvars, envvars
<1>0. OthersTyped'
  BY DEF Acquire, IInv, TypeOK, OthersTyped
<1>1. CASE run[r].status = "queued" /\ task.run = r
  <2> DEFINE row == [run[r] EXCEPT !.status = "running", !.epoch = GrantedEpoch(r),
                                   !.owner = o, !.live = TRUE, !.late = FALSE]
             next == [runner[o][r] EXCEPT
                        !.epoch = GrantedEpoch(r),
                        !.pc = IF Signalled(o, r) THEN "settling" ELSE "preparing",
                        !.out = IF Signalled(o, r) THEN "interrupted" ELSE runner[o][r].out,
                        !.signal = FALSE]
  <2>1. run' = [run EXCEPT ![r] = row] /\ runner' = [runner EXCEPT ![o][r] = next]
        /\ TaskTo("running", r, task.cancel)
    BY <1>1 DEF Acquire
  <2>2. row \in RunRows /\ row.status = "running" /\ row.epoch = run[r].epoch + 1
    <3>1. run[r] \in RunRows /\ GrantedEpoch(r) \in Nat /\ GrantedEpoch(r) = run[r].epoch + 1
      BY DEF IInv, TypeOK, RunRows, GrantedEpoch
    <3> QED BY <3>1 DEF RunRows, Statuses, Executing
  <2>3. /\ next \in RunnerRows /\ next.epoch = run[r].epoch + 1
        /\ next.pc \in {"unwinding", "settling"} => next.out \in Outs
    <3>1. runner[o][r] \in RunnerRows /\ GrantedEpoch(r) \in Nat
          /\ GrantedEpoch(r) = run[r].epoch + 1
      BY DEF IInv, TypeOK, RunnerRows, GrantedEpoch
    <3> QED BY <3>1 DEF RunnerRows, Statuses, Retryable, Places, Outs, Signalled
  <2>4. OnlyRow(r) /\ run'[r] = row /\ \A q \in Runs \ {r} : run'[q] = run[q]
    BY <2>1, <2>2, OneRow
  <2>5. IsGranted(o, r)
    <3>1. run'[r].epoch = run[r].epoch + 1 /\ \A q \in Runs \ {r} : run'[q].epoch = run[q].epoch
      BY <2>2, <2>4
    <3>2. /\ runner' \in [Procs -> [Runs -> RunnerRows]]
          /\ runner'[o][r] = next
          /\ \A p \in Procs, q \in Runs : p # o \/ q # r => runner'[p][q] = runner[p][q]
      <4> HIDE DEF row, next
      <4>1. next \in RunnerRows /\ runner' = [runner EXCEPT ![o][r] = next]
        BY <2>1, <2>3
      <4> QED BY <4>1, OneRunner
    <3> HIDE DEF next
    <3> QED BY <2>3, <3>1, <3>2 DEF IsGranted
  <2>6. task.cancel = FALSE
    BY <1>1 DEF IInv, TypeOK, TablesAgree, TaskNamesRun, CancelAgrees
  <2>7. Moves(r, "running")
    <3>1. task' \in TaskRows /\ task'.status = "running" /\ task'.run = r /\ task'.cancel = FALSE
      BY <2>1, <2>6 DEF TaskTo, TaskRows, Statuses, Executing
    <3> HIDE DEF row
    <3> QED BY <1>1, <2>2, <2>4, <3>1 DEF Moves, Edges, Contract!SameRun
  <2> QED BY <1>0, <2>5, <2>7 DEF Steps, TablesStep, RunnersStep, Statuses, Executing
<1>2. CASE ~(run[r].status = "queued" /\ task.run = r)
  BY <1>0, <1>2, QuietSteps, RunnerWrites DEF Acquire, Steps, Rests
<1> QED BY <1>1, <1>2

LEMMA GiveUpSteps ==
    ASSUME IInv, NEW o \in Procs, NEW r \in Runs, GiveUpCheckpoint(o, r)
    PROVE  Steps
<1> USE DEF dbvars, envvars
<1>0. OthersTyped'
  BY DEF GiveUpCheckpoint, IInv, TypeOK, OthersTyped
<1>1. CASE Fenced(o, r)
  <2> DEFINE final == FinalStatus(r, "interrupted")
  <2>1. run[r].status \in Executing
    BY <1>1 DEF Fenced
  <2>2. /\ final \in Statuses /\ <<run[r].status, final>> \in Edges
        /\ task.cancel <=> final \in {"cancelling", "cancelled"}
    BY <2>1, FinalizeMoves DEF Outs
  <2>3. /\ Released(run[r], final) \in RunRows /\ Released(run[r], final).status = final
        /\ Released(run[r], final).epoch = run[r].epoch
    BY <2>2, ReleasedRow
  <2>4. /\ run' = [run EXCEPT ![r] = Released(run[r], final)]
        /\ task' = [task EXCEPT !.status = final, !.seen = {o}]
        /\ Goto(o, r, "replacing") \/ Done(o, r)
    BY <1>1 DEF GiveUpCheckpoint
  <2>5. r = task.run /\ run[r].status # "waiting_for_input" /\ task.cancel \in BOOLEAN
        /\ {o} \in SUBSET Procs
    BY <2>1, FencedIsLatest DEF Executing, IInv, TypeOK
  <2>6. TablesStep /\ \A q \in Runs : run'[q].epoch = run[q].epoch
    BY <2>2, <2>3, <2>4, <2>5, TaskMoves
  <2>7. "replacing" \in Places \ {"unwinding", "settling"}
    BY DEF Places
  <2> QED BY <1>0, <2>4, <2>6, <2>7, RunnerWrites, OneRunnerGoesOn DEF Steps
<1>2. CASE ~Fenced(o, r)
  BY <1>0, <1>2, QuietSteps, RunnerWrites DEF GiveUpCheckpoint, Steps, Rests
<1> QED BY <1>1, <1>2

\* A row is written that leaves its run in place.
LEMMA TouchSteps ==
    ASSUME IInv, NEW r \in Runs, NEW row \in RunRows, run' = [run EXCEPT ![r] = row],
           row.status = run[r].status, row.epoch = run[r].epoch, task' = task
    PROVE  TablesStep /\ \A q \in Runs : run'[q].epoch = run[q].epoch
<1>1. OnlyRow(r) /\ run'[r] = row /\ \A q \in Runs \ {r} : run'[q] = run[q]
  BY OneRow
<1> QED BY <1>1 DEF TablesStep, Touches

\* A fresh run takes the place of the latest one.
LEMMA QueueSteps ==
    ASSUME IInv, NEW r \in Runs, run[r].status = "absent",
           task.status \in Retryable \cup {"absent"},
           run' = Queue(r, run), TaskTo("queued", r, FALSE)
    PROVE  TablesStep /\ \A q \in Runs : run'[q].epoch = run[q].epoch
<1> DEFINE row == [run[r] EXCEPT !.status = "queued"]
<1>1. run' = [run EXCEPT ![r] = row]
  BY DEF Queue
<1>2. row \in RunRows /\ row.status = "queued" /\ row.epoch = run[r].epoch
  <2>1. run[r] \in RunRows
    BY DEF IInv, TypeOK, RunRows
  <2> QED BY <2>1 DEF RunRows, Statuses
<1>3. OnlyRow(r) /\ run'[r] = row /\ \A q \in Runs \ {r} : run'[q] = run[q]
  BY <1>1, <1>2, OneRow
<1>4. task' \in TaskRows /\ task'.status = "queued" /\ task'.run = r /\ task'.cancel = FALSE
  BY DEF TaskTo, TaskRows, Statuses
<1> HIDE DEF row
<1>5. Begins(r)
  BY <1>2, <1>3, <1>4 DEF Begins
<1> QED BY <1>2, <1>3, <1>5 DEF TablesStep

\* A process lists more runs to submit, or none.
ListsMore(o) ==
    listed' = listed \/ \E more \in SUBSET Runs : listed' = [listed EXCEPT ![o] = @ \cup more]

LEMMA ListingKeepsType ==
    ASSUME IInv, NEW o \in Procs, ListsMore(o)
    PROVE  listed' \in [Procs -> SUBSET Runs]
<1>1. listed \in [Procs -> SUBSET Runs]
  BY DEF IInv, TypeOK
<1>2. ASSUME NEW more \in SUBSET Runs, listed' = [listed EXCEPT ![o] = @ \cup more]
      PROVE  listed' \in [Procs -> SUBSET Runs]
  <2>1. listed[o] \cup more \in SUBSET Runs
    BY <1>1
  <2> QED BY <1>1, <1>2, <2>1
<1> QED BY <1>1, <1>2 DEF ListsMore

LEMMA ReplaceSteps ==
    ASSUME IInv, NEW o \in Procs, NEW r \in Runs, Replace(o, r)
    PROVE  Steps
<1> USE DEF dbvars, envvars
<1>0. OthersTyped' /\ Done(o, r)
  <2>1. ListsMore(o)
    BY DEF Replace, ListsMore
  <2> QED BY <2>1, ListingKeepsType DEF Replace, IInv, TypeOK, OthersTyped
<1>1. CASE ReplacementWins(o)
  <2>1. PICK q \in Runs : /\ run[q].status = "absent"
                          /\ run' = Queue(q, run) /\ TaskTo("queued", q, FALSE)
    BY <1>1 DEF Replace
  <2>2. task.status \in Retryable
    BY <1>1 DEF ReplacementWins, Retryable
  <2>3. TablesStep /\ \A p \in Runs : run'[p].epoch = run[p].epoch
    BY <2>1, <2>2, QueueSteps
  <2> QED BY <1>0, <2>3, RunnerWrites, OneRunnerGoesOn DEF Steps
<1>2. CASE ~ReplacementWins(o)
  BY <1>0, <1>2, QuietSteps, RunnerWrites DEF Replace, Steps, Rests
<1> QED BY <1>1, <1>2

LEMMA RecordSteps ==
    ASSUME IInv, NEW r \in Runs, NEW o \in Procs, Record(o, r)
    PROVE  Steps
<1> DEFINE row == [run[r] EXCEPT !.ref = "good"]
<1>1. run' = [run EXCEPT ![r] = row] /\ task' = task /\ runner' = runner /\ OthersTyped'
  BY DEF Record, envvars, IInv, TypeOK, OthersTyped
<1>2. row \in RunRows /\ row.status = run[r].status /\ row.epoch = run[r].epoch
  <2>1. run[r] \in RunRows
    BY DEF IInv, TypeOK, RunRows
  <2> QED BY <2>1 DEF RunRows
<1> HIDE DEF row
<1> QED BY <1>1, <1>2, TouchSteps, StillRunnersGoOn DEF Steps

LEMMA PauseSteps ==
    ASSUME IInv, NEW o \in Procs, NEW r \in Runs, Pause(o, r)
    PROVE  Steps
<1> DEFINE row == [Released(run[r], "waiting_for_input") EXCEPT !.asked = TRUE]
<1>1. /\ run' = [run EXCEPT ![r] = row] /\ TaskTo("waiting_for_input", r, task.cancel)
      /\ Goto(o, r, "paused") /\ run[r].status = "running" /\ OthersTyped'
  BY DEF Pause, envvars, IInv, TypeOK, OthersTyped
<1>2. row \in RunRows /\ row.status = "waiting_for_input" /\ row.epoch = run[r].epoch
  <2>1. /\ Released(run[r], "waiting_for_input") \in RunRows
        /\ Released(run[r], "waiting_for_input").status = "waiting_for_input"
        /\ Released(run[r], "waiting_for_input").epoch = run[r].epoch
    BY ReleasedRow DEF Statuses
  <2> QED BY <2>1 DEF RunRows
<1>3. r = task.run /\ task.cancel = FALSE
  BY <1>1, FencedIsLatest DEF Executing, IInv, TypeOK
<1>4. /\ "waiting_for_input" \in Statuses /\ <<run[r].status, "waiting_for_input">> \in Edges
      /\ "paused" \in Places \ {"unwinding", "settling"}
  BY <1>1 DEF Statuses, Edges, Contract!SameRun, Places
<1> HIDE DEF row
<1>5. TablesStep /\ \A q \in Runs : run'[q].epoch = run[q].epoch
  BY <1>1, <1>2, <1>3, <1>4, TaskMoves
<1> QED BY <1>1, <1>4, <1>5, RunnerWrites, OneRunnerGoesOn DEF Steps

LEMMA PublishSteps ==
    ASSUME IInv, NEW o \in Procs, NEW r \in Runs, Publish(o, r)
    PROVE  Steps
<1>0. OthersTyped'
  BY DEF Publish, envvars, IInv, TypeOK, OthersTyped
<1>1. CASE runner[o][r].beat
  <2> DEFINE row == [runner[o][r] EXCEPT !.beat = FALSE]
  <2>1. Rests /\ runner' = [runner EXCEPT ![o][r] = row]
    BY <1>1 DEF Publish, Rests, dbvars
  <2>2. Continues(o, r, row)
    <3>1. runner[o][r] \in RunnerRows /\ runner[o][r].pc = "publishing"
      BY DEF Publish, At, IInv, TypeOK, RunnerRows
    <3> QED BY <3>1 DEF Continues, RunnerRows
  <2> QED BY <1>0, <2>1, <2>2, QuietSteps DEF OneGoesOn, Steps
<1>2. CASE ~runner[o][r].beat
  BY <1>0, <1>2, FinalizeSteps DEF Publish, Fenced, Steps
<1> QED BY <1>1, <1>2

LEMMA SettleSteps ==
    ASSUME IInv, NEW o \in Procs, NEW r \in Runs, Settle(o, r)
    PROVE  Steps
<1> USE DEF dbvars, envvars
<1> DEFINE old == runner[o][r]
<1>0. OthersTyped' /\ old \in RunnerRows /\ old.out \in Outs /\ old.pc = "settling"
  BY DEF Settle, At, IInv, TypeOK, OutKnown, OthersTyped, RunnerRows
<1>1. CASE Signalled(o, r) /\ old.out # "interrupted"
  <2>1. ASSUME runner' = [runner EXCEPT ![o][r] =
                            [old EXCEPT !.out = "interrupted", !.signal = FALSE]]
        PROVE  OneGoesOn(o, r)
    <3>1. Continues(o, r, [old EXCEPT !.out = "interrupted", !.signal = FALSE])
      BY <1>0 DEF Continues, RunnerRows, Outs, Statuses, Retryable
    <3> QED BY <2>1, <3>1 DEF OneGoesOn
  <2>2. Rests
    BY <1>1 DEF Settle, Rests
  <2> QED BY <1>0, <1>1, <2>1, <2>2, RunnerWrites, QuietSteps DEF Settle, Steps
<1>2. CASE ~(Signalled(o, r) /\ old.out # "interrupted") /\ Fenced(o, r)
  BY <1>0, <1>2, FinalizeSteps DEF Settle, Fenced, Steps
<1>3. CASE ~(Signalled(o, r) /\ old.out # "interrupted") /\ ~Fenced(o, r)
  BY <1>0, <1>3, RunnerWrites, QuietSteps DEF Settle, Steps, Rests
<1> QED BY <1>1, <1>2, <1>3

\* recover_runs takes the latest run along the edges of the lifecycle.
LEMMA RecoverSteps ==
    ASSUME IInv, NEW o \in Procs, NEW expired \in BOOLEAN, Recover(o, expired)
    PROVE  Steps
<1> USE DEF dbvars, envvars
<1> DEFINE r == task.run
           s == RecoveredStatus(r, expired)
<1>1. OthersTyped' /\ runner' = runner
  <2>1. ListsMore(o)
    BY DEF Recover, ListsMore, QueuedRuns
  <2> QED BY <2>1, ListingKeepsType DEF Recover, IInv, TypeOK, OthersTyped
<1>2. CASE r = NoRun \/ s = run[r].status
  BY <1>1, <1>2, StillRunnersGoOn DEF Recover, RecoverRuns, Rests, Steps, TablesStep
<1>3. CASE ~(r = NoRun \/ s = run[r].status)
  <2>1. r \in Runs
    BY <1>3 DEF IInv, TypeOK
  <2>2. run' = [run EXCEPT ![r] = Released(run[r], s)] /\ TaskTo(s, r, s = "cancelled")
    BY <1>3 DEF Recover, RecoverRuns
  <2>3. /\ s \in Statuses /\ <<run[r].status, s>> \in Edges
        /\ s # "cancelling"
    <3>1. CASE run[r].status \in Executing
      <4>1. CASE Orphaned(r)
        <5>1. /\ FinalStatus(r, "interrupted") \in Statuses
              /\ <<run[r].status, FinalStatus(r, "interrupted")>> \in Edges
              /\ FinalStatus(r, "interrupted") \in {"cancelled", "timed_out", "interrupted"}
          BY <2>1, <3>1, FinalizeMoves DEF Outs, FinalStatus
        <5>2. run[r].status = "cancelling" => FinalStatus(r, "interrupted") = "cancelled"
          BY <2>1, <3>1, FencedIsLatest DEF FinalStatus
        <5>3. \/ s = FinalStatus(r, "interrupted")
              \/ FinalStatus(r, "interrupted") = "interrupted" /\ s = "queued"
          <6>1. run[r].status # "waiting_for_input"
            BY <3>1 DEF Executing
          <6>2. PICK final : final = FinalStatus(r, "interrupted")
            OBVIOUS
          <6> QED BY <4>1, <6>1, <6>2 DEF RecoveredStatus
        <5> QED BY <3>1, <5>1, <5>2, <5>3
                DEF Edges, Contract!Recovery, Executing, Statuses
      <4> QED BY <1>3, <3>1, <4>1 DEF RecoveredStatus, Executing
    <3>2. CASE run[r].status \notin Executing
      <4>1. \/ run[r].status = "waiting_for_input" /\ s = "cancelled"
            \/ run[r].status = "interrupted" /\ s = "queued"
        BY <1>3, <3>2 DEF RecoveredStatus, Orphaned
      <4> QED BY <4>1 DEF Edges, Contract!SameRun, Statuses
    <3> QED BY <3>1, <3>2
  <2>4. /\ Released(run[r], s) \in RunRows /\ Released(run[r], s).status = s
        /\ Released(run[r], s).epoch = run[r].epoch
    BY <2>1, <2>3, ReleasedRow
  <2>5. PICK cancel \in BOOLEAN : cancel <=> s = "cancelled"
    OBVIOUS
  <2>6. TaskTo(s, r, cancel)
    BY <2>2, <2>5 DEF TaskTo
  <2> HIDE DEF s
  <2>7. TablesStep /\ \A q \in Runs : run'[q].epoch = run[q].epoch
    BY <1>1, <2>1, <2>2, <2>3, <2>4, <2>5, <2>6, TaskMoves
  <2> QED BY <1>1, <2>7, StillRunnersGoOn DEF Steps
<1> QED BY <1>2, <1>3

\* The runs that are created.
LEMMA NewRunSteps ==
    ASSUME IInv, NEW o \in Procs, NEW r \in Runs, CreateTask(o, r) \/ RetryTask(o, r)
    PROVE  Steps
<1>1. OthersTyped' /\ runner' = runner
  <2>1. ListsMore(o)
    BY DEF CreateTask, RetryTask, ListsMore
  <2> QED BY <2>1, ListingKeepsType DEF CreateTask, RetryTask, envvars, IInv, TypeOK, OthersTyped
<1>2. /\ run[r].status = "absent" /\ task.status \in Retryable \cup {"absent"}
      /\ run' = Queue(r, run) /\ TaskTo("queued", r, FALSE)
  BY DEF CreateTask, RetryTask, IInv, TablesAgree, TaskNamesRun
<1> QED BY <1>1, <1>2, QueueSteps, StillRunnersGoOn DEF Steps

\* A request releases the latest run, which does not execute, into status s.
LEMMA ReleaseSteps ==
    ASSUME IInv, NEW s \in {"queued", "cancelled"}, runner' = runner, OthersTyped',
           task.status \in {"queued", "waiting_for_input", "interrupted"},
           s = "queued" => task.status # "queued",
           run' = [run EXCEPT ![task.run] = Released(@, s)],
           NEW cancel \in BOOLEAN, cancel <=> s = "cancelled", TaskTo(s, task.run, cancel)
    PROVE  Steps
<1> DEFINE r == task.run
<1>1. r \in Runs /\ run[r].status = task.status
  BY DEF IInv, TablesAgree, TaskNamesRun
<1>2. s \in Statuses /\ <<run[r].status, s>> \in Edges
  BY <1>1 DEF Statuses, Edges, Contract!SameRun
<1>3. /\ Released(run[r], s) \in RunRows /\ Released(run[r], s).status = s
      /\ Released(run[r], s).epoch = run[r].epoch
  BY <1>1, <1>2, ReleasedRow
<1>4. run' = [run EXCEPT ![r] = Released(run[r], s)]
  OBVIOUS
<1>5. TablesStep /\ \A q \in Runs : run'[q].epoch = run[q].epoch
  BY <1>1, <1>2, <1>3, <1>4, TaskMoves
<1> QED BY <1>5, StillRunnersGoOn DEF Steps

LEMMA CancelSteps ==
    ASSUME IInv, NEW o \in Procs, CancelTask(o)
    PROVE  Steps
<1> USE DEF envvars
<1> DEFINE r == task.run
<1>1. OthersTyped' /\ r \in Runs /\ run[r].status = task.status
  BY DEF CancelTask, Executing, IInv, TypeOK, OthersTyped, TablesAgree, TaskNamesRun
<1>2. CASE task.status \in Executing
  <2> DEFINE row == [run[r] EXCEPT !.status = "cancelling"]
  <2>1. run' = [run EXCEPT ![r] = row]
    BY <1>2 DEF CancelTask
  <2>2. row \in RunRows /\ row.status = "cancelling" /\ row.epoch = run[r].epoch
    <3>1. run[r] \in RunRows
      BY <1>1 DEF IInv, TypeOK, RunRows
    <3> QED BY <3>1 DEF RunRows, Statuses, Executing
  <2>3. OneGoesOn(o, r)
    <3>1. PICK signal \in BOOLEAN :
            runner' = [runner EXCEPT ![o][r] = [runner[o][r] EXCEPT !.signal = signal]]
      <4>1. PICK signal \in BOOLEAN :
              signal = (runner[o][r].signal \/ runner[o][r].pc # "none")
        OBVIOUS
      <4>2. runner' = [runner EXCEPT ![o][r].signal =
                                       runner[o][r].signal \/ runner[o][r].pc # "none"]
        BY <1>2 DEF CancelTask
      <4>3. runner' = [runner EXCEPT ![o][r].signal = signal]
        BY <4>1, <4>2
      <4> QED BY <4>3
    <3>2. /\ runner[o][r] \in RunnerRows
          /\ runner[o][r].pc \in {"unwinding", "settling"} => runner[o][r].out \in Outs
      BY <1>1 DEF IInv, TypeOK, OutKnown, RunnerRows
    <3>3. Continues(o, r, [runner[o][r] EXCEPT !.signal = signal])
      BY <3>2 DEF Continues, RunnerRows
    <3> QED BY <3>1, <3>3 DEF OneGoesOn
  <2>4. CASE task.status = "running"
    <3>1. TaskTo("cancelling", r, TRUE)
      BY <1>2, <2>4 DEF CancelTask
    <3>2. /\ "cancelling" \in Statuses /\ <<run[r].status, "cancelling">> \in Edges
          /\ run[r].status # "waiting_for_input"
      BY <1>1, <2>4 DEF Statuses, Executing, Edges, Contract!SameRun
    <3> HIDE DEF row
    <3>3. TablesStep /\ \A q \in Runs : run'[q].epoch = run[q].epoch
      BY <1>1, <2>1, <2>2, <3>1, <3>2, TaskMoves
    <3> QED BY <1>1, <2>3, <3>3, OneRunnerGoesOn DEF Steps
  <2>5. CASE task.status = "cancelling"
    <3>1. task' = task /\ row.status = run[r].status
      BY <1>1, <1>2, <2>2, <2>5 DEF CancelTask
    <3> HIDE DEF row
    <3>2. TablesStep /\ \A q \in Runs : run'[q].epoch = run[q].epoch
      BY <1>1, <2>1, <2>2, <3>1, TouchSteps
    <3> QED BY <1>1, <2>3, <3>2, OneRunnerGoesOn DEF Steps
  <2> QED BY <1>2, <2>4, <2>5 DEF Executing
<1>3. CASE task.status \notin Executing
  <2>1. /\ task.status \in {"queued", "waiting_for_input", "interrupted"}
        /\ run' = [run EXCEPT ![task.run] = Released(@, "cancelled")]
        /\ TaskTo("cancelled", task.run, TRUE) /\ runner' = runner
    BY <1>3 DEF CancelTask
  <2> QED BY <1>1, <2>1, ReleaseSteps
<1> QED BY <1>2, <1>3

LEMMA UserSteps ==
    ASSUME IInv, NEW o \in Procs, ResumeTask(o) \/ ResolveDecision(o)
    PROVE  Steps
<1> USE DEF envvars
<1>1. task.run \in Runs
  BY DEF ResumeTask, ResolveDecision, IInv, TablesAgree, TaskNamesRun
<1>2. ListsMore(o) => OthersTyped'
  BY ListingKeepsType DEF ResumeTask, ResolveDecision, IInv, TypeOK, OthersTyped
<1>3. CASE ResumeTask(o)
  <2>1. ListsMore(o)
    BY <1>1, <1>3 DEF ResumeTask, ListsMore
  <2>2. /\ run' = [run EXCEPT ![task.run] = Released(@, "queued")]
        /\ TaskTo("queued", task.run, FALSE) /\ runner' = runner
        /\ task.status = "interrupted"
    BY <1>3 DEF ResumeTask
  <2> QED BY <1>2, <2>1, <2>2, ReleaseSteps
<1>4. CASE ResolveDecision(o)
  <2>1. PICK s \in {"queued", "cancelled"} :
          /\ run' = [run EXCEPT ![task.run] = Released(@, s)]
          /\ TaskTo(s, task.run, s = "cancelled")
          /\ listed' = [listed EXCEPT ![o] = IF s = "queued" THEN @ \cup {task.run} ELSE @]
    BY <1>4 DEF ResolveDecision
  <2>2. ListsMore(o)
    BY <1>1, <2>1 DEF ListsMore, IInv, TypeOK
  <2>3. task.status = "waiting_for_input" /\ runner' = runner
    BY <1>4 DEF ResolveDecision
  <2>4. PICK cancel \in BOOLEAN : cancel <=> s = "cancelled"
    OBVIOUS
  <2>5. TaskTo(s, task.run, cancel)
    BY <2>1, <2>4 DEF TaskTo
  <2> QED BY <1>2, <2>1, <2>2, <2>3, <2>4, <2>5, ReleaseSteps
<1> QED BY <1>3, <1>4

\* Clocks advance, storage fails: a row is touched.
LEMMA EnvironmentSteps ==
    ASSUME IInv, NEW r \in Runs, LeaseExpires(r) \/ DeadlinePasses(r) \/ LoseCheckpoint(r)
    PROVE  Steps
<1> USE DEF envvars
<1>1. PICK row \in RunRows : /\ run' = [run EXCEPT ![r] = row]
                             /\ row.status = run[r].status /\ row.epoch = run[r].epoch
  <2>1. run[r] \in RunRows
    BY DEF IInv, TypeOK, RunRows
  <2>2. /\ [run[r] EXCEPT !.live = FALSE] \in RunRows
        /\ [run[r] EXCEPT !.late = TRUE] \in RunRows
        /\ [run[r] EXCEPT !.ref = "lost"] \in RunRows
    BY <2>1 DEF RunRows
  <2>3. \/ run' = [run EXCEPT ![r] = [run[r] EXCEPT !.live = FALSE]]
        \/ run' = [run EXCEPT ![r] = [run[r] EXCEPT !.late = TRUE]]
        \/ run' = [run EXCEPT ![r] = [run[r] EXCEPT !.ref = "lost"]]
    BY DEF LeaseExpires, DeadlinePasses, LoseCheckpoint
  <2> QED BY <2>1, <2>2, <2>3 DEF RunRows
<1>2. task' = task /\ runner' = runner
  BY DEF LeaseExpires, DeadlinePasses, LoseCheckpoint
<1>3. OthersTyped'
  BY CoordinatorAssumption DEF LeaseExpires, DeadlinePasses, LoseCheckpoint, IInv, TypeOK, OthersTyped
<1> QED BY <1>1, <1>2, <1>3, TouchSteps, StillRunnersGoOn DEF Steps

-----------------------------------------------------------------------------
(***************************************************************************)
(* Every step.                                                             *)
(***************************************************************************)

LEMMA EveryStep ==
    ASSUME IInv, Next
    PROVE  Steps
<1>1. ASSUME NEW o \in Procs, NEW r \in Runs, RunnerStep(o, r)
      PROVE  Steps
  BY <1>1, AcquireSteps, GiveUpSteps, ReplaceSteps, PauseSteps, PublishSteps, SettleSteps,
     RunnerOnlySteps, QuietSteps DEF RunnerStep, Steps
<1>2. ASSUME NEW o \in Procs, NEW r \in Runs,
             \/ Submit(o, r) \/ Ask(o, r) \/ Finish(o, r) \/ Fail(o, r)
             \/ Deliver(o, r) \/ Swallow(o, r) \/ Heartbeat(o, r) \/ DatabaseFault(o, r)
      PROVE  Steps
  BY <1>2, RunnerOnlySteps, QuietSteps DEF Steps
<1>3. ASSUME NEW o \in Procs,
             \/ \E expired \in BOOLEAN : Recover(o, expired)
             \/ Stop(o) \/ Stopped(o) \/ Crash(o)
      PROVE  Steps
  BY <1>3, RecoverSteps, ProcessSteps
<1>4. ASSUME NEW o \in Procs, CancelTask(o) \/ ResumeTask(o) \/ ResolveDecision(o)
      PROVE  Steps
  BY <1>4, CancelSteps, UserSteps
<1> QED BY <1>1, <1>2, <1>3, <1>4, NewRunSteps, RecordSteps, EnvironmentSteps DEF Next

LEMMA InitInvariant == Init => IInv
<1> SUFFICES ASSUME Init PROVE IInv
  OBVIOUS
<1>1. TypeOK
  BY CoordinatorAssumption DEF Init, TypeOK, Idle, Places, Statuses
<1>2. TablesAgree
  BY DEF Init, TablesAgree, TaskNamesRun, OthersClosed, CancelAgrees
<1>3. OutKnown /\ EpochsGranted /\ EpochsDistinguishRunners
  BY DEF Init, Idle, OutKnown, EpochsGranted, EpochsDistinguishRunners
<1> QED BY <1>1, <1>2, <1>3 DEF IInv

LEMMA StepInvariant == IInv /\ [Next]_vars => IInv'
<1>1. ASSUME IInv, Next
      PROVE  IInv'
  <2>1. Steps
    BY <1>1, EveryStep
  <2>2. task \in TaskRows /\ run \in [Runs -> RunRows] /\ TablesAgree
    BY <1>1 DEF IInv, TypeOK, TaskRows, RunRows
  <2>3. TablesAgree' /\ task' \in TaskRows /\ run' \in [Runs -> RunRows]
    BY <2>1, <2>2, TablesStepKeeps DEF Steps
  <2>4. /\ runner' \in [Procs -> [Runs -> RunnerRows]]
        /\ OutKnown' /\ EpochsGranted' /\ EpochsDistinguishRunners'
    BY <1>1, <2>1, <2>3, RunnersStepKeeps DEF Steps
  <2>5. TypeOK'
    BY <2>1, <2>3, <2>4 DEF Steps, OthersTyped, TypeOK, TaskRows, RunRows, RunnerRows
  <2> QED BY <2>3, <2>4, <2>5 DEF IInv
<1>2. ASSUME IInv, UNCHANGED vars
      PROVE  IInv'
  BY <1>2 DEF vars, IInv, TypeOK, TablesAgree, TaskNamesRun, OthersClosed, CancelAgrees,
              OutKnown, EpochsGranted, EpochsDistinguishRunners
<1> QED BY <1>1, <1>2

-----------------------------------------------------------------------------
(***************************************************************************)
(* Theorems.                                                               *)
(***************************************************************************)

\* The tables agree with one another, and no runner shows an epoch that was
\* not granted to it.
THEOREM InductiveInvariant == Spec => []IInv
BY InitInvariant, StepInvariant, PTL DEF Spec

\* The tables, the processes and their runners keep their types, and two
\* processes never execute a run in the same epoch.
THEOREM RunnersToldApart == Spec => []RunnersAgree
<1>1. IInv => RunnersAgree
  BY DEF IInv, RunnersAgree
<1> QED BY <1>1, InductiveInvariant, PTL

\* No runner, heartbeat or process ends a wait for the user.
THEOREM PauseIsNotTakenBack == Spec => PauseStands
<1>1. ASSUME IInv, Next, NEW r \in Runs,
             run[r].status = "waiting_for_input", run'[r].status # "waiting_for_input"
      PROVE  \A o \in Procs : runner'[o][r].pc = runner[o][r].pc
  <2>1. TablesStep
    BY <1>1, EveryStep DEF Steps
  <2>2. PICK q \in Runs : Touches(q) \/ Begins(q) \/ \E s \in Statuses : Moves(q, s)
    BY <1>1, <2>1 DEF TablesStep, Rests
  <2>3. q # r => run'[r] = run[r]
    <3>1. OnlyRow(q) /\ run \in [Runs -> RunRows]
      BY <1>1, <2>2 DEF Touches, Begins, Moves, IInv, TypeOK, RunRows
    <3> QED BY <3>1 DEF OnlyRow
  <2> QED BY <1>1, <2>2, <2>3 DEF Touches, Begins, Moves
<1>2. IInv /\ [Next]_vars =>
        [\A r \in Runs :
           run[r].status = "waiting_for_input" /\ run'[r].status # "waiting_for_input" =>
             \A o \in Procs : runner'[o][r].pc = runner[o][r].pc]_vars
  BY <1>1
<1> QED BY <1>2, InductiveInvariant, PTL DEF Spec, PauseStands

\* A step of the tables is a step of the lifecycle, or none.
LEMMA TablesStepIsContract ==
    ASSUME IInv, TablesStep
    PROVE  [Contract!Next]_(Contract!absvars)
<1> DEFINE st == [t \in {"task"} |-> task.status]
           la == [t \in {"task"} |-> task.run]
           us == {r \in Runs : run[r].status # "absent"}
           pu == {r \in Runs : run[r].status \in Successful}
<1>1. /\ st["task"] = task.status /\ la["task"] = task.run
      /\ st'["task"] = task'.status /\ la'["task"] = task'.run
  OBVIOUS
<1>2. /\ st' \in [{"task"} -> {st'[t] : t \in {"task"}}]
      /\ la' \in [{"task"} -> {la'[t] : t \in {"task"}}]
  OBVIOUS
<1>3. CASE Rests \/ \E r \in Runs : Touches(r)
  <2>1. task' = task /\ \A r \in Runs : run'[r].status = run[r].status
    BY <1>3 DEF Rests, Touches, OnlyRow, IInv, TypeOK
  <2> QED BY <2>1 DEF Contract!absvars
<1>4. ASSUME NEW r \in Runs, NEW s \in Statuses, Moves(r, s)
      PROVE  Contract!Next
  <2>1. /\ task.run = r /\ task.status = run[r].status /\ <<task.status, s>> \in Edges
        /\ task'.status = s /\ task'.run = r /\ run'[r].status = s
        /\ \A q \in Runs \ {r} : run'[q] = run[q]
    BY <1>4 DEF Moves, OnlyRow, IInv, TypeOK, TablesAgree, TaskNamesRun
  <2>2. /\ task.status \notin Successful \cup {"absent"} /\ s # "absent" /\ s # task.status
    BY <2>1 DEF Edges, Contract!SameRun, Contract!Recovery, Contract!Successes, Successful
  <2>3. us' = us
    BY <2>1, <2>2
  <2>4. pu' = pu \cup (IF s \in Successful THEN {r} ELSE {})
    BY <2>1, <2>2
  <2>5. {la'[t] : t \in {u \in {"task"} : la'[u] # la[u]}} = {}
    BY <1>1, <2>1
  <2>6. {la[t] : t \in {u \in {"task"} : st'[u] # st[u] /\ st'[u] \in Contract!Successes}}
          = IF s \in Successful THEN {r} ELSE {}
    BY <1>1, <2>1, <2>2 DEF Contract!Successes, Successful
  <2>7. \A t \in {"task"} : <<st[t], st'[t]>> \in Edges /\ la'[t] = la[t]
    BY <1>1, <2>1
  <2> HIDE DEF st, la, us, pu
  <2>8. /\ us' = us \cup {la'[t] : t \in {u \in {"task"} : la'[u] # la[u]}}
        /\ pu' = pu \cup {la[t] : t \in {u \in {"task"} :
                                  st'[u] # st[u] /\ st'[u] \in Contract!Successes}}
    BY <2>3, <2>4, <2>5, <2>6
  <2> QED BY <1>2, <2>7, <2>8 DEF Contract!Next, Contract!Moves, Edges, st, la, us, pu
<1>5. ASSUME NEW r \in Runs, Begins(r)
      PROVE  Contract!Next
  <2>1. /\ task'.status = "queued" /\ task'.run = r /\ run[r].status = "absent"
        /\ task.status \in Retryable \cup {"absent"} /\ run'[r].status = "queued"
        /\ \A q \in Runs \ {r} : run'[q] = run[q]
    BY <1>5 DEF Begins, OnlyRow, IInv, TypeOK
  <2>2. task.run # r
    BY <2>1, CoordinatorAssumption DEF IInv, TablesAgree, TaskNamesRun, Retryable
  <2>3. us' = us \cup {r} /\ pu' = pu /\ r \in Runs \ us
    BY <2>1 DEF Successful
  <2>4. {la'[t] : t \in {u \in {"task"} : la'[u] # la[u]}} = {r}
    BY <1>1, <2>1, <2>2
  <2>5. {la[t] : t \in {u \in {"task"} : st'[u] # st[u] /\ st'[u] \in Contract!Successes}} = {}
    BY <1>1, <2>1 DEF Contract!Successes
  <2>6. \A t \in {"task"} : /\ \/ st[t] = "absent" /\ st'[t] = "queued"
                               \/ <<st[t], st'[t]>> \in Contract!NewRun
                            /\ la'[t] \in Runs \ us
    BY <1>1, <2>1, <2>3 DEF Contract!NewRun, Retryable
  <2> HIDE DEF st, la, us, pu
  <2>7. /\ us' = us \cup {la'[t] : t \in {u \in {"task"} : la'[u] # la[u]}}
        /\ pu' = pu \cup {la[t] : t \in {u \in {"task"} :
                                  st'[u] # st[u] /\ st'[u] \in Contract!Successes}}
    BY <2>3, <2>4, <2>5
  <2> QED BY <1>2, <2>6, <2>7 DEF Contract!Next, Contract!StartsAttempt, st, la, us, pu
<1> QED BY <1>3, <1>4, <1>5 DEF TablesStep

\* Runners, heartbeats, recovery loops, stops and crashes, in any number of
\* processes, together implement the lifecycle that users are promised.
THEOREM RunnersImplementLifecycle == Spec => ImplementsLifecycle
<1>1. Init => Contract!Init
  BY DEF Init, Contract!Init, Successful
<1>2. IInv /\ [Next]_vars => [Contract!Next]_(Contract!absvars)
  <2>1. IInv /\ Next => [Contract!Next]_(Contract!absvars)
    BY EveryStep, TablesStepIsContract DEF Steps
  <2>2. UNCHANGED vars => UNCHANGED Contract!absvars
    BY DEF vars, Contract!absvars
  <2> QED BY <2>1, <2>2
<1> QED BY <1>1, <1>2, InductiveInvariant, PTL DEF Spec, ImplementsLifecycle, Contract!Spec
=============================================================================
