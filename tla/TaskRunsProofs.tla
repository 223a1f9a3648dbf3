--------------------------- MODULE TaskRunsProofs ---------------------------
(***************************************************************************)
(* Theorems about TaskRuns, for any tasks, runs, owners and bounds:        *)
(*   - the tables keep their types, and the inductive invariant IInv is    *)
(*     behind the safety invariants;                                       *)
(*   - what the rows say of the past is true;                              *)
(*   - the transactions implement TaskLifecycle.                           *)
(***************************************************************************)
EXTENDS TaskRuns, TLAPS

-----------------------------------------------------------------------------
(***************************************************************************)
(* What recovery writes.                                                   *)
(***************************************************************************)

\* A run row after recover_runs: its identity is kept, its status is the
\* recovered one, and it keeps its type.
LEMMA RecoveredRunRow ==
    ASSUME TypeOK, NEW r \in Runs
    PROVE  /\ RecoveredRun(r) \in RunRecord
           /\ RecoveredRun(r).status = RecoveredStatus(r)
           /\ RecoveredRun(r).task = run[r].task
           /\ RecoveredRun(r).epoch = run[r].epoch
           /\ RecoveredRun(r).birth = run[r].birth
           /\ RecoveredRun(r).current = run[r].current
<1>1. run[r] \in RunRecord
    BY DEF TypeOK
<1>2. RecoveredStatus(r) \in Statuses \cup {"absent"}
    BY <1>1 DEF RecoveredStatus, SettledStatus, OrphanStatus, RunRecord, Statuses, Terminal
<1>3. RecoverySteps(r) = 0 => RecoveredStatus(r) = run[r].status
    BY DEF RecoverySteps, RecoveredStatus, SettledStatus
<1> QED
    BY <1>1, <1>2, <1>3, ConstantsAssumption DEF RecoveredRun, RunRecord, NoTime

\* A task row after recover_runs keeps its type.
LEMMA RecoveredTaskRow ==
    ASSUME TypeOK, NEW t \in Tasks
    PROVE  RecoveredTask(t) \in TaskRecord /\ RecoveredEvents(t) \in EventRecord
<1>1. task[t] \in TaskRecord /\ events[t] \in EventRecord
    BY DEF TypeOK
<1>2. CASE task[t].run = NoRun
    BY <1>1, <1>2 DEF RecoveredTask, RecoveredEvents
<1>3. CASE task[t].run # NoRun
  <2> DEFINE r == task[t].run
  <2>1. r \in Runs
    BY <1>1, <1>3 DEF TaskRecord
  <2>2. RecoveredStatus(r) \in Statuses \cup {"absent"}
    BY <2>1 DEF TypeOK, RecoveredStatus, SettledStatus, OrphanStatus, RunRecord, Statuses, Terminal
  <2>3. RecoverySteps(r) \in Nat
    BY DEF RecoverySteps
  <2> DEFINE version == task[t].version + RecoverySteps(r)
  <2>4. version \in Nat
    BY <1>1, <2>3 DEF TaskRecord
  <2> HIDE DEF version
  <2>5. [task[t] EXCEPT !.status = RecoveredStatus(r),
                        !.cancel = IF ExpiresNow(r) THEN TRUE ELSE @,
                        !.version = version] \in TaskRecord
    BY <1>1, <2>2, <2>4 DEF TaskRecord
  <2>6. RecoveredTask(t) \in TaskRecord
    BY <1>1, <2>5 DEF RecoveredTask, version
  <2>7. RecoveredEvents(t) \in EventRecord
    BY <1>1, <2>2, <2>3 DEF RecoveredEvents, EventRecord
  <2> QED
    BY <2>6, <2>7
<1> QED
    BY <1>2, <1>3
-----------------------------------------------------------------------------
(***************************************************************************)
(* The tables keep their types.                                            *)
(***************************************************************************)


\* The row updates the transactions share keep the types.
LEMMA MovedRow ==
    ASSUME NEW row \in TaskRecord, NEW s \in Statuses, NEW c \in BOOLEAN
    PROVE  Moved(row, s, c) \in TaskRecord
<1> DEFINE version == row.version + 1
<1>1. version \in Nat
    BY DEF TaskRecord
<1> HIDE DEF version
<1>2. [row EXCEPT !.status = s, !.cancel = c, !.version = version] \in TaskRecord
    BY <1>1 DEF TaskRecord
<1> QED
    BY <1>2 DEF Moved, version

\* A run row that gives up execution keeps its type.
LEMMA ReleasedRow ==
    ASSUME NEW row \in RunRecord, NEW s \in Statuses
    PROVE  Released(row, s) \in RunRecord
BY DEF Released, RunRecord, NoTime

\* A run row that only changes status keeps its type.
LEMMA StatusRow ==
    ASSUME NEW row \in RunRecord, NEW s \in Statuses
    PROVE  [row EXCEPT !.status = s] \in RunRecord
BY DEF RunRecord

\* The row finalize_run writes keeps its type.
LEMMA FinalRowType ==
    ASSUME NEW row \in RunRecord, NEW s \in Statuses
    PROVE  FinalRow(row, s) \in RunRecord
BY DEF FinalRow, Released, RunRecord, NoTime

\* The row a new run starts with is a run row.
LEMMA QueuedRunRow ==
    ASSUME NEW t \in Tasks, NEW v \in Nat
    PROVE  QueuedRun(t, v) \in RunRecord
BY ConstantsAssumption DEF QueuedRun, NoRunYet, RunRecord, NoTime, Statuses

\* The row acquire_run_lease writes is a run row.
LEMMA LeasedRow ==
    ASSUME NEW row \in RunRecord, NEW o \in Owners, now \in Nat
    PROVE  Leased(row, o) \in RunRecord
<1> DEFINE epoch == row.epoch + 1
           lease == now + LeaseTTL
           deadline == now + RunTimeout
<1>1. epoch \in Nat /\ lease \in Nat /\ deadline \in Nat
    BY ConstantsAssumption DEF RunRecord
<1> HIDE DEF epoch, lease, deadline
<1>2. [row EXCEPT !.status = "running", !.owner = o, !.epoch = epoch,
                  !.lease = lease, !.deadline = deadline] \in RunRecord
    BY <1>1 DEF RunRecord, Statuses, Executing
<1> QED
    BY <1>2 DEF Leased, epoch, lease, deadline

\* A decision that is settled stays a decision row.
LEMMA SettledRow ==
    ASSUME NEW d \in DecisionRecord, NEW s \in {"resolved", "cancelled"}, NEW body \in Bodies
    PROVE  Settled(d, s, body) \in DecisionRecord
BY DEF Settled, DecisionRecord

\* A move of a task keeps the types of the task and event tables.
LEMMA MoveTaskType ==
    ASSUME TypeOK, NEW t \in Tasks, NEW s \in Statuses, NEW c \in BOOLEAN, MoveTask(t, s, c)
    PROVE  task' \in [Tasks -> TaskRecord] /\ events' \in [Tasks -> EventRecord]
<1>1. task' \in [Tasks -> TaskRecord]
    BY MovedRow DEF TypeOK, MoveTask
<1>2. events[t].count + 1 \in Nat
    BY DEF TypeOK, EventRecord
<1>3. events' \in [Tasks -> EventRecord]
    BY <1>2 DEF TypeOK, MoveTask, LogStatus, EventRecord
<1> QED
    BY <1>1, <1>3

\* The release of a run keeps the type of the run table.
LEMMA ReleaseRunType ==
    ASSUME TypeOK, NEW r \in Runs, NEW s \in Statuses, ReleaseRun(r, s)
    PROVE  run' \in [Runs -> RunRecord]
BY ReleasedRow DEF TypeOK, ReleaseRun

\* A fenced or a latest run has a task.
LEMMA LatestHasTask ==
    ASSUME TypeOK, NEW r \in Runs, IsLatest(r)
    PROVE  run[r].task \in Tasks /\ task[run[r].task].run = r
BY DEF TypeOK, IsLatest, RunRecord

\* The tables keep their types.
LEMMA TypeStep ==
    ASSUME TypeOK, [Next]_vars
    PROVE  TypeOK'
<1> USE ConstantsAssumption
<1>1. ASSUME NEW t \in Tasks, NEW r \in Runs, CreateTask(t, r)
      PROVE  TypeOK'
  <2>1. task' \in [Tasks -> TaskRecord]
    BY <1>1 DEF TypeOK, CreateTask, TaskRecord, Statuses
  <2>2. run' \in [Runs -> RunRecord]
    BY <1>1, QueuedRunRow DEF TypeOK, CreateTask
  <2>3. events[t].count + 1 \in Nat
    BY DEF TypeOK, EventRecord
  <2>4. events' \in [Tasks -> EventRecord]
    BY <1>1, <2>3 DEF TypeOK, CreateTask, LogStatus, EventRecord, Statuses
  <2> QED
    BY <1>1, <2>1, <2>2, <2>4 DEF TypeOK, CreateTask
<1>2. ASSUME NEW t \in Tasks, CancelTask(t)
      PROVE  TypeOK'
  <2> DEFINE r == task[t].run
             target == IF task[t].status = "running" THEN "cancelling" ELSE "cancelled"
  <2>1. target \in Statuses
    BY DEF Statuses, Terminal, Executing
  <2>2. r \in Runs \cup {NoRun}
    BY DEF TypeOK, TaskRecord
  <2>3. run' \in [Runs -> RunRecord]
    <3>1. CASE target = "cancelling"
      <4>1. run' = [run EXCEPT ![r] = [@ EXCEPT !.status = "cancelling"]]
        BY <1>2, <3>1 DEF CancelTask
      <4>2. ASSUME r \in Runs
            PROVE  [run[r] EXCEPT !.status = "cancelling"] \in RunRecord
        BY <4>2, StatusRow DEF TypeOK, Statuses, Executing
      <4>3. CASE r \in Runs
        BY <4>1, <4>2, <4>3 DEF TypeOK
      <4>4. CASE r = NoRun
        BY <4>1, <4>4 DEF TypeOK
      <4> QED
        BY <2>2, <4>3, <4>4
    <3>2. CASE target # "cancelling" /\ r \in Runs
      BY <1>2, <2>1, <3>2, ReleaseRunType DEF CancelTask
    <3>3. CASE target # "cancelling" /\ r = NoRun
      BY <1>2, <3>3 DEF TypeOK, CancelTask, ReleaseRun
    <3> QED
      BY <2>2, <3>1, <3>2, <3>3
  <2>4. decision' \in [Runs -> DecisionRecord]
    BY <1>2, <2>2, SettledRow DEF TypeOK, CancelTask, CancelledDecisions, Bodies
  <2> QED
    BY <1>2, <2>1, <2>3, <2>4, MoveTaskType DEF TypeOK, CancelTask
<1>3. ASSUME NEW t \in Tasks, NEW v, ResumeInterrupted(t, v)
      PROVE  TypeOK'
  <2>1. "queued" \in Statuses
    BY DEF Statuses
  <2>2. run' \in [Runs -> RunRecord]
    BY <1>3, <2>1, ReleasedRow DEF TypeOK, ResumeInterrupted, ReleaseRun, TaskRecord
  <2> QED
    BY <1>3, <2>1, <2>2, MoveTaskType DEF TypeOK, ResumeInterrupted
<1>4. ASSUME NEW t \in Tasks, NEW r \in Runs, NEW v \in Nat, RetryWithRun(t, r, v)
      PROVE  TypeOK'
  <2>1. Moved(task[t], "queued", FALSE) \in TaskRecord
    BY MovedRow DEF TypeOK, Statuses
  <2>2. task' \in [Tasks -> TaskRecord]
    BY <1>4, <2>1 DEF TypeOK, RetryWithRun, TaskRecord
  <2>3. run' \in [Runs -> RunRecord]
    BY <1>4, QueuedRunRow DEF TypeOK, RetryWithRun
  <2>4. events[t].count + 1 \in Nat
    BY DEF TypeOK, EventRecord
  <2>5. events' \in [Tasks -> EventRecord]
    BY <1>4, <2>4 DEF TypeOK, RetryWithRun, LogStatus, EventRecord, Statuses
  <2> QED
    BY <1>4, <2>2, <2>3, <2>5 DEF TypeOK, RetryWithRun
<1>5. ASSUME NEW r \in Runs, NEW o \in Owners, AcquireLease(r, o)
      PROVE  TypeOK'
  <2>1. run[r].task \in Tasks /\ "running" \in Statuses
    BY <1>5, LatestHasTask DEF AcquireLease, Statuses, Executing
  <2>2. task[run[r].task].cancel \in BOOLEAN
    BY <2>1 DEF TypeOK, TaskRecord
  <2>3. Leased(run[r], o) \in RunRecord
    BY LeasedRow DEF TypeOK
  <2>4. run' \in [Runs -> RunRecord]
    BY <1>5, <2>3 DEF TypeOK, AcquireLease
  <2> QED
    BY <1>5, <2>1, <2>2, <2>4, MoveTaskType DEF TypeOK, AcquireLease
<1>6. ASSUME NEW r \in Runs, NEW o \in Owners, NEW e, Heartbeat(r, o, e)
      PROVE  TypeOK'
  <2> DEFINE lease == now + LeaseTTL
  <2>1. lease \in Nat
    BY DEF TypeOK
  <2>2. run' = [run EXCEPT ![r] = [@ EXCEPT !.lease = lease]]
    BY <1>6 DEF Heartbeat
  <2> HIDE DEF lease
  <2>3. [run[r] EXCEPT !.lease = lease] \in RunRecord
    BY <2>1 DEF TypeOK, RunRecord
  <2>4. run' \in [Runs -> RunRecord]
    BY <2>2, <2>3 DEF TypeOK
  <2> QED
    BY <1>6, <2>4 DEF TypeOK, Heartbeat
<1>7. ASSUME NEW r \in Runs, NEW o \in Owners, NEW e \in Nat, AddCheckpointRef(r, o, e)
      PROVE  TypeOK'
    BY <1>7 DEF TypeOK, AddCheckpointRef
<1>8. ASSUME NEW r \in Runs, NEW o \in Owners, NEW e \in Nat, NEW i \in DOMAIN refs[r],
             PauseForDecision(r, o, e, i)
      PROVE  TypeOK'
  <2>1. run[r].task \in Tasks /\ "waiting_for_input" \in Statuses
    BY <1>8, LatestHasTask DEF PauseForDecision, Statuses
  <2>2. task[run[r].task].cancel \in BOOLEAN
    BY <2>1 DEF TypeOK, TaskRecord
  <2> DEFINE expires == now + DecisionTTL
             row == [status |-> "pending", ref |-> i, epoch |-> e,
                     expires |-> expires, body |-> NoAnswer]
  <2>3. i \in Nat /\ expires \in Nat
    BY DEF TypeOK
  <2>4. decision' \in [Runs -> DecisionRecord]
    <3>1. decision' = [decision EXCEPT ![r] = row]
      BY <1>8 DEF PauseForDecision
    <3>2. row \in DecisionRecord
      <4> HIDE DEF expires
      <4> QED
        BY <2>3 DEF DecisionRecord
    <3> QED
      BY <3>1, <3>2 DEF TypeOK
  <2>5. run' \in [Runs -> RunRecord]
    BY <1>8, <2>1, ReleaseRunType DEF PauseForDecision
  <2> QED
    BY <1>8, <2>1, <2>2, <2>4, <2>5, MoveTaskType DEF TypeOK, PauseForDecision
<1>9. ASSUME NEW r \in Runs, NEW o \in Owners, NEW e, NEW s \in Outcomes, Finalize(r, o, e, s)
      PROVE  TypeOK'
  <2> DEFINE final == FinalStatus(r, s)
  <2>1. run[r].task \in Tasks
    BY <1>9, LatestHasTask DEF Finalize
  <2>2. task[run[r].task].cancel \in BOOLEAN
    BY <2>1 DEF TypeOK, TaskRecord
  <2>3. final \in Statuses
    BY DEF FinalStatus, Outcomes, Statuses, Terminal, Successful
  <2>4. FinalRow(run[r], final) \in RunRecord
    BY <2>3, FinalRowType DEF TypeOK
  <2>5. run' \in [Runs -> RunRecord]
    BY <1>9, <2>4 DEF TypeOK, Finalize
  <2>6. results' \subseteq Runs
    BY <1>9 DEF TypeOK, Finalize, Published
  <2> QED
    BY <1>9, <2>1, <2>2, <2>3, <2>5, <2>6, MoveTaskType DEF TypeOK, Finalize
<1>10. ASSUME NEW r \in Runs, NEW body \in Bodies, NEW v, ResolveDecision(r, body, v)
       PROVE  TypeOK'
  <2> DEFINE target == IF body = "cancel" THEN "cancelled" ELSE "queued"
  <2>1. run[r].task \in Tasks
    BY <1>10, LatestHasTask DEF ResolveDecision, Gates
  <2>2. target \in Statuses
    BY DEF Statuses, Terminal
  <2>3. (body = "cancel") \in BOOLEAN
    OBVIOUS
  <2>4. run' \in [Runs -> RunRecord]
    BY <1>10, <2>2, ReleaseRunType DEF ResolveDecision
  <2>5. decision' \in [Runs -> DecisionRecord]
    BY <1>10, SettledRow DEF TypeOK, ResolveDecision
  <2>6. MoveTask(run[r].task, target, body = "cancel")
    BY <1>10 DEF ResolveDecision
  <2>7. task' \in [Tasks -> TaskRecord] /\ events' \in [Tasks -> EventRecord]
    BY <2>1, <2>2, <2>3, <2>6, MoveTaskType
  <2> QED
    BY <1>10, <2>4, <2>5, <2>7 DEF TypeOK, ResolveDecision
<1>11. ASSUME NEW r \in Runs, ExpireDecision(r)
       PROVE  TypeOK'
  <2>1. decision' \in [Runs -> DecisionRecord]
    BY <1>11 DEF TypeOK, ExpireDecision, DecisionRecord
  <2>2. CASE Gates(r)
    <3>1. run[r].task \in Tasks /\ "cancelled" \in Statuses
      BY <2>2, LatestHasTask DEF Gates, Statuses, Terminal
    <3>2. run' \in [Runs -> RunRecord]
      BY <1>11, <2>2, <3>1, ReleaseRunType DEF ExpireDecision
    <3> QED
      BY <1>11, <2>1, <2>2, <3>1, <3>2, MoveTaskType DEF TypeOK, ExpireDecision
  <2>3. CASE ~Gates(r)
    BY <1>11, <2>1, <2>3 DEF TypeOK, ExpireDecision
  <2> QED
    BY <2>2, <2>3
<1>12. CASE RecoverRuns
  <2>1. decision' \in [Runs -> DecisionRecord]
    BY <1>12 DEF TypeOK, RecoverRuns, DecisionRecord
  <2>2. run' \in [Runs -> RunRecord]
    BY <1>12, RecoveredRunRow DEF RecoverRuns
  <2>3. task' \in [Tasks -> TaskRecord] /\ events' \in [Tasks -> EventRecord]
    BY <1>12, RecoveredTaskRow DEF RecoverRuns
  <2> QED
    BY <1>12, <2>1, <2>2, <2>3 DEF TypeOK, RecoverRuns
<1>13. CASE DeployWorkflow
  <2>1. \A r \in Runs : [run[r] EXCEPT !.current = FALSE] \in RunRecord
    BY DEF TypeOK, RunRecord
  <2>2. run' \in [Runs -> RunRecord]
    BY <1>13, <2>1 DEF TypeOK, DeployWorkflow
  <2> QED
    BY <1>13, <2>2 DEF TypeOK, DeployWorkflow
<1>14. CASE Tick
  <2>1. now' \in Nat \ {0}
    BY <1>14 DEF TypeOK, Tick
  <2>2. UNCHANGED <<task, run, refs, decision, results, events>>
    BY <1>14 DEF Tick
  <2> QED
    BY <2>1, <2>2 DEF TypeOK
<1>15. CASE UNCHANGED vars
    BY <1>15 DEF TypeOK, vars
<1>16. \A t \in Tasks : task[t].version \in Nat
    BY DEF TypeOK, TaskRecord
<1>17. \A r \in Runs : run[r].epoch \in Nat
    BY DEF TypeOK, RunRecord
<1>18. CASE UserNext
    BY <1>1, <1>2, <1>3, <1>4, <1>10, <1>11, <1>16, <1>18 DEF UserNext
<1>19. CASE WorkerNext
    BY <1>5, <1>6, <1>7, <1>8, <1>9, <1>17, <1>19 DEF WorkerNext
<1> QED
    BY <1>12, <1>13, <1>14, <1>15, <1>18, <1>19 DEF Next

\* No transaction, whatever its caller's clock, leaves a row outside the domain
\* of its table: every status is one the schema's CHECK constraints admit.
THEOREM TypeCorrect == Spec => []TypeOK
<1>1. Init => TypeOK
    BY ConstantsAssumption DEF Init, TypeOK, TaskRecord, RunRecord, DecisionRecord,
         EventRecord, NoRunYet, NoDecision, NoTime
<1>2. TypeOK /\ [Next]_vars => TypeOK'
    BY TypeStep
<1> QED
    BY <1>1, <1>2, PTL DEF Spec
-----------------------------------------------------------------------------
(***************************************************************************)
(* The inductive invariant.  The safety invariants support one another:    *)
(* a transaction looks only at a task and its latest run, so that nothing  *)
(* happens to a superseded run follows from the two rows agreeing          *)
(* (TaskMirrorsRun), and that a decision is open only while its run waits  *)
(* follows from superseded runs being closed.                              *)
(***************************************************************************)

\* A run row exists exactly when it names its task.
RowsNameTasks == \A r \in Runs : run[r].status = "absent" <=> run[r].task = NoTask

IInv == /\ TypeOK
        /\ RowsNameTasks
        /\ TaskMirrorsRun
        /\ LeaseMatchesStatus
        /\ SupersededRunsClosed
        /\ PendingDecisionGates
        /\ CancelFlagMatchesStatus
        /\ ResultIffSuccessful

\* What a transaction that moves the latest run r and its task to status s, and
\* touches no other row, must establish for r and its task alone.
JointMove(r, s) ==
    LET t == run[r].task
    IN  /\ IsLatest(r)
        /\ s \in Statuses
        /\ task'[t].status = s /\ task'[t].run = r
        /\ run'[r].status = s /\ run'[r].task = t
        /\ \A u \in Tasks \ {t} : task'[u] = task[u]
        /\ \A q \in Runs \ {r} : run'[q] = run[q]

LeaseGoodAfter(r) ==
    /\ run'[r].status \in Executing <=> run'[r].owner # NoOwner
    /\ run'[r].owner # NoOwner <=> run'[r].lease # NoTime
    /\ run'[r].status \in Executing => run'[r].epoch > 0 /\ run'[r].deadline # NoTime

DecisionGoodAfter(r) ==
    /\ decision'[r].status = "pending" <=> run'[r].status = "waiting_for_input"
    /\ \A q \in Runs \ {r} : decision'[q] = decision[q]

ResultGoodAfter(r) ==
    /\ r \in results' <=> run'[r].status \in Successful
    /\ \A q \in Runs \ {r} : q \in results' <=> q \in results

\* The pattern most transactions follow: the latest run of a task and the task
\* itself move to the same status in one step, and the lease, the decision, the
\* cancel request and the result follow the status.  Such a step keeps IInv.
LEMMA JointMoveKeepsIInv ==
    ASSUME IInv, TypeOK', NEW r \in Runs, NEW s, JointMove(r, s), LeaseGoodAfter(r),
           DecisionGoodAfter(r), ResultGoodAfter(r),
           task'[run[r].task].cancel <=> s \in {"cancelling", "cancelled"}
    PROVE  IInv'
<1> DEFINE t == run[r].task
<1>1. t \in Tasks /\ task[t].run = r
  BY LatestHasTask DEF IInv, JointMove
<1>2. s # "absent"
  BY DEF JointMove, Statuses, Terminal, Successful, Executing
<1>3. RowsNameTasks'
  BY <1>1, <1>2, ConstantsAssumption DEF IInv, RowsNameTasks, JointMove
<1>4. TaskMirrorsRun'
  <2>1. ASSUME NEW u \in Tasks, u # t, task[u].run # NoRun
        PROVE  task[u].run \in Runs /\ task[u].run # r
    BY <2>1 DEF IInv, TypeOK, TaskRecord, TaskMirrorsRun
  <2> QED
    BY <1>1, <1>2, <2>1, ConstantsAssumption DEF IInv, TaskMirrorsRun, JointMove
<1>5. LeaseMatchesStatus'
  BY DEF IInv, LeaseMatchesStatus, JointMove, LeaseGoodAfter
<1>6. SupersededRunsClosed'
  <2>1. ASSUME NEW q \in Runs, q # r, IsLatest(q)
        PROVE  IsLatest(q)'
    BY <1>1, <2>1, LatestHasTask DEF IInv, JointMove, IsLatest
  <2>2. IsLatest(r)'
    BY <1>1, ConstantsAssumption DEF JointMove, IsLatest
  <2> QED
    BY <2>1, <2>2 DEF IInv, SupersededRunsClosed, JointMove
<1>7. PendingDecisionGates'
  BY DEF IInv, PendingDecisionGates, JointMove, DecisionGoodAfter
<1>8. CancelFlagMatchesStatus'
  BY <1>1 DEF IInv, CancelFlagMatchesStatus, JointMove
<1>9. ResultIffSuccessful'
  BY DEF IInv, ResultIffSuccessful, JointMove, ResultGoodAfter
<1> QED
  BY <1>3, <1>4, <1>5, <1>6, <1>7, <1>8, <1>9 DEF IInv
\* What the row of a new run says, field by field.
LEMMA QueuedRunFields ==
    ASSUME NEW t, NEW v
    PROVE  /\ QueuedRun(t, v).status = "queued" /\ QueuedRun(t, v).task = t
           /\ QueuedRun(t, v).owner = NoOwner /\ QueuedRun(t, v).lease = NoTime
           /\ QueuedRun(t, v).birth = v
BY DEF QueuedRun, NoRunYet

\* A transaction that inserts a new run of t and points the task at it; the run
\* it replaces, if there is one, may be retried.
LEMMA NewRunKeepsIInv ==
    ASSUME IInv, TypeOK', NEW t \in Tasks, NEW r \in Runs, NEW v,
           task[t].status \in Retryable \cup {"absent"},
           run[r].status = "absent",
           run' = [run EXCEPT ![r] = QueuedRun(t, v)],
           task'[t].status = "queued", task'[t].run = r, task'[t].cancel = FALSE,
           \A u \in Tasks \ {t} : task'[u] = task[u],
           UNCHANGED <<decision, results>>
    PROVE  IInv'
<1>1. /\ run'[r] = QueuedRun(t, v)
      /\ \A q \in Runs \ {r} : run'[q] = run[q]
  BY DEF IInv, TypeOK
<1>2. /\ run'[r].status = "queued" /\ run'[r].task = t /\ run'[r].owner = NoOwner
      /\ run'[r].lease = NoTime
  BY <1>1, QueuedRunFields
<1>3. \A u \in Tasks : task[u].run # r
  BY ConstantsAssumption DEF IInv, TaskMirrorsRun
<1>4. \A u \in Tasks : task[u].run \in Runs \cup {NoRun}
  BY DEF IInv, TypeOK, TaskRecord
<1>5. RowsNameTasks'
  BY <1>1, <1>2, ConstantsAssumption DEF IInv, RowsNameTasks
<1>6. TaskMirrorsRun'
  BY <1>1, <1>2, <1>3, <1>4, ConstantsAssumption DEF IInv, TaskMirrorsRun
<1>7. LeaseMatchesStatus'
  BY <1>1, <1>2 DEF IInv, LeaseMatchesStatus, Executing
<1>8. SupersededRunsClosed'
  <2>1. IsLatest(r)'
    BY <1>2, ConstantsAssumption DEF IsLatest
  <2>2. ASSUME NEW q \in Runs, q # r, IsLatest(q), run[q].task # t
        PROVE  IsLatest(q)'
    BY <1>1, <2>2, LatestHasTask DEF IInv, IsLatest
  <2>3. ASSUME NEW q \in Runs, IsLatest(q), run[q].task = t
        PROVE  run[q].status \in Retryable \cup {"absent"}
    BY <2>3, ConstantsAssumption DEF IInv, TaskMirrorsRun, IsLatest
  <2> QED
    BY <1>1, <2>1, <2>2, <2>3 DEF IInv, SupersededRunsClosed, Retryable
<1>9. PendingDecisionGates'
  BY <1>1, <1>2 DEF IInv, PendingDecisionGates
<1>10. CancelFlagMatchesStatus'
  BY DEF IInv, CancelFlagMatchesStatus
<1>11. ResultIffSuccessful'
  BY <1>1, <1>2 DEF IInv, ResultIffSuccessful, Successful
<1> QED
  BY <1>5, <1>6, <1>7, <1>8, <1>9, <1>10, <1>11 DEF IInv

\* What MoveTask and ReleaseRun write, field by field.
LEMMA MoveTaskFields ==
    ASSUME TypeOK, NEW t \in Tasks, NEW s, NEW c \in BOOLEAN, MoveTask(t, s, c)
    PROVE  /\ task'[t].status = s /\ task'[t].run = task[t].run /\ task'[t].cancel = c
           /\ task'[t].version = task[t].version + 1
           /\ \A u \in Tasks \ {t} : task'[u] = task[u]
BY DEF TypeOK, MoveTask, Moved, TaskRecord

\* ... and ReleaseRun leaves every other row alone.
LEMMA ReleaseRunFields ==
    ASSUME TypeOK, NEW r \in Runs, NEW s, ReleaseRun(r, s)
    PROVE  /\ run'[r].status = s /\ run'[r].task = run[r].task
           /\ run'[r].owner = NoOwner /\ run'[r].lease = NoTime
           /\ \A q \in Runs \ {r} : run'[q] = run[q]
BY DEF TypeOK, ReleaseRun, Released, RunRecord

\* The task of the latest run has the run's status.
LEMMA LatestAgrees ==
    ASSUME IInv, NEW r \in Runs, IsLatest(r)
    PROVE  /\ run[r].task \in Tasks
           /\ task[run[r].task].run = r
           /\ task[run[r].task].status = run[r].status
           /\ run[r].status \in Statuses
           /\ task[run[r].task].cancel <=> run[r].status \in {"cancelling", "cancelled"}
<1>1. run[r].task \in Tasks /\ task[run[r].task].run = r
  BY LatestHasTask DEF IInv
<1>2. task[run[r].task].status = run[r].status
  BY <1>1, ConstantsAssumption DEF IInv, TaskMirrorsRun
<1>3. run[r].status \in Statuses
  BY <1>1, ConstantsAssumption DEF IInv, TypeOK, RunRecord, RowsNameTasks
<1> QED
  BY <1>1, <1>2, <1>3 DEF IInv, CancelFlagMatchesStatus

\* The task of a latest run that is not being cancelled has no cancel request.
LEMMA LatestNotCancelled ==
    ASSUME IInv, NEW r \in Runs, IsLatest(r), run[r].status \notin {"cancelling", "cancelled"}
    PROVE  task[run[r].task].cancel = FALSE
<1>1. run[r].task \in Tasks /\ ~task[run[r].task].cancel
  BY LatestAgrees
<1>2. task[run[r].task].cancel \in BOOLEAN
  BY <1>1 DEF IInv, TypeOK, TaskRecord
<1> QED
  BY <1>1, <1>2

\* ... and the other way round: the latest run of an existing task is latest.
LEMMA TaskHasLatest ==
    ASSUME IInv, NEW t \in Tasks, task[t].status # "absent"
    PROVE  /\ task[t].run \in Runs
           /\ IsLatest(task[t].run)
           /\ run[task[t].run].task = t
           /\ run[task[t].run].status = task[t].status
<1>1. task[t].run \in Runs
  BY DEF IInv, TypeOK, TaskRecord, TaskMirrorsRun
<1> QED
  BY <1>1, ConstantsAssumption DEF IInv, TaskMirrorsRun, IsLatest

\* cancel_task keeps IInv, of a running task and of a waiting one.
LEMMA CancelTaskKeepsIInv ==
    ASSUME IInv, TypeOK', NEW t \in Tasks, CancelTask(t)
    PROVE  IInv'
<1> DEFINE r == task[t].run
           target == IF task[t].status = "running" THEN "cancelling" ELSE "cancelled"
<1>1. r \in Runs /\ IsLatest(r) /\ run[r].task = t /\ run[r].status = task[t].status
  BY TaskHasLatest DEF CancelTask, Cancellable
<1>2. /\ task'[t].status = target /\ task'[t].run = r /\ task'[t].cancel = TRUE
      /\ \A u \in Tasks \ {t} : task'[u] = task[u]
  BY MoveTaskFields DEF CancelTask, IInv
<1>3. /\ run'[r].status = target /\ run'[r].task = t
      /\ \A q \in Runs \ {r} : run'[q] = run[q]
  <2>1. CASE target = "cancelling"
    <3>1. run' = [run EXCEPT ![r].status = "cancelling"]
      BY <2>1 DEF CancelTask
    <3> QED
      BY <1>1, <2>1, <3>1 DEF IInv, TypeOK, RunRecord
  <2>2. CASE target # "cancelling"
    BY <1>1, <2>2, ReleaseRunFields DEF CancelTask, IInv
  <2> QED
    BY <2>1, <2>2
<1>4. JointMove(r, target)
  BY <1>1, <1>2, <1>3 DEF JointMove, Statuses, Terminal, Executing
<1>5. LeaseGoodAfter(r)
  <2>1. CASE target = "cancelling"
    <3>1. run' = [run EXCEPT ![r].status = "cancelling"] /\ run[r].status = "running"
      BY <1>1, <2>1 DEF CancelTask
    <3>2. /\ run'[r].status = "cancelling" /\ run'[r].owner = run[r].owner
          /\ run'[r].lease = run[r].lease /\ run'[r].epoch = run[r].epoch
          /\ run'[r].deadline = run[r].deadline
      BY <1>1, <3>1 DEF IInv, TypeOK, RunRecord
    <3> QED
      BY <1>1, <3>1, <3>2 DEF IInv, LeaseMatchesStatus, LeaseGoodAfter, Executing
  <2>2. CASE target # "cancelling"
    BY <1>1, <1>3, <2>2, ReleaseRunFields DEF CancelTask, IInv, LeaseGoodAfter, Executing
  <2> QED
    BY <2>1, <2>2
<1>6. DecisionGoodAfter(r)
  BY <1>1, <1>3 DEF CancelTask, CancelledDecisions, Settled, IInv, PendingDecisionGates, TypeOK,
                    DecisionRecord, DecisionGoodAfter
<1>7. ResultGoodAfter(r)
  BY <1>1, <1>3 DEF CancelTask, IInv, ResultIffSuccessful, ResultGoodAfter, Successful, Cancellable
<1> QED
  BY <1>1, <1>2, <1>4, <1>5, <1>6, <1>7, JointMoveKeepsIInv
\* The transactions that release a run share how the lease ends.
LEMMA ReleasedLease ==
    ASSUME TypeOK, NEW r \in Runs, NEW s, s \notin Executing, ReleaseRun(r, s)
    PROVE  LeaseGoodAfter(r)
BY ReleaseRunFields DEF LeaseGoodAfter

\* ReleaseRun and MoveTask to one status are a joint move.
LEMMA ReleaseAndMoveIsJoint ==
    ASSUME IInv, NEW r \in Runs, NEW s \in Statuses, NEW c \in BOOLEAN, IsLatest(r),
           ReleaseRun(r, s), MoveTask(run[r].task, s, c)
    PROVE  JointMove(r, s) /\ (task'[run[r].task].cancel <=> c)
<1>1. run[r].task \in Tasks /\ task[run[r].task].run = r
  BY LatestHasTask DEF IInv
<1>2. /\ task'[run[r].task].status = s /\ task'[run[r].task].run = r
      /\ task'[run[r].task].cancel = c
      /\ \A u \in Tasks \ {run[r].task} : task'[u] = task[u]
  BY <1>1, MoveTaskFields DEF IInv
<1>3. /\ run'[r].status = s /\ run'[r].task = run[r].task
      /\ \A q \in Runs \ {r} : run'[q] = run[q]
  BY ReleaseRunFields DEF IInv
<1> QED
  BY <1>1, <1>2, <1>3 DEF JointMove

\* resume_interrupted_run keeps IInv.
LEMMA ResumeKeepsIInv ==
    ASSUME IInv, TypeOK', NEW t \in Tasks, NEW v, ResumeInterrupted(t, v)
    PROVE  IInv'
<1> DEFINE r == task[t].run
<1>1. r \in Runs /\ IsLatest(r) /\ run[r].task = t /\ run[r].status = "interrupted"
  BY TaskHasLatest DEF ResumeInterrupted
<1>2. "queued" \in Statuses /\ "queued" \notin Executing /\ "queued" \notin Successful
  BY DEF Statuses, Executing, Successful
<1>3. ReleaseRun(r, "queued") /\ MoveTask(run[r].task, "queued", FALSE)
  BY <1>1 DEF ResumeInterrupted
<1>4. JointMove(r, "queued") /\ (task'[run[r].task].cancel <=> FALSE)
  BY <1>1, <1>2, <1>3, ReleaseAndMoveIsJoint
<1>5. LeaseGoodAfter(r)
  BY <1>1, <1>2, <1>3, ReleasedLease DEF IInv
<1>6. DecisionGoodAfter(r)
  BY <1>1, <1>4 DEF ResumeInterrupted, IInv, PendingDecisionGates, DecisionGoodAfter, JointMove
<1>7. ResultGoodAfter(r)
  BY <1>1, <1>2, <1>4 DEF ResumeInterrupted, IInv, ResultIffSuccessful, ResultGoodAfter, JointMove,
                          Successful
<1> QED
  BY <1>1, <1>4, <1>5, <1>6, <1>7, JointMoveKeepsIInv

\* acquire_run_lease keeps IInv: the lease it grants comes with the status.
LEMMA AcquireKeepsIInv ==
    ASSUME IInv, TypeOK', NEW r \in Runs, NEW o \in Owners, AcquireLease(r, o)
    PROVE  IInv'
<1> DEFINE t == run[r].task
<1>1. /\ IsLatest(r) /\ run[r].status = "queued"
      /\ t \in Tasks /\ task[t].run = r /\ task[t].cancel = FALSE
  <2>1. IsLatest(r) /\ run[r].status = "queued"
    BY DEF AcquireLease
  <2> QED
    BY <2>1, LatestAgrees, LatestNotCancelled
<1>2. run' = [run EXCEPT ![r] = Leased(@, o)] /\ MoveTask(t, "running", FALSE)
  BY <1>1 DEF AcquireLease
<1>3. /\ task'[t].status = "running" /\ task'[t].run = r /\ task'[t].cancel = FALSE
      /\ \A u \in Tasks \ {t} : task'[u] = task[u]
  BY <1>1, <1>2, MoveTaskFields DEF IInv
<1>4. /\ run'[r] = Leased(run[r], o)
      /\ \A q \in Runs \ {r} : run'[q] = run[q]
  BY <1>2 DEF IInv, TypeOK
<1>5. /\ run'[r].status = "running" /\ run'[r].task = t /\ run'[r].owner = o
      /\ run'[r].lease = now + LeaseTTL /\ run'[r].deadline = now + RunTimeout
      /\ run'[r].epoch = run[r].epoch + 1
  BY <1>4 DEF Leased, IInv, TypeOK, RunRecord
<1>6. JointMove(r, "running")
  BY <1>1, <1>3, <1>4, <1>5 DEF JointMove, Statuses, Executing
<1>7. LeaseGoodAfter(r)
  <2>1. now + LeaseTTL # 0 /\ now + RunTimeout # 0 /\ run[r].epoch + 1 > 0
    BY ConstantsAssumption DEF IInv, TypeOK, RunRecord
  <2> QED
    BY <1>5, <2>1, ConstantsAssumption DEF LeaseGoodAfter, Executing, NoTime
<1>8. DecisionGoodAfter(r)
  BY <1>1, <1>5 DEF AcquireLease, IInv, PendingDecisionGates, DecisionGoodAfter
<1>9. ResultGoodAfter(r)
  BY <1>1, <1>5 DEF AcquireLease, IInv, ResultIffSuccessful, ResultGoodAfter, Successful
<1> QED
  BY <1>3, <1>6, <1>7, <1>8, <1>9, JointMoveKeepsIInv

\* pause_for_decision keeps IInv: the decision opens as the run starts to wait.
LEMMA PauseKeepsIInv ==
    ASSUME IInv, TypeOK', NEW r \in Runs, NEW o \in Owners, NEW e, NEW i,
           PauseForDecision(r, o, e, i)
    PROVE  IInv'
<1> DEFINE t == run[r].task
           s == "waiting_for_input"
<1>1. /\ IsLatest(r) /\ run[r].status = "running"
      /\ t \in Tasks /\ task[t].run = r /\ task[t].cancel = FALSE
  <2>1. IsLatest(r) /\ run[r].status = "running"
    BY DEF PauseForDecision
  <2> QED
    BY <2>1, LatestAgrees, LatestNotCancelled
<1>2. s \in Statuses /\ s \notin Executing /\ s \notin Successful
  BY DEF Statuses, Executing, Successful
<1>3. ReleaseRun(r, s) /\ MoveTask(t, s, FALSE)
  BY <1>1 DEF PauseForDecision
<1>4. JointMove(r, s) /\ (task'[t].cancel <=> FALSE)
  BY <1>1, <1>2, <1>3, ReleaseAndMoveIsJoint
<1>5. LeaseGoodAfter(r)
  BY <1>2, <1>3, ReleasedLease DEF IInv
<1>6. DecisionGoodAfter(r)
  BY <1>4 DEF PauseForDecision, IInv, TypeOK, DecisionRecord, DecisionGoodAfter, JointMove
<1>7. ResultGoodAfter(r)
  BY <1>1, <1>2, <1>4 DEF PauseForDecision, IInv, ResultIffSuccessful, ResultGoodAfter, JointMove,
                          Successful
<1> QED
  BY <1>4, <1>5, <1>6, <1>7, JointMoveKeepsIInv

\* finalize_run keeps IInv, whatever outcome it settles on.
LEMMA FinalizeKeepsIInv ==
    ASSUME IInv, TypeOK', NEW r \in Runs, NEW o \in Owners, NEW e, NEW s \in Outcomes,
           Finalize(r, o, e, s)
    PROVE  IInv'
<1> DEFINE t == run[r].task
           final == FinalStatus(r, s)
<1>1. /\ IsLatest(r) /\ run[r].status \in Executing
      /\ t \in Tasks /\ task[t].run = r /\ task[t].status = run[r].status
      /\ task[t].cancel <=> run[r].status = "cancelling"
      /\ task[t].cancel \in BOOLEAN
  <2>1. IsLatest(r) /\ run[r].status \in Executing
    BY DEF Finalize, Fenced
  <2>2. t \in Tasks
    BY <2>1, LatestAgrees
  <2> QED
    BY <2>1, <2>2, LatestAgrees DEF IInv, TypeOK, TaskRecord, Executing
<1>2. /\ final \in Statuses /\ final \notin Executing /\ final # "waiting_for_input"
      /\ task[t].cancel <=> final \in {"cancelling", "cancelled"}
  BY <1>1 DEF FinalStatus, CancelRequested, Outcomes, Statuses, Executing, Successful, Terminal
<1>3. run' = [run EXCEPT ![r] = FinalRow(@, final)] /\ MoveTask(t, final, task[t].cancel)
  BY DEF Finalize
<1>4. /\ task'[t].status = final /\ task'[t].run = r /\ task'[t].cancel = task[t].cancel
      /\ \A u \in Tasks \ {t} : task'[u] = task[u]
  BY <1>1, <1>3, MoveTaskFields DEF IInv
<1>5. /\ run'[r] = FinalRow(run[r], final)
      /\ \A q \in Runs \ {r} : run'[q] = run[q]
  BY <1>3 DEF IInv, TypeOK
<1>6. /\ run'[r].status = final /\ run'[r].task = t /\ run'[r].owner = NoOwner
      /\ run'[r].lease = NoTime
  BY <1>5 DEF FinalRow, Released, IInv, TypeOK, RunRecord
<1>7. JointMove(r, final)
  BY <1>1, <1>2, <1>4, <1>5, <1>6 DEF JointMove
<1>8. LeaseGoodAfter(r)
  BY <1>2, <1>6 DEF LeaseGoodAfter
<1>9. DecisionGoodAfter(r)
  BY <1>1, <1>2, <1>6 DEF Finalize, IInv, PendingDecisionGates, DecisionGoodAfter, Executing
<1>10. ResultGoodAfter(r)
  <2>1. r \notin results
    BY <1>1 DEF IInv, ResultIffSuccessful, Executing, Successful
  <2>2. final \in Successful => s \in Successful
    BY DEF FinalStatus, Successful
  <2>3. results' = Published(r, s)
    BY DEF Finalize
  <2>4. r \in results' <=> final \in Successful
    BY <2>1, <2>2, <2>3 DEF Published
  <2> QED
    BY <1>6, <2>3, <2>4 DEF Published, ResultGoodAfter
<1> QED
  BY <1>2, <1>4, <1>7, <1>8, <1>9, <1>10, JointMoveKeepsIInv

\* resolve_decision keeps IInv: the decision closes as the wait ends.
LEMMA ResolveKeepsIInv ==
    ASSUME IInv, TypeOK', NEW r \in Runs, NEW body \in Bodies, NEW v,
           ResolveDecision(r, body, v)
    PROVE  IInv'
<1> DEFINE t == run[r].task
           s == IF body = "cancel" THEN "cancelled" ELSE "queued"
           c == (body = "cancel")
<1>1. IsLatest(r) /\ run[r].status = "waiting_for_input"
  BY DEF ResolveDecision, Gates
<1>2. s \in Statuses /\ s \notin Executing /\ s \notin Successful /\ s # "waiting_for_input"
  BY DEF Statuses, Executing, Successful, Terminal
<1>3. c \in BOOLEAN
  OBVIOUS
<1>4. ReleaseRun(r, s) /\ MoveTask(t, s, c)
  BY DEF ResolveDecision
<1>5. JointMove(r, s) /\ (task'[t].cancel <=> c)
  BY <1>1, <1>2, <1>3, <1>4, ReleaseAndMoveIsJoint
<1>6. LeaseGoodAfter(r)
  BY <1>2, <1>4, ReleasedLease DEF IInv
<1>7. DecisionGoodAfter(r)
  BY <1>2, <1>5 DEF ResolveDecision, Settled, IInv, TypeOK, DecisionRecord, DecisionGoodAfter,
                    JointMove
<1>8. ResultGoodAfter(r)
  BY <1>1, <1>2, <1>5 DEF ResolveDecision, IInv, ResultIffSuccessful, ResultGoodAfter, JointMove,
                          Successful
<1>9. task'[t].cancel <=> s \in {"cancelling", "cancelled"}
  BY <1>5
<1> QED
  BY <1>5, <1>6, <1>7, <1>8, <1>9, JointMoveKeepsIInv

\* _expire_decision_unlocked keeps IInv.
LEMMA ExpireKeepsIInv ==
    ASSUME IInv, TypeOK', NEW r \in Runs, ExpireDecision(r)
    PROVE  IInv'
<1> DEFINE t == run[r].task
           s == "cancelled"
<1>1. IsLatest(r) /\ run[r].status = "waiting_for_input" /\ Gates(r)
  <2>1. run[r].status = "waiting_for_input"
    BY DEF ExpireDecision, Expired, IInv, PendingDecisionGates
  <2>2. IsLatest(r)
    BY <2>1 DEF IInv, SupersededRunsClosed
  <2> QED
    BY <2>1, <2>2, LatestAgrees DEF Gates
<1>2. s \in Statuses /\ s \notin Executing /\ s \notin Successful
  BY DEF Statuses, Executing, Successful, Terminal
<1>3. ReleaseRun(r, s) /\ MoveTask(t, s, TRUE)
  BY <1>1 DEF ExpireDecision
<1>4. JointMove(r, s) /\ (task'[t].cancel <=> TRUE)
  BY <1>1, <1>2, <1>3, ReleaseAndMoveIsJoint
<1>5. LeaseGoodAfter(r)
  BY <1>2, <1>3, ReleasedLease DEF IInv
<1>6. DecisionGoodAfter(r)
  BY <1>4 DEF ExpireDecision, IInv, TypeOK, DecisionRecord, DecisionGoodAfter, JointMove
<1>7. ResultGoodAfter(r)
  BY <1>1, <1>2, <1>4 DEF ExpireDecision, IInv, ResultIffSuccessful, ResultGoodAfter, JointMove,
                          Successful
<1> QED
  BY <1>4, <1>5, <1>6, <1>7, JointMoveKeepsIInv
\* Recovery rewrites every row, each from its own old values.
LEMMA RecoveryWrites ==
    ASSUME IInv, RecoverRuns, NEW r \in Runs
    PROVE  /\ run'[r] = RecoveredRun(r)
           /\ run'[r].status = RecoveredStatus(r)
           /\ run'[r].task = run[r].task
BY RecoveredRunRow DEF RecoverRuns, IInv

\* Only a latest run that executes, waits or was interrupted is written.
LEMMA RecoveryTouches ==
    ASSUME IInv, NEW r \in Runs, RecoverySteps(r) # 0
    PROVE  /\ IsLatest(r)
           /\ run[r].status \in Executing \cup {"waiting_for_input", "interrupted"}
           /\ RecoveredStatus(r) \in {"queued", "cancelled", "timed_out", "interrupted"}
<1>1. CASE ExpiresNow(r)
  BY <1>1 DEF RecoverySteps, ExpiresNow, Gates, RecoveredStatus, SettledStatus
<1>2. CASE ~ExpiresNow(r) /\ Orphaned(r)
  BY <1>2 DEF RecoverySteps, Orphaned, RecoveredStatus, SettledStatus, OrphanStatus
<1>3. CASE ~ExpiresNow(r) /\ ~Orphaned(r)
  BY <1>3 DEF RecoverySteps, RecoveredStatus, SettledStatus, AutoResumed
<1> QED
  BY <1>1, <1>2, <1>3

\* recover_runs keeps IInv although it rewrites all tables in one step.
LEMMA RecoverKeepsIInv ==
    ASSUME IInv, TypeOK', RecoverRuns
    PROVE  IInv'
<1>1. \A r \in Runs : RecoverySteps(r) = 0 => run'[r] = run[r] /\ RecoveredStatus(r) = run[r].status
  BY RecoveryWrites DEF RecoveredRun, RecoverySteps, RecoveredStatus, SettledStatus
<1>2. ASSUME NEW t \in Tasks
      PROVE  /\ task'[t].run = task[t].run
             /\ task[t].run = NoRun => task'[t] = task[t]
             /\ task[t].run # NoRun => task'[t].status = RecoveredStatus(task[t].run)
  <2>1. task'[t] = RecoveredTask(t)
    BY DEF RecoverRuns
  <2>2. CASE task[t].run = NoRun
    BY <2>1, <2>2 DEF RecoveredTask
  <2>3. CASE task[t].run # NoRun
    <3>1. task[t].run \in Runs /\ run[task[t].run].status = task[t].status
      BY <2>3 DEF IInv, TypeOK, TaskRecord, TaskMirrorsRun
    <3>2. CASE RecoverySteps(task[t].run) = 0
      BY <1>1, <2>1, <2>3, <3>1, <3>2 DEF RecoveredTask
    <3>3. CASE RecoverySteps(task[t].run) # 0
      BY <2>1, <2>3, <3>3 DEF RecoveredTask, IInv, TypeOK, TaskRecord
    <3> QED
      BY <3>2, <3>3
  <2> QED
    BY <2>2, <2>3
<1>3. RowsNameTasks'
  <2>1. ASSUME NEW r \in Runs
        PROVE  run'[r].status = "absent" <=> run[r].status = "absent"
    BY <1>1, RecoveryTouches, RecoveryWrites DEF Executing
  <2> QED
    BY <2>1, RecoveryWrites DEF IInv, RowsNameTasks
<1>4. TaskMirrorsRun'
  <2>1. ASSUME NEW t \in Tasks, task[t].run # NoRun
        PROVE  task[t].run \in Runs /\ run[task[t].run].task = t
    BY <2>1 DEF IInv, TypeOK, TaskRecord, TaskMirrorsRun
  <2>2. ASSUME NEW t \in Tasks, task[t].run # NoRun
        PROVE  /\ run'[task'[t].run].status = task'[t].status
               /\ run'[task'[t].run].task = t
               /\ task'[t].status # "absent"
    <3>1. run'[task[t].run].status # "absent"
      <4>1. RowsNameTasks' /\ run'[task[t].run].task = t
        BY <1>3, <2>1, <2>2, RecoveryWrites
      <4> QED
        BY <2>1, <2>2, <4>1, ConstantsAssumption DEF RowsNameTasks
    <3> QED
      BY <1>2, <2>1, <2>2, <3>1, RecoveryWrites
  <2> QED
    BY <1>2, <2>2 DEF IInv, TaskMirrorsRun
<1>5. LeaseMatchesStatus'
  <2>1. ASSUME NEW r \in Runs, RecoverySteps(r) # 0
        PROVE  /\ run'[r].status \notin Executing
               /\ run'[r].owner = NoOwner /\ run'[r].lease = NoTime
    <3>1. run'[r].status \notin Executing
      BY <2>1, RecoveryTouches, RecoveryWrites DEF Executing
    <3>2. CASE ExpiresNow(r) \/ Orphaned(r)
      <4>1. run[r] \in RunRecord /\ run'[r] = RecoveredRun(r)
        BY RecoveryWrites DEF IInv, TypeOK
      <4>2. RecoveredRun(r).owner = NoOwner /\ RecoveredRun(r).lease = NoTime
        BY <2>1, <3>2, <4>1 DEF RecoveredRun, RunRecord
      <4> QED
        BY <3>1, <4>1, <4>2
    <3>3. CASE ~(ExpiresNow(r) \/ Orphaned(r))
      <4>1. run[r].status = "interrupted"
        BY <2>1, <3>3 DEF RecoverySteps, AutoResumed, SettledStatus
      <4>2. run[r].owner = NoOwner /\ run[r].lease = NoTime
        BY <4>1 DEF IInv, LeaseMatchesStatus, Executing
      <4>3. run[r] \in RunRecord /\ run'[r] = RecoveredRun(r)
        BY RecoveryWrites DEF IInv, TypeOK
      <4>4. RecoveredRun(r).owner = run[r].owner /\ RecoveredRun(r).lease = run[r].lease
        BY <2>1, <3>3, <4>3 DEF RecoveredRun, RunRecord
      <4> QED
        BY <3>1, <4>2, <4>3, <4>4
    <3> QED
      BY <3>1, <3>2, <3>3
  <2> QED
    BY <1>1, <2>1 DEF IInv, LeaseMatchesStatus
<1>6. SupersededRunsClosed'
  <2>1. ASSUME NEW r \in Runs
        PROVE  IsLatest(r)' <=> IsLatest(r)
    <3>1. run'[r].task = run[r].task /\ run[r].task \in Tasks \cup {NoTask}
      BY RecoveryWrites DEF IInv, TypeOK, RunRecord
    <3> QED
      BY <1>2, <3>1 DEF IsLatest
  <2> QED
    BY <1>1, <2>1, RecoveryTouches DEF IInv, SupersededRunsClosed
<1>7. PendingDecisionGates'
  <2>1. ASSUME NEW r \in Runs, decision[r].status = "pending"
        PROVE  Gates(r)
    <3>1. run[r].status = "waiting_for_input"
      BY <2>1 DEF IInv, PendingDecisionGates
    <3>2. IsLatest(r)
      BY <3>1 DEF IInv, SupersededRunsClosed
    <3> QED
      BY <3>1, <3>2, LatestAgrees DEF Gates
  <2>2. ASSUME NEW r \in Runs
        PROVE  /\ Expired(r) => decision'[r].status = "expired"
               /\ ~Expired(r) => decision'[r] = decision[r]
    BY DEF RecoverRuns, IInv, TypeOK, DecisionRecord
  <2>3. ASSUME NEW r \in Runs, Expired(r)
        PROVE  run'[r].status # "waiting_for_input"
    <3>1. ExpiresNow(r)
      BY <2>1, <2>3 DEF ExpiresNow, Expired
    <3> QED
      BY <3>1, RecoveryWrites DEF RecoveredStatus, SettledStatus
  <2>4. ASSUME NEW r \in Runs, ~Expired(r)
        PROVE  run'[r].status = "waiting_for_input" <=> run[r].status = "waiting_for_input"
    <3>1. CASE RecoverySteps(r) = 0
      BY <1>1, <3>1
    <3>2. CASE RecoverySteps(r) # 0
      BY <2>4, <3>2, RecoveryTouches, RecoveryWrites
         DEF RecoverySteps, ExpiresNow, Orphaned, Executing, AutoResumed, SettledStatus
    <3> QED
      BY <3>1, <3>2
  <2> QED
    BY <2>2, <2>3, <2>4 DEF IInv, PendingDecisionGates, Expired
<1>8. CancelFlagMatchesStatus'
  <2>1. ASSUME NEW t \in Tasks
        PROVE  task'[t].cancel <=> task'[t].status \in {"cancelling", "cancelled"}
    <3> DEFINE r == task[t].run
    <3>1. task'[t] = RecoveredTask(t)
      BY DEF RecoverRuns
    <3>2. CASE r = NoRun
      BY <1>2, <3>2 DEF IInv, CancelFlagMatchesStatus
    <3>3. CASE r # NoRun /\ RecoverySteps(r) = 0
      BY <3>1, <3>3 DEF RecoveredTask, IInv, CancelFlagMatchesStatus
    <3>4. CASE r # NoRun /\ RecoverySteps(r) # 0
      <4>1. r \in Runs /\ IsLatest(r) /\ run[r].task = t /\ run[r].status = task[t].status
        BY <3>4, TaskHasLatest DEF IInv, TaskMirrorsRun
      <4>2. task'[t].cancel = IF ExpiresNow(r) THEN TRUE ELSE task[t].cancel
        BY <3>1, <3>4 DEF RecoveredTask, IInv, TypeOK, TaskRecord
      <4>3. task'[t].status = RecoveredStatus(r)
        BY <1>2, <3>4
      <4>4. task[t].cancel <=> task[t].status \in {"cancelling", "cancelled"}
        BY DEF IInv, CancelFlagMatchesStatus
      <4>5. CASE ExpiresNow(r)
        BY <4>2, <4>3, <4>5 DEF RecoveredStatus, SettledStatus, AutoResumed
      <4>6. CASE ~ExpiresNow(r) /\ Orphaned(r)
        BY <4>1, <4>2, <4>3, <4>4, <4>6
           DEF RecoveredStatus, SettledStatus, OrphanStatus, CancelRequested, AutoResumed
      <4>7. CASE ~ExpiresNow(r) /\ ~Orphaned(r)
        BY <3>4, <4>1, <4>2, <4>3, <4>4, <4>7
           DEF RecoverySteps, RecoveredStatus, SettledStatus, AutoResumed
      <4> QED
        BY <4>5, <4>6, <4>7
    <3> QED
      BY <3>2, <3>3, <3>4
  <2> QED
    BY <2>1 DEF CancelFlagMatchesStatus
<1>9. ResultIffSuccessful'
  <2>1. ASSUME NEW r \in Runs
        PROVE  run'[r].status \in Successful <=> run[r].status \in Successful
    BY <1>1, RecoveryTouches, RecoveryWrites DEF Successful, Executing
  <2> QED
    BY <2>1 DEF RecoverRuns, IInv, ResultIffSuccessful
<1> QED
  BY <1>3, <1>4, <1>5, <1>6, <1>7, <1>8, <1>9 DEF IInv
\* Steps that move no task and no run to another status.
LEMMA QuietStepKeepsIInv ==
    ASSUME IInv, TypeOK', UNCHANGED <<task, decision, results>>,
           \A r \in Runs :
              /\ run'[r].status = run[r].status /\ run'[r].task = run[r].task
              /\ run'[r].owner = run[r].owner /\ run'[r].epoch = run[r].epoch
              /\ run'[r].deadline = run[r].deadline
              /\ run'[r].lease = NoTime <=> run[r].lease = NoTime
    PROVE  IInv'
<1>1. RowsNameTasks'
  BY DEF IInv, RowsNameTasks
<1>2. TaskMirrorsRun'
  <2>1. \A t \in Tasks : task[t].run # NoRun => task[t].run \in Runs
    BY DEF IInv, TypeOK, TaskRecord
  <2> QED
    BY <2>1 DEF IInv, TaskMirrorsRun
<1>3. LeaseMatchesStatus'
  BY DEF IInv, LeaseMatchesStatus
<1>4. SupersededRunsClosed'
  BY DEF IInv, SupersededRunsClosed, IsLatest
<1>5. PendingDecisionGates' /\ CancelFlagMatchesStatus' /\ ResultIffSuccessful'
  BY DEF IInv, PendingDecisionGates, CancelFlagMatchesStatus, ResultIffSuccessful
<1> QED
  BY <1>1, <1>2, <1>3, <1>4, <1>5 DEF IInv

\* Every transaction keeps IInv.
LEMMA IInvStep ==
    ASSUME IInv, [Next]_vars
    PROVE  IInv'
<1>1. TypeOK'
  BY TypeStep DEF IInv
<1>2. ASSUME NEW t \in Tasks, NEW r \in Runs, CreateTask(t, r)
      PROVE  IInv'
  <2>1. /\ task[t].status = "absent" /\ run[r].status = "absent"
        /\ run' = [run EXCEPT ![r] = QueuedRun(t, 0)]
        /\ UNCHANGED <<decision, results>>
    BY <1>2 DEF CreateTask
  <2>2. /\ task'[t].status = "queued" /\ task'[t].run = r /\ task'[t].cancel = FALSE
        /\ \A u \in Tasks \ {t} : task'[u] = task[u]
    BY <1>2 DEF CreateTask, IInv, TypeOK
  <2> QED
    BY <1>1, <2>1, <2>2, NewRunKeepsIInv
<1>3. ASSUME NEW t \in Tasks, NEW r \in Runs, NEW v, RetryWithRun(t, r, v)
      PROVE  IInv'
  <2>1. /\ task[t].status \in Retryable /\ run[r].status = "absent"
        /\ run' = [run EXCEPT ![r] = QueuedRun(t, v)]
        /\ task' = [task EXCEPT ![t] = [Moved(@, "queued", FALSE) EXCEPT !.run = r]]
        /\ UNCHANGED <<decision, results>>
    BY <1>3 DEF RetryWithRun
  <2>2. /\ task'[t].status = "queued" /\ task'[t].run = r /\ task'[t].cancel = FALSE
        /\ \A u \in Tasks \ {t} : task'[u] = task[u]
    BY <2>1 DEF IInv, TypeOK, TaskRecord, Moved
  <2> QED
    BY <1>1, <2>1, <2>2, NewRunKeepsIInv
<1>4. ASSUME NEW r \in Runs, NEW o \in Owners, NEW e, Heartbeat(r, o, e)
      PROVE  IInv'
  <2> DEFINE lease == now + LeaseTTL
  <2>1. run' = [run EXCEPT ![r].lease = lease]
    BY <1>4 DEF Heartbeat
  <2>2. run[r].lease # NoTime
    <3>1. run[r].status \in Executing
      BY <1>4 DEF Heartbeat, Fenced
    <3> QED
      BY <3>1 DEF IInv, LeaseMatchesStatus
  <2>3. lease # NoTime
    BY ConstantsAssumption DEF IInv, TypeOK, NoTime
  <2> HIDE DEF lease
  <2>4. \A q \in Runs :
           /\ run'[q].status = run[q].status /\ run'[q].task = run[q].task
           /\ run'[q].owner = run[q].owner /\ run'[q].epoch = run[q].epoch
           /\ run'[q].deadline = run[q].deadline
           /\ run'[q].lease = NoTime <=> run[q].lease = NoTime
    BY <2>1, <2>2, <2>3 DEF IInv, TypeOK, RunRecord
  <2> QED
    BY <1>1, <1>4, <2>4, QuietStepKeepsIInv DEF Heartbeat
<1>5. ASSUME NEW r \in Runs, NEW o \in Owners, NEW e, AddCheckpointRef(r, o, e)
      PROVE  IInv'
  BY <1>1, <1>5, QuietStepKeepsIInv DEF AddCheckpointRef
<1>6. CASE DeployWorkflow
  <2>1. \A r \in Runs :
           /\ run'[r].status = run[r].status /\ run'[r].task = run[r].task
           /\ run'[r].owner = run[r].owner /\ run'[r].epoch = run[r].epoch
           /\ run'[r].deadline = run[r].deadline
           /\ run'[r].lease = NoTime <=> run[r].lease = NoTime
    BY <1>6 DEF DeployWorkflow, IInv, TypeOK, RunRecord
  <2> QED
    BY <1>1, <1>6, <2>1, QuietStepKeepsIInv DEF DeployWorkflow
<1>7. CASE Tick
  BY <1>1, <1>7, QuietStepKeepsIInv DEF Tick
<1>8. CASE UNCHANGED vars
  BY <1>1, <1>8, QuietStepKeepsIInv DEF vars
<1>9. CASE UserNext
  BY <1>1, <1>2, <1>3, <1>9, CancelTaskKeepsIInv, ResumeKeepsIInv, ExpireKeepsIInv,
     ResolveKeepsIInv DEF UserNext
<1>10. CASE WorkerNext
  BY <1>1, <1>4, <1>5, <1>10, AcquireKeepsIInv, PauseKeepsIInv, FinalizeKeepsIInv DEF WorkerNext
<1> QED
  BY <1>1, <1>6, <1>7, <1>8, <1>9, <1>10, RecoverKeepsIInv DEF Next

\* The empty database satisfies IInv.
LEMMA IInvInit == Init => IInv
<1>1. Init => TypeOK
  BY ConstantsAssumption DEF Init, TypeOK, TaskRecord, RunRecord, DecisionRecord,
       EventRecord, NoRunYet, NoDecision, NoTime
<1> QED
  BY <1>1, ConstantsAssumption
     DEF Init, IInv, RowsNameTasks, TaskMirrorsRun, LeaseMatchesStatus, SupersededRunsClosed,
         PendingDecisionGates, CancelFlagMatchesStatus, ResultIffSuccessful, NoRunYet, NoDecision,
         Executing, Successful

\* No sequence of transactions of any number of workers, users and recoveries
\* leaves the states IInv describes.
THEOREM InductiveInvariant == Spec => []IInv
<1> QED
  BY IInvInit, IInvStep, PTL DEF Spec

\* The task row and the row of its latest run never disagree.
THEOREM TaskAndRunAgree == Spec => []TaskMirrorsRun
<1>1. IInv => TaskMirrorsRun
  BY DEF IInv
<1> QED
  BY <1>1, InductiveInvariant, PTL

\* A lease is held exactly while a run executes.
THEOREM LeasesAreReleased == Spec => []LeaseMatchesStatus
<1>1. IInv => LeaseMatchesStatus
  BY DEF IInv
<1> QED
  BY <1>1, InductiveInvariant, PTL

\* A run that a retry replaced never executes, waits or is queued again.
THEOREM RetryClosesOldRun == Spec => []SupersededRunsClosed
<1>1. IInv => SupersededRunsClosed
  BY DEF IInv
<1> QED
  BY <1>1, InductiveInvariant, PTL

\* A decision is open exactly while its run waits for it.
THEOREM DecisionsGateRuns == Spec => []PendingDecisionGates
<1>1. IInv => PendingDecisionGates
  BY DEF IInv
<1> QED
  BY <1>1, InductiveInvariant, PTL

\* The cancel request of a task lives exactly as long as its cancellation.
THEOREM CancelRequestsAreHonest == Spec => []CancelFlagMatchesStatus
<1>1. IInv => CancelFlagMatchesStatus
  BY DEF IInv
<1> QED
  BY <1>1, InductiveInvariant, PTL

\* Results are published with successful outcomes and with no other.
THEOREM ResultsAreSuccesses == Spec => []ResultIffSuccessful
<1>1. IInv => ResultIffSuccessful
  BY DEF IInv
<1> QED
  BY <1>1, InductiveInvariant, PTL
\* All the rows agree, after any transaction, in any order.
THEOREM RowsAlwaysAgree == Spec => []RowsAgree
<1>1. IInv /\ TypeOK => RowsAgree
  BY DEF IInv, RowsAgree
<1> QED
  BY <1>1, InductiveInvariant, TypeCorrect, PTL

-----------------------------------------------------------------------------
(***************************************************************************)
(* What the rows say of the past.  References come in the order of epochs, *)
(* the answer to a decision stays where a resume finds it, a retry request *)
(* creates one run, the event log tells what the task rows tell, and a     *)
(* decision is settled once.  Each of these follows from how one row of    *)
(* one table may change in a step, whichever transaction makes it.         *)
(***************************************************************************)
(***************************************************************************)
(* How a row may change.                                                   *)
(***************************************************************************)

\* A run that exists keeps its identity; it comes to execute under a new epoch.
RunMoves(r) ==
    /\ run'[r].task = run[r].task /\ run'[r].birth = run[r].birth
    /\ run'[r].status = "absent" <=> run[r].status = "absent"
    /\ \/ /\ run'[r].epoch = run[r].epoch
          /\ run'[r].status \in Executing => run[r].status \in Executing
       \/ run'[r].epoch = run[r].epoch + 1

\* A run is created for a request that named version v, which is used up.
RunStarts(r) ==
    \E t \in Tasks, v \in Nat :
       /\ run[r].status = "absent" /\ run' = [run EXCEPT ![r] = QueuedRun(t, v)]
       /\ task'[t].status # "absent"
       /\ \/ task[t].status = "absent" /\ v = 0
          \/ task[t].status # "absent" /\ v = task[t].version /\ task'[t].version = v + 1

RefsGrow(r) ==
    \/ refs'[r] = refs[r]
    \/ /\ refs'[r] = Append(refs[r], run[r].epoch) /\ run[r].status \in Executing
       /\ UNCHANGED <<run, decision>>

DecisionOpens(r) ==
    /\ decision[r].status = "none" /\ decision'[r].status = "pending"
    /\ run[r].status = "running" /\ run'[r].status = "waiting_for_input"
    /\ decision'[r].epoch = run[r].epoch
    /\ IsLatestRef(r, decision'[r].ref) /\ refs[r][decision'[r].ref] = run[r].epoch
    /\ UNCHANGED refs

DecisionSettles(r) ==
    /\ decision[r].status = "pending"
    /\ decision'[r].status \in {"resolved", "cancelled", "expired"}
    /\ decision'[r].ref = decision[r].ref /\ decision'[r].epoch = decision[r].epoch

DecisionMoves(r) ==
    decision'[r] = decision[r] \/ DecisionOpens(r) \/ DecisionSettles(r)

\* A task and its log.
TaskRests(t) == task'[t] = task[t] /\ events'[t] = events[t]
TaskMoves(t, k) ==
    /\ task[t].status # "absent" /\ task'[t].status # "absent"
    /\ task'[t].version = task[t].version + k /\ events'[t].count = events[t].count + k
    /\ events'[t].last = task'[t].status
TaskStarts(t) ==
    /\ task[t].status = "absent"
    /\ task'[t].status = "queued" /\ task'[t].version = 0
    /\ events'[t].count = events[t].count + 1 /\ events'[t].last = "queued"
TaskSteps(t) == TaskRests(t) \/ (\E k \in Nat : TaskMoves(t, k)) \/ TaskStarts(t)

-----------------------------------------------------------------------------
(***************************************************************************)
(* Every transaction changes rows like that.                               *)
(***************************************************************************)

\* The row a run is released with keeps its identity.
LEMMA ReleasedIdentity ==
    ASSUME NEW row \in RunRecord, NEW s \in Statuses
    PROVE  /\ Released(row, s).status = s /\ Released(row, s).task = row.task
           /\ Released(row, s).birth = row.birth /\ Released(row, s).epoch = row.epoch
BY DEF Released, RunRecord

\* The row finalize_run settles keeps its identity.
LEMMA FinalIdentity ==
    ASSUME NEW row \in RunRecord, NEW s \in Statuses
    PROVE  /\ FinalRow(row, s).status = s /\ FinalRow(row, s).task = row.task
           /\ FinalRow(row, s).birth = row.birth /\ FinalRow(row, s).epoch = row.epoch
BY DEF FinalRow, Released, RunRecord

\* The row acquire_run_lease writes is of a new epoch.
LEMMA LeasedIdentity ==
    ASSUME NEW row \in RunRecord, NEW o
    PROVE  /\ Leased(row, o).status = "running" /\ Leased(row, o).task = row.task
           /\ Leased(row, o).birth = row.birth /\ Leased(row, o).epoch = row.epoch + 1
<1> DEFINE lease == now + LeaseTTL
           deadline == now + RunTimeout
           epoch == row.epoch + 1
<1>1. Leased(row, o) = [row EXCEPT !.status = "running", !.owner = o, !.epoch = epoch,
                                   !.lease = lease, !.deadline = deadline]
  BY DEF Leased
<1> HIDE DEF lease, deadline, epoch
<1> QED BY <1>1 DEF RunRecord, epoch

\* A transaction that writes one run row, with its identity, is a move of runs.
LEMMA OneRowMoves ==
    ASSUME TypeOK, NEW r \in Runs, NEW row, run' = [run EXCEPT ![r] = row],
           row.task = run[r].task, row.birth = run[r].birth,
           row.status # "absent", run[r].status # "absent",
           \/ row.epoch = run[r].epoch /\ (row.status \in Executing => run[r].status \in Executing)
           \/ row.epoch = run[r].epoch + 1,
           NEW q \in Runs
    PROVE  RunMoves(q)
<1>1. run'[r] = row /\ (q # r => run'[q] = run[q])
  BY DEF TypeOK
<1>2. CASE q = r
  BY <1>1, <1>2 DEF RunMoves
<1>3. CASE q # r
  BY <1>1, <1>3 DEF RunMoves
<1> QED BY <1>2, <1>3

\* What MoveTask does to the rows and the log of the task it moves.
LEMMA MovedTaskSteps ==
    ASSUME TypeOK, NEW t \in Tasks, NEW s, s # "absent", NEW c \in BOOLEAN, MoveTask(t, s, c),
           task[t].status # "absent", NEW u \in Tasks
    PROVE  TaskSteps(u)
<1>1. /\ task'[t].status = s /\ task'[t].version = task[t].version + 1
      /\ (u # t => task'[u] = task[u])
  BY MoveTaskFields
<1>2. /\ events'[t].count = events[t].count + 1 /\ events'[t].last = s
      /\ (u # t => events'[u] = events[u])
  BY DEF MoveTask, LogStatus, TypeOK, EventRecord
<1>3. CASE u = t
  <2>1. TaskMoves(t, 1)
    BY <1>1, <1>2 DEF TaskMoves
  <2> QED BY <1>3, <2>1 DEF TaskSteps
<1>4. CASE u # t
  BY <1>1, <1>2, <1>4 DEF TaskSteps, TaskRests
<1> QED BY <1>3, <1>4

\* All the rows.
Evolves ==
    /\ \A r \in Runs : RunMoves(r) \/ RunStarts(r)
    /\ \A r \in Runs : RefsGrow(r)
    /\ \A r \in Runs : DecisionMoves(r)
    /\ \A t \in Tasks : TaskSteps(t)

\* create_task_with_run and retry_task_with_run insert one run.
LEMMA NewRunEvolves ==
    ASSUME TypeOK, NEW t \in Tasks, NEW r \in Runs, NEW v \in Nat,
           run[r].status = "absent", run' = [run EXCEPT ![r] = QueuedRun(t, v)],
           task'[t].status # "absent",
           \/ task[t].status = "absent" /\ v = 0
           \/ task[t].status # "absent" /\ v = task[t].version /\ task'[t].version = v + 1,
           \A u \in Tasks : TaskSteps(u),
           UNCHANGED <<refs, decision>>
    PROVE  Evolves
<1>1. RunStarts(r)
  BY DEF RunStarts
<1>2. ASSUME NEW q \in Runs, q # r
      PROVE  RunMoves(q)
  <2>1. run'[q] = run[q]
    BY <1>2 DEF TypeOK
  <2> QED BY <2>1 DEF RunMoves
<1>3. \A q \in Runs : RefsGrow(q) /\ DecisionMoves(q)
  BY DEF RefsGrow, DecisionMoves
<1> QED BY <1>1, <1>2, <1>3 DEF Evolves

\* create_task_with_run
LEMMA CreateEvolves ==
    ASSUME IInv, NEW t \in Tasks, NEW r \in Runs, CreateTask(t, r)
    PROVE  Evolves
<1>1. /\ task[t].status = "absent" /\ run[r].status = "absent"
      /\ run' = [run EXCEPT ![r] = QueuedRun(t, 0)] /\ UNCHANGED <<refs, decision>>
  BY DEF CreateTask
<1>2. /\ task'[t].status = "queued" /\ task'[t].version = 0
      /\ \A u \in Tasks \ {t} : task'[u] = task[u]
  BY DEF CreateTask, IInv, TypeOK
<1>3. /\ events'[t].count = events[t].count + 1 /\ events'[t].last = "queued"
      /\ \A u \in Tasks \ {t} : events'[u] = events[u]
  BY DEF CreateTask, LogStatus, IInv, TypeOK, EventRecord
<1>4. \A u \in Tasks : TaskSteps(u)
  BY <1>1, <1>2, <1>3 DEF TaskSteps, TaskStarts, TaskRests
<1>5. 0 \in Nat /\ task'[t].status # "absent"
  BY <1>2
<1> QED BY <1>1, <1>4, <1>5, NewRunEvolves DEF IInv

\* retry_task_with_run
LEMMA RetryEvolves ==
    ASSUME IInv, NEW t \in Tasks, NEW r \in Runs, NEW v, RetryWithRun(t, r, v)
    PROVE  Evolves
<1>1. /\ task[t].status # "absent" /\ run[r].status = "absent" /\ task[t].version = v
      /\ run' = [run EXCEPT ![r] = QueuedRun(t, v)] /\ UNCHANGED <<refs, decision>>
      /\ task' = [task EXCEPT ![t] = [Moved(@, "queued", FALSE) EXCEPT !.run = r]]
  BY DEF RetryWithRun, AtVersion, Retryable
<1>2. /\ task'[t].status = "queued" /\ task'[t].version = task[t].version + 1
      /\ \A u \in Tasks \ {t} : task'[u] = task[u]
  <2>1. task[t] \in TaskRecord
    BY DEF IInv, TypeOK
  <2>2. PICK n : n = task[t].version + 1
    OBVIOUS
  <2>3. Moved(task[t], "queued", FALSE) = [task[t] EXCEPT !.status = "queued", !.cancel = FALSE,
                                                          !.version = n]
    BY <2>2 DEF Moved
  <2> QED BY <1>1, <2>1, <2>2, <2>3 DEF IInv, TypeOK, TaskRecord
<1>3. /\ events'[t].count = events[t].count + 1 /\ events'[t].last = "queued"
      /\ \A u \in Tasks \ {t} : events'[u] = events[u]
  BY DEF RetryWithRun, LogStatus, IInv, TypeOK, EventRecord
<1>4. TaskMoves(t, 1)
  BY <1>1, <1>2, <1>3 DEF TaskMoves
<1>5. \A u \in Tasks : TaskSteps(u)
  BY <1>2, <1>3, <1>4 DEF TaskSteps, TaskRests
<1>6. v \in Nat
  BY <1>1 DEF IInv, TypeOK, TaskRecord
<1> QED BY <1>1, <1>2, <1>5, <1>6, NewRunEvolves DEF IInv

\* The transactions that release the latest run of a task and move both to s.
LEMMA ReleaseEvolves ==
    ASSUME IInv, NEW r \in Runs, NEW s \in Statuses, NEW c \in BOOLEAN, IsLatest(r),
           s \notin Executing, ReleaseRun(r, s), MoveTask(run[r].task, s, c),
           \A q \in Runs : RefsGrow(q) /\ DecisionMoves(q)
    PROVE  Evolves
<1>1. /\ run[r].task \in Tasks /\ task[run[r].task].status # "absent"
      /\ run[r].status # "absent" /\ s # "absent" /\ run[r] \in RunRecord
  BY LatestAgrees DEF IInv, TypeOK, Statuses, Terminal, Successful, Executing
<1>2. PICK row : row = Released(run[r], s)
  OBVIOUS
<1>5. run' = [run EXCEPT ![r] = row]
  BY <1>2 DEF ReleaseRun
<1>6. /\ row.status = s /\ row.task = run[r].task
      /\ row.birth = run[r].birth /\ row.epoch = run[r].epoch
  BY <1>1, <1>2, ReleasedIdentity
<1>3. \A q \in Runs : RunMoves(q)
  BY <1>1, <1>5, <1>6, OneRowMoves DEF IInv
<1>4. \A u \in Tasks : TaskSteps(u)
  BY <1>1, MovedTaskSteps DEF IInv
<1> QED BY <1>3, <1>4 DEF Evolves

\* Steps that touch neither references nor decisions.
LEMMA QuietTables ==
    ASSUME UNCHANGED <<refs, decision>>, NEW q \in Runs
    PROVE  RefsGrow(q) /\ DecisionMoves(q)
BY DEF RefsGrow, DecisionMoves

\* A decision that is settled, alone.
LEMMA OneDecisionSettles ==
    ASSUME TypeOK, NEW r \in Runs, NEW d, decision' = [decision EXCEPT ![r] = d],
           UNCHANGED refs, decision[r].status = "pending",
           d.status \in {"resolved", "cancelled", "expired"},
           d.ref = decision[r].ref, d.epoch = decision[r].epoch,
           NEW q \in Runs
    PROVE  RefsGrow(q) /\ DecisionMoves(q)
<1>1. decision'[r] = d /\ (q # r => decision'[q] = decision[q])
  BY DEF TypeOK
<1>2. CASE q = r
  BY <1>1, <1>2 DEF RefsGrow, DecisionMoves, DecisionSettles
<1>3. CASE q # r
  BY <1>1, <1>3 DEF RefsGrow, DecisionMoves
<1> QED BY <1>2, <1>3

\* The decision a settlement writes.
LEMMA SettledFields ==
    ASSUME NEW d \in DecisionRecord, NEW s, NEW body
    PROVE  /\ Settled(d, s, body).status = s /\ Settled(d, s, body).ref = d.ref
           /\ Settled(d, s, body).epoch = d.epoch
BY DEF Settled, DecisionRecord

\* resume_interrupted_run
LEMMA ResumeEvolves ==
    ASSUME IInv, NEW t \in Tasks, NEW v, ResumeInterrupted(t, v)
    PROVE  Evolves
<1> DEFINE r == task[t].run
<1>1. r \in Runs /\ IsLatest(r) /\ run[r].task = t
  BY TaskHasLatest DEF ResumeInterrupted
<1>2. ReleaseRun(r, "queued") /\ MoveTask(run[r].task, "queued", FALSE)
      /\ UNCHANGED <<refs, decision>>
  BY <1>1 DEF ResumeInterrupted
<1>3. "queued" \in Statuses /\ "queued" \notin Executing /\ FALSE \in BOOLEAN
  BY DEF Statuses, Executing
<1> HIDE DEF r
<1> QED BY <1>1, <1>2, <1>3, QuietTables, ReleaseEvolves

\* cancel_task, of a running task and of another.
LEMMA CancelEvolves ==
    ASSUME IInv, NEW t \in Tasks, CancelTask(t)
    PROVE  Evolves
<1> DEFINE r == task[t].run
<1>1. r \in Runs /\ IsLatest(r) /\ run[r].task = t /\ run[r].status = task[t].status
  BY TaskHasLatest DEF CancelTask, Cancellable
<1>2. CASE task[t].status = "running"
  <2>1. /\ run' = [run EXCEPT ![r].status = "cancelling"] /\ MoveTask(t, "cancelling", TRUE)
        /\ UNCHANGED <<refs, decision>>
    BY <1>2 DEF CancelTask, CancelledDecisions
  <2>2. PICK row : row = [run[r] EXCEPT !.status = "cancelling"]
    OBVIOUS
  <2>3. /\ row.status = "cancelling" /\ row.task = run[r].task /\ row.birth = run[r].birth
        /\ row.epoch = run[r].epoch
    BY <1>1, <2>2 DEF IInv, TypeOK, RunRecord
  <2>4. run' = [run EXCEPT ![r] = row] /\ run[r].status = "running"
    BY <1>1, <1>2, <2>1, <2>2
  <2> HIDE DEF r
  <2>5. \A q \in Runs : RunMoves(q)
    BY <1>1, <2>3, <2>4, OneRowMoves DEF IInv, Executing
  <2>6. \A u \in Tasks : TaskSteps(u)
    BY <1>2, <2>1, MovedTaskSteps DEF IInv
  <2> QED BY <2>1, <2>5, <2>6, QuietTables DEF Evolves
<1>3. CASE task[t].status # "running"
  <2>1. ReleaseRun(r, "cancelled") /\ MoveTask(run[r].task, "cancelled", TRUE)
        /\ decision' = CancelledDecisions(t) /\ UNCHANGED refs
    BY <1>1, <1>3 DEF CancelTask
  <2>2. "cancelled" \in Statuses /\ "cancelled" \notin Executing /\ TRUE \in BOOLEAN
    BY DEF Statuses, Terminal, Executing
  <2>3. ASSUME NEW q \in Runs
        PROVE  RefsGrow(q) /\ DecisionMoves(q)
    <3>1. CASE task[t].status = "waiting_for_input" /\ decision[r].status = "pending"
      <4>1. PICK d : d = Settled(decision[r], "cancelled", "cancel")
        OBVIOUS
      <4>2. decision' = [decision EXCEPT ![r] = d]
        BY <2>1, <3>1, <4>1 DEF CancelledDecisions
      <4>3. decision[r] \in DecisionRecord
        BY <1>1 DEF IInv, TypeOK
      <4> HIDE DEF r
      <4>4. d.status = "cancelled" /\ d.ref = decision[r].ref /\ d.epoch = decision[r].epoch
        BY <4>1, <4>3, SettledFields
      <4> QED BY <1>1, <2>1, <3>1, <4>2, <4>4, OneDecisionSettles DEF IInv
    <3>2. CASE ~(task[t].status = "waiting_for_input" /\ decision[r].status = "pending")
      BY <2>1, <3>2, QuietTables DEF CancelledDecisions
    <3> QED BY <3>1, <3>2
  <2> HIDE DEF r
  <2> QED BY <1>1, <2>1, <2>2, <2>3, ReleaseEvolves
<1> QED BY <1>2, <1>3

\* acquire_run_lease
LEMMA AcquireEvolves ==
    ASSUME IInv, NEW r \in Runs, NEW o \in Owners, AcquireLease(r, o)
    PROVE  Evolves
<1>1. /\ IsLatest(r) /\ run[r].status = "queued"
      /\ run[r].task \in Tasks /\ task[run[r].task].status = "queued"
      /\ task[run[r].task].cancel \in BOOLEAN
  BY LatestAgrees DEF AcquireLease, IInv, TypeOK, TaskRecord
<1>2. /\ run' = [run EXCEPT ![r] = Leased(@, o)] /\ UNCHANGED <<refs, decision>>
      /\ MoveTask(run[r].task, "running", task[run[r].task].cancel)
  BY DEF AcquireLease
<1>3. PICK row : row = Leased(run[r], o)
  OBVIOUS
<1>4. /\ row.status = "running" /\ row.task = run[r].task /\ row.birth = run[r].birth
      /\ row.epoch = run[r].epoch + 1
  BY <1>3, LeasedIdentity DEF IInv, TypeOK
<1>5. run' = [run EXCEPT ![r] = row]
  BY <1>2, <1>3
<1>6. \A q \in Runs : RunMoves(q)
  BY <1>1, <1>4, <1>5, OneRowMoves DEF IInv
<1>7. \A u \in Tasks : TaskSteps(u)
  BY <1>1, <1>2, MovedTaskSteps DEF IInv
<1> QED BY <1>2, <1>6, <1>7, QuietTables DEF Evolves

\* Steps that move no task and give no run another status or epoch.
LEMMA QuietEvolves ==
    ASSUME UNCHANGED <<task, events, decision>>, \A r \in Runs : RefsGrow(r),
           \A r \in Runs :
              /\ run'[r].status = run[r].status /\ run'[r].task = run[r].task
              /\ run'[r].epoch = run[r].epoch /\ run'[r].birth = run[r].birth
    PROVE  Evolves
<1>1. \A r \in Runs : RunMoves(r) /\ DecisionMoves(r)
  BY DEF RunMoves, DecisionMoves
<1>2. \A t \in Tasks : TaskSteps(t)
  BY DEF TaskSteps, TaskRests
<1> QED BY <1>1, <1>2 DEF Evolves

\* heartbeat_run_lease
LEMMA HeartbeatEvolves ==
    ASSUME IInv, NEW r \in Runs, NEW o, NEW e, Heartbeat(r, o, e)
    PROVE  Evolves
<1>1. PICK lease : lease = now + LeaseTTL
  OBVIOUS
<1>2. run' = [run EXCEPT ![r].lease = lease] /\ UNCHANGED <<task, refs, decision, events>>
  BY <1>1 DEF Heartbeat
<1>3. \A q \in Runs :
         /\ run'[q].status = run[q].status /\ run'[q].task = run[q].task
         /\ run'[q].epoch = run[q].epoch /\ run'[q].birth = run[q].birth
  BY <1>2 DEF IInv, TypeOK, RunRecord
<1> QED BY <1>2, <1>3, QuietTables, QuietEvolves

\* add_checkpoint_reference
LEMMA AddRefEvolves ==
    ASSUME IInv, NEW r \in Runs, NEW o, NEW e, AddCheckpointRef(r, o, e)
    PROVE  Evolves
<1>1. /\ run[r].epoch = e /\ run[r].status \in Executing
      /\ refs' = [refs EXCEPT ![r] = Append(@, e)] /\ UNCHANGED <<task, run, decision, events>>
  BY DEF AddCheckpointRef, Fenced
<1>2. \A q \in Runs : RefsGrow(q)
  BY <1>1 DEF RefsGrow, IInv, TypeOK
<1> QED BY <1>1, <1>2, QuietEvolves

\* pause_for_decision
LEMMA PauseEvolves ==
    ASSUME IInv, NEW r \in Runs, NEW o, NEW e, NEW i, PauseForDecision(r, o, e, i)
    PROVE  Evolves
<1>1. /\ IsLatest(r) /\ run[r].epoch = e /\ run[r].status = "running"
      /\ IsLatestRef(r, i) /\ refs[r][i] = e /\ decision[r].status = "none" /\ UNCHANGED refs
      /\ ReleaseRun(r, "waiting_for_input")
      /\ MoveTask(run[r].task, "waiting_for_input", task[run[r].task].cancel)
  BY DEF PauseForDecision, Fenced, NotAskedYet
<1>2. /\ task[run[r].task].cancel \in BOOLEAN
      /\ "waiting_for_input" \in Statuses /\ "waiting_for_input" \notin Executing
  BY <1>1, LatestHasTask DEF IInv, TypeOK, TaskRecord, Statuses, Executing
<1>3. /\ decision'[r].status = "pending" /\ decision'[r].ref = i /\ decision'[r].epoch = e
      /\ \A q \in Runs \ {r} : decision'[q] = decision[q]
  BY DEF PauseForDecision, IInv, TypeOK
<1>4. run'[r].status = "waiting_for_input"
  BY <1>1, ReleaseRunFields DEF IInv
<1>5. DecisionOpens(r)
  BY <1>1, <1>3, <1>4 DEF DecisionOpens
<1>6. \A q \in Runs : RefsGrow(q) /\ DecisionMoves(q)
  BY <1>1, <1>3, <1>5 DEF RefsGrow, DecisionMoves
<1> QED BY <1>1, <1>2, <1>6, ReleaseEvolves

\* finalize_run and finalize_run_with_result
LEMMA FinalizeEvolves ==
    ASSUME IInv, NEW r \in Runs, NEW o, NEW e, NEW s \in Outcomes, Finalize(r, o, e, s)
    PROVE  Evolves
<1>1. PICK final : final = FinalStatus(r, s)
  OBVIOUS
<1>2. /\ final \in Statuses \ (Executing \cup {"absent"}) /\ IsLatest(r)
      /\ UNCHANGED <<refs, decision>> /\ run[r].status \in Executing
      /\ run' = [run EXCEPT ![r] = FinalRow(@, final)]
      /\ MoveTask(run[r].task, final, task[run[r].task].cancel)
  BY <1>1 DEF Finalize, Fenced, FinalStatus, Outcomes, Successful, Statuses, Terminal, Executing
<1>3. /\ run[r].task \in Tasks /\ task[run[r].task].status # "absent"
      /\ task[run[r].task].cancel \in BOOLEAN /\ run[r] \in RunRecord
  BY <1>2, LatestAgrees DEF IInv, TypeOK, TaskRecord, Executing
<1>4. PICK row : row = FinalRow(run[r], final)
  OBVIOUS
<1>5. /\ row.status = final /\ row.task = run[r].task /\ row.birth = run[r].birth
      /\ row.epoch = run[r].epoch
  BY <1>2, <1>3, <1>4, FinalIdentity
<1>6. run' = [run EXCEPT ![r] = row] /\ run[r].status # "absent"
  BY <1>2, <1>4 DEF Executing
<1>7. \A q \in Runs : RunMoves(q)
  BY <1>2, <1>5, <1>6, OneRowMoves DEF IInv
<1>8. \A u \in Tasks : TaskSteps(u)
  BY <1>2, <1>3, MovedTaskSteps DEF IInv
<1> QED BY <1>2, <1>7, <1>8, QuietTables DEF Evolves

\* resolve_decision
LEMMA ResolveEvolves ==
    ASSUME IInv, NEW r \in Runs, NEW body \in Bodies, NEW v, ResolveDecision(r, body, v)
    PROVE  Evolves
<1>1. PICK s : s = IF body = "cancel" THEN "cancelled" ELSE "queued"
  OBVIOUS
<1>2. PICK d : d = Settled(decision[r], IF body = "cancel" THEN "cancelled" ELSE "resolved", body)
  OBVIOUS
<1>3. /\ s \in Statuses /\ s \notin Executing /\ IsLatest(r) /\ UNCHANGED refs
      /\ ReleaseRun(r, s) /\ MoveTask(run[r].task, s, body = "cancel")
      /\ decision' = [decision EXCEPT ![r] = d] /\ decision[r].status = "pending"
  BY <1>1, <1>2 DEF ResolveDecision, Gates, Statuses, Terminal, Executing
<1>4. decision[r] \in DecisionRecord
  BY DEF IInv, TypeOK
<1>5. /\ d.status \in {"resolved", "cancelled"} /\ d.ref = decision[r].ref
      /\ d.epoch = decision[r].epoch
  BY <1>2, <1>4, SettledFields
<1>6. \A q \in Runs : RefsGrow(q) /\ DecisionMoves(q)
  BY <1>3, <1>5, OneDecisionSettles DEF IInv
<1>7. (body = "cancel") \in BOOLEAN
  OBVIOUS
<1> QED BY <1>3, <1>6, <1>7, ReleaseEvolves

\* _expire_decision_unlocked
LEMMA ExpireEvolves ==
    ASSUME IInv, NEW r \in Runs, ExpireDecision(r)
    PROVE  Evolves
<1>1. PICK d : d = [decision[r] EXCEPT !.status = "expired"]
  OBVIOUS
<1>2. /\ d.status = "expired" /\ d.ref = decision[r].ref /\ d.epoch = decision[r].epoch
  BY <1>1 DEF IInv, TypeOK, DecisionRecord
<1>3. /\ decision' = [decision EXCEPT ![r] = d] /\ decision[r].status = "pending" /\ UNCHANGED refs
  BY <1>1 DEF ExpireDecision, Expired
<1>4. \A q \in Runs : RefsGrow(q) /\ DecisionMoves(q)
  BY <1>2, <1>3, OneDecisionSettles DEF IInv
<1>5. CASE Gates(r)
  <2>1. /\ ReleaseRun(r, "cancelled") /\ MoveTask(run[r].task, "cancelled", TRUE) /\ IsLatest(r)
    BY <1>5 DEF ExpireDecision, Gates
  <2>2. "cancelled" \in Statuses /\ "cancelled" \notin Executing /\ TRUE \in BOOLEAN
    BY DEF Statuses, Terminal, Executing
  <2> QED BY <1>4, <2>1, <2>2, ReleaseEvolves
<1>6. CASE ~Gates(r)
  <2>1. UNCHANGED <<run, task, events>>
    BY <1>6 DEF ExpireDecision
  <2> QED BY <1>4, <2>1 DEF Evolves, RunMoves, TaskSteps, TaskRests
<1> QED BY <1>5, <1>6

\* recover_runs
LEMMA RecoverEvolves ==
    ASSUME IInv, RecoverRuns
    PROVE  Evolves
<1>1. ASSUME NEW r \in Runs
      PROVE  RunMoves(r) /\ RefsGrow(r) /\ DecisionMoves(r)
  <2>1. /\ run'[r].status = RecoveredStatus(r) /\ run'[r].task = run[r].task
        /\ run'[r].epoch = run[r].epoch /\ run'[r].birth = run[r].birth
    BY RecoveredRunRow, RecoveryWrites DEF IInv
  <2>2. RunMoves(r)
    <3>1. CASE RecoverySteps(r) = 0
      <4>1. RecoveredStatus(r) = run[r].status
        BY <3>1 DEF RecoverySteps, RecoveredStatus, SettledStatus
      <4> QED BY <2>1, <4>1 DEF RunMoves
    <3>2. CASE RecoverySteps(r) # 0
      <4>1. /\ run[r].status # "absent" /\ run'[r].status # "absent"
            /\ run'[r].status \notin Executing
        BY <2>1, <3>2, RecoveryTouches DEF Executing
      <4> QED BY <2>1, <4>1 DEF RunMoves
    <3> QED BY <3>1, <3>2
  <2>3. DecisionMoves(r)
    <3>1. CASE Expired(r)
      <4>1. decision'[r] = [decision[r] EXCEPT !.status = "expired"]
        BY <3>1 DEF RecoverRuns
      <4> QED BY <3>1, <4>1 DEF IInv, TypeOK, DecisionRecord, Expired, DecisionMoves, DecisionSettles
    <3>2. CASE ~Expired(r)
      BY <3>2 DEF RecoverRuns, DecisionMoves
    <3> QED BY <3>1, <3>2
  <2> QED BY <2>2, <2>3 DEF RecoverRuns, RefsGrow
<1>2. ASSUME NEW t \in Tasks
      PROVE  TaskSteps(t)
  <2> DEFINE r == task[t].run
  <2>1. task'[t] = RecoveredTask(t) /\ events'[t] = RecoveredEvents(t)
    BY DEF RecoverRuns
  <2>2. CASE r = NoRun \/ RecoverySteps(r) = 0
    BY <2>1, <2>2 DEF RecoveredTask, RecoveredEvents, TaskSteps, TaskRests
  <2>3. CASE r # NoRun /\ RecoverySteps(r) # 0
    <3>1. r \in Runs /\ task[t].status # "absent" /\ task[t] \in TaskRecord
      BY <2>3 DEF IInv, TypeOK, TaskRecord, TaskMirrorsRun
    <3>2. RecoveredStatus(r) # "absent"
      BY <2>3, <3>1, RecoveryTouches
    <3>3. PICK k : k = RecoverySteps(r)
      OBVIOUS
    <3>4. k \in Nat
      BY <3>3 DEF RecoverySteps
    <3>5. PICK version : version = task[t].version + k
      OBVIOUS
    <3>6. task'[t] = [task[t] EXCEPT !.status = RecoveredStatus(r),
                                     !.cancel = IF ExpiresNow(r) THEN TRUE ELSE @,
                                     !.version = version]
      BY <2>1, <2>3, <3>3, <3>5 DEF RecoveredTask
    <3>7. task'[t].status = RecoveredStatus(r) /\ task'[t].version = version
      BY <3>1, <3>6 DEF TaskRecord
    <3>8. events'[t].count = events[t].count + k /\ events'[t].last = RecoveredStatus(r)
      BY <2>1, <2>3, <3>3 DEF RecoveredEvents
    <3>9. TaskMoves(t, k)
      BY <3>1, <3>2, <3>5, <3>7, <3>8 DEF TaskMoves
    <3> QED BY <3>4, <3>9 DEF TaskSteps
  <2> QED BY <2>2, <2>3
<1> QED BY <1>1, <1>2 DEF Evolves

\* Every step of the tables.
LEMMA StepEvolves ==
    ASSUME IInv, [Next]_vars
    PROVE  Evolves
<1>1. CASE DeployWorkflow
  <2>1. \A r \in Runs :
           /\ run'[r].status = run[r].status /\ run'[r].task = run[r].task
           /\ run'[r].epoch = run[r].epoch /\ run'[r].birth = run[r].birth
    BY <1>1 DEF DeployWorkflow, IInv, TypeOK, RunRecord
  <2> QED BY <1>1, <2>1, QuietTables, QuietEvolves DEF DeployWorkflow
<1>2. CASE Tick \/ UNCHANGED vars
  BY <1>2, QuietTables, QuietEvolves DEF Tick, vars
<1>3. CASE UserNext
  BY <1>3, CreateEvolves, RetryEvolves, CancelEvolves, ResumeEvolves, ExpireEvolves,
     ResolveEvolves DEF UserNext
<1>4. CASE WorkerNext
  BY <1>4, HeartbeatEvolves, AddRefEvolves, AcquireEvolves, PauseEvolves, FinalizeEvolves
     DEF WorkerNext
<1> QED BY <1>1, <1>2, <1>3, <1>4, RecoverEvolves DEF Next

-----------------------------------------------------------------------------
(***************************************************************************)
(* What the rows say of the past, as invariants of one row each.           *)
(***************************************************************************)

InEpochOrder(r) ==
    /\ \A i, j \in DOMAIN refs[r] : i <= j => refs[r][i] <= refs[r][j]
    /\ \A i \in DOMAIN refs[r] : refs[r][i] \in 1..run[r].epoch

\* An execution that goes on after a decision is of a later epoch than it, so
\* the references it adds are newer than the one the decision is bound to.
Deliverable(r) ==
    /\ decision[r].status # "none" =>
         /\ decision[r].epoch <= run[r].epoch
         /\ run[r].status \in Executing => decision[r].epoch < run[r].epoch
    /\ decision[r].status \in {"pending", "resolved"} =>
         /\ decision[r].ref \in DOMAIN refs[r]
         /\ refs[r][decision[r].ref] = decision[r].epoch
         /\ \A i \in DOMAIN refs[r] : i > decision[r].ref => refs[r][i] > decision[r].epoch

FreshIsEmpty(r) ==
    run[r].status = "absent" => refs[r] = << >> /\ decision[r].status = "none"

\* A version that a run was created for is used up.
BornInThePast(r) ==
    run[r].task # NoTask =>
        /\ task[run[r].task].status # "absent"
        /\ run[r].birth = 0 \/ run[r].birth < task[run[r].task].version

LogTells(t) ==
    /\ events[t].last = task[t].status
    /\ events[t].count = IF task[t].status = "absent" THEN 0 ELSE task[t].version + 1

IHist ==
    /\ \A r \in Runs : FreshIsEmpty(r) /\ InEpochOrder(r) /\ Deliverable(r) /\ BornInThePast(r)
    /\ OneRunPerRetryRequest
    /\ \A t \in Tasks : LogTells(t)

LEMMA IHistInit == Init => IHist
BY DEF Init, IHist, FreshIsEmpty, InEpochOrder, Deliverable, BornInThePast,
       OneRunPerRetryRequest, LogTells, NoRunYet, NoDecision

\* A created run starts with no references and no decision.
LEMMA StartedRun ==
    ASSUME TypeOK, NEW r \in Runs, RunStarts(r)
    PROVE  /\ run[r].status = "absent" /\ run'[r].status = "queued" /\ run'[r].epoch = 0
           /\ \A q \in Runs \ {r} : run'[q] = run[q]
BY DEF RunStarts, TypeOK, QueuedRun, NoRunYet

LEMMA FreshStep ==
    ASSUME IInv, Evolves, NEW r \in Runs, FreshIsEmpty(r)
    PROVE  FreshIsEmpty(r)'
<1>1. CASE RunStarts(r)
  BY <1>1, StartedRun DEF FreshIsEmpty, IInv
<1>2. CASE RunMoves(r)
  <2>1. run'[r].status = "absent" => run[r].status = "absent"
    BY <1>2 DEF RunMoves
  <2>2. run[r].status = "absent" => refs'[r] = refs[r] /\ decision'[r] = decision[r]
    BY DEF Evolves, RefsGrow, DecisionMoves, DecisionOpens, DecisionSettles, FreshIsEmpty,
           Executing
  <2> QED BY <2>1, <2>2 DEF FreshIsEmpty
<1> QED BY <1>1, <1>2 DEF Evolves

\* An appended reference is of the epoch that executes.
LEMMA GrownRefs ==
    ASSUME IInv, NEW r \in Runs, refs'[r] = Append(refs[r], run[r].epoch)
    PROVE  /\ DOMAIN refs[r] = 1..Len(refs[r]) /\ DOMAIN refs'[r] = 1..(Len(refs[r]) + 1)
           /\ \A i \in 1..Len(refs[r]) : refs'[r][i] = refs[r][i]
           /\ refs'[r][Len(refs[r]) + 1] = run[r].epoch
           /\ Len(refs[r]) \in Nat
BY DEF IInv, TypeOK, RunRecord

LEMMA OrderStep ==
    ASSUME IInv, IInv', Evolves, NEW r \in Runs, FreshIsEmpty(r), InEpochOrder(r)
    PROVE  InEpochOrder(r)'
<1>1. CASE refs'[r] = refs[r]
  <2>1. CASE RunStarts(r)
    BY <1>1, <2>1, StartedRun DEF FreshIsEmpty, InEpochOrder, IInv
  <2>2. CASE RunMoves(r)
    <3>1. run[r].epoch \in Nat /\ run'[r].epoch \in Nat /\ run[r].epoch <= run'[r].epoch
      BY <2>2 DEF RunMoves, IInv, TypeOK, RunRecord
    <3> QED BY <1>1, <3>1 DEF InEpochOrder
  <2> QED BY <2>1, <2>2 DEF Evolves
<1>2. CASE refs'[r] = Append(refs[r], run[r].epoch) /\ run[r].status \in Executing
           /\ UNCHANGED run
  <2>1. run[r].epoch \in Nat /\ run[r].epoch > 0
    BY <1>2 DEF IInv, TypeOK, RunRecord, LeaseMatchesStatus
  <2>2. \A i \in DOMAIN refs'[r] : refs'[r][i] \in 1..run[r].epoch
    BY <1>2, <2>1, GrownRefs DEF InEpochOrder
  <2>3. \A i, j \in DOMAIN refs'[r] : i <= j => refs'[r][i] <= refs'[r][j]
    <3> SUFFICES ASSUME NEW i \in DOMAIN refs'[r], NEW j \in DOMAIN refs'[r], i <= j
                 PROVE  refs'[r][i] <= refs'[r][j]
      OBVIOUS
    <3>1. CASE j = Len(refs[r]) + 1
      BY <1>2, <2>1, <2>2, <3>1, GrownRefs
    <3>2. CASE j # Len(refs[r]) + 1
      BY <1>2, <3>2, GrownRefs DEF InEpochOrder
    <3> QED BY <3>1, <3>2
  <2> QED BY <1>2, <2>2, <2>3 DEF InEpochOrder
<1> QED BY <1>1, <1>2 DEF Evolves, RefsGrow

LEMMA DeliverableStep ==
    ASSUME IInv, IInv', Evolves, NEW r \in Runs, FreshIsEmpty(r), InEpochOrder(r), Deliverable(r)
    PROVE  Deliverable(r)'
<1>1. CASE refs'[r] = refs[r] /\ decision'[r] = decision[r]
  <2>1. CASE RunStarts(r)
    BY <1>1, <2>1, StartedRun DEF FreshIsEmpty, Deliverable, IInv
  <2>2. CASE RunMoves(r)
    BY <1>1, <2>2 DEF RunMoves, Deliverable, IInv, TypeOK, RunRecord, DecisionRecord
  <2> QED BY <2>1, <2>2 DEF Evolves
<1>2. CASE refs'[r] = Append(refs[r], run[r].epoch) /\ run[r].status \in Executing
           /\ UNCHANGED <<run, decision>>
  BY <1>2, GrownRefs DEF Deliverable
<1>3. CASE refs'[r] = refs[r] /\ DecisionOpens(r)
  <2>1. RunMoves(r)
    BY <1>3, StartedRun DEF Evolves, DecisionOpens, IInv
  <2>2. /\ decision'[r].epoch <= run'[r].epoch /\ run'[r].status \notin Executing
    BY <1>3, <2>1 DEF DecisionOpens, RunMoves, Executing, IInv, TypeOK, RunRecord
  <2>3. PICK k : k = decision'[r].ref
    OBVIOUS
  <2>4. ASSUME NEW i \in DOMAIN refs[r], i > k
        PROVE  FALSE
    <3>1. /\ k \in DOMAIN refs[r] /\ i \in Nat /\ k \in Nat
          /\ refs[r][i] \in Nat /\ refs[r][k] \in Nat
      BY <1>3, <2>3 DEF DecisionOpens, IsLatestRef, IInv, TypeOK
    <3>2. refs[r][k] <= refs[r][i]
      BY <2>4, <3>1 DEF InEpochOrder
    <3>3. refs[r][i] < refs[r][k] \/ i <= k
      BY <1>3, <2>3 DEF DecisionOpens, IsLatestRef
    <3> QED BY <2>4, <3>1, <3>2, <3>3
  <2> QED BY <1>3, <2>2, <2>3, <2>4 DEF Deliverable, DecisionOpens, IsLatestRef
<1>4. CASE refs'[r] = refs[r] /\ DecisionSettles(r)
  <2>1. RunMoves(r)
    BY <1>4, StartedRun DEF Evolves, DecisionSettles, FreshIsEmpty, IInv
  <2>2. decision'[r].epoch <= run'[r].epoch
        /\ (run'[r].status \in Executing => decision'[r].epoch < run'[r].epoch)
    BY <1>4, <2>1 DEF DecisionSettles, Deliverable, RunMoves, IInv, TypeOK, RunRecord,
                      DecisionRecord
  <2> QED BY <1>4, <2>2 DEF DecisionSettles, Deliverable
<1> QED BY <1>1, <1>2, <1>3, <1>4 DEF Evolves, RefsGrow, DecisionMoves, DecisionOpens

\* The version of a task never falls, and a task does not disappear.
LEMMA VersionsGrow ==
    ASSUME TypeOK, Evolves, NEW t \in Tasks, task[t].status # "absent"
    PROVE  /\ task'[t].status # "absent"
           /\ task[t].version \in Nat /\ task'[t].version \in Nat
           /\ task[t].version <= task'[t].version
BY DEF Evolves, TaskSteps, TaskRests, TaskMoves, TaskStarts, TypeOK, TaskRecord

\* The row of a run that starts.
LEMMA StartedRow ==
    ASSUME IInv, NEW r \in Runs, RunStarts(r)
    PROVE  \E t \in Tasks, v \in Nat :
              /\ run'[r].task = t /\ run'[r].birth = v /\ task'[t].status # "absent"
              /\ \/ task[t].status = "absent" /\ v = 0
                 \/ task[t].status # "absent" /\ v = task[t].version /\ task'[t].version = v + 1
<1>1. PICK t \in Tasks, v \in Nat :
         /\ run' = [run EXCEPT ![r] = QueuedRun(t, v)] /\ task'[t].status # "absent"
         /\ \/ task[t].status = "absent" /\ v = 0
            \/ task[t].status # "absent" /\ v = task[t].version /\ task'[t].version = v + 1
  BY DEF RunStarts
<1>2. run'[r] = QueuedRun(t, v)
  BY <1>1 DEF IInv, TypeOK
<1>3. run'[r].task = t /\ run'[r].birth = v
  BY <1>2, QueuedRunFields
<1> QED BY <1>1, <1>3

LEMMA BornStep ==
    ASSUME IInv, IInv', Evolves, NEW r \in Runs, BornInThePast(r)
    PROVE  BornInThePast(r)'
<1>1. CASE RunStarts(r)
  <2>1. PICK t \in Tasks, v \in Nat :
           /\ run'[r].task = t /\ run'[r].birth = v /\ task'[t].status # "absent"
           /\ \/ task[t].status = "absent" /\ v = 0
              \/ task[t].status # "absent" /\ v = task[t].version /\ task'[t].version = v + 1
    BY <1>1, StartedRow
  <2> QED BY <2>1 DEF BornInThePast
<1>2. CASE RunMoves(r)
  <2>1. run'[r].task = run[r].task /\ run'[r].birth = run[r].birth
    BY <1>2 DEF RunMoves
  <2>2. run[r].birth \in Nat /\ run[r].task \in Tasks \cup {NoTask}
    BY DEF IInv, TypeOK, RunRecord
  <2> QED BY <2>1, <2>2, VersionsGrow DEF BornInThePast, IInv
<1> QED BY <1>1, <1>2 DEF Evolves

LEMMA RequestsStep ==
    ASSUME IInv, IInv', Evolves, \A r \in Runs : BornInThePast(r), OneRunPerRetryRequest
    PROVE  OneRunPerRetryRequest'
<1>1. ASSUME NEW r \in Runs, NEW q \in Runs, r # q, RunStarts(r),
             run'[r].task = run'[q].task
      PROVE  run'[r].birth # run'[q].birth \/ run'[r].birth = 0 \/ run'[q].birth = 0
  <2>1. PICK t \in Tasks, v \in Nat :
           /\ run'[r].task = t /\ run'[r].birth = v /\ task'[t].status # "absent"
           /\ \/ task[t].status = "absent" /\ v = 0
              \/ task[t].status # "absent" /\ v = task[t].version /\ task'[t].version = v + 1
    BY <1>1, StartedRow
  <2>2. run'[q] = run[q]
    BY <1>1, StartedRun DEF IInv
  <2>3. run[q].task = t /\ t # NoTask
    BY <1>1, <2>1, <2>2, ConstantsAssumption
  <2>4. run[q].birth = 0 \/ run[q].birth < task[t].version
    BY <2>3 DEF BornInThePast
  <2>5. run[q].birth \in Nat /\ task[t].version \in Nat
    BY DEF IInv, TypeOK, RunRecord, TaskRecord
  <2> QED BY <2>1, <2>2, <2>4, <2>5
<1>2. ASSUME NEW r \in Runs, NEW q \in Runs, RunMoves(r), RunMoves(q)
      PROVE  /\ run'[r].task = run[r].task /\ run'[r].birth = run[r].birth
             /\ run'[q].task = run[q].task /\ run'[q].birth = run[q].birth
  BY <1>2 DEF RunMoves
<1>3. ASSUME NEW r \in Runs, NEW q \in Runs, r # q,
             run'[r].task # NoTask, run'[r].task = run'[q].task
      PROVE  run'[r].birth # run'[q].birth \/ run'[r].birth = 0 \/ run'[q].birth = 0
  <2>1. CASE RunStarts(r)
    BY <1>1, <1>3, <2>1
  <2>2. CASE RunStarts(q)
    BY <1>1, <1>3, <2>2
  <2>3. CASE RunMoves(r) /\ RunMoves(q)
    BY <1>2, <1>3, <2>3 DEF OneRunPerRetryRequest
  <2> QED BY <2>1, <2>2, <2>3 DEF Evolves
<1> QED BY <1>3 DEF OneRunPerRetryRequest

LEMMA LogStep ==
    ASSUME IInv, IInv', Evolves, NEW t \in Tasks, LogTells(t)
    PROVE  LogTells(t)'
<1>1. CASE TaskRests(t)
  BY <1>1 DEF TaskRests, LogTells
<1>2. CASE TaskStarts(t)
  BY <1>2 DEF TaskStarts, LogTells
<1>3. ASSUME NEW k \in Nat, TaskMoves(t, k)
      PROVE  LogTells(t)'
  <2>1. task[t].version \in Nat
    BY DEF IInv, TypeOK, TaskRecord
  <2> QED BY <1>3, <2>1 DEF TaskMoves, LogTells
<1> QED BY <1>1, <1>2, <1>3 DEF Evolves, TaskSteps

LEMMA IHistStep ==
    ASSUME IInv, IHist, [Next]_vars
    PROVE  IHist'
<1>1. IInv' /\ Evolves
  BY IInvStep, StepEvolves
<1>2. \A r \in Runs : (FreshIsEmpty(r) /\ InEpochOrder(r) /\ Deliverable(r) /\ BornInThePast(r))'
  BY <1>1, FreshStep, OrderStep, DeliverableStep, BornStep DEF IHist
<1>3. OneRunPerRetryRequest'
  BY <1>1, RequestsStep DEF IHist
<1>4. \A t \in Tasks : LogTells(t)'
  BY <1>1, LogStep DEF IHist
<1> QED BY <1>2, <1>3, <1>4 DEF IHist

-----------------------------------------------------------------------------
(***************************************************************************)
(* Theorems.                                                               *)
(***************************************************************************)

\* No sequence of transactions leaves what IHist says of the rows' past.
THEOREM HistoryInvariant == Spec => [](IInv /\ IHist)
<1> QED BY IInvInit, IInvStep, IHistInit, IHistStep, PTL DEF Spec

\* Checkpoint references are accepted in the order of the epochs.
THEOREM ReferencesInOrder == Spec => []RefsInEpochOrder
<1>1. IHist => RefsInEpochOrder
  BY DEF IHist, InEpochOrder, RefsInEpochOrder
<1> QED BY <1>1, HistoryInvariant, PTL

\* The answer to a decision stays where a resume of the run finds it.
THEOREM AnswersReachTheRun == Spec => []AnswerStaysDeliverable
<1>1. IHist => AnswerStaysDeliverable
  BY DEF IHist, Deliverable, AnswerStaysDeliverable
<1> QED BY <1>1, HistoryInvariant, PTL

\* A retry request that is delivered again creates no second run.
THEOREM RetriesAreIdempotent == Spec => []OneRunPerRetryRequest
<1>1. IHist => OneRunPerRetryRequest
  BY DEF IHist
<1> QED BY <1>1, HistoryInvariant, PTL

\* The event log has one event per version of a task and ends with its status.
THEOREM LogTellsTheTables == Spec => []EventLogAgrees
<1>1. IHist => EventLogAgrees
  BY DEF IHist, LogTells, EventLogAgrees
<1> QED BY <1>1, HistoryInvariant, PTL

\* A run asks once, and its first settled answer stands.
THEOREM AnswersStand == Spec => DecisionSettlesOnce
<1>1. ASSUME IInv, [Next]_vars, NEW r \in Runs
      PROVE  /\ decision[r].status # "none" => decision'[r].status # "none"
                                                /\ decision'[r].ref = decision[r].ref
             /\ decision[r].status \in {"resolved", "cancelled", "expired"} =>
                  decision'[r] = decision[r]
  BY <1>1, StepEvolves DEF Evolves, DecisionMoves, DecisionOpens, DecisionSettles
<1>2. IInv /\ [Next]_vars =>
        [\A r \in Runs :
           /\ decision[r].status # "none" => decision'[r].status # "none"
                                             /\ decision'[r].ref = decision[r].ref
           /\ decision[r].status \in {"resolved", "cancelled", "expired"} =>
                decision'[r] = decision[r]]_vars
  BY <1>1
<1> QED BY <1>2, InductiveInvariant, PTL DEF Spec, DecisionSettlesOnce

-----------------------------------------------------------------------------
(***************************************************************************)
(* TaskRuns implements TaskLifecycle: every transaction is a step of the   *)
(* lifecycle the users are promised, or a stutter.  That nothing overtakes *)
(* a cancellation or a deadline follows from the same steps.               *)
(***************************************************************************)
(***************************************************************************)
(* A step of the tables as the lifecycle sees it.                          *)
(***************************************************************************)

Edges == Contract!SameRun \cup Contract!Recovery

Rests(t) == task'[t].status = task[t].status /\ task'[t].run = task[t].run

Advances(t) ==
    /\ <<task[t].status, task'[t].status>> \in Edges
    /\ task'[t].status # task[t].status /\ task'[t].run = task[t].run

Begins(t) ==
    /\ \/ task[t].status = "absent" /\ task'[t].status = "queued"
       \/ <<task[t].status, task'[t].status>> \in Contract!NewRun
    /\ task'[t].run \in Runs /\ run[task'[t].run].task = NoTask
    /\ run'[task'[t].run].task = t
    /\ \A q \in Runs \ {task'[t].run} : run'[q].task = run[q].task

\* Every task rests, advances or begins an attempt; attempts are used up by the
\* tasks that begin one; results are those of the tasks that succeed now.
Progresses ==
    /\ \A t \in Tasks : Rests(t) \/ Advances(t) \/ Begins(t)
    /\ \/ \A r \in Runs : run'[r].task = run[r].task
       \/ \E t \in Tasks : Begins(t)
    /\ (\A r \in Runs : run'[r].task = run[r].task) =>
         \A t \in Tasks : task'[t].run = task[t].run
    /\ \/ /\ results' = results
          /\ \A t \in Tasks : ~Rests(t) => task'[t].status \notin Successful
       \/ \E t \in Tasks :
            /\ Advances(t) /\ task'[t].status \in Successful
            /\ \A u \in Tasks \ {t} : Rests(u)
            /\ results' = results \cup {task[t].run}
            /\ now < run[task[t].run].deadline

-----------------------------------------------------------------------------
(***************************************************************************)
(* Every transaction is such a step.                                       *)
(***************************************************************************)

\* The transactions that move a latest run and its task along an edge.
LEMMA MoveProgresses ==
    ASSUME IInv, NEW r \in Runs, NEW s, JointMove(r, s),
           <<run[r].status, s>> \in Edges, s # run[r].status,
           \/ s \notin Successful /\ results' = results
           \/ s \in Successful /\ results' = results \cup {r} /\ now < run[r].deadline
    PROVE  Progresses
<1>1. PICK t \in Tasks : /\ t = run[r].task /\ task[t].run = r /\ task[t].status = run[r].status
  BY LatestAgrees DEF JointMove
<1>2. /\ task'[t].status = s /\ task'[t].run = r /\ run'[r].task = t
      /\ \A u \in Tasks \ {t} : task'[u] = task[u]
      /\ \A q \in Runs \ {r} : run'[q] = run[q]
  BY <1>1 DEF JointMove
<1>3. Advances(t)
  BY <1>1, <1>2 DEF Advances
<1>4. \A u \in Tasks \ {t} : Rests(u)
  BY <1>2 DEF Rests
<1>5. \A q \in Runs : run'[q].task = run[q].task
  BY <1>1, <1>2
<1>6. \A u \in Tasks : task'[u].run = task[u].run
  BY <1>1, <1>2
<1>7. \/ /\ results' = results
         /\ \A u \in Tasks : ~Rests(u) => task'[u].status \notin Successful
      \/ /\ Advances(t) /\ task'[t].status \in Successful
         /\ \A u \in Tasks \ {t} : Rests(u)
         /\ results' = results \cup {task[t].run}
         /\ now < run[task[t].run].deadline
  BY <1>1, <1>2, <1>3, <1>4
<1> QED BY <1>3, <1>4, <1>5, <1>6, <1>7 DEF Progresses

\* The transactions that insert a run.
LEMMA StartProgresses ==
    ASSUME IInv, NEW t \in Tasks, NEW r \in Runs, NEW v,
           task[t].status \in Retryable \cup {"absent"}, run[r].status = "absent",
           run' = [run EXCEPT ![r] = QueuedRun(t, v)],
           task'[t].status = "queued", task'[t].run = r,
           \A u \in Tasks \ {t} : task'[u] = task[u], UNCHANGED results
    PROVE  Progresses
<1>1. run[r].task = NoTask
  BY DEF IInv, RowsNameTasks
<1>2. run'[r].task = t /\ \A q \in Runs \ {r} : run'[q] = run[q]
  BY QueuedRunFields DEF IInv, TypeOK
<1>3. Begins(t)
  BY <1>1, <1>2 DEF Begins, Retryable, Contract!NewRun
<1>4. \A u \in Tasks \ {t} : Rests(u)
  BY DEF Rests
<1>5. t # NoTask
  BY ConstantsAssumption
<1> QED BY <1>1, <1>2, <1>3, <1>4, <1>5 DEF Progresses, Successful

\* The transactions that move no task, name no run and publish nothing.
LEMMA QuietProgresses ==
    ASSUME UNCHANGED <<task, results>>, \A r \in Runs : run'[r].task = run[r].task
    PROVE  Progresses
BY DEF Progresses, Rests

LEMMA CreateProgresses ==
    ASSUME IInv, NEW t \in Tasks, NEW r \in Runs, CreateTask(t, r)
    PROVE  Progresses
<1>1. /\ task[t].status = "absent" /\ run[r].status = "absent"
      /\ run' = [run EXCEPT ![r] = QueuedRun(t, 0)] /\ UNCHANGED results
      /\ task' = [task EXCEPT ![t] = [status |-> "queued", run |-> r,
                                      cancel |-> FALSE, version |-> 0]]
  BY DEF CreateTask
<1>2. /\ task'[t].status = "queued" /\ task'[t].run = r
      /\ \A u \in Tasks \ {t} : task'[u] = task[u]
  BY <1>1 DEF IInv, TypeOK
<1> QED BY <1>1, <1>2, StartProgresses

LEMMA RetryProgresses ==
    ASSUME IInv, NEW t \in Tasks, NEW r \in Runs, NEW v, RetryWithRun(t, r, v)
    PROVE  Progresses
<1>1. /\ task[t].status \in Retryable /\ run[r].status = "absent"
      /\ run' = [run EXCEPT ![r] = QueuedRun(t, v)] /\ UNCHANGED results
      /\ task' = [task EXCEPT ![t] = [Moved(@, "queued", FALSE) EXCEPT !.run = r]]
  BY DEF RetryWithRun
<1>2. /\ task'[t].status = "queued" /\ task'[t].run = r
      /\ \A u \in Tasks \ {t} : task'[u] = task[u]
  <2>1. task[t] \in TaskRecord
    BY DEF IInv, TypeOK
  <2>2. PICK n : n = task[t].version + 1
    OBVIOUS
  <2>3. Moved(task[t], "queued", FALSE) = [task[t] EXCEPT !.status = "queued", !.cancel = FALSE,
                                                          !.version = n]
    BY <2>2 DEF Moved
  <2> QED BY <1>1, <2>1, <2>3 DEF IInv, TypeOK, TaskRecord
<1> QED BY <1>1, <1>2, StartProgresses

LEMMA CancelProgresses ==
    ASSUME IInv, NEW t \in Tasks, CancelTask(t)
    PROVE  Progresses
<1> DEFINE r == task[t].run
           target == IF task[t].status = "running" THEN "cancelling" ELSE "cancelled"
<1>1. r \in Runs /\ IsLatest(r) /\ run[r].task = t /\ run[r].status = task[t].status
  BY TaskHasLatest DEF CancelTask, Cancellable
<1>2. /\ task'[t].status = target /\ task'[t].run = r
      /\ \A u \in Tasks \ {t} : task'[u] = task[u]
  BY MoveTaskFields DEF CancelTask, IInv
<1>3. /\ run'[r].status = target /\ run'[r].task = t
      /\ \A q \in Runs \ {r} : run'[q] = run[q]
  <2>1. CASE target = "cancelling"
    <3>1. run' = [run EXCEPT ![r].status = "cancelling"]
      BY <2>1 DEF CancelTask
    <3> QED BY <1>1, <2>1, <3>1 DEF IInv, TypeOK, RunRecord
  <2>2. CASE target # "cancelling"
    BY <1>1, <2>2, ReleaseRunFields DEF CancelTask, IInv
  <2> QED BY <2>1, <2>2
<1>4. JointMove(r, target)
  BY <1>1, <1>2, <1>3 DEF JointMove, Statuses, Terminal, Executing
<1>5. <<run[r].status, target>> \in Edges /\ target # run[r].status
      /\ target \notin Successful /\ results' = results
  BY <1>1 DEF CancelTask, Cancellable, Edges, Contract!SameRun, Contract!Recovery, Successful
<1> HIDE DEF r, target
<1> QED BY <1>1, <1>4, <1>5, MoveProgresses

\* The transactions that release the latest run of a task without a result.
LEMMA ReleaseProgresses ==
    ASSUME IInv, NEW r \in Runs, NEW s \in Statuses, NEW c \in BOOLEAN, IsLatest(r),
           ReleaseRun(r, s), MoveTask(run[r].task, s, c), UNCHANGED results,
           <<run[r].status, s>> \in Edges, s # run[r].status, s \notin Successful
    PROVE  Progresses
BY ReleaseAndMoveIsJoint, MoveProgresses

LEMMA ResumeProgresses ==
    ASSUME IInv, NEW t \in Tasks, NEW v, ResumeInterrupted(t, v)
    PROVE  Progresses
<1> DEFINE r == task[t].run
<1>1. r \in Runs /\ IsLatest(r) /\ run[r].task = t /\ run[r].status = "interrupted"
  BY TaskHasLatest DEF ResumeInterrupted
<1>2. ReleaseRun(r, "queued") /\ MoveTask(run[r].task, "queued", FALSE) /\ UNCHANGED results
  BY <1>1 DEF ResumeInterrupted
<1>3. <<run[r].status, "queued">> \in Edges /\ "queued" # run[r].status
      /\ "queued" \in Statuses /\ "queued" \notin Successful /\ FALSE \in BOOLEAN
  BY <1>1 DEF Edges, Contract!SameRun, Statuses, Successful
<1> HIDE DEF r
<1> QED BY <1>1, <1>2, <1>3, ReleaseProgresses

LEMMA AcquireProgresses ==
    ASSUME IInv, NEW r \in Runs, NEW o \in Owners, AcquireLease(r, o)
    PROVE  Progresses
<1>1. PICK t \in Tasks : /\ t = run[r].task /\ task[t].run = r /\ task[t].cancel \in BOOLEAN
  BY LatestAgrees DEF AcquireLease, IInv, TypeOK, TaskRecord
<1>2. /\ IsLatest(r) /\ run[r].status = "queued" /\ UNCHANGED results
      /\ run' = [run EXCEPT ![r] = Leased(@, o)]
      /\ MoveTask(t, "running", task[t].cancel)
  BY <1>1 DEF AcquireLease
<1>3. /\ task'[t].status = "running" /\ task'[t].run = r
      /\ \A u \in Tasks \ {t} : task'[u] = task[u]
  BY <1>1, <1>2, MoveTaskFields DEF IInv
<1>4. /\ run'[r] = Leased(run[r], o) /\ \A q \in Runs \ {r} : run'[q] = run[q]
  BY <1>2 DEF IInv, TypeOK
<1>5. run'[r].status = "running" /\ run'[r].task = t
  <2> DEFINE lease == now + LeaseTTL
             deadline == now + RunTimeout
             epoch == run[r].epoch + 1
  <2>1. run'[r] = [run[r] EXCEPT !.status = "running", !.owner = o, !.epoch = epoch,
                                 !.lease = lease, !.deadline = deadline]
    BY <1>4 DEF Leased
  <2> HIDE DEF lease, deadline, epoch
  <2> QED BY <1>1, <2>1 DEF IInv, TypeOK, RunRecord
<1>6. JointMove(r, "running")
  BY <1>1, <1>2, <1>3, <1>4, <1>5 DEF JointMove, Statuses, Executing
<1>7. <<run[r].status, "running">> \in Edges /\ "running" # run[r].status
      /\ "running" \notin Successful
  BY <1>2 DEF Edges, Contract!SameRun, Successful
<1> QED BY <1>2, <1>6, <1>7, MoveProgresses

LEMMA PauseProgresses ==
    ASSUME IInv, NEW r \in Runs, NEW o, NEW e, NEW i, PauseForDecision(r, o, e, i)
    PROVE  Progresses
<1>1. /\ IsLatest(r) /\ run[r].status = "running" /\ UNCHANGED results
      /\ ReleaseRun(r, "waiting_for_input")
      /\ MoveTask(run[r].task, "waiting_for_input", task[run[r].task].cancel)
  BY DEF PauseForDecision
<1>2. task[run[r].task].cancel \in BOOLEAN
  BY <1>1, LatestHasTask DEF IInv, TypeOK, TaskRecord
<1>3. <<run[r].status, "waiting_for_input">> \in Edges /\ "waiting_for_input" # run[r].status
      /\ "waiting_for_input" \in Statuses /\ "waiting_for_input" \notin Successful
  BY <1>1 DEF Edges, Contract!SameRun, Statuses, Successful
<1> QED BY <1>1, <1>2, <1>3, ReleaseProgresses

\* A cancellation that was requested settles the run as cancelled, a deadline
\* that has passed as timed out; neither publishes.
LEMMA FinalizeProgresses ==
    ASSUME IInv, NEW r \in Runs, NEW o, NEW e, NEW s \in Outcomes, Finalize(r, o, e, s)
    PROVE  Progresses
<1> DEFINE final == FinalStatus(r, s)
<1>1. PICK t \in Tasks :
         /\ t = run[r].task /\ task[t].run = r /\ task[t].status = run[r].status
         /\ task[t].cancel <=> run[r].status = "cancelling"
         /\ task[t].cancel \in BOOLEAN
  BY LatestAgrees DEF Finalize, Fenced, Executing, IInv, TypeOK, TaskRecord
<1>2. /\ IsLatest(r) /\ run[r].status \in Executing
      /\ run' = [run EXCEPT ![r] = FinalRow(@, final)] /\ MoveTask(t, final, task[t].cancel)
      /\ results' = Published(r, s)
  BY <1>1 DEF Finalize, Fenced
<1>3. /\ run[r].status = "cancelling" => final = "cancelled"
      /\ run[r].status = "running" => final = IF DeadlinePassed(r) THEN "timed_out" ELSE s
  BY <1>1, <1>2 DEF FinalStatus, CancelRequested, Executing
<1>4. /\ final \in Statuses /\ <<run[r].status, final>> \in Edges /\ final # run[r].status
  BY <1>2, <1>3 DEF Outcomes, Statuses, Terminal, Successful, Executing, Edges, Contract!SameRun,
                    Contract!Successes
<1>5. /\ task'[t].status = final /\ task'[t].run = r
      /\ \A u \in Tasks \ {t} : task'[u] = task[u]
  BY <1>1, <1>2, MoveTaskFields DEF IInv
<1>6. /\ run'[r] = FinalRow(run[r], final) /\ \A q \in Runs \ {r} : run'[q] = run[q]
  BY <1>2 DEF IInv, TypeOK
<1>7. run'[r].status = final /\ run'[r].task = t
  BY <1>1, <1>6 DEF FinalRow, Released, IInv, TypeOK, RunRecord
<1>8. JointMove(r, final)
  BY <1>1, <1>2, <1>4, <1>5, <1>6, <1>7 DEF JointMove
<1>9. \/ final \notin Successful /\ results' = results
      \/ final \in Successful /\ results' = results \cup {r} /\ now < run[r].deadline
  <2>1. CASE final \notin Successful
    BY <1>2, <2>1 DEF Published
  <2>2. CASE final \in Successful
    <3>1. run[r].status = "running" /\ ~DeadlinePassed(r) /\ final = s
      BY <1>2, <1>3, <2>2 DEF Executing, Successful
    <3>2. now < run[r].deadline
      BY <1>2, <3>1 DEF DeadlinePassed, IInv, LeaseMatchesStatus, TypeOK, RunRecord
    <3> QED BY <1>2, <2>2, <3>1, <3>2 DEF Published
  <2> QED BY <2>1, <2>2
<1> HIDE DEF final
<1> QED BY <1>4, <1>8, <1>9, MoveProgresses

LEMMA ResolveProgresses ==
    ASSUME IInv, NEW r \in Runs, NEW body \in Bodies, NEW v, ResolveDecision(r, body, v)
    PROVE  Progresses
<1>1. PICK s : s = IF body = "cancel" THEN "cancelled" ELSE "queued"
  OBVIOUS
<1>2. /\ IsLatest(r) /\ run[r].status = "waiting_for_input" /\ UNCHANGED results
      /\ ReleaseRun(r, s) /\ MoveTask(run[r].task, s, body = "cancel")
  BY <1>1 DEF ResolveDecision, Gates
<1>3. /\ <<run[r].status, s>> \in Edges /\ s # run[r].status /\ s \in Statuses
      /\ s \notin Successful
  BY <1>1, <1>2 DEF Edges, Contract!SameRun, Statuses, Terminal, Successful
<1>4. (body = "cancel") \in BOOLEAN
  OBVIOUS
<1> QED BY <1>2, <1>3, <1>4, ReleaseProgresses

LEMMA ExpireProgresses ==
    ASSUME IInv, NEW r \in Runs, ExpireDecision(r)
    PROVE  Progresses
<1>1. CASE Gates(r)
  <2>1. /\ IsLatest(r) /\ run[r].status = "waiting_for_input" /\ UNCHANGED results
        /\ ReleaseRun(r, "cancelled") /\ MoveTask(run[r].task, "cancelled", TRUE)
    BY <1>1 DEF ExpireDecision, Gates
  <2>2. <<run[r].status, "cancelled">> \in Edges /\ "cancelled" # run[r].status
        /\ "cancelled" \in Statuses /\ "cancelled" \notin Successful /\ TRUE \in BOOLEAN
    BY <2>1 DEF Edges, Contract!SameRun, Statuses, Terminal, Successful
  <2> QED BY <2>1, <2>2, ReleaseProgresses
<1>2. CASE ~Gates(r)
  BY <1>2, QuietProgresses DEF ExpireDecision
<1> QED BY <1>1, <1>2

\* One recovery moves many tasks, each along an edge.
LEMMA RecoverProgresses ==
    ASSUME IInv, RecoverRuns
    PROVE  Progresses
<1>1. \A q \in Runs : run'[q].task = run[q].task
  BY RecoveryWrites
<1>2. ASSUME NEW t \in Tasks
      PROVE  /\ task'[t].run = task[t].run
             /\ Rests(t) \/ (Advances(t) /\ task'[t].status \notin Successful)
  <2> DEFINE r == task[t].run
  <2>1. task'[t] = RecoveredTask(t)
    BY DEF RecoverRuns
  <2>2. CASE r = NoRun \/ RecoverySteps(r) = 0
    BY <2>1, <2>2 DEF RecoveredTask, Rests
  <2>3. CASE r # NoRun /\ RecoverySteps(r) # 0
    <3>1. r \in Runs /\ IsLatest(r) /\ run[r].status = task[t].status /\ run[r].task = t
          /\ task[t] \in TaskRecord
      BY <2>3, TaskHasLatest DEF IInv, TypeOK, TaskRecord, TaskMirrorsRun
    <3>2. task'[t].status = RecoveredStatus(r) /\ task'[t].run = r
      <4>1. PICK version : version = task[t].version + RecoverySteps(r)
        OBVIOUS
      <4>2. task'[t] = [task[t] EXCEPT !.status = RecoveredStatus(r),
                                       !.cancel = IF ExpiresNow(r) THEN TRUE ELSE @,
                                       !.version = version]
        BY <2>1, <2>3, <4>1 DEF RecoveredTask
      <4> QED BY <3>1, <4>2 DEF TaskRecord
    <3>3. task[t].cancel <=> run[r].status \in {"cancelling", "cancelled"}
      BY <3>1 DEF IInv, CancelFlagMatchesStatus
    <3>4. CASE ExpiresNow(r)
      <4>1. run[r].status = "waiting_for_input" /\ RecoveredStatus(r) = "cancelled"
        BY <3>4 DEF ExpiresNow, Gates, RecoveredStatus, AutoResumed, SettledStatus
      <4> QED BY <3>1, <3>2, <4>1 DEF Advances, Edges, Contract!SameRun, Successful
    <3>5. CASE ~ExpiresNow(r) /\ Orphaned(r)
      <4>1. run[r].status = "cancelling" => RecoveredStatus(r) = "cancelled"
        BY <3>5 DEF RecoveredStatus, AutoResumed, SettledStatus, OrphanStatus, CancelRequested
      <4>2. run[r].status = "running" =>
              RecoveredStatus(r) \in {"timed_out", "interrupted", "queued"}
        BY <3>1, <3>3, <3>5 DEF RecoveredStatus, AutoResumed, SettledStatus, OrphanStatus,
                                CancelRequested
      <4>3. run[r].status \in Executing
        BY <3>5 DEF Orphaned
      <4> QED BY <3>1, <3>2, <4>1, <4>2, <4>3
              DEF Advances, Edges, Contract!SameRun, Contract!Recovery, Successful, Executing
    <3>6. CASE ~ExpiresNow(r) /\ ~Orphaned(r)
      <4>1. run[r].status = "interrupted" /\ RecoveredStatus(r) = "queued"
        BY <2>3, <3>6 DEF RecoverySteps, RecoveredStatus, AutoResumed, SettledStatus
      <4> QED BY <3>1, <3>2, <4>1 DEF Advances, Edges, Contract!SameRun, Successful
    <3> QED BY <3>2, <3>4, <3>5, <3>6
  <2> QED BY <2>2, <2>3 DEF Rests
<1>3. results' = results
  BY DEF RecoverRuns
<1> QED BY <1>1, <1>2, <1>3 DEF Progresses

LEMMA StepProgresses ==
    ASSUME IInv, [Next]_vars
    PROVE  Progresses
<1>1. CASE DeployWorkflow
  <2>1. \A r \in Runs : run'[r].task = run[r].task
    BY <1>1 DEF DeployWorkflow, IInv, TypeOK, RunRecord
  <2> QED BY <1>1, <2>1, QuietProgresses DEF DeployWorkflow
<1>2. CASE Tick \/ UNCHANGED vars
  BY <1>2, QuietProgresses DEF Tick, vars
<1>3. CASE UserNext
  BY <1>3, CreateProgresses, RetryProgresses, CancelProgresses, ResumeProgresses,
     ExpireProgresses, ResolveProgresses DEF UserNext
<1>4. ASSUME NEW r \in Runs, NEW o, NEW e, Heartbeat(r, o, e) \/ AddCheckpointRef(r, o, e)
      PROVE  Progresses
  <2>1. \A q \in Runs : run'[q].task = run[q].task
    <3>1. PICK lease : lease = now + LeaseTTL
      OBVIOUS
    <3>2. CASE Heartbeat(r, o, e)
      <4>1. run' = [run EXCEPT ![r].lease = lease]
        BY <3>1, <3>2 DEF Heartbeat
      <4> QED BY <4>1 DEF IInv, TypeOK, RunRecord
    <3>3. CASE AddCheckpointRef(r, o, e)
      BY <3>3 DEF AddCheckpointRef
    <3> QED BY <1>4, <3>2, <3>3
  <2> QED BY <1>4, <2>1, QuietProgresses DEF Heartbeat, AddCheckpointRef
<1>5. CASE WorkerNext
  BY <1>4, <1>5, AcquireProgresses, PauseProgresses, FinalizeProgresses DEF WorkerNext
<1> QED BY <1>1, <1>2, <1>3, <1>5, RecoverProgresses DEF Next

-----------------------------------------------------------------------------
(***************************************************************************)
(* Theorems.                                                               *)
(***************************************************************************)

\* A step of the tables is a step of the lifecycle.
LEMMA ProgressIsContract ==
    ASSUME IInv, Progresses
    PROVE  Contract!Next
<1> DEFINE st == [t \in Tasks |-> task[t].status]
           la == [t \in Tasks |-> task[t].run]
           us == {r \in Runs : run[r].task # NoTask}
<1>1. \A t \in Tasks : st[t] = task[t].status /\ la[t] = task[t].run
                       /\ st'[t] = task'[t].status /\ la'[t] = task'[t].run
  OBVIOUS
<1>2. st' \in [Tasks -> {st'[t] : t \in Tasks}] /\ la' \in [Tasks -> {la'[t] : t \in Tasks}]
  OBVIOUS
<1>3. \A t \in Tasks : \/ st'[t] = st[t] /\ la'[t] = la[t]
                       \/ <<st[t], st'[t]>> \in Edges /\ la'[t] = la[t]
                       \/ /\ \/ st[t] = "absent" /\ st'[t] = "queued"
                             \/ <<st[t], st'[t]>> \in Contract!NewRun
                          /\ la'[t] \in Runs \ us
  BY <1>1 DEF Progresses, Rests, Advances, Begins
<1>4. us' = us \cup {la'[t] : t \in {u \in Tasks : la'[u] # la[u]}}
  <2>1. CASE \A r \in Runs : run'[r].task = run[r].task
    BY <1>1, <2>1 DEF Progresses
  <2>2. CASE \E t \in Tasks : Begins(t)
    <3>1. PICK t \in Tasks : Begins(t)
      BY <2>2
    <3>2. PICK r \in Runs : r = la'[t]
      BY <1>1, <3>1 DEF Begins
    <3>3. us' = us \cup {r}
      BY <1>1, <3>1, <3>2, ConstantsAssumption DEF Begins
    <3>4. la[t] # r
      BY <1>1, <3>1, <3>2, ConstantsAssumption DEF Begins, IInv, TaskMirrorsRun
    <3>5. ASSUME NEW u \in Tasks, la'[u] # la[u]
          PROVE  la'[u] = r
      <4>1. Begins(u)
        BY <1>1, <3>5 DEF Progresses, Rests, Advances
      <4> QED BY <1>1, <3>1, <3>2, <4>1, ConstantsAssumption DEF Begins
    <3> QED BY <3>2, <3>3, <3>4, <3>5
  <2> QED BY <2>1, <2>2 DEF Progresses
<1>5. results' = results \cup {la[t] : t \in {u \in Tasks : st'[u] # st[u]
                                                       /\ st'[u] \in Contract!Successes}}
  <2>1. CASE /\ results' = results
             /\ \A t \in Tasks : ~Rests(t) => task'[t].status \notin Successful
    BY <1>1, <2>1 DEF Rests, Successful, Contract!Successes
  <2>2. CASE \E t \in Tasks :
               /\ Advances(t) /\ task'[t].status \in Successful
               /\ \A u \in Tasks \ {t} : Rests(u)
               /\ results' = results \cup {task[t].run}
    BY <1>1, <2>2 DEF Advances, Rests, Successful, Contract!Successes
  <2> QED BY <2>1, <2>2 DEF Progresses
<1> QED BY <1>2, <1>3, <1>4, <1>5
        DEF Contract!Next, Contract!Stays, Contract!Moves, Contract!StartsAttempt, Edges

\* Every behaviour of the tables is a behaviour of the public lifecycle.
THEOREM TablesImplementLifecycle == Spec => ImplementsLifecycle
<1>1. Init => Contract!Init
  BY DEF Init, Contract!Init, NoRunYet
<1>2. IInv /\ [Next]_vars => [Contract!Next]_(Contract!absvars)
  BY StepProgresses, ProgressIsContract
<1> QED BY <1>1, <1>2, InductiveInvariant, PTL DEF Spec, ImplementsLifecycle, Contract!Spec

\* What happens first decides: a requested cancellation is carried out and
\* publishes nothing, and no result is published past its deadline.
THEOREM FirstCauseDecides == Spec => FirstCauseWins
<1>1. ASSUME IInv, Progresses, NEW t \in Tasks, task[t].cancel
      PROVE  /\ task'[t].status \in {"cancelling", "cancelled"}
             /\ task'[t].run = task[t].run
             /\ task[t].run \in results' => task[t].run \in results
  <2>1. task[t].status \in {"cancelling", "cancelled"}
    BY <1>1 DEF IInv, CancelFlagMatchesStatus
  <2>2. ~Begins(t)
    BY <2>1 DEF Begins, Contract!NewRun
  <2>3. task'[t].status \in {"cancelling", "cancelled"} /\ task'[t].run = task[t].run
    BY <1>1, <2>1, <2>2 DEF Progresses, Rests, Advances, Edges, Contract!SameRun,
                            Contract!Recovery
  <2>4. ASSUME NEW u \in Tasks, Advances(u), task'[u].status \in Successful,
               task[u].run = task[t].run
        PROVE  FALSE
    <3>1. u = t
      <4>1. task[t].run # NoRun /\ run[task[t].run].task = t
        BY <1>1, <2>1 DEF IInv, TaskMirrorsRun
      <4>2. run[task[u].run].task = u
        BY <1>1, <2>4, <4>1 DEF IInv, TaskMirrorsRun
      <4> QED BY <2>4, <4>1, <4>2
    <3> QED BY <2>3, <2>4, <3>1 DEF Successful
  <2>5. results' = results \/ (\E u \in Tasks : /\ Advances(u) /\ task'[u].status \in Successful
                                                /\ results' = results \cup {task[u].run})
    BY <1>1 DEF Progresses
  <2>6. task[t].run \in results' => task[t].run \in results
    <3>1. CASE results' = results
      BY <3>1
    <3>2. CASE \E u \in Tasks : /\ Advances(u) /\ task'[u].status \in Successful
                                /\ results' = results \cup {task[u].run}
      <4>1. PICK u \in Tasks : /\ Advances(u) /\ task'[u].status \in Successful
                               /\ results' = results \cup {task[u].run}
        BY <3>2
      <4>2. task[u].run # task[t].run
        BY <2>4, <4>1
      <4> QED BY <4>1, <4>2
    <3> QED BY <2>5, <3>1, <3>2
  <2> QED BY <2>3, <2>6
<1>2. ASSUME IInv, Progresses, NEW r \in results' \ results
      PROVE  now < run[r].deadline
  BY <1>2 DEF Progresses
<1>3. IInv /\ [Next]_vars =>
        [\A t \in Tasks : task[t].cancel =>
           /\ task'[t].status \in {"cancelling", "cancelled"}
           /\ task'[t].run = task[t].run
           /\ task[t].run \in results' => task[t].run \in results]_vars
  BY <1>1, StepProgresses
<1>4. IInv /\ [Next]_vars => [\A r \in results' \ results : now < run[r].deadline]_vars
  BY <1>2, StepProgresses
<1> QED BY <1>3, <1>4, InductiveInvariant, PTL
        DEF Spec, FirstCauseWins, CancelWins, DeadlineWins
=============================================================================
