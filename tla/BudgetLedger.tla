---------------------------- MODULE BudgetLedger ----------------------------
(***************************************************************************)
(* The budget of one run (budget/sqlite.py, budget/runtime.py): external   *)
(* calls reserve what they may use before they are made and settle what    *)
(* they have used after it, in an append-only ledger that outlives the     *)
(* executions of the run.                                                  *)
(*                                                                         *)
(* Each execution (epoch) binds a manager of its own, whose latch closes   *)
(* the gate after the first denial.  Calls of one execution run            *)
(* concurrently; those of a lost execution may still be under way.  Every  *)
(* ledger operation is one BEGIN IMMEDIATE transaction under the lock of   *)
(* the product connection: one action.                                     *)
(***************************************************************************)
EXTENDS Naturals, SequencesExt, FiniteSetsExt

CONSTANTS
    Calls,         \* attempts at an external call, retries of it included
    Bundle,        \* what each reserves: a sequence of [resource, amount]
    Metered,       \* resources whose use the answer of a call reports: tokens
    Limit,         \* hard limit per resource
    ActiveLimit,   \* hard limit of active_milliseconds
    MaxEpoch,      \* bound: executions of the run
    MaxElapsed     \* bound: active time of one execution

\* There are finitely many calls; the limits and amounts are numbers; a bundle is not
\* empty and repeats no resource.
ASSUME BudgetAssumption ==
    /\ MaxEpoch \in Nat /\ MaxElapsed \in Nat /\ ActiveLimit \in Nat
    /\ IsFiniteSet(Calls)
    /\ \A k \in DOMAIN Limit : Limit[k] \in Nat
    /\ Metered \subseteq DOMAIN Limit
    /\ \A c \in Calls :
         /\ Bundle[c] \in Seq([resource : DOMAIN Limit, amount : Nat])
         /\ Bundle[c] # << >>
         /\ \A i, j \in DOMAIN Bundle[c] :
              i # j => Bundle[c][i].resource # Bundle[c][j].resource

VARIABLES
    run,      \* the lease of the run: epoch, status, and whether it is unexpired
    manager,  \* the manager of each epoch
    call,     \* the coroutine of each call
    ledger,   \* the entries of each reservation <<call, item>>, oldest first
    active    \* active time recorded as settled, per epoch

vars == <<run, manager, call, ledger, active>>

Epochs == 1..MaxEpoch

Items(c) == DOMAIN Bundle[c]

Reservations == UNION {{<<c, i>> : i \in Items(c)} : c \in Calls}

Amount(x) == Bundle[x[1]][x[2]].amount

Entry(s, charge) == [status |-> s, charge |-> charge]

IsMetered(x) == Bundle[x[1]][x[2]].resource \in Metered

\* What a call may turn out to use: at most what it reserves, and all of what is
\* not metered (the call itself).
Usages(c) ==
    LET most == UNION {0..Amount(<<c, i>>) : i \in Items(c)}
    IN  {f \in [Items(c) -> most] : \A i \in Items(c) :
           /\ f[i] <= Amount(<<c, i>>)
           /\ ~IsMetered(<<c, i>>) => f[i] = Amount(<<c, i>>)}

NothingUsed(c) == [i \in Items(c) |-> 0]

NotMade(c) == [pc |-> "idle", epoch |-> 0, next |-> 1, expired |-> FALSE, known |-> FALSE,
               used |-> NothingUsed(c)]

Init ==
    /\ run = [epoch |-> 0, status |-> "released", live |-> FALSE]
    /\ manager = [e \in Epochs |->
                    [bound |-> FALSE, exhausted |-> FALSE, recorded |-> "no", elapsed |-> 0]]
    /\ call = [c \in Calls |-> NotMade(c)]
    /\ ledger = [x \in Reservations |-> << >>]
    /\ active = [e \in Epochs |-> 0]

-----------------------------------------------------------------------------
(***************************************************************************)
(* What the transactions read.                                             *)
(***************************************************************************)

\* The manager of epoch e may write: its execution holds an unexpired lease.
Authority(e) ==
    /\ run.epoch = e
    /\ run.status \in {"running", "cancelling"}
    /\ run.live

Reserved(x) == ledger[x] # << >> /\ Last(ledger[x]).status = "reserved"

\* Mutant: what is reserved is not counted before it is settled.
Charge_SettledOnly(x) ==
    IF ledger[x] = << >> \/ Reserved(x) THEN 0 ELSE Last(ledger[x]).charge

\* The latest entry of a reservation is what it costs the run.
Charge(x) == IF ledger[x] = << >> THEN 0 ELSE Last(ledger[x]).charge

Usage(k) ==
    MapThenSumSet(Charge, {x \in Reservations : Bundle[x[1]][x[2]].resource = k})

\* Mutant: only the live execution counts.
ActiveSpent_LiveOnly(e) == manager[e].elapsed

\* Active time of settled executions and of the live one.
ActiveSpent(e) == MapThenSumSet(LAMBDA f : active[f], Epochs) + manager[e].elapsed

OutOfTime(e) == ActiveSpent(e) >= ActiveLimit

\* The bundle of c does not fit under the limits.
Exceeds(c) ==
    \E i \in Items(c) :
      Usage(Bundle[c][i].resource) + Bundle[c][i].amount > Limit[Bundle[c][i].resource]

\* Mutant: a call of this execution loses its reservation although it is within
\* its time.
Stale_AllCalls(x, e) == Reserved(x)

\* Nobody will settle x any more: its execution is over, or it took too long.
Stale(x, e) == Reserved(x) /\ (call[x[1]].epoch # e \/ call[x[1]].expired)

\* Mutant: a stale reservation is given back.
Reconciled_Released(e) ==
    [x \in Reservations |->
       IF Stale(x, e) THEN Append(ledger[x], Entry("unknown_spend", 0)) ELSE ledger[x]]

\* A stale reservation is charged in full.
Reconciled(e) ==
    [x \in Reservations |->
       IF Stale(x, e) THEN Append(ledger[x], Entry("unknown_spend", Amount(x)))
                      ELSE ledger[x]]

-----------------------------------------------------------------------------
(***************************************************************************)
(* The execution that holds the lease.                                     *)
(***************************************************************************)

\* A lease is granted: to a queued run, or once an expired one was recovered.
Grant ==
    /\ run.epoch < MaxEpoch
    /\ run.status = "released" \/ ~run.live
    /\ run' = [epoch |-> run.epoch + 1, status |-> "running", live |-> TRUE]
    /\ UNCHANGED <<manager, call, ledger, active>>

RequestCancel ==
    /\ run.status = "running"
    /\ run' = [run EXCEPT !.status = "cancelling"]
    /\ UNCHANGED <<manager, call, ledger, active>>

\* Pause, finalize, or the recovery of an expired lease.
Release ==
    /\ run.status # "released"
    /\ run' = [run EXCEPT !.status = "released", !.live = FALSE]
    /\ UNCHANGED <<manager, call, ledger, active>>

LeaseExpires ==
    /\ run.live
    /\ run' = [run EXCEPT !.live = FALSE]
    /\ UNCHANGED <<manager, call, ledger, active>>

\* The runner binds its manager and reconciles what earlier epochs left.
Bind(e) ==
    /\ ~manager[e].bound
    /\ Authority(e)
    /\ manager' = [manager EXCEPT ![e].bound = TRUE]
    /\ ledger' = Reconciled(e)
    /\ UNCHANGED <<run, call, active>>

\* Active time is the time between the binding and its recording.
TimePasses(e) ==
    /\ manager[e].bound /\ manager[e].recorded = "no"
    /\ Authority(e)
    /\ manager[e].elapsed < MaxElapsed
    /\ manager' = [manager EXCEPT ![e].elapsed = @ + 1]
    /\ UNCHANGED <<run, call, ledger, active>>

\* raise_if_exhausted, after every node: the gate may close on time alone; its
\* reconciliation is then rolled back.
CheckTime(e) ==
    /\ manager[e].bound /\ ~manager[e].exhausted
    /\ Authority(e)
    /\ IF OutOfTime(e)
       THEN manager' = [manager EXCEPT ![e].exhausted = TRUE] /\ UNCHANGED ledger
       ELSE ledger' = Reconciled(e) /\ UNCHANGED manager
    /\ UNCHANGED <<run, call, active>>

\* record_active_milliseconds, before a pause or a finalize.  A cancellation may
\* hide the commit from the manager, which then records once more (bound: once).
RecordActive(e) ==
    /\ manager[e].bound /\ manager[e].recorded # "yes"
    /\ Authority(e)
    /\ ledger' = Reconciled(e)
    /\ active' = [active EXCEPT ![e] = @ + manager[e].elapsed]
    /\ \E seen \in {"hidden", "yes"} :
         /\ seen # manager[e].recorded
         /\ manager' = [manager EXCEPT ![e].recorded = seen]
    /\ UNCHANGED <<run, call>>

-----------------------------------------------------------------------------
(***************************************************************************)
(* An external call.                                                       *)
(***************************************************************************)

Goes(c, pc) == call' = [call EXCEPT ![c].pc = pc]

\* reserve_call: the identity, the expiry and the fast path of the latch.
StartCall(c, e) ==
    /\ call[c].pc = "idle"
    /\ manager[e].bound
    /\ call' = [call EXCEPT ![c] = [@ EXCEPT !.epoch = e,
                  !.pc = IF manager[e].exhausted THEN "denied" ELSE "reserving"]]
    /\ UNCHANGED <<run, manager, ledger, active>>

\* The committed reconciliation that precedes every admission.
ReconcileFirst(c) ==
    LET e == call[c].epoch
    IN  /\ call[c].pc = "reserving"
        /\ IF Authority(e) THEN ledger' = Reconciled(e) /\ Goes(c, "admitting")
                           ELSE UNCHANGED ledger /\ Goes(c, "failed")
        /\ UNCHANGED <<run, manager, active>>

MayReserve(c) ==
    /\ Authority(call[c].epoch) /\ run.status = "running"
    /\ ~call[c].expired

Denies(c) ==
    manager[call[c].epoch].exhausted \/ Exceeds(c) \/ OutOfTime(call[c].epoch)

\* The whole bundle is reserved, or nothing is.
Admit(c) ==
    /\ call[c].pc = "admitting"
    /\ MayReserve(c) /\ ~Denies(c)
    /\ ledger' = [x \in Reservations |->
                    IF x[1] = c THEN <<Entry("reserved", Amount(x))>> ELSE ledger[x]]
    /\ Goes(c, "calling")
    /\ UNCHANGED <<run, manager, active>>

\* The first denial closes the gate of the execution.
Deny(c) ==
    /\ call[c].pc = "admitting"
    /\ MayReserve(c) /\ Denies(c)
    /\ manager' = [manager EXCEPT ![call[c].epoch].exhausted = TRUE]
    /\ Goes(c, "denied")
    /\ UNCHANGED <<run, ledger, active>>

Refuse(c) ==
    /\ call[c].pc = "admitting"
    /\ ~MayReserve(c)
    /\ Goes(c, "failed")
    /\ UNCHANGED <<run, manager, ledger, active>>

\* The provider serves the call.  What it metered is known, or not (no usage in the
\* answer, a failure, a cancellation).
Serve(c) ==
    /\ call[c].pc = "calling"
    /\ \E known \in BOOLEAN, used \in Usages(c) :
         call' = [call EXCEPT ![c] = [@ EXCEPT !.pc = "settling", !.known = known,
                                               !.used = used]]
    /\ UNCHANGED <<run, manager, ledger, active>>

\* Unknown use costs all that was reserved.
Settlement(x) ==
    IF call[x[1]].known \/ ~IsMetered(x)
    THEN Entry("settled", call[x[1]].used[x[2]])
    ELSE Entry("unknown_spend", Amount(x))

\* The reservation of the next item is still open.
MaySettle(c) == Authority(call[c].epoch) /\ Reserved(<<c, call[c].next>>)

\* settle_call: one transaction per item of the bundle.
SettleItem(c) ==
    LET x == <<c, call[c].next>>
    IN  /\ call[c].pc = "settling"
        /\ MaySettle(c)
        /\ ledger' = [ledger EXCEPT ![x] = Append(@, Settlement(x))]
        /\ call' = [call EXCEPT ![c] = [@ EXCEPT !.next = call[c].next + 1,
                      !.pc = IF call[c].next = Len(Bundle[c]) THEN "done" ELSE "settling"]]
        /\ UNCHANGED <<run, manager, active>>

\* The execution is over, or the reservation has been reconciled meanwhile.
CannotSettle(c) ==
    /\ call[c].pc = "settling"
    /\ ~MaySettle(c)
    /\ Goes(c, "failed")
    /\ UNCHANGED <<run, manager, ledger, active>>

\* A cancellation at an await of the ledger, or a crash: the coroutine is gone and
\* its reservations stay as they are.
Abandon(c) ==
    /\ call[c].pc \in {"reserving", "admitting", "calling", "settling"}
    /\ Goes(c, "failed")
    /\ UNCHANGED <<run, manager, ledger, active>>

\* The expiry a call has given its reservations passes.
ReservationExpires(c) ==
    /\ call[c].pc # "idle" /\ ~call[c].expired
    /\ call' = [call EXCEPT ![c].expired = TRUE]
    /\ UNCHANGED <<run, manager, ledger, active>>

Next ==
    \/ Grant \/ RequestCancel \/ Release \/ LeaseExpires
    \/ \E e \in Epochs : Bind(e) \/ TimePasses(e) \/ CheckTime(e) \/ RecordActive(e)
    \/ \E c \in Calls :
         \/ \E e \in Epochs : StartCall(c, e)
         \/ ReconcileFirst(c) \/ Admit(c) \/ Deny(c) \/ Refuse(c)
         \/ Serve(c) \/ SettleItem(c) \/ CannotSettle(c)
         \/ Abandon(c) \/ ReservationExpires(c)

Spec == Init /\ [][Next]_vars

-----------------------------------------------------------------------------
(***************************************************************************)
(* Invariants.                                                             *)
(***************************************************************************)

RunRecord == [epoch : 0..MaxEpoch, status : {"released", "running", "cancelling"},
              live : BOOLEAN]

ManagerRecord == [bound : BOOLEAN, exhausted : BOOLEAN, recorded : {"no", "hidden", "yes"},
                  elapsed : Nat]

CallRecord(c) ==
    [pc : {"idle", "reserving", "admitting", "calling", "settling", "done", "denied", "failed"},
     epoch : 0..MaxEpoch, next : 1..(Len(Bundle[c]) + 1), expired : BOOLEAN,
     known : BOOLEAN, used : Usages(c) \cup {NothingUsed(c)}]

EntryRecord == [status : {"reserved", "settled", "unknown_spend"}, charge : Nat]

\* Types.
TypeOK ==
    /\ run \in RunRecord
    /\ manager \in [Epochs -> ManagerRecord]
    /\ DOMAIN call = Calls
    /\ \A c \in Calls : call[c] \in CallRecord(c)
    /\ ledger \in [Reservations -> Seq(EntryRecord)]
    /\ active \in [Epochs -> Nat]

\* What the provider has served is on the books: no crash, reconciliation, failed
\* settlement or change of epoch loses a unit that was really used.
SpendIsCharged ==
    \A x \in Reservations : call[x[1]].used[x[2]] <= Charge(x)

\* Concurrent calls, executions that were lost with calls under way, and calls of
\* a lost execution that end late never take the run over a hard limit.
WithinLimits == \A k \in DOMAIN Limit : Usage(k) <= Limit[k]

\* A reservation has one end, however its settlement, a reconciliation by another
\* call and one by the next execution race.
EndsOnce ==
    \A x \in Reservations :
      /\ Len(ledger[x]) <= 2
      /\ Len(ledger[x]) = 2 => ledger[x][1].status = "reserved"
                               /\ ledger[x][2].status # "reserved"

\* The books of a run: entries of the right kind, one end to each, and nothing
\* served that is not charged.
BooksBalance == TypeOK /\ SpendIsCharged /\ EndsOnce

\* A call within its time, of the execution that holds the lease, finds every item
\* it has still to settle open: no concurrent call reconciles it away.
LiveCallCanSettle ==
    \A c \in Calls :
      call[c].pc \in {"calling", "settling"} /\ ~call[c].expired
        /\ Authority(call[c].epoch) =>
          \A i \in Items(c) : i >= call[c].next => Reserved(<<c, i>>)

\* Once an execution has bound its manager, nothing that earlier executions have
\* reserved is open, and nothing of theirs is opened after.
EarlierEpochsClosed ==
    \A e \in Epochs : manager[e].bound =>
      \A x \in Reservations : Reserved(x) => call[x[1]].epoch >= e

\* What is open has someone who can still close it: a live call finds its own
\* reservations open, and none of an execution that is over stays open.
OpenIsOwned == LiveCallCanSettle /\ EarlierEpochsClosed

-----------------------------------------------------------------------------
(***************************************************************************)
(* Action properties.                                                      *)
(***************************************************************************)

\* After the first denial no call of the execution is admitted, not even one that
\* had passed the fast path before it and is small enough to fit.
NoAdmissionAfterDenial ==
    [][\A c \in Calls : call[c].pc # "calling" /\ call'[c].pc = "calling" =>
         ~manager[call[c].epoch].exhausted]_vars

\* Active time is counted across executions: with what earlier executions have
\* recorded, a run is admitted nothing once its limit of active time has passed,
\* however often it was paused.
RecordedTimeGates ==
    [][\A c \in Calls : call[c].pc # "calling" /\ call'[c].pc = "calling" =>
         LET counted == {e \in Epochs : e = call[c].epoch \/ manager[e].recorded # "no"}
         IN  MapThenSumSet(LAMBDA e : manager[e].elapsed, counted) < ActiveLimit]_vars

=============================================================================
