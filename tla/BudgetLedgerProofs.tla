------------------------- MODULE BudgetLedgerProofs -------------------------
(***************************************************************************)
(* Proofs about BudgetLedger, for any calls, bundles, limits and bounds:   *)
(* what is spent is charged, once, whoever races whom, and the sum of what *)
(* is charged stays within the limits.                                     *)
(***************************************************************************)
EXTENDS BudgetLedger, FiniteSetTheorems, TLAPS

-----------------------------------------------------------------------------
(***************************************************************************)
(* The inductive invariant.                                                *)
(***************************************************************************)

\* Executions bind, and calls start, under epochs that have been granted.
EpochsInOrder ==
    /\ run.epoch = 0 => run.status = "released"
    /\ \A e \in Epochs : manager[e].bound => e <= run.epoch
    /\ \A c \in Calls : call[c].epoch <= run.epoch

\* A call that has not been admitted owes nothing.
NothingBeforeAdmission ==
    \A c \in Calls : call[c].pc \in {"idle", "reserving", "admitting", "denied"} =>
      /\ call[c].next = 1
      /\ call[c].used = NothingUsed(c)
      /\ \A i \in Items(c) : ledger[<<c, i>>] = << >>

\* While the provider may use anything up to what is reserved, that much is charged.
CallingIsCharged ==
    \A c \in Calls : call[c].pc = "calling" =>
      /\ call[c].next = 1
      /\ \A i \in Items(c) : Charge(<<c, i>>) = Amount(<<c, i>>)

\* A call that settles has an item left.
SettlingHasItem ==
    \A c \in Calls : call[c].pc = "settling" => call[c].next \in Items(c)

IInv ==
    /\ TypeOK
    /\ EpochsInOrder
    /\ NothingBeforeAdmission
    /\ CallingIsCharged
    /\ SettlingHasItem
    /\ EndsOnce
    /\ SpendIsCharged
    /\ LiveCallCanSettle
    /\ EarlierEpochsClosed

-----------------------------------------------------------------------------
(***************************************************************************)
(* Reservations and rows of the ledger.                                    *)
(***************************************************************************)

\* A reservation is a call and one of its items.
LEMMA ReservationIsItem ==
    /\ \A x \in Reservations : x[1] \in Calls /\ x[2] \in Items(x[1]) /\ x = <<x[1], x[2]>>
    /\ \A c \in Calls : \A i \in Items(c) : <<c, i>> \in Reservations
BY DEF Reservations

\* The items of a bundle are numbered from one, and there is one.
LEMMA ItemsAreNumbered ==
    ASSUME NEW c \in Calls
    PROVE  /\ Items(c) = 1..Len(Bundle[c])
           /\ Len(Bundle[c]) \in Nat \ {0}
           /\ 1 \in Items(c)
<1>1. Bundle[c] \in Seq([resource : DOMAIN Limit, amount : Nat]) /\ Bundle[c] # << >>
    BY BudgetAssumption
<1> QED
    BY <1>1 DEF Items

\* An element of a sequence is an element of the set it is over.
LEMMA ElementOfSeq ==
    ASSUME NEW S, NEW s \in Seq(S), NEW i \in DOMAIN s
    PROVE  s[i] \in S
OBVIOUS

\* What a reservation reserves is a number.
LEMMA AmountIsNat ==
    ASSUME NEW x \in Reservations
    PROVE  Amount(x) \in Nat
<1>1. x[1] \in Calls /\ x[2] \in Items(x[1])
    BY ReservationIsItem
<1> DEFINE ItemRecord == [resource : DOMAIN Limit, amount : Nat]
<1>2. Bundle[x[1]] \in Seq(ItemRecord)
    BY <1>1, BudgetAssumption
<1>3. \A y \in ItemRecord : y.amount \in Nat
    OBVIOUS
<1> HIDE DEF ItemRecord
<1>4. Bundle[x[1]][x[2]] \in ItemRecord
    BY <1>1, <1>2, ElementOfSeq DEF Items
<1> QED
    BY <1>3, <1>4 DEF Amount

\* What a call has used, or will be found to have used, is a number within what it
\* has reserved.
LEMMA UsedIsReserved ==
    ASSUME NEW c \in Calls, NEW i \in Items(c), NEW f \in Usages(c) \cup {NothingUsed(c)}
    PROVE  f[i] \in Nat /\ f[i] <= Amount(<<c, i>>)
<1>1. \A j \in Items(c) : Amount(<<c, j>>) \in Nat
    BY ReservationIsItem, AmountIsNat
<1>2. CASE f \in Usages(c)
  <2>1. f[i] <= Amount(<<c, i>>)
      BY <1>2 DEF Usages
  <2>2. f \in [Items(c) -> UNION {0..Amount(<<c, j>>) : j \in Items(c)}]
      BY <1>2 DEF Usages
  <2>3. PICK j \in Items(c) : f[i] \in 0..Amount(<<c, j>>)
      BY <2>2
  <2> QED
      BY <1>1, <2>1, <2>3
<1>3. CASE f = NothingUsed(c)
    BY <1>1, <1>3 DEF NothingUsed
<1> QED
    BY <1>2, <1>3

\* A row that is written to the end of a reservation's history.
LEMMA AppendedRow ==
    ASSUME NEW s \in Seq(EntryRecord), NEW y \in EntryRecord
    PROVE  /\ Append(s, y) \in Seq(EntryRecord)
           /\ Append(s, y) # << >>
           /\ Len(Append(s, y)) = Len(s) + 1
           /\ Last(Append(s, y)) = y
           /\ s # << >> => Append(s, y)[1] = s[1]
<1>1. Append(s, y) \in Seq(EntryRecord) /\ Len(Append(s, y)) = Len(s) + 1 /\ Len(s) \in Nat
    OBVIOUS
<1>2. Append(s, y)[Len(s) + 1] = y
    OBVIOUS
<1>3. Append(s, y) # << >>
    BY <1>1
<1>4. s # << >> => 1 \in 1..Len(s)
    BY <1>1
<1>5. s # << >> => Append(s, y)[1] = s[1]
    BY <1>4
<1> QED
    BY <1>1, <1>2, <1>3, <1>5 DEF Last

\* An open reservation has just the row that opened it.
LEMMA ReservedIsFirst ==
    ASSUME TypeOK, EndsOnce, NEW x \in Reservations, Reserved(x)
    PROVE  /\ Len(ledger[x]) = 1
           /\ ledger[x][1].status = "reserved"
<1>1. ledger[x] \in Seq(EntryRecord)
    BY DEF TypeOK
<1>2. ledger[x] # << >> /\ ledger[x][Len(ledger[x])].status = "reserved"
    BY DEF Reserved, Last
<1>3. Len(ledger[x]) \in Nat \ {0}
    BY <1>1, <1>2
<1>4. Len(ledger[x]) <= 2 /\ (Len(ledger[x]) = 2 => ledger[x][2].status # "reserved")
    BY DEF EndsOnce
<1>5. \A n \in Nat \ {0} : n <= 2 => n = 1 \/ n = 2
    OBVIOUS
<1>6. Len(ledger[x]) # 2
    BY <1>2, <1>4
<1> QED
    BY <1>2, <1>3, <1>4, <1>5, <1>6

\* A reservation that is open gets its second and last row.
LEMMA ClosedRow ==
    ASSUME TypeOK, EndsOnce, NEW x \in Reservations, Reserved(x),
           NEW y \in EntryRecord, y.status # "reserved"
    PROVE  /\ Append(ledger[x], y) \in Seq(EntryRecord)
           /\ Append(ledger[x], y) # << >>
           /\ Len(Append(ledger[x], y)) = 2
           /\ Append(ledger[x], y)[1].status = "reserved"
           /\ Append(ledger[x], y)[2] = y
           /\ Last(Append(ledger[x], y)) = y
<1>1. ledger[x] \in Seq(EntryRecord)
    BY DEF TypeOK
<1>2. Len(ledger[x]) = 1 /\ ledger[x][1].status = "reserved"
    BY ReservedIsFirst
<1>3. ledger[x] # << >>
    BY <1>2
<1>4. Append(ledger[x], y)[2] = y
    BY <1>1, <1>2
<1>5. Len(Append(ledger[x], y)) = Len(ledger[x]) + 1
    BY <1>1, AppendedRow
<1>6. 1 + 1 = 2
    OBVIOUS
<1> HIDE DEF EntryRecord
<1> QED
    BY <1>1, <1>2, <1>3, <1>4, <1>5, <1>6, AppendedRow

\* What reconciliation does to one reservation.
LEMMA ReconciledRow ==
    ASSUME TypeOK, EndsOnce, NEW e \in Epochs, NEW x \in Reservations
    PROVE  /\ Reconciled(e)[x] \in Seq(EntryRecord)
           /\ ~Stale(x, e) => Reconciled(e)[x] = ledger[x]
           /\ Stale(x, e) => /\ Len(Reconciled(e)[x]) = 2
                             /\ Reconciled(e)[x] # << >>
                             /\ Reconciled(e)[x][1].status = "reserved"
                             /\ Reconciled(e)[x][2].status = "unknown_spend"
                             /\ Last(Reconciled(e)[x]).status = "unknown_spend"
                             /\ Last(Reconciled(e)[x]).charge = Amount(x)
<1>1. Entry("unknown_spend", Amount(x)) \in EntryRecord
    BY AmountIsNat DEF Entry, EntryRecord
<1>2. /\ Entry("unknown_spend", Amount(x)).status = "unknown_spend"
      /\ Entry("unknown_spend", Amount(x)).charge = Amount(x)
    BY DEF Entry
<1>3. CASE Stale(x, e)
  <2>1. Reserved(x)
    BY <1>3 DEF Stale
  <2>2. Reconciled(e)[x] = Append(ledger[x], Entry("unknown_spend", Amount(x)))
    BY <1>3 DEF Reconciled
  <2> QED
    BY <1>1, <1>2, <1>3, <2>1, <2>2, ClosedRow
<1>4. CASE ~Stale(x, e)
    BY <1>4 DEF Reconciled, TypeOK
<1> QED
    BY <1>3, <1>4

-----------------------------------------------------------------------------
(***************************************************************************)
(* The run: its lease comes and goes, and the books stay.                  *)
(***************************************************************************)

\* An execution never gets back the authority it has lost.
LEMMA AuthorityIsNotRegained ==
    ASSUME TypeOK, NEW n \in Nat, n <= run.epoch,
           Grant \/ RequestCancel \/ Release \/ LeaseExpires,
           Authority(n)'
    PROVE  Authority(n)
<1>1. run \in RunRecord
    BY DEF TypeOK
<1>2. CASE Grant
    BY <1>1, <1>2, BudgetAssumption DEF Grant, Authority, RunRecord
<1>3. CASE RequestCancel
    BY <1>1, <1>3 DEF RequestCancel, Authority, RunRecord
<1>4. CASE Release
    BY <1>1, <1>4 DEF Release, Authority, RunRecord
<1>5. CASE LeaseExpires
    BY <1>1, <1>5 DEF LeaseExpires, Authority, RunRecord
<1> QED
    BY <1>2, <1>3, <1>4, <1>5

\* What the lease of the run does keeps the invariant.
LEMMA LeaseMovesKeep ==
    ASSUME IInv, Grant \/ RequestCancel \/ Release \/ LeaseExpires
    PROVE  IInv'
<1> USE DEF IInv
<1>1. UNCHANGED <<manager, call, ledger, active>>
    BY DEF Grant, RequestCancel, Release, LeaseExpires
<1>2. run \in RunRecord /\ run.epoch \in Nat
    BY BudgetAssumption DEF TypeOK, RunRecord
<1>3. run' \in RunRecord /\ run.epoch <= run'.epoch
  <2>1. CASE Grant
    <3> DEFINE next == run.epoch + 1
    <3>1. next \in 0..MaxEpoch /\ run.epoch <= next
        BY <1>2, <2>1, BudgetAssumption DEF Grant, RunRecord
    <3>2. run' = [epoch |-> next, status |-> "running", live |-> TRUE]
        BY <2>1 DEF Grant
    <3> HIDE DEF next
    <3> QED
        BY <3>1, <3>2 DEF RunRecord
  <2>2. CASE RequestCancel \/ Release \/ LeaseExpires
    <3>1. run' \in RunRecord /\ run'.epoch = run.epoch
        BY <1>2, <2>2 DEF RequestCancel, Release, LeaseExpires, RunRecord
    <3> QED
        BY <1>2, <3>1
  <2> QED
      BY <2>1, <2>2
<1>4. TypeOK'
    BY <1>1, <1>3 DEF TypeOK
<1>5. EpochsInOrder'
  <2>1. \A e \in Epochs : e \in Nat
      BY BudgetAssumption DEF Epochs
  <2>2. \A c \in Calls : call[c].epoch \in Nat
      BY BudgetAssumption DEF TypeOK, CallRecord
  <2>3. run'.epoch \in Nat
      BY <1>3, BudgetAssumption DEF RunRecord
  <2>4. run'.epoch = 0 => run'.status = "released"
    <3>1. CASE Grant
        BY <1>2, <1>3, <3>1 DEF Grant
    <3>2. CASE RequestCancel
        BY <1>2, <3>2 DEF RequestCancel, RunRecord, EpochsInOrder
    <3>3. CASE Release
        BY <1>2, <3>3 DEF Release, RunRecord
    <3>4. CASE LeaseExpires
        BY <1>2, <3>4 DEF LeaseExpires, RunRecord, EpochsInOrder
    <3> QED
        BY <3>1, <3>2, <3>3, <3>4
  <2> QED
      BY <1>1, <1>2, <1>3, <2>1, <2>2, <2>3, <2>4 DEF EpochsInOrder
<1>6. NothingBeforeAdmission' /\ CallingIsCharged' /\ SettlingHasItem' /\ EndsOnce'
      /\ SpendIsCharged' /\ EarlierEpochsClosed'
    BY <1>1 DEF NothingBeforeAdmission, CallingIsCharged, SettlingHasItem, EndsOnce,
                SpendIsCharged, EarlierEpochsClosed, Charge, Reserved
<1>7. LiveCallCanSettle'
  <2> SUFFICES ASSUME NEW c \in Calls,
                      call[c].pc \in {"calling", "settling"}, ~call[c].expired,
                      Authority(call[c].epoch)'
               PROVE  \A i \in Items(c) : i >= call[c].next => Reserved(<<c, i>>)
      BY <1>1 DEF LiveCallCanSettle, Reserved, Authority
  <2>1. call[c].epoch \in Nat /\ call[c].epoch <= run.epoch
      BY BudgetAssumption DEF TypeOK, CallRecord, EpochsInOrder
  <2>2. call[c].epoch' = call[c].epoch
      BY <1>1
  <2>3. Authority(call[c].epoch)
      BY <1>1, <2>1, <2>2, AuthorityIsNotRegained DEF Authority
  <2> QED
      BY <2>3 DEF LiveCallCanSettle
<1> QED
    BY <1>4, <1>5, <1>6, <1>7

-----------------------------------------------------------------------------
(***************************************************************************)
(* Reconciliation.                                                         *)
(***************************************************************************)

\* Calls as they are, but that one that reserves may go on to its admission.
CallsGoOn ==
    \A c \in Calls :
      /\ call'[c].epoch = call[c].epoch
      /\ call'[c].next = call[c].next
      /\ call'[c].used = call[c].used
      /\ call'[c].expired = call[c].expired
      /\ \/ call'[c].pc = call[c].pc
         \/ call[c].pc = "reserving" /\ call'[c].pc = "admitting"

\* Reconciliation by the execution that holds the lease, which may bind its manager
\* with it, keeps the invariant.
LEMMA ReconciliationKeeps ==
    ASSUME IInv, TypeOK', NEW e \in Epochs, Authority(e), ledger' = Reconciled(e),
           UNCHANGED run, CallsGoOn,
           \A f \in Epochs : manager'[f].bound => manager[f].bound \/ f = e
    PROVE  IInv'
<1> USE DEF IInv
<1>1. run.epoch = e
    BY DEF Authority
<1>2. \A f \in Epochs : f \in Nat
    BY BudgetAssumption DEF Epochs
<1>3. \A c \in Calls : call[c] \in CallRecord(c) /\ call[c].epoch \in Nat
    BY BudgetAssumption DEF TypeOK, CallRecord
<1>4. EpochsInOrder'
  <2>1. \A f \in Epochs : manager[f].bound => f <= run.epoch
      BY DEF EpochsInOrder
  <2>2. \A c \in Calls : call[c].epoch <= run.epoch
      BY DEF EpochsInOrder
  <2>3. \A f \in Epochs : manager'[f].bound => f <= run.epoch
      BY <1>1, <1>2, <2>1
  <2> QED
      BY <2>2, <2>3 DEF EpochsInOrder, CallsGoOn
<1>5. NothingBeforeAdmission'
  <2> SUFFICES ASSUME NEW c \in Calls, NEW i \in Items(c),
                      call[c].pc \in {"idle", "reserving", "admitting", "denied"}
               PROVE  ledger'[<<c, i>>] = << >>
      BY DEF NothingBeforeAdmission, CallsGoOn
  <2>1. <<c, i>> \in Reservations /\ ledger[<<c, i>>] = << >>
      BY ReservationIsItem DEF NothingBeforeAdmission
  <2>2. ~Stale(<<c, i>>, e)
      BY <2>1 DEF Stale, Reserved
  <2> QED
      BY <2>1, <2>2, ReconciledRow
<1>6. CallingIsCharged'
  <2> SUFFICES ASSUME NEW c \in Calls, NEW i \in Items(c), call[c].pc = "calling"
               PROVE  Charge(<<c, i>>)' = Amount(<<c, i>>)
      BY DEF CallingIsCharged, CallsGoOn
  <2>1. <<c, i>> \in Reservations /\ Charge(<<c, i>>) = Amount(<<c, i>>)
      BY ReservationIsItem DEF CallingIsCharged
  <2>2. CASE Stale(<<c, i>>, e)
      BY <2>1, <2>2, ReconciledRow DEF Charge
  <2>3. CASE ~Stale(<<c, i>>, e)
      BY <2>1, <2>3, ReconciledRow DEF Charge
  <2> QED
      BY <2>2, <2>3
<1>7. SettlingHasItem'
    BY DEF SettlingHasItem, CallsGoOn
<1>8. EndsOnce'
  <2> SUFFICES ASSUME NEW x \in Reservations
               PROVE  /\ Len(ledger'[x]) <= 2
                      /\ Len(ledger'[x]) = 2 => /\ ledger'[x][1].status = "reserved"
                                                /\ ledger'[x][2].status # "reserved"
      BY DEF EndsOnce
  <2>1. CASE Stale(x, e)
    <3>1. /\ Len(ledger'[x]) = 2
          /\ ledger'[x][1].status = "reserved"
          /\ ledger'[x][2].status # "reserved"
        BY <2>1, ReconciledRow
    <3>2. 2 <= 2
        OBVIOUS
    <3> QED
        BY <3>1, <3>2
  <2>2. CASE ~Stale(x, e)
      BY <2>2, ReconciledRow DEF EndsOnce
  <2> QED
      BY <2>1, <2>2
<1>9. SpendIsCharged'
  <2> SUFFICES ASSUME NEW x \in Reservations
               PROVE  call[x[1]].used[x[2]] <= Charge(x)'
      BY ReservationIsItem DEF SpendIsCharged, CallsGoOn
  <2>1. x[1] \in Calls /\ x[2] \in Items(x[1]) /\ x = <<x[1], x[2]>>
      BY ReservationIsItem
  <2>2. CASE Stale(x, e)
    <3>1. Charge(x)' = Amount(x)
        BY <2>2, ReconciledRow DEF Charge
    <3>2. call[x[1]].used[x[2]] <= Amount(x)
        BY <1>3, <2>1, UsedIsReserved DEF CallRecord
    <3> QED
        BY <3>1, <3>2
  <2>3. CASE ~Stale(x, e)
      BY <2>3, ReconciledRow DEF Charge, SpendIsCharged
  <2> QED
      BY <2>2, <2>3
<1>10. LiveCallCanSettle'
  <2> SUFFICES ASSUME NEW c \in Calls, NEW i \in Items(c),
                      call[c].pc \in {"calling", "settling"}, ~call[c].expired,
                      Authority(call[c].epoch), i >= call[c].next
               PROVE  Reserved(<<c, i>>)'
      BY DEF LiveCallCanSettle, CallsGoOn, Authority
  <2>1. <<c, i>> \in Reservations /\ Reserved(<<c, i>>)
      BY ReservationIsItem DEF LiveCallCanSettle
  <2>2. call[c].epoch = e
      BY DEF Authority
  <2>3. ~Stale(<<c, i>>, e)
      BY <2>2 DEF Stale
  <2> QED
      BY <2>1, <2>3, ReconciledRow DEF Reserved
<1>11. EarlierEpochsClosed'
  <2> SUFFICES ASSUME NEW f \in Epochs, manager'[f].bound,
                      NEW x \in Reservations, Reserved(x)'
               PROVE  call[x[1]].epoch >= f
      BY ReservationIsItem DEF EarlierEpochsClosed, CallsGoOn
  <2>1. ~Stale(x, e)
      BY ReconciledRow DEF Reserved
  <2>2. Reserved(x)
      BY <2>1, ReconciledRow DEF Reserved
  <2>3. call[x[1]].epoch = e
      BY <2>1, <2>2 DEF Stale
  <2>4. f <= e
      BY <1>1, <1>2 DEF EpochsInOrder
  <2> QED
      BY <1>2, <2>3, <2>4
<1> QED
    BY <1>4, <1>5, <1>6, <1>7, <1>8, <1>9, <1>10, <1>11

-----------------------------------------------------------------------------
(***************************************************************************)
(* Types.                                                                  *)
(***************************************************************************)

\* A call keeps its type when it moves to another place in its code.
LEMMA MovedCall ==
    ASSUME TypeOK, NEW c \in Calls, NEW p \in {"reserving", "admitting", "calling",
             "settling", "done", "denied", "failed"},
           call' = [call EXCEPT ![c].pc = p]
    PROVE  /\ DOMAIN call' = Calls
           /\ \A d \in Calls : call'[d] \in CallRecord(d)
           /\ call'[c] = [call[c] EXCEPT !.pc = p]
           /\ \A d \in Calls : d # c => call'[d] = call[d]
<1>1. \A d \in Calls : call[d] \in CallRecord(d)
    BY DEF TypeOK
<1>2. DOMAIN call = Calls
    BY DEF TypeOK
<1>3. call'[c] = [call[c] EXCEPT !.pc = p] /\ \A d \in Calls : d # c => call'[d] = call[d]
    BY <1>2
<1>4. call'[c] \in CallRecord(c)
    BY <1>1, <1>3 DEF CallRecord
<1>5. \A d \in Calls : call'[d] \in CallRecord(d)
    BY <1>1, <1>3, <1>4
<1> QED
    BY <1>2, <1>3, <1>5

\* A call keeps its type when its record is replaced by one of its type.
LEMMA ReplacedCall ==
    ASSUME TypeOK, NEW c \in Calls, NEW row \in CallRecord(c),
           call' = [call EXCEPT ![c] = row]
    PROVE  /\ DOMAIN call' = Calls
           /\ \A d \in Calls : call'[d] \in CallRecord(d)
           /\ call'[c] = row
           /\ \A d \in Calls : d # c => call'[d] = call[d]
<1>1. \A d \in Calls : call[d] \in CallRecord(d)
    BY DEF TypeOK
<1>2. DOMAIN call = Calls
    BY DEF TypeOK
<1> HIDE DEF CallRecord
<1> QED
    BY <1>1, <1>2

\* Reconciliation keeps the type of the ledger.
LEMMA ReconciledType ==
    ASSUME TypeOK, EndsOnce, NEW e \in Epochs
    PROVE  Reconciled(e) \in [Reservations -> Seq(EntryRecord)]
<1>1. \A x \in Reservations : Reconciled(e)[x] \in Seq(EntryRecord)
    BY ReconciledRow
<1> HIDE DEF EntryRecord
<1>2. Reconciled(e) = [x \in Reservations |-> Reconciled(e)[x]]
    BY DEF Reconciled
<1> QED
    BY <1>1, <1>2

\* What the executions do keeps the types.
LEMMA EpochTypes ==
    ASSUME IInv, NEW e \in Epochs,
           Bind(e) \/ TimePasses(e) \/ CheckTime(e) \/ RecordActive(e)
    PROVE  TypeOK'
<1> USE DEF IInv
<1>1. UNCHANGED <<run, call>>
    BY DEF Bind, TimePasses, CheckTime, RecordActive
<1>2. ledger' \in [Reservations -> Seq(EntryRecord)]
  <2>1. ledger' = ledger \/ ledger' = Reconciled(e)
      BY DEF Bind, TimePasses, CheckTime, RecordActive
  <2> QED
      BY <2>1, ReconciledType DEF TypeOK
<1>3. manager \in [Epochs -> ManagerRecord] /\ active \in [Epochs -> Nat]
    BY DEF TypeOK
<1>4. manager' \in [Epochs -> ManagerRecord]
  <2>1. CASE Bind(e)
      BY <1>3, <2>1 DEF Bind, ManagerRecord
  <2>2. CASE TimePasses(e)
    <3> DEFINE later == manager[e].elapsed + 1
    <3>1. later \in Nat
        BY <1>3 DEF ManagerRecord
    <3>2. manager' = [manager EXCEPT ![e].elapsed = later]
        BY <1>3, <2>2 DEF TimePasses
    <3> HIDE DEF later
    <3> QED
        BY <1>3, <3>1, <3>2 DEF ManagerRecord
  <2>3. CASE CheckTime(e)
      BY <1>3, <2>3 DEF CheckTime, ManagerRecord
  <2>4. CASE RecordActive(e)
      BY <1>3, <2>4 DEF RecordActive, ManagerRecord
  <2> QED
      BY <2>1, <2>2, <2>3, <2>4
<1>5. active' \in [Epochs -> Nat]
  <2>1. CASE RecordActive(e)
    <3> DEFINE sum == active[e] + manager[e].elapsed
    <3>1. sum \in Nat
        BY <1>3 DEF ManagerRecord
    <3>2. active' = [active EXCEPT ![e] = sum]
        BY <1>3, <2>1 DEF RecordActive
    <3> HIDE DEF sum
    <3> QED
        BY <1>3, <3>1, <3>2
  <2>2. CASE Bind(e) \/ TimePasses(e) \/ CheckTime(e)
      BY <1>3, <2>2 DEF Bind, TimePasses, CheckTime
  <2> QED
      BY <2>1, <2>2
<1> QED
    BY <1>1, <1>2, <1>4, <1>5 DEF TypeOK

-----------------------------------------------------------------------------
(***************************************************************************)
(* Steps that leave the ledger alone.                                      *)
(***************************************************************************)

\* Call c moves on its own: it takes no reservation and settles none.
QuietMove(c) ==
    /\ UNCHANGED <<run, ledger, active>>
    /\ \A d \in Calls : d # c => call'[d] = call[d]
    /\ \A f \in Epochs : manager'[f].bound = manager[f].bound
    /\ call'[c].epoch <= run.epoch
    /\ \A i \in Items(c) : call'[c].used[i] <= Charge(<<c, i>>)
    /\ \A i \in Items(c) : Reserved(<<c, i>>) => call'[c].epoch = call[c].epoch
    /\ call'[c].pc \in {"idle", "reserving", "admitting", "denied"} =>
         /\ call[c].pc \in {"idle", "reserving", "admitting", "denied"}
         /\ call'[c].next = 1 /\ call'[c].used = NothingUsed(c)
    /\ call'[c].pc = "calling" => call[c].pc = "calling" /\ call'[c].next = 1
    /\ call'[c].pc = "settling" => call'[c].next \in Items(c)
    /\ call'[c].pc \in {"calling", "settling"} /\ ~call'[c].expired =>
         /\ call[c].pc \in {"calling", "settling"} /\ ~call[c].expired
         /\ call'[c].epoch = call[c].epoch /\ call'[c].next = call[c].next

\* Such a move keeps the invariant.
LEMMA QuietMovesKeep ==
    ASSUME IInv, TypeOK', NEW c \in Calls, QuietMove(c)
    PROVE  IInv'
<1> USE DEF IInv
<1>1. /\ run' = run /\ ledger' = ledger
      /\ \A d \in Calls : d # c => call'[d] = call[d]
      /\ \A f \in Epochs : manager'[f].bound = manager[f].bound
    BY DEF QuietMove
<1>2. EpochsInOrder'
    BY <1>1 DEF EpochsInOrder, QuietMove
<1>3. NothingBeforeAdmission'
  <2> SUFFICES ASSUME NEW d \in Calls,
                      call'[d].pc \in {"idle", "reserving", "admitting", "denied"}
               PROVE  /\ call'[d].next = 1
                      /\ call'[d].used = NothingUsed(d)
                      /\ \A i \in Items(d) : ledger[<<d, i>>] = << >>
      BY <1>1 DEF NothingBeforeAdmission
  <2>1. CASE d = c
      BY <2>1 DEF QuietMove, NothingBeforeAdmission
  <2>2. CASE d # c
      BY <1>1, <2>2 DEF NothingBeforeAdmission
  <2> QED
      BY <2>1, <2>2
<1>4. CallingIsCharged'
  <2> SUFFICES ASSUME NEW d \in Calls, call'[d].pc = "calling"
               PROVE  /\ call'[d].next = 1
                      /\ \A i \in Items(d) : Charge(<<d, i>>) = Amount(<<d, i>>)
      BY <1>1 DEF CallingIsCharged, Charge
  <2>1. CASE d = c
      BY <2>1 DEF QuietMove, CallingIsCharged
  <2>2. CASE d # c
      BY <1>1, <2>2 DEF CallingIsCharged
  <2> QED
      BY <2>1, <2>2
<1>5. SettlingHasItem'
    BY <1>1 DEF SettlingHasItem, QuietMove
<1>6. EndsOnce'
    BY <1>1 DEF EndsOnce
<1>7. SpendIsCharged'
  <2> SUFFICES ASSUME NEW x \in Reservations
               PROVE  call'[x[1]].used[x[2]] <= Charge(x)
      BY <1>1 DEF SpendIsCharged, Charge
  <2>1. x[1] \in Calls /\ x[2] \in Items(x[1]) /\ x = <<x[1], x[2]>>
      BY ReservationIsItem
  <2>2. CASE x[1] = c
      BY <2>1, <2>2 DEF QuietMove
  <2>3. CASE x[1] # c
      BY <1>1, <2>1, <2>3 DEF SpendIsCharged
  <2> QED
      BY <2>2, <2>3
<1>8. LiveCallCanSettle'
  <2> SUFFICES ASSUME NEW d \in Calls, NEW i \in Items(d),
                      call'[d].pc \in {"calling", "settling"}, ~call'[d].expired,
                      Authority(call'[d].epoch), i >= call'[d].next
               PROVE  Reserved(<<d, i>>)
      BY <1>1 DEF LiveCallCanSettle, Authority, Reserved
  <2>1. CASE d = c
      BY <2>1 DEF QuietMove, LiveCallCanSettle
  <2>2. CASE d # c
      BY <1>1, <2>2 DEF LiveCallCanSettle
  <2> QED
      BY <2>1, <2>2
<1>9. EarlierEpochsClosed'
  <2> SUFFICES ASSUME NEW f \in Epochs, manager[f].bound,
                      NEW x \in Reservations, Reserved(x)
               PROVE  call'[x[1]].epoch >= f
      BY <1>1 DEF EarlierEpochsClosed, Reserved
  <2>1. x[1] \in Calls /\ x[2] \in Items(x[1]) /\ x = <<x[1], x[2]>>
      BY ReservationIsItem
  <2>2. call'[x[1]].epoch = call[x[1]].epoch
      BY <1>1, <2>1 DEF QuietMove
  <2> QED
      BY <2>2 DEF EarlierEpochsClosed
<1> QED
    BY <1>2, <1>3, <1>4, <1>5, <1>6, <1>7, <1>8, <1>9

\* Bookkeeping of the managers and of active time keeps the invariant.
LEMMA BookkeepingKeeps ==
    ASSUME IInv, TypeOK', UNCHANGED <<run, call, ledger>>,
           \A f \in Epochs : manager'[f].bound = manager[f].bound
    PROVE  IInv'
BY DEF IInv, EpochsInOrder, NothingBeforeAdmission, CallingIsCharged, SettlingHasItem,
       EndsOnce, SpendIsCharged, LiveCallCanSettle, EarlierEpochsClosed, Charge, Reserved,
       Authority

\* What an execution does keeps the invariant.
LEMMA EpochMovesKeep ==
    ASSUME IInv, NEW e \in Epochs,
           Bind(e) \/ TimePasses(e) \/ CheckTime(e) \/ RecordActive(e)
    PROVE  IInv'
<1>1. TypeOK'
    BY EpochTypes
<1>2. manager \in [Epochs -> ManagerRecord]
    BY DEF IInv, TypeOK
<1>3. Bind(e) \/ \A f \in Epochs : manager'[f].bound = manager[f].bound
    BY <1>2 DEF TimePasses, CheckTime, RecordActive, ManagerRecord
<1>4. \A f \in Epochs : manager'[f].bound => manager[f].bound \/ f = e
    BY <1>2, <1>3 DEF Bind, ManagerRecord
<1>5. UNCHANGED <<run, call>>
    BY DEF Bind, TimePasses, CheckTime, RecordActive
<1>6. CallsGoOn
    BY <1>5 DEF CallsGoOn
<1>7. CASE ledger' = Reconciled(e)
  <2>1. Authority(e)
      BY <1>7 DEF Bind, TimePasses, CheckTime, RecordActive
  <2> QED
      BY <1>1, <1>4, <1>5, <1>6, <1>7, <2>1, ReconciliationKeeps
<1>8. CASE ledger' = ledger /\ ~Bind(e)
    BY <1>1, <1>3, <1>5, <1>8, BookkeepingKeeps
<1>9. ledger' = Reconciled(e) \/ (ledger' = ledger /\ ~Bind(e))
    BY DEF Bind, TimePasses, CheckTime, RecordActive
<1> QED
    BY <1>7, <1>8, <1>9

-----------------------------------------------------------------------------
(***************************************************************************)
(* The calls.                                                              *)
(***************************************************************************)

\* What the other lemmas need to know of one call.
LEMMA CallFacts ==
    ASSUME IInv, NEW c \in Calls
    PROVE  /\ call[c] \in CallRecord(c)
           /\ call[c].epoch \in Nat /\ call[c].epoch <= run.epoch
           /\ \A i \in Items(c) : call[c].used[i] <= Charge(<<c, i>>)
<1>1. call[c] \in CallRecord(c)
    BY DEF IInv, TypeOK
<1>2. call[c].epoch \in Nat
    BY <1>1, BudgetAssumption DEF CallRecord
<1>3. \A i \in Items(c) : call[c].used[i] <= Charge(<<c, i>>)
  <2> SUFFICES ASSUME NEW i \in Items(c)
               PROVE  call[c].used[i] <= Charge(<<c, i>>)
      OBVIOUS
  <2>1. <<c, i>> \in Reservations /\ <<c, i>>[1] = c /\ <<c, i>>[2] = i
      BY ReservationIsItem
  <2> QED
      BY <2>1 DEF IInv, SpendIsCharged
<1> QED
    BY <1>1, <1>2, <1>3 DEF IInv, EpochsInOrder

\* The manager keeps its type and its binding when its gate closes.
LEMMA GateCloses ==
    ASSUME TypeOK, NEW e, manager' = [manager EXCEPT ![e].exhausted = TRUE]
    PROVE  /\ manager' \in [Epochs -> ManagerRecord]
           /\ \A f \in Epochs : manager'[f].bound = manager[f].bound
BY DEF TypeOK, ManagerRecord

\* A call that is refused, cannot settle or dies keeps the invariant.
LEMMA FailingKeeps ==
    ASSUME IInv, NEW c \in Calls, UNCHANGED <<run, ledger, active>>,
           manager' \in [Epochs -> ManagerRecord],
           \A f \in Epochs : manager'[f].bound = manager[f].bound,
           \/ Goes(c, "failed")
           \/ Goes(c, "denied") /\ call[c].pc = "admitting"
    PROVE  IInv'
<1>1. TypeOK
    BY DEF IInv
<1>2. PICK p \in {"failed", "denied"} :
        /\ call' = [call EXCEPT ![c].pc = p]
        /\ p = "denied" => call[c].pc = "admitting"
    BY DEF Goes
<1>3. /\ DOMAIN call' = Calls
      /\ \A d \in Calls : call'[d] \in CallRecord(d)
      /\ call'[c] = [call[c] EXCEPT !.pc = p]
      /\ \A d \in Calls : d # c => call'[d] = call[d]
    BY <1>1, <1>2, MovedCall
<1>4. TypeOK'
    BY <1>1, <1>3 DEF TypeOK
<1>5. call[c] \in CallRecord(c)
    BY CallFacts
<1>6. /\ call'[c].pc = p
      /\ call'[c].epoch = call[c].epoch
      /\ call'[c].next = call[c].next
      /\ call'[c].used = call[c].used
    BY <1>3, <1>5 DEF CallRecord
<1>7. call[c].pc = "admitting" => call[c].next = 1 /\ call[c].used = NothingUsed(c)
    BY DEF IInv, NothingBeforeAdmission
<1>8. QuietMove(c)
    BY <1>2, <1>3, <1>6, <1>7, CallFacts DEF QuietMove
<1> QED
    BY <1>4, <1>8, QuietMovesKeep

\* A call that starts keeps the invariant.
LEMMA StartCallKeeps ==
    ASSUME IInv, NEW c \in Calls, NEW e \in Epochs, StartCall(c, e)
    PROVE  IInv'
<1> DEFINE p == IF manager[e].exhausted THEN "denied" ELSE "reserving"
           row == [call[c] EXCEPT !.epoch = e, !.pc = p]
<1>1. TypeOK /\ call[c] \in CallRecord(c)
    BY CallFacts DEF IInv
<1>2. e \in Nat /\ e \in 0..MaxEpoch /\ p \in {"denied", "reserving"}
    BY BudgetAssumption DEF Epochs
<1>3. call' = [call EXCEPT ![c] = row]
    BY <1>1 DEF StartCall
<1> HIDE DEF p
<1>4. row \in CallRecord(c)
    BY <1>1, <1>2 DEF CallRecord
<1>5. /\ row.pc = p /\ row.epoch = e /\ row.next = call[c].next /\ row.used = call[c].used
    BY <1>1 DEF CallRecord
<1> HIDE DEF row
<1>6. /\ DOMAIN call' = Calls
      /\ \A d \in Calls : call'[d] \in CallRecord(d)
      /\ call'[c] = row
      /\ \A d \in Calls : d # c => call'[d] = call[d]
    BY <1>1, <1>3, <1>4, ReplacedCall
<1>7. UNCHANGED <<run, manager, ledger, active>> /\ call[c].pc = "idle" /\ manager[e].bound
    BY DEF StartCall
<1>8. TypeOK'
    BY <1>1, <1>6, <1>7 DEF TypeOK
<1>9. /\ call[c].next = 1 /\ call[c].used = NothingUsed(c)
      /\ \A i \in Items(c) : ledger[<<c, i>>] = << >>
      /\ e <= run.epoch
    BY <1>7 DEF IInv, NothingBeforeAdmission, EpochsInOrder
<1>10. \A i \in Items(c) : ~Reserved(<<c, i>>)
    BY <1>9 DEF Reserved
<1>11. QuietMove(c)
    BY <1>2, <1>5, <1>6, <1>7, <1>9, <1>10, CallFacts DEF QuietMove
<1> QED
    BY <1>8, <1>11, QuietMovesKeep

\* A call that is served keeps the invariant: what it uses has been reserved.
LEMMA ServeKeeps ==
    ASSUME IInv, NEW c \in Calls, Serve(c)
    PROVE  IInv'
<1>1. TypeOK /\ call[c] \in CallRecord(c)
    BY CallFacts DEF IInv
<1>2. PICK known \in BOOLEAN, used \in Usages(c) :
        call' = [call EXCEPT ![c] = [call[c] EXCEPT !.pc = "settling", !.known = known,
                                                    !.used = used]]
    BY <1>1 DEF Serve, TypeOK
<1> DEFINE row == [call[c] EXCEPT !.pc = "settling", !.known = known, !.used = used]
<1>3. row \in CallRecord(c)
    BY <1>1 DEF CallRecord
<1>4. /\ row.pc = "settling" /\ row.epoch = call[c].epoch /\ row.next = call[c].next
      /\ row.used = used /\ row.expired = call[c].expired
    BY <1>1 DEF CallRecord
<1> HIDE DEF row
<1>5. /\ DOMAIN call' = Calls
      /\ \A d \in Calls : call'[d] \in CallRecord(d)
      /\ call'[c] = row
      /\ \A d \in Calls : d # c => call'[d] = call[d]
    BY <1>1, <1>2, <1>3, ReplacedCall DEF row
<1>6. UNCHANGED <<run, manager, ledger, active>> /\ call[c].pc = "calling"
    BY DEF Serve
<1>7. TypeOK'
    BY <1>1, <1>5, <1>6 DEF TypeOK
<1>8. /\ call[c].next = 1
      /\ \A i \in Items(c) : Charge(<<c, i>>) = Amount(<<c, i>>)
    BY <1>6 DEF IInv, CallingIsCharged
<1>9. \A i \in Items(c) : used[i] <= Amount(<<c, i>>)
    BY UsedIsReserved
<1>10. 1 \in Items(c)
    BY ItemsAreNumbered
<1>11. QuietMove(c)
    BY <1>4, <1>5, <1>6, <1>8, <1>9, <1>10, CallFacts DEF QuietMove
<1> QED
    BY <1>7, <1>11, QuietMovesKeep

\* The expiry of a call's reservations keeps the invariant.
LEMMA ReservationExpiresKeeps ==
    ASSUME IInv, NEW c \in Calls, ReservationExpires(c)
    PROVE  IInv'
<1> DEFINE row == [call[c] EXCEPT !.expired = TRUE]
<1>1. TypeOK /\ call[c] \in CallRecord(c)
    BY CallFacts DEF IInv
<1>2. call' = [call EXCEPT ![c] = row]
    BY <1>1 DEF ReservationExpires, TypeOK
<1>3. row \in CallRecord(c)
    BY <1>1 DEF CallRecord
<1>4. /\ row.pc = call[c].pc /\ row.epoch = call[c].epoch /\ row.next = call[c].next
      /\ row.used = call[c].used /\ row.expired = TRUE
    BY <1>1 DEF CallRecord
<1> HIDE DEF row
<1>5. /\ DOMAIN call' = Calls
      /\ \A d \in Calls : call'[d] \in CallRecord(d)
      /\ call'[c] = row
      /\ \A d \in Calls : d # c => call'[d] = call[d]
    BY <1>1, <1>2, <1>3, ReplacedCall
<1>6. UNCHANGED <<run, manager, ledger, active>>
    BY DEF ReservationExpires
<1>7. TypeOK'
    BY <1>1, <1>5, <1>6 DEF TypeOK
<1>8. QuietMove(c)
    BY <1>4, <1>5, <1>6, CallFacts
    DEF QuietMove, IInv, NothingBeforeAdmission, CallingIsCharged, SettlingHasItem
<1> QED
    BY <1>7, <1>8, QuietMovesKeep

\* The reconciliation before an admission keeps the invariant.
LEMMA ReconcileFirstKeeps ==
    ASSUME IInv, NEW c \in Calls, ReconcileFirst(c)
    PROVE  IInv'
<1> DEFINE e == call[c].epoch
<1>1. TypeOK /\ EndsOnce /\ call[c] \in CallRecord(c)
    BY CallFacts DEF IInv
<1>2. UNCHANGED <<run, manager, active>> /\ call[c].pc = "reserving"
    BY DEF ReconcileFirst
<1>3. CASE ~Authority(e)
  <2>1. ledger' = ledger /\ Goes(c, "failed")
      BY <1>3 DEF ReconcileFirst
  <2> QED
      BY <1>1, <1>2, <2>1, FailingKeeps DEF TypeOK
<1>4. CASE Authority(e)
  <2>1. ledger' = Reconciled(e) /\ call' = [call EXCEPT ![c].pc = "admitting"]
      BY <1>4 DEF ReconcileFirst, Goes
  <2>2. e \in Epochs
    <3>1. e \in 0..MaxEpoch
        BY <1>1 DEF CallRecord
    <3>2. e # 0
        BY <1>4 DEF Authority, IInv, EpochsInOrder
    <3> HIDE DEF e
    <3> QED
        BY <3>1, <3>2, BudgetAssumption DEF Epochs
  <2>3. /\ DOMAIN call' = Calls
        /\ \A d \in Calls : call'[d] \in CallRecord(d)
        /\ call'[c] = [call[c] EXCEPT !.pc = "admitting"]
        /\ \A d \in Calls : d # c => call'[d] = call[d]
      BY <1>1, <2>1, MovedCall
  <2>4. CallsGoOn
      BY <1>1, <1>2, <2>3 DEF CallsGoOn, CallRecord
  <2>5. TypeOK'
      BY <1>1, <1>2, <2>1, <2>2, <2>3, ReconciledType DEF TypeOK
  <2> QED
      BY <1>2, <1>4, <2>1, <2>2, <2>4, <2>5, ReconciliationKeeps
<1> QED
    BY <1>3, <1>4

\* The row that opens a reservation.
LEMMA OpenedRow ==
    ASSUME NEW x \in Reservations
    PROVE  LET s == <<Entry("reserved", Amount(x))>>
           IN  /\ s \in Seq(EntryRecord)
               /\ s # << >>
               /\ Len(s) = 1
               /\ Last(s).status = "reserved"
               /\ Last(s).charge = Amount(x)
<1> DEFINE y == Entry("reserved", Amount(x))
<1>1. y \in EntryRecord /\ y.status = "reserved" /\ y.charge = Amount(x)
    BY AmountIsNat DEF Entry, EntryRecord
<1> HIDE DEF y
<1>2. <<y>> \in Seq(EntryRecord) /\ Len(<<y>>) = 1 /\ <<y>>[1] = y
    BY <1>1
<1>3. <<y>> # << >>
    BY <1>2
<1>4. Last(<<y>>) = y
    BY <1>2 DEF Last
<1> QED
    BY <1>1, <1>2, <1>3, <1>4 DEF y

\* An admission keeps the invariant.
LEMMA AdmitKeeps ==
    ASSUME IInv, NEW c \in Calls, Admit(c)
    PROVE  IInv'
<1> USE DEF IInv
<1>1. UNCHANGED <<run, manager, active>> /\ call[c].pc = "admitting"
      /\ call' = [call EXCEPT ![c].pc = "calling"]
    BY DEF Admit, Goes
<1>2. call[c] \in CallRecord(c) /\ call[c].epoch \in Nat
    BY CallFacts
<1>3. Authority(call[c].epoch)
    BY DEF Admit, MayReserve
<1>4. /\ DOMAIN call' = Calls
      /\ \A d \in Calls : call'[d] \in CallRecord(d)
      /\ call'[c] = [call[c] EXCEPT !.pc = "calling"]
      /\ \A d \in Calls : d # c => call'[d] = call[d]
    BY <1>1, MovedCall
<1>5. /\ call'[c].pc = "calling"
      /\ call'[c].epoch = call[c].epoch
      /\ call'[c].next = 1
      /\ call'[c].used = NothingUsed(c)
    BY <1>1, <1>2, <1>4 DEF CallRecord, NothingBeforeAdmission
<1>6. ASSUME NEW x \in Reservations, x[1] = c
      PROVE  /\ ledger'[x] \in Seq(EntryRecord)
             /\ ledger'[x] # << >>
             /\ Len(ledger'[x]) = 1
             /\ Last(ledger'[x]).status = "reserved"
             /\ Last(ledger'[x]).charge = Amount(x)
    BY <1>6, OpenedRow DEF Admit
<1>7. ASSUME NEW x \in Reservations, x[1] # c
      PROVE  ledger'[x] = ledger[x]
    BY <1>7 DEF Admit
<1>8. TypeOK'
  <2>1. ASSUME NEW x \in Reservations PROVE ledger'[x] \in Seq(EntryRecord)
      BY <1>6, <1>7 DEF TypeOK
  <2>2. ledger' = [x \in Reservations |-> ledger'[x]]
      BY DEF Admit
  <2>3. ledger' \in [Reservations -> Seq(EntryRecord)]
      BY <2>1, <2>2
  <2> QED
      BY <1>1, <1>4, <2>3 DEF TypeOK
<1>9. EpochsInOrder'
    BY <1>1, <1>4, <1>5 DEF EpochsInOrder
<1>10. NothingBeforeAdmission'
  <2> SUFFICES ASSUME NEW d \in Calls, d # c,
                      call[d].pc \in {"idle", "reserving", "admitting", "denied"}
               PROVE  \A i \in Items(d) : ledger'[<<d, i>>] = << >>
      BY <1>4, <1>5 DEF NothingBeforeAdmission
  <2> QED
      BY <1>7, ReservationIsItem DEF NothingBeforeAdmission
<1>11. CallingIsCharged'
  <2> SUFFICES ASSUME NEW d \in Calls, call'[d].pc = "calling", NEW i \in Items(d)
               PROVE  call'[d].next = 1 /\ Charge(<<d, i>>)' = Amount(<<d, i>>)
    <3>1. \A d \in Calls : call'[d].pc = "calling" => call'[d].next = 1
        BY <1>4, <1>5 DEF CallingIsCharged
    <3> QED
        BY <3>1 DEF CallingIsCharged
  <2>1. <<d, i>> \in Reservations /\ <<d, i>>[1] = d
      BY ReservationIsItem
  <2>2. CASE d = c
      BY <1>5, <1>6, <2>1, <2>2 DEF Charge
  <2>3. CASE d # c
      BY <1>4, <1>7, <2>1, <2>3 DEF CallingIsCharged, Charge
  <2> QED
      BY <2>2, <2>3
<1>12. SettlingHasItem'
    BY <1>4, <1>5 DEF SettlingHasItem
<1>13. EndsOnce'
  <2> SUFFICES ASSUME NEW x \in Reservations
               PROVE  /\ Len(ledger'[x]) <= 2
                      /\ Len(ledger'[x]) = 2 => /\ ledger'[x][1].status = "reserved"
                                                /\ ledger'[x][2].status # "reserved"
      BY DEF EndsOnce
  <2>1. CASE x[1] = c
    <3>1. Len(ledger'[x]) = 1
        BY <1>6, <2>1
    <3>2. 1 <= 2 /\ 1 # 2
        OBVIOUS
    <3> QED
        BY <3>1, <3>2
  <2>2. CASE x[1] # c
      BY <1>7, <2>2 DEF EndsOnce
  <2> QED
      BY <2>1, <2>2
<1>14. SpendIsCharged'
  <2> SUFFICES ASSUME NEW x \in Reservations
               PROVE  call'[x[1]].used[x[2]] <= Charge(x)'
      BY DEF SpendIsCharged
  <2>1. x[1] \in Calls /\ x[2] \in Items(x[1]) /\ Amount(x) \in Nat
      BY ReservationIsItem, AmountIsNat
  <2>2. CASE x[1] = c
    <3>1. call'[x[1]].used[x[2]] = 0
        BY <1>5, <2>1, <2>2 DEF NothingUsed
    <3>2. Charge(x)' = Amount(x)
        BY <1>6, <2>2 DEF Charge
    <3> QED
        BY <2>1, <3>1, <3>2
  <2>3. CASE x[1] # c
      BY <1>4, <1>7, <2>1, <2>3 DEF SpendIsCharged, Charge
  <2> QED
      BY <2>2, <2>3
<1>15. LiveCallCanSettle'
  <2> SUFFICES ASSUME NEW d \in Calls, NEW i \in Items(d),
                      call'[d].pc \in {"calling", "settling"}, ~call'[d].expired,
                      Authority(call'[d].epoch), i >= call'[d].next
               PROVE  Reserved(<<d, i>>)'
      BY <1>1 DEF LiveCallCanSettle, Authority
  <2>1. <<d, i>> \in Reservations /\ <<d, i>>[1] = d
      BY ReservationIsItem
  <2>2. CASE d = c
      BY <1>6, <2>1, <2>2 DEF Reserved
  <2>3. CASE d # c
      BY <1>4, <1>7, <2>1, <2>3 DEF LiveCallCanSettle, Reserved
  <2> QED
      BY <2>2, <2>3
<1>16. EarlierEpochsClosed'
  <2> SUFFICES ASSUME NEW f \in Epochs, manager[f].bound,
                      NEW x \in Reservations, Reserved(x)'
               PROVE  call'[x[1]].epoch >= f
      BY <1>1 DEF EarlierEpochsClosed
  <2>1. x[1] \in Calls
      BY ReservationIsItem
  <2>2. CASE x[1] = c
    <3>1. call'[x[1]].epoch = run.epoch
        BY <1>3, <1>5, <2>2 DEF Authority
    <3>2. f \in Nat /\ f <= run.epoch
        BY BudgetAssumption DEF Epochs, EpochsInOrder
    <3> QED
        BY <1>2, <1>5, <2>2, <3>1, <3>2
  <2>3. CASE x[1] # c
      BY <1>4, <1>7, <2>1, <2>3 DEF EarlierEpochsClosed, Reserved
  <2> QED
      BY <2>2, <2>3
<1> QED
    BY <1>8, <1>9, <1>10, <1>11, <1>12, <1>13, <1>14, <1>15, <1>16

\* What a settlement writes closes the reservation and charges what was used.
LEMMA SettlementRow ==
    ASSUME IInv, NEW c \in Calls, NEW i \in Items(c)
    PROVE  /\ Settlement(<<c, i>>) \in EntryRecord
           /\ Settlement(<<c, i>>).status # "reserved"
           /\ call[c].used[i] <= Settlement(<<c, i>>).charge
<1> DEFINE x == <<c, i>>
<1>1. call[c].used \in Usages(c) \cup {NothingUsed(c)}
    BY CallFacts DEF CallRecord
<1>2. call[c].used[i] \in Nat /\ call[c].used[i] <= Amount(x) /\ Amount(x) \in Nat
    BY <1>1, UsedIsReserved, AmountIsNat, ReservationIsItem
<1>3. \/ Settlement(x) = [status |-> "settled", charge |-> call[c].used[i]]
      \/ Settlement(x) = [status |-> "unknown_spend", charge |-> Amount(x)]
    BY DEF Settlement, Entry
<1> HIDE DEF x
<1>4. CASE Settlement(x) = [status |-> "settled", charge |-> call[c].used[i]]
    BY <1>2, <1>4 DEF EntryRecord, x
<1>5. CASE Settlement(x) = [status |-> "unknown_spend", charge |-> Amount(x)]
    BY <1>2, <1>5 DEF EntryRecord, x
<1> QED
    BY <1>3, <1>4, <1>5

\* The settlement of one item keeps the invariant.
LEMMA SettleItemKeeps ==
    ASSUME IInv, NEW c \in Calls, SettleItem(c)
    PROVE  IInv'
<1> USE DEF IInv
<1> DEFINE i == call[c].next
           x == <<c, i>>
           p == IF i = Len(Bundle[c]) THEN "done" ELSE "settling"
           j == i + 1
           row == [call[c] EXCEPT !.next = j, !.pc = p]
<1>1. UNCHANGED <<run, manager, active>> /\ call[c].pc = "settling" /\ Reserved(x)
    BY DEF SettleItem, MaySettle
<1>2. /\ ledger' = [ledger EXCEPT ![x] = Append(@, Settlement(x))]
      /\ call' = [call EXCEPT ![c] = row]
  <2>1. ledger' = [ledger EXCEPT ![x] = Append(ledger[x], Settlement(x))]
      BY Zenon DEF SettleItem
  <2>2. call' = [call EXCEPT ![c] = row]
      BY Zenon DEF SettleItem
  <2> QED
      BY <2>1, <2>2
<1>3. call[c] \in CallRecord(c) /\ call[c].epoch \in Nat
    BY CallFacts
<1>4. i \in Items(c) /\ i \in Nat /\ i <= Len(Bundle[c]) /\ Len(Bundle[c]) \in Nat
    BY <1>1, ItemsAreNumbered DEF SettlingHasItem
<1>5. j \in 1..(Len(Bundle[c]) + 1) /\ j \in Nat /\ (p # "done" => j \in Items(c))
    BY <1>1, <1>4, ItemsAreNumbered
<1>6. x \in Reservations /\ x[1] = c /\ x[2] = i
    BY <1>4, ReservationIsItem
<1>7. p \in {"done", "settling"}
    BY <1>1
<1>8. j > i
    BY <1>4
<1> HIDE DEF p, j
<1>9. row \in CallRecord(c)
    BY <1>3, <1>5, <1>7 DEF CallRecord
<1>10. /\ row.pc = p /\ row.epoch = call[c].epoch /\ row.next = j
       /\ row.used = call[c].used /\ row.expired = call[c].expired
    BY <1>3 DEF CallRecord
<1> HIDE DEF row
<1>11. /\ DOMAIN call' = Calls
       /\ \A d \in Calls : call'[d] \in CallRecord(d)
       /\ call'[c] = row
       /\ \A d \in Calls : d # c => call'[d] = call[d]
    BY <1>2, <1>9, ReplacedCall
<1>12. /\ Settlement(x) \in EntryRecord
       /\ Settlement(x).status # "reserved"
       /\ call[c].used[i] <= Settlement(x).charge
    BY <1>4, SettlementRow
<1> HIDE DEF x
<1>13. /\ ledger'[x] = Append(ledger[x], Settlement(x))
       /\ \A y \in Reservations : y # x => ledger'[y] = ledger[y]
    BY <1>2, <1>6 DEF TypeOK
<1>14. /\ ledger'[x] \in Seq(EntryRecord)
       /\ ledger'[x] # << >>
       /\ Len(ledger'[x]) = 2
       /\ ledger'[x][1].status = "reserved"
       /\ ledger'[x][2] = Settlement(x)
       /\ Last(ledger'[x]) = Settlement(x)
    BY <1>1, <1>6, <1>12, <1>13, ClosedRow
<1>15. \A d \in Calls : \A k \in Items(d) :
         <<d, k>> \in Reservations /\ (<<d, k>> = x => d = c /\ k = i)
    BY ReservationIsItem DEF x
<1> HIDE DEF i
<1>16. TypeOK'
  <2>1. ledger \in [Reservations -> Seq(EntryRecord)]
      BY DEF TypeOK
  <2>2. ASSUME NEW y \in Reservations PROVE ledger'[y] \in Seq(EntryRecord)
      BY <1>13, <1>14, <2>1
  <2>3. ledger' = [y \in Reservations |-> ledger'[y]]
      BY <1>2, <2>1
  <2>4. ledger' \in [Reservations -> Seq(EntryRecord)]
      BY <2>2, <2>3
  <2> QED
      BY <1>1, <1>11, <2>4 DEF TypeOK
<1>17. EpochsInOrder'
    BY <1>1, <1>10, <1>11 DEF EpochsInOrder
<1>18. NothingBeforeAdmission'
  <2> SUFFICES ASSUME NEW d \in Calls, d # c, NEW k \in Items(d),
                      call[d].pc \in {"idle", "reserving", "admitting", "denied"}
               PROVE  ledger'[<<d, k>>] = << >>
      BY <1>7, <1>10, <1>11 DEF NothingBeforeAdmission
  <2> QED
      BY <1>13, <1>15 DEF NothingBeforeAdmission
<1>19. CallingIsCharged'
  <2> SUFFICES ASSUME NEW d \in Calls, d # c, call[d].pc = "calling", NEW k \in Items(d)
               PROVE  Charge(<<d, k>>)' = Amount(<<d, k>>)
      BY <1>7, <1>10, <1>11 DEF CallingIsCharged
  <2> QED
      BY <1>13, <1>15 DEF CallingIsCharged, Charge
<1>20. SettlingHasItem'
    BY <1>5, <1>10, <1>11 DEF SettlingHasItem
<1>21. EndsOnce'
  <2> SUFFICES ASSUME NEW y \in Reservations
               PROVE  /\ Len(ledger'[y]) <= 2
                      /\ Len(ledger'[y]) = 2 => /\ ledger'[y][1].status = "reserved"
                                                /\ ledger'[y][2].status # "reserved"
      BY DEF EndsOnce
  <2>1. CASE y = x
    <3>1. 2 <= 2
        OBVIOUS
    <3> QED
        BY <1>12, <1>14, <2>1, <3>1
  <2>2. CASE y # x
      BY <1>13, <2>2 DEF EndsOnce
  <2> QED
      BY <2>1, <2>2
<1>22. SpendIsCharged'
  <2> SUFFICES ASSUME NEW y \in Reservations
               PROVE  call'[y[1]].used[y[2]] <= Charge(y)'
      BY DEF SpendIsCharged
  <2>1. y[1] \in Calls /\ call'[y[1]].used = call[y[1]].used
      BY <1>10, <1>11, ReservationIsItem
  <2>2. CASE y = x
      BY <1>6, <1>12, <1>14, <2>1, <2>2 DEF Charge
  <2>3. CASE y # x
      BY <1>13, <2>1, <2>3 DEF SpendIsCharged, Charge
  <2> QED
      BY <2>2, <2>3
<1>23. LiveCallCanSettle'
  <2> SUFFICES ASSUME NEW d \in Calls, NEW k \in Items(d),
                      call'[d].pc \in {"calling", "settling"}, ~call'[d].expired,
                      Authority(call'[d].epoch), k >= call'[d].next
               PROVE  Reserved(<<d, k>>)'
      BY <1>1 DEF LiveCallCanSettle, Authority
  <2>1. CASE d = c
    <3>1. k >= j /\ k \in Nat
        BY <1>10, <1>11, <2>1, ItemsAreNumbered
    <3>2. k # i /\ k >= i
        BY <1>4, <1>5, <1>8, <3>1
    <3>3. Reserved(<<d, k>>)
        BY <1>1, <1>10, <1>11, <2>1, <3>2 DEF LiveCallCanSettle, i
    <3> QED
        BY <1>13, <1>15, <3>2, <3>3 DEF Reserved
  <2>2. CASE d # c
      BY <1>11, <1>13, <1>15, <2>2 DEF LiveCallCanSettle, Reserved
  <2> QED
      BY <2>1, <2>2
<1>24. EarlierEpochsClosed'
  <2> SUFFICES ASSUME NEW f \in Epochs, manager[f].bound,
                      NEW y \in Reservations, Reserved(y)'
               PROVE  call'[y[1]].epoch >= f
      BY <1>1 DEF EarlierEpochsClosed
  <2>1. y # x
      BY <1>12, <1>14 DEF Reserved
  <2>2. Reserved(y)
      BY <1>13, <2>1 DEF Reserved
  <2>3. call'[y[1]].epoch = call[y[1]].epoch
      BY <1>10, <1>11, ReservationIsItem
  <2> QED
      BY <2>2, <2>3 DEF EarlierEpochsClosed
<1> QED
    BY <1>16, <1>17, <1>18, <1>19, <1>20, <1>21, <1>22, <1>23, <1>24

\* Whatever a call does keeps the invariant.
LEMMA CallMovesKeep ==
    ASSUME IInv, NEW c \in Calls,
           \/ \E e \in Epochs : StartCall(c, e)
           \/ ReconcileFirst(c) \/ Admit(c) \/ Deny(c) \/ Refuse(c)
           \/ Serve(c) \/ SettleItem(c) \/ CannotSettle(c)
           \/ Abandon(c) \/ ReservationExpires(c)
    PROVE  IInv'
<1>1. TypeOK /\ manager \in [Epochs -> ManagerRecord]
    BY DEF IInv, TypeOK
<1>2. CASE \E e \in Epochs : StartCall(c, e)
    BY <1>2, StartCallKeeps
<1>3. CASE Deny(c)
  <2>1. /\ UNCHANGED <<run, ledger, active>> /\ call[c].pc = "admitting"
        /\ manager' = [manager EXCEPT ![call[c].epoch].exhausted = TRUE]
        /\ Goes(c, "denied")
      BY <1>3 DEF Deny
  <2>2. /\ manager' \in [Epochs -> ManagerRecord]
        /\ \A f \in Epochs : manager'[f].bound = manager[f].bound
      BY <1>1, <2>1, GateCloses
  <2> QED
      BY <2>1, <2>2, FailingKeeps
<1>4. CASE Refuse(c) \/ CannotSettle(c) \/ Abandon(c)
  <2>1. UNCHANGED <<run, manager, ledger, active>> /\ Goes(c, "failed")
      BY <1>4 DEF Refuse, CannotSettle, Abandon
  <2> QED
      BY <1>1, <2>1, FailingKeeps
<1> QED
    BY <1>2, <1>3, <1>4, ReconcileFirstKeeps, AdmitKeeps, ServeKeeps, SettleItemKeeps,
       ReservationExpiresKeeps

-----------------------------------------------------------------------------
(***************************************************************************)
(* The theorems.                                                           *)
(***************************************************************************)

\* The invariant holds of the empty ledger.
LEMMA InitialLedger ==
    ASSUME Init
    PROVE  IInv
<1> USE DEF Init
<1>1. run \in RunRecord /\ manager \in [Epochs -> ManagerRecord] /\ active \in [Epochs -> Nat]
    BY BudgetAssumption DEF RunRecord, ManagerRecord
<1>2. ASSUME NEW c \in Calls PROVE call[c] = NotMade(c) /\ call[c] \in CallRecord(c)
  <2>1. call[c] = NotMade(c)
      OBVIOUS
  <2>2. 1 \in 1..(Len(Bundle[c]) + 1) /\ 0 \in 0..MaxEpoch
      BY ItemsAreNumbered, BudgetAssumption
  <2> HIDE DEF Init
  <2> QED
      BY <2>1, <2>2 DEF NotMade, CallRecord
<1>3. ledger \in [Reservations -> Seq(EntryRecord)] /\ \A x \in Reservations : ledger[x] = << >>
    OBVIOUS
<1>4. TypeOK
    BY <1>1, <1>2, <1>3 DEF TypeOK
<1>5. EpochsInOrder
    BY <1>2 DEF EpochsInOrder, NotMade
<1>6. NothingBeforeAdmission
    BY <1>2, <1>3, ReservationIsItem DEF NothingBeforeAdmission, NotMade
<1>7. CallingIsCharged /\ SettlingHasItem /\ LiveCallCanSettle
    BY <1>2 DEF CallingIsCharged, SettlingHasItem, LiveCallCanSettle, NotMade
<1>8. EndsOnce
    BY <1>3 DEF EndsOnce
<1>9. SpendIsCharged
    BY <1>2, <1>3, ReservationIsItem DEF SpendIsCharged, Charge, NotMade, NothingUsed
<1>10. EarlierEpochsClosed
    BY DEF EarlierEpochsClosed
<1> QED
    BY <1>4, <1>5, <1>6, <1>7, <1>8, <1>9, <1>10 DEF IInv

\* No step of a lease, an execution or a call breaks the invariant.
THEOREM LedgerInvariant == Spec => []IInv
<1>1. Init => IInv
    BY InitialLedger
<1>2. IInv /\ [Next]_vars => IInv'
  <2> SUFFICES ASSUME IInv, [Next]_vars
               PROVE  IInv'
      OBVIOUS
  <2>1. CASE Grant \/ RequestCancel \/ Release \/ LeaseExpires
      BY <2>1, LeaseMovesKeep
  <2>2. CASE \E e \in Epochs : Bind(e) \/ TimePasses(e) \/ CheckTime(e) \/ RecordActive(e)
      BY <2>2, EpochMovesKeep
  <2>3. CASE \E c \in Calls :
               \/ \E e \in Epochs : StartCall(c, e)
               \/ ReconcileFirst(c) \/ Admit(c) \/ Deny(c) \/ Refuse(c)
               \/ Serve(c) \/ SettleItem(c) \/ CannotSettle(c)
               \/ Abandon(c) \/ ReservationExpires(c)
      BY <2>3, CallMovesKeep
  <2>4. CASE UNCHANGED vars
      BY <2>4 DEF vars, IInv, TypeOK, EpochsInOrder, NothingBeforeAdmission,
                  CallingIsCharged, SettlingHasItem, EndsOnce, SpendIsCharged,
                  LiveCallCanSettle, EarlierEpochsClosed, Charge, Reserved, Authority
  <2> QED
      BY <2>1, <2>2, <2>3, <2>4 DEF Next
<1> QED
    BY <1>1, <1>2, PTL DEF Spec

\* Whatever calls, bundles and limits: the tables of the ledger keep their types.
THEOREM LedgerTypes == Spec => []TypeOK
<1>1. IInv => TypeOK
    BY DEF IInv
<1> QED
    BY <1>1, LedgerInvariant, PTL

\* What a provider has served stays charged, through every crash, reconciliation,
\* failed settlement and change of epoch.
THEOREM ServedIsCharged == Spec => []SpendIsCharged
<1>1. IInv => SpendIsCharged
    BY DEF IInv
<1> QED
    BY <1>1, LedgerInvariant, PTL

\* A reservation is opened once and closed at most once.
THEOREM ReservationsEndOnce == Spec => []EndsOnce
<1>1. IInv => EndsOnce
    BY DEF IInv
<1> QED
    BY <1>1, LedgerInvariant, PTL

\* Nobody reconciles away what a live call within its time has still to settle.
THEOREM LiveCallsCanSettle == Spec => []LiveCallCanSettle
<1>1. IInv => LiveCallCanSettle
    BY DEF IInv
<1> QED
    BY <1>1, LedgerInvariant, PTL

\* An execution that has bound its manager leaves nothing of earlier ones open.
THEOREM EarlierEpochsAreClosed == Spec => []EarlierEpochsClosed
<1>1. IInv => EarlierEpochsClosed
    BY DEF IInv
<1> QED
    BY <1>1, LedgerInvariant, PTL

\* The books balance through crashes, reconciliations, failed settlements and
\* changes of epoch.
THEOREM BooksAlwaysBalance == Spec => []BooksBalance
<1>1. IInv => BooksBalance
    BY DEF IInv, BooksBalance
<1> QED
    BY <1>1, LedgerInvariant, PTL

\* Nothing is open that nobody can close.
THEOREM OpenReservationsAreOwned == Spec => []OpenIsOwned
<1>1. IInv => OpenIsOwned
    BY DEF IInv, OpenIsOwned
<1> QED
    BY <1>1, LedgerInvariant, PTL

\* Only an admission takes a call to its provider, and the gate of its execution is
\* open then.
LEMMA CallingIsAdmitted ==
    ASSUME IInv, Next, NEW c \in Calls, call[c].pc # "calling", call'[c].pc = "calling"
    PROVE  Admit(c) /\ ~manager[call[c].epoch].exhausted
<1>1. DOMAIN call = Calls /\ \A d \in Calls : call[d] \in CallRecord(d)
    BY DEF IInv, TypeOK
<1>2. CASE \E d \in Calls : Admit(d)
  <2>1. PICK d \in Calls : Admit(d)
      BY <1>2
  <2>2. d = c
      BY <1>1, <2>1 DEF Admit, Goes
  <2> QED
      BY <2>1, <2>2 DEF Admit, Denies
<1>3. CASE UNCHANGED call
    BY <1>3
<1>4. ASSUME NEW d \in Calls, NEW p \in {"denied", "failed", "admitting"},
             call' = [call EXCEPT ![d].pc = p]
      PROVE  FALSE
    BY <1>1, <1>4 DEF CallRecord
<1>5. ASSUME NEW d \in Calls, NEW e \in Epochs, StartCall(d, e)
      PROVE  FALSE
    BY <1>1, <1>5 DEF StartCall, CallRecord
<1>6. ASSUME NEW d \in Calls, ReconcileFirst(d) \/ Deny(d) \/ Refuse(d) \/ CannotSettle(d)
                              \/ Abandon(d)
      PROVE  FALSE
    BY <1>4, <1>6 DEF ReconcileFirst, Deny, Refuse, CannotSettle, Abandon, Goes
<1>7. ASSUME NEW d \in Calls, Serve(d)
      PROVE  FALSE
    BY <1>1, <1>7 DEF Serve, CallRecord
<1>8. ASSUME NEW d \in Calls, SettleItem(d)
      PROVE  FALSE
  <2> DEFINE j == call[d].next + 1
  <2>1. call' = [call EXCEPT ![d] = [call[d] EXCEPT !.next = j,
                   !.pc = IF call[d].next = Len(Bundle[d]) THEN "done" ELSE "settling"]]
      BY <1>8 DEF SettleItem
  <2> HIDE DEF j
  <2> QED
      BY <1>1, <2>1 DEF CallRecord
<1>9. ASSUME NEW d \in Calls, ReservationExpires(d)
       PROVE  FALSE
    BY <1>1, <1>9 DEF ReservationExpires, CallRecord
<1>10. ASSUME NEW e \in Epochs, Bind(e) \/ TimePasses(e) \/ CheckTime(e) \/ RecordActive(e)
       PROVE  UNCHANGED call
    BY <1>10 DEF Bind, TimePasses, CheckTime, RecordActive
<1>11. Grant \/ RequestCancel \/ Release \/ LeaseExpires => UNCHANGED call
    BY DEF Grant, RequestCancel, Release, LeaseExpires
<1> QED
    BY <1>2, <1>3, <1>5, <1>6, <1>7, <1>8, <1>9, <1>10, <1>11 DEF Next

\* Once a denial has closed the gate of an execution, none of its calls is admitted.
THEOREM DenialClosesTheGate == Spec => NoAdmissionAfterDenial
<1>1. IInv /\ [Next]_vars =>
        [\A c \in Calls : call[c].pc # "calling" /\ call'[c].pc = "calling" =>
           ~manager[call[c].epoch].exhausted]_vars
    BY CallingIsAdmitted
<1> QED
    BY <1>1, LedgerInvariant, PTL DEF Spec, NoAdmissionAfterDenial

-----------------------------------------------------------------------------
(***************************************************************************)
(* Sums over finite sets.  MapThenSumSet picks its elements one by one;    *)
(* what it returns does not depend on which it picks.                      *)
(***************************************************************************)

One(s) == CHOOSE x \in s : TRUE

\* g sums ch over each subset of S.
IsSum(ch, S, g) ==
    g = [s \in SUBSET S |-> IF s = {} THEN 0 ELSE ch[One(s)] + g[s \ {One(s)}]]

\* The sum of ch over S.
Total(ch, S) == MapThenSumSet(LAMBDA x : ch[x], S)

\* Numbers for the elements of S.
Numbers(ch, S) == \A x \in S : ch[x] \in Nat

\* Of the subsets of a finite set, some have no smaller one among them.
LEMMA SmallestSubset ==
    ASSUME NEW S, IsFiniteSet(S), NEW B \in SUBSET SUBSET S, B # {}
    PROVE  \E u \in B : \A t \in SUBSET u : t # u => t \notin B
<1>1. FiniteSubsetsOf(S) = SUBSET S
    BY FS_FiniteSubsetsOfFinite
<1>2. IsWellFoundedOn(StrictSubsetOrdering(S), SUBSET S)
    BY <1>1, FS_StrictSubsetOrderingWellFounded
<1>3. PICK u \in B : \A t \in B : <<t, u>> \notin StrictSubsetOrdering(S)
    BY <1>2, WFMin
<1>4. ASSUME NEW t \in SUBSET u, t # u, t \in B
      PROVE  FALSE
    BY <1>3, <1>4 DEF StrictSubsetOrdering
<1> QED
    BY <1>3, <1>4

\* A set that is not empty is one element and the rest.
LEMMA OneAndTheRest ==
    ASSUME NEW s, s # {}
    PROVE  One(s) \in s /\ s \ {One(s)} \in SUBSET s /\ s \ {One(s)} # s
BY DEF One

\* Sums of the same numbers agree.
LEMMA SumsAgree ==
    ASSUME NEW S, NEW T \in SUBSET S, IsFiniteSet(T), NEW ch, NEW dh,
           \A x \in T : ch[x] = dh[x],
           NEW g, IsSum(ch, S, g), NEW h, IsSum(dh, T, h)
    PROVE  \A u \in SUBSET T : g[u] = h[u]
<1> DEFINE B == {u \in SUBSET T : g[u] # h[u]}
<1> SUFFICES ASSUME B # {} PROVE FALSE
    OBVIOUS
<1>0. B \in SUBSET SUBSET T
    OBVIOUS
<1> HIDE DEF B
<1>1. PICK u \in B : \A t \in SUBSET u : t # u => t \notin B
    BY <1>0, SmallestSubset
<1>2. /\ g[u] = IF u = {} THEN 0 ELSE ch[One(u)] + g[u \ {One(u)}]
      /\ h[u] = IF u = {} THEN 0 ELSE dh[One(u)] + h[u \ {One(u)}]
    BY <1>0, <1>1 DEF IsSum
<1>3. u # {} /\ g[u] # h[u]
    BY <1>1, <1>2 DEF B
<1>4. g[u \ {One(u)}] = h[u \ {One(u)}] /\ ch[One(u)] = dh[One(u)]
    BY <1>0, <1>1, <1>3, OneAndTheRest DEF B
<1> QED
    BY <1>2, <1>3, <1>4

\* There is a sum.
LEMMA SumsExist ==
    ASSUME NEW S, IsFiniteSet(S), NEW ch, Numbers(ch, S)
    PROVE  \E g \in [SUBSET S -> Nat] : IsSum(ch, S, g)
<1> DEFINE Sums(u) == {g \in [SUBSET u -> Nat] : IsSum(ch, u, g)}
           F(u) == CHOOSE g : g \in Sums(u)
           B == {u \in SUBSET S : Sums(u) = {}}
<1> SUFFICES ASSUME B # {} PROVE FALSE
    OBVIOUS
<1>0. B \in SUBSET SUBSET S
    OBVIOUS
<1> HIDE DEF B
<1>1. PICK u \in B : \A t \in SUBSET u : t # u => t \notin B
    BY <1>0, SmallestSubset
<1>2. ASSUME NEW t \in SUBSET u, t # u
      PROVE  F(t) \in Sums(t)
  <2>1. Sums(t) # {}
      BY <1>0, <1>1, <1>2 DEF B
  <2> QED
      BY <2>1
<1> DEFINE G == [s \in SUBSET u |->
                   IF s = {} THEN 0 ELSE ch[One(s)] + F(s \ {One(s)})[s \ {One(s)}]]
<1>3. ASSUME NEW s \in SUBSET u, s # {}
      PROVE  /\ s \ {One(s)} \in SUBSET u /\ s \ {One(s)} # u
             /\ ch[One(s)] \in Nat /\ F(s \ {One(s)}) \in Sums(s \ {One(s)})
             /\ F(s \ {One(s)})[s \ {One(s)}] \in Nat
  <2>1. One(s) \in s /\ s \ {One(s)} \in SUBSET u /\ s \ {One(s)} # u
      BY <1>3, OneAndTheRest
  <2>2. ch[One(s)] \in Nat
      BY <1>0, <1>1, <2>1 DEF Numbers
  <2>3. F(s \ {One(s)}) \in Sums(s \ {One(s)})
      BY <1>2, <2>1
  <2> HIDE DEF F
  <2>4. F(s \ {One(s)})[s \ {One(s)}] \in Nat
      BY <2>3
  <2> QED
      BY <2>1, <2>2, <2>3, <2>4
<1> HIDE DEF F
<1>4. G \in [SUBSET u -> Nat]
  <2> SUFFICES ASSUME NEW s \in SUBSET u
               PROVE  (IF s = {} THEN 0 ELSE ch[One(s)] + F(s \ {One(s)})[s \ {One(s)}]) \in Nat
      OBVIOUS
  <2>1. CASE s = {}
      BY <2>1
  <2>2. CASE s # {}
    <3>1. ch[One(s)] \in Nat /\ F(s \ {One(s)})[s \ {One(s)}] \in Nat
        BY <1>3, <2>2
    <3>2. \A a, b \in Nat : a + b \in Nat
        OBVIOUS
    <3> QED
        BY <2>2, <3>1, <3>2
  <2> QED
      BY <2>1, <2>2
<1>5. ASSUME NEW s \in SUBSET u, s # {}
      PROVE  F(s \ {One(s)})[s \ {One(s)}] = G[s \ {One(s)}]
  <2> DEFINE t == s \ {One(s)}
             r == t \ {One(t)}
  <2>1. t \in SUBSET u /\ t # u /\ F(t) \in Sums(t)
      BY <1>3, <1>5
  <2>2. IsSum(ch, t, F(t))
      BY <2>1
  <2>3. F(t)[t] = IF t = {} THEN 0 ELSE ch[One(t)] + F(t)[r]
      BY <2>2 DEF IsSum
  <2>4. G[t] = IF t = {} THEN 0 ELSE ch[One(t)] + F(r)[r]
      BY <2>1
  <2>5. ASSUME t # {} PROVE F(t)[r] = F(r)[r]
    <3>1. r \in SUBSET t /\ r \in SUBSET S /\ F(r) \in Sums(r)
        BY <1>0, <1>1, <1>3, <2>1, <2>5
    <3>2. IsFiniteSet(r) /\ IsSum(ch, r, F(r)) /\ r \in SUBSET r
        BY <3>1, FS_Subset
    <3>3. \A x \in r : ch[x] = ch[x]
        OBVIOUS
    <3> HIDE DEF r, t, G
    <3>4. \A v \in SUBSET r : F(t)[v] = F(r)[v]
        BY <2>2, <3>1, <3>2, <3>3, SumsAgree
    <3> QED
        BY <3>2, <3>4
  <2> HIDE DEF t, r, G
  <2>6. F(t)[t] = G[t]
      BY <2>3, <2>4, <2>5
  <2> QED
      BY <2>6 DEF t
<1>6. G = [s \in SUBSET u |-> IF s = {} THEN 0 ELSE ch[One(s)] + G[s \ {One(s)}]]
    BY <1>5
<1>7. G \in Sums(u)
    BY <1>4, <1>6 DEF IsSum
<1> QED
    BY <1>1, <1>7 DEF B

\* MapThenSumSet computes it.
LEMMA TotalIsSum ==
    ASSUME NEW S, NEW ch, \E g : IsSum(ch, S, g)
    PROVE  \E g : IsSum(ch, S, g) /\ Total(ch, S) = g[S]
<1> DEFINE h == CHOOSE g : g = [s \in SUBSET S |->
                                  IF s = {} THEN 0 ELSE ch[One(s)] + g[s \ {One(s)}]]
<1>1. IsSum(ch, S, h)
    BY DEF IsSum
<1>2. Total(ch, S) = h[S]
    BY DEF Total, MapThenSumSet, MapThenFoldSet, One
<1> QED
    BY <1>1, <1>2

\* One sum gives the totals of all subsets.
LEMMA TotalsOf ==
    ASSUME NEW S, IsFiniteSet(S), NEW ch, Numbers(ch, S), NEW dh, NEW T \in SUBSET S,
           \A x \in T : dh[x] = ch[x], NEW g, IsSum(ch, S, g)
    PROVE  Total(dh, T) = g[T]
<1>1. IsFiniteSet(T) /\ Numbers(dh, T)
    BY FS_Subset DEF Numbers
<1>2. PICK h : IsSum(dh, T, h) /\ Total(dh, T) = h[T]
    BY <1>1, SumsExist, TotalIsSum
<1>3. \A u \in SUBSET T : g[u] = h[u]
    BY <1>1, <1>2, SumsAgree
<1> QED
    BY <1>2, <1>3

\* A total is a number, that of nothing is 0, and equal numbers have equal totals.
LEMMA Totals ==
    ASSUME NEW S, IsFiniteSet(S), NEW ch, Numbers(ch, S)
    PROVE  /\ Total(ch, S) \in Nat
           /\ S = {} => Total(ch, S) = 0
           /\ S # {} => Total(ch, S) = ch[One(S)] + Total(ch, S \ {One(S)})
<1>1. PICK g \in [SUBSET S -> Nat] : IsSum(ch, S, g)
    BY SumsExist
<1>2. \A T \in SUBSET S : Total(ch, T) = g[T]
    BY <1>1, TotalsOf
<1>3. g[S] = IF S = {} THEN 0 ELSE ch[One(S)] + g[S \ {One(S)}]
    BY <1>1 DEF IsSum
<1>4. S \in SUBSET S /\ S \ {One(S)} \in SUBSET S
    OBVIOUS
<1> QED
    BY <1>1, <1>2, <1>3, <1>4

LEMMA EqualTotals ==
    ASSUME NEW S, IsFiniteSet(S), NEW ch, Numbers(ch, S), NEW dh, \A x \in S : dh[x] = ch[x]
    PROVE  Total(dh, S) = Total(ch, S)
<1>1. PICK g : IsSum(ch, S, g)
    BY SumsExist
<1>2. S \in SUBSET S
    OBVIOUS
<1> QED
    BY <1>1, <1>2, TotalsOf

\* Any element may be taken out.
LEMMA TotalWithout ==
    ASSUME NEW S, IsFiniteSet(S), NEW ch, Numbers(ch, S), NEW x \in S
    PROVE  /\ Total(ch, S) = ch[x] + Total(ch, S \ {x})
           /\ Total(ch, S \ {x}) \in Nat
<1> DEFINE Apart(u) == \A y \in u : Total(ch, u) = ch[y] + Total(ch, u \ {y})
           B == {u \in SUBSET S : ~Apart(u)}
<1>1. ASSUME NEW u \in SUBSET S
      PROVE  IsFiniteSet(u) /\ Numbers(ch, u) /\ Total(ch, u) \in Nat
  <2>1. IsFiniteSet(u) /\ Numbers(ch, u)
      BY FS_Subset DEF Numbers
  <2> QED
      BY <2>1, Totals
<1>2. ASSUME B # {}
      PROVE  FALSE
  <2>0. B \in SUBSET SUBSET S
      OBVIOUS
  <2> HIDE DEF B
  <2>1. PICK u \in B : \A t \in SUBSET u : t # u => t \notin B
      BY <1>2, <2>0, SmallestSubset
  <2> USE DEF B
  <2>2. PICK y \in u : Total(ch, u) # ch[y] + Total(ch, u \ {y})
      BY <2>1
  <2> DEFINE z == One(u)
  <2>3. z \in u /\ Total(ch, u) = ch[z] + Total(ch, u \ {z})
      BY <1>1, <2>1, <2>2, OneAndTheRest, Totals
  <2> HIDE DEF z
  <2>4. z # y
      BY <2>2, <2>3
  <2>5. Apart(u \ {z}) /\ Apart(u \ {y})
      BY <2>1, <2>2, <2>3
  <2>6. /\ Total(ch, u \ {z}) = ch[y] + Total(ch, (u \ {z}) \ {y})
        /\ Total(ch, u \ {y}) = ch[z] + Total(ch, (u \ {y}) \ {z})
      BY <2>2, <2>3, <2>4, <2>5
  <2>7. (u \ {z}) \ {y} = (u \ {y}) \ {z} /\ (u \ {y}) \ {z} \in SUBSET S
      BY <2>1
  <2>8. ch[y] \in Nat /\ ch[z] \in Nat /\ Total(ch, (u \ {y}) \ {z}) \in Nat
      BY <1>1, <2>1, <2>2, <2>3, <2>7 DEF Numbers
  <2>9. \A a, b, d \in Nat : a + (b + d) = b + (a + d)
      OBVIOUS
  <2> DEFINE r == (u \ {y}) \ {z}
  <2>10. ch[z] + (ch[y] + Total(ch, r)) = ch[y] + (ch[z] + Total(ch, r))
      BY <2>8, <2>9
  <2>11. Total(ch, u \ {z}) = ch[y] + Total(ch, r) /\ Total(ch, u \ {y}) = ch[z] + Total(ch, r)
      BY <2>6, <2>7
  <2> HIDE DEF r
  <2> QED
      BY <2>2, <2>3, <2>10, <2>11
<1>3. S \in SUBSET S /\ S \ {x} \in SUBSET S
    OBVIOUS
<1> QED
    BY <1>1, <1>2, <1>3

\* Smaller numbers have a smaller total, and so has a part of them.
LEMMA SmallerTotal ==
    ASSUME NEW S, IsFiniteSet(S), NEW ch, NEW dh, Numbers(ch, S), Numbers(dh, S),
           \A x \in S : dh[x] <= ch[x]
    PROVE  Total(dh, S) <= Total(ch, S)
<1> DEFINE B == {u \in SUBSET S : ~(Total(dh, u) <= Total(ch, u))}
<1>1. ASSUME NEW u \in SUBSET S
      PROVE  /\ IsFiniteSet(u) /\ Numbers(ch, u) /\ Numbers(dh, u)
             /\ Total(ch, u) \in Nat /\ Total(dh, u) \in Nat
  <2>1. IsFiniteSet(u) /\ Numbers(ch, u) /\ Numbers(dh, u)
      BY FS_Subset DEF Numbers
  <2> QED
      BY <2>1, Totals
<1>2. ASSUME B # {}
      PROVE  FALSE
  <2>0. B \in SUBSET SUBSET S
      OBVIOUS
  <2> HIDE DEF B
  <2>1. PICK u \in B : \A t \in SUBSET u : t # u => t \notin B
      BY <1>2, <2>0, SmallestSubset
  <2> USE DEF B
  <2>2. CASE u = {}
    <3>1. Total(dh, u) = 0 /\ Total(ch, u) = 0
        BY <1>1, <2>1, <2>2, Totals
    <3> QED
        BY <2>1, <3>1
  <2>3. CASE u # {}
    <3> DEFINE z == One(u)
               r == u \ {z}
    <3>1. /\ z \in u /\ r \in SUBSET u /\ r # u
          /\ Total(dh, u) = dh[z] + Total(dh, r) /\ Total(ch, u) = ch[z] + Total(ch, r)
        BY <1>1, <2>1, <2>3, OneAndTheRest, Totals
    <3> HIDE DEF z, r
    <3>2. Total(dh, r) <= Total(ch, r)
        BY <2>1, <3>1
    <3>3. dh[z] <= ch[z] /\ dh[z] \in Nat /\ ch[z] \in Nat
        BY <2>1, <3>1 DEF Numbers
    <3>4. Total(dh, r) \in Nat /\ Total(ch, r) \in Nat
        BY <1>1, <2>1, <3>1
    <3>5. Total(dh, u) <= Total(ch, u)
        BY <3>1, <3>2, <3>3, <3>4
    <3> QED
        BY <2>1, <3>5
  <2> QED
      BY <2>2, <2>3
<1> QED
    BY <1>2

LEMMA TotalOfNothing ==
    ASSUME NEW S, IsFiniteSet(S), NEW ch, \A x \in S : ch[x] = 0
    PROVE  Total(ch, S) = 0
<1> DEFINE B == {u \in SUBSET S : Total(ch, u) # 0}
<1>1. ASSUME NEW u \in SUBSET S
      PROVE  IsFiniteSet(u) /\ Numbers(ch, u)
    BY FS_Subset DEF Numbers
<1>2. ASSUME B # {}
      PROVE  FALSE
  <2>0. B \in SUBSET SUBSET S
      OBVIOUS
  <2> HIDE DEF B
  <2>1. PICK u \in B : \A t \in SUBSET u : t # u => t \notin B
      BY <1>2, <2>0, SmallestSubset
  <2> USE DEF B
  <2>2. u # {} /\ Total(ch, u) = ch[One(u)] + Total(ch, u \ {One(u)})
      BY <1>1, <2>1, Totals
  <2>3. ch[One(u)] = 0 /\ Total(ch, u \ {One(u)}) = 0
      BY <2>1, <2>2, OneAndTheRest
  <2> QED
      BY <2>1, <2>2, <2>3
<1> QED
    BY <1>2

LEMMA PartOfTotal ==
    ASSUME NEW S, IsFiniteSet(S), NEW ch, Numbers(ch, S), NEW T \in SUBSET S
    PROVE  Total(ch, T) <= Total(ch, S)
<1> DEFINE Bounds(u) == \A t \in SUBSET u : Total(ch, t) <= Total(ch, u)
           B == {u \in SUBSET S : ~Bounds(u)}
<1>1. ASSUME NEW u \in SUBSET S
      PROVE  IsFiniteSet(u) /\ Numbers(ch, u) /\ Total(ch, u) \in Nat
  <2>1. IsFiniteSet(u) /\ Numbers(ch, u)
      BY FS_Subset DEF Numbers
  <2> QED
      BY <2>1, Totals
<1>2. ASSUME B # {}
      PROVE  FALSE
  <2>0. B \in SUBSET SUBSET S
      OBVIOUS
  <2> HIDE DEF B
  <2>1. PICK u \in B : \A t \in SUBSET u : t # u => t \notin B
      BY <1>2, <2>0, SmallestSubset
  <2> USE DEF B
  <2>2. PICK t \in SUBSET u : ~(Total(ch, t) <= Total(ch, u))
      BY <2>1
  <2>3. t # u
      BY <1>1, <2>1, <2>2
  <2>4. PICK x \in u : x \notin t
      BY <2>2, <2>3
  <2>5. Total(ch, u) = ch[x] + Total(ch, u \ {x}) /\ ch[x] \in Nat
      BY <1>1, <2>1, <2>4, TotalWithout DEF Numbers
  <2>6. Bounds(u \ {x}) /\ t \in SUBSET (u \ {x})
      BY <2>1, <2>4
  <2>7. Total(ch, t) <= Total(ch, u \ {x})
      BY <2>6
  <2>8. Total(ch, t) \in Nat /\ Total(ch, u \ {x}) \in Nat
      BY <1>1, <2>1, <2>2
  <2> QED
      BY <2>2, <2>5, <2>7, <2>8
<1>3. Bounds(S)
    BY <1>2
<1> QED
    BY <1>3

-----------------------------------------------------------------------------
(***************************************************************************)
(* What the usages and the active time add up.                             *)
(***************************************************************************)

\* The reservations of resource k, and what each reservation costs.
Of(k) == {x \in Reservations : Bundle[x[1]][x[2]].resource = k}

ChargeOf == [x \in Reservations |-> Charge(x)]

ElapsedOf == [e \in Epochs |-> manager[e].elapsed]

\* There are finitely many reservations.
LEMMA ReservationsFinite == IsFiniteSet(Reservations)
<1> DEFINE Row(c) == {<<c, i>> : i \in Items(c)}
           Rows == {Row(c) : c \in Calls}
<1>1. ASSUME NEW c \in Calls
      PROVE  IsFiniteSet(Row(c))
  <2> DEFINE f == [i \in Items(c) |-> <<c, i>>]
  <2>1. IsFiniteSet(Items(c))
      BY ItemsAreNumbered, FS_Interval
  <2>2. f \in Surjection(Items(c), Row(c))
      BY DEF Surjection
  <2> HIDE DEF f, Row
  <2> QED
      BY <2>1, <2>2, FS_Surjection
<1> DEFINE g == [c \in Calls |-> Row(c)]
<1> HIDE DEF Row
<1>2. g \in Surjection(Calls, Rows)
    BY DEF Surjection
<1>3. \A r \in Rows : IsFiniteSet(r)
    BY <1>1
<1>4. Reservations = UNION Rows
    BY DEF Reservations, Row
<1> HIDE DEF g, Rows
<1>5. IsFiniteSet(Rows)
    BY <1>2, BudgetAssumption, FS_Surjection
<1> QED
    BY <1>3, <1>4, <1>5, FS_UNION

\* What a reservation costs is a number.
LEMMA ChargeIsNat ==
    ASSUME TypeOK, NEW x \in Reservations
    PROVE  Charge(x) \in Nat
<1>1. ledger[x] \in Seq(EntryRecord)
    BY DEF TypeOK
<1>2. CASE ledger[x] = << >>
    BY <1>2 DEF Charge
<1>3. CASE ledger[x] # << >>
  <2>1. Len(ledger[x]) \in DOMAIN ledger[x]
      BY <1>1, <1>3
  <2>2. Last(ledger[x]) \in EntryRecord
      BY <1>1, <2>1, ElementOfSeq DEF Last
  <2> QED
      BY <1>3, <2>2 DEF Charge, EntryRecord
<1> QED
    BY <1>2, <1>3

LEMMA ChargesAreNumbers ==
    ASSUME TypeOK, NEW k
    PROVE  IsFiniteSet(Of(k)) /\ Of(k) \in SUBSET Reservations /\ Numbers(ChargeOf, Of(k))
<1>1. Of(k) \in SUBSET Reservations
    BY DEF Of
<1>2. IsFiniteSet(Of(k))
    BY <1>1, ReservationsFinite, FS_Subset
<1> QED
    BY <1>1, <1>2, ChargeIsNat DEF Numbers, ChargeOf

\* The usage of a resource is the total of what its reservations cost.
UsagesAddUp ==
    TypeOK => \A k \in DOMAIN Limit :
                /\ Usage(k) = Total(ChargeOf, Of(k))
                /\ Numbers(ChargeOf, Of(k))

LEMMA UsageIsTotal == UsagesAddUp
<1> SUFFICES ASSUME TypeOK, NEW k \in DOMAIN Limit
             PROVE  Usage(k) = Total(ChargeOf, Of(k)) /\ Numbers(ChargeOf, Of(k))
    BY DEF UsagesAddUp
<1> DEFINE ch == ChargeOf
           S == Of(k)
<1>1. IsFiniteSet(S) /\ Numbers(ch, S) /\ \A x \in S : ch[x] = Charge(x)
    BY ChargesAreNumbers DEF ChargeOf, Of
<1>2. S \in SUBSET S
    OBVIOUS
<1> DEFINE IsUsage(g) == g = [s \in SUBSET S |->
                                IF s = {} THEN 0 ELSE Charge(One(s)) + g[s \ {One(s)}]]
           h == CHOOSE g : IsUsage(g)
<1>3. Usage(k) = h[S]
    BY DEF Usage, MapThenSumSet, MapThenFoldSet, One, Of
<1> HIDE DEF ch, S
<1>4. \A s \in SUBSET S : s # {} => ch[One(s)] = Charge(One(s))
    BY <1>1, OneAndTheRest
<1>5. \A g : IsSum(ch, S, g) <=> IsUsage(g)
    BY <1>4 DEF IsSum
<1>6. IsSum(ch, S, h)
    BY <1>1, <1>5, SumsExist
<1> HIDE DEF h
<1>7. Total(ch, S) = h[S]
    BY <1>1, <1>2, <1>6, TotalsOf
<1> QED
    BY <1>1, <1>3, <1>7 DEF ch, S

\* The usage of a resource is a number.
LEMMA UsageIsNat ==
    ASSUME TypeOK, NEW k \in DOMAIN Limit
    PROVE  Usage(k) \in Nat
BY UsageIsTotal, ChargesAreNumbers, Totals DEF UsagesAddUp

\* The time that is counted of some executions is the total of their times.
LEMMA ElapsedIsTotal ==
    ASSUME TypeOK, NEW S \in SUBSET Epochs
    PROVE  MapThenSumSet(LAMBDA e : manager[e].elapsed, S) = Total(ElapsedOf, S)
<1> DEFINE ch == ElapsedOf
<1>1. IsFiniteSet(Epochs)
    BY BudgetAssumption, FS_Interval DEF Epochs
<1>2. IsFiniteSet(S) /\ S \in SUBSET S
    BY <1>1, FS_Subset
<1>3. Numbers(ch, S) /\ \A x \in S : ch[x] = manager[x].elapsed
    BY DEF Numbers, ElapsedOf, TypeOK, ManagerRecord
<1> DEFINE IsTime(g) == g = [s \in SUBSET S |->
                           IF s = {} THEN 0 ELSE manager[One(s)].elapsed + g[s \ {One(s)}]]
           h == CHOOSE g : IsTime(g)
<1>4. MapThenSumSet(LAMBDA e : manager[e].elapsed, S) = h[S]
    BY DEF MapThenSumSet, MapThenFoldSet, One
<1> HIDE DEF ch
<1>5. \A s \in SUBSET S : s # {} => ch[One(s)] = manager[One(s)].elapsed
    BY <1>3, OneAndTheRest
<1>6. \A g : IsSum(ch, S, g) <=> IsTime(g)
    BY <1>5 DEF IsSum
<1>7. IsSum(ch, S, h)
    BY <1>2, <1>3, <1>6, SumsExist
<1> HIDE DEF h
<1>8. Total(ch, S) = h[S]
    BY <1>2, <1>3, <1>7, TotalsOf
<1> QED
    BY <1>4, <1>8 DEF ch

-----------------------------------------------------------------------------
(***************************************************************************)
(* The limits: what is reserved is charged in full, so that what has been  *)
(* admitted fits for good.                                                 *)
(***************************************************************************)

\* An open reservation is charged in full.
ReservedIsWhole == \A x \in Reservations : Reserved(x) => Charge(x) = Amount(x)

\* What an execution has recorded covers its time.
RecordedIsCounted ==
    \A e \in Epochs : manager[e].recorded # "no" => manager[e].elapsed <= active[e]

LimitInv == ReservedIsWhole /\ WithinLimits /\ RecordedIsCounted

\* What a step does to the books.
LedgerMoves ==
    \/ ledger' = ledger
    \/ \E e \in Epochs : ledger' = Reconciled(e)
    \/ \E c \in Calls : Admit(c)
    \/ \E c \in Calls : SettleItem(c)

\* Nothing else writes to the ledger.
LEMMA WhoWrites ==
    ASSUME IInv, [Next]_vars
    PROVE  LedgerMoves
<1>1. CASE Grant \/ RequestCancel \/ Release \/ LeaseExpires \/ UNCHANGED vars
    BY <1>1 DEF Grant, RequestCancel, Release, LeaseExpires, vars, LedgerMoves
<1>2. ASSUME NEW e \in Epochs, Bind(e) \/ TimePasses(e) \/ CheckTime(e) \/ RecordActive(e)
      PROVE  LedgerMoves
    BY <1>2 DEF Bind, TimePasses, CheckTime, RecordActive, LedgerMoves
<1>3. ASSUME NEW c \in Calls, ReconcileFirst(c)
      PROVE  LedgerMoves
  <2>1. CASE Authority(call[c].epoch)
    <3>1. call[c].epoch \in Epochs
      <4>1. call[c].epoch \in Nat /\ call[c].epoch \in 0..MaxEpoch
          BY CallFacts DEF CallRecord
      <4>2. call[c].epoch # 0
          BY <2>1 DEF Authority, IInv, EpochsInOrder
      <4> QED
          BY <4>1, <4>2, BudgetAssumption DEF Epochs
    <3> QED
        BY <1>3, <2>1, <3>1 DEF ReconcileFirst, LedgerMoves
  <2>2. CASE ~Authority(call[c].epoch)
      BY <1>3, <2>2 DEF ReconcileFirst, LedgerMoves
  <2> QED
      BY <2>1, <2>2
<1>4. ASSUME NEW c \in Calls,
             \/ \E e \in Epochs : StartCall(c, e)
             \/ Deny(c) \/ Refuse(c) \/ Serve(c) \/ CannotSettle(c)
             \/ Abandon(c) \/ ReservationExpires(c)
      PROVE  LedgerMoves
    BY <1>4 DEF StartCall, Deny, Refuse, Serve, CannotSettle, Abandon, ReservationExpires,
                LedgerMoves
<1>5. ASSUME NEW c \in Calls, Admit(c) \/ SettleItem(c)
      PROVE  LedgerMoves
    BY <1>5 DEF LedgerMoves
<1> QED
    BY <1>1, <1>2, <1>3, <1>4, <1>5 DEF Next

\* What an admission does to one reservation.
LEMMA AdmittedRow ==
    ASSUME IInv, NEW c \in Calls, Admit(c), NEW x \in Reservations
    PROVE  /\ x[1] = c => /\ ledger[x] = << >> /\ Charge(x) = 0
                          /\ Charge(x)' = Amount(x) /\ Reserved(x)'
           /\ x[1] # c => ledger'[x] = ledger[x] /\ Charge(x)' = Charge(x)
<1>1. CASE x[1] = c
  <2>1. ledger[x] = << >>
    <3>1. x = <<x[1], x[2]>> /\ x[2] \in Items(c)
        BY <1>1, ReservationIsItem
    <3> QED
        BY <1>1, <3>1 DEF IInv, NothingBeforeAdmission, Admit
  <2>2. /\ ledger'[x] # << >>
        /\ Last(ledger'[x]).status = "reserved"
        /\ Last(ledger'[x]).charge = Amount(x)
      BY <1>1, OpenedRow DEF Admit
  <2> QED
      BY <1>1, <2>1, <2>2 DEF Charge, Reserved
<1>2. CASE x[1] # c
    BY <1>2 DEF Admit, Charge
<1> QED
    BY <1>1, <1>2

\* What a settlement does to one reservation.
LEMMA SettledRow ==
    ASSUME IInv, ReservedIsWhole, NEW c \in Calls, SettleItem(c), NEW x \in Reservations
    PROVE  /\ Charge(x)' <= Charge(x)
           /\ Reserved(x)' => Reserved(x) /\ Charge(x)' = Charge(x)
<1> USE DEF IInv
<1> DEFINE i == call[c].next
           y == <<c, i>>
<1>1. call[c].pc = "settling" /\ Reserved(y) /\ i \in Items(c) /\ y \in Reservations
    BY ReservationIsItem DEF SettleItem, MaySettle, SettlingHasItem
<1>2. /\ Settlement(y) \in EntryRecord
      /\ Settlement(y).status # "reserved"
      /\ Settlement(y).charge <= Amount(y)
  <2>1. call[c].used \in Usages(c) \cup {NothingUsed(c)}
      BY CallFacts DEF CallRecord
  <2>2. call[c].used[i] <= Amount(y) /\ Amount(y) \in Nat
      BY <1>1, <2>1, UsedIsReserved, AmountIsNat
  <2>3. \/ Settlement(y) = [status |-> "settled", charge |-> call[c].used[i]]
        \/ Settlement(y) = [status |-> "unknown_spend", charge |-> Amount(y)]
      BY DEF Settlement, Entry
  <2>4. Settlement(y).charge <= Amount(y)
      BY <2>2, <2>3
  <2> QED
      BY <1>1, <2>4, SettlementRow
<1>3. Charge(x) \in Nat
    BY ChargeIsNat
<1>4. ledger' = [ledger EXCEPT ![y] = Append(ledger[y], Settlement(y))]
    BY Zenon DEF SettleItem
<1> HIDE DEF y, i
<1>5. CASE x = y
  <2>1. ledger'[x] = Append(ledger[x], Settlement(x)) /\ ledger'[x] # << >>
        /\ Last(ledger'[x]) = Settlement(x)
    <3>1. ledger'[y] = Append(ledger[y], Settlement(y))
        BY <1>1, <1>4 DEF TypeOK
    <3> QED
        BY <1>1, <1>2, <1>5, <3>1, ClosedRow
  <2>2. Charge(x) = Amount(x)
      BY <1>1, <1>5 DEF ReservedIsWhole
  <2>3. Charge(x)' = Settlement(x).charge /\ ~Reserved(x)'
      BY <1>2, <1>5, <2>1 DEF Charge, Reserved
  <2> QED
      BY <1>2, <1>5, <2>2, <2>3
<1>6. CASE x # y
  <2>1. ledger'[x] = ledger[x]
      BY <1>1, <1>4, <1>6 DEF TypeOK
  <2> QED
      BY <1>3, <2>1 DEF Charge, Reserved
<1> QED
    BY <1>5, <1>6

\* A reservation that was open stays charged as it was when it is reconciled.
LEMMA ReconciledCharge ==
    ASSUME IInv, ReservedIsWhole, NEW e \in Epochs, ledger' = Reconciled(e),
           NEW x \in Reservations
    PROVE  Charge(x)' = Charge(x) /\ (Reserved(x)' => Reserved(x))
<1> USE DEF IInv
<1>1. CASE Stale(x, e)
    BY <1>1, ReconciledRow DEF Charge, Reserved, ReservedIsWhole, Stale
<1>2. CASE ~Stale(x, e)
    BY <1>2, ReconciledRow DEF Charge, Reserved
<1> QED
    BY <1>1, <1>2

\* The totals of two states side by side.
LEMMA UsagesBeforeAndAfter ==
    ASSUME TypeOK, TypeOK', NEW k \in DOMAIN Limit
    PROVE  LET ch == ChargeOf
               dh == ChargeOf'
           IN  /\ Usage(k) = Total(ch, Of(k)) /\ Numbers(ch, Of(k))
               /\ Usage(k)' = Total(dh, Of(k)) /\ Numbers(dh, Of(k))
<1>1. UsagesAddUp
    BY UsageIsTotal
<1>2. UsagesAddUp'
    BY UsageIsTotal, PTL
<1>3. Usage(k) = Total(ChargeOf, Of(k)) /\ Numbers(ChargeOf, Of(k))
    BY <1>1 DEF UsagesAddUp
<1>4. Usage(k)' = Total(ChargeOf, Of(k))' /\ Numbers(ChargeOf, Of(k))'
    BY <1>2 DEF UsagesAddUp
<1>5. Numbers(ChargeOf', Of(k))
    BY <1>4 DEF Numbers, Of
<1>6. Total(ChargeOf, Of(k))' = Total(ChargeOf', Of(k))
    BY DEF Total, Of, MapThenSumSet, MapThenFoldSet
<1> QED
    BY <1>3, <1>4, <1>5, <1>6

\* An admission takes no resource over its limit: the bundle has at most one item of
\* each resource, and it fits.
LEMMA AdmissionFits ==
    ASSUME IInv, IInv', WithinLimits, NEW c \in Calls, Admit(c), NEW k \in DOMAIN Limit
    PROVE  Usage(k)' <= Limit[k]
<1> DEFINE S == Of(k)
           ch == ChargeOf
           dh == ChargeOf'
<1>1. TypeOK /\ TypeOK' /\ Usage(k) <= Limit[k]
    BY DEF IInv, WithinLimits
<1>2. /\ IsFiniteSet(S) /\ S \in SUBSET Reservations
      /\ Usage(k) = Total(ch, S) /\ Numbers(ch, S)
      /\ Usage(k)' = Total(dh, S) /\ Numbers(dh, S)
    BY <1>1, ChargesAreNumbers, UsagesBeforeAndAfter
<1>3. ASSUME NEW x \in S
      PROVE  /\ x[1] = c => ch[x] = 0 /\ dh[x] = Amount(x)
             /\ x[1] # c => dh[x] = ch[x]
    BY <1>2, AdmittedRow DEF ChargeOf
<1>4. CASE \A x \in S : x[1] # c
  <2> HIDE DEF S, ch, dh
  <2>1. \A x \in S : dh[x] = ch[x]
      BY <1>3, <1>4
  <2>2. Total(dh, S) = Total(ch, S)
      BY <1>2, <2>1, EqualTotals
  <2> QED
      BY <1>1, <1>2, <2>2
<1>5. CASE \E x \in S : x[1] = c
  <2>1. PICK x \in S : x[1] = c
      BY <1>5
  <2> DEFINE R == S \ {x}
  <2>2. x[2] \in Items(c) /\ Bundle[c][x[2]].resource = k
        /\ Amount(x) = Bundle[c][x[2]].amount /\ Amount(x) \in Nat
      BY <1>2, <2>1, ReservationIsItem, AmountIsNat DEF Of, Amount
  <2>3. ASSUME NEW y \in S, y[1] = c
        PROVE  y = x
    <3>1. y[2] \in Items(c) /\ Bundle[c][y[2]].resource = k /\ y = <<c, y[2]>> /\ x = <<c, x[2]>>
        BY <1>2, <2>1, <2>3, ReservationIsItem DEF Of
    <3>2. y[2] = x[2]
        BY <2>2, <3>1, BudgetAssumption DEF Items
    <3> QED
        BY <3>1, <3>2
  <2>4. Usage(k) + Amount(x) <= Limit[k]
    <3>1. ~Exceeds(c)
        BY DEF Admit, Denies
    <3>2. ~(Usage(k) + Amount(x) > Limit[k])
        BY <2>2, <3>1 DEF Exceeds
    <3>3. Usage(k) \in Nat /\ Limit[k] \in Nat
        BY <1>1, UsageIsNat, BudgetAssumption
    <3> QED
        BY <2>2, <3>2, <3>3
  <2> HIDE DEF ch, dh, S
  <2>5. ch[x] = 0 /\ dh[x] = Amount(x)
      BY <1>3, <2>1
  <2>6. /\ Total(ch, S) = ch[x] + Total(ch, R) /\ Total(ch, R) \in Nat
        /\ Total(dh, S) = dh[x] + Total(dh, R) /\ Total(dh, R) \in Nat
      BY <1>2, <2>1, TotalWithout
  <2>7. Total(dh, R) = Total(ch, R)
    <3>1. \A y \in R : dh[y] = ch[y]
        BY <1>3, <2>3
    <3>2. IsFiniteSet(R)
        BY <1>2, FS_Subset
    <3>3. Numbers(ch, R)
        BY <1>2 DEF Numbers
    <3> HIDE DEF R
    <3> QED
        BY <3>1, <3>2, <3>3, EqualTotals
  <2> HIDE DEF R
  <2>8. Total(ch, S) + Amount(x) <= Limit[k]
      BY <1>2, <2>4
  <2>9. Total(dh, S) <= Limit[k]
      BY <2>2, <2>5, <2>6, <2>7, <2>8
  <2> QED
      BY <1>2, <2>9
<1> QED
    BY <1>4, <1>5

\* Usages do not grow when no charge does.
LEMMA UsagesDoNotGrow ==
    ASSUME TypeOK, TypeOK', WithinLimits, \A x \in Reservations : Charge(x)' <= Charge(x)
    PROVE  WithinLimits'
<1> SUFFICES ASSUME NEW k \in DOMAIN Limit
             PROVE  Usage(k)' <= Limit[k]
    BY DEF WithinLimits
<1> DEFINE S == Of(k)
           ch == ChargeOf
           dh == ChargeOf'
<1>1. /\ IsFiniteSet(S) /\ S \in SUBSET Reservations
      /\ Usage(k) = Total(ch, S) /\ Numbers(ch, S)
      /\ Usage(k)' = Total(dh, S) /\ Numbers(dh, S)
    BY ChargesAreNumbers, UsagesBeforeAndAfter
<1>2. \A x \in S : dh[x] <= ch[x]
    BY <1>1 DEF ChargeOf
<1> HIDE DEF S, ch, dh
<1>3. Total(dh, S) <= Total(ch, S) /\ Total(ch, S) \in Nat /\ Total(dh, S) \in Nat
    BY <1>1, <1>2, SmallerTotal, Totals
<1>4. Usage(k) <= Limit[k] /\ Limit[k] \in Nat
    BY BudgetAssumption DEF WithinLimits
<1> QED
    BY <1>1, <1>3, <1>4

\* What is reserved is charged in full, after every step.
LEMMA WholeReservationsKeep ==
    ASSUME IInv, LimitInv, LedgerMoves
    PROVE  ReservedIsWhole'
<1> SUFFICES ASSUME NEW x \in Reservations, Reserved(x)'
             PROVE  Charge(x)' = Amount(x)
    BY DEF ReservedIsWhole
<1>1. Reserved(x) => Charge(x) = Amount(x)
    BY DEF LimitInv, ReservedIsWhole
<1>2. CASE ledger' = ledger
    BY <1>1, <1>2 DEF Charge, Reserved
<1>3. CASE \E e \in Epochs : ledger' = Reconciled(e)
    BY <1>1, <1>3, ReconciledCharge DEF LimitInv
<1>4. CASE \E c \in Calls : Admit(c)
  <2>1. PICK c \in Calls : Admit(c)
      BY <1>4
  <2>2. x[1] # c => Reserved(x)
      BY <2>1, AdmittedRow DEF Reserved
  <2> QED
      BY <1>1, <2>1, <2>2, AdmittedRow
<1>5. CASE \E c \in Calls : SettleItem(c)
    BY <1>1, <1>5, SettledRow DEF LimitInv
<1> QED
    BY <1>2, <1>3, <1>4, <1>5 DEF LedgerMoves

\* No step takes a resource over its limit.
LEMMA LimitsKeep ==
    ASSUME IInv, IInv', LimitInv, LedgerMoves
    PROVE  WithinLimits'
<1>1. TypeOK /\ TypeOK' /\ WithinLimits /\ ReservedIsWhole
    BY DEF IInv, LimitInv
<1>2. \A x \in Reservations : Charge(x) \in Nat
    BY <1>1, ChargeIsNat
<1>3. \A n \in Nat : n <= n
    OBVIOUS
<1>4. CASE ledger' = ledger
  <2>1. \A x \in Reservations : Charge(x)' <= Charge(x)
      BY <1>2, <1>3, <1>4 DEF Charge
  <2> QED
      BY <1>1, <2>1, UsagesDoNotGrow
<1>5. CASE \E e \in Epochs : ledger' = Reconciled(e)
  <2>1. \A x \in Reservations : Charge(x)' <= Charge(x)
      BY <1>1, <1>2, <1>3, <1>5, ReconciledCharge
  <2> QED
      BY <1>1, <2>1, UsagesDoNotGrow
<1>6. CASE \E c \in Calls : Admit(c)
    BY <1>1, <1>6, AdmissionFits DEF WithinLimits
<1>7. CASE \E c \in Calls : SettleItem(c)
  <2>1. \A x \in Reservations : Charge(x)' <= Charge(x)
      BY <1>1, <1>7, SettledRow
  <2> QED
      BY <1>1, <2>1, UsagesDoNotGrow
<1> QED
    BY <1>4, <1>5, <1>6, <1>7 DEF LedgerMoves

\* What is recorded covers the time of its execution, after every step.
LEMMA RecordedTimeKeeps ==
    ASSUME IInv, LimitInv, [Next]_vars
    PROVE  RecordedIsCounted'
<1>1. manager \in [Epochs -> ManagerRecord] /\ active \in [Epochs -> Nat]
    BY DEF IInv, TypeOK
<1>2. \A f \in Epochs : manager[f].recorded # "no" => manager[f].elapsed <= active[f]
    BY DEF LimitInv, RecordedIsCounted
<1>3. \A f \in Epochs : manager[f].elapsed \in Nat /\ active[f] \in Nat
    BY <1>1 DEF ManagerRecord
<1>4. ASSUME UNCHANGED active,
             \A f \in Epochs : /\ manager'[f].recorded = manager[f].recorded
                               /\ manager'[f].elapsed = manager[f].elapsed
      PROVE  RecordedIsCounted'
    BY <1>2, <1>4 DEF RecordedIsCounted
<1>5. ASSUME NEW e \in Epochs, RecordActive(e)
      PROVE  RecordedIsCounted'
  <2>1. PICK seen \in {"hidden", "yes"} : manager' = [manager EXCEPT ![e].recorded = seen]
      BY <1>5 DEF RecordActive
  <2>2. active' = [active EXCEPT ![e] = active[e] + manager[e].elapsed]
      BY <1>5 DEF RecordActive
  <2>3. \A f \in Epochs : /\ manager'[f].elapsed = manager[f].elapsed
                          /\ f # e => manager'[f].recorded = manager[f].recorded
      BY <1>1, <2>1 DEF ManagerRecord
  <2>4. active'[e] = active[e] + manager[e].elapsed /\ \A f \in Epochs : f # e => active'[f] = active[f]
      BY <1>1, <2>2
  <2>5. manager[e].elapsed <= active'[e]
      BY <1>3, <2>4
  <2> QED
      BY <1>2, <2>3, <2>4, <2>5 DEF RecordedIsCounted
<1>6. ASSUME NEW e \in Epochs, TimePasses(e)
      PROVE  RecordedIsCounted'
  <2>1. manager[e].recorded = "no" /\ UNCHANGED active
      BY <1>6 DEF TimePasses
  <2>2. manager' = [manager EXCEPT ![e].elapsed = manager[e].elapsed + 1]
      BY <1>6 DEF TimePasses
  <2>3. \A f \in Epochs : /\ manager'[f].recorded = manager[f].recorded
                          /\ f # e => manager'[f].elapsed = manager[f].elapsed
      BY <1>1, <2>2 DEF ManagerRecord
  <2> QED
      BY <1>2, <2>1, <2>3 DEF RecordedIsCounted
<1>7. ASSUME NEW e \in Epochs, Bind(e) \/ CheckTime(e)
      PROVE  RecordedIsCounted'
    BY <1>1, <1>4, <1>7 DEF Bind, CheckTime, ManagerRecord
<1>8. ASSUME NEW c \in Calls, Deny(c)
      PROVE  RecordedIsCounted'
    BY <1>1, <1>4, <1>8 DEF Deny, ManagerRecord
<1>9. ASSUME NEW c \in Calls,
             \/ \E e \in Epochs : StartCall(c, e)
             \/ ReconcileFirst(c) \/ Admit(c) \/ Refuse(c) \/ Serve(c) \/ SettleItem(c)
             \/ CannotSettle(c) \/ Abandon(c) \/ ReservationExpires(c)
      PROVE  RecordedIsCounted'
  <2>1. UNCHANGED <<manager, active>>
      BY <1>9 DEF StartCall, ReconcileFirst, Admit, Refuse, Serve, SettleItem, CannotSettle,
                  Abandon, ReservationExpires
  <2> QED
      BY <1>4, <2>1
<1>10. CASE Grant \/ RequestCancel \/ Release \/ LeaseExpires \/ UNCHANGED vars
  <2>1. UNCHANGED <<manager, active>>
      BY <1>10 DEF Grant, RequestCancel, Release, LeaseExpires, vars
  <2> QED
      BY <1>4, <2>1
<1> QED
    BY <1>5, <1>6, <1>7, <1>8, <1>9, <1>10 DEF Next

\* The invariant of the limits holds of the empty ledger.
LEMMA InitialLimits ==
    ASSUME Init, IInv
    PROVE  LimitInv
<1>1. \A x \in Reservations : Charge(x) = 0 /\ ~Reserved(x)
    BY DEF Init, Charge, Reserved
<1>2. ASSUME NEW k \in DOMAIN Limit
      PROVE  Usage(k) <= Limit[k]
  <2> DEFINE S == Of(k)
             ch == ChargeOf
  <2>1. TypeOK
      BY DEF IInv
  <2>2. IsFiniteSet(S) /\ S \in SUBSET Reservations /\ Numbers(ch, S) /\ Usage(k) = Total(ch, S)
      BY <2>1, ChargesAreNumbers, UsageIsTotal DEF UsagesAddUp
  <2>3. \A x \in S : ch[x] = 0
      BY <1>1, <2>2 DEF ChargeOf
  <2> HIDE DEF S, ch
  <2>4. Total(ch, S) = 0
      BY <2>2, <2>3, TotalOfNothing
  <2>5. Limit[k] \in Nat
      BY BudgetAssumption
  <2> QED
      BY <2>2, <2>4, <2>5
<1>3. RecordedIsCounted
    BY DEF Init, RecordedIsCounted
<1> QED
    BY <1>1, <1>2, <1>3 DEF LimitInv, ReservedIsWhole, WithinLimits

\* What is admitted fits for good.
THEOREM LimitInvariant == Spec => []LimitInv
<1>1. Init /\ IInv => LimitInv
    BY InitialLimits
<1>2. IInv /\ IInv' /\ LimitInv /\ [Next]_vars => LimitInv'
    BY WhoWrites, WholeReservationsKeep, LimitsKeep, RecordedTimeKeeps DEF LimitInv
<1> QED
    BY <1>1, <1>2, LedgerInvariant, PTL DEF Spec

\* No run goes over a hard limit, whatever its calls reserve, however many are under
\* way at once, and whichever executions were lost with calls under way.
THEOREM LimitsHold == Spec => []WithinLimits
<1>1. LimitInv => WithinLimits
    BY DEF LimitInv
<1> QED
    BY <1>1, LimitInvariant, PTL

\* An admission leaves time: what the executions have recorded, and what the live one
\* has taken, is within the limit.
LEMMA AdmittedInTime ==
    ASSUME IInv, LimitInv, Next, NEW c \in Calls, call[c].pc # "calling", call'[c].pc = "calling"
    PROVE  LET counted == {e \in Epochs : e = call[c].epoch \/ manager[e].recorded # "no"}
           IN  MapThenSumSet(LAMBDA e : manager[e].elapsed, counted) < ActiveLimit
<1> DEFINE e0 == call[c].epoch
           counted == {e \in Epochs : e = e0 \/ manager[e].recorded # "no"}
           rest == counted \ {e0}
           el == ElapsedOf
<1>1. Admit(c)
    BY CallingIsAdmitted
<1>2. TypeOK /\ Authority(e0) /\ ~OutOfTime(e0)
    BY <1>1 DEF IInv, Admit, MayReserve, Denies
<1>3. e0 \in Epochs
  <2>1. e0 \in Nat /\ e0 \in 0..MaxEpoch
      BY CallFacts DEF CallRecord
  <2>2. e0 # 0
      BY <1>2 DEF Authority, IInv, EpochsInOrder
  <2> QED
      BY <2>1, <2>2, BudgetAssumption DEF Epochs
<1>4. manager \in [Epochs -> ManagerRecord] /\ active \in [Epochs -> Nat]
    BY <1>2 DEF TypeOK
<1>5. IsFiniteSet(Epochs) /\ counted \in SUBSET Epochs /\ rest \in SUBSET Epochs /\ e0 \in counted
    BY <1>3, BudgetAssumption, FS_Interval DEF Epochs
<1>6. IsFiniteSet(counted) /\ IsFiniteSet(rest)
    BY <1>5, FS_Subset
<1>7. /\ Numbers(el, counted) /\ Numbers(el, rest) /\ Numbers(active, rest)
      /\ Numbers(active, Epochs) /\ el[e0] = manager[e0].elapsed /\ el[e0] \in Nat
    BY <1>3, <1>4, <1>5 DEF Numbers, ElapsedOf, ManagerRecord
<1>8. \A e \in rest : el[e] <= active[e]
    BY <1>5 DEF ElapsedOf, LimitInv, RecordedIsCounted
<1>9. MapThenSumSet(LAMBDA e : manager[e].elapsed, counted) = Total(el, counted)
    BY <1>2, <1>5, ElapsedIsTotal
<1>10. ActiveSpent(e0) = Total(active, Epochs) + el[e0]
    BY <1>7 DEF ActiveSpent, Total
<1> HIDE DEF el, e0
<1>11. Total(el, counted) = el[e0] + Total(el, rest)
    BY <1>5, <1>6, <1>7, TotalWithout
<1> HIDE DEF counted, rest
<1>12. Total(el, rest) <= Total(active, rest) /\ Total(active, rest) <= Total(active, Epochs)
    BY <1>5, <1>6, <1>7, <1>8, SmallerTotal, PartOfTotal
<1>13. Total(el, rest) \in Nat /\ Total(active, rest) \in Nat /\ Total(active, Epochs) \in Nat
    BY <1>5, <1>6, <1>7, Totals
<1>14. Total(active, Epochs) + el[e0] < ActiveLimit
    BY <1>2, <1>7, <1>10, <1>13, BudgetAssumption DEF OutOfTime
<1>15. Total(el, counted) < ActiveLimit
    BY <1>7, <1>11, <1>12, <1>13, <1>14, BudgetAssumption
<1> QED
    BY <1>9, <1>15 DEF counted, e0

\* Once the recorded time of a run has used up its limit nothing is admitted.
THEOREM RecordedTimeHolds == Spec => RecordedTimeGates
<1>1. IInv /\ LimitInv /\ [Next]_vars =>
        [\A c \in Calls : call[c].pc # "calling" /\ call'[c].pc = "calling" =>
           LET counted == {e \in Epochs : e = call[c].epoch \/ manager[e].recorded # "no"}
           IN  MapThenSumSet(LAMBDA e : manager[e].elapsed, counted) < ActiveLimit]_vars
    BY AdmittedInTime
<1> QED
    BY <1>1, LedgerInvariant, LimitInvariant, PTL DEF Spec, RecordedTimeGates
=============================================================================
