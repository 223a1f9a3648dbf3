----------------------- MODULE FencedCheckpointsProofs -----------------------
(***************************************************************************)
(* Proofs about the checkpoints of a run, for any number of executions and *)
(* of node executions: the accepted references tell one history, and an    *)
(* execution works on top of all of it.                                    *)
(***************************************************************************)
EXTENDS FencedCheckpoints, SequenceTheorems, TLAPS

States == Seq(Outputs)
Pcs == {"off", "loading", "ready", "running", "ran", "writing", "wrote", "saving"}
Workers == [pc : Pcs, base : States, state : States, at : Refs, event : BOOLEAN, seen : Refs]
Rows == [ns : Epochs, id : Nat \ {0}, epoch : Epochs, state : States]

Types ==
    /\ lease \in [epoch : 0..MaxEpoch, held : BOOLEAN]
    /\ worker \in [Epochs -> Workers]
    /\ stored \in [Epochs -> Seq(States)]
    /\ writes \subseteq [ns : Epochs, after : Refs, output : Outputs]
    /\ accepted \in Seq(Rows)
    /\ steps \in 0..MaxSteps

RefOK(ref) == ref # NoRef => ref.ns \in Epochs /\ ref.id \in DOMAIN stored[ref.ns]

(***************************************************************************)
(* The invariant.  The rows come in the order of the executions, each with *)
(* a payload of its own namespace, and each payload continues the ones     *)
(* before it.                                                              *)
(***************************************************************************)
RowsOK ==
    /\ \A i \in DOMAIN accepted :
         /\ accepted[i].ns = accepted[i].epoch /\ accepted[i].epoch <= lease.epoch
         /\ accepted[i].id \in DOMAIN stored[accepted[i].ns]
         /\ accepted[i].state = Payload(accepted[i])
    /\ \A i, j \in DOMAIN accepted : i < j =>
         /\ accepted[i].epoch <= accepted[j].epoch
         /\ IsPrefix(Payload(accepted[i]), Payload(accepted[j]))

\* The checkpoints of an execution lie between what it resumed from and what it
\* has reached, each on top of the ones before it.
Chain(e) ==
    /\ IsPrefix(worker[e].base, worker[e].state)
    /\ \A k \in DOMAIN stored[e] : /\ IsPrefix(worker[e].base, stored[e][k])
                                   /\ IsPrefix(stored[e][k], worker[e].state)
    /\ \A j, k \in DOMAIN stored[e] : j <= k => IsPrefix(stored[e][j], stored[e][k])

\* What an execution has read for the next row is not older than its last row.
Seen(e) ==
    worker[e].seen # NoRef =>
       /\ worker[e].seen.ns = e
       /\ \A i \in DOMAIN accepted : accepted[i].ns = e => accepted[i].id <= worker[e].seen.id

\* The execution that has the lease resumed from all that others have accepted.
Works(e) == worker[e].pc \notin {"off", "loading"}
Resumed(e) ==
    Guard(e) /\ Works(e) =>
       \A i \in DOMAIN accepted :
          accepted[i].ns = e \/ IsPrefix(Payload(accepted[i]), worker[e].base)

Based(e) ==
    worker[e].base = << >> \/ \E i \in DOMAIN accepted : worker[e].base = accepted[i].state

\* Before it has loaded, an execution has neither read nor stored anything.
Fresh(e) ==
    /\ worker[e].pc = "loading" => stored[e] = << >> /\ worker[e].seen = NoRef
    /\ e > lease.epoch => worker[e] = Off /\ stored[e] = << >>

\* What is being stored is the work of a node.
Having == {"ran", "writing", "wrote", "saving"}
Worked(e) == worker[e].pc \in Having => worker[e].state # << >>

WorkerOK(e) ==
    /\ RefOK(worker[e].seen) /\ RefOK(worker[e].at)
    /\ Chain(e) /\ Seen(e) /\ Resumed(e) /\ Based(e) /\ Fresh(e) /\ Worked(e)

IInv == Types /\ RowsOK /\ \A e \in Epochs : WorkerOK(e)

-----------------------------------------------------------------------------
(***************************************************************************)
(* Prefixes.                                                               *)
(***************************************************************************)
LEMMA PrefixIs ==
    ASSUME NEW S, NEW s \in Seq(S), NEW t \in Seq(S)
    PROVE  IsPrefix(s, t) <=> Len(s) <= Len(t) /\ \A k \in 1 .. Len(s) : s[k] = t[k]
<1>1. Len(s) \in Nat /\ Len(t) \in Nat /\ SubSeq(s, 1, Len(s)) = s
  BY SubSeqFull
<1>2. ASSUME Len(s) <= Len(t)
      PROVE  /\ SubSeq(t, 1, Len(s)) \in Seq(S) /\ Len(SubSeq(t, 1, Len(s))) = Len(s)
             /\ \A k \in 1 .. Len(s) : SubSeq(t, 1, Len(s))[k] = t[k]
  <2>1. \A i \in 1 .. Len(s) : t[i] \in S
    BY <1>1, <1>2
  <2>2. \A i \in 1 .. Len(s) - 1 + 1 : SubSeq(t, 1, Len(s))[i] = t[1 + i - 1]
    BY <1>1, <2>1, <1>2, SubSeqProperties
  <2>3. Len(s) = 0 => SubSeq(t, 1, Len(s)) \in Seq(S) /\ Len(SubSeq(t, 1, Len(s))) = 0
    BY <1>1, <1>2, SubSeqProperties
  <2> QED BY <1>1, <1>2, <2>1, <2>2, <2>3, SubSeqProperties
<1>3. ASSUME Len(s) <= Len(t), \A k \in 1 .. Len(s) : s[k] = t[k]
      PROVE  s = SubSeq(t, 1, Len(s))
  BY <1>1, <1>2, <1>3, SeqEqual
<1> QED BY <1>1, <1>2, <1>3 DEF IsPrefix

LEMMA PrefixReflexive ==
    ASSUME NEW S, NEW s \in Seq(S)
    PROVE  IsPrefix(s, s)
BY PrefixIs

LEMMA PrefixTransitive ==
    ASSUME NEW S, NEW s \in Seq(S), NEW t \in Seq(S), NEW u \in Seq(S),
           IsPrefix(s, t), IsPrefix(t, u)
    PROVE  IsPrefix(s, u)
BY PrefixIs

LEMMA PrefixOfAppend ==
    ASSUME NEW S, NEW s \in Seq(S), NEW x \in S
    PROVE  Append(s, x) \in Seq(S) /\ IsPrefix(s, Append(s, x))
<1> DEFINE t == Append(s, x)
<1>1. t \in Seq(S) /\ Len(t) = Len(s) + 1 /\ \A i \in 1 .. Len(s) : t[i] = s[i]
  BY AppendProperties
<1>2. Len(s) \in Nat
  OBVIOUS
<1> HIDE DEF t
<1>3. IsPrefix(s, t) <=> Len(s) <= Len(t) /\ \A k \in 1 .. Len(s) : s[k] = t[k]
  BY <1>1, PrefixIs
<1>4. IsPrefix(s, t)
  BY <1>1, <1>2, <1>3
<1> QED BY <1>1, <1>4 DEF t

LEMMA EmptyIsPrefix ==
    ASSUME NEW S, NEW s \in Seq(S)
    PROVE  IsPrefix(<< >>, s)
<1>1. ASSUME NEW t \in Seq(S), Len(t) = 0
      PROVE  IsPrefix(t, s)
  <2>1. IsPrefix(t, s) <=> Len(t) <= Len(s) /\ \A k \in 1 .. Len(t) : t[k] = s[k]
    BY PrefixIs
  <2>2. Len(s) \in Nat
    BY LenProperties
  <2>3. \A k \in 1 .. Len(t) : FALSE
    BY <1>1
  <2> QED BY <1>1, <2>1, <2>2, <2>3
<1>2. << >> \in Seq(S) /\ Len(<< >>) = 0
  BY EmptySeq
<1> QED BY <1>1, <1>2

-----------------------------------------------------------------------------
(***************************************************************************)
(* What the invariant says of a row.                                       *)
(***************************************************************************)
LEMMA Row ==
    ASSUME IInv, NEW i \in DOMAIN accepted
    PROVE  /\ accepted[i] \in Rows /\ accepted[i].id \in DOMAIN stored[accepted[i].ns]
           /\ Payload(accepted[i]) \in States /\ accepted[i].state = Payload(accepted[i])
<1>1. accepted[i] \in Rows
  BY DEF IInv, Types
<1>2. stored[accepted[i].ns] \in Seq(States)
  BY <1>1 DEF IInv, Types, Rows
<1> QED BY <1>1, <1>2 DEF IInv, RowsOK, Payload

\* The rows come in the order of the epochs: the reference to resume from is in the last one.
LEMMA LatestIsLast ==
    ASSUME IInv, accepted # << >>
    PROVE  /\ Len(accepted) \in DOMAIN accepted /\ Len(accepted) \in Nat
           /\ LatestAccepted = accepted[Len(accepted)]
<1> DEFINE n == Len(accepted)
           Latest(i) == \A j \in DOMAIN accepted :
                           \/ accepted[j].epoch < accepted[i].epoch
                           \/ accepted[j].epoch = accepted[i].epoch /\ j <= i
<1>1. n \in Nat \ {0} /\ DOMAIN accepted = 1 .. n
  BY EmptySeq, LenProperties DEF IInv, Types
<1>2. \A i \in DOMAIN accepted : accepted[i].epoch \in Nat
  <2>1. \A i \in DOMAIN accepted : accepted[i] \in Rows
    BY ElementOfSeq, LenProperties DEF IInv, Types
  <2> QED BY <2>1, CheckpointsAssumption DEF Rows, Epochs
<1>3. Latest(n)
  <2> SUFFICES ASSUME NEW j \in DOMAIN accepted
               PROVE  \/ accepted[j].epoch < accepted[n].epoch
                      \/ accepted[j].epoch = accepted[n].epoch /\ j <= n
    OBVIOUS
  <2>1. j \in 1 .. n /\ n \in DOMAIN accepted
    BY <1>1
  <2>2. CASE j = n
    BY <1>1, <2>2
  <2>3. CASE j < n
    <3>1. accepted[j].epoch <= accepted[n].epoch
      BY <2>1, <2>3 DEF IInv, RowsOK
    <3> QED BY <1>1, <1>2, <2>1, <2>3, <3>1
  <2> QED BY <1>1, <2>1, <2>2, <2>3
<1>4. ASSUME NEW i \in DOMAIN accepted, Latest(i)
      PROVE  i = n
  BY <1>1, <1>2, <1>4 DEF IInv, RowsOK
<1> QED BY <1>1, <1>3, <1>4 DEF LatestAccepted

LEMMA NoRefIs == NoRef \in Refs /\ NoRef.ns \notin Epochs
BY CheckpointsAssumption DEF NoRef, Refs, Epochs

-----------------------------------------------------------------------------
(***************************************************************************)
(* A step of one execution.                                                *)
(***************************************************************************)
\* The executions that do not take the step: rows are only added by the one that
\* has the lease, payloads are only added at all.
LEMMA OthersKeep ==
    ASSUME IInv, NEW e \in Epochs, NEW f \in Epochs \ {e}, worker'[f] = worker[f],
           \/ UNCHANGED <<stored, accepted, lease>>
           \/ UNCHANGED <<accepted, lease>> /\ stored'[f] = stored[f]
                /\ \A ns \in Epochs : \A k \in DOMAIN stored[ns] :
                      k \in DOMAIN stored'[ns] /\ stored'[ns][k] = stored[ns][k]
           \/ /\ UNCHANGED <<stored, lease>> /\ Guard(e)
              /\ DOMAIN accepted \subseteq DOMAIN accepted'
              /\ \A i \in DOMAIN accepted : accepted'[i] = accepted[i]
              /\ \A i \in DOMAIN accepted' \ DOMAIN accepted : accepted'[i].ns = e
    PROVE  WorkerOK(f)'
<1>1. WorkerOK(f)
  BY DEF IInv
<1>2. CASE UNCHANGED <<stored, accepted, lease>>
  BY <1>1, <1>2 DEF WorkerOK, RefOK, Chain, Seen, Resumed, Guard, Works, Based, Fresh, Worked, Payload
<1>3. CASE /\ UNCHANGED <<accepted, lease>> /\ stored'[f] = stored[f]
           /\ \A ns \in Epochs : \A k \in DOMAIN stored[ns] :
                 k \in DOMAIN stored'[ns] /\ stored'[ns][k] = stored[ns][k]
  <2>1. \A i \in DOMAIN accepted : Payload(accepted[i])' = Payload(accepted[i])
    BY <1>3, Row DEF Payload, Rows
  <2>2. RefOK(worker[f].seen)' /\ RefOK(worker[f].at)'
    BY <1>1, <1>3 DEF WorkerOK, RefOK
  <2>3. Chain(f)' /\ Seen(f)' /\ Based(f)' /\ Fresh(f)' /\ Worked(f)'
    BY <1>1, <1>3 DEF WorkerOK, Chain, Seen, Based, Fresh, Worked
  <2>4. Resumed(f)'
    BY <1>1, <1>3, <2>1 DEF WorkerOK, Resumed, Guard, Works
  <2> QED BY <2>2, <2>3, <2>4 DEF WorkerOK
<1>4. CASE /\ UNCHANGED <<stored, lease>> /\ Guard(e)
           /\ DOMAIN accepted \subseteq DOMAIN accepted'
           /\ \A i \in DOMAIN accepted : accepted'[i] = accepted[i]
           /\ \A i \in DOMAIN accepted' \ DOMAIN accepted : accepted'[i].ns = e
  <2>1. RefOK(worker[f].seen)' /\ RefOK(worker[f].at)' /\ Chain(f)' /\ Fresh(f)' /\ Worked(f)'
    BY <1>1, <1>4 DEF WorkerOK, RefOK, Chain, Fresh, Worked
  <2>2. Seen(f)'
    BY <1>1, <1>4 DEF WorkerOK, Seen
  <2>3. Resumed(f)'
    BY <1>4 DEF Resumed, Guard
  <2>4. Based(f)'
    BY <1>1, <1>4 DEF WorkerOK, Based
  <2> QED BY <2>1, <2>2, <2>3, <2>4 DEF WorkerOK
<1> QED BY <1>2, <1>3, <1>4

\* A step that changes one execution and neither rows nor payloads.
LEMMA WorkerSteps ==
    ASSUME IInv, NEW e \in Epochs, NEW w \in Workers, worker' = [worker EXCEPT ![e] = w],
           UNCHANGED <<lease, stored, accepted>>,
           writes' \subseteq [ns : Epochs, after : Refs, output : Outputs],
           steps' \in 0 .. MaxSteps, WorkerOK(e)'
    PROVE  IInv'
<1>1. worker' \in [Epochs -> Workers] /\ \A f \in Epochs \ {e} : worker'[f] = worker[f]
  BY DEF IInv, Types
<1>2. Types'
  BY <1>1 DEF IInv, Types
<1>3. RowsOK'
  BY DEF IInv, RowsOK, Payload
<1>4. \A f \in Epochs : WorkerOK(f)'
  BY <1>1, OthersKeep
<1> QED BY <1>2, <1>3, <1>4 DEF IInv

\* The execution goes on, or ends, with what it had.
LEMMA GoesOn ==
    ASSUME IInv, NEW e \in Epochs, worker[e].pc # "off",
           UNCHANGED <<lease, stored, accepted>>,
           worker'[e].base = worker[e].base, worker'[e].state = worker[e].state,
           worker'[e].at = worker[e].at, worker'[e].seen = worker[e].seen,
           worker'[e].pc = "off" \/ (Works(e) /\ worker'[e].pc # "loading"),
           worker'[e].pc \in Having => worker[e].pc \in Having
    PROVE  WorkerOK(e)'
<1>1. WorkerOK(e)
  BY DEF IInv
<1>2. ~(e > lease.epoch)
  BY <1>1 DEF WorkerOK, Fresh, Off
<1>3. RefOK(worker[e].seen)' /\ RefOK(worker[e].at)' /\ Chain(e)' /\ Seen(e)' /\ Based(e)'
  BY <1>1 DEF WorkerOK, RefOK, Chain, Seen, Based
<1>4. Resumed(e)'
  BY <1>1 DEF WorkerOK, Resumed, Works, Guard, Payload
<1>5. Fresh(e)' /\ Worked(e)'
  BY <1>1, <1>2 DEF WorkerOK, Fresh, Works, Worked
<1> QED BY <1>3, <1>4, <1>5 DEF WorkerOK

LEMMA LoadKeeps ==
    ASSUME IInv, NEW e \in Epochs, Load(e)
    PROVE  IInv'
<1>1. PICK ref, st :
        /\ ref = IF accepted = << >> THEN NoRef
                 ELSE [ns |-> LatestAccepted.ns, id |-> LatestAccepted.id]
        /\ st = IF ref = NoRef THEN << >> ELSE Payload(ref)
        /\ worker' = [worker EXCEPT ![e] = [@ EXCEPT !.pc = "ready", !.at = ref, !.base = st,
                                                     !.state = st]]
  BY DEF Load, Read
<1>2. UNCHANGED <<lease, stored, writes, accepted, steps>> /\ worker[e].pc = "loading"
  BY DEF Load
<1>3. Types /\ worker[e] \in Workers /\ WorkerOK(e)
  BY DEF IInv, Types
<1>4. ref \in Refs /\ RefOK(ref) /\ st \in States /\ (st = << >> \/ \E i \in DOMAIN accepted : st = accepted[i].state)
      /\ \A i \in DOMAIN accepted : IsPrefix(Payload(accepted[i]), st)
  <2>1. CASE accepted = << >>
    BY <1>1, <2>1, NoRefIs DEF RefOK, States
  <2>2. CASE accepted # << >>
    <3> DEFINE n == Len(accepted)
    <3>1. n \in DOMAIN accepted /\ n \in Nat /\ LatestAccepted = accepted[n]
      BY <2>2, LatestIsLast
    <3>2. /\ accepted[n] \in Rows /\ accepted[n].id \in DOMAIN stored[accepted[n].ns]
          /\ Payload(accepted[n]) \in States /\ accepted[n].state = Payload(accepted[n])
      BY <3>1, Row
    <3>3. ref = [ns |-> accepted[n].ns, id |-> accepted[n].id]
      BY <1>1, <2>2, <3>1
    <3>4. ref \in Refs /\ ref # NoRef /\ RefOK(ref)
      BY <3>2, <3>3, CheckpointsAssumption DEF Refs, Rows, NoRef, Epochs, RefOK
    <3>5. st = Payload(accepted[n])
      BY <1>1, <3>3, <3>4 DEF Payload
    <3>6. ASSUME NEW i \in DOMAIN accepted
          PROVE  IsPrefix(Payload(accepted[i]), st)
      <4>1. i <= n /\ i \in Nat
        BY LenProperties, <1>3 DEF Types
      <4>2. CASE i = n
        BY <3>2, <3>5, <4>2, PrefixReflexive DEF States
      <4>3. CASE i < n
        BY <3>1, <3>5, <4>3 DEF IInv, RowsOK
      <4> QED BY <3>1, <4>1, <4>2, <4>3
    <3> QED BY <3>1, <3>2, <3>4, <3>5, <3>6
  <2> QED BY <2>1, <2>2
<1>5. PICK w : w = [worker[e] EXCEPT !.pc = "ready", !.at = ref, !.base = st, !.state = st]
  OBVIOUS
<1>6. /\ w \in Workers /\ w.pc = "ready" /\ w.at = ref /\ w.base = st /\ w.state = st
      /\ w.seen = worker[e].seen
  BY <1>3, <1>4, <1>5 DEF Workers, Pcs
<1>7. worker' = [worker EXCEPT ![e] = w] /\ worker'[e] = w
  BY <1>1, <1>3, <1>5 DEF Types
<1>8. stored[e] = << >> /\ w.seen = NoRef /\ ~(e > lease.epoch)
  BY <1>2, <1>3, <1>6 DEF WorkerOK, Fresh, Off
<1>9. WorkerOK(e)'
  <2>1. RefOK(worker[e].seen)' /\ RefOK(worker[e].at)'
    BY <1>2, <1>4, <1>6, <1>7, <1>8 DEF RefOK
  <2>2. Chain(e)'
    BY <1>2, <1>4, <1>6, <1>7, <1>8, PrefixReflexive DEF Chain, States
  <2>3. Seen(e)' /\ Fresh(e)' /\ Worked(e)'
    BY <1>2, <1>6, <1>7, <1>8 DEF Seen, Fresh, Worked, Having
  <2>4. Resumed(e)'
    BY <1>2, <1>4, <1>6, <1>7 DEF Resumed, Payload
  <2>5. Based(e)'
    BY <1>2, <1>4, <1>6, <1>7 DEF Based
  <2> QED BY <2>1, <2>2, <2>3, <2>4, <2>5 DEF WorkerOK
<1> QED BY <1>2, <1>3, <1>6, <1>7, <1>9, WorkerSteps DEF Types

\* An execution passes a guard, ends, or stores the pending writes of its node.
LEMMA PassingKeeps ==
    ASSUME IInv, NEW e \in Epochs, PassGuard(e) \/ LandWrites(e) \/ Crash(e)
    PROVE  IInv'
<1>1. Types /\ worker[e] \in Workers
  BY DEF IInv, Types
<1>2. UNCHANGED <<lease, stored, accepted, steps>> /\ worker[e].pc # "off"
  BY DEF PassGuard, LandWrites, Crash
<1>3. PICK w : /\ worker' = [worker EXCEPT ![e] = w]
               /\ w \in Workers /\ w.base = worker[e].base /\ w.state = worker[e].state
               /\ w.at = worker[e].at /\ w.seen = worker[e].seen
               /\ w.pc = "off" \/ (Works(e) /\ w.pc # "loading")
               /\ w.pc \in Having => worker[e].pc \in Having
  <2>1. PICK p \in Pcs, b \in BOOLEAN :
          /\ worker' = [worker EXCEPT ![e] = [@ EXCEPT !.pc = p, !.event = b]]
          /\ p = "off" \/ (Works(e) /\ p # "loading")
          /\ p \in Having => worker[e].pc \in Having
    <3>1. CASE PassGuard(e)
      <4>1. PICK p \in {"off", After[worker[e].pc]} : worker' = [worker EXCEPT ![e].pc = p]
        BY <3>1 DEF PassGuard, Goes
      <4>2. [worker[e] EXCEPT !.pc = p] = [worker[e] EXCEPT !.pc = p, !.event = worker[e].event]
        BY <1>1 DEF Workers
      <4>3. worker' = [worker EXCEPT ![e] = [@ EXCEPT !.pc = p, !.event = worker[e].event]]
        BY <4>1, <4>2
      <4>4. worker[e].event \in BOOLEAN
        BY <1>1 DEF Workers
      <4>5. /\ p \in Pcs /\ (p = "off" \/ (Works(e) /\ p # "loading"))
            /\ p \in Having => worker[e].pc \in Having
        BY <3>1, <4>1 DEF PassGuard, After, Pcs, Works, Having
      <4> QED BY <4>3, <4>4, <4>5
    <3>2. CASE LandWrites(e)
      BY <3>2 DEF LandWrites, Pcs, Works, Having
    <3>3. CASE Crash(e)
      <4>1. [worker[e] EXCEPT !.pc = "off"]
               = [worker[e] EXCEPT !.pc = "off", !.event = worker[e].event]
        BY <1>1 DEF Workers
      <4>2. worker' = [worker EXCEPT ![e] = [@ EXCEPT !.pc = "off", !.event = worker[e].event]]
        BY <3>3, <4>1 DEF Crash, Goes
      <4>3. worker[e].event \in BOOLEAN
        BY <1>1 DEF Workers
      <4> QED BY <4>2, <4>3 DEF Pcs, Having
    <3> QED BY <3>1, <3>2, <3>3
  <2> DEFINE w == [worker[e] EXCEPT !.pc = p, !.event = b]
  <2>2. /\ w \in Workers /\ w.base = worker[e].base /\ w.state = worker[e].state
        /\ w.at = worker[e].at /\ w.seen = worker[e].seen /\ w.pc = p
    BY <1>1, <2>1 DEF Workers
  <2>3. worker' = [worker EXCEPT ![e] = w]
    BY <2>1
  <2> HIDE DEF w
  <2> QED BY <2>1, <2>2, <2>3
<1>4. worker'[e] = w
  BY <1>1, <1>3 DEF Types
<1>5. WorkerOK(e)'
  BY <1>2, <1>3, <1>4, GoesOn
<1>6. writes' \subseteq [ns : Epochs, after : Refs, output : Outputs]
  <2>1. CASE PassGuard(e) \/ Crash(e)
    BY <1>1, <2>1 DEF PassGuard, Crash, Types
  <2>2. CASE LandWrites(e)
    <3>1. worker[e].state \in States /\ worker[e].state # << >>
      BY <1>1, <2>2 DEF IInv, WorkerOK, Worked, Having, LandWrites, Workers
    <3>2. Last(worker[e].state) \in Outputs
      BY <3>1, EmptySeq, LenProperties, ElementOfSeq DEF Last, States
    <3> QED BY <1>1, <2>2, <3>2 DEF LandWrites, Types, WriteNamespace, Workers
  <2> QED BY <2>1, <2>2
<1> QED BY <1>1, <1>2, <1>3, <1>5, <1>6, WorkerSteps DEF Types

\* The end of an execution that did not pass a guard.
LEMMA EndKeeps ==
    ASSUME IInv, NEW e \in Epochs, worker[e].pc # "off", Goes(e, "off"),
           UNCHANGED <<lease, stored, writes, accepted, steps>>
    PROVE  IInv'
<1> DEFINE w == [worker[e] EXCEPT !.pc = "off"]
<1>1. worker[e] \in Workers /\ Types
  BY DEF IInv, Types
<1>2. /\ w \in Workers /\ w.base = worker[e].base /\ w.state = worker[e].state
      /\ w.at = worker[e].at /\ w.seen = worker[e].seen /\ w.pc = "off"
  BY <1>1 DEF Workers, Pcs
<1>3. worker' = [worker EXCEPT ![e] = w]
  BY DEF Goes
<1> HIDE DEF w
<1>4. WorkerOK(e)'
  BY <1>1, <1>2, <1>3, GoesOn DEF Types, Having
<1> QED BY <1>1, <1>2, <1>3, <1>4, WorkerSteps DEF Types

LEMMA FinishNodeKeeps ==
    ASSUME IInv, NEW e \in Epochs, FinishNode(e)
    PROVE  IInv'
<1>1. Types /\ worker[e] \in Workers /\ WorkerOK(e) /\ worker[e].pc = "running"
  BY DEF IInv, Types, FinishNode
<1>2. UNCHANGED <<lease, stored, writes, accepted>>
  BY DEF FinishNode
<1>3. CASE Guard(e)
  <2>1. PICK st : /\ st = Append(worker[e].state, steps + 1)
                  /\ worker' = [worker EXCEPT ![e] = [@ EXCEPT !.pc = "ran", !.state = st]]
    BY <1>3 DEF FinishNode
  <2>2. steps' = steps + 1 /\ steps + 1 \in Outputs /\ steps' \in 0 .. MaxSteps
    BY <1>1, <1>3, CheckpointsAssumption DEF FinishNode, Types, Outputs
  <2>3. worker[e].state \in States /\ worker[e].base \in States
    BY <1>1 DEF Workers
  <2>4. st \in States /\ IsPrefix(worker[e].state, st) /\ st # << >>
    BY <2>1, <2>2, <2>3, PrefixOfAppend, AppendProperties DEF States
  <2> DEFINE w == [worker[e] EXCEPT !.pc = "ran", !.state = st]
  <2>5. /\ w \in Workers /\ w.base = worker[e].base /\ w.state = st
        /\ w.at = worker[e].at /\ w.seen = worker[e].seen /\ w.pc = "ran"
    BY <1>1, <2>4 DEF Workers, Pcs
  <2>6. worker' = [worker EXCEPT ![e] = w]
    BY <2>1
  <2> HIDE DEF w
  <2>7. worker'[e] = w
    BY <1>1, <2>6 DEF Types
  <2>8. Chain(e)'
    <3>1. \A k \in DOMAIN stored[e] : stored[e][k] \in States
      BY <1>1 DEF Types
    <3>2. IsPrefix(worker[e].base, st)
      BY <1>1, <2>3, <2>4, PrefixTransitive DEF WorkerOK, Chain, States
    <3>3. \A k \in DOMAIN stored[e] : IsPrefix(stored[e][k], st)
      BY <1>1, <2>3, <2>4, <3>1, PrefixTransitive DEF WorkerOK, Chain, States
    <3> QED BY <1>1, <1>2, <2>5, <2>7, <3>2, <3>3 DEF WorkerOK, Chain
  <2>9. /\ RefOK(worker[e].seen)' /\ RefOK(worker[e].at)'
        /\ Seen(e)' /\ Resumed(e)' /\ Based(e)' /\ Worked(e)'
    BY <1>1, <1>2, <2>4, <2>5, <2>7
    DEF WorkerOK, RefOK, Seen, Resumed, Guard, Works, Based, Worked, Payload
  <2>10. Fresh(e)'
    BY <1>1, <1>2, <2>5, <2>7 DEF WorkerOK, Fresh, Off
  <2>11. WorkerOK(e)'
    BY <2>8, <2>9, <2>10 DEF WorkerOK
  <2> QED BY <1>1, <1>2, <2>2, <2>5, <2>6, <2>11, WorkerSteps DEF Types
<1>4. CASE ~Guard(e)
  BY <1>1, <1>2, <1>4, EndKeeps DEF FinishNode
<1> QED BY <1>3, <1>4

LEMMA LookKeeps ==
    ASSUME IInv, NEW e \in Epochs, Look(e)
    PROVE  IInv'
<1>1. Types /\ worker[e] \in Workers /\ WorkerOK(e) /\ worker[e].pc # "off"
  BY DEF IInv, Types, Look
<1>2. UNCHANGED <<lease, stored, writes, accepted, steps>>
  BY DEF Look
<1>3. CASE Guard(e)
  <2>1. PICK ref, b : ref = LatestOwn(e) /\ b = (LatestOwn(e) # NoRef)
    OBVIOUS
  <2>2. stored[e] \in Seq(States) /\ Len(stored[e]) \in Nat /\ DOMAIN stored[e] = 1 .. Len(stored[e])
    BY <1>1, LenProperties DEF Types
  <2>3. /\ ref \in Refs /\ b \in BOOLEAN
        /\ ref # NoRef => ref.ns = e /\ ref.id = Len(stored[e]) /\ ref.id \in DOMAIN stored[e]
    BY <2>1, <2>2, EmptySeq, CheckpointsAssumption
    DEF LatestOwn, WriteNamespace, Refs, NoRef, Epochs
  <2>4. stored[e] = << >> => ref = NoRef
    BY <2>1 DEF LatestOwn, WriteNamespace
  <2> DEFINE w == [worker[e] EXCEPT !.seen = ref, !.event = b]
  <2>5. /\ w \in Workers /\ w.base = worker[e].base /\ w.state = worker[e].state
        /\ w.at = worker[e].at /\ w.seen = ref /\ w.pc = worker[e].pc
    BY <1>1, <2>3 DEF Workers
  <2>6. worker' = [worker EXCEPT ![e] = w]
    BY <1>3, <2>1 DEF Look
  <2> HIDE DEF w
  <2>7. worker'[e] = w
    BY <1>1, <2>6 DEF Types
  <2>8. Seen(e)'
    <3>1. \A i \in DOMAIN accepted : accepted[i].ns = e => accepted[i].id <= Len(stored[e])
      BY <2>2, Row
    <3> QED BY <1>2, <2>3, <2>5, <2>7, <3>1 DEF Seen
  <2>9. Fresh(e)'
    BY <1>1, <1>2, <2>4, <2>5, <2>7 DEF WorkerOK, Fresh, Off
  <2>10. RefOK(worker[e].seen)' /\ RefOK(worker[e].at)'
    BY <1>1, <1>2, <2>3, <2>5, <2>7 DEF WorkerOK, RefOK
  <2>11. Chain(e)' /\ Resumed(e)' /\ Based(e)' /\ Worked(e)'
    BY <1>1, <1>2, <2>5, <2>7
    DEF WorkerOK, Chain, Resumed, Guard, Works, Based, Worked, Payload
  <2>12. WorkerOK(e)'
    BY <2>8, <2>9, <2>10, <2>11 DEF WorkerOK
  <2> QED BY <1>1, <1>2, <2>5, <2>6, <2>12, WorkerSteps DEF Types
<1>4. CASE ~Guard(e)
  BY <1>1, <1>2, <1>4, EndKeeps DEF Look
<1> QED BY <1>3, <1>4

LEMMA LandCheckpointKeeps ==
    ASSUME IInv, NEW e \in Epochs, LandCheckpoint(e)
    PROVE  IInv'
<1>1. Types /\ worker[e] \in Workers /\ WorkerOK(e) /\ worker[e].pc = "saving"
  BY DEF IInv, Types, LandCheckpoint
<1>2. UNCHANGED <<lease, writes, accepted, steps>>
  BY DEF LandCheckpoint
<1> DEFINE st == worker[e].state
           n == Len(stored[e])
           w == [worker[e] EXCEPT !.pc = "ready", !.at = [ns |-> e, id |-> n + 1]]
<1>3. st \in States /\ stored[e] \in Seq(States) /\ n \in Nat /\ DOMAIN stored[e] = 1 .. n
  BY <1>1, LenProperties DEF Types, Workers
<1>4. stored' = [stored EXCEPT ![e] = Append(stored[e], st)] /\ worker' = [worker EXCEPT ![e] = w]
  BY DEF LandCheckpoint, WriteNamespace
<1>5. /\ stored'[e] = Append(stored[e], st)
      /\ \A f \in Epochs \ {e} : stored'[f] = stored[f]
      /\ stored' \in [Epochs -> Seq(States)]
  BY <1>1, <1>3, <1>4 DEF Types
<1>6. /\ DOMAIN stored'[e] = 1 .. n + 1 /\ stored'[e][n + 1] = st
      /\ \A k \in 1 .. n : stored'[e][k] = stored[e][k]
  BY <1>3, <1>5, AppendProperties, LenProperties
<1>7. \A ns \in Epochs : \A k \in DOMAIN stored[ns] :
         k \in DOMAIN stored'[ns] /\ stored'[ns][k] = stored[ns][k]
  <2>1. \A k \in DOMAIN stored[e] : k \in DOMAIN stored'[e] /\ stored'[e][k] = stored[e][k]
    BY <1>3, <1>6
  <2> QED BY <1>5, <2>1
<1>8. /\ w \in Workers /\ w.base = worker[e].base /\ w.state = st /\ w.seen = worker[e].seen
      /\ w.at = [ns |-> e, id |-> n + 1] /\ w.pc = "ready"
  <2>1. [ns |-> e, id |-> n + 1] \in Refs
    BY <1>3, CheckpointsAssumption DEF Refs, Epochs
  <2> QED BY <1>1, <2>1 DEF Workers, Pcs
<1> HIDE DEF w
<1>9. worker'[e] = w /\ \A f \in Epochs \ {e} : worker'[f] = worker[f]
  BY <1>1, <1>4 DEF Types
<1>10. Types'
  BY <1>1, <1>2, <1>4, <1>5, <1>8 DEF Types
<1>11. RowsOK'
  <2>1. \A i \in DOMAIN accepted : /\ Payload(accepted[i])' = Payload(accepted[i])
                                   /\ accepted[i].id \in DOMAIN stored'[accepted[i].ns]
    BY <1>2, <1>7, Row DEF Payload, Rows
  <2> QED BY <1>2, <2>1 DEF IInv, RowsOK
<1>12. Chain(e)'
  <2>1. \A k \in 1 .. n : stored[e][k] \in States
    BY <1>3
  <2>2. IsPrefix(w.base, w.state) /\ \A k \in 1 .. n : IsPrefix(stored[e][k], st)
    BY <1>1, <1>3, <1>8 DEF WorkerOK, Chain
  <2>3. IsPrefix(st, st)
    BY <1>3, PrefixReflexive DEF States
  <2>4. \A k \in 1 .. n : IsPrefix(w.base, stored[e][k])
    BY <1>1, <1>3, <1>8 DEF WorkerOK, Chain
  <2>5. \A j, k \in 1 .. n : j <= k => IsPrefix(stored[e][j], stored[e][k])
    BY <1>1, <1>3 DEF WorkerOK, Chain
  <2>6. \A k \in 1 .. n + 1 : k \in 1 .. n \/ k = n + 1
    BY <1>3
  <2>7. \A k \in 1 .. n + 1 : /\ IsPrefix(w.base, stored'[e][k])
                              /\ IsPrefix(stored'[e][k], w.state)
    BY <1>6, <1>8, <2>2, <2>3, <2>4, <2>6
  <2>8. \A j, k \in 1 .. n + 1 : j <= k => IsPrefix(stored'[e][j], stored'[e][k])
    <3>1. ASSUME NEW j \in 1 .. n + 1, NEW k \in 1 .. n + 1, j <= k
          PROVE  IsPrefix(stored'[e][j], stored'[e][k])
      <4>1. j = n + 1 => k = n + 1
        BY <1>3, <3>1
      <4> QED BY <1>6, <2>2, <2>3, <2>5, <2>6, <3>1, <4>1, <1>8
    <3> QED BY <3>1
  <2> QED BY <1>6, <1>9, <2>2, <2>7, <2>8 DEF Chain
<1>13. Seen(e)' /\ Based(e)' /\ Worked(e)'
  BY <1>1, <1>2, <1>8, <1>9 DEF WorkerOK, Seen, Based, Worked, Having
<1>14. Resumed(e)'
  <2>1. \A i \in DOMAIN accepted : Payload(accepted[i])' = Payload(accepted[i])
    BY <1>2, <1>7, Row DEF Payload, Rows
  <2> QED BY <1>1, <1>2, <1>8, <1>9, <2>1 DEF WorkerOK, Resumed, Guard, Works
<1>15. RefOK(worker[e].seen)' /\ RefOK(worker[e].at)'
  BY <1>1, <1>3, <1>6, <1>7, <1>8, <1>9 DEF WorkerOK, RefOK
<1>16. Fresh(e)'
  BY <1>1, <1>2, <1>8, <1>9 DEF WorkerOK, Fresh, Off
<1>17. WorkerOK(e)'
  BY <1>12, <1>13, <1>14, <1>15, <1>16 DEF WorkerOK
<1>18. \A f \in Epochs \ {e} : WorkerOK(f)'
  BY <1>2, <1>5, <1>7, <1>9, OthersKeep
<1> QED BY <1>10, <1>11, <1>17, <1>18 DEF IInv

\* add_checkpoint_reference under the fence: the row is added after all the others.
LEMMA RowAdded ==
    ASSUME IInv, NEW e \in Epochs, Guard(e), Works(e), worker[e].seen # NoRef,
           UNCHANGED <<lease, stored, writes, steps>>, worker' \in [Epochs -> Workers],
           \A f \in Epochs \ {e} : worker'[f] = worker[f],
           worker'[e].seen = NoRef, worker'[e].at = worker[e].at, worker'[e].pc = worker[e].pc,
           worker'[e].base = worker[e].base, worker'[e].state = worker[e].state,
           accepted' = Append(accepted, [ns |-> worker[e].seen.ns, id |-> worker[e].seen.id,
                                         epoch |-> e, state |-> Payload(worker[e].seen)])
    PROVE  IInv'
<1>0. PICK n, ref, r :
        /\ n = Len(accepted) /\ ref = worker[e].seen
        /\ r = [ns |-> ref.ns, id |-> ref.id, epoch |-> e, state |-> Payload(ref)]
        /\ accepted' = Append(accepted, r)
  OBVIOUS
<1>1. Types /\ WorkerOK(e) /\ worker[e] \in Workers /\ accepted \in Seq(Rows)
      /\ n \in Nat /\ DOMAIN accepted = 1 .. n
  BY <1>0, LenProperties DEF IInv, Types
<1>2. ref.ns = e /\ ref.id \in DOMAIN stored[e] /\ Payload(ref) = stored[e][ref.id]
  BY <1>0, <1>1 DEF WorkerOK, Seen, RefOK, Payload
<1>3. Payload(ref) \in States /\ ref.id \in Nat \ {0}
  BY <1>1, <1>2 DEF Types
<1>4. r \in Rows /\ r.ns = e /\ r.id = ref.id /\ r.epoch = e /\ r.state = stored[e][ref.id]
  BY <1>0, <1>2, <1>3 DEF Rows
<1>5. /\ accepted' \in Seq(Rows) /\ DOMAIN accepted' = 1 .. n + 1 /\ accepted'[n + 1] = r
      /\ \A i \in 1 .. n : accepted'[i] = accepted[i]
  BY <1>0, <1>1, <1>4, AppendProperties, LenProperties
<1>6. \A i \in 1 .. n : /\ accepted[i].epoch <= e
                        /\ IsPrefix(Payload(accepted[i]), stored[e][ref.id])
  <2>1. ASSUME NEW i \in 1 .. n
        PROVE  IsPrefix(Payload(accepted[i]), stored[e][ref.id])
    <3>1. /\ accepted[i] \in Rows /\ accepted[i].id \in DOMAIN stored[accepted[i].ns]
          /\ Payload(accepted[i]) \in States
      BY <1>1, Row
    <3>2. CASE accepted[i].ns = e
      <4>1. accepted[i].id <= ref.id
        BY <1>0, <1>1, <3>2 DEF WorkerOK, Seen
      <4> QED BY <1>1, <1>2, <3>1, <3>2, <4>1 DEF WorkerOK, Chain, Payload
    <3>3. CASE accepted[i].ns # e
      <4>1. IsPrefix(Payload(accepted[i]), worker[e].base)
        BY <1>1, <3>3 DEF WorkerOK, Resumed
      <4>2. IsPrefix(worker[e].base, stored[e][ref.id]) /\ worker[e].base \in States
        BY <1>1, <1>2 DEF WorkerOK, Chain, Workers
      <4> QED BY <1>2, <1>3, <3>1, <4>1, <4>2, PrefixTransitive DEF States
    <3> QED BY <3>2, <3>3
  <2>2. \A i \in 1 .. n : accepted[i].epoch <= e
    BY <1>1 DEF IInv, RowsOK, Guard
  <2> QED BY <2>1, <2>2
<1>7. Types'
  BY <1>1, <1>5 DEF Types
<1>8. \A i \in 1 .. n + 1 : i \in 1 .. n \/ i = n + 1
  BY <1>1
<1>9. RowsOK'
  <2>1. \A i \in 1 .. n : Payload(accepted[i])' = Payload(accepted[i])
    BY <1>5 DEF Payload
  <2>2. Payload(accepted[n + 1])' = stored[e][ref.id]
    BY <1>4, <1>5 DEF Payload
  <2>3. \A i \in 1 .. n + 1 : /\ accepted'[i].ns = accepted'[i].epoch
                              /\ accepted'[i].epoch <= lease.epoch
                              /\ accepted'[i].id \in DOMAIN stored[accepted'[i].ns]
                              /\ accepted'[i].state = Payload(accepted[i])'
    <3>1. e <= lease.epoch
      BY CheckpointsAssumption DEF Guard, Epochs
    <3>2. ASSUME NEW i \in 1 .. n
          PROVE  /\ accepted[i].ns = accepted[i].epoch /\ accepted[i].epoch <= lease.epoch
                 /\ accepted[i].id \in DOMAIN stored[accepted[i].ns]
                 /\ accepted[i].state = Payload(accepted[i])
      BY <1>1 DEF IInv, RowsOK
    <3> QED BY <1>2, <1>4, <1>5, <1>8, <2>1, <2>2, <3>1, <3>2
  <2>4. \A i, j \in 1 .. n + 1 : i < j =>
           /\ accepted'[i].epoch <= accepted'[j].epoch
           /\ IsPrefix(Payload(accepted[i])', Payload(accepted[j])')
    <3>1. ASSUME NEW i \in 1 .. n + 1, NEW j \in 1 .. n + 1, i < j
          PROVE  /\ accepted'[i].epoch <= accepted'[j].epoch
                 /\ IsPrefix(Payload(accepted[i])', Payload(accepted[j])')
      <4>1. i \in 1 .. n
        BY <1>1, <3>1
      <4>2. CASE j = n + 1
        BY <1>4, <1>5, <1>6, <2>1, <2>2, <4>1, <4>2
      <4>3. CASE j \in 1 .. n
        BY <1>1, <1>5, <2>1, <3>1, <4>1, <4>3 DEF IInv, RowsOK
      <4> QED BY <1>8, <4>2, <4>3
    <3> QED BY <3>1
  <2> QED BY <1>5, <2>3, <2>4 DEF RowsOK
<1>10. WorkerOK(e)'
  <2>1. RefOK(worker[e].seen)' /\ RefOK(worker[e].at)' /\ Chain(e)' /\ Seen(e)' /\ Worked(e)'
    BY <1>1 DEF WorkerOK, RefOK, Chain, Seen, Worked
  <2>2. Based(e)'
    BY <1>1, <1>5, <1>8 DEF WorkerOK, Based
  <2>3. Fresh(e)'
    BY <1>1, CheckpointsAssumption DEF Fresh, Works, Guard, Epochs
  <2>4. Resumed(e)'
    <3>1. \A i \in 1 .. n : accepted[i].ns = e \/ IsPrefix(Payload(accepted[i]), worker[e].base)
      BY <1>1 DEF WorkerOK, Resumed
    <3>2. \A i \in 1 .. n : Payload(accepted[i])' = Payload(accepted[i])
      BY <1>5 DEF Payload
    <3>3. ASSUME NEW i \in 1 .. n + 1
          PROVE  accepted'[i].ns = e \/ IsPrefix(Payload(accepted[i])', worker'[e].base)
      BY <1>4, <1>5, <1>8, <3>1, <3>2
    <3> QED BY <1>5, <3>3 DEF Resumed
  <2> QED BY <2>1, <2>2, <2>3, <2>4 DEF WorkerOK
<1>11. \A f \in Epochs \ {e} : WorkerOK(f)'
  <2>1. \A i \in DOMAIN accepted' \ DOMAIN accepted : accepted'[i].ns = e
    BY <1>1, <1>4, <1>5, <1>8
  <2>2. /\ DOMAIN accepted \subseteq DOMAIN accepted'
        /\ \A i \in DOMAIN accepted : accepted'[i] = accepted[i]
    BY <1>1, <1>5
  <2> QED BY <2>1, <2>2, OthersKeep
<1> QED BY <1>7, <1>9, <1>10, <1>11 DEF IInv

LEMMA AcceptKeeps ==
    ASSUME IInv, NEW e \in Epochs, Accept(e)
    PROVE  IInv'
<1>1. Types /\ worker[e] \in Workers /\ WorkerOK(e) /\ worker[e].pc # "off"
      /\ worker[e].seen # NoRef
  BY DEF IInv, Types, Accept
<1>2. UNCHANGED <<lease, stored, writes, steps>>
  BY DEF Accept
<1>3. CASE Guard(e)
  <2> DEFINE w == [worker[e] EXCEPT !.event = FALSE, !.seen = NoRef]
  <2>1. /\ w \in Workers /\ w.base = worker[e].base /\ w.state = worker[e].state
        /\ w.at = worker[e].at /\ w.seen = NoRef /\ w.pc = worker[e].pc
    BY <1>1, NoRefIs DEF Workers
  <2>2. worker' = [worker EXCEPT ![e] = w]
    BY <1>3 DEF Accept, MayAccept
  <2> HIDE DEF w
  <2>3. /\ worker' \in [Epochs -> Workers] /\ worker'[e] = w
        /\ \A f \in Epochs \ {e} : worker'[f] = worker[f]
    BY <1>1, <2>1, <2>2 DEF Types
  <2>4. Works(e) /\ ~(e > lease.epoch)
    BY <1>1, <1>3, CheckpointsAssumption DEF Works, WorkerOK, Fresh, Guard, Epochs
  <2>5. CASE accepted' = accepted
    <3>1. WorkerOK(e)'
      <4>1. RefOK(worker[e].seen)' /\ RefOK(worker[e].at)' /\ Chain(e)' /\ Seen(e)'
        BY <1>1, <1>2, <2>1, <2>3, <2>5 DEF WorkerOK, RefOK, Chain, Seen
      <4>2. Resumed(e)' /\ Based(e)' /\ Worked(e)' /\ Fresh(e)'
        BY <1>1, <1>2, <2>1, <2>3, <2>4, <2>5
        DEF WorkerOK, Resumed, Guard, Works, Based, Worked, Fresh, Payload
      <4> QED BY <4>1, <4>2 DEF WorkerOK
    <3> QED BY <1>1, <1>2, <2>1, <2>2, <2>5, <3>1, WorkerSteps DEF Types
  <2>6. CASE accepted' = Append(accepted, [ns |-> worker[e].seen.ns, id |-> worker[e].seen.id,
                                           epoch |-> e, state |-> Payload(worker[e].seen)])
    BY <1>1, <1>2, <1>3, <2>1, <2>3, <2>4, <2>6, RowAdded
  <2> QED BY <1>3, <2>5, <2>6 DEF Accept, MayAccept
<1>4. CASE ~Guard(e)
  BY <1>1, <1>2, <1>4, EndKeeps DEF Accept, MayAccept
<1> QED BY <1>3, <1>4

\* The lease passes on: the next execution has neither read nor stored anything.
LEMMA LeaseKeeps ==
    ASSUME IInv, Grant \/ LoseLease
    PROVE  IInv'
<1>1. Types /\ RowsOK /\ \A f \in Epochs : WorkerOK(f)
  BY DEF IInv
<1>2. CASE LoseLease
  <2>1. /\ lease' = [lease EXCEPT !.held = FALSE]
        /\ UNCHANGED <<worker, stored, writes, accepted, steps>>
    BY <1>2 DEF LoseLease
  <2>2. lease'.epoch = lease.epoch /\ ~lease'.held /\ lease' \in [epoch : 0..MaxEpoch, held : BOOLEAN]
    BY <1>1, <2>1 DEF Types
  <2>3. Types' /\ RowsOK'
    BY <1>1, <2>1, <2>2 DEF Types, RowsOK, Payload
  <2>4. \A f \in Epochs : WorkerOK(f)'
    BY <1>1, <2>1, <2>2
    DEF WorkerOK, RefOK, Chain, Seen, Resumed, Guard, Works, Based, Fresh, Worked
  <2> QED BY <2>3, <2>4 DEF IInv
<1>3. CASE Grant
  <2>1. PICK g : g = lease.epoch + 1
    OBVIOUS
  <2>2. /\ g \in Epochs /\ lease' = [epoch |-> g, held |-> TRUE]
        /\ worker' = [worker EXCEPT ![g].pc = "loading"]
        /\ UNCHANGED <<stored, writes, accepted, steps>>
    BY <1>1, <1>3, <2>1, CheckpointsAssumption DEF Grant, Types, Epochs
  <2>3. lease.epoch \in Nat /\ g > lease.epoch /\ worker[g] = Off /\ stored[g] = << >>
    BY <1>1, <2>1, <2>2, CheckpointsAssumption DEF Types, WorkerOK, Fresh
  <2>4. PICK w : w = [Off EXCEPT !.pc = "loading"]
    OBVIOUS
  <2>5. /\ worker' \in [Epochs -> Workers] /\ worker'[g] = w
        /\ \A f \in Epochs \ {g} : worker'[f] = worker[f]
        /\ w.pc = "loading" /\ w.base = << >> /\ w.state = << >>
        /\ w.seen = NoRef /\ w.at = NoRef
    <3>1. Off \in Workers
      BY <1>1, <2>2, <2>3 DEF Types
    <3>2. w \in Workers
      BY <2>4, <3>1 DEF Workers, Pcs
    <3>3. worker' = [worker EXCEPT ![g] = w]
      BY <2>2, <2>3, <2>4
    <3>4. Off.base = << >> /\ Off.state = << >> /\ Off.seen = NoRef /\ Off.at = NoRef
      BY DEF Off
    <3>5. /\ w.pc = "loading" /\ w.base = Off.base /\ w.state = Off.state
          /\ w.seen = Off.seen /\ w.at = Off.at
      BY <2>4, <3>1 DEF Workers
    <3> QED BY <1>1, <2>2, <3>2, <3>3, <3>4, <3>5 DEF Types
  <2>6. lease'.epoch = g /\ lease' \in [epoch : 0..MaxEpoch, held : BOOLEAN]
    <3>1. g \in 0 .. MaxEpoch
      BY <2>2, CheckpointsAssumption DEF Epochs
    <3>2. [epoch |-> g, held |-> TRUE] \in [epoch : 0..MaxEpoch, held : BOOLEAN]
      BY <3>1, Zenon
    <3> QED BY <2>2, <3>2
  <2>7. Types'
    BY <1>1, <2>2, <2>5, <2>6 DEF Types
  <2>8. RowsOK'
    <3>1. \A i \in DOMAIN accepted : accepted[i].epoch <= lease'.epoch
      <4>1. \A i \in DOMAIN accepted : accepted[i].epoch \in Nat
        BY Row, CheckpointsAssumption DEF Rows, Epochs
      <4> QED BY <1>1, <2>1, <2>3, <2>6, <4>1 DEF RowsOK
    <3> QED BY <1>1, <2>2, <3>1 DEF RowsOK, Payload
  <2>9. ASSUME NEW f \in Epochs \ {g}
        PROVE  WorkerOK(f)'
    <3>1. RefOK(worker[f].seen)' /\ RefOK(worker[f].at)' /\ Chain(f)' /\ Seen(f)' /\ Based(f)'
          /\ Worked(f)'
      BY <1>1, <2>2, <2>5 DEF WorkerOK, RefOK, Chain, Seen, Based, Worked
    <3>2. Resumed(f)'
      BY <2>6 DEF Resumed, Guard
    <3>3. Fresh(f)'
      BY <1>1, <2>1, <2>2, <2>3, <2>5, <2>6, CheckpointsAssumption DEF WorkerOK, Fresh, Epochs
    <3> QED BY <3>1, <3>2, <3>3 DEF WorkerOK
  <2>10. WorkerOK(g)'
    <3>1. IsPrefix(<< >>, << >>)
      BY EmptySeq, EmptyIsPrefix
    <3>5. stored'[g] = << >> /\ DOMAIN stored'[g] = {}
      BY <2>2, <2>3
    <3>2. Chain(g)'
      BY <2>5, <3>1, <3>5 DEF Chain
    <3>3. RefOK(worker[g].seen)' /\ RefOK(worker[g].at)' /\ Seen(g)' /\ Based(g)' /\ Worked(g)'
          /\ Resumed(g)'
      BY <2>5 DEF RefOK, Seen, Based, Worked, Having, Resumed, Works
    <3>4. Fresh(g)'
      BY <2>1, <2>3, <2>5, <2>6, <3>5 DEF Fresh
    <3> QED BY <3>2, <3>3, <3>4 DEF WorkerOK
  <2> QED BY <2>7, <2>8, <2>9, <2>10 DEF IInv
<1> QED BY <1>2, <1>3

-----------------------------------------------------------------------------
(***************************************************************************)
(* The theorems.                                                           *)
(***************************************************************************)
LEMMA InitImplies == Init => IInv
<1> SUFFICES ASSUME Init PROVE IInv
  OBVIOUS
<1>1. Off \in Workers /\ << >> \in States
  BY NoRefIs, EmptySeq, Zenon DEF Off, Workers, Pcs, States
<1>2. lease \in [epoch : 0..MaxEpoch, held : BOOLEAN] /\ lease.epoch = 0
  <2>1. 0 \in 0 .. MaxEpoch
    BY CheckpointsAssumption
  <2>2. [epoch |-> 0, held |-> FALSE] \in [epoch : 0..MaxEpoch, held : BOOLEAN]
    BY <2>1, Zenon
  <2> QED BY <2>2 DEF Init
<1>3. Types
  BY <1>1, <1>2, EmptySeq, CheckpointsAssumption DEF Init, Types
<1>4. RowsOK
  BY DEF Init, RowsOK
<1>5. ASSUME NEW e \in Epochs PROVE WorkerOK(e)
  <2>1. worker[e] = Off /\ stored[e] = << >>
    BY DEF Init
  <2>2. /\ Off.pc = "off" /\ Off.base = << >> /\ Off.state = << >> /\ Off.at = NoRef
        /\ Off.seen = NoRef
    BY DEF Off
  <2>3. IsPrefix(<< >>, << >>)
    BY EmptySeq, EmptyIsPrefix
  <2>4. Chain(e)
    BY <2>1, <2>2, <2>3 DEF Chain
  <2> QED BY <2>1, <2>2, <2>4
          DEF WorkerOK, RefOK, Seen, Resumed, Works, Based, Fresh, Worked, Having
<1> QED BY <1>3, <1>4, <1>5 DEF IInv

LEMMA NextKeeps == IInv /\ [Next]_vars => IInv'
<1> SUFFICES ASSUME IInv, [Next]_vars PROVE IInv'
  OBVIOUS
<1>1. ASSUME NEW e \in Epochs,
             \/ Load(e) \/ PassGuard(e) \/ FinishNode(e) \/ LandWrites(e) \/ LandCheckpoint(e)
             \/ Look(e) \/ Accept(e) \/ Crash(e)
      PROVE  IInv'
  BY <1>1, LoadKeeps, PassingKeeps, FinishNodeKeeps, LandCheckpointKeeps, LookKeeps, AcceptKeeps
<1>2. CASE UNCHANGED vars
  BY <1>2
  DEF vars, IInv, Types, RowsOK, WorkerOK, RefOK, Chain, Seen, Resumed, Guard, Works, Based,
      Fresh, Worked, Payload
<1> QED BY <1>1, <1>2, LeaseKeeps DEF Next

LEMMA AgreesAlways == Spec => []IInv
BY InitImplies, NextKeeps, PTL DEF Spec

\* Whatever late workers write after they lost the lease, the references that
\* _record_checkpoint adds name stored checkpoints and tell one history.
THEOREM AcceptedTellOneHistory == Spec => []HistoryAgrees
<1>1. IInv => HistoryAgrees
  <2> SUFFICES ASSUME IInv PROVE HistoryAgrees
    OBVIOUS
  <2>1. \A i \in DOMAIN accepted : accepted[i].ns \in Epochs
                                     /\ accepted[i].id \in DOMAIN stored[accepted[i].ns]
    BY Row DEF Rows
  <2>2. \A e \in Epochs : RefOK(worker[e].seen) /\ RefOK(worker[e].at)
    BY DEF IInv, WorkerOK
  <2>3. TypeOK
    <3>1. \A ref \in {worker[e].seen : e \in Epochs} \cup {worker[e].at : e \in Epochs}
                    \cup {[ns |-> accepted[i].ns, id |-> accepted[i].id] : i \in DOMAIN accepted} :
            ref # NoRef => ref.ns \in Epochs /\ ref.id \in DOMAIN stored[ref.ns]
      BY <2>1, <2>2 DEF RefOK
    <3>2. Types
      BY DEF IInv
    <3> QED BY <3>1, <3>2, Zenon DEF Types, TypeOK, Workers, Pcs, Rows, States
  <2>4. AcceptedIsOneHistory
    BY DEF IInv, RowsOK, AcceptedIsOneHistory
  <2> QED BY <2>3, <2>4 DEF HistoryAgrees
<1> QED BY <1>1, AgreesAlways, PTL

\* An execution resumes from a state as it was accepted, and what it may accept is
\* its own work on top of it.
THEOREM ExecutionsWorkOnAccepted == Spec => []WorksOnAccepted
<1>1. IInv => WorksOnAccepted
  <2> SUFFICES ASSUME IInv PROVE WorksOnAccepted
    OBVIOUS
  <2>1. ResumesAcceptedState
    BY DEF IInv, WorkerOK, Based, ResumesAcceptedState
  <2>2. AcceptsOwnWork
    BY DEF IInv, WorkerOK, Seen, RefOK, Chain, Payload, AcceptsOwnWork
  <2> QED BY <2>1, <2>2 DEF WorksOnAccepted
<1> QED BY <1>1, AgreesAlways, PTL

\* An accepted node execution is never lost: the execution that has the lease works
\* on a state that contains all of them.
THEOREM AcceptedWorkSurvives == Spec => []AcceptedWorkIsKept
<1>1. IInv => AcceptedWorkIsKept
  <2> SUFFICES ASSUME IInv, NEW e \in Epochs, Guard(e), worker[e].pc \notin {"off", "loading"},
                      accepted # << >>
               PROVE  IsPrefix(Payload(LatestAccepted), worker[e].state)
    BY DEF AcceptedWorkIsKept
  <2>1. PICK i \in DOMAIN accepted : LatestAccepted = accepted[i]
    BY LatestIsLast
  <2>2. /\ accepted[i] \in Rows /\ accepted[i].id \in DOMAIN stored[accepted[i].ns]
        /\ Payload(accepted[i]) \in States
    BY Row
  <2>3. WorkerOK(e) /\ worker[e].base \in States /\ worker[e].state \in States
    BY DEF IInv, Types, Workers
  <2>4. CASE accepted[i].ns = e
    BY <2>1, <2>2, <2>3, <2>4 DEF WorkerOK, Chain, Payload
  <2>5. CASE accepted[i].ns # e
    <3>1. IsPrefix(Payload(accepted[i]), worker[e].base)
      BY <2>3, <2>5 DEF WorkerOK, Resumed, Works
    <3>2. IsPrefix(worker[e].base, worker[e].state)
      BY <2>3 DEF WorkerOK, Chain
    <3> QED BY <2>1, <2>2, <2>3, <3>1, <3>2, PrefixTransitive DEF States
  <2> QED BY <2>4, <2>5
<1> QED BY <1>1, AgreesAlways, PTL
=============================================================================
