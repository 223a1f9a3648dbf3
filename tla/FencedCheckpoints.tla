-------------------------- MODULE FencedCheckpoints --------------------------
(***************************************************************************)
(* The checkpoints of one run (runtime/checkpoints.py and                  *)
(* RunCoordinator._record_checkpoint).                                     *)
(*                                                                         *)
(* Payloads live in a database of their own, references to the accepted    *)
(* ones in the product database, and no transaction spans the two: a       *)
(* worker passes its guard, loses its lease, and writes.  Each execution   *)
(* (epoch) writes to a namespace of its own, and an execution that resumes *)
(* reads the one payload its reference names.                              *)
(*                                                                         *)
(* A state of the research graph is the sequence of node executions that   *)
(* led to it.  How the graph engine calls its saver is external: writes of *)
(* a finished node first, the checkpoint of the step after them, the event *)
(* of the step delivered in between or later.                              *)
(***************************************************************************)
EXTENDS Naturals, SequencesExt

CONSTANTS
    MaxEpoch,   \* bound: executions of the run
    MaxSteps    \* bound: node executions

\* The bounds are numbers.
ASSUME CheckpointsAssumption == MaxEpoch \in Nat /\ MaxSteps \in Nat

VARIABLES
    lease,     \* the epoch that holds, or held last, the lease of the run
    worker,    \* the execution of each epoch
    stored,    \* checkpoints of each namespace, oldest first
    writes,    \* pending writes [ns, after, output] stored with a checkpoint
    accepted,  \* run_checkpoints in row order
    steps      \* node executions so far: names the next one

vars == <<lease, worker, stored, writes, accepted, steps>>

Epochs == 1..MaxEpoch
Outputs == 1..MaxSteps
NoRef == [ns |-> 0, id |-> 0]

\* A worker executes its node, saves the writes, saves the checkpoint; event: the
\* coordinator has an event of the stream to handle; seen: the checkpoint it has
\* read for it; base: the state it resumed from, and state: the one it has reached.
Off == [pc |-> "off", base |-> << >>, state |-> << >>, at |-> NoRef,
        event |-> FALSE, seen |-> NoRef]

Init ==
    /\ lease = [epoch |-> 0, held |-> FALSE]
    /\ worker = [e \in Epochs |-> Off]
    /\ stored = [e \in Epochs |-> << >>]
    /\ writes = {}
    /\ accepted = << >>
    /\ steps = 0

\* fence_run: the execution holds the lease.
Guard(e) == lease.epoch = e /\ lease.held

\* _execution_checkpoint_namespace
WriteNamespace(e) == e

Payload(ref) == stored[ref.ns][ref.id]

\* Mutant: the pending writes of the old namespace are taken over.
Read_WithWrites(ref) ==
    LET found == {w \in writes : w.ns = ref.ns /\ w.after = ref}
    IN  IF found = {} THEN Payload(ref)
        ELSE Append(Payload(ref), (CHOOSE w \in found : TRUE).output)

\* aget_tuple of the pinned checkpoint, without its pending writes.
Read(ref) == Payload(ref)

\* get_state: the latest checkpoint of the execution's own namespace, if any.
LatestOwn(e) ==
    LET ns == WriteNamespace(e)
    IN  IF stored[ns] = << >> THEN NoRef ELSE [ns |-> ns, id |-> Len(stored[ns])]

\* get_latest_checkpoint_reference: the highest epoch, then the last row.
LatestAccepted ==
    accepted[CHOOSE i \in DOMAIN accepted : \A j \in DOMAIN accepted :
               \/ accepted[j].epoch < accepted[i].epoch
               \/ accepted[j].epoch = accepted[i].epoch /\ j <= i]

-----------------------------------------------------------------------------
(***************************************************************************)
(* The lease (TaskRuns and Coordinator have it in full).                   *)
(***************************************************************************)

Grant ==
    /\ ~lease.held /\ lease.epoch < MaxEpoch
    /\ lease' = [epoch |-> lease.epoch + 1, held |-> TRUE]
    /\ worker' = [worker EXCEPT ![lease.epoch + 1].pc = "loading"]
    /\ UNCHANGED <<stored, writes, accepted, steps>>

\* Expiry, cancellation or pause; the worker may not know.
LoseLease ==
    /\ lease.held
    /\ lease' = [lease EXCEPT !.held = FALSE]
    /\ UNCHANGED <<worker, stored, writes, accepted, steps>>

-----------------------------------------------------------------------------
(***************************************************************************)
(* The worker of epoch e.                                                  *)
(***************************************************************************)

\* The execution starts from the accepted reference, or afresh without one.
Load(e) ==
    /\ worker[e].pc = "loading"
    /\ LET ref == IF accepted = << >> THEN NoRef
                  ELSE [ns |-> LatestAccepted.ns, id |-> LatestAccepted.id]
           state == IF ref = NoRef THEN << >> ELSE Read(ref)
       IN  worker' = [worker EXCEPT ![e] = [@ EXCEPT !.pc = "ready", !.at = ref,
                                                     !.base = state, !.state = state]]
    /\ UNCHANGED <<lease, stored, writes, accepted, steps>>

Goes(e, pc) == worker' = [worker EXCEPT ![e].pc = pc]

\* The guards: before a node and after it, before its writes and its checkpoint.
\* One that fails ends the worker.
After == [ready |-> "running", running |-> "ran", ran |-> "writing", wrote |-> "saving"]

PassGuard(e) ==
    /\ worker[e].pc \in {"ready", "ran", "wrote"}
    /\ worker[e].pc = "ready" => ~worker[e].event
    /\ IF Guard(e) THEN Goes(e, After[worker[e].pc]) ELSE Goes(e, "off")
    /\ UNCHANGED <<lease, stored, writes, accepted, steps>>

\* The node ends, and the guard after it passes.
FinishNode(e) ==
    /\ worker[e].pc = "running"
    /\ steps < MaxSteps
    /\ IF Guard(e)
       THEN /\ steps' = steps + 1
            /\ LET state == Append(worker[e].state, steps + 1)
               IN  worker' = [worker EXCEPT ![e] = [@ EXCEPT !.pc = "ran", !.state = state]]
       ELSE Goes(e, "off") /\ UNCHANGED steps
    /\ UNCHANGED <<lease, stored, writes, accepted>>

\* aput_writes reaches the checkpoint database.
LandWrites(e) ==
    /\ worker[e].pc = "writing"
    /\ writes' = writes \cup {[ns |-> WriteNamespace(e), after |-> worker[e].at,
                               output |-> Last(worker[e].state)]}
    /\ worker' = [worker EXCEPT ![e] = [@ EXCEPT !.pc = "wrote", !.event = TRUE]]
    /\ UNCHANGED <<lease, stored, accepted, steps>>

\* aput reaches the checkpoint database.
LandCheckpoint(e) ==
    LET ns == WriteNamespace(e)
    IN  /\ worker[e].pc = "saving"
        /\ stored' = [stored EXCEPT ![ns] = Append(@, worker[e].state)]
        /\ worker' = [worker EXCEPT ![e] =
             [@ EXCEPT !.pc = "ready", !.at = [ns |-> ns, id |-> Len(stored[ns]) + 1]]]
        /\ UNCHANGED <<lease, writes, accepted, steps>>

\* _record_checkpoint: fence, then read the state of the graph ...
Look(e) ==
    /\ worker[e].event /\ worker[e].pc # "off" /\ worker[e].seen = NoRef
    /\ IF Guard(e)
       THEN worker' = [worker EXCEPT ![e] =
              [@ EXCEPT !.seen = LatestOwn(e), !.event = LatestOwn(e) # NoRef]]
       ELSE Goes(e, "off")
    /\ UNCHANGED <<lease, stored, writes, accepted, steps>>

\* Mutant: the reference is added without the fence.
MayAccept_Unfenced(e) == TRUE

MayAccept(e) == Guard(e)

\* ... and add the reference to it (INSERT OR IGNORE) under the fence.
Accept(e) ==
    LET ref == worker[e].seen
    IN  /\ worker[e].event /\ worker[e].pc # "off" /\ ref # NoRef
        /\ IF MayAccept(e)
           THEN /\ accepted' =
                     IF \E i \in DOMAIN accepted : accepted[i].ns = ref.ns /\ accepted[i].id = ref.id
                     THEN accepted
                     ELSE Append(accepted, [ns |-> ref.ns, id |-> ref.id, epoch |-> e,
                                            state |-> Payload(ref)])
                /\ worker' = [worker EXCEPT ![e] = [@ EXCEPT !.event = FALSE, !.seen = NoRef]]
           ELSE Goes(e, "off") /\ UNCHANGED accepted
        /\ UNCHANGED <<lease, stored, writes, steps>>

Crash(e) ==
    /\ worker[e].pc # "off"
    /\ Goes(e, "off")
    /\ UNCHANGED <<lease, stored, writes, accepted, steps>>

Next ==
    \/ Grant \/ LoseLease
    \/ \E e \in Epochs :
         \/ Load(e) \/ PassGuard(e) \/ FinishNode(e) \/ LandWrites(e) \/ LandCheckpoint(e)
         \/ Look(e) \/ Accept(e) \/ Crash(e)

Spec == Init /\ [][Next]_vars

-----------------------------------------------------------------------------
(***************************************************************************)
(* Invariants.  accepted[i].state is history: the payload when the row was *)
(* added.                                                                  *)
(***************************************************************************)

Refs == [ns : 0..MaxEpoch, id : Nat]

\* Types; a reference that is held or accepted names a stored checkpoint.
TypeOK ==
    /\ lease \in [epoch : 0..MaxEpoch, held : BOOLEAN]
    /\ worker \in [Epochs -> [pc : {"off", "loading", "ready", "running", "ran", "writing",
                                    "wrote", "saving"},
                              base : Seq(Outputs), state : Seq(Outputs), at : Refs,
                              event : BOOLEAN, seen : Refs]]
    /\ stored \in [Epochs -> Seq(Seq(Outputs))]
    /\ writes \subseteq [ns : Epochs, after : Refs, output : Outputs]
    /\ accepted \in Seq([ns : Epochs, id : Nat \ {0}, epoch : Epochs, state : Seq(Outputs)])
    /\ steps \in 0..MaxSteps
    /\ \A ref \in {worker[e].seen : e \in Epochs} \cup {worker[e].at : e \in Epochs}
               \cup {[ns |-> accepted[i].ns, id |-> accepted[i].id] : i \in DOMAIN accepted} :
         ref # NoRef => ref.ns \in Epochs /\ ref.id \in DOMAIN stored[ref.ns]

\* Whatever late workers write after they lost the lease, the accepted references
\* tell one history: each state continues the one accepted before it.
AcceptedIsOneHistory ==
    \A i, j \in DOMAIN accepted :
      i < j => IsPrefix(Payload(accepted[i]), Payload(accepted[j]))

\* References name what is stored, and tell one history.
HistoryAgrees == TypeOK /\ AcceptedIsOneHistory

\* An execution resumes from a state exactly as it was accepted: not from a later
\* checkpoint of the old namespace, and without writes that no reference covers.
ResumesAcceptedState ==
    \A e \in Epochs :
      worker[e].base = << >> \/ \E i \in DOMAIN accepted : worker[e].base = accepted[i].state

\* What an execution may accept is its own work on top of what it resumed from.
AcceptsOwnWork ==
    \A e \in Epochs : worker[e].seen # NoRef =>
      /\ IsPrefix(worker[e].base, Payload(worker[e].seen))
      /\ IsPrefix(Payload(worker[e].seen), worker[e].state)

\* An execution starts from what was accepted and adds only its own work.
WorksOnAccepted == ResumesAcceptedState /\ AcceptsOwnWork

\* An accepted node execution is never lost: the lease holder works on a state
\* that contains all of them.
AcceptedWorkIsKept ==
    \A e \in Epochs :
      Guard(e) /\ worker[e].pc \notin {"off", "loading"} /\ accepted # << >> =>
        IsPrefix(Payload(LatestAccepted), worker[e].state)
=============================================================================
