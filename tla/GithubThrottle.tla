-------------------------- MODULE GithubThrottle --------------------------
(***************************************************************************)
(* The limiter of the GitHub search (retrievers/github_rate.py): a         *)
(* semaphore bounds the requests in flight, a lock held while sleeping     *)
(* spaces their starts by interval_s(), and a 403 or 429 is retried after  *)
(* a delay outside the slot.  A tick is one interval.                      *)
(***************************************************************************)
EXTENDS Naturals, FiniteSets

CONSTANTS Searchers,    \* coroutines that may search
          NoOne,
          MaxInFlight,  \* _MAX_IN_FLIGHT
          MaxRetries    \* _MAX_RETRIES

ASSUME ThrottleAssumption == NoOne \notin Searchers /\ MaxInFlight \in Nat \ {0} /\ MaxRetries \in Nat

VARIABLES search,   \* searcher -> where its get_with_throttle stands
          pacer,    \* who holds _lock inside _pace
          gap,      \* intervals until _next_start
          starts    \* requests started in the current interval (history)

throttleVars == <<search, pacer, gap, starts>>

Resting == [at |-> "resting", attempt |-> 0]

ThrottleInit == /\ search = [p \in Searchers |-> Resting]
                /\ pacer = NoOne /\ gap = 0 /\ starts = 0

Moves(p, place) == search' = [search EXCEPT ![p].at = place]

\* Those inside request_slot().
Slots == {p \in Searchers : search[p].at \in {"slot", "asleep", "getting"}}

Search(p) ==
    /\ search[p] = Resting
    /\ Moves(p, "queued")
    /\ UNCHANGED <<pacer, gap, starts>>

HasSlot == Cardinality(Slots) < MaxInFlight

Acquire(p) ==
    /\ search[p].at = "queued" /\ HasSlot
    /\ Moves(p, "slot")
    /\ UNCHANGED <<pacer, gap, starts>>

Starts(p) == Moves(p, "getting") /\ starts' = starts + 1

Pace(p) ==
    /\ search[p].at = "slot" /\ pacer = NoOne
    /\ IF gap = 0 THEN Starts(p) /\ gap' = 1 /\ UNCHANGED pacer
                  ELSE Moves(p, "asleep") /\ pacer' = p /\ UNCHANGED <<gap, starts>>

\* The clock is read again after the sleep, for the start after this one.
\* Mutant: the time before the sleep is used.
GapAfterSleep_StaleClock == 0
GapAfterSleep == 1

WakeUp(p) ==
    /\ search[p].at = "asleep" /\ gap = 0
    /\ gap' = GapAfterSleep /\ pacer' = NoOne
    /\ Starts(p)

\* A refused attempt leaves the slot before it waits out its delay.
Response(p, refused) ==
    /\ search[p].at = "getting"
    /\ search' = [search EXCEPT ![p] =
                     IF refused /\ search[p].attempt < MaxRetries
                     THEN [at |-> "delayed", attempt |-> search[p].attempt + 1]
                     ELSE [at |-> "answered", refused |-> refused]]
    /\ UNCHANGED <<pacer, gap, starts>>

TryOnceMore(p) ==
    /\ search[p].at = "delayed"
    /\ Moves(p, "queued")
    /\ UNCHANGED <<pacer, gap, starts>>

\* A cancelled search gives back the slot and the lock.
GiveUp(p) == /\ search' = [search EXCEPT ![p] = Resting]
             /\ pacer' = IF pacer = p THEN NoOne ELSE pacer
             /\ UNCHANGED <<gap, starts>>

IntervalPasses == gap' = 0 /\ starts' = 0 /\ UNCHANGED <<search, pacer>>

ThrottleStep(p) == \/ Acquire(p) \/ Pace(p) \/ WakeUp(p) \/ TryOnceMore(p)
                   \/ \E refused \in BOOLEAN : Response(p, refused)
=============================================================================
