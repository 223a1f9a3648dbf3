-------------------------- MODULE RetrievalFlight --------------------------
(***************************************************************************)
(* The retrieval node (agents/multi_retriever.py): a fan-out of one call   *)
(* per source, each through the durable cache and a single flight per run  *)
(* and key (cache/store.py), a budget reservation and the external call.   *)
(* Two executions of one run, or two runs with one question, share the     *)
(* cache; those of one run share the flights too.  Every coroutine may be  *)
(* cancelled at every await.  A call leads at most one flight, so a flight *)
(* is named by its leader.  cache.claim and cache.wait cannot fail in      *)
(* SQLiteRetrievalCache: the branches for that are left out.               *)
(***************************************************************************)
EXTENDS Naturals, FiniteSets

CONSTANTS Fanouts,      \* executions of MultiRetrieverAgent.run
          Sources,      \* the retriever registry
          Runs, RunOf,  \* the run of a fan-out
          NoCall,
          Plans,        \* the calls that may be made at once: a registry per fan-out
          MaxCalls,     \* the budget: RETRIEVAL_CALLS of a run
          MaxTrouble    \* cancellations, expiries, crashes, failures of cache and ledger

Calls == Fanouts \X Sources

ASSUME FlightAssumption == /\ RunOf \in [Fanouts -> Runs]
                           /\ NoCall \notin Calls
                           /\ Plans \subseteq SUBSET Calls
                           /\ MaxCalls \in Nat /\ MaxTrouble \in Nat

VARIABLES pc,         \* call -> the await it stands at
          claim,      \* call -> the leader of the flight it claimed
          flights,    \* leader -> its flight: published?, what, retry?, released?
          table,      \* _flights: <<run, source>> -> the leader in flight
          entry,      \* retrieval_cache: source -> the call whose result is stored
          answer,     \* call -> how its own external call stands
          spent,      \* run -> RETRIEVAL_CALLS reserved or charged
          out,        \* call -> what _invoke_retriever returned or raised
          cancelled,  \* fan-outs whose task was cancelled
          verdict,    \* fan-out -> how run() ended
          trouble

flightVars == <<pc, claim, flights, table, entry, answer, spent, out, cancelled, verdict, trouble>>

Source(c) == c[2]
Identity(c) == <<RunOf[c[1]], Source(c)>>

Nothing == [kind |-> "nothing"]
Value(c) == [kind |-> "value", of |-> c]
BudgetFailure == [kind |-> "budget"]
Cancelled == [kind |-> "cancelled"]

NewFlight == [published |-> FALSE, what |-> Nothing, retry |-> FALSE, released |-> FALSE]

FlightInit ==
    /\ \E plan \in Plans : pc = [c \in Calls |-> IF c \in plan THEN "look" ELSE "absent"]
    /\ claim = [c \in Calls |-> NoCall]
    /\ flights = [c \in Calls |-> NewFlight]
    /\ table = [i \in Runs \X Sources |-> NoCall]
    /\ entry = [s \in Sources |-> NoCall]
    /\ answer = [c \in Calls |-> "none"]
    /\ spent = [r \in Runs |-> 0]
    /\ out = [c \in Calls |-> Nothing]
    /\ cancelled = {}
    /\ verdict = [f \in Fanouts |-> "running"]
    /\ trouble = 0

Goto(c, place) == pc' = [pc EXCEPT ![c] = place]
Ends(c, what) == Goto(c, "done") /\ out' = [out EXCEPT ![c] = what]

\* publish: the first publication of a flight stands.
Published(flight, what, retry) ==
    IF flight.published THEN flight
    ELSE [flight EXCEPT !.published = TRUE, !.what = what, !.retry = retry]
Publish(c, what, retry) == flights' = [flights EXCEPT ![c] = Published(@, what, retry)]

Trouble == trouble < MaxTrouble /\ trouble' = trouble + 1

\* cache.get: a failure reads as a miss.
Get(c, hit) == \/ hit = (entry[Source(c)] # NoCall) /\ UNCHANGED trouble
               \/ ~hit /\ entry[Source(c)] # NoCall /\ Trouble
Hit(c) == Value(entry[Source(c)])

\* A step that awaits nothing that a cancellation would interrupt first.
At(c, place) == pc[c] = place /\ c[1] \notin cancelled

Look(c) ==
    /\ At(c, "look")
    /\ \E hit \in BOOLEAN :
          /\ Get(c, hit)
          /\ IF hit THEN Ends(c, Hit(c)) ELSE Goto(c, "claim") /\ UNCHANGED out
    /\ UNCHANGED <<claim, flights, table, entry, answer, spent, cancelled, verdict>>

\* claim: the flight of this run and key, or a new one to lead.  Mutant: one that
\* has published is not joined.
Flying_UntilPublished(i) == table[i] # NoCall /\ ~flights[table[i]].published
Flying(i) == table[i] # NoCall

Claim(c) ==
    LET i == Identity(c)
    IN /\ At(c, "claim")
       /\ IF Flying(i)
          THEN /\ claim' = [claim EXCEPT ![c] = table[i]]
               /\ Goto(c, "wait")
               /\ UNCHANGED table
          ELSE /\ claim' = [claim EXCEPT ![c] = c]
               /\ table' = [table EXCEPT ![i] = c]
               /\ Goto(c, "again")
       /\ UNCHANGED <<flights, entry, answer, spent, out, cancelled, verdict, trouble>>

\* The leader looks once more: a flight may have ended since its first look.
LookAgain(c) ==
    /\ At(c, "again")
    /\ \E hit \in BOOLEAN :
          /\ Get(c, hit)
          /\ IF hit THEN /\ Publish(c, Hit(c), FALSE)
                         /\ out' = [out EXCEPT ![c] = Hit(c)]
                         /\ Goto(c, "complete")
                    ELSE Goto(c, "reserve") /\ UNCHANGED <<flights, out>>
    /\ UNCHANGED <<claim, table, entry, answer, spent, cancelled, verdict>>

\* A failure of the budget is published: the followers raise it too.
RaisesBudgetFailure(c) == /\ Publish(c, BudgetFailure, FALSE)
                          /\ out' = [out EXCEPT ![c] = BudgetFailure]
                          /\ Goto(c, "complete")

Reserve(c) ==
    LET r == RunOf[c[1]]
    IN /\ At(c, "reserve")
       /\ IF spent[r] < MaxCalls
          THEN /\ spent' = [spent EXCEPT ![r] = @ + 1]
               /\ answer' = [answer EXCEPT ![c] = "open"]
               /\ Goto(c, "call")
               /\ UNCHANGED <<flights, out>>
          ELSE RaisesBudgetFailure(c) /\ UNCHANGED <<spent, answer>>
       /\ UNCHANGED <<claim, table, entry, cancelled, verdict, trouble>>

\* The retriever answers; every exception of it is a "failed" result, and so
\* is a result that breaks the contract.
Answer(c, status) ==
    /\ At(c, "call")
    /\ answer' = [answer EXCEPT ![c] = status]
    /\ Goto(c, "settle")
    /\ UNCHANGED <<claim, flights, table, entry, spent, out, cancelled, verdict, trouble>>

\* The reservation is settled and the result published, before it is stored.
Settle(c) ==
    /\ At(c, "settle")
    /\ \/ /\ UNCHANGED trouble
          /\ Publish(c, Value(c), FALSE)
          /\ out' = [out EXCEPT ![c] = Value(c)]
          /\ Goto(c, IF answer[c] = "success" THEN "put" ELSE "complete")
       \/ Trouble /\ RaisesBudgetFailure(c)
    /\ UNCHANGED <<claim, table, entry, answer, spent, cancelled, verdict>>

Stored(c) == [entry EXCEPT ![Source(c)] = c]

Put(c) ==
    /\ At(c, "put")
    /\ \/ entry' = Stored(c) /\ UNCHANGED trouble
       \/ UNCHANGED entry /\ Trouble
    /\ Goto(c, "complete")
    /\ UNCHANGED <<claim, flights, table, answer, spent, out, cancelled, verdict>>

\* complete: the flight leaves the table, tells its followers to retry when
\* nothing was published, and releases them.  The cleanup is shielded; a
\* cancellation that arrives during it is raised when it is done.  Mutant: the
\* followers are not told.
Released_Silently(flight) == [flight EXCEPT !.released = TRUE]
Released(flight) == [Published(flight, Nothing, TRUE) EXCEPT !.released = TRUE]

Complete(c) ==
    /\ pc[c] = "complete"
    /\ table' = [table EXCEPT ![Identity(c)] = IF @ = c THEN NoCall ELSE @]
    /\ flights' = [flights EXCEPT ![c] = Released(@)]
    /\ Ends(c, IF c[1] \in cancelled THEN Cancelled ELSE out[c])
    /\ UNCHANGED <<claim, entry, answer, spent, cancelled, verdict, trouble>>

\* A follower takes what its leader published, or waits for the release.
Wait(c) ==
    LET flight == flights[claim[c]]
    IN /\ At(c, "wait") /\ flight.published
       /\ IF flight.retry THEN Goto(c, "released") /\ UNCHANGED out
                          ELSE Ends(c, flight.what)
       /\ UNCHANGED <<claim, flights, table, entry, answer, spent, cancelled, verdict, trouble>>

TryAgain(c) ==
    /\ At(c, "released") /\ flights[claim[c]].released
    /\ Goto(c, "look")
    /\ UNCHANGED <<claim, flights, table, entry, answer, spent, out, cancelled, verdict, trouble>>

\* The execution's task is cancelled: gather cancels every call under way.
Cancel(f) ==
    /\ verdict[f] = "running" /\ f \notin cancelled
    /\ cancelled' = cancelled \cup {f}
    /\ Trouble
    /\ UNCHANGED <<pc, claim, flights, table, entry, answer, spent, out, verdict>>

\* CancelledError at the await where a call stands.  A leader always goes on
\* to the cleanup; inside the budgeted call it asks its followers to retry.
\* Mutant: they get its cancellation.
Yields_AsError(c) == Publish(c, Cancelled, FALSE)
Yields(c) == Publish(c, Nothing, TRUE)

Interrupted(c) ==
    /\ c[1] \in cancelled
    /\ \/ /\ pc[c] \in {"look", "claim", "wait", "released"}
          /\ Ends(c, Cancelled)
          /\ UNCHANGED <<flights, entry, answer, spent>>
       \/ /\ Goto(c, "complete") /\ UNCHANGED out
          /\ \/ pc[c] = "again" /\ UNCHANGED <<flights, entry, answer, spent>>
             \/ /\ pc[c] = "reserve" /\ Yields(c)     \* it may have been recorded
                /\ LET r == RunOf[c[1]]
                   IN \/ UNCHANGED spent
                      \/ spent[r] < MaxCalls /\ spent' = [spent EXCEPT ![r] = @ + 1]
                /\ UNCHANGED <<entry, answer>>
             \/ /\ pc[c] = "call" /\ Yields(c)
                /\ answer' = [answer EXCEPT ![c] = "dropped"]
                /\ UNCHANGED <<entry, spent>>
             \/ pc[c] = "settle" /\ Yields(c) /\ UNCHANGED <<entry, answer, spent>>
             \/ /\ pc[c] = "put"                      \* it may have been stored
                /\ entry' \in {entry, Stored(c)}
                /\ UNCHANGED <<flights, answer, spent>>
    /\ UNCHANGED <<claim, table, cancelled, verdict, trouble>>

\* gather returns when every call has; a budget failure fails the node, any
\* other bad result is a partial failure.
Gather(f) ==
    /\ verdict[f] = "running"
    /\ \A s \in Sources : pc[<<f, s>>] \in {"done", "absent"}
    /\ verdict' = [verdict EXCEPT ![f] =
                      CASE f \in cancelled -> "cancelled"
                        [] \E s \in Sources : out[<<f, s>>] = BudgetFailure -> "raised"
                        [] OTHER -> "results"]
    /\ UNCHANGED <<pc, claim, flights, table, entry, answer, spent, out, cancelled, trouble>>

\* The time to live of an entry passes.
Expire(s) ==
    /\ entry[s] # NoCall
    /\ entry' = [entry EXCEPT ![s] = NoCall]
    /\ Trouble
    /\ UNCHANGED <<pc, claim, flights, table, answer, spent, out, cancelled, verdict>>

\* The process stops: its flights and the executions under way are gone, what
\* was stored and reserved stays.
Started(f) == \E s \in Sources : pc[<<f, s>>] \notin {"look", "absent"}

Stop ==
    LET lost == {f \in Fanouts : verdict[f] = "running" /\ Started(f)}
    IN /\ pc' = [c \in Calls |-> IF c[1] \in lost /\ pc[c] # "absent" THEN "done" ELSE pc[c]]
       /\ out' = [c \in Calls |-> IF c[1] \in lost THEN Cancelled ELSE out[c]]
       /\ verdict' = [f \in Fanouts |-> IF f \in lost THEN "cancelled" ELSE verdict[f]]
       /\ cancelled' = cancelled \cup lost
       /\ table' = [i \in Runs \X Sources |-> NoCall]
       /\ Trouble
       /\ UNCHANGED <<claim, flights, entry, answer, spent>>

FlightStep(c) ==
    \/ Look(c) \/ Claim(c) \/ LookAgain(c) \/ Reserve(c) \/ Settle(c) \/ Put(c)
    \/ Complete(c) \/ Wait(c) \/ TryAgain(c) \/ Interrupted(c)

-----------------------------------------------------------------------------
(* Properties.                                                             *)

\* What a call ends with is real: a value is the answer some external call of
\* its source gave, from the cache only a good one; a call that was not
\* cancelled never ends with its leader's cancellation; and a budget failure
\* is never turned into a partial result of the node.
AnswersAreReal ==
    /\ \A c \in Calls : pc[c] = "done" =>
          \/ out[c].kind = "cancelled" /\ c[1] \in cancelled
          \/ out[c] = BudgetFailure
          \/ /\ out[c].kind = "value"
             /\ Source(out[c].of) = Source(c)
             /\ \/ answer[out[c].of] = "success"
                \/ answer[out[c].of] = "failed" /\ Identity(out[c].of) = Identity(c)
    /\ \A f \in Fanouts : verdict[f] = "results" =>
          \A s \in Sources : pc[<<f, s>>] = "done" => out[<<f, s>>].kind = "value"

\* A run does not pay twice for one answer: unless a failure, a cancellation
\* or an expiry disturbed the sharing, at most one call of a run and a source
\* succeeds, though executions look, claim, publish and store in any order.
OneSuccessPerRun == trouble = 0 =>
    \A c, d \in Calls : /\ Identity(c) = Identity(d)
                        /\ answer[c] = "success" /\ answer[d] = "success"
                        => c = d

\* No follower is stranded: whoever leads is cancelled, denied or answered,
\* every call ends, and with the last one the node.
EveryFanoutEnds == <>(\A f \in Fanouts : verdict[f] # "running")
=============================================================================
