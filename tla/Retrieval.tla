----------------------------- MODULE Retrieval -----------------------------
(***************************************************************************)
(* The retrieval node with the limiters of its services: the external call *)
(* of one source posts through the key pool (retrievers/tavily_search.py), *)
(* that of another searches through the GitHub limiter                     *)
(* (retrievers/github_api.py), those of the others are answered by their   *)
(* services.  One search stands for those of a retrieval.                  *)
(***************************************************************************)
EXTENDS RetrievalFlight, TavilyKeyPool, GithubThrottle

CONSTANTS Pooled,        \* the source the key pool serves
          Queries,       \* those one retrieval posts at once
          Throttled      \* the source behind the GitHub limiter

ASSUME ServiceAssumption == /\ Posters = (Fanouts \X {Pooled}) \X Queries
                            /\ Searchers = Fanouts \X {Throttled}

vars == <<flightVars, poolVars, throttleVars>>

Init == FlightInit /\ PoolInit /\ ThrottleInit

Calling(c) == At(c, "call")

\* A call of the pooled source posts its queries through the pool, all at
\* once.  It fails with the first that fails; the others then run on.
Posts(c) == {<<c, q>> : q \in Queries}
Good(p) == post[p].at = "answered" /\ post[p].code = "ok"

Post(p) == Calling(p[1]) /\ Begin(p) /\ UNCHANGED <<flightVars, throttleVars>>
Pool(p) == PoolStep(p) /\ UNCHANGED <<flightVars, throttleVars>>
Posted(c) ==
    /\ \A p \in Posts(c) : post[p] # Idle
    /\ \/ (\A p \in Posts(c) : Good(p)) /\ Answer(c, "success")
       \/ (\E p \in Posts(c) : Ended(post[p]) /\ ~Good(p)) /\ Answer(c, "failed")
    /\ UNCHANGED <<poolVars, throttleVars>>

\* A call of the throttled source searches through the limiter.
StartSearch(c) == Calling(c) /\ Search(c) /\ UNCHANGED <<flightVars, poolVars>>
Throttle(c) == Calling(c) /\ ThrottleStep(c) /\ UNCHANGED <<flightVars, poolVars>>
Searched(c) ==
    /\ search[c].at = "answered"
    /\ Answer(c, IF search[c].refused THEN "failed" ELSE "success")
    /\ search' = [search EXCEPT ![c] = Resting]
    /\ UNCHANGED <<pacer, gap, starts, poolVars>>

\* Any other source answers as it likes.
Other(c) == /\ \E status \in {"success", "failed"} : Answer(c, status)
            /\ UNCHANGED <<poolVars, throttleVars>>

\* A step of the flight; the cancellation of a call reaches into its service.
Flight(c) ==
    /\ FlightStep(c)
    /\ IF pc[c] = "call" THEN Drop(Posts(c) \cap Posters) ELSE UNCHANGED poolVars
    /\ IF c \in Searchers /\ pc[c] = "call" THEN GiveUp(c) ELSE UNCHANGED throttleVars

Step(c) == \/ Flight(c)
           \/ c[2] = Pooled /\ (Posted(c) \/ \E p \in Posts(c) : Post(p) \/ Pool(p))
           \/ c \in Searchers /\ (StartSearch(c) \/ Throttle(c) \/ Searched(c))
           \/ c[2] \notin {Pooled, Throttled} /\ Other(c)

Returns(f) == Gather(f) /\ UNCHANGED <<poolVars, throttleVars>>
Passes == (\E f \in Fanouts : verdict[f] = "running") /\ Tick /\ IntervalPasses /\ UNCHANGED flightVars
Disturb == /\ \/ \E f \in Fanouts : Cancel(f)
              \/ \E s \in Sources : Expire(s)
           /\ UNCHANGED <<poolVars, throttleVars>>
Crash == /\ Stop /\ Restart
         /\ search' = [p \in Searchers |-> Resting] /\ pacer' = NoOne /\ gap' = 0
         /\ starts' = 0

\* The calls that the executions make.
Planned == {c \in Calls : pc[c] # "absent"}

Next == \/ \E c \in Planned : Step(c)
        \/ \E f \in Fanouts : Returns(f)
        \/ Passes \/ Disturb \/ Crash

Spec == Init /\ [][Next]_vars

\* While something is ready, the event loop runs it or waits for it: a step of
\* a call (each has finitely many), the answer of a service, the end of a sleep.
Proceeds == (\E c \in Planned : Step(c)) \/ (\E f \in Fanouts : Returns(f)) \/ Passes
FairSpec == Spec /\ WF_vars(Proceeds)

-----------------------------------------------------------------------------
TypeOK ==
    /\ claim \in [Calls -> Calls \cup {NoCall}]
    /\ entry \in [Sources -> Calls \cup {NoCall}]
    /\ spent \in [Runs -> 0 .. MaxCalls]
    /\ pool \in Seq(Keys) /\ prober \in Posters \cup {Nobody} /\ sleeper \in Posters \cup {Nobody}
    /\ dead \in [Keys -> 0 .. Never] /\ file \in [Keys -> 0 .. Never]
    /\ tokens \in [Keys -> 0 .. Capacity]

\* The keys are partitioned, whoever probes and whoever fails first: a usable
\* key is in the pool once and has no mark, in memory or in the file, so the
\* next process does not start from a key this one knows to be dead.
KeysPartitioned ==
    /\ IsInjective(pool)
    /\ \A k \in Range(pool) : dead[k] = Never /\ (probed => file[k] = Never)

\* The types of what is shared, and the partition of the keys.
SharedStateAgrees == TypeOK /\ KeysPartitioned

\* No key is used faster than its quota, however many coroutines wait for its
\* bucket: the requests that took a token fit an ideal bucket that refills one
\* token per tick.  (The retry of a limited request takes none.)
\* And no two searches start within one interval, nor run more than allowed.
WithinQuota == /\ \A k \in Keys : credit[k] >= 0
               /\ starts <= 1
               /\ Cardinality(Slots) <= MaxInFlight
=============================================================================
