--------------------------- MODULE TavilyKeyPool ---------------------------
(***************************************************************************)
(* The process-wide pool of search keys (retrievers/tavily_keypool.py):    *)
(* one probe of the configured keys at first use, a round robin over the   *)
(* keys that live, a token bucket per key behind one lock, one failover    *)
(* from a dead key and one retry of a rate-limited one.  Time passes in    *)
(* ticks of _BUCKET_REFILL_S; ages count ticks and stop where they no      *)
(* longer matter.  A state file outlives the process.                      *)
(***************************************************************************)
EXTENDS Integers, Sequences, FiniteSets, SequencesExt

CONSTANTS Posters,      \* coroutines that may post a search
          Keys,         \* TAVILY_API_KEYS, without repetition
          Nobody,
          Capacity,     \* _BUCKET_CAPACITY
          Ttl,          \* _EXHAUSTED_TTL_S, in ticks
          Reprobe       \* TAVILY_REPROBE

ASSUME PoolAssumption == /\ Nobody \notin Posters /\ IsFiniteSet(Keys)
                         /\ Capacity \in Nat \ {0}
                         /\ Ttl \in Nat /\ Reprobe \in BOOLEAN

VARIABLES pool,       \* _pool: the usable keys, in probing order
          dead,       \* _exhausted: key -> age of its mark, or Never
          file,       \* tavily_key_state.json, the same map
          probed,     \* _probed
          prober,     \* who holds _lock inside probe
          turn,       \* _rr_idx + 1
          tokens,     \* _bucket_tokens
          idle,       \* ticks since _bucket_last
          sleeper,    \* who sleeps in _acquire_token, holding _bucket_lock
          post,       \* poster -> where its post_with_failover stands
          credit      \* what an ideal bucket of the key would hold (history)

poolVars == <<pool, dead, file, probed, prober, turn, tokens, idle, sleeper, post, credit>>

Never == Ttl + 1
Fresh(marks) == {k \in Keys : marks[k] <= Ttl}
Idle == [at |-> "idle"]
Ended(post_) == post_.at \in {"answered", "no_key"}

PoolInit ==
    /\ pool = <<>> /\ probed = FALSE /\ prober = Nobody /\ turn = 0
    /\ dead = [k \in Keys |-> Never] /\ file = dead
    /\ tokens = [k \in Keys |-> Capacity] /\ idle = [k \in Keys |-> Capacity] /\ sleeper = Nobody
    /\ post = [p \in Posters |-> Idle]
    /\ credit = [k \in Keys |-> Capacity]

Least(a, b) == IF a < b THEN a ELSE b

\* current(): the next key of a non-empty pool.
Chosen(keys, n) == keys[(n % Len(keys)) + 1]

\* A coroutine takes a key and goes to wait for a token of it, or leaves.
Choose(p, again, keys) ==
    IF keys = <<>>
    THEN /\ post' = [post EXCEPT ![p] = [at |-> IF again THEN "answered" ELSE "no_key",
                                         code |-> "dead"]]
         /\ UNCHANGED turn
    ELSE /\ post' = [post EXCEPT ![p] = [at |-> "token", key |-> Chosen(keys, turn), again |-> again]]
         /\ turn' = (turn % Len(keys)) + 1

Begin(p) ==
    /\ post[p] = Idle
    /\ IF probed THEN Choose(p, FALSE, pool)
                 ELSE post' = [post EXCEPT ![p] = [at |-> "probe"]] /\ UNCHANGED turn
    /\ UNCHANGED <<pool, dead, file, probed, prober, tokens, idle, sleeper, credit>>

\* The test of _probed once _lock is held.  Mutant: it is not repeated there.
MustProbe_Unchecked == TRUE
MustProbe == ~probed

ProbeStart(p) ==
    /\ post[p].at = "probe" /\ prober = Nobody
    /\ IF MustProbe
       THEN prober' = p /\ post' = [post EXCEPT ![p] = [at |-> "probing"]] /\ UNCHANGED turn
       ELSE Choose(p, FALSE, pool) /\ UNCHANGED prober
    /\ UNCHANGED <<pool, dead, file, probed, tokens, idle, sleeper, credit>>

\* The candidates are the keys without a fresh mark in the file (all of them
\* under TAVILY_REPROBE); `alive` are those whose probe was not refused.
ProbeEnd(p, alive) ==
    LET candidates == IF Reprobe THEN Keys ELSE Keys \ Fresh(file)
        saved == [k \in Keys |-> CASE k \in alive -> Never
                                   [] k \in candidates \ alive -> 0
                                   [] OTHER -> file[k]]
        usable == pool \o SetToSeq(alive)
    IN /\ post[p].at = "probing"
       /\ alive \subseteq candidates
       /\ pool' = usable
       /\ dead' = saved /\ file' = saved
       /\ probed' = TRUE /\ prober' = Nobody
       /\ Choose(p, FALSE, usable)
       /\ UNCHANGED <<tokens, idle, sleeper, credit>>

\* What the bucket of a key holds now.
Tokens(k) == Least(Capacity, tokens[k] + idle[k])

\* The request goes out as soon as the token is taken.
Sent(p) == post' = [post EXCEPT ![p] = [at |-> "posting", key |-> post[p].key, again |-> post[p].again]]

\* A request with a token, against the ideal bucket of the key.
Pays(k) == credit' = [credit EXCEPT ![k] = @ - 1]

TakeToken(p) ==
    LET k == post[p].key
    IN /\ post[p].at = "token" /\ sleeper = Nobody
       /\ IF Tokens(k) >= 1
          THEN /\ tokens' = [tokens EXCEPT ![k] = Tokens(k) - 1]
               /\ idle' = [idle EXCEPT ![k] = 0]
               /\ Sent(p) /\ Pays(k) /\ UNCHANGED sleeper
          ELSE /\ sleeper' = p
               /\ post' = [post EXCEPT ![p] = [at |-> "asleep", key |-> k, again |-> post[p].again,
                                               left |-> 1]]
               /\ UNCHANGED <<tokens, idle, credit>>
       /\ UNCHANGED <<pool, dead, file, probed, prober, turn>>

\* The clock is read again after the sleep: the tick slept is not counted twice.
SinceAfterSleep(k) == 0

Wake(p) ==
    LET k == post[p].key
    IN /\ post[p].at = "asleep" /\ post[p].left = 0
       /\ tokens' = [tokens EXCEPT ![k] = 0]
       /\ idle' = [idle EXCEPT ![k] = SinceAfterSleep(k)]
       /\ sleeper' = Nobody
       /\ Sent(p) /\ Pays(k)
       /\ UNCHANGED <<pool, dead, file, probed, prober, turn>>

\* mark_dead: out of the pool, into the exhausted map and the file.
MarkedDead(k) == /\ pool' = RemoveFirst(pool, k)
                 /\ dead' = [dead EXCEPT ![k] = 0]
                 /\ file' = dead'

\* The service answers: 401 or 432 (dead), 429 (limited), or anything else.
Respond(p, code) ==
    /\ post[p].at = "posting"
    /\ CASE code = "dead" /\ ~post[p].again ->
              MarkedDead(post[p].key) /\ Choose(p, TRUE, pool')
         [] code = "limited" /\ ~post[p].again ->
              /\ post' = [post EXCEPT ![p].at = "backoff"]
              /\ UNCHANGED <<pool, dead, file, turn>>
         [] OTHER ->
              /\ post' = [post EXCEPT ![p] = [at |-> "answered", code |-> code]]
              /\ UNCHANGED <<pool, dead, file, turn>>
    /\ UNCHANGED <<probed, prober, tokens, idle, sleeper, credit>>

\* The retry of a limited request is sent without a token.
Retry(p) ==
    /\ post[p].at = "backoff"
    /\ post' = [post EXCEPT ![p] = [at |-> "posting", key |-> post[p].key, again |-> TRUE]]
    /\ UNCHANGED <<pool, dead, file, probed, prober, turn, tokens, idle, sleeper, credit>>

\* The coroutines of some posts are cancelled where they wait: both locks are
\* given back, a probe under way leaves nothing, a token is not taken.
Drop(ps) ==
    /\ prober' = IF prober \in ps THEN Nobody ELSE prober
    /\ sleeper' = IF sleeper \in ps THEN Nobody ELSE sleeper
    /\ post' = [p \in Posters |-> IF p \in ps THEN Idle ELSE post[p]]
    /\ UNCHANGED <<pool, dead, file, probed, turn, tokens, idle, credit>>

Aged(marks) == [k \in Keys |-> Least(marks[k] + 1, Never)]

Tick ==
    /\ idle' = [k \in Keys |-> Least(idle[k] + 1, Capacity)]
    /\ credit' = [k \in Keys |-> Least(credit[k] + 1, Capacity)]
    /\ dead' = Aged(dead)
    /\ file' = Aged(file)
    /\ post' = [p \in Posters |-> IF post[p].at = "asleep" THEN [post[p] EXCEPT !.left = 0] ELSE post[p]]
    /\ UNCHANGED <<pool, probed, prober, turn, tokens, sleeper>>

\* The process is restarted: memory is lost, the file stays.
Restart ==
    /\ pool' = <<>> /\ probed' = FALSE /\ prober' = Nobody /\ turn' = 0
    /\ dead' = [k \in Keys |-> Never] /\ UNCHANGED file
    /\ tokens' = [k \in Keys |-> Capacity] /\ idle' = [k \in Keys |-> Capacity] /\ sleeper' = Nobody
    /\ post' = [p \in Posters |-> Idle]
    /\ credit' = [k \in Keys |-> Capacity]

PoolStep(p) ==
    \/ ProbeStart(p)
    \/ \E alive \in SUBSET Keys : ProbeEnd(p, alive)
    \/ TakeToken(p) \/ Wake(p) \/ Retry(p)
    \/ \E code \in {"ok", "dead", "limited"} : Respond(p, code)
=============================================================================
