-------------------------- MODULE ClarifySessions --------------------------
(***************************************************************************)
(* The clarification dialogue that comes before a task: one in-memory      *)
(* session (clarify/session_manager.py), the three routes that use it      *)
(* (server/clarify_routes.py) and the agent's decisions                    *)
(* (clarify/clarification_agent.py).                                       *)
(*                                                                         *)
(* A route changes the session when it is entered, awaits a language model *)
(* and changes it again: several routes may be at their await at once,     *)
(* since a client gives up after 10 s and the server does not.             *)
(* SessionState.status is left out: it is written and never read.          *)
(***************************************************************************)
EXTENDS Naturals

CONSTANTS
    Slots,        \* routes that may be executing at once
    MaxMessages   \* SessionState.messages: max_length (40 in the code)

VARIABLES
    session,   \* the session, or NoSession
    request    \* request[s]: the route executing in slot s

clarifyVars == <<session, request>>

Fields   == {"candidate_techs", "scene", "complexity"}
Defaults == {"scene", "complexity"}   \* "team" and "medium" when nothing is known

NoSession == [live |-> FALSE, known |-> {}, filled |-> {}, missing |-> {},
              unknown |-> FALSE, rounds |-> 0, messages |-> 0, idle |-> FALSE]

NoRequest == [route |-> "none", action |-> "none"]
Answer(s, a) == [request EXCEPT ![s].action = a]   \* "answered" or "refused"

ClarifyInit ==
    /\ session = NoSession
    /\ request = [s \in Slots |-> NoRequest]

------------------------------------------------------------------------------
\* _decide_action: three rounds are enough.
Decide(x) ==
    CASE x.rounds >= 3 \/ x.missing = {} -> "confirm"
      [] x.rounds < 3 /\ "candidate_techs" \in x.missing /\ x.unknown -> "recommend"
      [] OTHER -> "ask"

\* Mutant: what is learnt is not taken off the list of what is missing.
Learnt_StillMissing(x, new) ==
    [x EXCEPT !.known = @ \cup new, !.filled = @ \cup (new \ x.known)]

\* Fields that were unknown and have a value now.
Learnt(x, new) ==
    [x EXCEPT !.known   = @ \cup new,
              !.filled  = @ \cup (new \ x.known),
              !.missing = @ \ (new \ x.known)]

\* _apply_soft_gate: defaults, and both lists written anew.
SoftGate(x) ==
    LET k == x.known \cup Defaults
    IN  [x EXCEPT !.known = k, !.filled = k, !.missing = Fields \ k]

\* The agent decides; for a confirmation the defaults are applied before the
\* model is asked for a summary (_handle_confirm).
Entered(s, route, x) ==
    /\ session' = IF Decide(x) = "confirm" THEN Learnt(x, Defaults) ELSE x
    /\ request' = [request EXCEPT ![s] = [route |-> route, action |-> Decide(x)]]

\* POST /clarify/start.  Whoever asks again has no session id of an earlier
\* attempt, so that session and its routes are of no consequence any more.
Start(s) ==
    \E techs \in {{}, {"candidate_techs"}} :
      LET x == [NoSession EXCEPT !.live = TRUE, !.known = techs, !.filled = techs,
                                 !.missing = Fields \ techs, !.unknown = techs = {},
                                 !.messages = 1]
      IN  /\ session' = IF Decide(x) = "confirm" THEN Learnt(x, Defaults) ELSE x
          /\ request' = [r \in Slots |-> IF r = s THEN [route |-> "start", action |-> Decide(x)]
                                                  ELSE NoRequest]

\* _get_or_raise: an expired session is deleted by the access that finds it.
Gone == ~session.live \/ session.idle

\* append_message refuses to grow a full session.
Full == session.messages >= MaxMessages

\* POST /clarify/{id}/message: 404, or an error raised by append_message after
\* last_active was refreshed, or the turn begins.
Message(s) ==
    \/ /\ Gone
       /\ session' = NoSession
       /\ request' = [request EXCEPT ![s] = [route |-> "message", action |-> "refused"]]
    \/ /\ ~Gone /\ Full
       /\ session' = session
       /\ request' = [request EXCEPT ![s] = [route |-> "message", action |-> "refused"]]
    \/ /\ ~Gone /\ ~Full
       /\ Entered(s, "message",
                  [session EXCEPT !.messages = @ + 1,
                                  !.rounds = IF @ < 3 THEN @ + 1 ELSE @])

\* POST /clarify/{id}/finalize: the soft gate, then sub-questions are awaited.
Finalize(s) ==
    \/ /\ Gone
       /\ session' = NoSession
       /\ request' = [request EXCEPT ![s] = [route |-> "finalize", action |-> "refused"]]
    \/ /\ ~Gone
       /\ session' = SoftGate(session)
       /\ request' = [request EXCEPT ![s] = [route |-> "finalize", action |-> "finalize"]]

\* The assistant's message is appended last; in a full session that raises.
Appended(s, x) ==
    IF x.live /\ ~Full
    THEN session' = [x EXCEPT !.messages = @ + 1] /\ request' = Answer(s, "answered")
    ELSE session' = x /\ request' = Answer(s, IF x.live THEN "refused" ELSE "answered")

\* The model has answered a question or a recommendation.  Its answer is merged
\* into the session as it is NOW: the copy it is merged into is taken after the
\* await.  An unusable answer, or none, changes nothing (_fallback_response).
ModelAnswers(s) ==
    /\ request[s].action \in {"ask", "recommend"}
    /\ \E new \in SUBSET Fields, unknown \in BOOLEAN :
         LET x == IF session.live THEN [Learnt(session, new) EXCEPT !.unknown = unknown]
                                  ELSE session
         IN  Appended(s, x)

ModelFails(s) == request[s].action \in {"ask", "recommend"} /\ Appended(s, session)

\* The summary or the sub-questions are there, the model's or a fallback.
Concluded(s) == request[s].action \in {"confirm", "finalize"} /\ Appended(s, session)

\* 30 minutes pass without a message; every model call has long ended.
Elapse ==
    /\ session.live /\ ~session.idle
    /\ \A s \in Slots : request[s].action \in {"none", "answered", "refused"}
    /\ session' = [session EXCEPT !.idle = TRUE]
    /\ UNCHANGED request

ModelReturns(s) == ModelAnswers(s) \/ ModelFails(s) \/ Concluded(s)

\* What the client is told (filled_required, missing_required) is what is known,
\* however the turns, the defaults and the soft gate of a session overlap: the
\* agent stops asking for a field exactly when it has a value.
RequiredListsAgree ==
    session.live => /\ session.filled = session.known
                    /\ session.missing = Fields \ session.known
=============================================================================
