----------------------------- MODULE WebClient -----------------------------
(***************************************************************************)
(* One browser session of the front end (frontend/app.py): it clarifies a  *)
(* question (ClarifySessions), creates a task, follows its event stream    *)
(* (TaskEventStream), shows the decision panel and the outcome.            *)
(*                                                                         *)
(* A Streamlit script runs from top to bottom and then waits for a click;  *)
(* view.at is where the script is and view.flags are the research_* flags  *)
(* that are True.  A GET is one action: what the server does between its   *)
(* answer and the assignments that follow it is as if done after them.  A  *)
(* POST is one action too, whose answer may be lost.                       *)
(***************************************************************************)
EXTENDS TaskEventStream, ClarifySessions

CONSTANTS
    NoSlot,
    MaxTrouble   \* bound: failed requests, broken streams, clicks during a stream

ASSUME ClientAssumption == MaxTrouble \in Nat

VARIABLES
    view,        \* st.session_state and the place of the script
    trouble      \* failures and interruptions so far

vars == <<streamVars, clarifyVars, view, trouble>>

Attempts == 3

Places == {"idle",                       \* rendered, waiting for a click
           "calling",                    \* a clarify request is under way
           "start",                      \* _start_research
           "follow", "open", "read", "check",      \* _render_research_progress
           "load", "load_decision",                \* _set_waiting_for_input
           "submit", "submit_decision", "post",    \* _submit_decision
           "conflict", "conflict_decision"}

\* DEFAULTS
Defaulted == [phase |-> "clarify", at |-> "idle", call |-> NoSlot, sid |-> FALSE,
              flags |-> {}, terminal |-> "none", status |-> "none", version |-> 0,
              last |-> 0, attempt |-> 0, decision |-> "none", submission |-> "none"]

Init ==
    /\ StreamInit /\ ClarifyInit
    /\ view = Defaulted
    /\ trouble = 0

Trouble == trouble < MaxTrouble /\ trouble' = trouble + 1

------------------------------------------------------------------------------
(***************************************************************************)
(* Projections of the server's answer on the view.                         *)
(***************************************************************************)
Failures == {"failed", "timed_out", "interrupted"}
Outcomes == Final \cup Failures     \* the statuses _set_terminal_status accepts

\* Mutant: the view goes on following.
WithTerminal_Following(v, s) ==
    [v EXCEPT !.flags = (@ \ {"complete", "failed", "lost"})
                         \cup (IF s \in Successes THEN {"complete"} ELSE {})
                         \cup (IF s \in Failures THEN {"failed"} ELSE {}),
              !.terminal = s, !.status = s]

\* _set_terminal_status
WithTerminal(v, s) ==
    [v EXCEPT !.flags = (@ \ {"running", "complete", "failed", "lost"})
                         \cup (IF s \in Successes THEN {"complete"} ELSE {})
                         \cup (IF s \in Failures THEN {"failed"} ELSE {}),
              !.terminal = s, !.status = s]

\* Back to the top of the script, which follows a running task.
Rerun(v) == [v EXCEPT !.at = IF "running" \in v.flags THEN "follow" ELSE "idle",
                      !.attempt = 0]

\* _apply_authoritative_task_projection: a task that is being cancelled moves
\* nothing but the remembered status.
Projected(v, s) ==
    CASE s \in Outcomes ->
           WithTerminal([v EXCEPT !.flags = @ \ {"waiting"}], s)
      [] s \in {"queued", "running"} ->
           [v EXCEPT !.flags = {"running"}, !.terminal = "none", !.status = s]
      [] s = "waiting_for_input" ->
           [v EXCEPT !.flags = {"waiting"}, !.terminal = "none", !.status = s]
      [] OTHER -> [v EXCEPT !.status = s]

\* Mutant: the view does not say that the connection is lost.
Lost_Silently(v) == [v EXCEPT !.flags = @ \ {"running", "failed"}, !.at = "idle"]

\* The script ends with the connection given up for lost.
Lost(v) == [v EXCEPT !.flags = (@ \ {"running", "failed"}) \cup {"lost"}, !.at = "idle"]

Remembered(v) == [v EXCEPT !.version = task.version, !.status = task.status]

------------------------------------------------------------------------------
(***************************************************************************)
(* The clarification dialogue.                                             *)
(***************************************************************************)
FreeSlots == {s \in Slots : request[s] = NoRequest}

\* _handle_clarify_message, _handle_skip, _handle_finalize: the user writes or
\* goes on; the script waits for the answer.
Ask ==
    /\ view.phase = "clarify" /\ view.at = "idle"
    /\ \E s \in FreeSlots :
         /\ \/ ~view.sid /\ Start(s)
            \/ view.sid /\ Message(s)
            \/ view.sid /\ Finalize(s)
         /\ view' = [view EXCEPT !.at = "calling", !.call = s]
    /\ UNCHANGED <<streamVars, trouble>>

\* The answer arrives; one that is not 200 is dropped without a word.
HearAnswer ==
    /\ view.at = "calling"
    /\ LET r == request[view.call]
           heard == [view EXCEPT !.at = "idle", !.call = NoSlot]
       IN  /\ r.action \in {"answered", "refused"}
           /\ view' = IF r.action = "refused" THEN heard
                      ELSE IF r.route = "finalize"
                           THEN [heard EXCEPT !.phase = "research", !.at = "start"]
                           ELSE [heard EXCEPT !.sid = TRUE]
    /\ request' = [request EXCEPT ![view.call] = NoRequest]
    /\ UNCHANGED <<streamVars, session, trouble>>

\* The client's 10 s are over; the route goes on.
GiveUp ==
    /\ view.at = "calling" /\ Trouble
    /\ view' = [view EXCEPT !.at = "idle", !.call = NoSlot]
    /\ UNCHANGED <<streamVars, clarifyVars>>

\* An answer nobody waits for.
Unheard ==
    \E s \in Slots \ {view.call} :
      /\ request[s].action \in {"answered", "refused"}
      /\ request' = [request EXCEPT ![s] = NoRequest]
      /\ UNCHANGED <<streamVars, session, view, trouble>>

\* The model calls of the routes, and time.
ServeClarify ==
    /\ Elapse \/ \E s \in Slots : ModelReturns(s)
    /\ UNCHANGED <<streamVars, view, trouble>>

\* _start_research: the session has done its work, nothing reads it again.
StartResearch ==
    /\ view.at = "start"
    /\ \/ /\ Create
          /\ view' = Rerun([view EXCEPT !.flags = {"running"}])
          /\ UNCHANGED trouble
       \/ /\ Trouble
          /\ view' = Rerun([view EXCEPT !.flags = {"failed"}])
          /\ UNCHANGED <<task, log, decision>>
    /\ session' = NoSession /\ request' = [s \in Slots |-> NoRequest]
    /\ UNCHANGED stream

------------------------------------------------------------------------------
(***************************************************************************)
(* Following the stream (_render_research_progress).                       *)
(***************************************************************************)

\* A GET that fails leaves an empty detail.
GetFails(v) == Trouble /\ view' = v

\* A view that has seen events asks for the task first: a pause it has already
\* acknowledged would not be sent again.
Follow ==
    /\ view.at = "follow"
    /\ LET open == [view EXCEPT !.at = "open", !.attempt = 1]
       IN  \/ view.last = 0 /\ view' = open /\ UNCHANGED trouble
           \/ /\ view.last # 0 /\ UNCHANGED trouble
              /\ view' = IF task.status = "waiting_for_input"
                         THEN [Projected(Remembered(view), task.status) EXCEPT !.at = "load_decision"]
                         ELSE [Remembered(view) EXCEPT !.at = "open", !.attempt = 1]
           \/ view.last # 0 /\ GetFails(open)
    /\ UNCHANGED <<streamVars, clarifyVars>>

\* The cancel button, which needs no version.
ClickCancel ==
    /\ view.at = "open" /\ view.attempt = 1 /\ Trouble
    /\ Cancel
    /\ LET answered == [view EXCEPT !.version = task'.version]
       IN  view' = Rerun(IF task'.status \in Outcomes
                         THEN WithTerminal(answered, task'.status) ELSE answered)
    /\ UNCHANGED <<stream, clarifyVars>>

Connect ==
    /\ view.at = "open"
    /\ \/ Open(view.last) /\ view' = [view EXCEPT !.at = "read"] /\ UNCHANGED trouble
       \/ Trouble /\ view' = Lost(view) /\ UNCHANGED stream
    /\ UNCHANGED <<task, log, decision, clarifyVars>>

\* Mutant: the outcome shown is the one the event carries.
Outcome_OfEvent(status, e) == e
\* An old event may precede a retry of the same task: the row decides.
Outcome(status, e) == status

Hung(v) == view' = v /\ stream' = NoStream

\* The next frame.  The view leaves the stream at a pause and at an outcome.
ReadFrame ==
    /\ view.at = "read" /\ view.last < stream.cursor
    /\ LET e    == log[view.last + 1]
           seen == [view EXCEPT !.last = @ + 1]
           s    == Outcome(task.status, e)
           told == [seen EXCEPT !.version = task.version]
       IN  \/ /\ e = "waiting_for_input"
              /\ Hung([seen EXCEPT !.at = "load"]) /\ UNCHANGED trouble
           \/ /\ e \in Outcomes /\ UNCHANGED trouble
              /\ IF s \in Outcomes THEN Hung([WithTerminal(told, s) EXCEPT !.at = "idle"])
                                   ELSE view' = told /\ UNCHANGED stream
           \/ e \in Outcomes /\ GetFails(seen) /\ UNCHANGED stream
           \/ /\ e \notin Outcomes \cup {"waiting_for_input"}
              /\ view' = seen /\ UNCHANGED <<stream, trouble>>
    /\ UNCHANGED <<task, log, decision, clarifyVars>>

\* The server has closed the stream and every frame is read.
StreamOver ==
    /\ view.at = "read" /\ stream.stage = "ended" /\ view.last = stream.cursor
    /\ Hung([view EXCEPT !.at = "check"])
    /\ UNCHANGED <<task, log, decision, clarifyVars, trouble>>

StreamBreaks ==
    /\ view.at = "read" /\ Trouble
    /\ Hung(Lost(view))
    /\ UNCHANGED <<task, log, decision, clarifyVars>>

\* Any click restarts the script, and with it the stream.
Interrupt ==
    /\ view.at \in {"read", "check"} /\ Trouble
    /\ Hung(Rerun(view))
    /\ UNCHANGED <<task, log, decision, clarifyVars>>

\* After a stream that ended without an outcome: the row, or the next attempt.
Check ==
    /\ view.at = "check"
    /\ LET again == IF view.attempt = Attempts THEN Lost(view)
                    ELSE [view EXCEPT !.at = "open", !.attempt = @ + 1]
       IN  \/ /\ UNCHANGED trouble
              /\ view' = LET told == [view EXCEPT !.version = task.version]
                         IN  CASE task.status = "waiting_for_input" -> [told EXCEPT !.at = "load"]
                               [] task.status \in Outcomes ->
                                    [WithTerminal(told, task.status) EXCEPT !.at = "idle"]
                               [] OTHER -> [again EXCEPT !.version = task.version]
           \/ GetFails(again)
    /\ UNCHANGED <<streamVars, clarifyVars>>

\* _set_waiting_for_input, called by the stream or by the panel's refresh.  When
\* the task does not wait, the stream gives up and the panel stays as it is.
Load ==
    /\ view.at = "load"
    /\ LET declined(v) == IF "running" \in v.flags THEN Lost(v) ELSE [v EXCEPT !.at = "idle"]
       IN  \/ /\ UNCHANGED trouble
              /\ view' = IF task.status = "waiting_for_input"
                         THEN [Projected(Remembered(view), task.status) EXCEPT !.at = "load_decision"]
                         ELSE declined(Remembered(view))
           \/ GetFails(declined(view))
    /\ UNCHANGED <<streamVars, clarifyVars>>

LoadDecision ==
    /\ view.at = "load_decision"
    /\ \/ /\ UNCHANGED trouble
          /\ view' = [view EXCEPT !.at = "idle",
                        !.decision = IF decision.status = "pending" THEN "pending" ELSE "none"]
       \/ GetFails([view EXCEPT !.at = "idle", !.decision = "none"])
    /\ UNCHANGED <<streamVars, clarifyVars>>

------------------------------------------------------------------------------
(***************************************************************************)
(* The decision panel (_render_decision_panel, _submit_decision).          *)
(***************************************************************************)
Panel == view.phase = "research" /\ view.at = "idle" /\ "waiting" \in view.flags
         /\ view.decision \notin {"expired", "cancelled"}

\* The refresh button, shown when the remembered status is not a pause or the
\* decision is not at hand.
ClickRefresh ==
    /\ Panel
    /\ view.status # "waiting_for_input" \/ view.decision # "pending"
    /\ view' = [view EXCEPT !.at = "load"]
    /\ UNCHANGED <<streamVars, clarifyVars, trouble>>

\* A choice, or the retry of the one submitted before, whose body is kept.
ClickAnswer ==
    /\ Panel /\ view.status = "waiting_for_input" /\ view.decision = "pending"
    /\ \E b \in Bodies :
         /\ view.submission \in {"none", b}
         /\ view' = [view EXCEPT !.at = "submit", !.submission = b]
    /\ UNCHANGED <<streamVars, clarifyVars, trouble>>

NetworkError == GetFails([view EXCEPT !.at = "idle"])

\* _apply_decision_conflict with the task read before and the decision read now.
Conflicted(v) ==
    Rerun(Projected([v EXCEPT !.submission = "none", !.decision = decision.status], v.status))

\* _refresh_decision_authority: the task, then the decision.
SubmitTask ==
    /\ view.at = "submit"
    /\ \/ view' = [Remembered(view) EXCEPT !.at = "submit_decision"] /\ UNCHANGED trouble
       \/ NetworkError
    /\ UNCHANGED <<streamVars, clarifyVars>>

SubmitDecision ==
    /\ view.at = "submit_decision"
    /\ \/ /\ UNCHANGED trouble
          /\ view' = IF \/ decision.status = "expired"
                        \/ decision.status = "pending" /\ view.status # "waiting_for_input"
                     THEN Conflicted(view) ELSE [view EXCEPT !.at = "post"]
       \/ NetworkError
    /\ UNCHANGED <<streamVars, clarifyVars>>

\* The POST: accepted, refused, or of unknown fate.
Post ==
    /\ view.at = "post"
    /\ LET may == MayResolve(view.submission, view.version)
       IN  \/ /\ may /\ Resolve(view.submission) /\ UNCHANGED trouble
              /\ view' = Rerun(Projected([view EXCEPT !.submission = "none",
                                                      !.decision = decision'.status,
                                                      !.version = task'.version],
                                         task'.status))
           \/ /\ ~may /\ view' = [view EXCEPT !.at = "conflict"]
              /\ UNCHANGED <<task, log, decision, trouble>>
           \/ may /\ Resolve(view.submission) /\ NetworkError
           \/ NetworkError /\ UNCHANGED <<task, log, decision>>
    /\ UNCHANGED <<stream, clarifyVars>>

ConflictTask ==
    /\ view.at = "conflict"
    /\ \/ view' = [Remembered(view) EXCEPT !.at = "conflict_decision"] /\ UNCHANGED trouble
       \/ NetworkError
    /\ UNCHANGED <<streamVars, clarifyVars>>

ConflictDecision ==
    /\ view.at = "conflict_decision"
    /\ \/ view' = Conflicted(view) /\ UNCHANGED trouble
       \/ NetworkError
    /\ UNCHANGED <<streamVars, clarifyVars>>

------------------------------------------------------------------------------
(***************************************************************************)
(* The buttons under the results (render_research_phase).                  *)
(***************************************************************************)
Resting == view.phase = "research" /\ view.at = "idle"

ClickReconnect ==
    /\ Resting /\ "lost" \in view.flags
    /\ view' = Rerun([view EXCEPT !.flags = (@ \ {"lost"}) \cup {"running"}])
    /\ UNCHANGED <<streamVars, clarifyVars, trouble>>

\* Resume at the version the view remembers; a refusal changes nothing.
ClickResume ==
    /\ Resting /\ "failed" \in view.flags /\ view.terminal \in Failures
    /\ MayResume(view.version) /\ Resume
    /\ \/ /\ view' = Rerun([view EXCEPT !.flags = (@ \ {"failed", "lost"}) \cup {"running"},
                                        !.version = task'.version, !.terminal = "none"])
          /\ UNCHANGED trouble
       \/ Trouble /\ UNCHANGED view
    /\ UNCHANGED <<stream, clarifyVars>>

\* Start again from DEFAULTS: the task is of no consequence to this view any more.
ClickRestart ==
    /\ Resting
    /\ \/ view.flags \cap {"failed", "complete"} # {}
       \/ view.terminal = "cancelled"
       \/ view.decision = "expired"
    /\ view' = Defaulted
    /\ task' = NoTask /\ log' = <<>> /\ decision' = NoDecision /\ stream' = NoStream
    /\ UNCHANGED <<clarifyVars, trouble>>

------------------------------------------------------------------------------
Server == (Serve \/ Elsewhere) /\ UNCHANGED <<clarifyVars, view, trouble>>

\* The script runs on by itself.
Script ==
    \/ HearAnswer \/ StartResearch
    \/ Follow \/ Connect \/ ReadFrame \/ StreamOver \/ Check \/ Load \/ LoadDecision
    \/ SubmitTask \/ SubmitDecision \/ Post \/ ConflictTask \/ ConflictDecision

Clicks ==
    \/ Ask \/ ClickCancel \/ ClickRefresh \/ ClickAnswer
    \/ ClickReconnect \/ ClickResume \/ ClickRestart

Next == Server \/ ServeClarify \/ Unheard \/ Script \/ Clicks
        \/ GiveUp \/ StreamBreaks \/ Interrupt

Spec == Init /\ [][Next]_vars

\* Threads and requests go on; a user who is offered nothing else reconnects or
\* refreshes.
FairSpec ==
    /\ Spec
    /\ WF_vars(Script)
    /\ WF_vars(Serve /\ UNCHANGED <<clarifyVars, view, trouble>>)
    /\ WF_vars(ClickReconnect)
    /\ WF_vars(ClickRefresh)

------------------------------------------------------------------------------
TypeOK ==
    /\ view \in [phase : {"clarify", "research"}, at : Places, call : Slots \cup {NoSlot},
                 sid : BOOLEAN,
                 flags : SUBSET {"running", "complete", "failed", "waiting", "lost"},
                 terminal : Outcomes \cup {"none"},
                 status : Outcomes \cup {"none", "absent", "queued", "running",
                                         "cancelling", "waiting_for_input"},
                 version : Nat, last : Nat, attempt : 0..Attempts,
                 decision : {"none", "pending", "resolved", "cancelled", "expired"},
                 submission : Bodies \cup {"none"}]
    /\ trouble \in 0..MaxTrouble

\* An outcome appears in the view only when the task row has it, or had it when
\* the row was last read: an event that a retry, a recovery or another attempt
\* has overtaken is never shown as the outcome.
OutcomeIsCurrent ==
    [][view'.terminal # view.terminal /\ view'.terminal # "none"
         => view'.terminal \in {task'.status, view.status}]_vars

\* A view that was waiting for the server shows one thing: it follows, or shows
\* the panel, or the outcome, or the loss of its connection.
OnePlace ==
    view.phase = "research" /\ view.at = "idle" =>
      \E f \in {"running", "complete", "failed", "waiting", "lost"} : view.flags \subseteq {f}

\* The view and its bounds, and one place to be in.
ViewAgrees == TypeOK /\ OnePlace

\* An answer the server has taken from this view is never reported to it as a
\* conflict, whatever was lost on the way and however often it was sent again.
OwnAnswerStands ==
    [][view.at \in {"submit_decision", "conflict_decision"} /\ view'.submission = "none"
         => decision.body # view.submission]_vars

\* Once a task is over, a view that follows it, or has lost it and is
\* reconnected, comes to show how it ended.
FollowerSeesOutcome ==
    ({"running", "lost"} \cap view.flags # {} /\ task.status \in Final)
      ~> (view.terminal = task.status \/ view.phase = "clarify")

=============================================================================
