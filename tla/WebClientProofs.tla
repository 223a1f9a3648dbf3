-------------------------- MODULE WebClientProofs --------------------------
(***************************************************************************)
(* Proofs about a browser session, the event stream it follows and the     *)
(* clarification session it begins with, for any number of failures, any   *)
(* length of the log and any bodies of a decision.                         *)
(***************************************************************************)
EXTENDS WebClient, SequenceTheorems, TLAPS

Flags == {"running", "complete", "failed", "waiting", "lost"}
TaskStatuses == Outcomes \cup {"absent", "queued", "running", "cancelling", "waiting_for_input"}
Decisions == {"none", "pending", "resolved", "cancelled", "expired"}

Views ==
    [phase : {"clarify", "research"}, at : Places, call : Slots \cup {NoSlot}, sid : BOOLEAN,
     flags : SUBSET Flags, terminal : Outcomes \cup {"none"},
     status : TaskStatuses \cup {"none"}, version : Nat, last : Nat, attempt : 0 .. Attempts,
     decision : Decisions, submission : Bodies \cup {"none"}]

ViewTyped == view \in Views /\ trouble \in 0 .. MaxTrouble

Entries == TaskStatuses \cup {"progress"}
DecisionRows == [status : Decisions, body : Bodies \cup {"none"}]
Streams ==
    [stage : {"closed", "list", "task", "bounds", "ended"}, cursor : Nat,
     seen : TaskStatuses, owed : Nat]

ServerTyped ==
    /\ task \in [status : TaskStatuses, version : Nat]
    /\ log \in Seq(Entries)
    /\ decision \in DecisionRows
    /\ stream \in Streams

Sessions ==
    [live : BOOLEAN, known : SUBSET Fields, filled : SUBSET Fields, missing : SUBSET Fields,
     unknown : BOOLEAN, rounds : Nat, messages : Nat, idle : BOOLEAN]

\* RequiredListsAgree of a session x.
ListsAgree(x) == x.live => x.filled = x.known /\ x.missing = Fields \ x.known
SessionAgrees(x) == x \in Sessions /\ ListsAgree(x)

-----------------------------------------------------------------------------
(***************************************************************************)
(* The invariant.                                                          *)
(***************************************************************************)
\* A stream is open only while the script reads it, and between the status and the bounds it
\* owes no more than the log.
StreamAgrees ==
    /\ view.at # "read" => stream.stage = "closed"
    /\ stream.stage = "bounds" => stream.owed <= Len(log)
    /\ EndsCaughtUp

\* A decision is pending while its task waits, and has a body once a user settled it.
DecisionAgrees ==
    /\ decision.status = "pending" <=> task.status = "waiting_for_input"
    /\ decision.status \in {"none", "pending", "expired"} => decision.body = "none"

\* What a view shows, at any place of the script.
Following == {"follow", "open", "read", "check"}
OneFlag(v) == \E f \in Flags : v.flags \subseteq {f}
PlaceAgrees(v) ==
    /\ OneFlag(v)
    /\ v.at \in Following => v.flags = {"running"}
    /\ v.phase = "clarify" => v.at \in {"idle", "calling"} /\ v.decision = "none"
    /\ v.at \in {"calling", "start"} => v.decision = "none"

\* What a view that submits an answer knows of the decision: whose version it holds while it
\* is pending, and behind a refusal, that another answer has settled it.
Submitting == {"submit", "submit_decision", "post", "conflict", "conflict_decision"}
Settled == decision.status \notin {"none", "pending"}
Submits(v) ==
    /\ v.decision # "none" \/ v.at \in Submitting => decision.status # "none"
    /\ v.at \in Submitting => v.submission \in Bodies
    /\ v.at \in {"submit_decision", "post"} /\ decision.status = "pending"
         /\ v.status = "waiting_for_input" => v.version = task.version
    /\ v.at = "post" /\ decision.status = "pending" => v.status = "waiting_for_input"
    /\ v.at \in {"conflict", "conflict_decision"} => Settled /\ decision.body # v.submission

IInv ==
    /\ ViewTyped /\ ServerTyped /\ SessionAgrees(session)
    /\ StreamAgrees /\ DecisionAgrees
    /\ PlaceAgrees(view) /\ Submits(view)

-----------------------------------------------------------------------------
(***************************************************************************)
(* What the projections do to a view.                                      *)
(***************************************************************************)
LEMMA OutcomesAre ==
    /\ Successes = {"completed", "completed_with_warnings"}
    /\ Outcomes = {"completed", "completed_with_warnings", "cancelled", "failed", "timed_out",
                   "interrupted"}
    /\ StreamEnds = Outcomes \cup {"waiting_for_input"}
BY DEF Successes, L!Successes, Outcomes, Final, Failures, StreamEnds

\* A view of the research phase that shows one thing and is not following.
LEMMA RestsSomewhere ==
    ASSUME NEW v \in Views, v.phase = "research", OneFlag(v),
           v.at \notin Following \cup {"calling", "start"}
    PROVE  PlaceAgrees(v)
BY DEF PlaceAgrees

LEMMA WithTerminalIs ==
    ASSUME NEW v \in Views, NEW s \in Outcomes, NEW w, w = WithTerminal(v, s)
    PROVE  /\ w \in Views /\ w.terminal = s /\ w.status = s
           /\ w.phase = v.phase /\ w.at = v.at /\ w.decision = v.decision
           /\ w.submission = v.submission /\ w.version = v.version
           /\ "waiting" \notin v.flags => OneFlag(w)
<1> DEFINE fs == (v.flags \ {"running", "complete", "failed", "lost"})
                   \cup (IF s \in Successes THEN {"complete"} ELSE {})
                   \cup (IF s \in Failures THEN {"failed"} ELSE {})
<1>1. fs \in SUBSET Flags
  BY DEF Views, Flags
<1>2. "waiting" \notin v.flags => fs \subseteq {"complete"} \/ fs \subseteq {"failed"}
  BY OutcomesAre DEF Views, Flags, Failures
<1>3. w = [v EXCEPT !.flags = fs, !.terminal = s, !.status = s]
  BY DEF WithTerminal
<1>4. s \in TaskStatuses \cup {"none"} /\ s \in Outcomes \cup {"none"}
  BY DEF TaskStatuses
<1> HIDE DEF fs
<1>5. w \in Views
  BY <1>1, <1>3, <1>4 DEF Views
<1>6. /\ w.terminal = s /\ w.status = s /\ w.flags = fs
      /\ w.phase = v.phase /\ w.at = v.at /\ w.decision = v.decision
      /\ w.submission = v.submission /\ w.version = v.version
  BY <1>3 DEF Views
<1>7. "waiting" \notin v.flags => OneFlag(w)
  BY <1>2, <1>6 DEF OneFlag, Flags
<1> QED BY <1>5, <1>6, <1>7

LEMMA RerunIs ==
    ASSUME NEW v \in Views, OneFlag(v), v.phase = "research"
    PROVE  /\ Rerun(v) \in Views /\ PlaceAgrees(Rerun(v))
           /\ Rerun(v).at \in {"follow", "idle"} /\ Rerun(v).decision = v.decision
           /\ Rerun(v).submission = v.submission /\ Rerun(v).terminal = v.terminal
<1> DEFINE a == IF "running" \in v.flags THEN "follow" ELSE "idle"
           w == [v EXCEPT !.at = a, !.attempt = 0]
<1>1. a \in {"follow", "idle"} /\ a \in Places /\ 0 \in 0 .. Attempts
  BY DEF Places, Attempts
<1>2. a = "follow" => v.flags = {"running"}
  BY DEF OneFlag
<1> HIDE DEF a
<1>3. /\ w \in Views /\ w.at = a /\ w.decision = v.decision /\ w.submission = v.submission
      /\ w.terminal = v.terminal /\ w.flags = v.flags /\ w.phase = v.phase
  BY <1>1 DEF Views
<1>4. PlaceAgrees(w)
  BY <1>1, <1>2, <1>3 DEF PlaceAgrees, OneFlag, Following
<1>5. Rerun(v) = w
  BY DEF Rerun, a
<1> QED BY <1>1, <1>3, <1>4, <1>5

LEMMA LostIs ==
    ASSUME NEW v \in Views, v.flags = {"running"}, v.phase = "research"
    PROVE  /\ Lost(v) \in Views /\ PlaceAgrees(Lost(v)) /\ Lost(v).at = "idle"
           /\ Lost(v).decision = v.decision /\ Lost(v).submission = v.submission
           /\ Lost(v).terminal = v.terminal
<1> DEFINE fs == (v.flags \ {"running", "failed"}) \cup {"lost"}
           w == [v EXCEPT !.flags = fs, !.at = "idle"]
<1>1. fs = {"lost"} /\ fs \in SUBSET Flags /\ "idle" \in Places
  BY DEF Flags, Places
<1> HIDE DEF fs
<1>2. /\ w \in Views /\ w.at = "idle" /\ w.decision = v.decision /\ w.submission = v.submission
      /\ w.terminal = v.terminal /\ w.flags = fs /\ w.phase = v.phase
  BY <1>1 DEF Views
<1>3. OneFlag(w)
  BY <1>1, <1>2 DEF OneFlag, Flags
<1>4. Lost(v) = w
  BY DEF Lost, fs
<1> QED BY <1>2, <1>3, <1>4, RestsSomewhere DEF Following

LEMMA RememberedIs ==
    ASSUME NEW v \in Views, ServerTyped
    PROVE  /\ Remembered(v) \in Views /\ Remembered(v).phase = v.phase
           /\ Remembered(v).at = v.at /\ Remembered(v).flags = v.flags
           /\ Remembered(v).decision = v.decision /\ Remembered(v).submission = v.submission
           /\ Remembered(v).version = task.version /\ Remembered(v).status = task.status
           /\ Remembered(v).terminal = v.terminal
BY DEF Remembered, Views, ServerTyped

LEMMA ProjectedIs ==
    ASSUME NEW v \in Views, OneFlag(v), NEW s \in TaskStatuses \cup {"none"},
           NEW w, w = Projected(v, s)
    PROVE  /\ w \in Views /\ OneFlag(w)
           /\ w.phase = v.phase /\ w.at = v.at /\ w.decision = v.decision
           /\ w.submission = v.submission /\ w.version = v.version
           /\ s = "waiting_for_input" => w.flags = {"waiting"}
           /\ w.terminal # v.terminal /\ w.terminal # "none" => w.terminal = s
<1>1. CASE s \in Outcomes
  <2> DEFINE u == [v EXCEPT !.flags = v.flags \ {"waiting"}]
  <2>1. /\ u \in Views /\ u.phase = v.phase /\ u.at = v.at /\ u.decision = v.decision
        /\ u.submission = v.submission /\ u.version = v.version /\ "waiting" \notin u.flags
    <3>1. v.flags \ {"waiting"} \in SUBSET Flags
      BY DEF Views
    <3> QED BY <3>1 DEF Views
  <2>2. w = WithTerminal(u, s) /\ s # "waiting_for_input"
    BY <1>1, OutcomesAre DEF Projected
  <2> HIDE DEF u
  <2> QED BY <1>1, <2>1, <2>2, WithTerminalIs
<1>2. CASE s \notin Outcomes
  <2>1. PICK fs : /\ fs \in SUBSET Flags /\ (\E f \in Flags : fs \subseteq {f})
                  /\ s = "waiting_for_input" => fs = {"waiting"}
                  /\ \/ w = [v EXCEPT !.flags = fs, !.terminal = "none", !.status = s]
                     \/ w = [v EXCEPT !.status = s] /\ s # "waiting_for_input"
    <3>1. CASE s \in {"queued", "running"}
      <4>1. w = [v EXCEPT !.flags = {"running"}, !.terminal = "none", !.status = s]
        BY <1>2, <3>1 DEF Projected
      <4>2. {"running"} \in SUBSET Flags /\ \E f \in Flags : {"running"} \subseteq {f}
        BY DEF Flags
      <4>3. s # "waiting_for_input"
        BY <3>1
      <4> QED BY <4>1, <4>2, <4>3, Zenon
    <3>2. CASE s = "waiting_for_input"
      <4>1. w = [v EXCEPT !.flags = {"waiting"}, !.terminal = "none", !.status = s]
        BY <1>2, <3>2 DEF Projected
      <4>2. {"waiting"} \in SUBSET Flags /\ \E f \in Flags : {"waiting"} \subseteq {f}
        BY DEF Flags
      <4> QED BY <4>1, <4>2, Zenon
    <3>3. CASE s \notin {"queued", "running", "waiting_for_input"}
      BY <1>2, <3>3 DEF Projected, Flags
    <3> QED BY <3>1, <3>2, <3>3
  <2>2. CASE w = [v EXCEPT !.flags = fs, !.terminal = "none", !.status = s]
    <3>1. w \in Views
      BY <2>1, <2>2 DEF Views
    <3>2. /\ w.flags = fs /\ w.phase = v.phase /\ w.at = v.at /\ w.decision = v.decision
          /\ w.submission = v.submission /\ w.version = v.version /\ w.terminal = "none"
      BY <2>2 DEF Views
    <3> QED BY <2>1, <3>1, <3>2 DEF OneFlag
  <2>3. CASE w = [v EXCEPT !.status = s] /\ s # "waiting_for_input"
    <3>1. w \in Views
      BY <2>3 DEF Views
    <3>2. /\ w.flags = v.flags /\ w.phase = v.phase /\ w.at = v.at /\ w.decision = v.decision
          /\ w.submission = v.submission /\ w.version = v.version /\ w.terminal = v.terminal
      BY <2>3 DEF Views
    <3> QED BY <2>3, <3>1, <3>2 DEF OneFlag
  <2> QED BY <2>1, <2>2, <2>3
<1> QED BY <1>1, <1>2

\* The script goes on elsewhere.
LEMMA MovesOn ==
    ASSUME NEW v \in Views, NEW a \in Places, NEW w, w = [v EXCEPT !.at = a]
    PROVE  /\ w \in Views /\ w.at = a /\ w.phase = v.phase /\ w.flags = v.flags
           /\ w.decision = v.decision /\ w.submission = v.submission /\ w.version = v.version
           /\ w.status = v.status /\ w.terminal = v.terminal
BY DEF Views

\* The script connects.
Opened(v, n) == [v EXCEPT !.at = "open", !.attempt = n]

LEMMA OpensIs ==
    ASSUME NEW v \in Views, v.flags = {"running"}, v.phase = "research", NEW n \in 0 .. Attempts
    PROVE  /\ Opened(v, n) \in Views /\ PlaceAgrees(Opened(v, n)) /\ Opened(v, n).at = "open"
           /\ Opened(v, n).decision = v.decision /\ Opened(v, n).terminal = v.terminal
<1> DEFINE w == Opened(v, n)
<1>1. "open" \in Places
  BY DEF Places
<1>2. /\ w \in Views /\ w.at = "open" /\ w.decision = v.decision /\ w.flags = {"running"}
      /\ w.phase = "research" /\ w.terminal = v.terminal
  BY <1>1 DEF Views, Opened
<1> HIDE DEF w
<1>3. PlaceAgrees(w)
  BY <1>2 DEF PlaceAgrees, OneFlag, Flags
<1> QED BY <1>2, <1>3 DEF w

-----------------------------------------------------------------------------
(***************************************************************************)
(* Steps of the script that leave the server alone.                        *)
(***************************************************************************)
LEMMA TroubleKept ==
    ASSUME ViewTyped, Trouble \/ UNCHANGED trouble
    PROVE  trouble' \in 0 .. MaxTrouble
BY ClientAssumption DEF ViewTyped, Trouble

LEMMA SubmitsKept ==
    ASSUME Submits(view), NEW v, v.at \notin Submitting,
           v.decision \in {view.decision, "none", decision.status}
    PROVE  Submits(v)
BY DEF Submits, Submitting

LEMMA ServerAlone ==
    ASSUME IInv, UNCHANGED streamVars, SessionAgrees(session'), Trouble \/ UNCHANGED trouble,
           \/ view' = view
           \/ view.at # "read" /\ view' \in Views /\ PlaceAgrees(view') /\ Submits(view')
    PROVE  IInv'
<1>1. view' \in Views /\ PlaceAgrees(view') /\ Submits(view')
  BY DEF IInv, ViewTyped
<1>2. ViewTyped'
  BY <1>1, TroubleKept DEF IInv, ViewTyped
<1>3. ServerTyped' /\ DecisionAgrees'
  BY DEF streamVars, IInv, ServerTyped, DecisionAgrees
<1>4. StreamAgrees'
  BY DEF streamVars, IInv, StreamAgrees, EndsCaughtUp
<1>5. Submits(view)'
  BY <1>1 DEF streamVars, Submits, Settled
<1>6. PlaceAgrees(view)'
  BY <1>1 DEF PlaceAgrees, OneFlag
<1>7. SessionAgrees(session)'
  BY DEF SessionAgrees, ListsAgree
<1> QED BY <1>2, <1>3, <1>4, <1>5, <1>6, <1>7 DEF IInv

LEMMA ViewAlone ==
    ASSUME IInv, UNCHANGED streamVars, UNCHANGED session, Trouble \/ UNCHANGED trouble,
           view.at # "read", view' \in Views, PlaceAgrees(view'), Submits(view')
    PROVE  IInv'
<1>1. SessionAgrees(session')
  BY DEF IInv
<1> QED BY <1>1, ServerAlone

\* Where the view follows.
LEMMA WhileFollowing ==
    ASSUME IInv, view.at \in Following
    PROVE  /\ view \in Views /\ view.flags = {"running"} /\ OneFlag(view)
           /\ view.phase = "research" /\ ServerTyped /\ Submits(view)
<1>1. view \in Views /\ PlaceAgrees(view)
  BY DEF IInv, ViewTyped
<1>2. view.phase = "research"
  BY <1>1 DEF PlaceAgrees, Views, Following
<1> QED BY <1>1, <1>2 DEF IInv, PlaceAgrees

\* The pause that the view acknowledges.
LEMMA PausedIs ==
    ASSUME IInv, OneFlag(view), view.phase = "research",
           NEW w, w = [Projected(Remembered(view), "waiting_for_input")
                         EXCEPT !.at = "load_decision"]
    PROVE  w \in Views /\ PlaceAgrees(w) /\ Submits(w) /\ w.terminal \in {view.terminal, "none"}
<1> DEFINE u == Remembered(view)
           p == Projected(u, "waiting_for_input")
<1>1. /\ view \in Views /\ u \in Views /\ OneFlag(u) /\ u.phase = "research"
      /\ u.decision = view.decision
  BY RememberedIs DEF IInv, ViewTyped, OneFlag
<1>2. "waiting_for_input" \in TaskStatuses \cup {"none"} /\ "load_decision" \in Places
  BY DEF TaskStatuses, Places
<1>3. /\ p \in Views /\ OneFlag(p) /\ p.phase = "research" /\ p.decision = view.decision
      /\ p.terminal = "none"
  <2>1. p \in Views /\ OneFlag(p) /\ p.phase = "research" /\ p.decision = view.decision
    BY <1>1, <1>2, ProjectedIs
  <2>2. p = [u EXCEPT !.flags = {"waiting"}, !.terminal = "none", !.status = "waiting_for_input"]
    BY OutcomesAre DEF Projected
  <2>3. p.terminal = "none"
    BY <1>1, <2>2 DEF Views
  <2> QED BY <2>1, <2>3
<1> HIDE DEF p, u
<1>4. w = [p EXCEPT !.at = "load_decision"]
  BY DEF p, u
<1>5. /\ w \in Views /\ w.at = "load_decision" /\ w.phase = "research" /\ w.flags = p.flags
      /\ w.decision = view.decision /\ w.terminal = "none"
  BY <1>2, <1>3, <1>4 DEF Views
<1>6. PlaceAgrees(w)
  BY <1>3, <1>5, RestsSomewhere DEF OneFlag, Following
<1>7. Submits(w)
  BY <1>5, SubmitsKept DEF IInv, Submitting
<1> QED BY <1>5, <1>6, <1>7

LEMMA FollowKeeps ==
    ASSUME IInv, Follow
    PROVE  IInv'
<1>1. /\ view.at = "follow" /\ UNCHANGED streamVars /\ UNCHANGED session
      /\ Trouble \/ UNCHANGED trouble
  BY DEF Follow, GetFails, clarifyVars
<1>2. /\ view \in Views /\ view.flags = {"running"} /\ OneFlag(view)
      /\ view.phase = "research" /\ ServerTyped /\ Submits(view)
  BY <1>1, WhileFollowing DEF Following
<1>3. 1 \in 0 .. Attempts
  BY DEF Attempts
<1> DEFINE u == Remembered(view)
<1>4. /\ u \in Views /\ u.flags = {"running"} /\ u.phase = "research"
      /\ u.decision = view.decision
  BY <1>2, RememberedIs
<1> HIDE DEF u
<1>5. \/ view' = Opened(view, 1) \/ view' = Opened(u, 1)
      \/ view' = [Projected(Remembered(view), "waiting_for_input") EXCEPT !.at = "load_decision"]
  BY DEF Follow, GetFails, u, Opened
<1>6. view' \in Views /\ PlaceAgrees(view') /\ Submits(view')
  <2>1. CASE view' = Opened(view, 1) \/ view' = Opened(u, 1)
    <3>1. /\ view' \in Views /\ PlaceAgrees(view') /\ view'.at = "open"
          /\ view'.decision = view.decision
      BY <1>2, <1>3, <1>4, <2>1, OpensIs
    <3> QED BY <1>2, <3>1, SubmitsKept DEF Submitting
  <2> QED BY <1>2, <1>5, <2>1, PausedIs
<1> QED BY <1>1, <1>6, ViewAlone

LEMMA CheckKeeps ==
    ASSUME IInv, Check
    PROVE  IInv'
<1>1. /\ view.at = "check" /\ UNCHANGED streamVars /\ UNCHANGED session
      /\ Trouble \/ UNCHANGED trouble
  BY DEF Check, GetFails, clarifyVars
<1>2. /\ view \in Views /\ view.flags = {"running"} /\ OneFlag(view)
      /\ view.phase = "research" /\ ServerTyped /\ Submits(view)
  BY <1>1, WhileFollowing DEF Following
<1> DEFINE again == IF view.attempt = Attempts THEN Lost(view)
                    ELSE Opened(view, view.attempt + 1)
           told == [view EXCEPT !.version = task.version]
<1>3. /\ again \in Views /\ PlaceAgrees(again) /\ again.at \in {"idle", "open"}
      /\ again.decision = view.decision
  <2>1. CASE view.attempt = Attempts
    BY <1>2, <2>1, LostIs
  <2>2. CASE view.attempt # Attempts
    <3>1. view.attempt + 1 \in 0 .. Attempts
      BY <1>2, <2>2 DEF Views, Attempts
    <3> QED BY <1>2, <2>2, <3>1, OpensIs
  <2> QED BY <2>1, <2>2
<1>4. /\ told \in Views /\ told.flags = {"running"} /\ told.phase = "research"
      /\ told.decision = view.decision /\ OneFlag(told) /\ told.at = "check"
  BY <1>1, <1>2 DEF Views, ServerTyped, OneFlag
<1>5. task.version \in Nat
  BY <1>2 DEF ServerTyped
<1> HIDE DEF again, told
<1>6. \/ view' = again \/ view' = [again EXCEPT !.version = task.version]
      \/ view' = [told EXCEPT !.at = "load"]
      \/ task.status \in Outcomes /\ view' = [WithTerminal(told, task.status) EXCEPT !.at = "idle"]
  BY DEF Check, GetFails, again, told, Opened
<1>7. view' \in Views /\ PlaceAgrees(view') /\ view'.at \notin Submitting
      /\ view'.decision = view.decision
  <2>1. CASE view' = again
    BY <1>3, <2>1 DEF Submitting
  <2>2. CASE view' = [again EXCEPT !.version = task.version]
    <3>1. /\ view' \in Views /\ view'.at = again.at /\ view'.flags = again.flags
          /\ view'.phase = again.phase /\ view'.decision = again.decision
      BY <1>3, <1>5, <2>2 DEF Views
    <3> QED BY <1>3, <3>1 DEF PlaceAgrees, OneFlag, Submitting
  <2>3. CASE view' = [told EXCEPT !.at = "load"]
    <3>1. "load" \in Places
      BY DEF Places
    <3>2. /\ view' \in Views /\ view'.at = "load" /\ view'.flags = told.flags
          /\ view'.phase = told.phase /\ view'.decision = told.decision
      BY <1>4, <2>3, <3>1, MovesOn
    <3> QED BY <1>4, <3>2, RestsSomewhere DEF OneFlag, Submitting, Following
  <2>4. CASE task.status \in Outcomes
             /\ view' = [WithTerminal(told, task.status) EXCEPT !.at = "idle"]
    <3> DEFINE t == WithTerminal(told, task.status)
    <3>1. t \in Views /\ OneFlag(t) /\ t.phase = "research" /\ t.decision = view.decision
      BY <1>4, <2>4, WithTerminalIs
    <3>2. "idle" \in Places
      BY DEF Places
    <3> HIDE DEF t
    <3>3. /\ view' \in Views /\ view'.at = "idle" /\ view'.flags = t.flags
          /\ view'.phase = t.phase /\ view'.decision = t.decision
      BY <2>4, <3>1, <3>2, MovesOn DEF t
    <3> QED BY <3>1, <3>3, RestsSomewhere DEF OneFlag, Submitting, Following
  <2> QED BY <1>6, <2>1, <2>2, <2>3, <2>4
<1>8. Submits(view')
  BY <1>2, <1>7, SubmitsKept
<1> QED BY <1>1, <1>7, <1>8, ViewAlone

\* Away from the dialogue, and the two ways to stop there.
LEMMA WhileResearching ==
    ASSUME IInv, view.phase = "research" \/ view.at \notin {"idle", "calling"}
    PROVE  /\ view \in Views /\ OneFlag(view) /\ view.phase = "research" /\ ServerTyped
           /\ Submits(view)
<1>1. view \in Views /\ PlaceAgrees(view)
  BY DEF IInv, ViewTyped
<1>2. view.phase = "research"
  BY <1>1 DEF PlaceAgrees, Views
<1> QED BY <1>1, <1>2 DEF IInv, PlaceAgrees

LEMMA IdleIs ==
    ASSUME NEW v \in Views, OneFlag(v), v.phase = "research", NEW w, w = [v EXCEPT !.at = "idle"]
    PROVE  /\ w \in Views /\ PlaceAgrees(w) /\ w.at = "idle" /\ w.decision = v.decision
           /\ w.submission = v.submission /\ w.terminal = v.terminal
<1>1. "idle" \in Places
  BY DEF Places
<1>2. /\ w \in Views /\ w.at = "idle" /\ w.decision = v.decision /\ w.flags = v.flags
      /\ w.submission = v.submission /\ w.terminal = v.terminal /\ w.phase = v.phase
  BY <1>1, MovesOn
<1> QED BY <1>2 DEF PlaceAgrees, OneFlag, Following

\* A script that stops here and changes nothing of its decision.
LEMMA StopsHere ==
    ASSUME IInv, view.phase = "research" \/ view.at \notin {"idle", "calling"},
           NEW v \in {view, Remembered(view)}, NEW w, w = [v EXCEPT !.at = "idle"]
    PROVE  w \in Views /\ PlaceAgrees(w) /\ Submits(w)
<1>1. /\ view \in Views /\ OneFlag(view) /\ view.phase = "research" /\ ServerTyped
      /\ Submits(view)
  BY WhileResearching
<1>2. v \in Views /\ OneFlag(v) /\ v.phase = "research" /\ v.decision = view.decision
  BY <1>1, RememberedIs DEF OneFlag
<1>3. w \in Views /\ PlaceAgrees(w) /\ w.at = "idle" /\ w.decision = view.decision
  BY <1>2, IdleIs
<1> QED BY <1>1, <1>3, SubmitsKept DEF Submitting

LEMMA LoadKeeps ==
    ASSUME IInv, Load
    PROVE  IInv'
<1>1. /\ view.at = "load" /\ UNCHANGED streamVars /\ UNCHANGED session
      /\ Trouble \/ UNCHANGED trouble
  BY DEF Load, GetFails, clarifyVars
<1>2. /\ view \in Views /\ OneFlag(view) /\ view.phase = "research" /\ ServerTyped
      /\ Submits(view)
  BY <1>1, WhileResearching
<1> DEFINE u == Remembered(view)
           declined(v) == IF "running" \in v.flags THEN Lost(v) ELSE [v EXCEPT !.at = "idle"]
<1>3. /\ u \in Views /\ OneFlag(u) /\ u.phase = "research" /\ u.decision = view.decision
  BY <1>2, RememberedIs DEF OneFlag
<1>4. ASSUME NEW v \in Views, OneFlag(v), v.phase = "research", v.decision = view.decision,
             NEW w, w = declined(v)
      PROVE  w \in Views /\ PlaceAgrees(w) /\ Submits(w)
  <2>1. CASE "running" \in v.flags
    <3>1. v.flags = {"running"}
      BY <1>4, <2>1 DEF OneFlag
    <3>2. w \in Views /\ PlaceAgrees(w) /\ w.at = "idle" /\ w.decision = view.decision
      BY <1>4, <2>1, <3>1, LostIs
    <3> QED BY <1>2, <3>2, SubmitsKept DEF Submitting
  <2>2. CASE "running" \notin v.flags
    <3>1. w \in Views /\ PlaceAgrees(w) /\ w.at = "idle" /\ w.decision = view.decision
      BY <1>4, <2>2, IdleIs
    <3> QED BY <1>2, <3>1, SubmitsKept DEF Submitting
  <2> QED BY <2>1, <2>2
<1>5. \/ view' = declined(u) \/ view' = declined(view)
      \/ view' = [Projected(Remembered(view), "waiting_for_input") EXCEPT !.at = "load_decision"]
  BY DEF Load, GetFails
<1> HIDE DEF u, declined
<1>6. view' \in Views /\ PlaceAgrees(view') /\ Submits(view')
  BY <1>2, <1>3, <1>4, <1>5, PausedIs
<1> QED BY <1>1, <1>6, ViewAlone

LEMMA LoadDecisionKeeps ==
    ASSUME IInv, LoadDecision
    PROVE  IInv'
<1>1. /\ view.at = "load_decision" /\ UNCHANGED streamVars /\ UNCHANGED session
      /\ Trouble \/ UNCHANGED trouble
  BY DEF LoadDecision, GetFails, clarifyVars
<1>2. /\ view \in Views /\ OneFlag(view) /\ view.phase = "research" /\ ServerTyped
      /\ Submits(view)
  BY <1>1, WhileResearching
<1>3. PICK d \in {decision.status, "none"} : view' = [view EXCEPT !.at = "idle", !.decision = d]
  BY DEF LoadDecision, GetFails
<1>4. /\ view' \in Views /\ view'.at = "idle" /\ view'.decision = d /\ view'.flags = view.flags
      /\ view'.phase = "research"
  <2>1. d \in Decisions /\ "idle" \in Places
    BY <1>2 DEF ServerTyped, DecisionRows, Decisions, Places
  <2> QED BY <1>2, <1>3, <2>1 DEF Views
<1>5. PlaceAgrees(view')
  BY <1>2, <1>4, RestsSomewhere DEF OneFlag, Following
<1>6. Submits(view')
  BY <1>2, <1>4, SubmitsKept DEF Submitting
<1> QED BY <1>1, <1>4, <1>5, <1>6, ViewAlone

LEMMA ClickRefreshKeeps ==
    ASSUME IInv, ClickRefresh
    PROVE  IInv'
<1>1. /\ view.at = "idle" /\ view.phase = "research" /\ UNCHANGED streamVars
      /\ UNCHANGED session /\ UNCHANGED trouble /\ view' = [view EXCEPT !.at = "load"]
  BY DEF ClickRefresh, Panel, clarifyVars
<1>2. view \in Views /\ OneFlag(view) /\ Submits(view)
  BY <1>1, WhileResearching
<1>3. "load" \in Places
  BY DEF Places
<1>4. /\ view' \in Views /\ view'.at = "load" /\ view'.decision = view.decision
      /\ view'.flags = view.flags /\ view'.phase = "research"
  BY <1>1, <1>2, <1>3, MovesOn
<1>5. PlaceAgrees(view')
  BY <1>2, <1>4, RestsSomewhere DEF OneFlag, Following
<1>6. Submits(view')
  BY <1>2, <1>4, SubmitsKept DEF Submitting
<1> QED BY <1>1, <1>4, <1>5, <1>6, ViewAlone

\* The panel offers a choice of a decision that was pending.
LEMMA ClickAnswerKeeps ==
    ASSUME IInv, ClickAnswer
    PROVE  IInv'
<1>1. /\ view.at = "idle" /\ view.phase = "research" /\ UNCHANGED streamVars
      /\ UNCHANGED session /\ UNCHANGED trouble /\ view.decision = "pending"
  BY DEF ClickAnswer, Panel, clarifyVars
<1>2. PICK b \in Bodies : view' = [view EXCEPT !.at = "submit", !.submission = b]
  BY DEF ClickAnswer
<1>3. view \in Views /\ OneFlag(view) /\ Submits(view)
  BY <1>1, WhileResearching
<1>4. "submit" \in Places
  BY DEF Places
<1>5. /\ view' \in Views /\ view'.at = "submit" /\ view'.decision = "pending"
      /\ view'.flags = view.flags /\ view'.phase = "research" /\ view'.submission = b
  BY <1>1, <1>2, <1>3, <1>4 DEF Views
<1>6. PlaceAgrees(view')
  BY <1>3, <1>5, RestsSomewhere DEF OneFlag, Following
<1>7. Submits(view')
  BY <1>1, <1>3, <1>5 DEF Submits, Submitting
<1> QED BY <1>1, <1>5, <1>6, <1>7, ViewAlone

LEMMA SubmitTaskKeeps ==
    ASSUME IInv, SubmitTask \/ ConflictTask
    PROVE  IInv'
<1>1. /\ view.at \in {"submit", "conflict"} /\ UNCHANGED streamVars /\ UNCHANGED session
      /\ Trouble \/ UNCHANGED trouble
  BY DEF SubmitTask, ConflictTask, NetworkError, GetFails, clarifyVars
<1>2. /\ view \in Views /\ OneFlag(view) /\ view.phase = "research" /\ ServerTyped
      /\ Submits(view)
  BY <1>1, WhileResearching
<1> DEFINE u == Remembered(view)
<1>3. /\ u \in Views /\ OneFlag(u) /\ u.phase = "research" /\ u.decision = view.decision
      /\ u.submission = view.submission /\ u.version = task.version /\ u.status = task.status
  BY <1>2, RememberedIs DEF OneFlag
<1> HIDE DEF u
<1>4. \/ view' = [view EXCEPT !.at = "idle"]
      \/ view.at = "submit" /\ view' = [u EXCEPT !.at = "submit_decision"]
      \/ view.at = "conflict" /\ view' = [u EXCEPT !.at = "conflict_decision"]
  BY DEF SubmitTask, ConflictTask, NetworkError, GetFails, u
<1>5. CASE view' = [view EXCEPT !.at = "idle"]
  BY <1>1, <1>2, <1>5, StopsHere, ViewAlone
<1>6. ASSUME NEW a \in {"submit_decision", "conflict_decision"}, view' = [u EXCEPT !.at = a],
             a = "submit_decision" => view.at = "submit",
             a = "conflict_decision" => view.at = "conflict"
      PROVE  IInv'
  <2>1. a \in Places
    BY DEF Places
  <2>2. /\ view' \in Views /\ view'.at = a /\ view'.phase = "research" /\ view'.flags = u.flags
        /\ view'.decision = view.decision /\ view'.submission = view.submission
        /\ view'.version = task.version /\ view'.status = task.status
    BY <1>3, <1>6, <2>1, MovesOn
  <2>3. PlaceAgrees(view')
    BY <1>3, <2>2, RestsSomewhere DEF OneFlag, Following
  <2>4. Submits(view')
    BY <1>1, <1>2, <1>6, <2>2 DEF Submits, Submitting
  <2> QED BY <1>1, <2>2, <2>3, <2>4, ViewAlone
<1> QED BY <1>4, <1>5, <1>6

\* A conflict takes the answer back and shows the decision that was read.
LEMMA ConflictedIs ==
    ASSUME IInv, NEW v \in Views, OneFlag(v), v.phase = "research", NEW w, w = Conflicted(v)
    PROVE  /\ w \in Views /\ PlaceAgrees(w) /\ w.at \in {"follow", "idle"}
           /\ w.decision = decision.status
           /\ w.terminal # v.terminal /\ w.terminal # "none" => w.terminal = v.status
<1> DEFINE u == [v EXCEPT !.submission = "none", !.decision = decision.status]
           p == Projected(u, v.status)
<1>1. /\ u \in Views /\ OneFlag(u) /\ u.phase = "research" /\ u.decision = decision.status
      /\ u.terminal = v.terminal
  BY DEF IInv, ServerTyped, DecisionRows, Views, OneFlag
<1>2. v.status \in TaskStatuses \cup {"none"}
  BY DEF Views
<1> HIDE DEF u
<1>3. /\ p \in Views /\ OneFlag(p) /\ p.phase = "research" /\ p.decision = decision.status
      /\ p.terminal # v.terminal /\ p.terminal # "none" => p.terminal = v.status
  BY <1>1, <1>2, ProjectedIs
<1> HIDE DEF p
<1>4. w = Rerun(p)
  BY DEF Conflicted, p, u
<1> QED BY <1>3, <1>4, RerunIs

LEMMA SubmitDecisionKeeps ==
    ASSUME IInv, SubmitDecision \/ ConflictDecision
    PROVE  IInv'
<1>1. /\ view.at \in {"submit_decision", "conflict_decision"} /\ UNCHANGED streamVars
      /\ UNCHANGED session
      /\ Trouble \/ UNCHANGED trouble
  BY DEF SubmitDecision, ConflictDecision, NetworkError, GetFails, clarifyVars
<1>2. /\ view \in Views /\ OneFlag(view) /\ view.phase = "research" /\ ServerTyped
      /\ Submits(view)
  BY <1>1, WhileResearching
<1>3. CASE view' = [view EXCEPT !.at = "idle"]
  BY <1>1, <1>2, <1>3, StopsHere, ViewAlone
<1>4. CASE view' = Conflicted(view)
  <2>1. /\ view' \in Views /\ PlaceAgrees(view') /\ view'.at \in {"follow", "idle"}
        /\ view'.decision = decision.status
    BY <1>2, <1>4, ConflictedIs
  <2>2. Submits(view')
    BY <1>2, <2>1, SubmitsKept DEF Submitting
  <2> QED BY <1>1, <2>1, <2>2, ViewAlone
<1>5. CASE /\ view.at = "submit_decision" /\ view' = [view EXCEPT !.at = "post"]
           /\ decision.status = "pending" => view.status = "waiting_for_input"
  <2>1. "post" \in Places
    BY DEF Places
  <2>2. /\ view' \in Views /\ view'.at = "post" /\ view'.phase = "research"
        /\ view'.flags = view.flags /\ view'.decision = view.decision
        /\ view'.submission = view.submission /\ view'.version = view.version
        /\ view'.status = view.status
    BY <1>2, <1>5, <2>1, MovesOn
  <2>3. PlaceAgrees(view')
    BY <1>2, <2>2, RestsSomewhere DEF OneFlag, Following
  <2>4. Submits(view')
    BY <1>2, <1>5, <2>2 DEF Submits, Submitting
  <2> QED BY <1>1, <2>2, <2>3, <2>4, ViewAlone
<1> QED BY <1>3, <1>4, <1>5 DEF SubmitDecision, ConflictDecision, NetworkError, GetFails

LEMMA ClickReconnectKeeps ==
    ASSUME IInv, ClickReconnect
    PROVE  IInv'
<1> DEFINE fs == (view.flags \ {"lost"}) \cup {"running"}
           u == [view EXCEPT !.flags = fs]
<1>1. /\ view.at = "idle" /\ view.phase = "research" /\ UNCHANGED streamVars
      /\ UNCHANGED session /\ UNCHANGED trouble /\ view' = Rerun(u) /\ "lost" \in view.flags
  BY DEF ClickReconnect, Resting, clarifyVars
<1>2. view \in Views /\ OneFlag(view) /\ Submits(view)
  BY <1>1, WhileResearching
<1>3. fs = {"running"} /\ fs \in SUBSET Flags
  BY <1>1, <1>2 DEF OneFlag, Flags
<1> HIDE DEF fs
<1>4. u \in Views /\ OneFlag(u) /\ u.phase = "research" /\ u.decision = view.decision
  BY <1>1, <1>2, <1>3 DEF Views, OneFlag, Flags
<1> HIDE DEF u
<1>5. /\ view' \in Views /\ PlaceAgrees(view') /\ view'.at \in {"follow", "idle"}
      /\ view'.decision = view.decision
  BY <1>1, <1>4, RerunIs
<1>6. Submits(view')
  BY <1>2, <1>5, SubmitsKept DEF Submitting
<1> QED BY <1>1, <1>5, <1>6, ViewAlone

-----------------------------------------------------------------------------
(***************************************************************************)
(* Steps of the clarification dialogue.                                    *)
(***************************************************************************)
LEMMA LearntIs ==
    ASSUME NEW x \in Sessions, ListsAgree(x), NEW new \in SUBSET Fields
    PROVE  SessionAgrees(Learnt(x, new)) /\ Learnt(x, new).live = x.live
<1> DEFINE k == x.known \cup new
           f == x.filled \cup (new \ x.known)
           m == x.missing \ (new \ x.known)
<1>1. k \in SUBSET Fields /\ f \in SUBSET Fields /\ m \in SUBSET Fields
  BY DEF Sessions
<1>2. x.live => f = k /\ m = Fields \ k
  BY DEF ListsAgree
<1>3. Learnt(x, new) = [x EXCEPT !.known = k, !.filled = f, !.missing = m]
  BY DEF Learnt
<1> HIDE DEF k, f, m
<1>4. /\ Learnt(x, new) \in Sessions /\ Learnt(x, new).known = k /\ Learnt(x, new).filled = f
      /\ Learnt(x, new).missing = m /\ Learnt(x, new).live = x.live
  BY <1>1, <1>3 DEF Sessions
<1> QED BY <1>2, <1>4 DEF SessionAgrees, ListsAgree

\* A route is entered with a session whose lists agree.
LEMMA EnteredIs ==
    ASSUME NEW x \in Sessions, ListsAgree(x), NEW s, NEW r, Entered(s, r, x)
    PROVE  SessionAgrees(session')
<1>1. Defaults \in SUBSET Fields
  BY DEF Defaults, Fields
<1> QED BY <1>1, LearntIs DEF Entered, SessionAgrees

LEMMA AppendedIs ==
    ASSUME NEW x \in Sessions, ListsAgree(x), NEW s, Appended(s, x)
    PROVE  SessionAgrees(session')
<1> DEFINE y == [x EXCEPT !.messages = @ + 1]
<1>1. session' = x \/ session' = y
  BY DEF Appended
<1>2. /\ y \in Sessions /\ y.known = x.known /\ y.filled = x.filled /\ y.missing = x.missing
      /\ y.live = x.live
  BY DEF Sessions
<1> QED BY <1>1, <1>2 DEF SessionAgrees, ListsAgree

LEMMA NoSessionAgrees == SessionAgrees(NoSession)
BY DEF NoSession, SessionAgrees, Sessions, ListsAgree, Fields

LEMMA RoutesKeep ==
    ASSUME SessionAgrees(session), NEW s \in Slots, Start(s) \/ Message(s) \/ Finalize(s)
    PROVE  SessionAgrees(session')
<1>1. CASE Start(s)
  <2>1. PICK techs \in {{}, {"candidate_techs"}} :
          LET x == [NoSession EXCEPT !.live = TRUE, !.known = techs, !.filled = techs,
                                     !.missing = Fields \ techs, !.unknown = techs = {},
                                     !.messages = 1]
          IN  session' = IF Decide(x) = "confirm" THEN Learnt(x, Defaults) ELSE x
    BY <1>1 DEF Start
  <2> DEFINE y == [NoSession EXCEPT !.live = TRUE, !.known = techs, !.filled = techs,
                                    !.missing = Fields \ techs, !.unknown = techs = {},
                                    !.messages = 1]
  <2>2. techs \in SUBSET Fields /\ (techs = {}) \in BOOLEAN
    BY DEF Fields
  <2>3. y \in Sessions /\ y.known = techs /\ y.filled = techs /\ y.missing = Fields \ techs
    BY <2>2 DEF NoSession, Sessions
  <2>4. ListsAgree(y)
    BY <2>3 DEF ListsAgree
  <2>5. Defaults \in SUBSET Fields
    BY DEF Defaults, Fields
  <2>6. session' = Learnt(y, Defaults) \/ session' = y
    BY <2>1
  <2> HIDE DEF y
  <2> QED BY <2>3, <2>4, <2>5, <2>6, LearntIs DEF SessionAgrees
<1>2. CASE Message(s)
  <2>1. CASE session' = NoSession \/ session' = session
    BY <2>1, NoSessionAgrees
  <2>2. CASE Entered(s, "message",
                     [session EXCEPT !.messages = @ + 1,
                                     !.rounds = IF @ < 3 THEN @ + 1 ELSE @])
    <3> DEFINE n == session.rounds
               r == IF n < 3 THEN n + 1 ELSE n
               m == session.messages + 1
               y == [session EXCEPT !.messages = m, !.rounds = r]
    <3>0. session \in Sessions /\ r \in Nat /\ m \in Nat
      BY DEF SessionAgrees, Sessions
    <3> HIDE DEF r, m
    <3>1. /\ y \in Sessions /\ y.known = session.known /\ y.filled = session.filled
          /\ y.missing = session.missing /\ y.live = session.live
      BY <3>0 DEF Sessions
    <3>2. ListsAgree(y)
      BY <3>1 DEF SessionAgrees, ListsAgree
    <3> HIDE DEF y
    <3>3. Entered(s, "message", y)
      BY <2>2 DEF y, r, m
    <3> QED BY <3>1, <3>2, <3>3, EnteredIs
  <2> QED BY <1>2, <2>1, <2>2 DEF Message
<1>3. CASE Finalize(s)
  <2> DEFINE k == session.known \cup Defaults
             y == [session EXCEPT !.known = k, !.filled = k, !.missing = Fields \ k]
  <2>1. k \in SUBSET Fields /\ Fields \ k \in SUBSET Fields
    BY DEF SessionAgrees, Sessions, Defaults, Fields
  <2>2. SoftGate(session) = y
    BY DEF SoftGate
  <2> HIDE DEF k
  <2>3. /\ y \in Sessions /\ y.known = k /\ y.filled = k /\ y.missing = Fields \ k
    BY <2>1 DEF SessionAgrees, Sessions
  <2>4. SessionAgrees(SoftGate(session))
    BY <2>2, <2>3 DEF SessionAgrees, ListsAgree
  <2> QED BY <1>3, <2>4, NoSessionAgrees DEF Finalize
<1> QED BY <1>1, <1>2, <1>3

LEMMA ModelReturnsKeeps ==
    ASSUME SessionAgrees(session), NEW s \in Slots, ModelReturns(s)
    PROVE  SessionAgrees(session')
<1>1. CASE ModelAnswers(s)
  <2>1. PICK new \in SUBSET Fields, unknown \in BOOLEAN :
          Appended(s, IF session.live THEN [Learnt(session, new) EXCEPT !.unknown = unknown]
                                      ELSE session)
    BY <1>1 DEF ModelAnswers
  <2> DEFINE x == Learnt(session, new)
             y == [x EXCEPT !.unknown = unknown]
  <2>2. x \in Sessions /\ ListsAgree(x)
    BY LearntIs DEF SessionAgrees
  <2> HIDE DEF x
  <2>3. /\ y \in Sessions /\ y.known = x.known /\ y.filled = x.filled /\ y.missing = x.missing
        /\ y.live = x.live
    BY <2>2 DEF Sessions
  <2>4. ListsAgree(y)
    BY <2>2, <2>3 DEF ListsAgree
  <2>5. Appended(s, y) \/ Appended(s, session)
    BY <2>1 DEF x
  <2> HIDE DEF y
  <2> QED BY <2>3, <2>4, <2>5, AppendedIs DEF SessionAgrees
<1>2. CASE ModelFails(s) \/ Concluded(s)
  BY <1>2, AppendedIs DEF ModelFails, Concluded, SessionAgrees
<1> QED BY <1>1, <1>2 DEF ModelReturns

LEMMA ServeClarifyKeeps ==
    ASSUME IInv, ServeClarify \/ Unheard
    PROVE  IInv'
<1>1. UNCHANGED streamVars /\ UNCHANGED trouble /\ view' = view
  BY DEF ServeClarify, Unheard
<1>2. SessionAgrees(session)
  BY DEF IInv
<1>3. SessionAgrees(session')
  <2>1. CASE Elapse
    <3> DEFINE y == [session EXCEPT !.idle = TRUE]
    <3>1. /\ y \in Sessions /\ y.known = session.known /\ y.filled = session.filled
          /\ y.missing = session.missing /\ y.live = session.live
      BY <1>2 DEF SessionAgrees, Sessions
    <3>2. session' = y
      BY <2>1 DEF Elapse
    <3> QED BY <1>2, <3>1, <3>2 DEF SessionAgrees, ListsAgree
  <2>2. CASE \E s \in Slots : ModelReturns(s)
    BY <1>2, <2>2, ModelReturnsKeeps
  <2>3. CASE Unheard
    BY <1>2, <2>3 DEF Unheard
  <2> QED BY <2>1, <2>2, <2>3 DEF ServeClarify
<1> QED BY <1>1, <1>3, ServerAlone

LEMMA AskKeeps ==
    ASSUME IInv, Ask
    PROVE  IInv'
<1>1. /\ view.phase = "clarify" /\ view.at = "idle" /\ UNCHANGED streamVars
      /\ UNCHANGED trouble
  BY DEF Ask
<1>2. PICK s \in Slots : /\ Start(s) \/ Message(s) \/ Finalize(s)
                         /\ view' = [view EXCEPT !.at = "calling", !.call = s]
  BY DEF Ask, FreeSlots
<1>3. SessionAgrees(session')
  BY <1>2, RoutesKeep DEF IInv
<1>4. view \in Views /\ PlaceAgrees(view) /\ "calling" \in Places
  BY DEF IInv, ViewTyped, Places
<1>5. /\ view' \in Views /\ view'.at = "calling" /\ view'.phase = view.phase
      /\ view'.flags = view.flags /\ view'.decision = view.decision
  BY <1>2, <1>4 DEF Views
<1>6. PlaceAgrees(view')
  BY <1>1, <1>4, <1>5 DEF PlaceAgrees, OneFlag, Following
<1>7. Submits(view')
  BY <1>5, SubmitsKept DEF IInv, Submitting
<1> QED BY <1>1, <1>3, <1>5, <1>6, <1>7, ServerAlone

LEMMA HearAnswerKeeps ==
    ASSUME IInv, HearAnswer \/ GiveUp
    PROVE  IInv'
<1>1. /\ view.at = "calling" /\ UNCHANGED streamVars /\ UNCHANGED session
      /\ Trouble \/ UNCHANGED trouble
  BY DEF HearAnswer, GiveUp, clarifyVars
<1> DEFINE u == [view EXCEPT !.at = "idle", !.call = NoSlot]
<1>2. \/ view' = u \/ view' = [u EXCEPT !.phase = "research", !.at = "start"]
      \/ view' = [u EXCEPT !.sid = TRUE]
  BY DEF HearAnswer, GiveUp
<1>3. view \in Views /\ PlaceAgrees(view) /\ {"idle", "start"} \subseteq Places
  BY DEF IInv, ViewTyped, Places
<1>4. /\ u \in Views /\ u.at = "idle" /\ u.phase = view.phase /\ u.flags = view.flags
      /\ u.decision = view.decision
  BY <1>3 DEF Views
<1> HIDE DEF u
<1>5. /\ view' \in Views /\ view'.flags = view.flags /\ view'.decision = view.decision
      /\ \/ view'.at = "idle" /\ view'.phase = view.phase
         \/ view'.at = "start" /\ view'.phase = "research"
  <2>1. CASE view' = u
    BY <1>4, <2>1
  <2>2. CASE view' = [u EXCEPT !.phase = "research", !.at = "start"]
    BY <1>3, <1>4, <2>2 DEF Views
  <2>3. CASE view' = [u EXCEPT !.sid = TRUE]
    BY <1>4, <2>3 DEF Views
  <2> QED BY <1>2, <2>1, <2>2, <2>3
<1>6. view.decision = "none"
  BY <1>1, <1>3 DEF PlaceAgrees
<1>7. PlaceAgrees(view')
  BY <1>3, <1>5, <1>6 DEF PlaceAgrees, OneFlag, Following
<1>8. Submits(view')
  BY <1>5, SubmitsKept DEF IInv, Submitting
<1> QED BY <1>1, <1>5, <1>7, <1>8, ViewAlone

-----------------------------------------------------------------------------
(***************************************************************************)
(* Steps of the stream.                                                    *)
(***************************************************************************)
LEMMA StreamAlone ==
    ASSUME IInv, UNCHANGED <<task, log, decision>>, UNCHANGED session,
           Trouble \/ UNCHANGED trouble, view' \in Views, PlaceAgrees(view'), Submits(view'),
           StreamAgrees', stream' \in Streams
    PROVE  IInv'
<1>1. ViewTyped'
  BY TroubleKept DEF IInv, ViewTyped
<1>2. ServerTyped' /\ DecisionAgrees'
  BY DEF IInv, ServerTyped, DecisionAgrees
<1>3. Submits(view)'
  BY DEF Submits, Settled
<1>4. PlaceAgrees(view)'
  BY DEF PlaceAgrees, OneFlag
<1>5. SessionAgrees(session)'
  BY DEF IInv, SessionAgrees, ListsAgree
<1> QED BY <1>1, <1>2, <1>3, <1>4, <1>5 DEF IInv

\* A view that hangs up goes on at rest.
LEMMA HungUp ==
    ASSUME IInv, UNCHANGED <<task, log, decision>>, UNCHANGED session,
           Trouble \/ UNCHANGED trouble, NEW v \in Views, Hung(v), PlaceAgrees(v), Submits(v)
    PROVE  IInv'
<1>1. stream' = NoStream /\ view' = v
  BY DEF Hung
<1>2. stream' \in Streams /\ stream'.stage = "closed"
  BY <1>1 DEF NoStream, Streams, TaskStatuses
<1>3. StreamAgrees'
  BY <1>2 DEF StreamAgrees, EndsCaughtUp
<1> QED BY <1>1, <1>2, <1>3, StreamAlone

LEMMA ConnectKeeps ==
    ASSUME IInv, Connect
    PROVE  IInv'
<1>1. view.at = "open" /\ UNCHANGED <<task, log, decision>> /\ UNCHANGED session
  BY DEF Connect, clarifyVars
<1>2. /\ view \in Views /\ view.flags = {"running"} /\ OneFlag(view)
      /\ view.phase = "research" /\ ServerTyped /\ Submits(view)
  BY <1>1, WhileFollowing DEF Following
<1>3. CASE Open(view.last) /\ view' = [view EXCEPT !.at = "read"] /\ UNCHANGED trouble
  <2>1. view.last \in Nat /\ "read" \in Places
    BY <1>2 DEF Views, Places
  <2>2. stream' \in Streams /\ stream'.stage = "list"
    BY <1>3, <2>1 DEF Open, NoStream, Streams, TaskStatuses
  <2>3. /\ view' \in Views /\ view'.at = "read" /\ view'.flags = view.flags
        /\ view'.phase = view.phase /\ view'.decision = view.decision
    BY <1>2, <1>3, <2>1, MovesOn
  <2>4. StreamAgrees'
    BY <2>2, <2>3 DEF StreamAgrees, EndsCaughtUp
  <2>5. PlaceAgrees(view')
    BY <1>2, <2>3 DEF PlaceAgrees, OneFlag
  <2>6. Submits(view')
    BY <1>2, <2>3, SubmitsKept DEF Submitting
  <2> QED BY <1>1, <1>3, <2>2, <2>3, <2>4, <2>5, <2>6, StreamAlone
<1>4. CASE Trouble /\ view' = Lost(view) /\ UNCHANGED stream
  <2>1. /\ view' \in Views /\ PlaceAgrees(view') /\ view'.at = "idle"
        /\ view'.decision = view.decision
    BY <1>2, <1>4, LostIs
  <2>2. Submits(view')
    BY <1>2, <2>1, SubmitsKept DEF Submitting
  <2>3. UNCHANGED streamVars
    BY <1>1, <1>4 DEF streamVars
  <2> QED BY <1>1, <1>4, <2>1, <2>2, <2>3, ViewAlone
<1> QED BY <1>3, <1>4 DEF Connect

\* A view that reads, and has read one more frame.
LEMMA SeenIs ==
    ASSUME IInv, view.at = "read", NEW w, w = [view EXCEPT !.last = @ + 1]
    PROVE  /\ w \in Views /\ w.at = "read" /\ w.flags = {"running"} /\ w.phase = "research"
           /\ w.decision = view.decision /\ w.terminal = view.terminal
<1>1. view \in Views /\ view.flags = {"running"} /\ view.phase = "research"
  BY WhileFollowing DEF Following
<1> QED BY <1>1 DEF Views

LEMMA ReadsOn ==
    ASSUME IInv, view.at = "read", UNCHANGED streamVars, UNCHANGED session,
           Trouble \/ UNCHANGED trouble, view' \in Views, view'.at = "read",
           view'.flags = {"running"}, view'.phase = "research", view'.decision = view.decision
    PROVE  IInv'
<1>1. PlaceAgrees(view')
  BY DEF PlaceAgrees, OneFlag, Flags
<1>2. Submits(view')
  BY SubmitsKept DEF IInv, Submitting
<1>3. StreamAgrees' /\ stream' \in Streams
  BY DEF IInv, StreamAgrees, EndsCaughtUp, streamVars, ServerTyped
<1>4. UNCHANGED <<task, log, decision>>
  BY DEF streamVars
<1> QED BY <1>1, <1>2, <1>3, <1>4, StreamAlone

LEMMA ReadFrameKeeps ==
    ASSUME IInv, ReadFrame
    PROVE  IInv'
<1> DEFINE seen == [view EXCEPT !.last = @ + 1]
           told == [seen EXCEPT !.version = task.version]
           t    == WithTerminal(told, task.status)
<1>1. view.at = "read" /\ UNCHANGED <<task, log, decision>> /\ UNCHANGED session
  BY DEF ReadFrame, clarifyVars
<1>2. /\ seen \in Views /\ seen.at = "read" /\ seen.flags = {"running"}
      /\ seen.phase = "research" /\ seen.decision = view.decision
  BY <1>1, SeenIs
<1>3. task.version \in Nat /\ Submits(view)
  BY DEF IInv, ServerTyped
<1> HIDE DEF seen
<1>4. /\ told \in Views /\ told.at = "read" /\ told.flags = {"running"}
      /\ told.phase = "research" /\ told.decision = view.decision
  BY <1>2, <1>3 DEF Views
<1>5. \/ Hung([seen EXCEPT !.at = "load"]) /\ UNCHANGED trouble
      \/ task.status \in Outcomes /\ Hung([t EXCEPT !.at = "idle"]) /\ UNCHANGED trouble
      \/ view' = told /\ UNCHANGED <<stream, trouble>>
      \/ view' = seen /\ UNCHANGED stream /\ (Trouble \/ UNCHANGED trouble)
  BY DEF ReadFrame, GetFails, Outcome, seen
<1> HIDE DEF told
<1>6. {"load", "idle"} \subseteq Places
  BY DEF Places
<1>7. CASE Hung([seen EXCEPT !.at = "load"]) /\ UNCHANGED trouble
  <2> DEFINE w == [seen EXCEPT !.at = "load"]
  <2>1. /\ w \in Views /\ w.at = "load" /\ w.flags = {"running"} /\ w.phase = "research"
        /\ w.decision = view.decision
    BY <1>2, <1>6, MovesOn
  <2> HIDE DEF w
  <2>2. PlaceAgrees(w)
    BY <2>1, RestsSomewhere DEF OneFlag, Flags, Following
  <2>3. Submits(w)
    BY <1>3, <2>1, SubmitsKept DEF Submitting
  <2>4. Hung(w) /\ UNCHANGED trouble
    BY <1>7 DEF w
  <2> QED BY <1>1, <2>1, <2>2, <2>3, <2>4, HungUp
<1>8. CASE task.status \in Outcomes /\ Hung([t EXCEPT !.at = "idle"]) /\ UNCHANGED trouble
  <2> DEFINE w == [t EXCEPT !.at = "idle"]
  <2>1. t \in Views /\ OneFlag(t) /\ t.phase = "research" /\ t.decision = view.decision
    BY <1>4, <1>8, WithTerminalIs
  <2> HIDE DEF t
  <2>2. w \in Views /\ PlaceAgrees(w) /\ w.at = "idle" /\ w.decision = view.decision
    BY <2>1, IdleIs
  <2> HIDE DEF w
  <2>3. Submits(w)
    BY <1>3, <2>2, SubmitsKept DEF Submitting
  <2>4. Hung(w) /\ UNCHANGED trouble
    BY <1>8 DEF w, t
  <2> QED BY <1>1, <2>2, <2>3, <2>4, HungUp
<1>9. CASE view' \in {seen, told} /\ UNCHANGED stream /\ (Trouble \/ UNCHANGED trouble)
  <2>1. UNCHANGED streamVars
    BY <1>1, <1>9 DEF streamVars
  <2>2. /\ view' \in Views /\ view'.at = "read" /\ view'.flags = {"running"}
        /\ view'.phase = "research" /\ view'.decision = view.decision
    BY <1>2, <1>4, <1>9
  <2> QED BY <1>1, <1>9, <2>1, <2>2, ReadsOn
<1> QED BY <1>5, <1>7, <1>8, <1>9

LEMMA LeavesStream ==
    ASSUME IInv, StreamOver \/ StreamBreaks \/ Interrupt
    PROVE  IInv'
<1>1. /\ view.at \in {"read", "check"} /\ UNCHANGED <<task, log, decision>>
      /\ UNCHANGED session
      /\ Trouble \/ UNCHANGED trouble
  BY DEF StreamOver, StreamBreaks, Interrupt, clarifyVars
<1>2. /\ view \in Views /\ view.flags = {"running"} /\ OneFlag(view)
      /\ view.phase = "research" /\ ServerTyped /\ Submits(view)
  BY <1>1, WhileFollowing DEF Following
<1>3. PICK v \in {[view EXCEPT !.at = "check"], Lost(view), Rerun(view)} : Hung(v)
  BY DEF StreamOver, StreamBreaks, Interrupt
<1>4. v \in Views /\ PlaceAgrees(v) /\ v.decision = view.decision /\ v.at \notin Submitting
  <2>1. CASE v = [view EXCEPT !.at = "check"]
    <3>1. "check" \in Places
      BY DEF Places
    <3>2. /\ v \in Views /\ v.at = "check" /\ v.flags = view.flags
          /\ v.phase = view.phase /\ v.decision = view.decision
      BY <1>2, <2>1, <3>1, MovesOn
    <3> QED BY <1>2, <3>2 DEF PlaceAgrees, OneFlag, Submitting
  <2>2. CASE v = Lost(view)
    BY <1>2, <2>2, LostIs DEF Submitting
  <2>3. CASE v = Rerun(view)
    BY <1>2, <2>3, RerunIs DEF Submitting
  <2> QED BY <1>3, <2>1, <2>2, <2>3
<1>5. Submits(v)
  BY <1>2, <1>4, SubmitsKept
<1> QED BY <1>1, <1>3, <1>4, <1>5, HungUp

-----------------------------------------------------------------------------
(***************************************************************************)
(* Steps that move the task.                                               *)
(***************************************************************************)

\* A step that leaves the connection and the session alone, and a view alone that reads.
LEMMA RowsMove ==
    ASSUME IInv, UNCHANGED <<stream, session>>, Trouble \/ UNCHANGED trouble,
           task' \in [status : TaskStatuses, version : Nat], log' \in Seq(Entries),
           Len(log) <= Len(log') \/ view.at # "read", decision' \in DecisionRows, DecisionAgrees',
           view' \in Views, PlaceAgrees(view'), Submits(view)',
           view.at # "read" \/ view' = view
    PROVE  IInv'
<1>1. ViewTyped'
  BY TroubleKept DEF IInv, ViewTyped
<1>2. ServerTyped'
  BY DEF IInv, ServerTyped
<1>3. StreamAgrees'
  <2>1. CASE view.at # "read"
    BY <2>1 DEF IInv, StreamAgrees, EndsCaughtUp
  <2>2. CASE view' = view /\ Len(log) <= Len(log')
    <3>1. Len(log) \in Nat /\ Len(log') \in Nat
      BY DEF IInv, ServerTyped
    <3>2. stream \in Streams
      BY DEF IInv, ServerTyped
    <3>3. stream.owed \in Nat
      BY <3>2 DEF Streams
    <3> QED BY <2>2, <3>1, <3>3 DEF IInv, StreamAgrees, EndsCaughtUp
  <2> QED BY <2>1, <2>2
<1>4. PlaceAgrees(view)'
  BY DEF PlaceAgrees, OneFlag
<1>5. SessionAgrees(session)'
  BY DEF IInv, SessionAgrees, ListsAgree
<1> QED BY <1>1, <1>2, <1>3, <1>4, <1>5 DEF IInv

LEMMA MovesToIs ==
    ASSUME ServerTyped, NEW s \in TaskStatuses, NEW es \in Seq(Entries), MovesTo(s, es)
    PROVE  /\ task' \in [status : TaskStatuses, version : Nat] /\ log' \in Seq(Entries)
           /\ Len(log) <= Len(log') /\ task'.status = s
<1>1. task' = [status |-> s, version |-> task.version + 1] /\ log' = log \o es
  BY DEF MovesTo
<1>2. log \in Seq(Entries) /\ task.version \in Nat
  BY DEF ServerTyped
<1>3. Len(log') = Len(log) + Len(es) /\ Len(es) \in Nat /\ Len(log) \in Nat
  BY <1>1, <1>2
<1> QED BY <1>1, <1>2, <1>3

\* A decision moves on: it is made, or settled once and for all.
DecisionMoves ==
    \/ decision.status # "pending" /\ decision' = decision
    \/ decision.status = "none" /\ decision'.status = "pending"
    \/ decision.status = "pending" /\ decision'.status \notin {"none", "pending"}

LEMMA SubmitsMoves ==
    ASSUME Submits(view), DecisionMoves, view' = view
    PROVE  Submits(view)'
BY DEF Submits, DecisionMoves, Submitting, Settled

\* What a resolution of the decision, which the view may have sent, does to the rows.
RowsTyped ==
    /\ task' \in [status : TaskStatuses, version : Nat] /\ log' \in Seq(Entries)
    /\ Len(log) <= Len(log') /\ decision' \in DecisionRows /\ DecisionAgrees'

LEMMA RowsStay ==
    ASSUME ServerTyped, DecisionAgrees, UNCHANGED <<task, log, decision>>
    PROVE  RowsTyped
<1>1. Len(log) \in Nat
  BY DEF ServerTyped
<1> QED BY <1>1 DEF ServerTyped, RowsTyped, DecisionAgrees

LEMMA ResolveIs ==
    ASSUME ServerTyped, DecisionAgrees, NEW b \in Bodies, Resolve(b)
    PROVE  /\ RowsTyped
           /\ decision.status # "none" => decision'.status # "none"
           /\ decision.status = "pending" => decision'.status \notin {"none", "pending"}
           /\ decision.status # "pending" => UNCHANGED <<task, log, decision>>
<1>1. CASE decision.status = "pending"
  <2> DEFINE s == IF b = "cancel" THEN "cancelled" ELSE "queued"
             d == IF b = "cancel" THEN "cancelled" ELSE "resolved"
  <2>1. MovesTo(s, <<s>>) /\ decision' = [status |-> d, body |-> b]
    BY <1>1 DEF Resolve
  <2>2. s \in TaskStatuses /\ s # "waiting_for_input" /\ d \in {"cancelled", "resolved"}
    BY OutcomesAre DEF TaskStatuses
  <2> HIDE DEF s, d
  <2>3. <<s>> \in Seq(Entries)
    BY <2>2 DEF Entries
  <2>4. /\ task' \in [status : TaskStatuses, version : Nat] /\ log' \in Seq(Entries)
        /\ Len(log) <= Len(log') /\ task'.status = s
    BY <2>1, <2>2, <2>3, MovesToIs
  <2>5. decision'.status = d /\ decision' \in DecisionRows
    BY <2>1, <2>2 DEF DecisionRows, Decisions
  <2>6. DecisionAgrees'
    BY <2>2, <2>4, <2>5 DEF DecisionAgrees
  <2> QED BY <1>1, <2>2, <2>4, <2>5, <2>6 DEF RowsTyped
<1>2. CASE decision.status # "pending"
  <2>1. UNCHANGED <<task, log, decision>>
    BY <1>2 DEF Resolve
  <2> QED BY <1>2, <2>1, RowsStay
<1> QED BY <1>1, <1>2

LEMMA AdvanceKeeps ==
    ASSUME IInv, Server, Advance \/ AnsweredElsewhere
    PROVE  IInv'
<1>1. /\ UNCHANGED stream /\ UNCHANGED <<session, trouble, view>> /\ ServerTyped
      /\ DecisionAgrees
  BY DEF Server, Advance, AnsweredElsewhere, clarifyVars, IInv
<1>2. RowsTyped /\ DecisionMoves
  <2>1. CASE Advance
    <3>1. PICK s \in StreamEnds \cup {"queued", "running", "cancelling"} :
            /\ task.status = "waiting_for_input" => s = "cancelled"
            /\ s = "waiting_for_input" => decision.status = "none"
            /\ MovesTo(s, IF <<task.status, s>> \in L!Recovery
                          THEN <<"interrupted", s>> ELSE <<s>>)
            /\ \/ s = "waiting_for_input" /\ decision' = [decision EXCEPT !.status = "pending"]
               \/ /\ task.status = "waiting_for_input"
                  /\ \E d \in {"cancelled", "expired"} :
                       decision' = [decision EXCEPT !.status = d]
               \/ "waiting_for_input" \notin {s, task.status} /\ UNCHANGED decision
      BY <2>1 DEF Advance
    <3>2. s \in TaskStatuses /\ "interrupted" \in TaskStatuses
      BY OutcomesAre DEF TaskStatuses
    <3>3. <<s>> \in Seq(Entries) /\ <<"interrupted", s>> \in Seq(Entries)
      BY <3>2 DEF Entries
    <3>4. PICK es \in Seq(Entries) : MovesTo(s, es)
      BY <3>1, <3>3
    <3>5. /\ task' \in [status : TaskStatuses, version : Nat] /\ log' \in Seq(Entries)
          /\ Len(log) <= Len(log') /\ task'.status = s
      BY <1>1, <3>2, <3>4, MovesToIs
    <3>6. decision \in DecisionRows
      BY <1>1 DEF ServerTyped
    <3>7. PICK d \in Decisions :
            /\ \/ decision' = [decision EXCEPT !.status = d]
               \/ decision' = decision /\ d = decision.status
            /\ \/ s = "waiting_for_input" /\ d = "pending"
               \/ task.status = "waiting_for_input" /\ d \in {"cancelled", "expired"}
               \/ "waiting_for_input" \notin {s, task.status} /\ decision' = decision
      <4>1. CASE s = "waiting_for_input" /\ decision' = [decision EXCEPT !.status = "pending"]
        BY <4>1 DEF Decisions
      <4>2. CASE /\ task.status = "waiting_for_input"
                 /\ \E d \in {"cancelled", "expired"} : decision' = [decision EXCEPT !.status = d]
        BY <4>2 DEF Decisions
      <4>3. CASE "waiting_for_input" \notin {s, task.status} /\ UNCHANGED decision
        <5>1. decision.status \in Decisions
          BY <3>6 DEF DecisionRows
        <5> QED BY <4>3, <5>1
      <4> QED BY <3>1, <4>1, <4>2, <4>3
    <3>8. decision' \in DecisionRows /\ decision'.status = d /\ decision'.body = decision.body
      BY <3>6, <3>7 DEF DecisionRows
    <3>9. DecisionAgrees'
      BY <1>1, <3>1, <3>5, <3>7, <3>8 DEF DecisionAgrees
    <3>10. DecisionMoves
      BY <1>1, <3>1, <3>7, <3>8 DEF DecisionMoves, DecisionAgrees
    <3> QED BY <3>5, <3>8, <3>9, <3>10 DEF RowsTyped
  <2>2. CASE AnsweredElsewhere
    <3>1. decision.status = "pending" /\ \E b \in Bodies : Resolve(b)
      BY <2>2 DEF AnsweredElsewhere
    <3> QED BY <1>1, <3>1, ResolveIs DEF DecisionMoves
  <2> QED BY <2>1, <2>2
<1>3. view \in Views /\ PlaceAgrees(view) /\ Submits(view)
  BY DEF IInv, ViewTyped
<1>4. Submits(view)'
  BY <1>1, <1>2, <1>3, SubmitsMoves
<1> QED BY <1>1, <1>2, <1>3, <1>4, RowsMove DEF RowsTyped

LEMMA ProgressKeeps ==
    ASSUME IInv, Server, Progress
    PROVE  IInv'
<1>1. /\ UNCHANGED <<task, decision, stream>> /\ UNCHANGED <<session, trouble, view>>
      /\ log' = Append(log, "progress")
  BY DEF Server, Progress, clarifyVars
<1>2. log \in Seq(Entries) /\ "progress" \in Entries
  BY DEF IInv, ServerTyped, Entries
<1>3. log' \in Seq(Entries) /\ Len(log) <= Len(log')
  BY <1>1, <1>2
<1>4. DecisionAgrees' /\ Submits(view)'
  BY <1>1 DEF IInv, DecisionAgrees, Submits, Settled
<1>5. /\ view' \in Views /\ PlaceAgrees(view') /\ decision' \in DecisionRows
      /\ task' \in [status : TaskStatuses, version : Nat]
  BY <1>1 DEF IInv, ViewTyped, ServerTyped
<1> QED BY <1>1, <1>3, <1>4, <1>5, RowsMove

\* The three reads of the stream: it ends when the bounds show nothing after the cursor.
LEMMA ServeKeeps ==
    ASSUME IInv, Server, Serve
    PROVE  IInv'
<1>1. UNCHANGED <<task, log, decision>> /\ UNCHANGED <<session, trouble, view>>
  BY DEF Server, Serve, ListEvents, ReadStatus, ReadBounds, clarifyVars
<1>2. /\ stream \in Streams /\ Len(log) \in Nat /\ task.status \in TaskStatuses
      /\ StreamAgrees /\ view \in Views /\ PlaceAgrees(view) /\ Submits(view)
  BY DEF IInv, ServerTyped, ViewTyped
<1>3. stream' \in Streams /\ StreamAgrees'
  <2>1. CASE ListEvents
    <3>1. PICK c \in Nat : stream' = [stream EXCEPT !.stage = "task", !.cursor = c]
      <4>1. stream.cursor + BatchSize \in Nat
        BY <1>2, StreamAssumption DEF Streams
      <4> QED BY <1>2, <2>1, <4>1 DEF ListEvents
    <3>2. stream' \in Streams /\ stream'.stage = "task" /\ stream.stage = "list"
      BY <1>2, <2>1, <3>1 DEF Streams, ListEvents
    <3> QED BY <1>1, <1>2, <3>2 DEF StreamAgrees, EndsCaughtUp
  <2>2. CASE ReadStatus
    <3>1. /\ stream' = [stream EXCEPT !.stage = "bounds", !.seen = task.status, !.owed = Len(log)]
          /\ stream.stage = "task"
      BY <2>2 DEF ReadStatus
    <3> DEFINE n == Len(log)
    <3>2. /\ stream' = [stream EXCEPT !.stage = "bounds", !.seen = task.status, !.owed = n]
          /\ n \in Nat
      BY <1>2, <3>1
    <3> HIDE DEF n
    <3>3. stream' \in Streams /\ stream'.stage = "bounds" /\ stream'.owed = n
      BY <1>2, <3>2 DEF Streams
    <3>4. stream'.owed <= Len(log')
      BY <1>1, <1>2, <3>3 DEF n
    <3> QED BY <1>1, <1>2, <3>1, <3>3, <3>4 DEF StreamAgrees, EndsCaughtUp
  <2>3. CASE ReadBounds
    <3>1. stream.stage = "bounds" /\ stream.owed <= Len(log) /\ stream.owed \in Nat
          /\ stream.cursor \in Nat
      BY <1>2, <2>3 DEF ReadBounds, StreamAgrees, Streams
    <3>2. CASE CaughtUp
      <4>1. stream' = [stream EXCEPT !.stage = "ended"]
        BY <1>2, <2>3, <3>2 DEF ReadBounds, Streams
      <4>2. /\ stream' \in Streams /\ stream'.stage = "ended" /\ stream'.cursor = stream.cursor
            /\ stream'.owed = stream.owed
        BY <1>2, <4>1 DEF Streams
      <4>3. stream.cursor >= Len(log)
        BY <3>2 DEF CaughtUp
      <4>4. EndsCaughtUp'
        BY <1>2, <3>1, <4>2, <4>3 DEF EndsCaughtUp
      <4> QED BY <1>1, <1>2, <3>1, <4>2, <4>4 DEF StreamAgrees
    <3>3. CASE ~CaughtUp
      <4>1. stream' = [stream EXCEPT !.stage = "list", !.seen = "absent", !.owed = 0]
        BY <2>3, <3>3 DEF ReadBounds
      <4>2. stream' \in Streams /\ stream'.stage = "list"
        BY <1>2, <4>1 DEF Streams, TaskStatuses
      <4> QED BY <1>1, <1>2, <3>1, <4>2 DEF StreamAgrees, EndsCaughtUp
    <3> QED BY <3>2, <3>3
  <2> QED BY <2>1, <2>2, <2>3 DEF Server, Serve
<1>4. view' \in Views /\ PlaceAgrees(view') /\ Submits(view')
  BY <1>1, <1>2
<1> QED BY <1>1, <1>3, <1>4, StreamAlone

LEMMA PostKeeps ==
    ASSUME IInv, Post
    PROVE  IInv'
<1>1. /\ view.at = "post" /\ UNCHANGED stream /\ UNCHANGED session
      /\ Trouble \/ UNCHANGED trouble
  BY DEF Post, NetworkError, GetFails, clarifyVars
<1>2. /\ view \in Views /\ OneFlag(view) /\ view.phase = "research" /\ ServerTyped
      /\ Submits(view) /\ DecisionAgrees
  BY <1>1, WhileResearching DEF IInv
<1>3. decision.status # "none" /\ view.submission \in Bodies
  BY <1>1, <1>2 DEF Submits, Submitting
<1>4. RowsTyped /\ decision'.status # "none"
  <2>1. CASE Resolve(view.submission)
    BY <1>2, <1>3, <2>1, ResolveIs
  <2>2. CASE UNCHANGED <<task, log, decision>>
    BY <1>2, <1>3, <2>2, RowsStay
  <2> QED BY <2>1, <2>2 DEF Post
<1> DEFINE may == MayResolve(view.submission, view.version)
<1>5. view' \in Views /\ PlaceAgrees(view') /\ Submits(view)'
  <2>1. CASE view' = [view EXCEPT !.at = "idle"]
    <3>1. /\ view' \in Views /\ PlaceAgrees(view') /\ view'.at = "idle"
          /\ view'.decision = view.decision
      BY <1>2, <2>1, IdleIs
    <3>2. Submits(view)'
      BY <1>4, <3>1 DEF Submits, Submitting
    <3> QED BY <3>1, <3>2
  <2>2. CASE view' = Rerun(Projected([view EXCEPT !.submission = "none",
                                                  !.decision = decision'.status,
                                                  !.version = task'.version],
                                     task'.status))
    <3> DEFINE d == decision'.status
               n == task'.version
               s == task'.status
               u == [view EXCEPT !.submission = "none", !.decision = d, !.version = n]
               p == Projected(u, s)
    <3>1. d \in Decisions /\ n \in Nat /\ s \in TaskStatuses \cup {"none"} /\ d # "none"
      BY <1>4 DEF RowsTyped, DecisionRows
    <3>2. view' = Rerun(p)
      BY <2>2
    <3> HIDE DEF d, n, s
    <3>3. u \in Views /\ OneFlag(u) /\ u.phase = "research"
      BY <1>2, <3>1 DEF Views, OneFlag
    <3> HIDE DEF u
    <3>4. p \in Views /\ OneFlag(p) /\ p.phase = "research"
      BY <3>1, <3>3, ProjectedIs
    <3> HIDE DEF p
    <3>5. view' \in Views /\ PlaceAgrees(view') /\ view'.at \in {"follow", "idle"}
      BY <3>2, <3>4, RerunIs
    <3>6. Submits(view)'
      BY <1>4, <3>5 DEF Submits, Submitting
    <3> QED BY <3>5, <3>6
  <2>3. CASE /\ ~may /\ view' = [view EXCEPT !.at = "conflict"]
             /\ UNCHANGED <<task, log, decision>>
    <3>1. "conflict" \in Places
      BY DEF Places
    <3>2. /\ view' \in Views /\ view'.at = "conflict" /\ view'.flags = view.flags
          /\ view'.phase = "research" /\ view'.decision = view.decision
          /\ view'.submission = view.submission
      BY <1>2, <2>3, <3>1, MovesOn
    <3>3. PlaceAgrees(view')
      BY <1>2, <3>2, RestsSomewhere DEF OneFlag, Following
    <3>4. decision.status # "pending"
      BY <1>1, <1>2, <2>3 DEF Submits, MayResolve
    <3>5. decision.body # view.submission
      <4>1. CASE decision.status = "expired"
        BY <1>2, <1>3, <4>1, StreamAssumption DEF DecisionAgrees
      <4>2. CASE decision.status \in {"resolved", "cancelled"}
        BY <2>3, <4>2 DEF MayResolve
      <4>3. decision.status \in Decisions
        BY <1>2 DEF ServerTyped, DecisionRows
      <4> QED BY <1>3, <3>4, <4>1, <4>2, <4>3 DEF Decisions
    <3>6. Submits(view)'
      BY <1>3, <2>3, <3>2, <3>4, <3>5 DEF Submits, Submitting, Settled
    <3> QED BY <3>2, <3>3, <3>6
  <2> QED BY <2>1, <2>2, <2>3 DEF Post, NetworkError, GetFails
<1> QED BY <1>1, <1>4, <1>5, RowsMove DEF RowsTyped

LEMMA ClickCancelKeeps ==
    ASSUME IInv, ClickCancel
    PROVE  IInv'
<1>1. /\ view.at = "open" /\ UNCHANGED stream /\ UNCHANGED session /\ Trouble /\ Cancel
  BY DEF ClickCancel, clarifyVars
<1>2. /\ view \in Views /\ view.flags = {"running"} /\ OneFlag(view)
      /\ view.phase = "research" /\ ServerTyped /\ Submits(view) /\ DecisionAgrees
  BY <1>1, WhileFollowing DEF Following, IInv
<1>3. RowsTyped /\ (decision.status # "none" => decision'.status # "none")
  <2> DEFINE s == CASE task.status = "running" -> "cancelling"
                    [] task.status \in {"queued", "waiting_for_input", "interrupted"} -> "cancelled"
                    [] OTHER -> task.status
  <2>1. CASE s = task.status
    <3>1. UNCHANGED <<task, log, decision>>
      BY <1>1, <2>1 DEF Cancel
    <3> QED BY <1>2, <3>1, RowsStay
  <2>2. CASE s # task.status
    <3>1. /\ MovesTo(s, <<s>>) /\ s \in {"cancelling", "cancelled"}
          /\ decision' = IF decision.status = "pending"
                         THEN [decision EXCEPT !.status = "cancelled"] ELSE decision
      BY <1>1, <2>2 DEF Cancel
    <3> HIDE DEF s
    <3>2. s \in TaskStatuses /\ s # "waiting_for_input"
      BY <3>1, OutcomesAre DEF TaskStatuses
    <3>3. <<s>> \in Seq(Entries)
      BY <3>2 DEF Entries
    <3>4. /\ task' \in [status : TaskStatuses, version : Nat] /\ log' \in Seq(Entries)
          /\ Len(log) <= Len(log') /\ task'.status = s
      BY <1>2, <3>1, <3>2, <3>3, MovesToIs
    <3>5. /\ decision' \in DecisionRows /\ decision'.body = decision.body
          /\ decision'.status = IF decision.status = "pending" THEN "cancelled"
                                ELSE decision.status
      BY <1>2, <3>1 DEF ServerTyped, DecisionRows, Decisions
    <3>6. DecisionAgrees'
      BY <1>2, <3>2, <3>4, <3>5 DEF DecisionAgrees
    <3> QED BY <3>4, <3>5, <3>6 DEF RowsTyped
  <2> QED BY <2>1, <2>2
<1> DEFINE n == task'.version
           s == task'.status
           u == [view EXCEPT !.version = n]
           p == IF s \in Outcomes THEN WithTerminal(u, s) ELSE u
<1>4. view' = Rerun(p)
  BY DEF ClickCancel
<1>5. n \in Nat
  BY <1>3 DEF RowsTyped
<1> HIDE DEF n, s
<1>6. /\ u \in Views /\ OneFlag(u) /\ u.flags = {"running"} /\ u.phase = "research"
      /\ u.decision = view.decision
  BY <1>2, <1>5 DEF Views, OneFlag
<1> HIDE DEF u
<1>7. p \in Views /\ OneFlag(p) /\ p.phase = "research" /\ p.decision = view.decision
  BY <1>6, WithTerminalIs
<1> HIDE DEF p
<1>8. /\ view' \in Views /\ PlaceAgrees(view') /\ view'.at \in {"follow", "idle"}
      /\ view'.decision = view.decision
  BY <1>4, <1>7, RerunIs
<1>9. Submits(view)'
  BY <1>2, <1>3, <1>8 DEF Submits, Submitting
<1> QED BY <1>1, <1>3, <1>8, <1>9, RowsMove DEF RowsTyped

LEMMA ClickResumeKeeps ==
    ASSUME IInv, ClickResume
    PROVE  IInv'
<1>1. /\ view.at = "idle" /\ view.phase = "research" /\ UNCHANGED stream /\ UNCHANGED session
      /\ Trouble \/ UNCHANGED trouble
      /\ MayResume(view.version) /\ Resume /\ "failed" \in view.flags
  BY DEF ClickResume, Resting, clarifyVars
<1>2. /\ view \in Views /\ OneFlag(view) /\ ServerTyped /\ Submits(view) /\ DecisionAgrees
  BY <1>1, WhileResearching DEF IInv
<1>3. RowsTyped /\ decision' = decision
  <2>1. MovesTo("queued", <<"queued">>) /\ UNCHANGED decision /\ task.status # "waiting_for_input"
    BY <1>1 DEF Resume, MayResume
  <2>2. "queued" \in TaskStatuses
    BY DEF TaskStatuses
  <2>3. <<"queued">> \in Seq(Entries)
    BY <2>2 DEF Entries
  <2>4. /\ task' \in [status : TaskStatuses, version : Nat] /\ log' \in Seq(Entries)
        /\ Len(log) <= Len(log') /\ task'.status = "queued"
    BY <1>2, <2>1, <2>2, <2>3, MovesToIs
  <2>5. DecisionAgrees' /\ decision' \in DecisionRows
    BY <1>2, <2>1, <2>4 DEF DecisionAgrees, ServerTyped
  <2> QED BY <2>1, <2>4, <2>5 DEF RowsTyped
<1>4. /\ view' \in Views /\ PlaceAgrees(view') /\ view'.at \notin Submitting
      /\ view'.decision = view.decision
  <2>1. CASE UNCHANGED view
    <3>1. PlaceAgrees(view)
      BY DEF IInv
    <3> QED BY <1>1, <1>2, <2>1, <3>1 DEF Submitting
  <2>2. CASE view' = Rerun([view EXCEPT !.flags = (@ \ {"failed", "lost"}) \cup {"running"},
                                        !.version = task'.version, !.terminal = "none"])
    <3> DEFINE fs == (view.flags \ {"failed", "lost"}) \cup {"running"}
               n == task'.version
               u == [view EXCEPT !.flags = fs, !.version = n, !.terminal = "none"]
    <3>1. fs = {"running"} /\ fs \in SUBSET Flags /\ n \in Nat
      BY <1>1, <1>2, <1>3 DEF OneFlag, Flags, RowsTyped
    <3>2. view' = Rerun(u)
      BY <2>2
    <3> HIDE DEF fs, n
    <3>3. u \in Views /\ OneFlag(u) /\ u.phase = "research" /\ u.decision = view.decision
      BY <1>1, <1>2, <3>1 DEF Views, OneFlag, Flags
    <3> HIDE DEF u
    <3> QED BY <3>2, <3>3, RerunIs DEF Submitting
  <2> QED BY <2>1, <2>2 DEF ClickResume
<1>5. Submits(view)'
  BY <1>2, <1>3, <1>4 DEF Submits, Submitting
<1> QED BY <1>1, <1>3, <1>4, <1>5, RowsMove DEF RowsTyped

-----------------------------------------------------------------------------
(***************************************************************************)
(* A task begins, and a view begins anew.                                  *)
(***************************************************************************)
LEMMA CreateIs ==
    ASSUME Create
    PROVE  /\ task' \in [status : TaskStatuses, version : Nat] /\ log' \in Seq(Entries)
           /\ decision' \in DecisionRows /\ DecisionAgrees'
<1>1. "queued" \in Entries /\ "queued" \in TaskStatuses
  BY DEF Entries, TaskStatuses
<1>2. <<"queued">> \in Seq(Entries)
  BY <1>1
<1> QED BY <1>1, <1>2 DEF Create, NoDecision, DecisionRows, Decisions, DecisionAgrees

LEMMA StartResearchKeeps ==
    ASSUME IInv, StartResearch
    PROVE  IInv'
<1>1. /\ view.at = "start" /\ UNCHANGED stream /\ session' = NoSession
      /\ Trouble \/ UNCHANGED trouble
  BY DEF StartResearch
<1>2. /\ view \in Views /\ OneFlag(view) /\ view.phase = "research" /\ ServerTyped
      /\ Submits(view) /\ view.decision = "none" /\ DecisionAgrees
  BY <1>1, WhileResearching DEF IInv, PlaceAgrees
<1>3. PICK f \in {"running", "failed"} : view' = Rerun([view EXCEPT !.flags = {f}])
  BY DEF StartResearch
<1> DEFINE u == [view EXCEPT !.flags = {f}]
<1>4. u \in Views /\ OneFlag(u) /\ u.phase = "research" /\ u.decision = "none"
  <2>1. {f} \in SUBSET Flags
    BY DEF Flags
  <2> QED BY <1>2, <2>1 DEF Views, OneFlag, Flags
<1> HIDE DEF u
<1>5. /\ view' \in Views /\ PlaceAgrees(view') /\ view'.at \in {"follow", "idle"}
      /\ view'.decision = "none"
  BY <1>3, <1>4, RerunIs DEF u
<1>6. /\ task' \in [status : TaskStatuses, version : Nat] /\ log' \in Seq(Entries)
      /\ decision' \in DecisionRows /\ DecisionAgrees'
  <2>1. CASE Create
    BY <2>1, CreateIs
  <2>2. CASE UNCHANGED <<task, log, decision>>
    BY <1>2, <2>2 DEF ServerTyped, DecisionAgrees
  <2> QED BY <2>1, <2>2 DEF StartResearch
<1>7. ServerTyped' /\ StreamAgrees'
  BY <1>1, <1>2, <1>6 DEF ServerTyped, IInv, StreamAgrees, EndsCaughtUp
<1>8. ViewTyped'
  BY <1>1, <1>5, TroubleKept DEF IInv, ViewTyped
<1>9. Submits(view)' /\ PlaceAgrees(view)'
  BY <1>5 DEF Submits, Submitting, PlaceAgrees, OneFlag
<1>10. SessionAgrees(session)'
  BY <1>1, NoSessionAgrees DEF SessionAgrees, ListsAgree
<1> QED BY <1>6, <1>7, <1>8, <1>9, <1>10 DEF IInv

LEMMA DefaultsAgree ==
    /\ Defaulted \in Views /\ PlaceAgrees(Defaulted) /\ Defaulted.decision = "none"
    /\ Defaulted.at = "idle"
    /\ NoTask \in [status : TaskStatuses, version : Nat] /\ NoDecision \in DecisionRows
    /\ NoStream \in Streams
BY DEF Defaulted, Views, PlaceAgrees, OneFlag, Flags, Following, NoTask, NoDecision, NoStream,
       TaskStatuses, DecisionRows, Decisions, Streams, Places, Attempts

\* The rows and the view at their defaults.
LEMMA AtDefaults ==
    ASSUME view = Defaulted, task = NoTask, log = <<>>, decision = NoDecision,
           stream = NoStream, SessionAgrees(session), trouble \in 0 .. MaxTrouble
    PROVE  IInv
<1>1. ViewTyped /\ PlaceAgrees(view)
  BY DefaultsAgree DEF ViewTyped
<1>2. log \in Seq(Entries)
  OBVIOUS
<1>3. ServerTyped
  BY <1>2, DefaultsAgree DEF ServerTyped
<1>4. StreamAgrees /\ DecisionAgrees
  BY DEF StreamAgrees, EndsCaughtUp, DecisionAgrees, NoStream, NoDecision, NoTask
<1>5. Submits(view)
  BY DefaultsAgree DEF Submits, Submitting
<1> QED BY <1>1, <1>3, <1>4, <1>5 DEF IInv

LEMMA ClickRestartKeeps ==
    ASSUME IInv, ClickRestart
    PROVE  IInv'
<1>1. /\ view' = Defaulted /\ task' = NoTask /\ log' = <<>> /\ decision' = NoDecision
      /\ stream' = NoStream /\ UNCHANGED <<session, trouble>>
  BY DEF ClickRestart, clarifyVars
<1>2. ViewTyped' /\ PlaceAgrees(view)'
  BY <1>1, DefaultsAgree DEF IInv, ViewTyped, PlaceAgrees, OneFlag
<1>3. log' \in Seq(Entries)
  BY <1>1
<1>4. ServerTyped'
  BY <1>1, <1>3, DefaultsAgree DEF ServerTyped
<1>5. StreamAgrees' /\ DecisionAgrees'
  BY <1>1 DEF StreamAgrees, EndsCaughtUp, DecisionAgrees, NoStream, NoDecision, NoTask
<1>6. Submits(view)' /\ SessionAgrees(session)'
  BY <1>1, DefaultsAgree DEF Submits, Submitting, IInv, SessionAgrees, ListsAgree
<1> QED BY <1>2, <1>4, <1>5, <1>6 DEF IInv

-----------------------------------------------------------------------------
(***************************************************************************)
(* The invariant holds.                                                    *)
(***************************************************************************)
LEMMA InitImplies == Init => IInv
<1> SUFFICES ASSUME Init PROVE IInv
  OBVIOUS
<1>1. /\ view = Defaulted /\ task = NoTask /\ log = <<>> /\ decision = NoDecision
      /\ stream = NoStream /\ session = NoSession /\ trouble = 0
  BY DEF Init, StreamInit, ClarifyInit
<1>2. SessionAgrees(session)
  BY <1>1, NoSessionAgrees
<1>3. trouble \in 0 .. MaxTrouble
  BY <1>1, ClientAssumption
<1> QED BY <1>1, <1>2, <1>3, AtDefaults

LEMMA ServerKeeps ==
    ASSUME IInv, Server
    PROVE  IInv'
BY AdvanceKeeps, ProgressKeeps, ServeKeeps DEF Server, Elsewhere

LEMMA ScriptKeeps ==
    ASSUME IInv, Script
    PROVE  IInv'
BY HearAnswerKeeps, StartResearchKeeps, FollowKeeps, ConnectKeeps, ReadFrameKeeps, LeavesStream,
   CheckKeeps, LoadKeeps, LoadDecisionKeeps, SubmitTaskKeeps, SubmitDecisionKeeps, PostKeeps
DEF Script

LEMMA ClicksKeep ==
    ASSUME IInv, Clicks
    PROVE  IInv'
BY AskKeeps, ClickCancelKeeps, ClickRefreshKeeps, ClickAnswerKeeps, ClickReconnectKeeps,
   ClickResumeKeeps, ClickRestartKeeps
DEF Clicks

LEMMA NextKeeps == IInv /\ [Next]_vars => IInv'
<1> SUFFICES ASSUME IInv, [Next]_vars PROVE IInv'
  OBVIOUS
<1>1. CASE Next
  BY <1>1, ServerKeeps, ServeClarifyKeeps, ScriptKeeps, ClicksKeep, HearAnswerKeeps, LeavesStream
  DEF Next
<1>2. CASE UNCHANGED vars
  <2>1. UNCHANGED streamVars /\ UNCHANGED <<session, trouble, view>>
    BY <1>2 DEF vars, clarifyVars
  <2> QED BY <2>1, ServerAlone DEF IInv
<1> QED BY <1>1, <1>2

THEOREM Invariance == Spec => []IInv
BY InitImplies, NextKeeps, PTL DEF Spec

\* ViewAgrees: whatever requests fail, streams break and clicks interrupt, what the script keeps
\* has its shape, and a view at rest shows one thing: that it follows, the panel, the outcome or
\* the loss of its connection.
THEOREM ViewShowsOneThing == Spec => []ViewAgrees
<1>1. ASSUME IInv PROVE ViewAgrees
  <2>1. view \in Views /\ trouble \in 0 .. MaxTrouble /\ OneFlag(view)
    BY <1>1 DEF IInv, ViewTyped, PlaceAgrees
  <2>2. TypeOK
    BY <2>1 DEF TypeOK, Views, Flags, TaskStatuses, Decisions
  <2>3. OnePlace
    BY <2>1 DEF OnePlace, OneFlag, Flags
  <2> QED BY <2>2, <2>3 DEF ViewAgrees
<1>2. IInv => ViewAgrees
  BY <1>1
<1> QED BY <1>2, Invariance, PTL

\* RequiredListsAgree: in a session of the clarification dialogue, with any number of turns at
\* their model calls, the fields that are filled and missing are those known and not known.
THEOREM ListsSayWhatIsKnown == Spec => []RequiredListsAgree
<1>1. IInv => RequiredListsAgree
  BY DEF IInv, SessionAgrees, ListsAgree, RequiredListsAgree
<1> QED BY <1>1, Invariance, PTL

\* EndsCaughtUp: a stream that ends by itself has sent every event that was in the log when it
\* read the status it ends on.
THEOREM StreamEndsCaughtUp == Spec => []EndsCaughtUp
<1>1. IInv => EndsCaughtUp
  BY DEF IInv, StreamAgrees
<1> QED BY <1>1, Invariance, PTL

-----------------------------------------------------------------------------
(***************************************************************************)
(* What a step may do to the outcome and to the answer of a view.          *)
(***************************************************************************)

\* OwnAnswerStands: a view whose answer was taken is never told of a conflict.  Behind a refusal
\* another answer has settled the decision, and before the request only an expired decision, or
\* one whose task moved, takes the answer back.
LEMMA AnswerStands ==
    ASSUME IInv, [Next]_vars, view.at \in {"submit_decision", "conflict_decision"},
           view'.submission = "none"
    PROVE  decision.body # view.submission
<1>1. /\ view \in Views /\ Submits(view) /\ DecisionAgrees /\ view.submission \in Bodies
      /\ view.submission # "none"
  BY StreamAssumption DEF IInv, ViewTyped, Submits, Submitting
<1>2. view.phase = "research"
  BY WhileResearching
<1>3. SubmitDecision \/ ConflictDecision
  <2>1. CASE view' = view
    BY <1>1, <2>1
  <2>2. CASE view' # view
    BY <2>2, <1>2 DEF Next, Server, ServeClarify, Unheard, Script, Clicks, GiveUp, StreamBreaks,
         Interrupt, HearAnswer, StartResearch, Follow, Connect, ReadFrame, StreamOver, Check, Load,
         LoadDecision, SubmitTask, Post, ConflictTask, Ask, ClickCancel, ClickRefresh, ClickAnswer,
         ClickReconnect, ClickResume, ClickRestart, Panel, Resting, vars
  <2> QED BY <2>1, <2>2
<1>4. CASE view.at = "conflict_decision"
  BY <1>1, <1>4 DEF Submits
<1>5. CASE view.at = "submit_decision"
  <2>1. CASE view' \in {[view EXCEPT !.at = "post"], [view EXCEPT !.at = "idle"]}
    BY <1>1, <2>1 DEF Views
  <2>2. CASE decision.status \in {"expired", "pending"}
    BY <1>1, <2>2, StreamAssumption DEF DecisionAgrees
  <2> QED BY <1>3, <1>5, <2>1, <2>2 DEF SubmitDecision, ConflictDecision, NetworkError, GetFails
<1> QED BY <1>4, <1>5

THEOREM AnswersAreNotConflicts == Spec => OwnAnswerStands
<1>1. IInv /\ [Next]_vars
      => [view.at \in {"submit_decision", "conflict_decision"} /\ view'.submission = "none"
            => decision.body # view.submission]_vars
  BY AnswerStands
<1> QED BY <1>1, Invariance, PTL DEF Spec, OwnAnswerStands

\* The outcome that a step brings into the view.
OutcomeStep ==
    view'.terminal # view.terminal /\ view'.terminal # "none"
      => view'.terminal \in {task'.status, view.status}

LEMMA RerunOutcome ==
    ASSUME NEW v \in Views
    PROVE  Rerun(v).terminal = v.terminal /\ Lost(v).terminal = v.terminal
BY DEF Rerun, Lost, Views

LEMMA QuietOutcome ==
    ASSUME view \in Views, view' = view \/ Ask \/ HearAnswer \/ GiveUp \/ ClickRefresh
                             \/ ClickAnswer \/ LoadDecision \/ Connect \/ StreamOver
                             \/ StreamBreaks \/ Interrupt
    PROVE  OutcomeStep
<1>1. CASE Ask \/ HearAnswer \/ GiveUp
  BY <1>1 DEF Ask, HearAnswer, GiveUp, Views, OutcomeStep
<1>2. CASE ClickRefresh \/ ClickAnswer \/ LoadDecision
  BY <1>2 DEF ClickRefresh, ClickAnswer, LoadDecision, GetFails, Views, OutcomeStep
<1>3. CASE Connect \/ StreamOver \/ StreamBreaks \/ Interrupt
  <2>1. view' \in {[view EXCEPT !.at = "read"], [view EXCEPT !.at = "check"], Lost(view),
                   Rerun(view)}
    BY <1>3 DEF Connect, StreamOver, StreamBreaks, Interrupt, Hung
  <2>2. view'.terminal = view.terminal
    BY <2>1, RerunOutcome DEF Views
  <2> QED BY <2>2 DEF OutcomeStep
<1> QED BY <1>1, <1>2, <1>3 DEF OutcomeStep

LEMMA FlagsOutcome ==
    ASSUME view \in Views, StartResearch \/ ClickReconnect
    PROVE  OutcomeStep
<1>1. PICK fs \in SUBSET Flags : view' = Rerun([view EXCEPT !.flags = fs])
  <2>1. CASE StartResearch
    <3>1. {"running"} \in SUBSET Flags /\ {"failed"} \in SUBSET Flags
      BY DEF Flags
    <3> QED BY <2>1, <3>1 DEF StartResearch
  <2>2. CASE ClickReconnect
    <3>1. (view.flags \ {"lost"}) \cup {"running"} \in SUBSET Flags
      BY DEF Views, Flags
    <3> QED BY <2>2, <3>1 DEF ClickReconnect
  <2> QED BY <2>1, <2>2
<1> DEFINE u == [view EXCEPT !.flags = fs]
<1>2. u \in Views /\ u.terminal = view.terminal
  BY DEF Views
<1> HIDE DEF u
<1>3. view' = Rerun(u)
  BY <1>1 DEF u
<1> QED BY <1>2, <1>3, RerunOutcome DEF OutcomeStep

\* Reading the task: an outcome is that of the row that was read.
LEMMA RowOutcome ==
    ASSUME IInv, NEW v \in Views, v.terminal = view.terminal, task.status \in Outcomes,
           UNCHANGED task, view' = [WithTerminal(v, task.status) EXCEPT !.at = "idle"]
    PROVE  OutcomeStep
<1> DEFINE t == WithTerminal(v, task.status)
<1>1. t \in Views /\ t.terminal = task.status
  BY WithTerminalIs
<1> HIDE DEF t
<1>2. view' = [t EXCEPT !.at = "idle"]
  BY DEF t
<1>3. view'.terminal = task.status
  BY <1>1, <1>2 DEF Views
<1> QED BY <1>3 DEF OutcomeStep

LEMMA PollOutcome ==
    ASSUME IInv, Follow \/ Load \/ SubmitTask \/ ConflictTask
    PROVE  OutcomeStep
<1> DEFINE u == Remembered(view)
<1>1. view \in Views /\ u \in Views /\ u.terminal = view.terminal
  BY RememberedIs DEF IInv, ViewTyped
<1>2. OneFlag(view) /\ (view.at \in {"follow", "load"} => view.phase = "research")
  BY WhileResearching DEF IInv, PlaceAgrees
<1> HIDE DEF u
<1>3. \/ \E v \in {view, u} : \/ \E a \in Places : view' = [v EXCEPT !.at = a]
                              \/ view' = Lost(v)
                              \/ view' = Opened(v, 1)
      \/ view.at \in {"follow", "load"}
         /\ view' = [Projected(Remembered(view), "waiting_for_input") EXCEPT !.at = "load_decision"]
  <2>1. CASE Follow
    BY <2>1 DEF Follow, GetFails, Opened, u
  <2>2. CASE Load
    <3>1. "idle" \in Places
      BY DEF Places
    <3> QED BY <2>2, <3>1 DEF Load, GetFails, u
  <2>3. CASE SubmitTask \/ ConflictTask
    <3>1. {"idle", "submit_decision", "conflict_decision"} \subseteq Places
      BY DEF Places
    <3> QED BY <2>3, <3>1 DEF SubmitTask, ConflictTask, NetworkError, GetFails, u
  <2> QED BY <2>1, <2>2, <2>3
<1>4. ASSUME NEW v \in {view, u},
             \/ \E a \in Places : view' = [v EXCEPT !.at = a]
             \/ view' = Lost(v)
             \/ view' = Opened(v, 1)
      PROVE  view'.terminal = view.terminal
  <2>1. v \in Views /\ v.terminal = view.terminal
    BY <1>1
  <2>2. ASSUME NEW a \in Places, view' = [v EXCEPT !.at = a]
        PROVE  view'.terminal = view.terminal
    BY <2>1, <2>2, MovesOn
  <2>3. CASE view' = Lost(v)
    BY <2>1, <2>3, RerunOutcome
  <2>4. CASE view' = Opened(v, 1)
    BY <2>1, <2>4 DEF Opened, Views
  <2> QED BY <1>4, <2>2, <2>3, <2>4
<1>5. CASE /\ view.at \in {"follow", "load"}
           /\ view' = [Projected(Remembered(view), "waiting_for_input")
                         EXCEPT !.at = "load_decision"]
  BY <1>2, <1>5, PausedIs DEF OutcomeStep
<1> QED BY <1>3, <1>4, <1>5 DEF OutcomeStep

LEMMA CheckOutcome ==
    ASSUME IInv, Check
    PROVE  OutcomeStep
<1> DEFINE again == IF view.attempt = Attempts THEN Lost(view)
                    ELSE Opened(view, view.attempt + 1)
           told == [view EXCEPT !.version = task.version]
<1>1. view \in Views /\ task.version \in Nat /\ UNCHANGED task
  BY DEF IInv, ViewTyped, ServerTyped, Check, streamVars
<1>2. told \in Views /\ told.terminal = view.terminal
  BY <1>1 DEF Views
<1>3. again \in Views /\ again.terminal = view.terminal
  <2>1. view.flags = {"running"} /\ view.phase = "research"
    BY WhileFollowing DEF Check, Following
  <2>2. CASE view.attempt = Attempts
    BY <1>1, <2>1, <2>2, LostIs
  <2>3. CASE view.attempt # Attempts
    <3>1. view.attempt + 1 \in 0 .. Attempts
      BY <1>1, <2>3 DEF Views, Attempts
    <3> QED BY <1>1, <2>1, <2>3, <3>1, OpensIs
  <2> QED BY <2>2, <2>3
<1> HIDE DEF told, again
<1>4. \/ view' = again \/ view' = [again EXCEPT !.version = task.version]
      \/ view' = [told EXCEPT !.at = "load"]
      \/ task.status \in Outcomes /\ view' = [WithTerminal(told, task.status) EXCEPT !.at = "idle"]
  BY DEF Check, GetFails, Opened, again, told
<1>5. CASE view' = [told EXCEPT !.at = "load"]
  <2>1. view'.terminal = view.terminal
    BY <1>2, <1>5 DEF Views
  <2> QED BY <2>1 DEF OutcomeStep
<1>6. CASE view' = again \/ view' = [again EXCEPT !.version = task.version]
  <2>1. view'.terminal = view.terminal
    BY <1>3, <1>6 DEF Views
  <2> QED BY <2>1 DEF OutcomeStep
<1> QED BY <1>1, <1>2, <1>4, <1>5, <1>6, RowOutcome

LEMMA FrameOutcome ==
    ASSUME IInv, ReadFrame
    PROVE  OutcomeStep
<1> DEFINE seen == [view EXCEPT !.last = @ + 1]
           told == [seen EXCEPT !.version = task.version]
<1>1. view.at = "read" /\ UNCHANGED task /\ task.version \in Nat
  BY DEF ReadFrame, IInv, ServerTyped
<1>2. seen \in Views /\ seen.terminal = view.terminal
  BY <1>1, SeenIs
<1> HIDE DEF seen
<1>3. told \in Views /\ told.terminal = view.terminal
  BY <1>1, <1>2 DEF Views
<1>4. \/ view' \in {[seen EXCEPT !.at = "load"], seen, told}
      \/ /\ task.status \in Outcomes
         /\ view' = [WithTerminal(told, task.status) EXCEPT !.at = "idle"]
  BY DEF ReadFrame, GetFails, Outcome, Hung, seen
<1> HIDE DEF told
<1>5. CASE view' \in {[seen EXCEPT !.at = "load"], seen, told}
  <2>1. view'.terminal = view.terminal
    BY <1>2, <1>3, <1>5 DEF Views
  <2> QED BY <2>1 DEF OutcomeStep
<1> QED BY <1>1, <1>3, <1>4, <1>5, RowOutcome

LEMMA DecisionOutcome ==
    ASSUME IInv, SubmitDecision \/ ConflictDecision
    PROVE  OutcomeStep
<1>1. /\ view \in Views /\ OneFlag(view) /\ view.phase = "research"
  BY WhileResearching DEF SubmitDecision, ConflictDecision
<1>2. CASE view' = Conflicted(view)
  BY <1>1, <1>2, ConflictedIs DEF OutcomeStep
<1>3. CASE view' \in {[view EXCEPT !.at = "post"], [view EXCEPT !.at = "idle"]}
  <2>1. view'.terminal = view.terminal
    BY <1>1, <1>3 DEF Views
  <2> QED BY <2>1 DEF OutcomeStep
<1> QED BY <1>2, <1>3 DEF SubmitDecision, ConflictDecision, NetworkError, GetFails

\* What the answer to a POST says of the task.
LEMMA PostOutcome ==
    ASSUME IInv, IInv', Post
    PROVE  OutcomeStep
<1>1. /\ view \in Views /\ OneFlag(view) /\ view.phase = "research"
  BY WhileResearching DEF Post
<1>2. CASE view' \in {[view EXCEPT !.at = "idle"], [view EXCEPT !.at = "conflict"]}
  <2>1. view'.terminal = view.terminal
    BY <1>1, <1>2 DEF Views
  <2> QED BY <2>1 DEF OutcomeStep
<1>3. CASE view' = Rerun(Projected([view EXCEPT !.submission = "none",
                                                !.decision = decision'.status,
                                                !.version = task'.version],
                                   task'.status))
  <2> DEFINE d == decision'.status
             n == task'.version
             s == task'.status
             u == [view EXCEPT !.submission = "none", !.decision = d, !.version = n]
             p == Projected(u, s)
  <2>1. d \in Decisions /\ n \in Nat /\ s \in TaskStatuses \cup {"none"}
    BY DEF IInv, ServerTyped, DecisionRows
  <2>2. view' = Rerun(p)
    BY <1>3
  <2> HIDE DEF d, n
  <2>3. u \in Views /\ OneFlag(u) /\ u.terminal = view.terminal
    BY <1>1, <2>1 DEF Views, OneFlag
  <2> HIDE DEF u, s
  <2>4. p \in Views /\ (p.terminal # view.terminal /\ p.terminal # "none" => p.terminal = s)
    BY <2>1, <2>3, ProjectedIs
  <2> HIDE DEF p
  <2>5. view'.terminal = p.terminal
    BY <2>2, <2>4, RerunOutcome
  <2> QED BY <2>4, <2>5 DEF OutcomeStep, s
<1> QED BY <1>2, <1>3 DEF Post, NetworkError, GetFails

LEMMA ButtonOutcome ==
    ASSUME IInv, IInv', ClickCancel \/ ClickResume \/ ClickRestart
    PROVE  OutcomeStep
<1>1. view \in Views /\ task'.version \in Nat
  BY DEF IInv, ViewTyped, ServerTyped
<1>2. CASE ClickCancel
  <2> DEFINE n == task'.version
             s == task'.status
             u == [view EXCEPT !.version = n]
             p == IF s \in Outcomes THEN WithTerminal(u, s) ELSE u
  <2>1. view' = Rerun(p)
    BY <1>2 DEF ClickCancel
  <2>2. u \in Views /\ u.terminal = view.terminal
    BY <1>1 DEF Views
  <2> HIDE DEF u, s
  <2>3. p \in Views /\ p.terminal \in {view.terminal, s}
    BY <2>2, WithTerminalIs
  <2> HIDE DEF p
  <2>4. view'.terminal = p.terminal
    BY <2>1, <2>3, RerunOutcome
  <2> QED BY <2>3, <2>4 DEF OutcomeStep, s
<1>3. CASE ClickResume
  <2>1. CASE UNCHANGED view
    BY <2>1 DEF OutcomeStep
  <2>2. CASE view' = Rerun([view EXCEPT !.flags = (@ \ {"failed", "lost"}) \cup {"running"},
                                        !.version = task'.version, !.terminal = "none"])
    <3> DEFINE fs == (view.flags \ {"failed", "lost"}) \cup {"running"}
               u == [view EXCEPT !.flags = fs, !.version = task'.version, !.terminal = "none"]
    <3>1. fs \in SUBSET Flags
      BY <1>1 DEF Views, Flags
    <3>2. view' = Rerun(u)
      BY <2>2
    <3> HIDE DEF fs
    <3>3. u \in Views /\ u.terminal = "none"
      BY <1>1, <3>1 DEF Views
    <3> HIDE DEF u
    <3> QED BY <3>2, <3>3, RerunOutcome DEF OutcomeStep
  <2> QED BY <1>3, <2>1, <2>2 DEF ClickResume
<1>4. CASE ClickRestart
  BY <1>4 DEF ClickRestart, Defaulted, OutcomeStep
<1> QED BY <1>2, <1>3, <1>4

LEMMA OutcomeKept ==
    ASSUME IInv, IInv', [Next]_vars
    PROVE  OutcomeStep
<1>1. view \in Views
  BY DEF IInv, ViewTyped
<1>2. CASE Next
  BY <1>1, <1>2, QuietOutcome, FlagsOutcome, PollOutcome, CheckOutcome, FrameOutcome,
     DecisionOutcome, PostOutcome, ButtonOutcome
  DEF Next, Server, ServeClarify, Unheard, Script, Clicks
<1>3. CASE UNCHANGED vars
  BY <1>3 DEF vars, OutcomeStep
<1> QED BY <1>2, <1>3

\* OutcomeIsCurrent: an outcome comes into the view only from the task's row, as it is or as it
\* was when the view last read it, never from an event that a later attempt has overtaken.
THEOREM OutcomesAreCurrent == Spec => OutcomeIsCurrent
<1>1. IInv /\ [Next]_vars
      => [view'.terminal # view.terminal /\ view'.terminal # "none"
            => view'.terminal \in {task'.status, view.status}]_vars
  BY NextKeeps, OutcomeKept DEF OutcomeStep
<1> QED BY <1>1, Invariance, PTL DEF Spec, OutcomeIsCurrent
=============================================================================
