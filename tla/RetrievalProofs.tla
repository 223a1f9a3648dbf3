-------------------------- MODULE RetrievalProofs --------------------------
(***************************************************************************)
(* Theorems about Retrieval, for any executions, sources, runs, plans,     *)
(* keys and bounds: what a call ends with is an answer some call of its    *)
(* source gave, a run pays once for one answer, the keys of the pool are   *)
(* partitioned, and no quota is exceeded.                                  *)
(*                                                                         *)
(* The three parts of the node share no variable: each has an invariant of *)
(* its own, kept by its own steps.                                         *)
(***************************************************************************)
EXTENDS Retrieval, FiniteSetTheorems, SequenceTheorems, TLAPS

-----------------------------------------------------------------------------
(***************************************************************************)
(* The flights: the invariant.                                             *)
(***************************************************************************)

Early   == {"absent", "look", "claim", "wait", "released", "again", "reserve"}
Leading == {"again", "reserve", "call", "settle", "put", "complete"}
Paying  == {"reserve", "call", "settle", "put"}
Stands  == Early \cup Leading \cup {"done"}

Results == {Nothing, BudgetFailure, Cancelled} \cup {Value(d) : d \in Calls}

FlightRows == [published : BOOLEAN, what : Results, retry : BOOLEAN, released : BOOLEAN]

FlightTyped ==
    /\ pc \in [Calls -> Stands] /\ claim \in [Calls -> Calls \cup {NoCall}]
    /\ flights \in [Calls -> FlightRows]
    /\ table \in [Runs \X Sources -> Calls \cup {NoCall}]
    /\ entry \in [Sources -> Calls \cup {NoCall}]
    /\ answer \in [Calls -> {"none", "open", "success", "failed", "dropped"}]
    /\ spent \in [Runs -> 0 .. MaxCalls] /\ out \in [Calls -> Results]
    /\ cancelled \in SUBSET Fanouts
    /\ verdict \in [Fanouts -> {"running", "cancelled", "raised", "results"}]
    /\ trouble \in Nat

\* A call answers once, while it leads.
AnswerMatches(c) ==
    /\ pc[c] \in Early => answer[c] = "none"
    /\ pc[c] = "call" => answer[c] = "open"
    /\ pc[c] = "settle" => answer[c] \in {"success", "failed"}
    /\ pc[c] = "put" => answer[c] = "success"

\* d's answer may be given to c: a good one of its source, or any of its own run.
Serves(d, c) ==
    /\ Source(d) = Source(c)
    /\ \/ answer[d] = "success"
       \/ answer[d] = "failed" /\ Identity(d) = Identity(c)

RealFor(c, x) == x = BudgetFailure \/ (\E d \in Calls : x = Value(d) /\ Serves(d, c))

\* What is stored, claimed, published and returned is real.
EntryReal(s) == entry[s] # NoCall => Source(entry[s]) = s /\ answer[entry[s]] = "success"

TableReal(i) == table[i] # NoCall => Identity(table[i]) = i

FlightReal(c) == flights[c].published => flights[c].retry \/ RealFor(c, flights[c].what)

ClaimReal(c) ==
    pc[c] \in {"wait", "released"} => claim[c] \in Calls /\ Identity(claim[c]) = Identity(c)

OutReal(c) ==
    /\ pc[c] \in {"put", "complete"} => RealFor(c, out[c]) \/ c[1] \in cancelled
    /\ pc[c] = "done" => RealFor(c, out[c]) \/ (out[c] = Cancelled /\ c[1] \in cancelled)

VerdictReal(f) ==
    verdict[f] # "running" =>
       /\ \A s \in Sources : pc[<<f, s>>] \in {"done", "absent"}
       /\ verdict[f] = "results" =>
            \A s \in Sources : pc[<<f, s>>] = "done" => out[<<f, s>>].kind = "value"

AllReal ==
    /\ \A s \in Sources : EntryReal(s)
    /\ \A i \in Runs \X Sources : TableReal(i)
    /\ \A c \in Calls : AnswerMatches(c) /\ FlightReal(c) /\ ClaimReal(c) /\ OutReal(c)
    /\ \A f \in Fanouts : VerdictReal(f)

\* While nothing disturbs the sharing, at most one call of a run and a source
\* leads, its answer is stored before it stops leading, and a call does not pay
\* once another has succeeded.
LeadsAlone(c) == pc[c] \in Leading => table[Identity(c)] = c

Shares(c) == answer[c] = "success" /\ pc[c] \notin {"settle", "put"} => entry[Source(c)] # NoCall

PaysAlone(c) ==
    pc[c] \in Paying =>
      \A d \in Calls : c # d /\ Identity(c) = Identity(d) => answer[d] # "success"

Undisturbed ==
    trouble = 0 =>
      cancelled = {} /\ \A c \in Calls : LeadsAlone(c) /\ Shares(c) /\ PaysAlone(c)

FlightInv == FlightTyped /\ AllReal /\ Undisturbed /\ OneSuccessPerRun

-----------------------------------------------------------------------------
(***************************************************************************)
(* The step of one call.                                                   *)
(***************************************************************************)

\* No other call moves, and c was under way.
OnlyMoves(c) ==
    /\ pc[c] \notin {"absent", "done"}
    /\ \A d \in Calls \ {c} : /\ pc'[d] = pc[d] /\ claim'[d] = claim[d]
                              /\ flights'[d] = flights[d]
                              /\ answer'[d] = answer[d] /\ out'[d] = out[d]
    /\ cancelled' = cancelled /\ verdict' = verdict

\* An answer stands, and what the step leaves behind is real.
LeavesReal(c) ==
    /\ answer[c] \in {"success", "failed"} => answer'[c] = answer[c]
    /\ \/ entry' = entry
       \/ entry' = [entry EXCEPT ![Source(c)] = c] /\ answer[c] = "success"
    /\ \/ table' = table
       \/ table[Identity(c)] = NoCall /\ table' = [table EXCEPT ![Identity(c)] = c]
       \/ table[Identity(c)] = c /\ table' = [table EXCEPT ![Identity(c)] = NoCall]
    /\ AnswerMatches(c)' /\ FlightReal(c)' /\ ClaimReal(c)' /\ OutReal(c)'

\* The sharing goes on, unless the step is one of trouble.
LeavesShared(c) ==
    /\ trouble' = 0 => trouble = 0
    /\ trouble' = 0 =>
         /\ LeadsAlone(c)' /\ Shares(c)'
         /\ pc'[c] \in Paying /\ pc[c] \notin Paying =>
              \A d \in Calls : c # d /\ Identity(c) = Identity(d) => answer[d] # "success"
         /\ answer'[c] = "success" /\ answer[c] # "success" => pc[c] = "call"

CallMoves(c) == FlightTyped' /\ OnlyMoves(c) /\ LeavesReal(c) /\ LeavesShared(c)

LEMMA CallsHaveParts ==
    ASSUME NEW c \in Calls
    PROVE  /\ c[1] \in Fanouts /\ Source(c) \in Sources /\ c = <<c[1], Source(c)>>
           /\ Identity(c) \in Runs \X Sources /\ c # NoCall
BY FlightAssumption DEF Calls, Source, Identity

\* An answer that served once serves for ever.
LEMMA ServesOn ==
    ASSUME NEW c \in Calls, FlightInv, CallMoves(c)
    PROVE  \A d, e \in Calls : Serves(d, e) => Serves(d, e)'
BY DEF CallMoves, OnlyMoves, LeavesReal, Serves

LEMMA CallMovesKeepsReal ==
    ASSUME NEW c \in Calls, FlightInv, CallMoves(c)
    PROVE  AllReal'
<1>1. \A d, e \in Calls : Serves(d, e) => Serves(d, e)'
  BY ServesOn
<1>2. \A d \in Calls \ {c} : /\ pc'[d] = pc[d] /\ claim'[d] = claim[d]
                             /\ flights'[d] = flights[d]
                             /\ answer'[d] = answer[d] /\ out'[d] = out[d]
  BY DEF CallMoves, OnlyMoves
<1>3. cancelled' = cancelled /\ verdict' = verdict /\ pc[c] \notin {"absent", "done"}
  BY DEF CallMoves, OnlyMoves
<1>4. ASSUME NEW s \in Sources
      PROVE  EntryReal(s)'
  <2>1. EntryReal(s) /\ entry[s] \in Calls \cup {NoCall}
    BY DEF FlightInv, AllReal, FlightTyped
  <2>2. answer[c] = "success" => answer'[c] = "success"
    BY DEF CallMoves, LeavesReal
  <2>3. entry' = entry \/ (entry' = [entry EXCEPT ![Source(c)] = c] /\ answer[c] = "success")
    BY DEF CallMoves, LeavesReal
  <2>4. entry'[s] = entry[s] \/ (entry'[s] = c /\ s = Source(c) /\ answer[c] = "success")
    BY <2>3 DEF FlightInv, FlightTyped
  <2> QED BY <1>2, <2>1, <2>2, <2>4 DEF EntryReal
<1>5. ASSUME NEW i \in Runs \X Sources
      PROVE  TableReal(i)'
  <2>1. TableReal(i) /\ table \in [Runs \X Sources -> Calls \cup {NoCall}]
    BY DEF FlightInv, AllReal, FlightTyped
  <2>2. \/ table' = table
        \/ table' = [table EXCEPT ![Identity(c)] = c]
        \/ table' = [table EXCEPT ![Identity(c)] = NoCall]
    BY DEF CallMoves, LeavesReal
  <2> HIDE DEF Identity
  <2> QED BY <2>1, <2>2 DEF TableReal
<1>6. ASSUME NEW d \in Calls \ {c}
      PROVE  AnswerMatches(d)' /\ FlightReal(d)' /\ ClaimReal(d)' /\ OutReal(d)'
  <2>1. AnswerMatches(d) /\ FlightReal(d) /\ ClaimReal(d) /\ OutReal(d)
    BY DEF FlightInv, AllReal
  <2>2. AnswerMatches(d)' /\ ClaimReal(d)'
    BY <1>2, <2>1 DEF AnswerMatches, ClaimReal
  <2>3. FlightReal(d)'
    BY <1>1, <1>2, <2>1 DEF FlightReal, RealFor
  <2>4. OutReal(d)'
    BY <1>1, <1>2, <1>3, <2>1 DEF OutReal, RealFor
  <2> QED BY <2>2, <2>3, <2>4
<1>7. ASSUME NEW f \in Fanouts
      PROVE  VerdictReal(f)'
  <2>1. VerdictReal(f)
    BY DEF FlightInv, AllReal
  <2>2. CASE verdict[f] = "running"
    BY <1>3, <2>2 DEF VerdictReal
  <2>3. CASE verdict[f] # "running"
    <3>1. \A s \in Sources : <<f, s>> \in Calls /\ <<f, s>> # c
      BY <1>3, <2>1, <2>3 DEF VerdictReal, Calls
    <3> QED BY <1>2, <1>3, <2>1, <3>1 DEF VerdictReal
  <2> QED BY <2>2, <2>3
<1> QED BY <1>4, <1>5, <1>6, <1>7 DEF AllReal, CallMoves, LeavesReal

LEMMA CallMovesKeepsShared ==
    ASSUME NEW c \in Calls, FlightInv, CallMoves(c)
    PROVE  Undisturbed' /\ OneSuccessPerRun'
<1> SUFFICES ASSUME trouble' = 0 PROVE Undisturbed' /\ OneSuccessPerRun'
  BY DEF Undisturbed, OneSuccessPerRun
<1>1. /\ cancelled = {}
      /\ \A d \in Calls : LeadsAlone(d) /\ Shares(d) /\ PaysAlone(d)
      /\ \A d, e \in Calls : Identity(d) = Identity(e) /\ answer[d] = "success"
                                /\ answer[e] = "success" => d = e
  BY DEF CallMoves, LeavesShared, FlightInv, Undisturbed, OneSuccessPerRun
<1>2. \A d \in Calls \ {c} : pc'[d] = pc[d] /\ answer'[d] = answer[d]
  BY DEF CallMoves, OnlyMoves
<1>3. /\ LeadsAlone(c)' /\ Shares(c)'
      /\ pc'[c] \in Paying /\ pc[c] \notin Paying =>
           \A d \in Calls : c # d /\ Identity(c) = Identity(d) => answer[d] # "success"
      /\ answer'[c] = "success" /\ answer[c] # "success" => pc[c] = "call"
  BY DEF CallMoves, LeavesShared
<1>4. ASSUME NEW d \in Calls \ {c}
      PROVE  LeadsAlone(d)'
  <2>1. CASE Identity(d) # Identity(c)
    <3>1. table'[Identity(d)] = table[Identity(d)]
      <4>1. Identity(d) \in Runs \X Sources
        BY CallsHaveParts
      <4> HIDE DEF Identity
      <4> QED BY <2>1, <4>1 DEF CallMoves, LeavesReal, FlightInv, FlightTyped
    <3> QED BY <1>1, <1>2, <3>1 DEF LeadsAlone
  <2>2. CASE Identity(d) = Identity(c)
    <3>1. CASE table' = table
      BY <1>1, <1>2, <3>1 DEF LeadsAlone
    <3>2. CASE table[Identity(c)] \in {NoCall, c}
      BY <1>1, <1>2, <2>2, <3>2, CallsHaveParts DEF LeadsAlone
    <3> QED BY <3>1, <3>2 DEF CallMoves, LeavesReal
  <2> QED BY <2>1, <2>2
<1>5. ASSUME NEW d \in Calls \ {c}
      PROVE  Shares(d)'
  <2>1. Source(d) \in Sources /\ c # NoCall
    BY CallsHaveParts
  <2>2. entry[Source(d)] # NoCall => entry'[Source(d)] # NoCall
    BY <2>1 DEF CallMoves, LeavesReal, FlightInv, FlightTyped
  <2> QED BY <1>1, <1>2, <2>2 DEF Shares
<1>6. ASSUME NEW d \in Calls, pc'[d] \in Paying, NEW e \in Calls, d # e, Identity(d) = Identity(e)
      PROVE  answer'[e] # "success"
  <2>1. CASE d = c
    <3>1. answer'[e] = answer[e]
      BY <1>2, <1>6, <2>1
    <3> QED BY <1>1, <1>3, <1>6, <2>1, <3>1 DEF PaysAlone
  <2>2. CASE e = c
    <3>1. pc[d] \in Paying /\ answer[c] # "success"
      BY <1>1, <1>2, <1>6, <2>2 DEF PaysAlone
    <3>2. pc[c] # "call"
      BY <1>1, <1>6, <2>2, <3>1 DEF LeadsAlone, Leading, Paying
    <3> QED BY <1>3, <2>2, <3>1, <3>2
  <2>3. CASE d # c /\ e # c
    BY <1>1, <1>2, <1>6, <2>3 DEF PaysAlone
  <2> QED BY <2>1, <2>2, <2>3
<1>7. ASSUME NEW d \in Calls, NEW e \in Calls, Identity(d) = Identity(e),
             answer'[d] = "success", answer'[e] = "success", d # e
      PROVE  FALSE
  <2>1. \A g \in Calls : g # c /\ Identity(g) = Identity(c) /\ answer'[c] = "success"
                           => answer[g] # "success"
    BY <1>1, <1>3 DEF PaysAlone, Paying
  <2> QED BY <1>1, <1>2, <1>7, <2>1
<1> QED BY <1>1, <1>3, <1>4, <1>5, <1>6, <1>7
        DEF Undisturbed, OneSuccessPerRun, PaysAlone, CallMoves, OnlyMoves

LEMMA CallMovesKeeps ==
    ASSUME NEW c \in Calls, FlightInv, CallMoves(c)
    PROVE  FlightInv'
BY CallMovesKeepsReal, CallMovesKeepsShared DEF FlightInv, CallMoves

-----------------------------------------------------------------------------
(***************************************************************************)
(* The actions of a call.                                                  *)
(***************************************************************************)

\* What the invariant says of one call, and of the answers there are.
LEMMA CallFacts ==
    ASSUME NEW c \in Calls, FlightInv
    PROVE  /\ AnswerMatches(c) /\ FlightReal(c) /\ ClaimReal(c) /\ OutReal(c)
           /\ EntryReal(Source(c))
           /\ entry[Source(c)] \in Calls \cup {NoCall} /\ table[Identity(c)] \in Calls \cup {NoCall}
           /\ TableReal(Identity(c))
           /\ trouble = 0 => LeadsAlone(c) /\ Shares(c) /\ PaysAlone(c) /\ cancelled = {}
BY CallsHaveParts DEF FlightInv, AllReal, Undisturbed, FlightTyped

LEMMA ResultsOf ==
    /\ Nothing \in Results /\ BudgetFailure \in Results /\ Cancelled \in Results
    /\ \A d \in Calls : Value(d) \in Results /\ Value(d).kind = "value" /\ Value(d).of = d
    /\ Cancelled.kind = "cancelled" /\ BudgetFailure.kind = "budget"
    /\ \A d \in Calls : Value(d) # BudgetFailure /\ Value(d) # Cancelled
    /\ BudgetFailure # Cancelled
BY DEF Results, Nothing, BudgetFailure, Cancelled, Value

\* What is published of a flight is real, or a request to retry.
LEMMA PublishedReal ==
    ASSUME NEW c \in Calls, FlightInv, NEW what \in Results,
           \/ flights' = [flights EXCEPT ![c] = Published(flights[c], what, FALSE)] /\ RealFor(c, what)'
           \/ flights' = [flights EXCEPT ![c] = Published(flights[c], what, TRUE)],
           \A d \in Calls : answer[d] \in {"success", "failed"} => answer'[d] = answer[d]
    PROVE  /\ flights' \in [Calls -> FlightRows] /\ FlightReal(c)'
           /\ \A d \in Calls \ {c} : flights'[d] = flights[d]
<1>1. flights \in [Calls -> FlightRows] /\ FlightReal(c)
  BY CallFacts DEF FlightInv, FlightTyped
<1>2. /\ Published(flights[c], what, FALSE) \in FlightRows
      /\ Published(flights[c], what, TRUE) \in FlightRows
      /\ flights[c].published => /\ Published(flights[c], what, FALSE) = flights[c]
                                 /\ Published(flights[c], what, TRUE) = flights[c]
      /\ ~flights[c].published => /\ Published(flights[c], what, FALSE).what = what
                                  /\ Published(flights[c], what, TRUE).retry
  BY <1>1 DEF Published, FlightRows
<1>3. flights' \in [Calls -> FlightRows] /\ \A d \in Calls \ {c} : flights'[d] = flights[d]
  BY <1>1, <1>2
<1>4. \/ flights'[c] = flights[c]
      \/ flights'[c].what = what /\ RealFor(c, what)'
      \/ flights'[c].retry
  BY <1>1, <1>2
<1>5. FlightReal(c)'
  BY <1>1, <1>4 DEF FlightReal, RealFor, Serves
<1> QED BY <1>3, <1>5

LEMMA LookMoves ==
    ASSUME NEW c \in Calls, FlightInv, Look(c)
    PROVE  CallMoves(c)
<1> USE DEF FlightInv
<1>1. pc[c] = "look" /\ cancelled' = cancelled /\ verdict' = verdict /\ answer' = answer
      /\ entry' = entry /\ table' = table /\ claim' = claim /\ flights' = flights
      /\ spent' = spent
  BY DEF Look, At
<1>2. PICK hit \in BOOLEAN : /\ Get(c, hit)
                             /\ IF hit THEN Ends(c, Hit(c))
                                       ELSE Goto(c, "claim") /\ UNCHANGED out
  BY DEF Look
<1>3. trouble' \in Nat /\ (trouble' = 0 => trouble = 0)
  BY <1>2 DEF Get, Trouble, FlightTyped
<1>4. hit => /\ entry[Source(c)] \in Calls /\ Hit(c) \in Results /\ RealFor(c, Hit(c))
  BY <1>2, CallFacts, ResultsOf DEF Get, EntryReal, RealFor, Serves, Hit
<1>5. /\ pc' = [pc EXCEPT ![c] = IF hit THEN "done" ELSE "claim"]
      /\ out' = IF hit THEN [out EXCEPT ![c] = Hit(c)] ELSE out
  BY <1>2 DEF Ends, Goto
<1>6. FlightTyped'
  BY <1>1, <1>3, <1>4, <1>5 DEF FlightTyped, Stands, Early, Leading
<1>7. OnlyMoves(c)
  BY <1>1, <1>5 DEF OnlyMoves, FlightTyped
<1>8. pc'[c] \in {"done", "claim"} /\ (pc'[c] = "done" => hit /\ out'[c] = Hit(c))
  BY <1>5 DEF FlightTyped
<1>9. LeavesReal(c)
  <2>1. OutReal(c)'
    BY <1>1, <1>4, <1>8 DEF OutReal, RealFor, Serves
  <2> QED BY <1>1, <1>8, <2>1, CallFacts DEF LeavesReal, AnswerMatches, FlightReal, ClaimReal, Early, RealFor, Serves
<1>10. LeavesShared(c)
  BY <1>1, <1>3, <1>8, CallFacts DEF LeavesShared, LeadsAlone, Shares, AnswerMatches, Early, Leading, Paying
<1> QED BY <1>6, <1>7, <1>9, <1>10 DEF CallMoves

LEMMA ClaimMoves ==
    ASSUME NEW c \in Calls, FlightInv, Claim(c)
    PROVE  CallMoves(c)
<1> USE DEF FlightInv
<1> DEFINE i == Identity(c)
<1>1. /\ pc[c] = "claim" /\ cancelled' = cancelled /\ verdict' = verdict /\ answer' = answer
      /\ entry' = entry /\ flights' = flights /\ out' = out /\ spent' = spent /\ trouble' = trouble
  BY DEF Claim, At
<1>2. i \in Runs \X Sources /\ table[i] \in Calls \cup {NoCall} /\ c # NoCall
  BY CallsHaveParts, CallFacts
<1>3. CASE table[i] # NoCall
  <2>1. /\ claim' = [claim EXCEPT ![c] = table[i]] /\ table' = table
        /\ pc' = [pc EXCEPT ![c] = "wait"]
    BY <1>3 DEF Claim, Flying, Goto
  <2>2. FlightTyped'
    BY <1>1, <1>2, <1>3, <2>1 DEF FlightTyped, Stands, Early
  <2>3. OnlyMoves(c)
    BY <1>1, <2>1 DEF OnlyMoves, FlightTyped
  <2>4. pc'[c] = "wait" /\ claim'[c] = table[i]
    BY <2>1 DEF FlightTyped
  <2>5. LeavesReal(c)
    BY <1>1, <1>2, <1>3, <2>1, <2>4, CallFacts
       DEF LeavesReal, AnswerMatches, FlightReal, ClaimReal, OutReal, TableReal, Early, RealFor, Serves
  <2>6. LeavesShared(c)
    BY <1>1, <2>4, CallFacts DEF LeavesShared, LeadsAlone, Shares, AnswerMatches, Early, Leading, Paying
  <2> QED BY <2>2, <2>3, <2>5, <2>6 DEF CallMoves
<1>4. CASE table[i] = NoCall
  <2>1. /\ claim' = [claim EXCEPT ![c] = c] /\ table' = [table EXCEPT ![i] = c]
        /\ pc' = [pc EXCEPT ![c] = "again"]
    BY <1>4 DEF Claim, Flying, Goto
  <2>2. FlightTyped'
    BY <1>1, <1>2, <1>4, <2>1 DEF FlightTyped, Stands, Early
  <2>3. OnlyMoves(c)
    BY <1>1, <2>1 DEF OnlyMoves, FlightTyped
  <2>4. pc'[c] = "again" /\ claim'[c] = c /\ table'[i] = c
    BY <1>2, <2>1 DEF FlightTyped
  <2>5. LeavesReal(c)
    BY <1>1, <1>2, <1>4, <2>1, <2>4, CallFacts
       DEF LeavesReal, AnswerMatches, FlightReal, ClaimReal, OutReal, Early, RealFor, Serves
  <2>6. LeavesShared(c)
    BY <1>1, <2>4, CallFacts DEF LeavesShared, LeadsAlone, Shares, AnswerMatches, Early, Leading, Paying
  <2> QED BY <2>2, <2>3, <2>5, <2>6 DEF CallMoves
<1> QED BY <1>3, <1>4

LEMMA LookAgainMoves ==
    ASSUME NEW c \in Calls, FlightInv, LookAgain(c)
    PROVE  CallMoves(c)
<1> USE DEF FlightInv
<1>1. /\ pc[c] = "again" /\ cancelled' = cancelled /\ verdict' = verdict /\ answer' = answer
      /\ entry' = entry /\ table' = table /\ claim' = claim /\ spent' = spent
  BY DEF LookAgain, At
<1>2. PICK hit \in BOOLEAN :
        /\ Get(c, hit)
        /\ IF hit THEN /\ Publish(c, Hit(c), FALSE)
                       /\ out' = [out EXCEPT ![c] = Hit(c)]
                       /\ Goto(c, "complete")
                  ELSE Goto(c, "reserve") /\ UNCHANGED <<flights, out>>
  BY DEF LookAgain
<1>3. trouble' \in Nat /\ (trouble' = 0 => trouble = 0 /\ hit = (entry[Source(c)] # NoCall))
  BY <1>2 DEF Get, Trouble, FlightTyped
<1>4. hit => /\ entry[Source(c)] \in Calls /\ Hit(c) \in Results /\ RealFor(c, Hit(c))
  BY <1>2, CallFacts, ResultsOf DEF Get, EntryReal, RealFor, Serves, Hit
<1>5. /\ pc' = [pc EXCEPT ![c] = IF hit THEN "complete" ELSE "reserve"]
      /\ out' = IF hit THEN [out EXCEPT ![c] = Hit(c)] ELSE out
      /\ flights' = IF hit THEN [flights EXCEPT ![c] = Published(flights[c], Hit(c), FALSE)]
                           ELSE flights
  BY <1>2 DEF Goto, Publish
<1>6. flights' \in [Calls -> FlightRows] /\ FlightReal(c)'
      /\ \A d \in Calls \ {c} : flights'[d] = flights[d]
  <2>1. CASE hit
    <3>1. flights' = [flights EXCEPT ![c] = Published(flights[c], Hit(c), FALSE)]
      BY <1>5, <2>1
    <3>2. PICK what \in Results : what = Hit(c)
      BY <1>4, <2>1
    <3>3. RealFor(c, what)'
      BY <1>1, <1>4, <2>1, <3>2 DEF RealFor, Serves
    <3> QED BY <1>1, <3>1, <3>2, <3>3, PublishedReal
  <2>2. CASE ~hit
    BY <1>1, <1>5, <2>2, CallFacts DEF FlightTyped, FlightReal, RealFor, Serves
  <2> QED BY <2>1, <2>2
<1>7. FlightTyped'
  BY <1>1, <1>3, <1>4, <1>5, <1>6 DEF FlightTyped, Stands, Early, Leading
<1>8. OnlyMoves(c)
  BY <1>1, <1>5, <1>6 DEF OnlyMoves, FlightTyped
<1>9. /\ pc'[c] \in {"complete", "reserve"} /\ (pc'[c] = "complete" => hit /\ out'[c] = Hit(c))
      /\ pc'[c] = "reserve" => ~hit
  BY <1>5 DEF FlightTyped
<1>10. LeavesReal(c)
  <2>1. OutReal(c)'
    BY <1>1, <1>4, <1>9 DEF OutReal, RealFor, Serves
  <2> QED BY <1>1, <1>6, <1>9, <2>1, CallFacts DEF LeavesReal, AnswerMatches, ClaimReal, Early
<1>11. LeavesShared(c)
  <2>1. ASSUME trouble' = 0, pc'[c] \in Paying, NEW d \in Calls, c # d, Identity(c) = Identity(d),
               answer[d] = "success"
        PROVE  FALSE
    <3>1. entry[Source(c)] = NoCall /\ trouble = 0
      BY <1>3, <1>9, <2>1 DEF Paying
    <3>2. Source(d) = Source(c)
      BY <2>1 DEF Identity
    <3>3. pc[d] \in Leading
      BY <2>1, <3>1, <3>2, CallFacts DEF Shares, Leading
    <3>4. table[Identity(c)] = c /\ table[Identity(d)] = d
      BY <1>1, <3>1, <3>3, CallFacts DEF LeadsAlone, Leading
    <3> QED BY <2>1, <3>4
  <2>2. trouble' = 0 => LeadsAlone(c)' /\ Shares(c)'
    BY <1>1, <1>3, CallFacts DEF LeadsAlone, Shares, AnswerMatches, Early, Leading
  <2> QED BY <1>1, <1>3, <2>1, <2>2 DEF LeavesShared
<1> QED BY <1>7, <1>8, <1>10, <1>11 DEF CallMoves

\* A failure of the budget is published to the followers and raised.
LEMMA BudgetFailureMoves ==
    ASSUME NEW c \in Calls, FlightInv, RaisesBudgetFailure(c), pc[c] \in {"reserve", "settle"},
           cancelled' = cancelled, verdict' = verdict, claim' = claim, table' = table,
           entry' = entry, answer' = answer, spent' = spent, trouble' \in Nat,
           trouble' = 0 => trouble = 0 /\ pc[c] = "reserve"
    PROVE  CallMoves(c)
<1> USE DEF FlightInv
<1>1. /\ pc' = [pc EXCEPT ![c] = "complete"] /\ out' = [out EXCEPT ![c] = BudgetFailure]
      /\ flights' = [flights EXCEPT ![c] = Published(flights[c], BudgetFailure, FALSE)]
  BY DEF RaisesBudgetFailure, Publish, Goto
<1>2. flights' \in [Calls -> FlightRows] /\ FlightReal(c)'
      /\ \A d \in Calls \ {c} : flights'[d] = flights[d]
  <2>1. PICK what \in Results : what = BudgetFailure
    BY ResultsOf
  <2>2. RealFor(c, what)'
    BY <2>1 DEF RealFor
  <2> QED BY <1>1, <2>1, <2>2, PublishedReal
<1>3. FlightTyped'
  BY <1>1, <1>2, ResultsOf DEF FlightTyped, Stands, Leading
<1>4. OnlyMoves(c)
  BY <1>1, <1>2 DEF OnlyMoves, FlightTyped
<1>5. pc'[c] = "complete" /\ out'[c] = BudgetFailure
  BY <1>1 DEF FlightTyped
<1>6. LeavesReal(c)
  BY <1>2, <1>5 DEF LeavesReal, AnswerMatches, ClaimReal, OutReal, RealFor, Early
<1>7. LeavesShared(c)
  BY <1>5, CallFacts DEF LeavesShared, LeadsAlone, Shares, AnswerMatches, Early, Leading, Paying
<1> QED BY <1>3, <1>4, <1>6, <1>7 DEF CallMoves

LEMMA ReserveMoves ==
    ASSUME NEW c \in Calls, FlightInv, Reserve(c)
    PROVE  CallMoves(c)
<1> USE DEF FlightInv
<1>1. /\ pc[c] = "reserve" /\ cancelled' = cancelled /\ verdict' = verdict /\ claim' = claim
      /\ table' = table /\ entry' = entry /\ trouble' = trouble /\ trouble \in Nat
  BY DEF Reserve, At, FlightTyped
<1> DEFINE r == RunOf[c[1]]
<1>2. CASE spent[r] < MaxCalls
  <2>1. /\ spent' = [spent EXCEPT ![r] = @ + 1] /\ answer' = [answer EXCEPT ![c] = "open"]
        /\ pc' = [pc EXCEPT ![c] = "call"] /\ flights' = flights /\ out' = out
    BY <1>2 DEF Reserve, Goto
  <2>2. r \in Runs /\ spent' \in [Runs -> 0 .. MaxCalls]
    <3>1. r \in Runs /\ MaxCalls \in Nat
      BY FlightAssumption, CallsHaveParts
    <3> HIDE DEF r
    <3> QED BY <1>2, <2>1, <3>1 DEF FlightTyped
  <2>3. FlightTyped'
    BY <1>1, <2>1, <2>2 DEF FlightTyped, Stands, Leading
  <2>4. OnlyMoves(c)
    BY <1>1, <2>1 DEF OnlyMoves, FlightTyped
  <2>5. pc'[c] = "call" /\ answer'[c] = "open" /\ answer[c] = "none"
    BY <1>1, <2>1, CallFacts DEF FlightTyped, AnswerMatches, Early
  <2>6. FlightReal(c)'
    <3>1. \A d \in Calls : answer[d] \in {"success", "failed"} => answer'[d] = answer[d]
      BY <2>1, <2>5 DEF FlightTyped
    <3> QED BY <2>1, <3>1, CallFacts DEF FlightReal, RealFor, Serves
  <2>7. LeavesReal(c)
    BY <1>1, <2>1, <2>5, <2>6 DEF LeavesReal, AnswerMatches, ClaimReal, OutReal, Early
  <2>8. LeavesShared(c)
    BY <1>1, <2>5, CallFacts DEF LeavesShared, LeadsAlone, Shares, Leading, Paying
  <2> QED BY <2>3, <2>4, <2>7, <2>8 DEF CallMoves
<1>3. CASE ~(spent[r] < MaxCalls)
  BY <1>1, <1>3, BudgetFailureMoves DEF Reserve
<1> QED BY <1>2, <1>3

LEMMA AnswerMoves ==
    ASSUME NEW c \in Calls, FlightInv, NEW status \in {"success", "failed"}, Answer(c, status),
           pc[c] = "call"
    PROVE  CallMoves(c)
<1> USE DEF FlightInv
<1>1. /\ answer' = [answer EXCEPT ![c] = status] /\ pc' = [pc EXCEPT ![c] = "settle"]
      /\ claim' = claim /\ flights' = flights /\ table' = table /\ entry' = entry
      /\ spent' = spent /\ out' = out /\ cancelled' = cancelled /\ verdict' = verdict
      /\ trouble' = trouble
  BY DEF Answer, Goto
<1>2. FlightTyped'
  BY <1>1 DEF FlightTyped, Stands, Leading
<1>3. OnlyMoves(c)
  BY <1>1 DEF OnlyMoves, FlightTyped
<1>4. pc'[c] = "settle" /\ answer'[c] = status /\ answer[c] = "open"
  BY <1>1, CallFacts DEF FlightTyped, AnswerMatches
<1>5. FlightReal(c)'
  <2>1. \A d \in Calls : answer[d] \in {"success", "failed"} => answer'[d] = answer[d]
    BY <1>1, <1>4 DEF FlightTyped
  <2> QED BY <1>1, <2>1, CallFacts DEF FlightReal, RealFor, Serves
<1>6. LeavesReal(c)
  BY <1>1, <1>4, <1>5 DEF LeavesReal, AnswerMatches, ClaimReal, OutReal, Early
<1>7. LeavesShared(c)
  BY <1>1, <1>4, CallFacts DEF LeavesShared, LeadsAlone, Shares, Leading, Paying
<1> QED BY <1>2, <1>3, <1>6, <1>7 DEF CallMoves

LEMMA SettleMoves ==
    ASSUME NEW c \in Calls, FlightInv, Settle(c)
    PROVE  CallMoves(c)
<1> USE DEF FlightInv
<1>1. /\ pc[c] = "settle" /\ cancelled' = cancelled /\ verdict' = verdict /\ claim' = claim
      /\ table' = table /\ entry' = entry /\ answer' = answer /\ spent' = spent /\ trouble \in Nat
  BY DEF Settle, At, FlightTyped
<1>2. CASE Trouble /\ RaisesBudgetFailure(c)
  <2>1. trouble' \in Nat /\ trouble' # 0
    BY <1>1, <1>2 DEF Trouble
  <2> QED BY <1>1, <1>2, <2>1, BudgetFailureMoves
<1>3. CASE ~(Trouble /\ RaisesBudgetFailure(c))
  <2>1. /\ trouble' = trouble /\ out' = [out EXCEPT ![c] = Value(c)]
        /\ flights' = [flights EXCEPT ![c] = Published(flights[c], Value(c), FALSE)]
        /\ pc' = [pc EXCEPT ![c] = IF answer[c] = "success" THEN "put" ELSE "complete"]
    BY <1>3 DEF Settle, Publish, Goto
  <2>2. answer[c] \in {"success", "failed"} /\ Value(c) \in Results /\ RealFor(c, Value(c))'
    BY <1>1, CallFacts, ResultsOf DEF AnswerMatches, RealFor, Serves
  <2>3. flights' \in [Calls -> FlightRows] /\ FlightReal(c)'
        /\ \A d \in Calls \ {c} : flights'[d] = flights[d]
    <3>1. PICK what \in Results : what = Value(c)
      BY <2>2
    <3>2. RealFor(c, what)'
      BY <1>1, <2>2, <3>1 DEF RealFor, Serves
    <3> QED BY <1>1, <2>1, <3>1, <3>2, PublishedReal
  <2>4. FlightTyped'
    BY <1>1, <2>1, <2>2, <2>3 DEF FlightTyped, Stands, Leading
  <2>5. OnlyMoves(c)
    BY <1>1, <2>1, <2>3 DEF OnlyMoves, FlightTyped
  <2>6. /\ pc'[c] = IF answer[c] = "success" THEN "put" ELSE "complete"
        /\ out'[c] = Value(c)
    BY <2>1 DEF FlightTyped
  <2>7. OutReal(c)'
    BY <1>1, <2>2, <2>6 DEF OutReal, RealFor, Serves
  <2>8. LeavesReal(c)
    BY <1>1, <2>2, <2>3, <2>6, <2>7 DEF LeavesReal, AnswerMatches, ClaimReal, Early
  <2>9. LeavesShared(c)
    BY <1>1, <2>1, <2>2, <2>6, CallFacts DEF LeavesShared, LeadsAlone, Shares, Leading, Paying
  <2> QED BY <2>4, <2>5, <2>8, <2>9 DEF CallMoves
<1> QED BY <1>2, <1>3

LEMMA PutMoves ==
    ASSUME NEW c \in Calls, FlightInv, Put(c)
    PROVE  CallMoves(c)
<1> USE DEF FlightInv
<1>1. /\ pc[c] = "put" /\ cancelled' = cancelled /\ verdict' = verdict /\ claim' = claim
      /\ table' = table /\ answer' = answer /\ spent' = spent /\ out' = out /\ flights' = flights
      /\ pc' = [pc EXCEPT ![c] = "complete"]
      /\ \/ entry' = [entry EXCEPT ![Source(c)] = c] /\ trouble' = trouble
         \/ entry' = entry /\ trouble' = trouble + 1
  BY DEF Put, At, Goto, Stored, Trouble
<1>2. Source(c) \in Sources /\ c # NoCall /\ trouble \in Nat
  BY CallsHaveParts DEF FlightTyped
<1>3. FlightTyped'
  BY <1>1, <1>2 DEF FlightTyped, Stands, Leading
<1>4. OnlyMoves(c)
  BY <1>1 DEF OnlyMoves, FlightTyped
<1>5. pc'[c] = "complete" /\ answer[c] = "success"
  BY <1>1, CallFacts DEF FlightTyped, AnswerMatches
<1>6. LeavesReal(c)
  BY <1>1, <1>5, CallFacts DEF LeavesReal, AnswerMatches, FlightReal, ClaimReal, OutReal, Early,
                               RealFor, Serves
<1>7. trouble' = 0 => trouble = 0 /\ entry'[Source(c)] # NoCall
  BY <1>1, <1>2 DEF FlightTyped
<1>8. LeavesShared(c)
  BY <1>1, <1>5, <1>7, CallFacts DEF LeavesShared, LeadsAlone, Shares, Leading, Paying
<1> QED BY <1>3, <1>4, <1>6, <1>8 DEF CallMoves

LEMMA CompleteMoves ==
    ASSUME NEW c \in Calls, FlightInv, Complete(c)
    PROVE  CallMoves(c)
<1> USE DEF FlightInv
<1> DEFINE i == Identity(c)
           what == IF c[1] \in cancelled THEN Cancelled ELSE out[c]
<1>1. /\ pc[c] = "complete" /\ cancelled' = cancelled /\ verdict' = verdict /\ claim' = claim
      /\ entry' = entry /\ answer' = answer /\ spent' = spent /\ trouble' = trouble
      /\ table' = [table EXCEPT ![i] = IF @ = c THEN NoCall ELSE @]
      /\ pc' = [pc EXCEPT ![c] = "done"] /\ out' = [out EXCEPT ![c] = what]
      /\ flights' = [flights EXCEPT ![c] = Released(flights[c])]
  BY DEF Complete, Ends, Goto
<1>2. i \in Runs \X Sources /\ what \in Results
  BY CallsHaveParts, ResultsOf DEF FlightTyped
<1>3. /\ Released(flights[c]) \in FlightRows
      /\ \/ flights[c].published /\ Released(flights[c]).what = flights[c].what
                                 /\ Released(flights[c]).retry = flights[c].retry
         \/ Released(flights[c]).retry
  <2>1. flights[c] \in FlightRows
    BY DEF FlightTyped
  <2>2. CASE flights[c].published
    BY <2>1, <2>2 DEF Released, Published, FlightRows
  <2>3. CASE ~flights[c].published
    <3>1. /\ Published(flights[c], Nothing, TRUE) \in FlightRows
          /\ Published(flights[c], Nothing, TRUE).retry
      BY <2>1, <2>3, ResultsOf DEF Published, FlightRows
    <3> QED BY <3>1 DEF Released, FlightRows
  <2> QED BY <2>2, <2>3
<1>4. FlightTyped'
  <2>1. table' \in [Runs \X Sources -> Calls \cup {NoCall}]
    <3>1. table \in [Runs \X Sources -> Calls \cup {NoCall}]
      BY DEF FlightTyped
    <3> HIDE DEF i
    <3> QED BY <1>1, <1>2, <3>1
  <2>2. out' \in [Calls -> Results]
    <3> HIDE DEF what
    <3> QED BY <1>1, <1>2 DEF FlightTyped
  <2> QED BY <1>1, <1>3, <2>1, <2>2 DEF FlightTyped, Stands
<1>5. OnlyMoves(c)
  BY <1>1 DEF OnlyMoves, FlightTyped
<1>6. pc'[c] = "done" /\ out'[c] = what /\ flights'[c] = Released(flights[c])
  BY <1>1 DEF FlightTyped
<1>7. FlightReal(c)'
  BY <1>1, <1>3, <1>6, CallFacts DEF FlightReal, RealFor, Serves
<1>8. OutReal(c)'
  BY <1>1, <1>6, CallFacts DEF OutReal, RealFor, Serves
<1>9. table' = table \/ (table[i] = c /\ table' = [table EXCEPT ![i] = NoCall])
  <2> HIDE DEF i
  <2> QED BY <1>1, <1>2 DEF FlightTyped
<1>10. LeavesReal(c)
  BY <1>1, <1>6, <1>7, <1>8, <1>9, CallFacts DEF LeavesReal, AnswerMatches, ClaimReal, Early
<1>11. LeavesShared(c)
  BY <1>1, <1>6, CallFacts DEF LeavesShared, LeadsAlone, Shares, Leading, Paying
<1> QED BY <1>4, <1>5, <1>10, <1>11 DEF CallMoves

LEMMA WaitMoves ==
    ASSUME NEW c \in Calls, FlightInv, Wait(c)
    PROVE  CallMoves(c)
<1> USE DEF FlightInv
<1> DEFINE flight == flights[claim[c]]
<1>1. /\ pc[c] = "wait" /\ flight.published /\ cancelled' = cancelled /\ verdict' = verdict
      /\ table' = table /\ entry' = entry /\ answer' = answer /\ claim' = claim
      /\ spent' = spent /\ trouble' = trouble /\ flights' = flights
      /\ pc' = [pc EXCEPT ![c] = IF flight.retry THEN "released" ELSE "done"]
      /\ out' = IF flight.retry THEN out ELSE [out EXCEPT ![c] = flight.what]
  BY DEF Wait, At, Goto, Ends
<1>2. claim[c] \in Calls /\ Identity(claim[c]) = Identity(c)
  BY <1>1, CallFacts DEF ClaimReal
<1>3. flight \in FlightRows /\ FlightReal(claim[c])
  BY <1>2, CallFacts DEF FlightTyped
<1>4. flight.what \in Results /\ (flight.retry \/ RealFor(c, flight.what))
  <2>1. Source(claim[c]) = Source(c)
    BY <1>2 DEF Identity
  <2> QED BY <1>1, <1>2, <1>3, <2>1 DEF FlightRows, FlightReal, RealFor, Serves
<1>5. FlightTyped'
  <2> HIDE DEF flight
  <2> QED BY <1>1, <1>4 DEF FlightTyped, Stands, Early
<1>6. OnlyMoves(c)
  BY <1>1 DEF OnlyMoves, FlightTyped
<1>7. /\ pc'[c] = IF flight.retry THEN "released" ELSE "done"
      /\ ~flight.retry => out'[c] = flight.what
  <2> HIDE DEF flight
  <2> QED BY <1>1 DEF FlightTyped
<1>8. OutReal(c)'
  <2> HIDE DEF flight
  <2> QED BY <1>1, <1>4, <1>7 DEF OutReal, RealFor, Serves
<1>9. LeavesReal(c)
  <2> HIDE DEF flight
  <2> QED BY <1>1, <1>2, <1>7, <1>8, CallFacts
      DEF LeavesReal, AnswerMatches, FlightReal, ClaimReal, Early, RealFor, Serves
<1>10. LeavesShared(c)
  <2> HIDE DEF flight
  <2> QED BY <1>1, <1>7, CallFacts
      DEF LeavesShared, LeadsAlone, Shares, AnswerMatches, Early, Leading, Paying
<1> QED BY <1>5, <1>6, <1>9, <1>10 DEF CallMoves

LEMMA TryAgainMoves ==
    ASSUME NEW c \in Calls, FlightInv, TryAgain(c)
    PROVE  CallMoves(c)
<1> USE DEF FlightInv
<1>1. /\ pc[c] = "released" /\ cancelled' = cancelled /\ verdict' = verdict
      /\ table' = table /\ entry' = entry /\ answer' = answer /\ claim' = claim /\ out' = out
      /\ spent' = spent /\ trouble' = trouble /\ flights' = flights
      /\ pc' = [pc EXCEPT ![c] = "look"]
  BY DEF TryAgain, At, Goto
<1>2. FlightTyped'
  BY <1>1 DEF FlightTyped, Stands, Early
<1>3. OnlyMoves(c)
  BY <1>1 DEF OnlyMoves, FlightTyped
<1>4. pc'[c] = "look"
  BY <1>1 DEF FlightTyped
<1>5. LeavesReal(c)
  BY <1>1, <1>4, CallFacts
     DEF LeavesReal, AnswerMatches, FlightReal, ClaimReal, OutReal, Early, RealFor, Serves
<1>6. LeavesShared(c)
  BY <1>1, <1>4, CallFacts
     DEF LeavesShared, LeadsAlone, Shares, AnswerMatches, Early, Leading, Paying
<1> QED BY <1>2, <1>3, <1>5, <1>6 DEF CallMoves

\* A cancellation is trouble already: it only has to leave behind what is real.
LEMMA InterruptedMoves ==
    ASSUME NEW c \in Calls, FlightInv, Interrupted(c)
    PROVE  CallMoves(c)
<1> USE DEF FlightInv
<1>1. /\ c[1] \in cancelled /\ cancelled' = cancelled /\ verdict' = verdict /\ table' = table
      /\ claim' = claim /\ trouble' = trouble /\ trouble # 0
  BY CallFacts DEF Interrupted
<1>2. LeavesShared(c)
  BY <1>1 DEF LeavesShared
<1>3. CASE pc[c] \in {"look", "claim", "wait", "released"} /\ Ends(c, Cancelled)
             /\ UNCHANGED <<flights, entry, answer, spent>>
  <2>1. /\ pc' = [pc EXCEPT ![c] = "done"] /\ out' = [out EXCEPT ![c] = Cancelled]
        /\ flights' = flights /\ entry' = entry /\ answer' = answer /\ spent' = spent
    BY <1>3 DEF Ends, Goto
  <2>2. FlightTyped'
    BY <1>1, <2>1, ResultsOf DEF FlightTyped, Stands
  <2>3. OnlyMoves(c)
    BY <1>1, <1>3, <2>1 DEF OnlyMoves, FlightTyped
  <2>4. pc'[c] = "done" /\ out'[c] = Cancelled
    BY <2>1 DEF FlightTyped
  <2>5. LeavesReal(c)
    BY <1>1, <2>1, <2>4, CallFacts
       DEF LeavesReal, AnswerMatches, FlightReal, ClaimReal, OutReal, Early, RealFor, Serves
  <2> QED BY <1>2, <2>2, <2>3, <2>5 DEF CallMoves
<1>4. CASE ~(pc[c] \in {"look", "claim", "wait", "released"} /\ Ends(c, Cancelled)
             /\ UNCHANGED <<flights, entry, answer, spent>>)
  <2>1. /\ pc' = [pc EXCEPT ![c] = "complete"] /\ out' = out
        /\ pc[c] \in {"again", "reserve", "call", "settle", "put"}
    BY <1>4 DEF Interrupted, Goto
  <2>2. /\ entry' = entry \/ (entry' = [entry EXCEPT ![Source(c)] = c] /\ pc[c] = "put")
        /\ answer' = answer \/ (answer' = [answer EXCEPT ![c] = "dropped"] /\ pc[c] = "call")
        /\ flights' = flights \/ Publish(c, Nothing, TRUE)
        /\ spent' = spent \/ (/\ spent[RunOf[c[1]]] < MaxCalls
                              /\ spent' = [spent EXCEPT ![RunOf[c[1]]] = @ + 1])
    BY <1>4 DEF Interrupted, Yields, Stored
  <2>3. /\ answer[c] # "open" => answer'[c] = answer[c]
        /\ answer[c] \in {"success", "failed"} => answer'[c] = answer[c]
        /\ pc[c] = "put" => answer[c] = "success"
        /\ \A d \in Calls : answer[d] \in {"success", "failed"} => answer'[d] = answer[d]
        /\ \A d \in Calls \ {c} : answer'[d] = answer[d]
        /\ answer' \in [Calls -> {"none", "open", "success", "failed", "dropped"}]
    BY <2>2, CallFacts DEF AnswerMatches, FlightTyped
  <2>4. /\ flights' \in [Calls -> FlightRows] /\ FlightReal(c)'
        /\ \A d \in Calls \ {c} : flights'[d] = flights[d]
    <3>1. CASE flights' = flights
      BY <2>3, <3>1, CallFacts DEF FlightReal, RealFor, Serves, FlightTyped
    <3>2. CASE Publish(c, Nothing, TRUE)
      <4>1. PICK what \in Results : what = Nothing
        BY ResultsOf
      <4>2. flights' = [flights EXCEPT ![c] = Published(flights[c], what, TRUE)]
        BY <3>2, <4>1 DEF Publish
      <4> QED BY <2>3, <4>2, PublishedReal
    <3> QED BY <2>2, <3>1, <3>2
  <2>5. spent' \in [Runs -> 0 .. MaxCalls]
    <3>1. RunOf[c[1]] \in Runs /\ MaxCalls \in Nat
      BY FlightAssumption, CallsHaveParts
    <3>2. spent \in [Runs -> 0 .. MaxCalls]
      BY DEF FlightTyped
    <3> QED BY <2>2, <3>1, <3>2
  <2>6. FlightTyped'
    <3>1. Source(c) \in Sources
      BY CallsHaveParts
    <3> QED BY <1>1, <2>1, <2>2, <2>3, <2>4, <2>5, <3>1 DEF FlightTyped, Stands, Leading
  <2>7. OnlyMoves(c)
    BY <1>1, <2>1, <2>3, <2>4 DEF OnlyMoves, FlightTyped
  <2>8. pc'[c] = "complete"
    BY <2>1 DEF FlightTyped
  <2>9. LeavesReal(c)
    BY <1>1, <2>2, <2>3, <2>4, <2>8 DEF LeavesReal, AnswerMatches, ClaimReal, OutReal, Early
  <2> QED BY <1>2, <2>6, <2>7, <2>9 DEF CallMoves
<1> QED BY <1>3, <1>4

LEMMA FlightStepKeeps ==
    ASSUME NEW c \in Calls, FlightInv,
           \/ FlightStep(c)
           \/ \E status \in {"success", "failed"} : Answer(c, status)
    PROVE  FlightInv'
<1>1. CallMoves(c)
  <2>1. CASE FlightStep(c)
    BY <2>1, LookMoves, ClaimMoves, LookAgainMoves, ReserveMoves, SettleMoves, PutMoves,
       CompleteMoves, WaitMoves, TryAgainMoves, InterruptedMoves DEF FlightStep
  <2>2. CASE \E status \in {"success", "failed"} : Answer(c, status)
    BY <2>2, AnswerMoves DEF Answer, At
  <2> QED BY <2>1, <2>2
<1> QED BY <1>1, CallMovesKeeps

-----------------------------------------------------------------------------
(***************************************************************************)
(* The steps of the node and of its surroundings.                          *)
(***************************************************************************)

LEMMA FlightStarts == FlightInit => FlightInv
<1> SUFFICES ASSUME FlightInit PROVE FlightInv
  OBVIOUS
<1>1. PICK plan \in Plans : pc = [c \in Calls |-> IF c \in plan THEN "look" ELSE "absent"]
  BY DEF FlightInit
<1>2. FlightTyped
  BY <1>1, FlightAssumption, ResultsOf
     DEF FlightInit, FlightTyped, Stands, Early, FlightRows, NewFlight
<1>3. \A c \in Calls : /\ pc[c] \in {"look", "absent"} /\ answer[c] = "none"
                       /\ ~flights[c].published
  BY <1>1 DEF FlightInit, NewFlight
<1>4. AllReal
  BY <1>3 DEF FlightInit, AllReal, EntryReal, TableReal, AnswerMatches, FlightReal, ClaimReal,
              OutReal, VerdictReal, Early
<1>5. Undisturbed /\ OneSuccessPerRun
  BY <1>3 DEF FlightInit, Undisturbed, LeadsAlone, Shares, PaysAlone, OneSuccessPerRun,
              Leading, Paying
<1> QED BY <1>2, <1>4, <1>5 DEF FlightInv

LEMMA FlightRests == FlightInv /\ UNCHANGED flightVars => FlightInv'
BY DEF FlightInv, FlightTyped, AllReal, EntryReal, TableReal, AnswerMatches, FlightReal, ClaimReal,
       OutReal, VerdictReal, Undisturbed, LeadsAlone, Shares, PaysAlone, OneSuccessPerRun,
       RealFor, Serves, flightVars

LEMMA GatherKeeps ==
    ASSUME NEW f \in Fanouts, FlightInv, Gather(f)
    PROVE  FlightInv'
<1> DEFINE how == CASE f \in cancelled -> "cancelled"
                    [] \E s \in Sources : out[<<f, s>>] = BudgetFailure -> "raised"
                    [] OTHER -> "results"
<1>1. /\ pc' = pc /\ claim' = claim /\ flights' = flights /\ table' = table /\ entry' = entry
      /\ answer' = answer /\ spent' = spent /\ out' = out /\ cancelled' = cancelled
      /\ trouble' = trouble /\ verdict' = [verdict EXCEPT ![f] = how]
      /\ \A s \in Sources : pc[<<f, s>>] \in {"done", "absent"}
  BY DEF Gather
<1>2. how \in {"cancelled", "raised", "results"}
  OBVIOUS
<1>3. FlightTyped'
  <2> HIDE DEF how
  <2> QED BY <1>1, <1>2 DEF FlightInv, FlightTyped
<1>4. how = "results" =>
        \A s \in Sources : pc[<<f, s>>] = "done" => out[<<f, s>>].kind = "value"
  <2> SUFFICES ASSUME how = "results", NEW s \in Sources, pc[<<f, s>>] = "done"
               PROVE  out[<<f, s>>].kind = "value"
    OBVIOUS
  <2>1. <<f, s>> \in Calls /\ <<f, s>>[1] = f
    BY DEF Calls
  <2>2. f \notin cancelled /\ out[<<f, s>>] # BudgetFailure
    OBVIOUS
  <2>3. OutReal(<<f, s>>)
    BY <2>1, CallFacts
  <2>4. \E d \in Calls : out[<<f, s>>] = Value(d)
    BY <2>1, <2>2, <2>3 DEF OutReal, RealFor
  <2> QED BY <2>4, ResultsOf
<1>5. \A g \in Fanouts : VerdictReal(g)'
  <2> HIDE DEF how
  <2>1. ASSUME NEW g \in Fanouts, g # f
        PROVE  VerdictReal(g)'
    BY <1>1, <2>1 DEF FlightInv, AllReal, FlightTyped, VerdictReal
  <2>2. VerdictReal(f)'
    BY <1>1, <1>4 DEF FlightInv, FlightTyped, VerdictReal
  <2> QED BY <2>1, <2>2
<1>6. AllReal'
  BY <1>1, <1>5 DEF FlightInv, AllReal, EntryReal, TableReal, AnswerMatches, FlightReal, ClaimReal,
                    OutReal, RealFor, Serves
<1>7. Undisturbed' /\ OneSuccessPerRun'
  BY <1>1 DEF FlightInv, Undisturbed, LeadsAlone, Shares, PaysAlone, OneSuccessPerRun
<1> QED BY <1>3, <1>6, <1>7 DEF FlightInv

LEMMA CancelKeeps ==
    ASSUME NEW f \in Fanouts, FlightInv, Cancel(f)
    PROVE  FlightInv'
<1>1. /\ pc' = pc /\ claim' = claim /\ flights' = flights /\ table' = table /\ entry' = entry
      /\ answer' = answer /\ spent' = spent /\ out' = out /\ verdict' = verdict
      /\ cancelled' = cancelled \cup {f} /\ trouble' \in Nat /\ trouble' # 0
  BY DEF Cancel, Trouble, FlightInv, FlightTyped
<1>2. FlightTyped'
  BY <1>1 DEF FlightInv, FlightTyped
<1>3. AllReal'
  BY <1>1 DEF FlightInv, AllReal, EntryReal, TableReal, AnswerMatches, FlightReal, ClaimReal,
              OutReal, VerdictReal, RealFor, Serves
<1> QED BY <1>1, <1>2, <1>3 DEF FlightInv, Undisturbed, OneSuccessPerRun

LEMMA ExpireKeeps ==
    ASSUME NEW s \in Sources, FlightInv, Expire(s)
    PROVE  FlightInv'
<1>1. /\ pc' = pc /\ claim' = claim /\ flights' = flights /\ table' = table
      /\ answer' = answer /\ spent' = spent /\ out' = out /\ verdict' = verdict
      /\ cancelled' = cancelled /\ trouble' \in Nat /\ trouble' # 0
      /\ entry' = [entry EXCEPT ![s] = NoCall]
  BY DEF Expire, Trouble, FlightInv, FlightTyped
<1>2. FlightTyped'
  BY <1>1 DEF FlightInv, FlightTyped
<1>3. \A t \in Sources : EntryReal(t)'
  BY <1>1 DEF FlightInv, FlightTyped, AllReal, EntryReal
<1>4. AllReal'
  BY <1>1, <1>3 DEF FlightInv, AllReal, TableReal, AnswerMatches, FlightReal, ClaimReal,
              OutReal, VerdictReal, RealFor, Serves
<1> QED BY <1>1, <1>2, <1>4 DEF FlightInv, Undisturbed, OneSuccessPerRun

LEMMA StopKeeps == FlightInv /\ Stop => FlightInv'
<1> SUFFICES ASSUME FlightInv, Stop PROVE FlightInv'
  OBVIOUS
<1> DEFINE lost == {f \in Fanouts : verdict[f] = "running" /\ Started(f)}
<1>1. /\ pc' = [c \in Calls |-> IF c[1] \in lost /\ pc[c] # "absent" THEN "done" ELSE pc[c]]
      /\ out' = [c \in Calls |-> IF c[1] \in lost THEN Cancelled ELSE out[c]]
      /\ verdict' = [f \in Fanouts |-> IF f \in lost THEN "cancelled" ELSE verdict[f]]
      /\ cancelled' = cancelled \cup lost /\ table' = [i \in Runs \X Sources |-> NoCall]
      /\ claim' = claim /\ flights' = flights /\ entry' = entry /\ answer' = answer
      /\ spent' = spent /\ trouble' \in Nat /\ trouble' # 0
  BY DEF Stop, Trouble, FlightInv, FlightTyped
<1>2. lost \subseteq Fanouts
  OBVIOUS
<1> HIDE DEF lost
<1>3. FlightTyped'
  BY <1>1, <1>2, ResultsOf DEF FlightInv, FlightTyped, Stands
<1>4. ASSUME NEW c \in Calls
      PROVE  AnswerMatches(c)' /\ FlightReal(c)' /\ ClaimReal(c)' /\ OutReal(c)'
  <2>1. AnswerMatches(c) /\ FlightReal(c) /\ ClaimReal(c) /\ OutReal(c)
    BY CallFacts
  <2>2. FlightReal(c)'
    BY <1>1, <2>1 DEF FlightReal, RealFor, Serves
  <2>3. CASE c[1] \in lost /\ pc[c] # "absent"
    BY <1>1, <2>2, <2>3 DEF AnswerMatches, ClaimReal, OutReal, Early
  <2>4. CASE ~(c[1] \in lost /\ pc[c] # "absent")
    <3>1. pc'[c] = pc[c] /\ (pc[c] # "absent" => out'[c] = out[c])
      BY <1>1, <2>4
    <3> QED BY <1>1, <2>1, <2>2, <3>1
            DEF AnswerMatches, ClaimReal, OutReal, Early, RealFor, Serves
  <2> QED BY <2>3, <2>4
<1>5. ASSUME NEW f \in Fanouts
      PROVE  VerdictReal(f)'
  <2>1. \A s \in Sources : <<f, s>> \in Calls /\ <<f, s>>[1] = f
    BY DEF Calls
  <2>2. CASE f \in lost
    BY <1>1, <2>1, <2>2 DEF VerdictReal
  <2>3. CASE f \notin lost
    <3>1. VerdictReal(f) /\ verdict'[f] = verdict[f]
      BY <1>1, <2>3 DEF FlightInv, AllReal
    <3>2. \A s \in Sources : pc'[<<f, s>>] = pc[<<f, s>>] /\ out'[<<f, s>>] = out[<<f, s>>]
      BY <1>1, <2>1, <2>3
    <3> QED BY <3>1, <3>2 DEF VerdictReal
  <2> QED BY <2>2, <2>3
<1>6. AllReal'
  BY <1>1, <1>4, <1>5 DEF FlightInv, AllReal, EntryReal, TableReal
<1> QED BY <1>1, <1>3, <1>6 DEF FlightInv, Undisturbed, OneSuccessPerRun

-----------------------------------------------------------------------------
(***************************************************************************)
(* The limiter of the GitHub search.                                       *)
(***************************************************************************)

Searches == [at : {"resting", "queued", "slot", "asleep", "getting", "delayed"}, attempt : Nat]
              \cup [at : {"answered"}, refused : BOOLEAN]

\* A search may start when no interval has to pass: then none has started in it.
ThrottleInv ==
    /\ search \in [Searchers -> Searches]
    /\ gap \in {0, 1} /\ starts \in {0, 1} /\ (gap = 0 => starts = 0)
    /\ IsFiniteSet(Slots) /\ Cardinality(Slots) <= MaxInFlight

LEMMA SlotsGoDown ==
    ASSUME ThrottleInv, Slots' \subseteq Slots
    PROVE  IsFiniteSet(Slots') /\ Cardinality(Slots') <= MaxInFlight
<1>1. IsFiniteSet(Slots) /\ Cardinality(Slots) <= MaxInFlight /\ MaxInFlight \in Nat
  BY ThrottleAssumption DEF ThrottleInv
<1>2. IsFiniteSet(Slots') /\ Cardinality(Slots') <= Cardinality(Slots)
  BY <1>1, FS_Subset
<1> QED BY <1>1, <1>2, FS_CardinalityType

\* A step of one search that takes no slot.
LEMMA SearchMoves ==
    ASSUME NEW p \in Searchers, ThrottleInv, NEW row \in Searches,
           search' = [search EXCEPT ![p] = row],
           row.at \in {"slot", "asleep", "getting"} => p \in Slots,
           gap' \in {0, 1}, starts' \in {0, 1}, gap' = 0 => starts' = 0
    PROVE  ThrottleInv'
<1>1. search' \in [Searchers -> Searches] /\ Slots' \subseteq Slots
  BY DEF ThrottleInv, Slots
<1> QED BY <1>1, SlotsGoDown DEF ThrottleInv

LEMMA MovesRow ==
    ASSUME NEW p \in Searchers, ThrottleInv, search[p].at # "answered",
           NEW place \in {"queued", "slot", "asleep", "getting", "delayed"}, Moves(p, place)
    PROVE  \E row \in Searches : row.at = place /\ search' = [search EXCEPT ![p] = row]
<1>1. search[p] \in [at : {"resting", "queued", "slot", "asleep", "getting", "delayed"}, attempt : Nat]
  BY DEF ThrottleInv, Searches
<1>2. [search[p] EXCEPT !.at = place] \in Searches /\ [search[p] EXCEPT !.at = place].at = place
  BY <1>1 DEF Searches
<1> QED BY <1>2 DEF Moves

LEMMA ThrottleStepKeeps ==
    ASSUME NEW p \in Searchers, ThrottleInv, Search(p) \/ ThrottleStep(p) \/ GiveUp(p)
    PROVE  ThrottleInv'
<1>0. gap \in {0, 1} /\ starts \in {0, 1} /\ (gap = 0 => starts = 0)
  BY DEF ThrottleInv
<1>1. CASE Search(p) \/ TryOnceMore(p)
  <2>1. search[p].at # "answered" /\ Moves(p, "queued") /\ gap' = gap /\ starts' = starts
    BY <1>1 DEF Search, TryOnceMore, Resting
  <2> QED BY <1>0, <2>1, MovesRow, SearchMoves
<1>2. CASE Acquire(p)
  <2>1. search[p].at = "queued" /\ Moves(p, "slot") /\ gap' = gap /\ starts' = starts /\ HasSlot
    BY <1>2 DEF Acquire
  <2>2. PICK row \in Searches : row.at = "slot" /\ search' = [search EXCEPT ![p] = row]
    BY <2>1, MovesRow
  <2>3. Slots' = Slots \cup {p} /\ search' \in [Searchers -> Searches]
    BY <2>2 DEF ThrottleInv, Slots
  <2>4. IsFiniteSet(Slots) /\ Cardinality(Slots) \in Nat /\ Cardinality(Slots) < MaxInFlight
    BY <2>1, FS_CardinalityType DEF ThrottleInv, HasSlot
  <2>5. IsFiniteSet(Slots') /\ Cardinality(Slots') <= MaxInFlight
    <3>1. /\ IsFiniteSet(Slots \cup {p})
          /\ Cardinality(Slots \cup {p}) = IF p \in Slots THEN Cardinality(Slots)
                                                          ELSE Cardinality(Slots) + 1
      BY <2>4, FS_AddElement
    <3>2. MaxInFlight \in Nat
      BY ThrottleAssumption
    <3> QED BY <2>3, <2>4, <3>1, <3>2
  <2> QED BY <1>0, <2>1, <2>3, <2>5 DEF ThrottleInv
<1>3. CASE Pace(p)
  <2>1. p \in Slots /\ search[p].at # "answered"
    BY <1>3 DEF Pace, Slots
  <2>2. \/ Moves(p, "getting") /\ gap = 0 /\ gap' = 1 /\ starts' = starts + 1
        \/ Moves(p, "asleep") /\ gap' = gap /\ starts' = starts
    BY <1>3 DEF Pace, Starts
  <2> QED BY <1>0, <2>1, <2>2, MovesRow, SearchMoves
<1>4. CASE WakeUp(p)
  <2>1. /\ p \in Slots /\ search[p].at # "answered" /\ gap = 0 /\ gap' = 1
        /\ Moves(p, "getting") /\ starts' = starts + 1
    BY <1>4 DEF WakeUp, Slots, Starts, GapAfterSleep
  <2> QED BY <1>0, <2>1, MovesRow, SearchMoves
<1>5. CASE \E refused \in BOOLEAN : Response(p, refused)
  <2>1. PICK refused \in BOOLEAN : Response(p, refused)
    BY <1>5
  <2>2. search[p] \in Searches /\ search[p].at = "getting"
    BY <2>1 DEF ThrottleInv, Response
  <2>3. search[p].attempt \in Nat
    BY <2>2 DEF Searches
  <2>4. PICK row \in Searches : row.at \in {"delayed", "answered"}
                                /\ search' = [search EXCEPT ![p] = row]
    <3> DEFINE delayed == [at |-> "delayed", attempt |-> search[p].attempt + 1]
               answered == [at |-> "answered", refused |-> refused]
    <3>1. /\ delayed \in Searches /\ delayed.at = "delayed"
          /\ answered \in Searches /\ answered.at = "answered"
      BY <2>3 DEF Searches
    <3>2. search' = [search EXCEPT ![p] = delayed] \/ search' = [search EXCEPT ![p] = answered]
      BY <2>1 DEF Response
    <3> QED BY <3>1, <3>2
  <2>5. gap' = gap /\ starts' = starts
    BY <2>1 DEF Response
  <2> QED BY <1>0, <2>4, <2>5, SearchMoves
<1>6. CASE GiveUp(p)
  <2>1. Resting \in Searches /\ Resting.at = "resting"
    BY DEF Resting, Searches
  <2> QED BY <1>0, <1>6, <2>1, SearchMoves DEF GiveUp
<1> QED BY <1>1, <1>2, <1>3, <1>4, <1>5, <1>6 DEF ThrottleStep

\* A search that was answered is over with the answer of its call.
LEMMA SearchedKeeps ==
    ASSUME NEW c \in Searchers, ThrottleInv, Searched(c)
    PROVE  ThrottleInv'
<1>1. Resting \in Searches /\ Resting.at = "resting"
  BY DEF Resting, Searches
<1>2. gap' = gap /\ starts' = starts /\ search' = [search EXCEPT ![c] = Resting]
  BY DEF Searched
<1> QED BY <1>1, <1>2, SearchMoves DEF ThrottleInv

\* The limiter as it is in a new process.
LEMMA ThrottleStarts ==
    ASSUME NEW s, s = [p \in Searchers |-> Resting]
    PROVE  s \in [Searchers -> Searches]
           /\ {p \in Searchers : s[p].at \in {"slot", "asleep", "getting"}} = {}
BY DEF Resting, Searches

LEMMA ThrottleRests == ThrottleInv /\ UNCHANGED throttleVars => ThrottleInv'
BY DEF ThrottleInv, throttleVars, Slots

LEMMA IntervalPassesKeeps == ThrottleInv /\ IntervalPasses => ThrottleInv'
BY DEF ThrottleInv, IntervalPasses, Slots

LEMMA ThrottleInitHolds == ThrottleInit => ThrottleInv
<1> SUFFICES ASSUME ThrottleInit PROVE ThrottleInv
  OBVIOUS
<1>1. Slots = {} /\ search \in [Searchers -> Searches]
  BY ThrottleStarts DEF ThrottleInit, Slots
<1>2. IsFiniteSet(Slots) /\ Cardinality(Slots) = 0 /\ MaxInFlight \in Nat \ {0}
  BY <1>1, FS_EmptySet, ThrottleAssumption
<1> QED BY <1>1, <1>2 DEF ThrottleInit, ThrottleInv

LEMMA CrashKeepsThrottle == Crash => ThrottleInv'
<1> SUFFICES ASSUME Crash PROVE ThrottleInv'
  OBVIOUS
<1>1. search' = [p \in Searchers |-> Resting] /\ gap' = 0 /\ starts' = 0
  BY DEF Crash
<1>2. Slots' = {} /\ search' \in [Searchers -> Searches]
  BY <1>1, ThrottleStarts DEF Slots
<1>3. IsFiniteSet(Slots') /\ Cardinality(Slots') = 0 /\ MaxInFlight \in Nat \ {0}
  BY <1>2, FS_EmptySet, ThrottleAssumption
<1> QED BY <1>1, <1>2, <1>3 DEF ThrottleInv

-----------------------------------------------------------------------------
(***************************************************************************)
(* The sequences of the key pool.                                          *)
(***************************************************************************)

\* A finite set of keys is put in order, each once.
LEMMA KeysInOrder ==
    ASSUME NEW S \in SUBSET Keys
    PROVE  /\ SetToSeq(S) \in Seq(Keys) /\ IsInjective(SetToSeq(S))
           /\ Range(SetToSeq(S)) \subseteq S
<1>1. IsFiniteSet(S)
  BY PoolAssumption, FS_Subset
<1>2. Cardinality(S) \in Nat /\ ExistsBijection(1 .. Cardinality(S), S)
  BY <1>1, FS_CardinalityType
<1>3. \E f \in [1 .. Cardinality(S) -> S] : IsInjective(f)
  BY <1>2 DEF ExistsBijection, Bijection, Injection
<1>4. SetToSeq(S) \in [1 .. Cardinality(S) -> S] /\ IsInjective(SetToSeq(S))
  BY <1>3 DEF SetToSeq
<1>5. SetToSeq(S) \in Seq(S)
  BY <1>2, <1>4, SeqDef
<1> QED BY <1>4, <1>5, SeqMonotonic, RangeOfSeq

\* A key is taken out of the pool for good: it was there once.
LEMMA KeyTakenOut ==
    ASSUME NEW s \in Seq(Keys), IsInjective(s), NEW k
    PROVE  /\ RemoveFirst(s, k) \in Seq(Keys) /\ IsInjective(RemoveFirst(s, k))
           /\ Range(RemoveFirst(s, k)) \subseteq Range(s) \ {k}
           /\ s = <<>> => RemoveFirst(s, k) = <<>>
<1>1. Len(s) \in Nat /\ DOMAIN s = 1 .. Len(s) /\ \A j \in 1 .. Len(s) : s[j] \in Keys
  BY LenProperties, ElementOfSeq
<1>2. CASE ~\E j \in 1 .. Len(s) : s[j] = k
  <2>1. RemoveFirst(s, k) = s
    BY <1>2 DEF RemoveFirst
  <2> QED BY <1>1, <1>2, <2>1 DEF Range
<1>3. CASE \E j \in 1 .. Len(s) : s[j] = k
  <2> DEFINE I == {j \in 1 .. Len(s) : s[j] = k}
  <2>1. PICK i \in I : I = {i}
    BY <1>1, <1>3 DEF IsInjective
  <2>2. Min(I) = i
    BY <2>1 DEF Min
  <2>3. RemoveFirst(s, k) = SubSeq(s, 1, i - 1) \o SubSeq(s, i + 1, Len(s))
    BY <1>3, <2>1, <2>2 DEF RemoveFirst, RemoveAt, SelectInSeq
  <2> DEFINE a == SubSeq(s, 1, i - 1)
             b == SubSeq(s, i + 1, Len(s))
  <2>4. /\ a \in Seq(Keys) /\ Len(a) = i - 1
        /\ \A j \in 1 .. i - 1 : a[j] = s[j]
    <3>1. \A j \in 1 .. i - 1 : s[j] \in Keys
      BY <1>1, <2>1
    <3> QED BY <1>1, <2>1, <3>1, SubSeqProperties
  <2>5. /\ b \in Seq(Keys) /\ Len(b) = Len(s) - i
        /\ \A j \in 1 .. Len(s) - i : b[j] = s[j + i]
    <3>1. \A j \in i + 1 .. Len(s) : s[j] \in Keys
      BY <1>1, <2>1
    <3>2. /\ b \in Seq(Keys)
          /\ Len(b) = IF i + 1 <= Len(s) THEN Len(s) - (i + 1) + 1 ELSE 0
          /\ \A j \in 1 .. Len(s) - (i + 1) + 1 : b[j] = s[(i + 1) + j - 1]
      BY <1>1, <2>1, <3>1, SubSeqProperties
    <3>3. i \in 1 .. Len(s)
      BY <2>1
    <3>4. Len(b) = Len(s) - i
      <4>1. Len(s) \in Nat /\ i \in Nat /\ i <= Len(s)
        BY <1>1, <3>3
      <4>2. CASE i + 1 <= Len(s)
        <5>1. Len(b) = Len(s) - (i + 1) + 1
          BY <3>2, <4>2
        <5> QED BY <4>1, <5>1
      <4>3. CASE ~(i + 1 <= Len(s))
        <5>1. Len(b) = 0 /\ i = Len(s)
          BY <3>2, <4>1, <4>3
        <5> QED BY <4>1, <5>1
      <4> QED BY <4>2, <4>3
    <3>5. ASSUME NEW j \in 1 .. Len(s) - i
          PROVE  b[j] = s[j + i]
      <4>1. (i + 1) + j - 1 = j + i /\ j \in 1 .. Len(s) - (i + 1) + 1
        BY <1>1, <3>3
      <4> QED BY <3>2, <4>1
    <3> QED BY <3>2, <3>4, <3>5
  <2> HIDE DEF a, b, I
  <2> DEFINE t == a \o b
  <2>6. /\ t \in Seq(Keys) /\ Len(t) = Len(s) - 1
        /\ \A j \in 1 .. Len(s) - 1 : t[j] = IF j < i THEN s[j] ELSE s[j + 1]
    <3>1. i \in 1 .. Len(s)
      BY <2>1 DEF I
    <3>2. /\ t \in Seq(Keys) /\ Len(t) = Len(a) + Len(b)
          /\ \A j \in 1 .. Len(a) + Len(b) : t[j] = IF j <= Len(a) THEN a[j] ELSE b[j - Len(a)]
      BY <2>4, <2>5, ConcatProperties
    <3> HIDE DEF t
    <3>3. Len(a) + Len(b) = Len(s) - 1
      BY <1>1, <2>4, <2>5, <3>1
    <3>4. ASSUME NEW j \in 1 .. Len(s) - 1
          PROVE  t[j] = IF j < i THEN s[j] ELSE s[j + 1]
      <4>1. t[j] = IF j <= i - 1 THEN a[j] ELSE b[j - (i - 1)]
        BY <2>4, <3>2, <3>3
      <4>2. CASE j < i
        BY <1>1, <2>4, <3>1, <4>1, <4>2
      <4>3. CASE ~(j < i)
        <5>1. j - (i - 1) \in 1 .. Len(s) - i /\ (j - (i - 1)) + i = j + 1 /\ ~(j <= i - 1)
          BY <1>1, <3>1, <4>3
        <5> QED BY <2>5, <4>1, <4>3, <5>1
      <4> QED BY <4>2, <4>3
    <3> QED BY <3>2, <3>3, <3>4
  <2>7. DOMAIN t = 1 .. Len(s) - 1
    BY <2>6, LenProperties
  <2> HIDE DEF t
  <2>8. i \in 1 .. Len(s) /\ s[i] = k
    BY <2>1 DEF I
  <2>9. IsInjective(t)
    <3> SUFFICES ASSUME NEW j \in 1 .. Len(s) - 1, NEW l \in 1 .. Len(s) - 1, t[j] = t[l]
                 PROVE  j = l
      BY <2>7 DEF IsInjective
    <3> DEFINE jj == IF j < i THEN j ELSE j + 1
               ll == IF l < i THEN l ELSE l + 1
    <3>1. jj \in 1 .. Len(s) /\ ll \in 1 .. Len(s) /\ (jj = ll => j = l)
      BY <1>1, <2>8
    <3>2. t[j] = s[jj] /\ t[l] = s[ll]
      BY <2>6
    <3> HIDE DEF jj, ll
    <3> QED BY <1>1, <3>1, <3>2 DEF IsInjective
  <2>10. Range(t) \subseteq Range(s) \ {k}
    BY <1>1, <2>6, <2>7, <2>8 DEF IsInjective, Range
  <2>11. s # <<>>
    BY <1>1, <2>8, EmptySeq
  <2> QED BY <2>3, <2>6, <2>9, <2>10, <2>11 DEF t, a, b
<1> QED BY <1>2, <1>3

-----------------------------------------------------------------------------
(***************************************************************************)
(* The key pool: the invariant.                                            *)
(***************************************************************************)

Waits == [at : {"token", "posting", "backoff"}, key : Keys, again : BOOLEAN]
Sleeps == [at : {"asleep"}, key : Keys, again : BOOLEAN, left : {0, 1}]
Endings == [at : {"answered", "no_key"}, code : {"ok", "dead", "limited"}]
PostRows == [at : {"idle", "probe", "probing"}] \cup Waits \cup Sleeps \cup Endings

PoolTyped ==
    /\ pool \in Seq(Keys) /\ turn \in Nat
    /\ dead \in [Keys -> 0 .. Never] /\ file \in [Keys -> 0 .. Never]
    /\ probed \in BOOLEAN
    /\ prober \in Posters \cup {Nobody} /\ sleeper \in Posters \cup {Nobody}
    /\ tokens \in [Keys -> 0 .. Capacity] /\ idle \in [Keys -> 0 .. Capacity]
    /\ credit \in [Keys -> 0 .. Capacity]
    /\ post \in [Posters -> PostRows]

\* The locks are held by those who say so, and the keys are probed once.
LocksHeld ==
    /\ \A p \in Posters : post[p].at = "probing" <=> prober = p
    /\ \A p \in Posters : post[p].at = "asleep" <=> sleeper = p
    /\ prober # Nobody => ~probed
    /\ ~probed => pool = <<>>

\* The ideal bucket holds what the bucket holds, and the token that is slept for.
CreditCovers ==
    /\ \A k \in Keys : Tokens(k) <= credit[k]
    /\ \A p \in Posters : post[p].at = "asleep" /\ post[p].left = 0 => credit[post[p].key] >= 1

PoolInv == PoolTyped /\ LocksHeld /\ CreditCovers /\ KeysPartitioned

\* A step of a post that takes and gives back no lock, and ends no probe.
Quiet(p) ==
    /\ post[p].at \notin {"probing", "asleep"}
    /\ \E row \in PostRows : /\ row.at \notin {"probing", "asleep"}
                             /\ post' = [post EXCEPT ![p] = row]
    /\ prober' = prober /\ sleeper' = sleeper /\ probed' = probed /\ turn' \in Nat

BucketsStand == tokens' = tokens /\ idle' = idle /\ credit' = credit
KeysStand == pool' = pool /\ dead' = dead /\ file' = file

LEMMA TokensOf ==
    ASSUME PoolTyped, NEW k \in Keys
    PROVE  /\ tokens[k] \in Nat /\ idle[k] \in Nat /\ credit[k] \in Nat /\ Tokens(k) \in Nat
           /\ tokens[k] <= Capacity /\ idle[k] <= Capacity /\ credit[k] <= Capacity
           /\ Tokens(k) <= Capacity /\ Tokens(k) <= tokens[k] + idle[k]
           /\ Tokens(k) = Capacity \/ Tokens(k) = tokens[k] + idle[k]
           /\ Capacity \in Nat /\ Capacity >= 1
BY PoolAssumption DEF PoolTyped, Tokens, Least

LEMMA QuietLocks ==
    ASSUME NEW p \in Posters, PoolInv, Quiet(p), ~probed => pool' = <<>>
    PROVE  LocksHeld' /\ post' \in [Posters -> PostRows]
BY DEF PoolInv, PoolTyped, LocksHeld, Quiet

LEMMA KeysStandPartitioned ==
    ASSUME KeysPartitioned, KeysStand, probed' = probed
    PROVE  KeysPartitioned'
BY DEF KeysPartitioned, KeysStand

LEMMA QuietCredit ==
    ASSUME NEW p \in Posters, PoolInv, Quiet(p), BucketsStand
    PROVE  CreditCovers'
<1>1. post \in [Posters -> PostRows]
  BY DEF PoolInv, PoolTyped
<1>2. \A q \in Posters : post'[q].at = "asleep" => post'[q] = post[q]
  BY <1>1 DEF Quiet
<1> QED BY <1>2 DEF PoolInv, CreditCovers, BucketsStand, Tokens

LEMMA QuietKeeps ==
    ASSUME NEW p \in Posters, PoolInv, Quiet(p), BucketsStand, KeysStand
    PROVE  PoolInv'
<1>1. LocksHeld' /\ post' \in [Posters -> PostRows]
  BY QuietLocks DEF PoolInv, LocksHeld, KeysStand
<1>2. CreditCovers'
  BY QuietCredit
<1>3. KeysPartitioned'
  BY KeysStandPartitioned DEF PoolInv, Quiet
<1>4. PoolTyped'
  BY <1>1 DEF PoolInv, PoolTyped, Quiet, BucketsStand, KeysStand
<1> QED BY <1>1, <1>2, <1>3, <1>4 DEF PoolInv

-----------------------------------------------------------------------------
(***************************************************************************)
(* The steps of a post.                                                    *)
(***************************************************************************)

\* The round robin chooses a key of the pool, whatever became of the pool.
LEMMA ChosenIsAKey ==
    ASSUME NEW keys \in Seq(Keys), keys # <<>>, NEW n \in Nat
    PROVE  Chosen(keys, n) \in Keys /\ (n % Len(keys)) + 1 \in Nat
<1>1. Len(keys) \in Nat \ {0}
  BY EmptySeq
<1>2. n % Len(keys) \in 0 .. Len(keys) - 1
  BY <1>1
<1>3. (n % Len(keys)) + 1 \in 1 .. Len(keys)
  BY <1>1, <1>2
<1> QED BY <1>3, ElementOfSeq DEF Chosen

LEMMA ChooseRow ==
    ASSUME NEW p \in Posters, NEW again \in BOOLEAN, NEW keys \in Seq(Keys), turn \in Nat,
           Choose(p, again, keys)
    PROVE  /\ \E row \in PostRows : /\ row.at \notin {"probing", "asleep"}
                                    /\ post' = [post EXCEPT ![p] = row]
           /\ turn' \in Nat
<1>1. CASE keys = <<>>
  <2> DEFINE row == [at |-> IF again THEN "answered" ELSE "no_key", code |-> "dead"]
  <2>1. post' = [post EXCEPT ![p] = row] /\ turn' = turn
    BY <1>1 DEF Choose
  <2>2. row \in PostRows /\ row.at \notin {"probing", "asleep"}
    BY DEF PostRows, Endings
  <2> QED BY <2>1, <2>2
<1>2. CASE keys # <<>>
  <2> DEFINE row == [at |-> "token", key |-> Chosen(keys, turn), again |-> again]
  <2>1. post' = [post EXCEPT ![p] = row] /\ turn' = (turn % Len(keys)) + 1
    BY <1>2 DEF Choose
  <2>2. Chosen(keys, turn) \in Keys /\ (turn % Len(keys)) + 1 \in Nat
    BY <1>2, ChosenIsAKey
  <2>3. row \in PostRows /\ row.at \notin {"probing", "asleep"}
    BY <2>2 DEF PostRows, Waits
  <2> QED BY <2>1, <2>2, <2>3
<1> QED BY <1>1, <1>2

LEMMA BeginKeeps ==
    ASSUME NEW p \in Posters, PoolInv, Begin(p)
    PROVE  PoolInv'
<1>1. /\ post[p].at \notin {"probing", "asleep"} /\ BucketsStand /\ KeysStand
      /\ prober' = prober /\ sleeper' = sleeper /\ probed' = probed
      /\ pool \in Seq(Keys) /\ turn \in Nat
  BY DEF Begin, Idle, BucketsStand, KeysStand, PoolInv, PoolTyped
<1>2. Quiet(p)
  <2>1. CASE Choose(p, FALSE, pool)
    BY <1>1, <2>1, ChooseRow DEF Quiet
  <2>2. CASE post' = [post EXCEPT ![p] = [at |-> "probe"]] /\ UNCHANGED turn
    <3>1. [at |-> "probe"] \in PostRows /\ [at |-> "probe"].at = "probe"
      BY DEF PostRows
    <3> QED BY <1>1, <2>2, <3>1 DEF Quiet
  <2> QED BY <2>1, <2>2 DEF Begin
<1> QED BY <1>1, <1>2, QuietKeeps

LEMMA ProbeStartKeeps ==
    ASSUME NEW p \in Posters, PoolInv, ProbeStart(p)
    PROVE  PoolInv'
<1>1. /\ post[p].at = "probe" /\ prober = Nobody /\ BucketsStand /\ KeysStand
      /\ sleeper' = sleeper /\ probed' = probed /\ pool \in Seq(Keys) /\ turn \in Nat
  BY DEF ProbeStart, BucketsStand, KeysStand, PoolInv, PoolTyped
<1>2. CASE MustProbe
  <2>1. ~probed /\ prober' = p /\ turn' = turn /\ post' = [post EXCEPT ![p] = [at |-> "probing"]]
    BY <1>2 DEF ProbeStart, MustProbe
  <2>2. [at |-> "probing"] \in PostRows
    BY DEF PostRows
  <2>3. PoolTyped'
    BY <1>1, <2>1, <2>2 DEF PoolInv, PoolTyped, BucketsStand, KeysStand
  <2>4. post'[p].at = "probing" /\ \A q \in Posters \ {p} : post'[q] = post[q]
    BY <2>1 DEF PoolInv, PoolTyped
  <2>5. LocksHeld'
    BY <1>1, <2>1, <2>4, PoolAssumption DEF PoolInv, LocksHeld, KeysStand
  <2>6. CreditCovers'
    BY <1>1, <2>4 DEF PoolInv, CreditCovers, BucketsStand, Tokens
  <2> QED BY <1>1, <2>3, <2>5, <2>6, KeysStandPartitioned DEF PoolInv
<1>3. CASE ~MustProbe
  <2>1. Choose(p, FALSE, pool) /\ prober' = prober
    BY <1>3 DEF ProbeStart
  <2>2. Quiet(p)
    BY <1>1, <2>1, ChooseRow DEF Quiet
  <2> QED BY <1>1, <2>2, QuietKeeps
<1> QED BY <1>2, <1>3

LEMMA ProbeEndKeeps ==
    ASSUME NEW p \in Posters, NEW alive \in SUBSET Keys, PoolInv, ProbeEnd(p, alive)
    PROVE  PoolInv'
<1> DEFINE candidates == IF Reprobe THEN Keys ELSE Keys \ Fresh(file)
           saved == [k \in Keys |-> CASE k \in alive -> Never
                                      [] k \in candidates \ alive -> 0
                                      [] OTHER -> file[k]]
           usable == pool \o SetToSeq(alive)
<1>1. /\ post[p].at = "probing" /\ pool' = usable /\ dead' = saved /\ file' = saved
      /\ probed' = TRUE /\ prober' = Nobody /\ Choose(p, FALSE, usable)
      /\ sleeper' = sleeper /\ BucketsStand
  BY DEF ProbeEnd, BucketsStand
<1>2. prober = p /\ pool = <<>>
  BY <1>1, PoolAssumption DEF PoolInv, LocksHeld
<1>3. /\ usable = SetToSeq(alive) /\ usable \in Seq(Keys) /\ IsInjective(usable)
      /\ Range(usable) \subseteq alive
  BY <1>2, KeysInOrder, ConcatEmptySeq
<1>4. Never \in Nat /\ saved \in [Keys -> 0 .. Never] /\ \A k \in alive : saved[k] = Never
  <2>1. Never \in Nat /\ file \in [Keys -> 0 .. Never]
    BY PoolAssumption DEF Never, PoolInv, PoolTyped
  <2>2. ASSUME NEW k \in Keys PROVE saved[k] \in 0 .. Never /\ (k \in alive => saved[k] = Never)
    <3> HIDE DEF candidates, Never
    <3>1. CASE k \in alive
      BY <2>1, <3>1
    <3>2. CASE k \notin alive /\ k \in candidates
      BY <2>1, <3>2
    <3>3. CASE k \notin alive /\ k \notin candidates
      BY <2>1, <3>3
    <3> QED BY <3>1, <3>2, <3>3
  <2> QED BY <2>1, <2>2
<1> HIDE DEF saved, usable, candidates
<1>5. PICK row \in PostRows : row.at \notin {"probing", "asleep"} /\ post' = [post EXCEPT ![p] = row]
  BY <1>1, <1>3, ChooseRow DEF PoolInv, PoolTyped
<1>6. turn' \in Nat
  BY <1>1, <1>3, ChooseRow DEF PoolInv, PoolTyped
<1>7. /\ post' \in [Posters -> PostRows] /\ post'[p].at \notin {"probing", "asleep"}
      /\ \A q \in Posters \ {p} : post'[q] = post[q]
  BY <1>5 DEF PoolInv, PoolTyped
<1>8. PoolTyped'
  BY <1>1, <1>3, <1>4, <1>6, <1>7 DEF PoolInv, PoolTyped, BucketsStand
<1>9. LocksHeld'
  BY <1>1, <1>2, <1>7, PoolAssumption DEF PoolInv, LocksHeld
<1>10. CreditCovers'
  BY <1>1, <1>7 DEF PoolInv, CreditCovers, BucketsStand, Tokens
<1>11. KeysPartitioned'
  BY <1>1, <1>3, <1>4 DEF KeysPartitioned
<1> QED BY <1>8, <1>9, <1>10, <1>11 DEF PoolInv

LEMMA RetryKeeps ==
    ASSUME NEW p \in Posters, PoolInv, Retry(p)
    PROVE  PoolInv'
<1>1. /\ post[p].at = "backoff" /\ BucketsStand /\ KeysStand
      /\ prober' = prober /\ sleeper' = sleeper /\ probed' = probed /\ turn' = turn /\ turn \in Nat
      /\ post[p] \in PostRows
      /\ post' = [post EXCEPT ![p] = [at |-> "posting", key |-> post[p].key, again |-> TRUE]]
  BY DEF Retry, BucketsStand, KeysStand, PoolInv, PoolTyped
<1>2. post[p].key \in Keys
  BY <1>1 DEF PostRows, Waits, Sleeps, Endings
<1>3. /\ [at |-> "posting", key |-> post[p].key, again |-> TRUE] \in PostRows
      /\ [at |-> "posting", key |-> post[p].key, again |-> TRUE].at = "posting"
  BY <1>2 DEF PostRows, Waits
<1>4. Quiet(p)
  BY <1>1, <1>3 DEF Quiet
<1> QED BY <1>1, <1>4, QuietKeeps

LEMMA RespondKeeps ==
    ASSUME NEW p \in Posters, NEW code \in {"ok", "dead", "limited"}, PoolInv, Respond(p, code)
    PROVE  PoolInv'
<1> DEFINE k == post[p].key
<1>1. /\ post[p].at = "posting" /\ BucketsStand /\ prober' = prober /\ sleeper' = sleeper
      /\ probed' = probed /\ turn \in Nat /\ post[p] \in PostRows /\ pool \in Seq(Keys)
  BY DEF Respond, BucketsStand, PoolInv, PoolTyped
<1>2. k \in Keys /\ post[p] \in Waits
  BY <1>1 DEF PostRows, Waits, Sleeps, Endings
<1>3. CASE code = "dead" /\ ~post[p].again
  <2>1. /\ pool' = RemoveFirst(pool, k) /\ dead' = [dead EXCEPT ![k] = 0] /\ file' = dead'
        /\ Choose(p, TRUE, pool')
    BY <1>3 DEF Respond, MarkedDead
  <2> HIDE DEF k
  <2>2. /\ pool' \in Seq(Keys) /\ IsInjective(pool') /\ Range(pool') \subseteq Range(pool) \ {k}
        /\ pool = <<>> => pool' = <<>>
    BY <1>1, <2>1, KeyTakenOut DEF PoolInv, KeysPartitioned
  <2>3. Quiet(p)
    BY <1>1, <2>1, <2>2, ChooseRow DEF Quiet
  <2>4. LocksHeld' /\ post' \in [Posters -> PostRows]
    BY <2>2, <2>3, QuietLocks DEF PoolInv, LocksHeld
  <2>5. CreditCovers'
    BY <1>1, <2>3, QuietCredit
  <2>6. dead' \in [Keys -> 0 .. Never] /\ \A j \in Keys \ {k} : dead'[j] = dead[j]
    <3>1. Never \in Nat
      BY PoolAssumption DEF Never
    <3> QED BY <1>2, <2>1, <3>1 DEF PoolInv, PoolTyped
  <2>7. PoolTyped'
    BY <1>1, <2>1, <2>2, <2>3, <2>4, <2>6 DEF PoolInv, PoolTyped, BucketsStand, Quiet
  <2>8. Range(pool) \subseteq Keys
    BY <1>1, RangeOfSeq
  <2>9. KeysPartitioned'
    BY <2>1, <2>2, <2>6, <2>8 DEF PoolInv, KeysPartitioned
  <2> QED BY <2>4, <2>5, <2>7, <2>9 DEF PoolInv
<1>4. CASE ~(code = "dead" /\ ~post[p].again) /\ code = "limited" /\ ~post[p].again
  <2>1. post' = [post EXCEPT ![p].at = "backoff"] /\ KeysStand /\ turn' = turn
    BY <1>4 DEF Respond, KeysStand
  <2>2. [post[p] EXCEPT !.at = "backoff"] \in PostRows /\ [post[p] EXCEPT !.at = "backoff"].at = "backoff"
    BY <1>2 DEF PostRows, Waits
  <2>3. Quiet(p)
    BY <1>1, <2>1, <2>2 DEF Quiet
  <2> QED BY <1>1, <2>1, <2>3, QuietKeeps
<1>5. CASE ~(code = "dead" /\ ~post[p].again) /\ ~(code = "limited" /\ ~post[p].again)
  <2>1. post' = [post EXCEPT ![p] = [at |-> "answered", code |-> code]] /\ KeysStand /\ turn' = turn
    BY <1>5 DEF Respond, KeysStand
  <2>2. /\ [at |-> "answered", code |-> code] \in PostRows
        /\ [at |-> "answered", code |-> code].at = "answered"
    BY DEF PostRows, Endings
  <2>3. Quiet(p)
    BY <1>1, <2>1, <2>2 DEF Quiet
  <2> QED BY <1>1, <2>1, <2>3, QuietKeeps
<1> QED BY <1>3, <1>4, <1>5

LEMMA TakeTokenKeeps ==
    ASSUME NEW p \in Posters, PoolInv, TakeToken(p)
    PROVE  PoolInv'
<1> DEFINE k == post[p].key
<1>1. /\ post[p].at = "token" /\ KeysStand /\ prober' = prober /\ sleeper = Nobody
      /\ probed' = probed /\ turn' = turn /\ turn \in Nat /\ post[p] \in PostRows
  BY DEF TakeToken, KeysStand, PoolInv, PoolTyped
<1>2. post[p] \in Waits
  BY <1>1 DEF PostRows, Waits, Sleeps, Endings
<1>3. k \in Keys /\ post[p].again \in BOOLEAN
  BY <1>2 DEF Waits
<1>4. /\ Tokens(k) \in Nat /\ Tokens(k) <= Capacity /\ Tokens(k) <= credit[k]
      /\ Capacity \in Nat /\ Capacity >= 1 /\ credit[k] \in Nat /\ credit[k] <= Capacity
  BY <1>3, TokensOf DEF PoolInv, CreditCovers
<1>5. \A q \in Posters : post[q].at # "asleep"
  BY <1>1, PoolAssumption DEF PoolInv, LocksHeld
<1>6. CASE Tokens(k) >= 1
  <2>1. /\ tokens' = [tokens EXCEPT ![k] = Tokens(k) - 1] /\ idle' = [idle EXCEPT ![k] = 0]
        /\ credit' = [credit EXCEPT ![k] = @ - 1] /\ sleeper' = sleeper
        /\ post' = [post EXCEPT ![p] = [at |-> "posting", key |-> k, again |-> post[p].again]]
    BY <1>6 DEF TakeToken, Sent, Pays
  <2> DEFINE row == [at |-> "posting", key |-> k, again |-> post[p].again]
  <2>2. row \in PostRows /\ row.at = "posting"
    BY <1>3 DEF PostRows, Waits
  <2>3. Quiet(p)
    BY <1>1, <2>1, <2>2 DEF Quiet
  <2>4. LocksHeld' /\ post' \in [Posters -> PostRows]
    BY <1>1, <2>3, QuietLocks DEF PoolInv, LocksHeld, KeysStand
  <2> HIDE DEF k
  <2>5. Tokens(k) - 1 \in 0 .. Capacity /\ credit[k] - 1 \in 0 .. Capacity /\ 0 \in 0 .. Capacity
    BY <1>4, <1>6
  <2>6. /\ tokens' \in [Keys -> 0 .. Capacity] /\ idle' \in [Keys -> 0 .. Capacity]
        /\ credit' \in [Keys -> 0 .. Capacity]
        /\ tokens'[k] = Tokens(k) - 1 /\ idle'[k] = 0 /\ credit'[k] = credit[k] - 1
        /\ \A j \in Keys \ {k} : tokens'[j] = tokens[j] /\ idle'[j] = idle[j] /\ credit'[j] = credit[j]
    BY <1>3, <2>1, <2>5 DEF PoolInv, PoolTyped
  <2>7. PoolTyped'
    BY <1>1, <2>1, <2>4, <2>6 DEF PoolInv, PoolTyped, KeysStand
  <2>8. ASSUME NEW j \in Keys PROVE Tokens(j)' <= credit'[j]
    <3>1. CASE j = k
      BY <1>4, <1>6, <2>6, <3>1 DEF Tokens, Least
    <3>2. CASE j # k
      BY <2>6, <3>2 DEF PoolInv, CreditCovers, Tokens
    <3> QED BY <3>1, <3>2
  <2>9. \A q \in Posters : post'[q].at # "asleep"
    BY <1>5, <2>1 DEF PoolInv, PoolTyped
  <2> QED BY <1>1, <2>4, <2>7, <2>8, <2>9, KeysStandPartitioned DEF PoolInv, CreditCovers
<1>7. CASE ~(Tokens(k) >= 1)
  <2> DEFINE row == [at |-> "asleep", key |-> k, again |-> post[p].again, left |-> 1]
  <2>1. /\ sleeper' = p /\ post' = [post EXCEPT ![p] = row] /\ BucketsStand
    BY <1>7 DEF TakeToken, BucketsStand
  <2>2. row \in PostRows /\ row.at = "asleep" /\ row.left = 1
    BY <1>3 DEF PostRows, Sleeps
  <2> HIDE DEF row
  <2>3. /\ post' \in [Posters -> PostRows] /\ post'[p].at = "asleep" /\ post'[p].left = 1
        /\ \A q \in Posters \ {p} : post'[q] = post[q]
    BY <2>1, <2>2 DEF PoolInv, PoolTyped
  <2>4. PoolTyped'
    BY <1>1, <2>1, <2>3 DEF PoolInv, PoolTyped, BucketsStand, KeysStand
  <2>5. LocksHeld'
    BY <1>1, <1>5, <2>1, <2>3 DEF PoolInv, LocksHeld, KeysStand
  <2>6. CreditCovers'
    BY <1>5, <2>1, <2>3 DEF PoolInv, CreditCovers, BucketsStand, Tokens
  <2> QED BY <1>1, <2>4, <2>5, <2>6, KeysStandPartitioned DEF PoolInv
<1> QED BY <1>6, <1>7

\* The token slept for is taken: the ideal bucket holds it by then.
LEMMA WakeKeeps ==
    ASSUME NEW p \in Posters, PoolInv, Wake(p)
    PROVE  PoolInv'
<1> DEFINE k == post[p].key
           row == [at |-> "posting", key |-> k, again |-> post[p].again]
<1>1. /\ post[p].at = "asleep" /\ post[p].left = 0 /\ KeysStand /\ prober' = prober
      /\ probed' = probed /\ turn' = turn /\ post[p] \in PostRows
      /\ tokens' = [tokens EXCEPT ![k] = 0] /\ idle' = [idle EXCEPT ![k] = 0]
      /\ credit' = [credit EXCEPT ![k] = @ - 1] /\ sleeper' = Nobody
      /\ post' = [post EXCEPT ![p] = row]
  BY DEF Wake, KeysStand, PoolInv, PoolTyped, SinceAfterSleep, Sent, Pays
<1>2. post[p] \in Sleeps
  BY <1>1 DEF PostRows, Waits, Sleeps, Endings
<1>3. k \in Keys /\ row \in PostRows /\ row.at = "posting"
  BY <1>2 DEF Sleeps, PostRows, Waits
<1>4. credit[k] >= 1
  BY <1>1 DEF PoolInv, CreditCovers
<1>5. Capacity \in Nat /\ credit[k] \in Nat /\ credit[k] <= Capacity
  BY <1>3, TokensOf DEF PoolInv
<1>6. sleeper = p
  BY <1>1 DEF PoolInv, LocksHeld
<1> HIDE DEF row, k
<1>7. credit[k] - 1 \in 0 .. Capacity /\ 0 \in 0 .. Capacity
  BY <1>4, <1>5
<1>8. /\ tokens' \in [Keys -> 0 .. Capacity] /\ idle' \in [Keys -> 0 .. Capacity]
      /\ credit' \in [Keys -> 0 .. Capacity]
      /\ tokens'[k] = 0 /\ idle'[k] = 0 /\ credit'[k] = credit[k] - 1
      /\ \A j \in Keys \ {k} : tokens'[j] = tokens[j] /\ idle'[j] = idle[j] /\ credit'[j] = credit[j]
  BY <1>1, <1>3, <1>7 DEF PoolInv, PoolTyped
<1>9. /\ post' \in [Posters -> PostRows] /\ post'[p].at = "posting"
      /\ \A q \in Posters \ {p} : post'[q] = post[q]
  BY <1>1, <1>3 DEF PoolInv, PoolTyped
<1>10. PoolTyped'
  BY <1>1, <1>8, <1>9 DEF PoolInv, PoolTyped, KeysStand
<1>11. \A q \in Posters : post'[q].at # "asleep"
  BY <1>6, <1>9 DEF PoolInv, LocksHeld
<1>12. LocksHeld'
  BY <1>1, <1>9, <1>11, PoolAssumption DEF PoolInv, LocksHeld, KeysStand
<1>13. ASSUME NEW j \in Keys PROVE Tokens(j)' <= credit'[j]
  <2>1. CASE j = k
    BY <1>7, <1>5, <1>8, <2>1 DEF Tokens, Least
  <2>2. CASE j # k
    BY <1>8, <2>2 DEF PoolInv, CreditCovers, Tokens
  <2> QED BY <2>1, <2>2
<1> QED BY <1>1, <1>10, <1>11, <1>12, <1>13, KeysStandPartitioned DEF PoolInv, CreditCovers

LEMMA PostStepKeeps ==
    ASSUME NEW p \in Posters, PoolInv, Begin(p) \/ PoolStep(p)
    PROVE  PoolInv'
BY BeginKeeps, ProbeStartKeeps, ProbeEndKeeps, TakeTokenKeeps, WakeKeeps, RetryKeeps, RespondKeeps
   DEF PoolStep

-----------------------------------------------------------------------------
(***************************************************************************)
(* The cancellation of posts, time and a restart.                          *)
(***************************************************************************)

LEMMA DropKeeps ==
    ASSUME NEW ps \in SUBSET Posters, PoolInv, Drop(ps)
    PROVE  PoolInv'
<1>1. /\ KeysStand /\ BucketsStand /\ probed' = probed /\ turn' = turn
      /\ prober' = IF prober \in ps THEN Nobody ELSE prober
      /\ sleeper' = IF sleeper \in ps THEN Nobody ELSE sleeper
      /\ post' = [p \in Posters |-> IF p \in ps THEN Idle ELSE post[p]]
  BY DEF Drop, KeysStand, BucketsStand
<1>2. Idle \in PostRows /\ Idle.at = "idle"
  BY DEF Idle, PostRows
<1>3. /\ post' \in [Posters -> PostRows]
      /\ \A p \in Posters : IF p \in ps THEN post'[p].at = "idle" ELSE post'[p] = post[p]
  BY <1>1, <1>2 DEF PoolInv, PoolTyped
<1>4. PoolTyped'
  BY <1>1, <1>3 DEF PoolInv, PoolTyped, KeysStand, BucketsStand
<1>5. LocksHeld'
  BY <1>1, <1>3, PoolAssumption DEF PoolInv, PoolTyped, LocksHeld, KeysStand
<1>6. CreditCovers'
  BY <1>1, <1>3 DEF PoolInv, CreditCovers, BucketsStand, Tokens
<1> QED BY <1>1, <1>4, <1>5, <1>6, KeysStandPartitioned DEF PoolInv

LEMMA AgedMarks ==
    ASSUME NEW marks \in [Keys -> 0 .. Never]
    PROVE  Aged(marks) \in [Keys -> 0 .. Never]
           /\ \A k \in Keys : marks[k] = Never => Aged(marks)[k] = Never
<1>1. Never \in Nat
  BY PoolAssumption DEF Never
<1>2. \A k \in Keys : /\ Least(marks[k] + 1, Never) \in 0 .. Never
                      /\ marks[k] = Never => Least(marks[k] + 1, Never) = Never
  BY <1>1 DEF Least
<1>3. Aged(marks) = [k \in Keys |-> Least(marks[k] + 1, Never)]
  BY DEF Aged
<1>4. \A k \in Keys : Aged(marks)[k] = Least(marks[k] + 1, Never)
  BY <1>3
<1>5. Aged(marks) \in [Keys -> 0 .. Never]
  BY <1>2, <1>3
<1> QED BY <1>2, <1>4, <1>5

LEMMA TickKeeps ==
    ASSUME PoolInv, Tick
    PROVE  PoolInv'
<1>1. /\ idle' = [k \in Keys |-> Least(idle[k] + 1, Capacity)]
      /\ credit' = [k \in Keys |-> Least(credit[k] + 1, Capacity)]
      /\ dead' = Aged(dead) /\ file' = Aged(file)
      /\ post' = [p \in Posters |-> IF post[p].at = "asleep" THEN [post[p] EXCEPT !.left = 0]
                                                             ELSE post[p]]
      /\ pool' = pool /\ probed' = probed /\ prober' = prober /\ turn' = turn
      /\ tokens' = tokens /\ sleeper' = sleeper
  BY DEF Tick
<1>2. ASSUME NEW k \in Keys
      PROVE  /\ idle'[k] = Least(idle[k] + 1, Capacity) /\ idle'[k] \in 0 .. Capacity
             /\ credit'[k] = Least(credit[k] + 1, Capacity) /\ credit'[k] \in 0 .. Capacity
             /\ credit'[k] >= 1 /\ Tokens(k)' <= credit'[k]
  <2>1. /\ tokens[k] \in Nat /\ idle[k] \in Nat /\ credit[k] \in Nat /\ Capacity \in Nat
        /\ Capacity >= 1 /\ tokens[k] <= Capacity /\ idle[k] <= Capacity /\ credit[k] <= Capacity
        /\ Tokens(k) <= credit[k]
    BY TokensOf DEF PoolInv, CreditCovers
  <2>2. idle'[k] = Least(idle[k] + 1, Capacity) /\ credit'[k] = Least(credit[k] + 1, Capacity)
    BY <1>1
  <2>3. /\ idle'[k] \in 0 .. Capacity /\ credit'[k] \in 0 .. Capacity /\ credit'[k] >= 1
        /\ idle'[k] <= idle[k] + 1
        /\ credit'[k] = Capacity \/ credit'[k] = credit[k] + 1
    BY <2>1, <2>2 DEF Least
  <2>4. Tokens(k)' <= credit'[k]
    BY <1>1, <2>1, <2>3 DEF Tokens, Least
  <2> QED BY <2>2, <2>3, <2>4
<1>3. ASSUME NEW p \in Posters
      PROVE  /\ post'[p] \in PostRows /\ post'[p].at = post[p].at
             /\ post[p].at = "asleep" => post'[p].key \in Keys
  <2>1. post[p] \in PostRows
    BY DEF PoolInv, PoolTyped
  <2>2. CASE post[p].at = "asleep"
    <3>1. post[p] \in Sleeps
      BY <2>1, <2>2 DEF PostRows, Waits, Sleeps, Endings
    <3>2. [post[p] EXCEPT !.left = 0] \in Sleeps /\ post'[p] = [post[p] EXCEPT !.left = 0]
      BY <1>1, <2>2, <3>1 DEF Sleeps
    <3> QED BY <2>2, <3>2 DEF PostRows, Sleeps
  <2>3. CASE post[p].at # "asleep"
    BY <1>1, <2>1, <2>3
  <2> QED BY <2>2, <2>3
<1>4. /\ dead' \in [Keys -> 0 .. Never] /\ file' \in [Keys -> 0 .. Never]
      /\ \A k \in Keys : (dead[k] = Never => dead'[k] = Never) /\ (file[k] = Never => file'[k] = Never)
  BY <1>1, AgedMarks DEF PoolInv, PoolTyped
<1>5. PoolTyped'
  <2>1. /\ idle' \in [Keys -> 0 .. Capacity] /\ credit' \in [Keys -> 0 .. Capacity]
        /\ post' \in [Posters -> PostRows]
    BY <1>1, <1>2, <1>3
  <2> QED BY <1>1, <1>4, <2>1 DEF PoolInv, PoolTyped
<1>6. LocksHeld'
  BY <1>1, <1>3 DEF PoolInv, LocksHeld
<1>7. CreditCovers'
  BY <1>2, <1>3 DEF CreditCovers
<1>8. KeysPartitioned'
  <2>1. Range(pool) \subseteq Keys
    BY RangeOfSeq DEF PoolInv, PoolTyped
  <2> QED BY <1>1, <1>4, <2>1 DEF PoolInv, KeysPartitioned
<1> QED BY <1>5, <1>6, <1>7, <1>8 DEF PoolInv

\* A process starts with an empty pool and full buckets, whatever the file says.
LEMMA FreshPool ==
    ASSUME pool = <<>>, probed = FALSE, prober = Nobody, turn = 0,
           dead \in [Keys -> 0 .. Never], file \in [Keys -> 0 .. Never],
           tokens = [k \in Keys |-> Capacity], idle = [k \in Keys |-> Capacity], sleeper = Nobody,
           post = [p \in Posters |-> Idle], credit = [k \in Keys |-> Capacity]
    PROVE  PoolInv
<1>1. Capacity \in 0 .. Capacity /\ Capacity \in Nat
  BY PoolAssumption
<1>2. post \in [Posters -> PostRows] /\ \A p \in Posters : post[p].at = "idle"
  BY DEF Idle, PostRows
<1>3. PoolTyped
  BY <1>1, <1>2, EmptySeq DEF PoolTyped
<1>4. LocksHeld
  BY <1>2, PoolAssumption DEF LocksHeld
<1>5. CreditCovers
  BY <1>1, <1>2 DEF CreditCovers, Tokens, Least
<1>6. KeysPartitioned
  <2>1. DOMAIN pool = {}
    BY EmptySeq, LenProperties
  <2> QED BY <2>1 DEF KeysPartitioned, IsInjective, Range
<1> QED BY <1>3, <1>4, <1>5, <1>6 DEF PoolInv

LEMMA NoMarks == [k \in Keys |-> Never] \in [Keys -> 0 .. Never]
BY PoolAssumption DEF Never

LEMMA PoolInitHolds == PoolInit => PoolInv
BY NoMarks, FreshPool DEF PoolInit

LEMMA RestartKeeps == PoolInv /\ Restart => PoolInv'
<1> SUFFICES ASSUME PoolInv, Restart PROVE PoolInv'
  OBVIOUS
<1>1. /\ pool' = <<>> /\ probed' = FALSE /\ prober' = Nobody /\ turn' = 0
      /\ tokens' = [k \in Keys |-> Capacity] /\ idle' = [k \in Keys |-> Capacity]
      /\ sleeper' = Nobody /\ post' = [p \in Posters |-> Idle]
      /\ credit' = [k \in Keys |-> Capacity]
  BY DEF Restart
<1>2. dead' \in [Keys -> 0 .. Never] /\ file' \in [Keys -> 0 .. Never]
  BY NoMarks DEF Restart, PoolInv, PoolTyped
<1>3. Capacity \in 0 .. Capacity /\ Capacity \in Nat
  BY PoolAssumption
<1>4. post' \in [Posters -> PostRows] /\ \A p \in Posters : post'[p].at = "idle"
  BY <1>1 DEF Idle, PostRows
<1>5. PoolTyped'
  BY <1>1, <1>2, <1>3, <1>4, EmptySeq DEF PoolTyped
<1>6. LocksHeld'
  BY <1>1, <1>4, PoolAssumption DEF LocksHeld
<1>7. CreditCovers'
  BY <1>1, <1>3, <1>4 DEF CreditCovers, Tokens, Least
<1>8. KeysPartitioned'
  <2>1. DOMAIN pool' = {}
    BY <1>1, EmptySeq, LenProperties
  <2> QED BY <2>1 DEF KeysPartitioned, IsInjective, Range
<1> QED BY <1>5, <1>6, <1>7, <1>8 DEF PoolInv

LEMMA PoolRests == PoolInv /\ UNCHANGED poolVars => PoolInv'
BY DEF PoolInv, PoolTyped, LocksHeld, CreditCovers, KeysPartitioned, Tokens, poolVars

-----------------------------------------------------------------------------
(***************************************************************************)
(* The node: every step keeps the three invariants.                        *)
(***************************************************************************)

IInv == FlightInv /\ PoolInv /\ ThrottleInv

LEMMA PostersOf ==
    ASSUME NEW c \in Calls
    PROVE  /\ c[2] = Pooled => Posts(c) \subseteq Posters
           /\ Posts(c) \cap Posters \in SUBSET Posters
BY ServiceAssumption DEF Calls, Posts

LEMMA StepKeeps ==
    ASSUME NEW c \in Calls, IInv, Step(c)
    PROVE  IInv'
<1> USE DEF IInv
<1>1. CASE Flight(c)
  <2>1. FlightInv'
    BY <1>1, FlightStepKeeps DEF Flight
  <2>2. PoolInv'
    <3>1. Drop(Posts(c) \cap Posters) \/ UNCHANGED poolVars
      BY <1>1 DEF Flight
    <3> QED BY <3>1, PostersOf, DropKeeps, PoolRests
  <2>3. ThrottleInv'
    BY <1>1, ThrottleStepKeeps, ThrottleRests DEF Flight
  <2> QED BY <2>1, <2>2, <2>3
<1>2. CASE c[2] = Pooled /\ Posted(c)
  <2>1. \E status \in {"success", "failed"} : Answer(c, status)
    BY <1>2 DEF Posted
  <2>2. UNCHANGED poolVars /\ UNCHANGED throttleVars
    BY <1>2 DEF Posted
  <2> QED BY <2>1, <2>2, FlightStepKeeps, PoolRests, ThrottleRests
<1>3. ASSUME c[2] = Pooled, NEW p \in Posts(c), Post(p) \/ Pool(p)
      PROVE  IInv'
  <2>1. p \in Posters /\ (Begin(p) \/ PoolStep(p))
    BY <1>3, PostersOf DEF Post, Pool
  <2>2. UNCHANGED flightVars /\ UNCHANGED throttleVars
    BY <1>3 DEF Post, Pool
  <2> QED BY <2>1, <2>2, FlightRests, PostStepKeeps, ThrottleRests
<1>4. CASE c \in Searchers /\ (StartSearch(c) \/ Throttle(c))
  <2>1. UNCHANGED flightVars /\ UNCHANGED poolVars /\ (Search(c) \/ ThrottleStep(c))
    BY <1>4 DEF StartSearch, Throttle
  <2> QED BY <1>4, <2>1, FlightRests, PoolRests, ThrottleStepKeeps
<1>5. CASE c \in Searchers /\ Searched(c)
  <2>1. \E status \in {"success", "failed"} : Answer(c, status)
    BY <1>5 DEF Searched
  <2>2. UNCHANGED poolVars
    BY <1>5 DEF Searched
  <2> QED BY <1>5, <2>1, <2>2, FlightStepKeeps, PoolRests, SearchedKeeps
<1>6. CASE Other(c)
  BY <1>6, FlightStepKeeps, PoolRests, ThrottleRests DEF Other
<1> QED BY <1>1, <1>2, <1>3, <1>4, <1>5, <1>6 DEF Step

LEMMA EveryStep == IInv /\ [Next]_vars => IInv'
<1> SUFFICES ASSUME IInv, [Next]_vars PROVE IInv'
  OBVIOUS
<1> USE DEF IInv
<1>1. ASSUME NEW c \in Planned, Step(c)
      PROVE  IInv'
  BY <1>1, StepKeeps DEF Planned
<1>2. ASSUME NEW f \in Fanouts, Returns(f)
      PROVE  IInv'
  BY <1>2, GatherKeeps, PoolRests, ThrottleRests DEF Returns
<1>3. CASE Passes
  BY <1>3, FlightRests, TickKeeps, IntervalPassesKeeps DEF Passes
<1>4. CASE Disturb
  BY <1>4, CancelKeeps, ExpireKeeps, PoolRests, ThrottleRests DEF Disturb
<1>5. CASE Crash
  BY <1>5, StopKeeps, RestartKeeps, CrashKeepsThrottle DEF Crash
<1>6. CASE UNCHANGED vars
  BY <1>6, FlightRests, PoolRests, ThrottleRests DEF vars
<1> QED BY <1>1, <1>2, <1>3, <1>4, <1>5, <1>6 DEF Next

-----------------------------------------------------------------------------
(***************************************************************************)
(* The theorems.                                                           *)
(***************************************************************************)

\* The invariant of the flights, the pool and the limiter.
THEOREM InductiveInvariant == Spec => []IInv
<1>1. Init => IInv
  BY FlightStarts, PoolInitHolds, ThrottleInitHolds DEF Init, IInv
<1> QED BY <1>1, EveryStep, PTL DEF Spec

\* What a call of the retrieval node ends with is an answer that some external
\* call of its source gave, a cancellation of its own or a budget failure.
THEOREM CallsEndWithRealAnswers == Spec => []AnswersAreReal
<1>1. IInv => AnswersAreReal
  <2> SUFFICES ASSUME IInv PROVE AnswersAreReal
    OBVIOUS
  <2>1. ASSUME NEW c \in Calls, pc[c] = "done"
        PROVE  \/ out[c].kind = "cancelled" /\ c[1] \in cancelled
               \/ out[c] = BudgetFailure
               \/ /\ out[c].kind = "value"
                  /\ Source(out[c].of) = Source(c)
                  /\ \/ answer[out[c].of] = "success"
                     \/ answer[out[c].of] = "failed" /\ Identity(out[c].of) = Identity(c)
    <3>1. OutReal(c)
      BY CallFacts DEF IInv
    <3>2. CASE out[c] = Cancelled /\ c[1] \in cancelled
      BY <3>2, ResultsOf
    <3>3. CASE RealFor(c, out[c])
      BY <3>3, ResultsOf DEF RealFor, Serves
    <3> QED BY <2>1, <3>1, <3>2, <3>3 DEF OutReal
  <2>2. ASSUME NEW f \in Fanouts, verdict[f] = "results", NEW s \in Sources, pc[<<f, s>>] = "done"
        PROVE  out[<<f, s>>].kind = "value"
    BY <2>2 DEF IInv, FlightInv, AllReal, VerdictReal
  <2> QED BY <2>1, <2>2 DEF AnswersAreReal
<1> QED BY <1>1, InductiveInvariant, PTL

\* A run that nothing disturbs has at most one successful call of a source.
THEOREM RunsPayOnce == Spec => []OneSuccessPerRun
<1>1. IInv => OneSuccessPerRun
  BY DEF IInv, FlightInv
<1> QED BY <1>1, InductiveInvariant, PTL

\* The pool and the marks of the dead keys partition the keys, in the types of
\* what is shared.
THEOREM SharedStateStaysTogether == Spec => []SharedStateAgrees
<1>1. IInv => SharedStateAgrees
  BY DEF IInv, FlightInv, FlightTyped, PoolInv, PoolTyped, SharedStateAgrees, TypeOK
<1> QED BY <1>1, InductiveInvariant, PTL

\* No key is used faster than its quota, and searches keep their spacing.
THEOREM QuotasHold == Spec => []WithinQuota
<1>1. IInv => WithinQuota
  BY TokensOf DEF IInv, PoolInv, ThrottleInv, WithinQuota
<1> QED BY <1>1, InductiveInvariant, PTL
=============================================================================
