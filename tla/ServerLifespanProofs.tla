------------------------ MODULE ServerLifespanProofs ------------------------
(***************************************************************************)
(* Proofs that at most one server process executes on a database, except   *)
(* behind the back of one whose lease ran out, and that the two databases  *)
(* stay of one moment: for any servers, builds and bounds, whatever is     *)
(* renewed late, lost, killed, backed up or restored; and that the import  *)
(* a server begins with takes a file once.                                 *)
(***************************************************************************)
EXTENDS ServerLifespan, TLAPS

\* From the acquisition to the release a process has the lease, unless it ran
\* out under it.
Holding == {"opening", "starting", "serving", "stopping", "releasing"}
HasLease(s) == lease = [owner |-> s, live |-> TRUE]
HoldersHaveLease == \A s \in Servers : phase[s] \in Holding => s \in overdue \/ HasLease(s)

\* Executions run between the construction of the coordinator and its stop.
ExecutingServe == \A s \in busy : phase[s] \in {"starting", "serving", "stopping"}

IInv == TypeOK /\ HoldersHaveLease /\ ExecutingServe

-----------------------------------------------------------------------------
LEMMA InitImplies == Init => IInv
BY LifespanAssumption
DEF Init, IInv, TypeOK, HoldersHaveLease, ExecutingServe, Holding, Free, Phases

LEMMA OneExecutorFollows == IInv => OneExecutor
<1> SUFFICES ASSUME IInv, NEW s \in busy, NEW t \in busy, s \notin overdue, t \notin overdue
             PROVE  s = t
  BY DEF OneExecutor
<1>1. s \in Servers /\ t \in Servers
  BY DEF IInv, TypeOK
<1>2. HasLease(s) /\ HasLease(t)
  BY <1>1 DEF IInv, ExecutingServe, HoldersHaveLease, Holding
<1>3. lease.owner = s /\ lease.owner = t
  BY <1>2 DEF HasLease
<1> QED BY <1>3

-----------------------------------------------------------------------------
(***************************************************************************)
(* The steps of a server.                                                  *)
(***************************************************************************)
\* The lease and those it ran out under are left alone, and the process does
\* not come to hold what it did not.
LEMMA QuietStepsKeep ==
    ASSUME IInv, NEW s \in Servers, NEW p \in Phases,
           phase' = [phase EXCEPT ![s] = p],
           p \in Holding => phase[s] \in Holding,
           UNCHANGED <<lease, overdue>>,
           busy' \subseteq busy \cup {s},
           s \in busy' => p \in {"starting", "serving", "stopping"},
           TypeOK'
    PROVE  IInv'
<1>1. HoldersHaveLease'
  BY DEF IInv, TypeOK, HoldersHaveLease, HasLease
<1>2. ExecutingServe'
  BY DEF IInv, TypeOK, ExecutingServe
<1> QED BY <1>1, <1>2 DEF IInv

LEMMA AcquireKeeps ==
    ASSUME IInv, NEW s \in Servers, Acquire(s)
    PROVE  IInv'
<1>1. s \notin busy
  BY DEF Acquire, IInv, ExecutingServe
<1>2. TypeOK'
  <2>1. lease' \in [owner : Servers \cup {Nobody}, live : BOOLEAN]
    <3>1. lease' = lease \/ lease' = [owner |-> s, live |-> TRUE]
      BY DEF Acquire
    <3>2. [owner |-> s, live |-> TRUE] \in [owner : Servers \cup {Nobody}, live : BOOLEAN]
      BY Zenon
    <3>3. lease \in [owner : Servers \cup {Nobody}, live : BOOLEAN]
      BY DEF IInv, TypeOK
    <3> QED BY <3>1, <3>2, <3>3
  <2>2. phase' \in [Servers -> Phases] /\ status' \in [Servers -> {"none", "active", "lost"}]
    BY DEF Acquire, Goes, IInv, TypeOK, Phases
  <2>3. held' \subseteq Servers /\ overdue' \subseteq Servers
    BY DEF Acquire, IInv, TypeOK
  <2> QED BY <2>1, <2>2, <2>3 DEF Acquire, IInv, TypeOK
<1>3. ExecutingServe'
  BY <1>1 DEF Acquire, Goes, IInv, TypeOK, ExecutingServe
<1>4. CASE lease.live
  BY <1>2, <1>3, <1>4 DEF Acquire, Goes, IInv, TypeOK, HoldersHaveLease, HasLease, Holding
<1>5. CASE ~lease.live
  <2>1. \A t \in Servers : phase[t] \in Holding => t \in overdue
    BY <1>5 DEF IInv, HoldersHaveLease, HasLease
  <2>2. /\ HasLease(s)'
        /\ \A t \in Servers \ {s} : phase'[t] = phase[t] /\ (t \in overdue => t \in overdue')
    BY <1>5 DEF Acquire, Goes, IInv, TypeOK, HasLease
  <2>3. HoldersHaveLease'
    BY <2>1, <2>2 DEF HoldersHaveLease
  <2> QED BY <1>2, <1>3, <2>3 DEF IInv
<1> QED BY <1>4, <1>5

\* The row of the process is deleted or left to nobody; the others keep theirs.
LEMMA LeavingKeeps ==
    ASSUME IInv, NEW s \in Servers, NEW p \in Phases \ Holding,
           phase' = [phase EXCEPT ![s] = p],
           lease' \in {lease, Deleted(s), Orphaned(s)},
           overdue \ {s} \subseteq overdue', busy' \subseteq busy, s \notin busy',
           TypeOK'
    PROVE  IInv'
<1>1. \A t \in Servers \ {s} : HasLease(t) => HasLease(t)'
  BY DEF HasLease, Deleted, Orphaned
<1>2. HoldersHaveLease'
  BY <1>1 DEF IInv, TypeOK, HoldersHaveLease
<1>3. ExecutingServe'
  BY DEF IInv, TypeOK, ExecutingServe
<1> QED BY <1>2, <1>3 DEF IInv

LEMMA ReleaseKeeps ==
    ASSUME IInv, NEW s \in Servers, Release(s)
    PROVE  IInv'
<1>1. TypeOK'
  BY LifespanAssumption DEF Release, Goes, IInv, TypeOK, Phases, Deleted, Free
<1>2. s \notin busy
  BY DEF Release, IInv, ExecutingServe
<1> QED BY <1>1, <1>2, LeavingKeeps DEF Release, Goes, Phases, Holding

LEMMA EndingKeeps ==
    ASSUME IInv, NEW s \in Servers, Close(s) \/ Kill(s)
    PROVE  IInv'
<1>1. Ended(s) /\ (UNCHANGED trouble \/ Troubled)
  BY DEF Close, Kill
<1>2. TypeOK'
  BY <1>1, LifespanAssumption DEF Ended, Troubled, Goes, IInv, TypeOK, Phases, Orphaned
<1> QED BY <1>1, <1>2, LeavingKeeps DEF Ended, Goes, Phases, Holding

LEMMA ServerStepKeeps ==
    ASSUME IInv, NEW s \in Servers, ServerStep(s)
    PROVE  IInv'
<1>1. CASE Boot(s)
  <2>1. TypeOK'
    BY <1>1 DEF Boot, Goes, IInv, TypeOK, Phases
  <2>2. s \notin busy
    BY <1>1 DEF Boot, IInv, ExecutingServe
  <2> QED BY <1>1, <2>1, <2>2, QuietStepsKeep DEF Boot, Goes, Phases, Holding
<1>2. CASE Acquire(s)
  BY <1>2, AcquireKeeps
<1>3. CASE Open(s)
  <2>1. PICK p \in {"stopping", "starting"} : Goes(s, p)
    BY <1>3 DEF Open
  <2>2. TypeOK'
    BY <1>3 DEF Open, Goes, IInv, TypeOK, Phases
  <2> QED BY <1>3, <2>1, <2>2, QuietStepsKeep DEF Open, Goes, Phases, Holding
<1>4. CASE Execute(s) \/ ExecutionEnds(s) \/ ImportEnds(s) \/ RenewFails(s) \/ StopCoordinator(s)
  <2>1. phase' = phase /\ lease' = lease /\ overdue \subseteq overdue' /\ overdue' \subseteq Servers
    BY <1>4 DEF Execute, ExecutionEnds, ImportEnds, RenewFails, StopCoordinator, IInv, TypeOK
  <2>2. TypeOK'
    BY <1>4, LifespanAssumption
    DEF Execute, ExecutionEnds, ImportEnds, RenewFails, StopCoordinator, Troubled, Halted,
        IInv, TypeOK, Phases
  <2>3. \A t \in busy' : t \in busy \/ phase[t] \in {"starting", "serving"}
    BY <1>4 DEF Execute, ExecutionEnds, ImportEnds, RenewFails, StopCoordinator
  <2>4. ExecutingServe'
    BY <2>1, <2>3 DEF IInv, ExecutingServe
  <2> QED BY <2>1, <2>2, <2>4 DEF IInv, HoldersHaveLease, HasLease
<1>5. CASE Started(s)
  <2>1. PICK p \in {"stopping", "serving"} : Goes(s, p)
    BY <1>5 DEF Started
  <2>2. TypeOK'
    BY <1>5 DEF Started, Goes, IInv, TypeOK, Phases
  <2> QED BY <1>5, <2>1, <2>2, QuietStepsKeep DEF Started, Goes, Phases, Holding
<1>6. CASE Shutdown(s)
  <2>1. TypeOK'
    BY <1>6 DEF Shutdown, Goes, IInv, TypeOK, Phases
  <2> QED BY <1>6, <2>1, QuietStepsKeep DEF Shutdown, Goes, Phases, Holding
<1>7. CASE Stopped(s)
  <2>1. TypeOK'
    BY <1>7 DEF Stopped, Goes, IInv, TypeOK, Phases
  <2> QED BY <1>7, <2>1, QuietStepsKeep DEF Stopped, Quiet, Goes, Phases, Holding
<1>8. CASE Release(s)
  BY <1>8, ReleaseKeeps
<1>9. CASE Close(s) \/ Kill(s)
  BY <1>9, EndingKeeps
<1> QED BY <1>1, <1>2, <1>3, <1>4, <1>5, <1>6, <1>7, <1>8, <1>9 DEF ServerStep

\* Who loses the lease to time is known to be overdue.
LEMMA ExpireKeeps ==
    ASSUME IInv, Expire
    PROVE  IInv'
<1>1. TypeOK'
  <2>1. lease' \in [owner : Servers \cup {Nobody}, live : BOOLEAN]
    BY DEF Expire, IInv, TypeOK
  <2>2. overdue' \subseteq Servers
    BY DEF Expire, IInv, TypeOK
  <2>3. trouble' \in 0 .. MaxTrouble
    BY LifespanAssumption DEF Expire, Troubled, IInv, TypeOK
  <2> QED BY <2>1, <2>2, <2>3 DEF Expire, IInv, TypeOK
<1>2. ASSUME NEW t \in Servers, HasLease(t)
      PROVE  t \in overdue'
  <2>1. lease.owner = t /\ t # Nobody
    BY <1>2, LifespanAssumption DEF HasLease
  <2> QED BY <2>1 DEF Expire
<1>3. overdue \subseteq overdue' /\ phase' = phase /\ busy' = busy
  BY DEF Expire
<1> QED BY <1>1, <1>2, <1>3 DEF IInv, HoldersHaveLease, ExecutingServe

LEMMA NextKeeps == IInv /\ [Next]_vars => IInv'
<1> SUFFICES ASSUME IInv, [Next]_vars PROVE IInv'
  OBVIOUS
<1>1. CASE UNCHANGED vars \/ Maintenance
  <2>1. UNCHANGED serverVars
    BY <1>1 DEF vars, Maintenance
  <2> QED BY <2>1
      DEF serverVars, IInv, TypeOK, HoldersHaveLease, HasLease, ExecutingServe
<1>2. CASE Expire
  BY <1>2, ExpireKeeps
<1>3. ASSUME NEW s \in Servers, ServerStep(s)
      PROVE  IInv'
  BY <1>3, ServerStepKeeps
<1> QED BY <1>1, <1>2, <1>3 DEF Next

\* One process executes on a database, unless its lease ran out under it
\* (RuntimeInstanceGuard and the order of the lifespan's finally block).
THEOREM OneServerExecutes == Spec => []ServersAgree
<1>1. IInv => ServersAgree
  BY OneExecutorFollows DEF IInv, ServersAgree
<1> QED BY InitImplies, NextKeeps, <1>1, PTL DEF Spec

-----------------------------------------------------------------------------
(***************************************************************************)
(* The pair of databases.                                                  *)
(***************************************************************************)
FileRow == [at : Nat, schema : Nat]
PairStates == {"whole", "broken"}
Mains == {<<db, "main">> : db \in Databases}

\* f, a content of the live paths, is of one moment.
Together(f) ==
    /\ f[<<"product", "main">>].at = f[<<"checkpoint", "main">>].at
    /\ \A db \in Databases :
         f[<<db, "wal">>] = Absent \/ f[<<db, "wal">>].at = f[<<db, "main">>].at

DbTypes ==
    /\ files \in [Paths -> FileRow]
    /\ pair \in PairStates /\ moment \in Nat
    /\ backup # <<>> => backup \in FileRow \X FileRow \X PairStates
    /\ tool \in [doing : {"idle", "restore"}, todo : SUBSET Live, moved : SUBSET Live,
                 installed : SUBSET Mains, was : PairStates]
    /\ tool.doing = "idle" => tool = Idle

\* The tool works while every process is down.
ToolWorksAlone == tool # Idle => \A s \in Servers : phase[s] = "down"

\* A backup of a whole pair is a whole pair.
BackupAgrees == backup # <<>> /\ backup[3] = "whole" => backup[1].at = backup[2].at

\* What lay at the live paths when the restore began.
Original ==
    [p \in Live |-> IF p \in tool.moved THEN files[Aside(p)]
                    ELSE IF p \in tool.installed THEN Absent ELSE files[p]]

\* A restore sets aside what is there before it installs, and what it began with
\* can be put together again.
RestoreAgrees ==
    tool.doing = "restore" =>
      /\ backup # <<>> /\ tool.was = pair
      /\ tool.todo \cap tool.moved = {}
      /\ \A p \in Live : Present(p) => p \in tool.todo \cup tool.installed
      /\ tool.installed # {} => tool.todo = {}
      /\ \A db \in Databases : <<db, "main">> \in tool.installed => Content(db) = Copy(db)
      /\ pair = "whole" => Together(Original)

PairInv ==
    /\ DbTypes /\ ToolWorksAlone /\ BackupAgrees /\ RestoreAgrees
    /\ tool = Idle /\ pair = "whole" => Together(files)

-----------------------------------------------------------------------------
\* Where a file is set aside is no live path, and two are set aside apart.
LEMMA AsideApart ==
    /\ \A p \in Live : Aside(p) \in Paths /\ Aside(p) \notin Live /\ p \in Paths
    /\ \A p, q \in Live : Aside(p) = Aside(q) => p = q
<1>1. \A p \in Live : Aside(p) \in Paths /\ p \in Paths
  BY DEF Paths
<1>2. ASSUME NEW p \in Live, NEW q \in Live
      PROVE  Aside(p) # q /\ (Aside(p) = Aside(q) => p = q)
  BY DEF Live, Aside
<1> QED BY <1>1, <1>2

LEMMA LivePaths ==
    /\ \A db \in Databases : <<db, "main">> \in Live /\ <<db, "wal">> \in Live
    /\ Mains \subseteq Live /\ \A db \in Databases : <<db, "wal">> \notin Mains
    /\ \A db \in Databases : <<db, "main">> \in Mains
    /\ "product" \in Databases /\ "checkpoint" \in Databases
    /\ Live \subseteq Paths /\ Absent \in FileRow /\ Absent.at = 0
BY DEF Live, Mains, Databases, Paths, Absent, File, FileRow

\* What a live path holds decides whether the pair is together.
LEMMA SameLive ==
    ASSUME NEW f, NEW g, Together(f), \A p \in Live : g[p] = f[p]
    PROVE  Together(g)
BY LivePaths DEF Together

LEMMA PairInit == Init => PairInv
<1> SUFFICES ASSUME Init PROVE PairInv
  OBVIOUS
<1>1. \A p \in Paths : files[p] = Absent
  BY DEF Init, DbInit
<1>2. Together(files)
  BY <1>1, LivePaths DEF Together
<1>3. DbTypes
  <2>1. files \in [Paths -> FileRow] /\ moment \in Nat /\ pair \in PairStates /\ backup = <<>>
    BY LivePaths DEF Init, DbInit, PairStates
  <2> QED BY <2>1 DEF DbTypes, Init, DbInit, Idle, PairStates
<1>4. tool = Idle /\ backup = <<>> /\ tool.doing # "restore"
  BY DEF Init, DbInit, Idle
<1> QED BY <1>2, <1>3, <1>4 DEF PairInv, ToolWorksAlone, BackupAgrees, RestoreAgrees

-----------------------------------------------------------------------------
(***************************************************************************)
(* The steps of the tool.                                                  *)
(***************************************************************************)
LEMMA BackupKeeps ==
    ASSUME PairInv, Backup, UNCHANGED serverVars
    PROVE  PairInv'
<1>1. /\ tool = Idle /\ UNCHANGED <<files, tool, pair, moment>>
      /\ backup' = <<Content("product"), Content("checkpoint"), pair>>
  BY DEF Backup
<1>2. backup' \in FileRow \X FileRow \X PairStates
  BY <1>1, LivePaths DEF PairInv, DbTypes, Content
<1>3. backup'[3] = "whole" => backup'[1].at = backup'[2].at
  BY <1>1 DEF PairInv, Together, Content
<1>4. tool.doing # "restore"
  BY <1>1 DEF Idle
<1>5. DbTypes'
  BY <1>1, <1>2 DEF PairInv, DbTypes
<1>6. ToolWorksAlone' /\ RestoreAgrees' /\ BackupAgrees'
  BY <1>1, <1>3, <1>4 DEF PairInv, ToolWorksAlone, RestoreAgrees, BackupAgrees
<1> QED BY <1>1, <1>5, <1>6 DEF PairInv

LEMMA RestoreKeeps ==
    ASSUME PairInv, Restore, UNCHANGED serverVars, \A s \in Servers : phase[s] = "down"
    PROVE  PairInv'
<1>1. /\ tool = Idle /\ backup # <<>> /\ UNCHANGED <<backup, pair, moment>>
      /\ files' = [p \in Paths |-> IF p \in Live THEN files[p] ELSE Absent]
      /\ tool' = [doing |-> "restore", todo |-> Existing, moved |-> {}, installed |-> {},
                  was |-> pair]
  BY DEF Restore
<1>2. \A p \in Live : files'[p] = files[p]
  BY <1>1, LivePaths
<1>3. Existing \subseteq Live /\ \A p \in Live : Present(p) => p \in Existing
  BY DEF Existing, Family, Live, Databases
<1>4. DbTypes'
  <2>1. files' \in [Paths -> FileRow]
    BY <1>1, LivePaths DEF PairInv, DbTypes
  <2>2. pair \in PairStates
    BY DEF PairInv, DbTypes
  <2>3. tool' \in [doing : {"idle", "restore"}, todo : SUBSET Live, moved : SUBSET Live,
                   installed : SUBSET Mains, was : PairStates]
    BY <1>1, <1>3, <2>2
  <2>4. tool'.doing = "restore"
    BY <1>1
  <2> QED BY <1>1, <2>1, <2>3, <2>4 DEF PairInv, DbTypes
<1>5. tool' # Idle /\ tool'.moved = {} /\ tool'.installed = {} /\ tool'.todo = Existing
      /\ tool'.was = pair
  BY <1>1 DEF Idle
<1>6. pair = "whole" => Together(Original')
  <2>1. \A p \in Live : Original'[p] = files[p]
    BY <1>2, <1>5 DEF Original
  <2> QED BY <1>1, <2>1, SameLive DEF PairInv
<1>7. RestoreAgrees'
  <2>1. \A p \in Live : Present(p)' => p \in Existing
    BY <1>2, <1>3 DEF Present
  <2>2. pair' = "whole" => Together(Original)'
    BY <1>1, <1>6 DEF Together
  <2> QED BY <1>1, <1>5, <2>1, <2>2 DEF RestoreAgrees
<1>8. ToolWorksAlone' /\ BackupAgrees'
  BY <1>1 DEF PairInv, ToolWorksAlone, BackupAgrees, serverVars
<1> QED BY <1>4, <1>5, <1>7, <1>8 DEF PairInv

LEMMA SetAsideKeeps ==
    ASSUME PairInv, tool.doing = "restore", NEW p \in Live, SetAside(p),
           UNCHANGED <<backup, pair, moment>>, UNCHANGED serverVars
    PROVE  PairInv'
<1>1. /\ p \in tool.todo
      /\ files' = [files EXCEPT ![Aside(p)] = files[p], ![p] = Absent]
      /\ tool' = [tool EXCEPT !.todo = tool.todo \ {p}, !.moved = tool.moved \cup {p}]
  BY DEF SetAside
<1>2. /\ files \in [Paths -> FileRow]
      /\ tool \in [doing : {"idle", "restore"}, todo : SUBSET Live, moved : SUBSET Live,
                   installed : SUBSET Mains, was : PairStates]
  BY DEF PairInv, DbTypes
<1>3. /\ tool'.doing = "restore" /\ tool'.todo = tool.todo \ {p}
      /\ tool'.moved = tool.moved \cup {p} /\ tool'.installed = tool.installed
      /\ tool'.was = tool.was
  BY <1>1, <1>2
<1>4. /\ files'[Aside(p)] = files[p] /\ files'[p] = Absent
      /\ \A q \in Paths : q # p /\ q # Aside(p) => files'[q] = files[q]
  BY <1>1, <1>2, AsideApart
<1>5. /\ backup # <<>> /\ tool.was = pair /\ tool.todo \cap tool.moved = {}
      /\ tool.installed = {}
      /\ \A q \in Live : Present(q) => q \in tool.todo
      /\ pair = "whole" => Together(Original)
  BY <1>1 DEF PairInv, RestoreAgrees
<1>6. DbTypes'
  <2>1. files' \in [Paths -> FileRow]
    BY <1>1, <1>2, LivePaths
  <2>2. tool' \in [doing : {"idle", "restore"}, todo : SUBSET Live, moved : SUBSET Live,
                   installed : SUBSET Mains, was : PairStates]
    BY <1>1, <1>2
  <2> QED BY <1>3, <2>1, <2>2 DEF PairInv, DbTypes
<1>7. \A q \in Live : Original'[q] = Original[q]
  <2> SUFFICES ASSUME NEW q \in Live PROVE Original'[q] = Original[q]
    OBVIOUS
  <2>1. CASE q = p
    BY <1>1, <1>3, <1>4, <1>5, <2>1 DEF Original
  <2>2. CASE q # p /\ q \in tool.moved
    <3>1. Aside(q) \in Paths /\ Aside(q) # p /\ Aside(q) # Aside(p)
      BY <2>2, AsideApart
    <3> QED BY <1>3, <1>4, <2>2, <3>1 DEF Original
  <2>3. CASE q # p /\ q \notin tool.moved
    <3>1. q \in Paths /\ q # Aside(p)
      BY AsideApart
    <3> QED BY <1>3, <1>4, <1>5, <2>3, <3>1 DEF Original
  <2> QED BY <2>1, <2>2, <2>3
<1>8. RestoreAgrees'
  <2>1. \A q \in Live : Present(q)' => q \in tool'.todo
    BY <1>3, <1>4, <1>5, AsideApart DEF Present
  <2>2. pair' = "whole" => Together(Original)'
    <3>1. pair = "whole" => Together(Original')
      BY <1>5, <1>7, SameLive
    <3> QED BY <3>1 DEF Together
  <2> QED BY <1>3, <1>5, <2>1, <2>2 DEF RestoreAgrees
<1>9. ToolWorksAlone' /\ BackupAgrees' /\ tool' # Idle
  BY <1>3 DEF PairInv, ToolWorksAlone, BackupAgrees, serverVars, Idle
<1> QED BY <1>6, <1>8, <1>9 DEF PairInv

LEMMA InstallKeeps ==
    ASSUME PairInv, tool.doing = "restore", NEW db \in Databases, Install(db),
           UNCHANGED <<backup, pair, moment>>, UNCHANGED serverVars
    PROVE  PairInv'
<1> DEFINE p == <<db, "main">>
<1>1. /\ tool.todo = {} /\ p \notin tool.installed
      /\ files' = [files EXCEPT ![p] = Copy(db)]
      /\ tool' = [tool EXCEPT !.installed = tool.installed \cup {p}]
  BY DEF Install
<1>2. /\ files \in [Paths -> FileRow]
      /\ tool \in [doing : {"idle", "restore"}, todo : SUBSET Live, moved : SUBSET Live,
                   installed : SUBSET Mains, was : PairStates]
  BY DEF PairInv, DbTypes
<1>3. /\ tool'.doing = "restore" /\ tool'.todo = {} /\ tool'.moved = tool.moved
      /\ tool'.installed = tool.installed \cup {p} /\ tool'.was = tool.was
  BY <1>1, <1>2
<1>4. p \in Live /\ p \in Paths /\ p \in Mains
  BY LivePaths
<1>5. files'[p] = Copy(db) /\ \A q \in Paths : q # p => files'[q] = files[q]
  BY <1>1, <1>2, <1>4
<1>6. /\ backup # <<>> /\ tool.was = pair
      /\ \A q \in Live : Present(q) => q \in tool.installed
      /\ \A d \in Databases : <<d, "main">> \in tool.installed => Content(d) = Copy(d)
      /\ pair = "whole" => Together(Original)
  BY <1>1 DEF PairInv, RestoreAgrees
<1>7. DbTypes'
  <2>1. Copy(db) \in FileRow
    BY <1>6 DEF PairInv, DbTypes, Copy
  <2>2. files' \in [Paths -> FileRow]
    BY <1>1, <1>2, <2>1
  <2>3. tool' \in [doing : {"idle", "restore"}, todo : SUBSET Live, moved : SUBSET Live,
                   installed : SUBSET Mains, was : PairStates]
    BY <1>1, <1>2, <1>4
  <2> QED BY <1>3, <2>2, <2>3 DEF PairInv, DbTypes
<1>8. \A q \in Live : Original'[q] = Original[q]
  <2> SUFFICES ASSUME NEW q \in Live PROVE Original'[q] = Original[q]
    OBVIOUS
  <2>1. CASE q \in tool.moved
    <3>1. Aside(q) \in Paths /\ Aside(q) # p
      BY <1>4, AsideApart
    <3> QED BY <1>3, <1>5, <2>1, <3>1 DEF Original
  <2>2. CASE q \notin tool.moved /\ q = p
    <3>1. files[q] = Absent
      BY <1>1, <1>6, <2>2 DEF Present
    <3> QED BY <1>1, <1>3, <2>2, <3>1 DEF Original
  <2>3. CASE q \notin tool.moved /\ q # p
    <3>1. files'[q] = files[q]
      BY <1>5, <2>3, LivePaths
    <3> QED BY <1>3, <2>3, <3>1 DEF Original
  <2> QED BY <2>1, <2>2, <2>3
<1>9. RestoreAgrees'
  <2>1. \A q \in Live : Present(q)' => q \in tool'.installed
    BY <1>3, <1>5, <1>6, LivePaths DEF Present
  <2>2. pair' = "whole" => Together(Original)'
    <3>1. pair = "whole" => Together(Original')
      BY <1>6, <1>8, SameLive
    <3> QED BY <3>1 DEF Together
  <2>3. \A d \in Databases : <<d, "main">> \in tool'.installed => Content(d)' = Copy(d)'
    <3> SUFFICES ASSUME NEW d \in Databases, <<d, "main">> \in tool'.installed
                 PROVE  files'[<<d, "main">>] = Copy(d)
      BY DEF Content, Copy
    <3>1. CASE d = db
      BY <1>5, <3>1
    <3>2. CASE d # db
      BY <1>3, <1>5, <1>6, <3>2, LivePaths DEF Content
    <3> QED BY <3>1, <3>2
  <2> QED BY <1>3, <1>6, <2>1, <2>2, <2>3 DEF RestoreAgrees
<1>10. ToolWorksAlone' /\ BackupAgrees' /\ tool' # Idle
  BY <1>3 DEF PairInv, ToolWorksAlone, BackupAgrees, serverVars, Idle
<1> QED BY <1>7, <1>9, <1>10 DEF PairInv

\* The tool ends its restore, in one way or another.
LEMMA EndKeeps ==
    ASSUME PairInv, tool' = Idle, UNCHANGED <<backup, moment>>,
           files' \in [Paths -> FileRow], pair' \in PairStates,
           pair' = "whole" => Together(files)'
    PROVE  PairInv'
<1>1. tool'.doing = "idle" /\ Idle \in [doing : {"idle", "restore"}, todo : SUBSET Live,
                                       moved : SUBSET Live, installed : SUBSET Mains,
                                       was : PairStates]
  BY DEF Idle, PairStates
<1>2. DbTypes'
  BY <1>1 DEF PairInv, DbTypes
<1>3. ToolWorksAlone' /\ BackupAgrees' /\ RestoreAgrees'
  BY <1>1 DEF PairInv, ToolWorksAlone, BackupAgrees, RestoreAgrees
<1> QED BY <1>2, <1>3 DEF PairInv

LEMMA RestoreDoneKeeps ==
    ASSUME PairInv, RestoreDone
    PROVE  PairInv'
<1>1. /\ tool.doing = "restore" /\ Installed /\ tool' = Idle /\ pair' = backup[3]
      /\ UNCHANGED <<files, backup, moment>>
  BY DEF RestoreDone
<1>2. /\ backup # <<>>
      /\ \A p \in Live : Present(p) => p \in tool.installed
      /\ \A db \in Databases : Content(db) = Copy(db)
      /\ tool.installed \subseteq Mains
  BY <1>1 DEF PairInv, RestoreAgrees, Installed, DbTypes
<1>3. \A db \in Databases : files[<<db, "wal">>] = Absent
  BY <1>2, LivePaths DEF Present
<1>4. pair' = "whole" => Together(files)
  <2>1. pair' = "whole" => backup[1].at = backup[2].at
    BY <1>1, <1>2 DEF PairInv, BackupAgrees
  <2>2. Content("product") = backup[1] /\ Content("checkpoint") = backup[2]
    BY <1>2, LivePaths DEF Copy
  <2> QED BY <1>3, <2>1, <2>2 DEF Together, Content
<1>5. files' \in [Paths -> FileRow] /\ pair' \in PairStates
  BY <1>1, <1>2 DEF PairInv, DbTypes
<1>6. pair' = "whole" => Together(files)'
  BY <1>1, <1>4 DEF Together
<1> QED BY <1>1, <1>5, <1>6, EndKeeps

LEMMA RestoreFailsKeeps ==
    ASSUME PairInv, RestoreFails
    PROVE  PairInv'
<1>1. PICK gone \in SUBSET tool.installed, back \in SUBSET tool.moved :
          /\ files' = Undone(gone, back)
          /\ pair' = IF gone = tool.installed /\ back = tool.moved THEN tool.was ELSE "broken"
  BY DEF RestoreFails
<1>2. tool.doing = "restore" /\ tool' = Idle /\ UNCHANGED <<backup, moment>>
  BY DEF RestoreFails
<1>3. /\ files \in [Paths -> FileRow] /\ tool.moved \subseteq Live
      /\ tool.installed \subseteq Mains /\ tool.was \in PairStates
  BY DEF PairInv, DbTypes
<1>4. files' \in [Paths -> FileRow]
  <2> SUFFICES ASSUME NEW p \in Paths PROVE files'[p] \in FileRow
    BY <1>1 DEF Undone
  <2>1. p \in back => Aside(p) \in Paths
    BY <1>3, AsideApart
  <2> QED BY <1>1, <1>3, <2>1, LivePaths DEF Undone
<1>5. pair' \in PairStates
  BY <1>1, <1>3 DEF PairStates
<1>6. ASSUME pair' = "whole" PROVE Together(files)'
  <2>1. gone = tool.installed /\ back = tool.moved /\ tool.was = "whole"
    BY <1>1, <1>6
  <2>2. Together(Original)
    BY <1>2, <2>1 DEF PairInv, RestoreAgrees
  <2>3. \A p \in Live : files'[p] = Original[p]
    <3> SUFFICES ASSUME NEW p \in Live PROVE files'[p] = Original[p]
      OBVIOUS
    <3>1. p \in Paths /\ ~(\E q \in back : p = Aside(q))
      BY <1>3, AsideApart
    <3> QED BY <1>1, <2>1, <3>1 DEF Undone, Original
  <2>4. Together(files')
    BY <2>2, <2>3, SameLive
  <2> QED BY <2>4 DEF Together
<1> QED BY <1>2, <1>4, <1>5, <1>6, EndKeeps

LEMMA ToolKilledKeeps ==
    ASSUME PairInv, ToolKilled
    PROVE  PairInv'
<1>1. /\ tool.doing = "restore" /\ tool' = Idle /\ UNCHANGED <<files, backup, moment>>
      /\ pair' = IF tool.moved \cup tool.installed = {} THEN pair ELSE "broken"
  BY DEF ToolKilled
<1>2. files' \in [Paths -> FileRow] /\ pair' \in PairStates
  BY <1>1 DEF PairInv, DbTypes, PairStates
<1>3. ASSUME pair' = "whole" PROVE Together(files)
  <2>1. tool.moved = {} /\ tool.installed = {} /\ pair = "whole"
    BY <1>1, <1>3
  <2>2. Together(Original)
    BY <1>1, <2>1 DEF PairInv, RestoreAgrees
  <2>3. \A p \in Live : files[p] = Original[p]
    BY <2>1 DEF Original
  <2> QED BY <2>2, <2>3, SameLive
<1>4. pair' = "whole" => Together(files)'
  BY <1>1, <1>3 DEF Together
<1> QED BY <1>1, <1>2, <1>4, EndKeeps

LEMMA MaintenanceKeeps ==
    ASSUME PairInv, Maintenance
    PROVE  PairInv'
<1>1. ToolStep /\ UNCHANGED serverVars /\ \A s \in Servers : phase[s] = "down"
  BY DEF Maintenance
<1>2. CASE RestoreStep
  BY <1>1, <1>2, SetAsideKeeps, InstallKeeps DEF RestoreStep
<1> QED BY <1>1, <1>2, BackupKeeps, RestoreKeeps, RestoreDoneKeeps, RestoreFailsKeeps,
           ToolKilledKeeps DEF ToolStep

-----------------------------------------------------------------------------
(***************************************************************************)
(* The steps of the servers, which find the tool idle.                     *)
(***************************************************************************)
\* Nothing of the databases changes.
LEMMA ServersLeaveFiles ==
    ASSUME PairInv, UNCHANGED dbVars,
           (\A s \in Servers : phase[s] = "down") => (\A s \in Servers : phase'[s] = "down")
    PROVE  PairInv'
<1>1. UNCHANGED <<files, backup, tool, pair, moment>>
  BY DEF dbVars
<1>2. DbTypes' /\ ToolWorksAlone' /\ BackupAgrees'
  BY <1>1 DEF PairInv, DbTypes, ToolWorksAlone, BackupAgrees
<1>3. RestoreAgrees'
  BY <1>1 DEF PairInv, RestoreAgrees, Present, Content, Copy, Original, Together
<1>4. tool = Idle /\ pair = "whole" => Together(files)'
  BY <1>1 DEF PairInv, Together
<1> QED BY <1>1, <1>2, <1>3, <1>4 DEF PairInv

\* A server writes both databases while the tool is idle.
LEMMA ServersWriteFiles ==
    ASSUME PairInv, tool = Idle, UNCHANGED <<backup, tool, pair>>, moment' \in Nat,
           files' \in [Paths -> FileRow], pair = "whole" => Together(files')
    PROVE  PairInv'
<1>1. tool.doing # "restore"
  BY DEF Idle
<1>2. DbTypes' /\ ToolWorksAlone' /\ BackupAgrees' /\ RestoreAgrees'
  BY <1>1 DEF PairInv, DbTypes, ToolWorksAlone, BackupAgrees, RestoreAgrees
<1>3. pair' = "whole" => Together(files)'
  BY DEF Together
<1> QED BY <1>2, <1>3 DEF PairInv

LEMMA BootWrites ==
    ASSUME PairInv, NEW s \in Servers, Boot(s)
    PROVE  PairInv'
<1> DEFINE p == <<"product", "main">>
<1>1. /\ tool = Idle /\ UNCHANGED <<backup, tool, pair, moment>>
      /\ files' = [files EXCEPT ![p].schema = Builds[s]]
  BY DEF Boot
<1>2. files \in [Paths -> FileRow] /\ p \in Paths /\ Builds[s] \in Nat /\ moment \in Nat
  BY LivePaths, LifespanAssumption DEF PairInv, DbTypes
<1>3. files' \in [Paths -> FileRow] /\ files'[p].at = files[p].at
      /\ \A q \in Paths : q # p => files'[q] = files[q]
  BY <1>1, <1>2 DEF FileRow
<1>4. \A db \in Databases : /\ files'[<<db, "main">>].at = files[<<db, "main">>].at
                            /\ files'[<<db, "wal">>] = files[<<db, "wal">>]
  BY <1>3, LivePaths DEF Databases
<1>5. pair = "whole" => Together(files')
  BY <1>1, <1>4, LivePaths DEF PairInv, Together
<1> QED BY <1>1, <1>2, <1>3, <1>5, ServersWriteFiles

LEMMA StartedWrites ==
    ASSUME PairInv, NEW s \in Servers, Started(s)
    PROVE  PairInv'
<1>1. phase[s] = "starting" /\ UNCHANGED <<backup, tool, pair>> /\ tool = Idle
  BY DEF Started, PairInv, ToolWorksAlone
<1>2. files \in [Paths -> FileRow] /\ moment \in Nat
  BY DEF PairInv, DbTypes
<1>3. CASE moment < MaxMoment
  <2> DEFINE n == moment + 1
  <2>1. files' = [p \in Paths |-> IF p \in Live THEN [files[p] EXCEPT !.at = n] ELSE files[p]]
        /\ moment' = n
    BY <1>3 DEF Started, Written
  <2>2. n \in Nat
    BY <1>2
  <2> HIDE DEF n
  <2>3. files' \in [Paths -> FileRow] /\ \A p \in Live : files'[p].at = n
    BY <1>2, <2>1, <2>2, LivePaths DEF FileRow
  <2>4. Together(files')
    BY <2>3, LivePaths DEF Together
  <2> QED BY <1>1, <2>1, <2>2, <2>3, <2>4, ServersWriteFiles
<1>4. CASE ~(moment < MaxMoment)
  <2>1. UNCHANGED <<files, moment>>
    BY <1>4 DEF Started
  <2>2. pair = "whole" => Together(files')
    BY <1>1, <2>1 DEF PairInv
  <2> QED BY <1>1, <1>2, <2>1, <2>2, ServersWriteFiles
<1> QED BY <1>3, <1>4

LEMMA EndingWrites ==
    ASSUME PairInv, NEW s \in Servers, Close(s) \/ Kill(s)
    PROVE  PairInv'
<1>1. phase[s] # "down" /\ UNCHANGED <<backup, tool, pair, moment>> /\ tool = Idle
      /\ files' \in {files, ClosedFiles}
  BY DEF Close, Kill, Ended, PairInv, ToolWorksAlone
<1>2. files \in [Paths -> FileRow] /\ moment \in Nat
  BY DEF PairInv, DbTypes
<1>3. CASE files' = files
  <2>1. pair = "whole" => Together(files')
    BY <1>1, <1>3 DEF PairInv
  <2> QED BY <1>1, <1>2, <1>3, <2>1, ServersWriteFiles
<1>4. CASE files' = ClosedFiles
  <2>1. files' \in [Paths -> FileRow]
    BY <1>2, <1>4, LivePaths DEF ClosedFiles
  <2>2. \A db \in Databases : /\ files'[<<db, "wal">>] = Absent
                              /\ files'[<<db, "main">>] = files[<<db, "main">>]
    BY <1>4, LivePaths DEF ClosedFiles
  <2>3. pair = "whole" => Together(files')
    BY <1>1, <2>2, LivePaths DEF PairInv, Together
  <2> QED BY <1>1, <1>2, <2>1, <2>3, ServersWriteFiles
<1> QED BY <1>1, <1>3, <1>4

\* The other steps of a server.
LEMMA OthersLeaveFiles ==
    ASSUME IInv, PairInv, NEW s \in Servers,
           \/ Acquire(s) \/ Open(s) \/ Execute(s) \/ ExecutionEnds(s) \/ ImportEnds(s)
           \/ RenewFails(s) \/ Shutdown(s) \/ StopCoordinator(s) \/ Stopped(s) \/ Release(s)
    PROVE  PairInv'
<1>1. UNCHANGED dbVars
  BY DEF Acquire, Open, Execute, ExecutionEnds, ImportEnds, RenewFails, Shutdown,
         StopCoordinator, Stopped, Release, NoTool
<1>2. phase[s] # "down" \/ phase' = phase
  BY DEF Acquire, Open, Execute, ExecutionEnds, ImportEnds, RenewFails, Shutdown,
         StopCoordinator, Stopped, Release
<1> QED BY <1>1, <1>2, ServersLeaveFiles

LEMMA PairNext == IInv /\ PairInv /\ [Next]_vars => PairInv'
<1> SUFFICES ASSUME IInv, PairInv, [Next]_vars PROVE PairInv'
  OBVIOUS
<1>1. CASE UNCHANGED vars \/ Expire
  <2>1. UNCHANGED dbVars /\ phase' = phase
    BY <1>1 DEF vars, serverVars, Expire, NoTool
  <2> QED BY <2>1, ServersLeaveFiles
<1>2. CASE Maintenance
  BY <1>2, MaintenanceKeeps
<1>3. ASSUME NEW s \in Servers, ServerStep(s)
      PROVE  PairInv'
  BY <1>3, BootWrites, StartedWrites, EndingWrites, OthersLeaveFiles DEF ServerStep
<1> QED BY <1>1, <1>2, <1>3 DEF Next

\* A restore that returned, or put the files back, leaves the two databases at one
\* moment with no WAL of another, however many restores failed or were killed
\* before, whatever was backed up in between and wherever the servers stopped.
THEOREM DatabasesStayTogether == Spec => []PairStaysTogether
<1>1. PairInv => PairStaysTogether
  BY DEF PairInv, PairStaysTogether, Together, Content, Sound
<1>2. Init => IInv /\ PairInv
  BY InitImplies, PairInit
<1> QED BY <1>1, <1>2, NextKeeps, PairNext, PTL DEF Spec

-----------------------------------------------------------------------------
(***************************************************************************)
(* The import that a server begins with (LegacyImport) is safe to repeat:  *)
(* whatever processes import at the same time, whatever is edited and      *)
(* whatever fails, a file is imported at most once, together with its      *)
(* task.                                                                   *)
(***************************************************************************)
CONSTANTS Importers, Sources, Contents, Valid, Metadata, MaxEdits
VARIABLES disk, tasks, imports, importer, edits

Legacy == INSTANCE LegacyImport

ImportCodes == {"ok", "SCHEMA_INVALID", "IO_BUDGET_EXCEEDED", "READ_FAILED"}
ImportOutcomes == {"imported", "SOURCE_CHANGED", "ID_CONFLICT"} \cup (ImportCodes \ {"ok"})
ImportDigests == Contents \cup {Metadata}

\* What stands for no task and for a task of a client is not a content.
NamesDiffer == Legacy!NoTask \notin Contents /\ "native" \notin Contents

\* Rows are complete, and what a reader will import is a content.
ImportTyped ==
    /\ disk \in [Sources -> Contents]
    /\ tasks \in [Sources -> Contents \cup {Legacy!NoTask, "native"}]
    /\ imports \subseteq Sources \X ImportDigests \X ImportOutcomes
    /\ DOMAIN importer = Importers
    /\ \A i \in Importers : \A r \in importer[i].read :
          /\ r.source \in Sources /\ r.digest \in ImportDigests
          /\ r.code \in ImportCodes
          /\ r.code = "ok" => r.digest \in Contents

ImportInv == ImportTyped /\ Legacy!ImportedOnce

-----------------------------------------------------------------------------
LEMMA ImportInitImplies ==
    ASSUME NamesDiffer, Legacy!Init PROVE ImportInv
BY DEF NamesDiffer, Legacy!Init, ImportInv, ImportTyped, Legacy!ImportedOnce,
       Legacy!ImportedRows, Legacy!NoTask, Legacy!Asleep, ImportOutcomes, ImportCodes

\* A step that leaves tables and files alone, and whose importers read nothing
\* new, keeps the invariant.
LEMMA ReadersAloneKeep ==
    ASSUME ImportInv, UNCHANGED <<disk, tasks, imports>>,
           NEW i \in Importers, NEW x,
           \A r \in x.read : \/ r \in importer[i].read
                             \/ \E s \in Sources : r \in Legacy!Reading(s),
           importer' = [importer EXCEPT ![i] = x]
    PROVE  ImportInv'
<1>1. ASSUME NEW s \in Sources, NEW r \in Legacy!Reading(s)
      PROVE  /\ r.source \in Sources /\ r.digest \in ImportDigests
             /\ r.code \in ImportCodes /\ (r.code = "ok" => r.digest \in Contents)
  <2>1. disk[s] \in Contents
    BY DEF ImportInv, ImportTyped
  <2> QED BY <2>1, <1>1 DEF Legacy!Reading, ImportDigests, ImportCodes
<1>2. \A r \in x.read : /\ r.source \in Sources /\ r.digest \in ImportDigests
                        /\ r.code \in ImportCodes /\ (r.code = "ok" => r.digest \in Contents)
  BY <1>1 DEF ImportInv, ImportTyped
<1>3. ImportTyped'
  BY <1>2 DEF ImportInv, ImportTyped
<1>4. Legacy!ImportedOnce'
  BY DEF ImportInv, Legacy!ImportedOnce, Legacy!ImportedRows
<1> QED BY <1>3, <1>4 DEF ImportInv

-----------------------------------------------------------------------------
(***************************************************************************)
(* The transactions.                                                       *)
(***************************************************************************)
\* An import adds a row and its task, or a row that is no import, or nothing.
LEMMA ImportKeepsRows ==
    ASSUME NamesDiffer, ImportInv, NEW r, r.source \in Sources, r.digest \in Contents,
           Legacy!Import(r)
    PROVE  /\ imports' \subseteq Sources \X ImportDigests \X ImportOutcomes
           /\ tasks' \in [Sources -> Contents \cup {Legacy!NoTask, "native"}]
           /\ Legacy!ImportedOnce'
<1> DEFINE s == r.source
           d == r.digest
<1>1. CASE Legacy!Recorded(s, d)
  BY <1>1 DEF Legacy!Import, ImportInv, ImportTyped, Legacy!ImportedOnce, Legacy!ImportedRows
<1>2. CASE ~Legacy!Recorded(s, d) /\ Legacy!Refused(s)
  <2>1. PICK o \in {"SOURCE_CHANGED", "ID_CONFLICT"} : imports' = imports \cup {<<s, d, o>>}
    BY <1>2 DEF Legacy!Import
  <2>2. tasks' = tasks
    BY <1>2 DEF Legacy!Import
  <2>3. \A t \in Sources : Legacy!ImportedRows(t)' = Legacy!ImportedRows(t)
    BY <2>1 DEF Legacy!ImportedRows
  <2> QED BY <2>1, <2>2, <2>3
          DEF ImportInv, ImportTyped, Legacy!ImportedOnce, ImportDigests, ImportOutcomes
<1>3. CASE ~Legacy!Recorded(s, d) /\ ~Legacy!Refused(s)
  <2>1. /\ imports' = imports \cup {<<s, d, "imported">>}
        /\ tasks' = [tasks EXCEPT ![s] = d]
    BY <1>3 DEF Legacy!Import
  <2>2. Legacy!ImportedRows(s) = {}
    BY <1>3 DEF Legacy!Refused, Legacy!Prior, Legacy!ImportedRows
  <2>3. Legacy!ImportedRows(s)' = {<<s, d, "imported">>}
    BY <2>1, <2>2 DEF Legacy!ImportedRows
  <2>4. \A t \in Sources \ {s} :
           Legacy!ImportedRows(t)' = Legacy!ImportedRows(t) /\ tasks'[t] = tasks[t]
    BY <2>1 DEF Legacy!ImportedRows, ImportInv, ImportTyped
  <2>5. tasks'[s] = d
    BY <2>1 DEF ImportInv, ImportTyped
  <2> QED BY <2>1, <2>3, <2>4, <2>5
          DEF ImportInv, ImportTyped, Legacy!ImportedOnce, ImportDigests, ImportOutcomes
<1> QED BY <1>1, <1>2, <1>3

\* The record of a failure is no import.
LEMMA FailKeepsRows ==
    ASSUME ImportInv, NEW r, r.source \in Sources, r.digest \in ImportDigests,
           NEW code \in ImportCodes \ {"ok"}, Legacy!Fail(r, code)
    PROVE  /\ imports' \subseteq Sources \X ImportDigests \X ImportOutcomes
           /\ tasks' = tasks
           /\ Legacy!ImportedOnce'
<1>1. imports' = imports \/ imports' = imports \cup {<<r.source, r.digest, code>>}
  BY DEF Legacy!Fail
<1>2. \A t \in Sources : Legacy!ImportedRows(t)' = Legacy!ImportedRows(t)
  BY <1>1 DEF Legacy!ImportedRows, ImportCodes
<1>3. tasks' = tasks
  BY DEF Legacy!Fail
<1> QED BY <1>1, <1>2, <1>3 DEF ImportInv, ImportTyped, Legacy!ImportedOnce, ImportOutcomes

LEMMA StoreKeeps ==
    ASSUME NamesDiffer, ImportInv, NEW i \in Importers, Legacy!Store(i)
    PROVE  ImportInv'
<1>1. PICK r \in importer[i].read :
        /\ \/ r.code = "ok" /\ Legacy!Import(r)
           \/ r.code = "ok" /\ Legacy!Fail(r, "SCHEMA_INVALID")
           \/ r.code # "ok" /\ Legacy!Fail(r, r.code)
           \/ UNCHANGED <<tasks, imports>>
        /\ \E left : importer' = [importer EXCEPT ![i] = [@ EXCEPT !.left = left, !.read = {}]]
        /\ UNCHANGED <<disk, edits>>
  BY DEF Legacy!Store
<1>2. /\ r.source \in Sources /\ r.digest \in ImportDigests /\ r.code \in ImportCodes
      /\ r.code = "ok" => r.digest \in Contents
  BY <1>1 DEF ImportInv, ImportTyped
<1>3. /\ imports' \subseteq Sources \X ImportDigests \X ImportOutcomes
      /\ tasks' \in [Sources -> Contents \cup {Legacy!NoTask, "native"}]
      /\ Legacy!ImportedOnce'
  <2>1. CASE r.code = "ok" /\ Legacy!Import(r)
    BY <1>2, <2>1, ImportKeepsRows
  <2>2. CASE r.code = "ok" /\ Legacy!Fail(r, "SCHEMA_INVALID")
    <3>1. "SCHEMA_INVALID" \in ImportCodes \ {"ok"}
      BY DEF ImportCodes
    <3> QED BY <1>2, <2>2, <3>1, FailKeepsRows DEF ImportInv, ImportTyped
  <2>3. CASE r.code # "ok" /\ Legacy!Fail(r, r.code)
    BY <1>2, <2>3, FailKeepsRows DEF ImportInv, ImportTyped
  <2>4. CASE UNCHANGED <<tasks, imports>>
    BY <2>4 DEF ImportInv, ImportTyped, Legacy!ImportedOnce, Legacy!ImportedRows
  <2> QED BY <1>1, <2>1, <2>2, <2>3, <2>4
<1>4. PICK left : importer' = [importer EXCEPT ![i] = [@ EXCEPT !.left = left, !.read = {}]]
  BY <1>1
<1>5. /\ DOMAIN importer' = Importers
      /\ \A j \in Importers : \A q \in importer'[j].read : q \in importer[j].read
  BY <1>4 DEF ImportInv, ImportTyped
<1>6. ImportTyped'
  BY <1>1, <1>3, <1>5 DEF ImportInv, ImportTyped
<1> QED BY <1>3, <1>6 DEF ImportInv

LEMMA EditsKeep ==
    ASSUME NamesDiffer, ImportInv, NEW s \in Sources, Legacy!Edit(s) \/ Legacy!CreateTask(s)
    PROVE  ImportInv'
<1>1. CASE Legacy!Edit(s)
  <2>1. PICK c \in Contents : disk' = [disk EXCEPT ![s] = c]
    BY <1>1 DEF Legacy!Edit
  <2>2. disk' \in [Sources -> Contents]
    BY <2>1 DEF ImportInv, ImportTyped
  <2> QED BY <1>1, <2>2
          DEF Legacy!Edit, ImportInv, ImportTyped, Legacy!ImportedOnce, Legacy!ImportedRows
<1>2. CASE Legacy!CreateTask(s)
  <2>1. /\ tasks[s] = Legacy!NoTask
        /\ tasks' = [tasks EXCEPT ![s] = "native"]
        /\ UNCHANGED <<disk, imports, importer>>
    BY <1>2 DEF Legacy!CreateTask
  <2>2. tasks' \in [Sources -> Contents \cup {Legacy!NoTask, "native"}]
    BY <2>1 DEF ImportInv, ImportTyped
  <2>3. \A t \in Sources : (tasks'[t] \in Contents <=> tasks[t] \in Contents)
                           /\ (tasks[t] \in Contents => tasks'[t] = tasks[t])
    BY <2>1 DEF ImportInv, ImportTyped, NamesDiffer
  <2>4. \A t \in Sources : Legacy!ImportedRows(t)' = Legacy!ImportedRows(t)
    BY <2>1 DEF Legacy!ImportedRows
  <2>5. Legacy!ImportedOnce'
    BY <2>3, <2>4 DEF ImportInv, Legacy!ImportedOnce
  <2> QED BY <2>1, <2>2, <2>5 DEF ImportInv, ImportTyped
<1> QED BY <1>1, <1>2

-----------------------------------------------------------------------------
LEMMA ImportNextKeeps ==
    ASSUME NamesDiffer, ImportInv, [Legacy!Next]_(Legacy!vars)
    PROVE  ImportInv'
<1>1. CASE UNCHANGED Legacy!vars
  BY <1>1 DEF Legacy!vars, ImportInv, ImportTyped, Legacy!ImportedOnce, Legacy!ImportedRows
<1>2. ASSUME NEW i \in Importers,
             \/ Legacy!List(i) \/ (\E s \in Sources : Legacy!Read(i, s))
             \/ Legacy!Finish(i) \/ Legacy!Cancelled(i)
      PROVE  ImportInv'
  <2>1. PICK x : /\ importer' = [importer EXCEPT ![i] = x]
                 /\ \A r \in x.read : \/ r \in importer[i].read
                                      \/ \E s \in Sources : r \in Legacy!Reading(s)
    <3>1. CASE Legacy!List(i)
      <4> DEFINE y == [status |-> "running", left |-> Sources, read |-> {}]
      <4>1. importer' = [importer EXCEPT ![i] = y] /\ y.read = {}
        BY <3>1 DEF Legacy!List
      <4> HIDE DEF y
      <4> QED BY <4>1
    <3>2. ASSUME NEW s \in Sources, Legacy!Read(i, s)
          PROVE  \E x : /\ importer' = [importer EXCEPT ![i] = x]
                        /\ \A r \in x.read : \/ r \in importer[i].read
                                             \/ \E t \in Sources : r \in Legacy!Reading(t)
      <4>1. PICK q \in Legacy!Reading(s) : importer' = [importer EXCEPT ![i].read = {q}]
        BY <3>2 DEF Legacy!Read
      <4> DEFINE y == [importer[i] EXCEPT !.read = {q}]
      <4>2. importer' = [importer EXCEPT ![i] = y]
        BY <4>1
      <4>3. \A r \in y.read : r \in Legacy!Reading(s)
        BY <4>1
      <4> QED BY <4>2, <4>3
    <3>3. CASE Legacy!Finish(i) \/ Legacy!Cancelled(i)
      <4>1. importer' = [importer EXCEPT ![i] = Legacy!Asleep] /\ Legacy!Asleep.read = {}
        BY <3>3 DEF Legacy!Finish, Legacy!Cancelled, Legacy!Asleep
      <4> QED BY <4>1
    <3> QED BY <1>2, <3>1, <3>2, <3>3
  <2>2. UNCHANGED <<disk, tasks, imports>>
    BY <1>2 DEF Legacy!List, Legacy!Read, Legacy!Finish, Legacy!Cancelled
  <2> QED BY <2>1, <2>2, ReadersAloneKeep
<1>3. ASSUME NEW i \in Importers, Legacy!Store(i)
      PROVE  ImportInv'
  BY <1>3, StoreKeeps
<1>4. ASSUME NEW s \in Sources, Legacy!Edit(s) \/ Legacy!CreateTask(s)
      PROVE  ImportInv'
  BY <1>4, EditsKeep
<1> QED BY <1>1, <1>2, <1>3, <1>4 DEF Legacy!Next

\* For any importers, files and contents: an import happens once, with its task
\* (SQLiteTaskRunRepository.import_legacy_task).
THEOREM ImportsHappenOnce ==
    ASSUME NamesDiffer
    PROVE  Legacy!Spec => []Legacy!ImportedOnce
<1>1. Legacy!Init => ImportInv
  BY ImportInitImplies
<1>2. ImportInv /\ [Legacy!Next]_(Legacy!vars) => ImportInv'
  BY ImportNextKeeps
<1>3. ImportInv => Legacy!ImportedOnce
  BY DEF ImportInv
<1> QED BY <1>1, <1>2, <1>3, PTL DEF Legacy!Spec
=============================================================================
