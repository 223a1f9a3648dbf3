--------------------------- MODULE ServerLifespan ---------------------------
(***************************************************************************)
(* The life of a server process on one product database: migrations, the   *)
(* singleton lease and its heartbeat (runtime/instance_guard.py), the      *)
(* lifespan that opens the checkpointer and starts the coordinator         *)
(* (server/app.py), the loss of the lease at any moment of it, and the     *)
(* shutdown.  A serving process imports the legacy snapshots in a task;    *)
(* the maintenance tool works on the databases while no process runs.      *)
(***************************************************************************)
EXTENDS RuntimeDatabases

CONSTANTS Builds,       \* server -> the last migration its build knows
          MaxTrouble    \* renewals that fail or come too late, and kills

Servers == DOMAIN Builds
Nobody == "nobody"

ASSUME LifespanAssumption == /\ Builds \in [Servers -> Nat] /\ Nobody \notin Servers
                             /\ MaxTrouble \in Nat

VARIABLES phase,         \* server -> where its lifespan stands
          lease,         \* the row of runtime_instance_leases: owner, and whether it is live
          held,          \* the guards that believe they hold it (_acquired)
          status,        \* server -> runtime_instance_status
          coordinator,   \* server -> absent, running, stopping (_stopping)
          busy,          \* the servers with an active execution
          importing,     \* the servers whose import task is not done
          overdue,       \* the servers whose lease ran out while they held it
          trouble

serverVars == <<phase, lease, held, status, coordinator, busy, importing, overdue, trouble>>
vars == <<serverVars, dbVars>>

Free == [owner |-> Nobody, live |-> FALSE]
Phases == {"down", "migrated", "opening", "starting", "serving", "stopping", "releasing", "closing"}

TypeOK ==
    /\ phase \in [Servers -> Phases]
    /\ lease \in [owner : Servers \cup {Nobody}, live : BOOLEAN]
    /\ held \subseteq Servers /\ busy \subseteq Servers
    /\ importing \subseteq Servers /\ overdue \subseteq Servers
    /\ status \in [Servers -> {"none", "active", "lost"}]
    /\ coordinator \in [Servers -> {"absent", "running", "stopping"}]
    /\ trouble \in 0 .. MaxTrouble

Init ==
    /\ phase = [s \in Servers |-> "down"] /\ lease = Free /\ held = {}
    /\ status = [s \in Servers |-> "none"] /\ coordinator = [s \in Servers |-> "absent"]
    /\ busy = {} /\ importing = {} /\ overdue = {} /\ trouble = 0
    /\ DbInit

Goes(s, p) == phase' = [phase EXCEPT ![s] = p]
Troubled == trouble < MaxTrouble /\ trouble' = trouble + 1
NoTool == UNCHANGED dbVars

\* connect_database and run_migrations, which come before the lease: a history
\* ahead of the build is refused and the process ends.
Schema == Content("product").schema

Boot(s) ==
    /\ phase[s] = "down" /\ tool = Idle
    /\ Schema <= Builds[s]
    /\ files' = [files EXCEPT ![<<"product", "main">>].schema = Builds[s]]
    /\ Goes(s, "migrated")
    /\ UNCHANGED <<lease, held, status, coordinator, busy, importing, overdue, trouble>>
    /\ UNCHANGED <<backup, tool, pair, moment, restores>>

\* acquire: the row is inserted, or taken over once it has expired.
Acquire(s) ==
    /\ phase[s] = "migrated"
    /\ IF lease.live
       THEN Goes(s, "down") /\ UNCHANGED <<lease, held, status>>
       ELSE /\ lease' = [owner |-> s, live |-> TRUE]
            /\ held' = held \cup {s}
            /\ status' = [status EXCEPT ![s] = "active"]
            /\ Goes(s, "opening")
    /\ UNCHANGED <<coordinator, busy, importing, overdue, trouble>> /\ NoTool

\* The checkpointer is set up; the coordinator is built unless the lease was lost.
Open(s) ==
    /\ phase[s] = "opening"
    /\ IF status[s] = "lost"
       THEN Goes(s, "stopping") /\ UNCHANGED coordinator
       ELSE Goes(s, "starting") /\ coordinator' = [coordinator EXCEPT ![s] = "running"]
    /\ UNCHANGED <<lease, held, status, busy, importing, overdue, trouble>> /\ NoTool

\* submit, from start, the recovery loop or a handler: refused once stopping.
Execute(s) ==
    /\ coordinator[s] = "running" /\ phase[s] \in {"starting", "serving"}
    /\ s \notin busy /\ busy' = busy \cup {s}
    /\ UNCHANGED <<phase, lease, held, status, coordinator, importing, overdue, trouble>> /\ NoTool

ExecutionEnds(s) ==
    /\ s \in busy /\ busy' = busy \ {s}
    /\ UNCHANGED <<phase, lease, held, status, coordinator, importing, overdue, trouble>> /\ NoTool

ImportEnds(s) ==
    /\ s \in importing /\ importing' = importing \ {s}
    /\ UNCHANGED <<phase, lease, held, status, coordinator, busy, overdue, trouble>> /\ NoTool

\* coordinator.start returns, with what recovery wrote; the import is scheduled.
Started(s) ==
    /\ phase[s] = "starting"
    /\ IF status[s] = "lost"
       THEN Goes(s, "stopping") /\ UNCHANGED importing
       ELSE Goes(s, "serving") /\ importing' = importing \cup {s}
    /\ IF moment < MaxMoment THEN files' = Written /\ moment' = moment + 1
                             ELSE UNCHANGED <<files, moment>>
    /\ UNCHANGED <<lease, held, status, coordinator, busy, overdue, trouble>>
    /\ UNCHANGED <<backup, tool, pair, restores>>

\* Time passes the expiry of the row: its owner is gone or late to renew it.
Expire ==
    /\ lease.live /\ lease' = [lease EXCEPT !.live = FALSE]
    /\ IF lease.owner = Nobody
       THEN UNCHANGED <<overdue, trouble>>
       ELSE overdue' = overdue \cup {lease.owner} /\ Troubled
    /\ UNCHANGED <<phase, held, status, coordinator, busy, importing>> /\ NoTool

\* What on_instance_lease_lost makes of the coordinator.  Mutant: it only marks
\* the status.
Halted_Not(s) == coordinator[s]
Halted(s) == IF coordinator[s] = "absent" THEN "absent" ELSE "stopping"

\* renew_once finds the row expired or another's, or fails: authority is gone.
RenewFails(s) ==
    /\ s \in held /\ phase[s] \notin {"down", "migrated", "releasing", "closing"}
    /\ IF lease = [owner |-> s, live |-> TRUE] THEN Troubled ELSE UNCHANGED trouble
    /\ held' = held \ {s}
    /\ status' = [status EXCEPT ![s] = "lost"]
    /\ coordinator' = [coordinator EXCEPT ![s] = Halted(s)]
    /\ importing' = importing \ {s}
    /\ UNCHANGED <<phase, lease, busy, overdue>> /\ NoTool

\* The end of the lifespan, in the order of its finally block.
Shutdown(s) ==
    /\ phase[s] = "serving" /\ Goes(s, "stopping")
    /\ importing' = importing \ {s}
    /\ UNCHANGED <<lease, held, status, coordinator, busy, overdue, trouble>> /\ NoTool

\* coordinator.stop returns when the executions it cancelled have ended.
\* Mutant: it does not wait for them.
Quiet_Unwaited(s) == TRUE
Quiet(s) == s \notin busy

StopCoordinator(s) ==
    /\ phase[s] = "stopping" /\ coordinator[s] = "running"
    /\ coordinator' = [coordinator EXCEPT ![s] = "stopping"]
    /\ UNCHANGED <<phase, lease, held, status, busy, importing, overdue, trouble>>
    /\ NoTool

Stopped(s) ==
    /\ phase[s] = "stopping" /\ coordinator[s] # "running" /\ Quiet(s)
    /\ Goes(s, "releasing")
    /\ UNCHANGED <<lease, held, status, coordinator, busy, importing, overdue, trouble>>
    /\ NoTool

\* release ends the heartbeat and deletes the row if it is this owner's.  The
\* token of a process is its own: what it leaves is nobody's.
Orphaned(s) == IF lease.owner = s THEN [lease EXCEPT !.owner = Nobody] ELSE lease
Deleted(s) == IF lease.owner = s THEN Free ELSE lease

Release(s) ==
    /\ phase[s] = "releasing" /\ Goes(s, "closing")
    /\ lease' = IF s \in held THEN Deleted(s) ELSE lease
    /\ held' = held \ {s} /\ status' = [status EXCEPT ![s] = "none"]
    /\ UNCHANGED <<coordinator, busy, importing, overdue, trouble>> /\ NoTool

\* The connections are closed, and the process ends with whatever it still runs.
Ended(s) ==
    /\ Goes(s, "down")
    /\ held' = held \ {s} /\ busy' = busy \ {s} /\ importing' = importing \ {s}
    /\ status' = [status EXCEPT ![s] = "none"] /\ overdue' = overdue \ {s}
    /\ coordinator' = [coordinator EXCEPT ![s] = "absent"]
    /\ lease' = Orphaned(s)
    /\ UNCHANGED <<backup, tool, pair, moment, restores>>

Close(s) ==
    /\ phase[s] = "closing"
    /\ files' = IF \A t \in Servers \ {s} : phase[t] = "down" THEN ClosedFiles ELSE files
    /\ Ended(s) /\ UNCHANGED trouble

\* The process dies at any point; its row stays until it expires.
Kill(s) ==
    /\ phase[s] # "down" /\ Troubled
    /\ Ended(s) /\ UNCHANGED files

ServerStep(s) ==
    \/ Boot(s) \/ Acquire(s) \/ Open(s) \/ Execute(s) \/ ExecutionEnds(s) \/ Started(s)
    \/ ImportEnds(s) \/ RenewFails(s) \/ Shutdown(s) \/ StopCoordinator(s) \/ Stopped(s)
    \/ Release(s) \/ Close(s) \/ Kill(s)

\* The operator confirms maintenance only with every process down.
Maintenance == (\A s \in Servers : phase[s] = "down") /\ ToolStep /\ UNCHANGED serverVars

Next == (\E s \in Servers : ServerStep(s)) \/ Expire \/ Maintenance

Spec == Init /\ [][Next]_vars

\* A process that runs goes on with its own startup and shutdown, and an
\* execution that was cancelled ends.
FairSpec ==
    /\ Spec
    /\ \A s \in Servers : WF_vars(Open(s) \/ Started(s) \/ StopCoordinator(s) \/ Stopped(s)
                                  \/ Release(s) \/ Close(s))
    /\ \A s \in Servers : WF_vars(ExecutionEnds(s) /\ coordinator[s] = "stopping")

-----------------------------------------------------------------------------
\* Two processes execute at the same time only when the lease of one of them
\* ran out under it: neither a shutdown, a crash nor a renewal that failed
\* hands the database over while the process still executes.
OneExecutor ==
    \A s, t \in busy : s # t => s \in overdue \/ t \in overdue

\* The rows and the processes keep their types, and one process executes.
ServersAgree == TypeOK /\ OneExecutor

\* A process that lost the lease, at whatever point of its startup, comes to
\* rest: it executes nothing and imports nothing any more.
AtRest(s) == s \notin busy \cup importing /\ coordinator[s] # "running"
LostServerRests == \A s \in Servers : status[s] = "lost" ~> [](status[s] = "lost" => AtRest(s))
=============================================================================
