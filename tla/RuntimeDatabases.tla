-------------------------- MODULE RuntimeDatabases --------------------------
(***************************************************************************)
(* The maintenance of the two runtime databases as a pair                  *)
(* (operations/runtime_databases.py, scripts/runtime_db.py): a paired      *)
(* backup, and its restore, which copies both files beside their targets,  *)
(* sets the old files and their WAL aside, installs the new ones and, when *)
(* a step fails, undoes what it did.  A file is named by the moment of the *)
(* service its content is of.                                              *)
(***************************************************************************)
EXTENDS Naturals

CONSTANTS MaxMoment,     \* moments of the service
          MaxRestores

VARIABLES files,     \* path -> the file there
          backup,    \* the backup directory: its two files and of which pair, or empty
          tool,      \* the maintenance tool: what it has to move, moved and installed
          pair,      \* "whole", or "broken": a restore could not undo its steps, was
                     \* killed, or installed what was backed up of a broken pair
          moment,    \* the last moment the service lived
          restores

dbVars == <<files, backup, tool, pair, moment, restores>>

Databases == {"product", "checkpoint"}
Live == Databases \X {"main", "wal"}
Aside(p) == <<p[1], p[2], "pre-restore">>
Paths == Live \cup {Aside(p) : p \in Live}

File(at, schema) == [at |-> at, schema |-> schema]
Absent == File(0, 0)
Present(p) == files[p] # Absent
Idle == [doing |-> "idle", todo |-> {}, moved |-> {}, installed |-> {}, was |-> "whole"]

DbInit ==
    /\ files = [p \in Paths |-> Absent]
    /\ backup = <<>> /\ tool = Idle /\ pair = "whole" /\ moment = 0 /\ restores = 0

\* A database is its main file with the WAL that was written for it.
Content(db) == files[<<db, "main">>]
Sound(db) == files[<<db, "wal">>] = Absent \/ files[<<db, "wal">>].at = Content(db).at

\* Both databases are written: they are of a later moment, with a WAL each.
Written == [p \in Paths |-> IF p \in Live THEN [files[p] EXCEPT !.at = moment + 1] ELSE files[p]]

\* SQLite removes the WAL when the last connection is closed.
ClosedFiles == [p \in Paths |-> IF p \in Live /\ p[2] = "wal" THEN Absent ELSE files[p]]

\* create_paired_backup: both copies and the manifest, or nothing at all.  A pair
\* that is broken is copied as it is.
Backup ==
    /\ tool = Idle /\ \A db \in Databases : Content(db) # Absent
    /\ backup' = <<Content("product"), Content("checkpoint"), pair>>
    /\ UNCHANGED <<files, tool, pair, moment, restores>>

\* restore_paired_backup: the backup is verified and both temporaries are copied
\* and checked; then every file of the two families is set aside under the
\* second of this restore, and both copies are installed.  Mutant: a WAL is left
\* where it is.
Family_WithoutWal(db) == {<<db, "main">>}
Family(db) == {<<db, "main">>, <<db, "wal">>}
Existing == {p \in Family("product") \cup Family("checkpoint") : Present(p)}

\* The order of the moves: product first, and a database before its WAL.
Before(p, q) == IF p[1] = q[1] THEN p[2] = "main" ELSE p[1] = "product"

Restore ==
    /\ tool = Idle /\ backup # <<>>
    /\ restores < MaxRestores /\ restores' = restores + 1
    /\ files' = [p \in Paths |-> IF p \in Live THEN files[p] ELSE Absent]
    /\ tool' = [doing |-> "restore", todo |-> Existing, moved |-> {}, installed |-> {},
                was |-> pair]
    /\ UNCHANGED <<backup, pair, moment>>

Copy(db) == IF db = "product" THEN backup[1] ELSE backup[2]

SetAside(p) ==
    /\ p \in tool.todo /\ \A q \in tool.todo \ {p} : Before(p, q)
    /\ files' = [files EXCEPT ![Aside(p)] = files[p], ![p] = Absent]
    /\ tool' = [tool EXCEPT !.todo = tool.todo \ {p}, !.moved = tool.moved \cup {p}]

Install(db) ==
    LET p == <<db, "main">>
    IN  /\ tool.todo = {} /\ p \notin tool.installed
        /\ db = "checkpoint" => <<"product", "main">> \in tool.installed
        /\ files' = [files EXCEPT ![p] = Copy(db)]
        /\ tool' = [tool EXCEPT !.installed = tool.installed \cup {p}]

RestoreStep ==
    /\ tool.doing = "restore"
    /\ (\E p \in Live : SetAside(p)) \/ (\E db \in Databases : Install(db))
    /\ UNCHANGED <<backup, pair, moment, restores>>

Installed == tool.todo = {} /\ \A db \in Databases : <<db, "main">> \in tool.installed

RestoreDone ==
    /\ tool.doing = "restore" /\ Installed
    /\ tool' = Idle /\ pair' = backup[3]
    /\ UNCHANGED <<files, backup, moment, restores>>

\* A step raises: the installed files are removed and those set aside come
\* back.  Any of this may fail too; the rest of it is done all the same.
Undone(gone, back) ==
    [p \in Paths |-> CASE p \in back -> files[Aside(p)]
                       [] \E q \in back : p = Aside(q) -> Absent
                       [] p \in gone \ back -> Absent
                       [] OTHER -> files[p]]

RestoreFails ==
    /\ tool.doing = "restore" /\ ~Installed
    /\ \E gone \in SUBSET tool.installed, back \in SUBSET tool.moved :
          /\ files' = Undone(gone, back)
          /\ pair' = IF gone = tool.installed /\ back = tool.moved THEN tool.was ELSE "broken"
    /\ tool' = Idle
    /\ UNCHANGED <<backup, moment, restores>>

\* The tool is killed between two steps: nothing undoes them.
ToolKilled ==
    /\ tool.doing = "restore"
    /\ tool' = Idle
    /\ pair' = IF tool.moved \cup tool.installed = {} THEN pair ELSE "broken"
    /\ UNCHANGED <<files, backup, moment, restores>>

ToolStep == Backup \/ Restore \/ RestoreStep \/ RestoreDone \/ RestoreFails \/ ToolKilled

-----------------------------------------------------------------------------
\* After a restore that returned from a backup of a whole pair, or that said it put
\* the files back, the two databases are of one moment and no WAL of another moment lies beside them,
\* so that no old WAL is replayed into a restored file.
PairStaysTogether ==
    tool = Idle /\ pair = "whole" =>
       /\ Content("product").at = Content("checkpoint").at
       /\ \A db \in Databases : Sound(db)
=============================================================================
