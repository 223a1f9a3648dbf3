---------------------------- MODULE LegacyImport ----------------------------
(***************************************************************************)
(* The import of legacy snapshot files into the product database           *)
(* (server/legacy_import.py, SQLiteTaskRunRepository.import_legacy_task    *)
(* and record_legacy_import_failure).  A file is read and hashed in a      *)
(* thread under an I/O deadline; what came of it is then stored in one     *)
(* transaction, under the path and the hash of the content, or a hash of   *)
(* the metadata when the content was not read to its end.                  *)
(***************************************************************************)
EXTENDS Naturals

CONSTANTS Importers,     \* the processes that may import
          Sources,       \* task directories with a snapshot file
          Contents,      \* contents a file may hold
          Valid,         \* those that decode into a snapshot with a request
          Metadata,      \* the digest of a file that was not read
          MaxEdits       \* how often files change on disk

VARIABLES disk,      \* source -> the content of its file
          tasks,     \* source -> the task under its name: none, "native", or a content
          imports,   \* legacy_imports: <<source, digest, outcome>>
          importer,  \* importer -> its task: status, sources left, what it read last
          edits

vars == <<disk, tasks, imports, importer, edits>>

NoTask == "none"
Asleep == [status |-> "none", left |-> {}, read |-> {}]

Init ==
    /\ disk \in [Sources -> Contents]
    /\ tasks = [s \in Sources |-> NoTask]
    /\ imports = {}
    /\ importer = [i \in Importers |-> Asleep]
    /\ edits = 0

Running(i) == importer[i].status = "running"

\* The task of a process that started lists its candidates.
List(i) ==
    /\ importer[i].status = "none"
    /\ importer' = [importer EXCEPT ![i] = [status |-> "running", left |-> Sources, read |-> {}]]
    /\ UNCHANGED <<disk, tasks, imports, edits>>

\* _read_and_hash and _decode_snapshot, in a thread.  The deadline may pass or
\* the read may fail before the hash is known, or the deadline after it.
Reading(s) ==
    {[source |-> s, digest |-> disk[s],
      code |-> IF disk[s] \in Valid THEN "ok" ELSE "SCHEMA_INVALID"],
     [source |-> s, digest |-> disk[s], code |-> "IO_BUDGET_EXCEEDED"],
     [source |-> s, digest |-> Metadata, code |-> "IO_BUDGET_EXCEEDED"],
     [source |-> s, digest |-> Metadata, code |-> "READ_FAILED"]}

Read(i, s) ==
    /\ Running(i) /\ importer[i].read = {} /\ s \in importer[i].left
    /\ \E r \in Reading(s) : importer' = [importer EXCEPT ![i].read = {r}]
    /\ UNCHANGED <<disk, tasks, imports, edits>>

Recorded(s, d) == \E row \in imports : row[1] = s /\ row[2] = d
Prior(s) == \E row \in imports : row[1] = s
Conflict(s) == tasks[s] # NoTask
Refused(s) == Prior(s) \/ Conflict(s)

\* import_legacy_task: known by path and hash, or refused and recorded, or
\* imported with its run, its result and its audit row.
Import(r) ==
    LET s == r.source
    IN IF Recorded(s, r.digest) THEN UNCHANGED <<tasks, imports>>
       ELSE IF Refused(s)
       THEN /\ imports' = imports \cup
                  {<<s, r.digest, IF Prior(s) THEN "SOURCE_CHANGED" ELSE "ID_CONFLICT">>}
            /\ UNCHANGED tasks
       ELSE /\ imports' = imports \cup {<<s, r.digest, "imported">>}
            /\ tasks' = [tasks EXCEPT ![s] = r.digest]

\* record_legacy_import_failure, unless the pair is known already.
Fail(r, code) ==
    /\ imports' = IF Recorded(r.source, r.digest) THEN imports
                  ELSE imports \cup {<<r.source, r.digest, code>>}
    /\ UNCHANGED tasks

\* The transaction of the file read last.  A database error in the import is
\* recorded like an invalid file; one in the record of a failure is dropped.
\* The I/O budget ends the scan.
Store(i) ==
    \E r \in importer[i].read :
       /\ Running(i)
       /\ \/ r.code = "ok" /\ Import(r)
          \/ r.code = "ok" /\ Fail(r, "SCHEMA_INVALID")
          \/ r.code # "ok" /\ Fail(r, r.code)
          \/ UNCHANGED <<tasks, imports>>
       /\ LET left == IF r.code = "IO_BUDGET_EXCEEDED" THEN {} ELSE importer[i].left \ {r.source}
          IN importer' = [importer EXCEPT ![i] = [@ EXCEPT !.left = left, !.read = {}]]
       /\ UNCHANGED <<disk, edits>>

Finish(i) ==
    /\ Running(i) /\ importer[i].left = {} /\ importer[i].read = {}
    /\ importer' = [importer EXCEPT ![i] = Asleep]
    /\ UNCHANGED <<disk, tasks, imports, edits>>

\* The process ends, or loses its lease: the task is cancelled at an await, and
\* its open transaction is rolled back.
Cancelled(i) ==
    /\ Running(i)
    /\ importer' = [importer EXCEPT ![i] = Asleep]
    /\ UNCHANGED <<disk, tasks, imports, edits>>

Edit(s) == /\ edits < MaxEdits /\ edits' = edits + 1
           /\ \E c \in Contents \ {disk[s]} : disk' = [disk EXCEPT ![s] = c]
           /\ UNCHANGED <<tasks, imports, importer>>

\* A client creates a task that happens to have the name of a directory.
CreateTask(s) == /\ tasks[s] = NoTask
                 /\ tasks' = [tasks EXCEPT ![s] = "native"]
                 /\ UNCHANGED <<disk, imports, importer, edits>>

Next ==
    \/ \E i \in Importers : List(i) \/ (\E s \in Sources : Read(i, s)) \/ Store(i) \/ Finish(i)
                           \/ Cancelled(i)
    \/ \E s \in Sources : Edit(s) \/ CreateTask(s)

Spec == Init /\ [][Next]_vars

-----------------------------------------------------------------------------
\* Whoever imports, again and again and at the same time: an imported row and
\* its task stand together, a file is imported at most once, and no import
\* replaces a task that is there.
ImportedRows(s) == {row \in imports : row[1] = s /\ row[3] = "imported"}
ImportedOnce ==
    \A s \in Sources :
       ImportedRows(s) = IF tasks[s] \in Contents THEN {<<s, tasks[s], "imported">>} ELSE {}

\* docs/phase1-runtime-contract.md: a changed content is what is recorded as
\* such; an import that ran out of its I/O budget can be done again later.  The
\* code records the failure of the first import under the path, and then takes
\* the unchanged file for a changed one.
ChangedMeansChanged ==
    edits = 0 => \A row \in imports : row[3] # "SOURCE_CHANGED"
=============================================================================
