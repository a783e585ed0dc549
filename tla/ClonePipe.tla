----------------------------- MODULE ClonePipe ------------------------------
(***************************************************************************)
(* clone_db of api/mysql_ops.py: `mysqldump | mysql` as two child          *)
(* processes.  The dump's stdout is a pipe into the restore; each child's  *)
(* stderr is a pipe to the API process, which reads the restore's while it *)
(* waits (communicate) but the dump's only after both have exited.         *)
(***************************************************************************)
EXTENDS Integers

CONSTANTS
    Chunks,     \* pieces of SQL the dump writes
    PipeSize,   \* how many of them the pipe between the children holds
    Warnings,   \* messages the dump may write to its stderr
    StderrSize  \* how many of them its unread stderr pipe holds

ASSUME ChunksAssumption == Chunks \in Nat
ASSUME PipesAssumption == /\ {Warnings, StderrSize} \subseteq Nat
                          /\ PipeSize \in Nat \ {0}

VARIABLES
    parent,     \* where clone_db stands
    dump,       \* the mysqldump process
    restore,    \* the mysql process
    written,    \* chunks the dump has written
    applied,    \* chunks the restore has applied
    warned,     \* messages in the dump's stderr pipe
    category    \* what _classify_failure makes of the exception

cloneVars == <<parent, dump, restore, written, applied, warned, category>>
pipeVars == <<written, applied, warned>>

\* "stuck" is a write to a full stderr pipe; "sigpipe" a write nobody reads.
DumpStates == {"absent", "running", "stuck", "ok", "failed", "sigpipe", "killed"}
RestoreStates == {"absent", "running", "ok", "failed", "killed"}

DumpExited == dump \notin {"absent", "running", "stuck"}
RestoreExited == restore \notin {"absent", "running"}

CloneInit ==
    /\ parent = "ensure"
    /\ dump = "absent" /\ restore = "absent"
    /\ written = 0 /\ applied = 0 /\ warned = 0
    /\ category = "none"

-----------------------------------------------------------------------------
(* mysqldump *)

DumpWrite ==
    /\ dump = "running" /\ restore \in {"absent", "running"}
    /\ written < Chunks
    /\ written - applied < PipeSize
    /\ written' = written + 1
    /\ UNCHANGED <<parent, dump, restore, applied, warned, category>>

\* One more message on stderr, if the pipe has room for it; nobody drains it.
DumpWarn ==
    /\ dump = "running"
    /\ \/ warned < StderrSize /\ warned < Warnings /\ warned' = warned + 1 /\ UNCHANGED dump
       \/ warned = StderrSize /\ warned < Warnings /\ dump' = "stuck" /\ UNCHANGED warned
    /\ UNCHANGED <<parent, restore, written, applied, category>>

\* clone_db raised with the restore never started: its frame is dropped, and
\* with it the ends the API process holds of the dump's two pipes.
Abandoned == parent = "raised" /\ restore = "absent"

\* mutant: somebody keeps the end the API process held
BrokenPipeHeldOpen == RestoreExited /\ written < Chunks

\* The parent closed its copy of the dump's stdout (line 205): when the
\* restore is gone the pipe has no reader.
BrokenPipe == (RestoreExited \/ Abandoned) /\ written < Chunks

DumpEnds ==
    /\ \/ dump = "running" /\ written = Chunks /\ dump' = "ok"
       \/ dump = "running" /\ BrokenPipe /\ dump' = "sigpipe"
       \/ dump = "stuck" /\ Abandoned /\ dump' = "sigpipe"
       \/ dump = "running" /\ dump' = "failed"
    /\ UNCHANGED <<parent, restore, pipeVars, category>>

-----------------------------------------------------------------------------
(* mysql *)

RestoreApply ==
    /\ restore = "running"
    /\ applied < written
    /\ applied' = applied + 1
    /\ UNCHANGED <<parent, dump, restore, written, warned, category>>

\* It exits well at end of file, also when the dump died half way.
RestoreEnds ==
    /\ restore = "running"
    /\ \/ applied = written /\ DumpExited /\ restore' = "ok"
       \/ restore' = "failed"
    /\ UNCHANGED <<parent, dump, pipeVars, category>>

-----------------------------------------------------------------------------
(* clone_db *)

\* _ensure_database raises "CREATE DATABASE ... failed" or lets a timeout
\* through, or mysqldump is not installed or cannot be started.
EnsureFails ==
    /\ parent = "ensure"
    /\ parent' = "raised"
    /\ category' \in {"restore", "dump", "internal"}
    /\ UNCHANGED <<dump, restore, pipeVars>>

SpawnDump ==
    /\ parent = "ensure"
    /\ parent' = "spawn"
    /\ dump' = "running"
    /\ UNCHANGED <<restore, pipeVars, category>>

SpawnRestore ==
    /\ parent = "spawn"
    /\ parent' = "communicate"
    /\ restore' = "running"
    /\ UNCHANGED <<dump, pipeVars, category>>

\* The second Popen raises OSError; nobody kills the first child.
SpawnFails ==
    /\ parent = "spawn"
    /\ parent' = "raised"
    /\ category' = "internal"
    /\ UNCHANGED <<dump, restore, pipeVars>>

\* communicate returns when the restore has exited.
Communicated ==
    /\ parent = "communicate"
    /\ RestoreExited
    /\ parent' = "waitDump"
    /\ UNCHANGED <<dump, restore, pipeVars, category>>

Kill(proc) == IF proc \in {"running", "stuck"} THEN "killed" ELSE proc

\* mutant: only the restore is killed
TimesOutKillingOne ==
    /\ \/ parent = "communicate" /\ ~RestoreExited
       \/ parent = "waitDump" /\ ~DumpExited
    /\ parent' = "raised"
    /\ restore' = Kill(restore)
    /\ category' = "restore"
    /\ UNCHANGED <<dump, pipeVars>>

\* mutant: the wait for the dump has no timeout
TimesOutCommunicating ==
    /\ parent = "communicate" /\ ~RestoreExited
    /\ parent' = "raised"
    /\ dump' = Kill(dump) /\ restore' = Kill(restore)
    /\ category' = "restore"
    /\ UNCHANGED pipeVars

\* 7200 s for the restore, then 30 s for the dump; both children are killed.
\* "streaming clone ... exceeded" does not mention mysqldump.
TimesOut ==
    /\ \/ parent = "communicate" /\ ~RestoreExited
       \/ parent = "waitDump" /\ ~DumpExited
    /\ parent' = "raised"
    /\ dump' = Kill(dump) /\ restore' = Kill(restore)
    /\ category' = "restore"
    /\ UNCHANGED pipeVars

\* mutant: only the restore's return code is looked at
FailedIfRestoreFailed == restore # "ok"

Failed == dump # "ok" \/ restore # "ok"

\* The message names mysqldump whenever the dump's return code is not 0, and
\* _classify_failure looks for that word first.
Classified == IF dump # "ok" THEN "dump" ELSE "restore"

Judge ==
    /\ parent = "waitDump"
    /\ DumpExited
    /\ \/ ~Failed /\ parent' = "returned" /\ UNCHANGED category
       \/ Failed /\ parent' = "raised" /\ category' = Classified
    /\ UNCHANGED <<dump, restore, pipeVars>>

Over == parent \in {"returned", "raised"}

\* Nothing is left to do; keeps the end from looking like a deadlock.
Terminated == Over /\ UNCHANGED cloneVars

Children == DumpWrite \/ DumpWarn \/ DumpEnds \/ RestoreApply \/ RestoreEnds
Parent ==
    EnsureFails \/ SpawnDump \/ SpawnRestore \/ SpawnFails \/ Communicated \/ TimesOut \/ Judge

CloneNext == Children \/ Parent \/ Terminated

CloneSpec == CloneInit /\ [][CloneNext]_cloneVars

-----------------------------------------------------------------------------
(* Properties *)

CloneTypeOK ==
    /\ parent \in {"ensure", "spawn", "communicate", "waitDump", "returned", "raised"}
    /\ dump \in DumpStates /\ restore \in RestoreStates
    /\ written \in 0..Chunks /\ applied \in 0..written
    /\ warned \in 0..Warnings
    /\ category \in {"none", "dump", "restore", "internal"}

\* clone_db only returns when the whole dump was applied: a dump that died half
\* way, whose restore ends well at end of file, is not taken for a clone.
CompleteOnReturn == parent = "returned" => applied = Chunks

\* Whatever way clone_db ends, no child of it is left running, but a dump whose
\* restore could not be started.
NoChildLeft ==
    Over => restore # "running" /\ (dump \in {"running", "stuck"} => Abandoned)

\* A failure of the restore that broke the dump's pipe is reported as a restore
\* failure.
RestoreIsBlamed == restore = "failed" /\ dump = "sigpipe" /\ Over => category = "restore"
=============================================================================
