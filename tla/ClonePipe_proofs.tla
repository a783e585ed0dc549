-------------------------- MODULE ClonePipe_proofs --------------------------
(***************************************************************************)
(* What holds of a clone for every size of the dump and of the two pipes.  *)
(***************************************************************************)
EXTENDS ClonePipe, TLAPS

\* A dump ends well only when everything is written, a restore only when all
\* that was written by a dump that has ended is applied; before and after the
\* parent's wait the children are where the parent believes them to be.
PipeInv ==
    /\ parent = "ensure" => dump = "absent" /\ restore = "absent" /\ written = 0 /\ applied = 0
    /\ parent = "spawn" => restore = "absent"
    /\ restore = "absent" => applied = 0
    /\ dump = "ok" => written = Chunks
    /\ restore = "ok" => applied = written /\ DumpExited
    /\ parent = "waitDump" => RestoreExited
    /\ parent = "returned" => dump = "ok" /\ restore = "ok"

CloneInv == CloneTypeOK /\ PipeInv /\ NoChildLeft

USE DEF cloneVars, pipeVars, DumpStates, RestoreStates, DumpExited, RestoreExited, Over, Abandoned

\* Before the children are started nothing is written.
LEMMA CloneInvInit == CloneInit => CloneInv
BY ChunksAssumption, PipesAssumption DEF CloneInit, CloneInv, CloneTypeOK, PipeInv, NoChildLeft

\* No step of mysqldump or mysql breaks the invariant,
LEMMA ChildrenKeep == CloneInv /\ Children => CloneInv'
<1> SUFFICES ASSUME CloneInv, Children PROVE CloneInv'
    OBVIOUS
<1> USE ChunksAssumption, PipesAssumption DEF CloneInv, CloneTypeOK, PipeInv, NoChildLeft
<1>1. CASE DumpWrite
  BY <1>1 DEF DumpWrite
<1>2. CASE DumpWarn
  BY <1>2 DEF DumpWarn
<1>3. CASE DumpEnds
  BY <1>3 DEF DumpEnds, BrokenPipe
<1>4. CASE RestoreApply
  BY <1>4 DEF RestoreApply
<1>5. CASE RestoreEnds
  BY <1>5 DEF RestoreEnds
<1> QED BY <1>1, <1>2, <1>3, <1>4, <1>5 DEF Children

\* and neither does a step of clone_db itself.
LEMMA ParentKeeps == CloneInv /\ Parent => CloneInv'
<1> SUFFICES ASSUME CloneInv, Parent PROVE CloneInv'
    OBVIOUS
<1> USE ChunksAssumption, PipesAssumption DEF CloneInv, CloneTypeOK, PipeInv, NoChildLeft
<1>1. CASE EnsureFails
  BY <1>1 DEF EnsureFails
<1>2. CASE SpawnDump \/ SpawnRestore \/ SpawnFails
  BY <1>2 DEF SpawnDump, SpawnRestore, SpawnFails
<1>3. CASE Communicated
  BY <1>3 DEF Communicated
<1>4. CASE TimesOut
  BY <1>4 DEF TimesOut, Kill
<1>5. CASE Judge
  BY <1>5 DEF Judge, Failed, Classified
<1> QED BY <1>1, <1>2, <1>3, <1>4, <1>5 DEF Parent

\* In every state of a clone its children stand where clone_db believes them to.
THEOREM CloneInvariant == CloneSpec => []CloneInv
<1>1. CloneInv /\ [CloneNext]_cloneVars => CloneInv'
  <2>1. CASE UNCHANGED cloneVars
    BY <2>1 DEF CloneInv, CloneTypeOK, PipeInv, NoChildLeft
  <2> QED BY <2>1, ChildrenKeep, ParentKeeps DEF CloneNext, Terminated
<1> QED BY <1>1, CloneInvInit, PTL DEF CloneSpec

\* Nothing is applied that was not written, and nothing written past the end
\* of the dump.
THEOREM CloneTypeCorrect == CloneSpec => []CloneTypeOK
BY CloneInvariant, PTL DEF CloneInv

\* When clone_db returns, the whole dump was applied: that mysql ends well
\* after a dump that died half way never passes for a clone.
THEOREM ClonesAreComplete == CloneSpec => []CompleteOnReturn
<1>1. CloneInv => CompleteOnReturn
  BY DEF CloneInv, PipeInv, CompleteOnReturn
<1> QED BY <1>1, CloneInvariant, PTL

\* However clone_db ends, it has left no child running.
THEOREM ChildrenAreReaped == CloneSpec => []NoChildLeft
BY CloneInvariant, PTL DEF CloneInv
=============================================================================
