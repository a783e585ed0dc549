--------------------------- MODULE Transfer_proofs ---------------------------
(***************************************************************************)
(* What holds of the copying of the databases, for every number of         *)
(* databases and every size of the dumps and the pipes, and that it does   *)
(* what CreateSession takes for two steps.                                 *)
(***************************************************************************)
EXTENDS Transfer, ClonePipe_proofs

USE DEF tunnelVars, here, transferVars, cloneVars, pipeVars, DumpStates, RestoreStates, DumpExited,
        RestoreExited, Over, Abandoned

\* The databases before the present one are complete, clones run only while the
\* block is open, and the block is left normally only after the last of them.
LoopInv ==
    /\ \A d \in 1..Databases : d < db => d \in complete
    /\ applied = Chunks => db \in complete
    /\ parent # "ensure" => block \in {"open", "closing", "left"}
    /\ block \in {"closing", "left"} /\ parent # "ensure" => Over
    /\ block \in {"closing", "left"} /\ outcome = "fine" => parent = "returned" /\ db = Databases

\* The ssh child lives from its start to the end of the block at most.
SshInv ==
    /\ block \in {"start", "picked"} => ssh = "absent"
    /\ block = "left" => ~SshAlive

TransferInv == TransferTypeOK /\ CloneInv /\ LoopInv /\ SshInv

\* Before the block nothing is there.
LEMMA TransferInvInit == TransferInit => TransferInv
<1> SUFFICES ASSUME TransferInit PROVE TransferInv
    OBVIOUS
<1>1. CloneInv
  BY CloneInvInit DEF TransferInit
<1>2. TransferTypeOK
  BY <1>1, DatabasesAssumption DEF TransferInit, TransferTypeOK, CloneInv, TunnelInit, TunnelTypeOK,
     Blocks
<1>3. LoopInv
  BY DatabasesAssumption, ChunksAssumption DEF TransferInit, CloneInit, TunnelInit, LoopInv
<1>4. SshInv
  BY DEF TransferInit, TunnelInit, SshInv, SshAlive
<1> QED BY <1>1, <1>2, <1>3, <1>4 DEF TransferInv

\* A restore runs only while clone_db waits for it, inside the open block.
LEMMA RestoreInBlock ==
    ASSUME TransferInv, restore = "running" PROVE parent = "communicate" /\ block = "open"
BY DEF TransferInv, CloneInv, CloneTypeOK, PipeInv, NoChildLeft, LoopInv, TransferTypeOK,
   TunnelTypeOK, Blocks

\* The children and whoever listens on the port leave the loop alone, and a
\* database once complete stays so.
LEMMA EnvironmentKeeps ==
    ASSUME TransferInv, DumpConnects \/ DumpMoves \/ RestoreMoves \/ ListenerMoves
    PROVE  TransferInv'
<1> USE DEF TransferInv
<1>1. CloneInv'
  <2>1. Children \/ UNCHANGED cloneVars
    BY DEF DumpConnects, DumpMoves, RestoreMoves, ListenerMoves, Children
  <2>2. CASE UNCHANGED cloneVars
    BY <2>2 DEF CloneInv, CloneTypeOK, PipeInv, NoChildLeft
  <2> QED BY <2>1, <2>2, ChildrenKeep
<1>2. CASE DumpConnects \/ DumpMoves
  <2>1. /\ UNCHANGED <<tunnelVars, db, complete, parent, applied>>
        /\ via' \in {"none", "ssh", "peer", "cut"}
    BY <1>2 DEF DumpConnects, DumpMoves, DumpWrite, DumpWarn, DumpEnds, TransferTypeOK
  <2> QED BY <1>1, <2>1 DEF TransferTypeOK, TunnelTypeOK, CloneInv, LoopInv, SshInv, SshAlive
<1>3. CASE RestoreMoves
  <2>1. /\ UNCHANGED <<tunnelVars, db, via, parent>> /\ complete' \in {complete, complete \cup {db}}
        /\ applied' = Chunks => db \in complete'
    BY <1>3 DEF RestoreMoves, RestoreApply, RestoreEnds
  <2> QED BY <1>1, <2>1 DEF TransferTypeOK, TunnelTypeOK, CloneInv, LoopInv, SshInv, SshAlive
<1>4. CASE ListenerMoves
  <2>1. /\ UNCHANGED <<cloneVars, block, outcome, db, complete>>
        /\ ssh' \in {"absent", "connecting", "listening", "exited"}
        /\ peer' \in {"absent", "listening"}
        /\ via' \in {"none", "ssh", "peer", "cut"}
        /\ ssh' = ssh \/ (ssh # "absent" /\ (ssh' = "exited" \/ ssh = "connecting"))
    BY <1>4 DEF ListenerMoves, SshListens, SshExits, PeerBinds, PeerLeaves, SshAlive,
       TransferTypeOK, TunnelTypeOK
  <2> QED BY <1>1, <2>1 DEF TransferTypeOK, TunnelTypeOK, CloneInv, LoopInv, SshInv, SshAlive
<1> QED BY <1>2, <1>3, <1>4

\* open_tunnel: until the block is open no clone has begun.
LEMMA OpensKeep == ASSUME TransferInv, Opens PROVE TransferInv'
<1> USE DEF TransferInv
<1>1. UNCHANGED <<cloneVars, here>> /\ block \in {"start", "picked", "wait", "accepted"}
  BY DEF Opens, PickLocalPort, NoSsh, StartSsh, Accepted, NotListening, Polled
<1>2. CloneInv' /\ parent = "ensure"
  BY <1>1 DEF CloneInv, CloneTypeOK, PipeInv, NoChildLeft, LoopInv
<1>3. /\ block' \in Blocks /\ ssh' \in {"absent", "connecting", "listening", "exited"}
      /\ outcome' \in {"fine", "raised"} /\ peer' = peer
      /\ (block' \in {"closing", "left"} => outcome' = "raised")
      /\ SshInv'
  BY DEF Opens, PickLocalPort, NoSsh, StartSsh, Accepted, NotListening, Polled, SshInv, SshAlive,
     TransferTypeOK, TunnelTypeOK, Blocks
<1> QED BY <1>1, <1>2, <1>3 DEF TransferTypeOK, TunnelTypeOK, CloneInv, LoopInv

\* clone_db, one database after the other, and the end of the block.
LEMMA LoopKeeps == ASSUME TransferInv, Clones \/ NextDatabase \/ Leaves \/ Gone PROVE TransferInv'
<1> USE DEF TransferInv
<1>1. CASE Clones
  <2>1. CloneInv' /\ UNCHANGED <<tunnelVars, here>> /\ block = "open"
    BY <1>1, ParentKeeps DEF Clones
  <2>2. applied' = applied
    BY <1>1 DEF Clones, Parent, EnsureFails, SpawnDump, SpawnRestore, SpawnFails, Communicated,
       TimesOut, Judge
  <2> QED BY <2>1, <2>2 DEF TransferTypeOK, TunnelTypeOK, CloneInv, LoopInv, SshInv, SshAlive
<1>2. CASE NextDatabase
  <2>1. /\ UNCHANGED <<tunnelVars, category, complete>> /\ block = "open" /\ db < Databases
        /\ db' = db + 1 /\ via' = "none" /\ parent = "returned"
        /\ parent' = "ensure" /\ dump' = "absent" /\ restore' = "absent"
        /\ written' = 0 /\ applied' = 0 /\ warned' = 0
    BY <1>2 DEF NextDatabase
  <2>2. CloneInv'
    BY <2>1, ChunksAssumption, PipesAssumption DEF CloneInv, CloneTypeOK, PipeInv, NoChildLeft
  <2>3. db \in complete
    BY <2>1 DEF CloneInv, PipeInv, LoopInv
  <2>4. TransferTypeOK'
    BY <2>1, <2>2, DatabasesAssumption DEF TransferTypeOK, TunnelTypeOK, CloneInv
  <2>5. LoopInv'
    BY <2>1, <2>3, DatabasesAssumption, ChunksAssumption DEF LoopInv, TransferTypeOK
  <2> QED BY <2>1, <2>2, <2>4, <2>5 DEF SshInv, SshAlive
<1>3. CASE Leaves
  <2>1. /\ UNCHANGED <<cloneVars, here, ssh, peer>> /\ block = "open" /\ block' = "closing" /\ Over
        /\ outcome' \in {"fine", "raised"}
        /\ (outcome' = "fine" => parent = "returned" /\ db = Databases)
    BY <1>3 DEF Leaves, Close
  <2>2. CloneInv'
    BY <2>1 DEF CloneInv, CloneTypeOK, PipeInv, NoChildLeft
  <2> QED BY <2>1, <2>2 DEF TransferTypeOK, TunnelTypeOK, Blocks, CloneInv, LoopInv, SshInv
<1>4. CASE Gone
  <2>1. /\ UNCHANGED <<cloneVars, db, complete, peer, outcome>> /\ block = "closing"
        /\ block' = "left" /\ ssh' = "exited" /\ via' \in {via, "cut"}
    BY <1>4 DEF Gone, Closed
  <2>2. CloneInv'
    BY <2>1 DEF CloneInv, CloneTypeOK, PipeInv, NoChildLeft
  <2> QED BY <2>1, <2>2 DEF TransferTypeOK, TunnelTypeOK, Blocks, CloneInv, LoopInv, SshInv,
     SshAlive
<1> QED BY <1>1, <1>2, <1>3, <1>4

\* In every state the loop, its children and the tunnel are where _do_create
\* believes them to be.
THEOREM TransferInvariant == TransferSpec => []TransferInv
<1>1. TransferInv /\ [TransferNext]_transferVars => TransferInv'
  <2>1. CASE UNCHANGED transferVars
    BY <2>1 DEF TransferInv, TransferTypeOK, TunnelTypeOK, CloneInv, CloneTypeOK, PipeInv,
       NoChildLeft, LoopInv, SshInv, SshAlive
  <2> QED BY <2>1, EnvironmentKeeps, OpensKeep, LoopKeeps DEF TransferNext, Block, Finished
<1> QED BY <1>1, TransferInvInit, PTL DEF TransferSpec

\* The variables of clone, tunnel and loop keep their types.
THEOREM TransferTypeCorrect == TransferSpec => []TransferTypeOK
BY TransferInvariant, PTL DEF TransferInv

\* What is proved of one clone holds of every clone of the loop: it returns
\* only with the whole dump applied,
THEOREM EveryCloneIsComplete == TransferSpec => []CompleteOnReturn
<1>1. TransferInv => CompleteOnReturn
  BY DEF TransferInv, CloneInv, PipeInv, CompleteOnReturn
<1> QED BY <1>1, TransferInvariant, PTL

\* and leaves no child but a dump whose restore could not be started.
THEOREM EveryCloneReaps == TransferSpec => []NoChildLeft
BY TransferInvariant, PTL DEF TransferInv, CloneInv

\* Left without an exception, the block has the whole of the last database, and
\* of all before it.
LEMMA LeftIsComplete ==
    ASSUME TransferInv, block \in {"closing", "left"}, outcome = "fine"
    PROVE  complete = 1..Databases
<1>1. parent = "returned" /\ db = Databases
  BY DEF TransferInv, LoopInv
<1>2. db \in complete
  BY <1>1 DEF TransferInv, CloneInv, PipeInv, LoopInv
<1>3. \A d \in 1..Databases : d \in complete
  BY <1>1, <1>2, DatabasesAssumption DEF TransferInv, LoopInv
<1> QED BY <1>3 DEF TransferInv, TransferTypeOK

\* The create goes on only with every database copied completely.
THEOREM TransfersAreComplete == TransferSpec => []LeavesComplete
<1>1. TransferInv => LeavesComplete
  BY LeftIsComplete DEF LeavesComplete
<1> QED BY <1>1, TransferInvariant, PTL

\* However the block ends, its ssh child is gone.
THEOREM TunnelsAreReaped == TransferSpec => []NoSshLeft
<1>1. TransferInv => NoSshLeft
  BY DEF TransferInv, SshInv, NoSshLeft
<1> QED BY <1>1, TransferInvariant, PTL

-----------------------------------------------------------------------------
(* The block is the two steps of CreateSession *)

\* Every step is one of the abstract block's, or none of it.
LEMMA BlockStep ==
    ASSUME TransferInv, TransferInv', [TransferNext]_transferVars
    PROVE  [Outer!BlockNext]_(Outer!blockVars)
<1> USE DEF PhaseOf, Outer!blockVars
<1>1. CASE UNCHANGED transferVars
  BY <1>1 DEF SshAlive, Over
<1>2. CASE DumpConnects \/ DumpMoves
  BY <1>2 DEF DumpConnects, DumpMoves, DumpWrite, DumpWarn, DumpEnds, SshAlive
<1>3. CASE RestoreMoves
  <2>1. /\ restore = "running" /\ UNCHANGED <<parent, tunnelVars>>
        /\ complete' \in {complete, complete \cup {db}}
    BY <1>3 DEF RestoreMoves, RestoreApply, RestoreEnds
  <2>2. block = "open" /\ complete \subseteq 1..Databases /\ db \in 1..Databases
    BY <2>1, RestoreInBlock DEF TransferInv, TransferTypeOK
  <2>3. complete = 1..Databases => complete' = complete
    BY <2>1, <2>2
  <2> QED BY <2>1, <2>2, <2>3 DEF Outer!BlockNext, Outer!Fill, SshAlive
<1>4. CASE ListenerMoves
  <2>1. UNCHANGED <<parent, block, outcome, complete>>
    BY <1>4 DEF ListenerMoves, SshListens, SshExits, PeerBinds, PeerLeaves
  <2>2. PhaseOf' = PhaseOf
    BY <2>1
  <2>3. CASE SshExits
    <3>1. SshAlive /\ ~SshAlive'
      BY <2>3 DEF SshExits, SshAlive
    <3>2. PhaseOf \in {"tunnel", "clone"}
      BY <3>1 DEF TransferInv, SshInv
    <3> HIDE DEF PhaseOf
    <3> QED BY <2>1, <2>2, <3>1, <3>2 DEF Outer!BlockNext, Outer!Flips, SshAlive
  <2>4. CASE ~SshExits
    <3>1. SshAlive' = SshAlive
      BY <1>4, <2>4 DEF ListenerMoves, SshListens, PeerBinds, PeerLeaves, SshAlive
    <3> HIDE DEF PhaseOf
    <3> QED BY <2>1, <2>2, <3>1
  <2> QED BY <2>3, <2>4
<1>5. CASE Opens
  <2>1. parent = "ensure" /\ UNCHANGED <<parent, complete>>
    BY <1>5 DEF Opens, PickLocalPort, NoSsh, StartSsh, Accepted, NotListening, Polled, TransferInv,
       LoopInv
  <2> USE <2>1 DEF Outer!BlockNext, SshAlive
  <2>2. CASE PickLocalPort \/ Accepted \/ NotListening
    BY <2>2 DEF PickLocalPort, Accepted, NotListening
  <2>3. CASE NoSsh
    BY <2>3 DEF NoSsh, Outer!RaiseOut, TransferInv, SshInv
  <2>4. CASE StartSsh
    BY <2>4 DEF StartSsh, Outer!Flips, TransferInv, SshInv
  <2>5. CASE Polled
    BY <2>5 DEF Polled, Outer!Enter, Outer!RaiseOut
  <2> QED BY <1>5, <2>2, <2>3, <2>4, <2>5 DEF Opens
<1>6. CASE Clones \/ NextDatabase \/ Leaves
  BY <1>6 DEF Clones, NextDatabase, Leaves, Close, SshAlive
<1>7. CASE Gone
  <2>1. /\ block = "closing" /\ block' = "left" /\ UNCHANGED <<parent, outcome, complete>>
        /\ ~SshAlive'
    BY <1>7 DEF Gone, Closed, SshAlive
  <2>2. CASE outcome = "raised"
    BY <2>1, <2>2 DEF Outer!BlockNext, Outer!RaiseOut
  <2>3. CASE outcome = "fine"
    <3>1. complete = 1..Databases /\ Over
      BY <2>1, <2>3, LeftIsComplete DEF TransferInv, LoopInv
    <3> QED BY <2>1, <2>3, <3>1 DEF Outer!BlockNext, Outer!Leave
  <2> QED BY <2>2, <2>3 DEF TransferInv, TransferTypeOK, TunnelTypeOK
<1> QED
  BY <1>1, <1>2, <1>3, <1>4, <1>5, <1>6, <1>7 DEF TransferNext, Block, Finished

\* The tunnel, the loop and the clones together implement the block that
\* CreateSession takes for the two steps OpenTunnel and Clone.
THEOREM TransferImplementsBlock == TransferSpec => ImplementsBlock
<1>1. TransferInit => Outer!BlockInit
  <2> SUFFICES ASSUME TransferInit PROVE Outer!BlockInit
      OBVIOUS
  <2>1. 1 \in 1..Databases
    BY DatabasesAssumption
  <2> QED BY <2>1 DEF TransferInit, TunnelInit, Outer!BlockInit, PhaseOf, SshAlive
<1> QED BY <1>1, BlockStep, TransferInvariant, PTL DEF TransferSpec, ImplementsBlock,
   Outer!BlockSpec
=============================================================================
