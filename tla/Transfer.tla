------------------------------ MODULE Transfer ------------------------------
(***************************************************************************)
(* The with block of SandboxService._do_create: the tunnel is opened, every *)
(* database is cloned through it, one after the other, and the tunnel is   *)
(* closed, also when a clone raises.                                       *)
(***************************************************************************)
EXTENDS ClonePipe, Tunnel

CONSTANT Databases  \* how many databases the request names; at least one

ASSUME DatabasesAssumption == Databases \in Nat \ {0} /\ Chunks > 0

VARIABLES
    db,         \* the database being cloned
    via,        \* whom the dump is connected to: ssh, the peer, or cut off
    complete    \* the databases the sandbox has got completely

transferVars == <<cloneVars, tunnelVars, db, via, complete>>
here == <<db, via, complete>>

TransferTypeOK == /\ CloneTypeOK /\ TunnelTypeOK
                  /\ db \in 1..Databases
                  /\ via \in {"none", "ssh", "peer", "cut"}
                  /\ complete \subseteq 1..Databases

TransferInit == CloneInit /\ TunnelInit /\ db = 1 /\ via = "none" /\ complete = {}

-----------------------------------------------------------------------------
(* the children, and who serves the port *)

\* mysqldump connects to whoever listens on the tunnel's port.
DumpConnects ==
    /\ dump = "running" /\ via = "none"
    /\ via' = IF ssh = "listening" THEN "ssh" ELSE "peer"
    /\ Accepts
    /\ UNCHANGED <<cloneVars, tunnelVars, db, complete>>

\* Nothing arrives over a connection that was cut.
DumpMoves ==
    /\ (DumpWrite /\ via \in {"ssh", "peer"}) \/ DumpWarn \/ DumpEnds
    /\ UNCHANGED <<tunnelVars, here>>

RestoreMoves ==
    /\ RestoreApply \/ RestoreEnds
    /\ complete' = IF applied' = Chunks THEN complete \cup {db} ELSE complete
    /\ UNCHANGED <<tunnelVars, db, via>>

\* A forward lives exactly as long as the process that listens.
ListenerMoves ==
    /\ \/ SshListens /\ UNCHANGED via
       \/ SshExits /\ via' = IF via = "ssh" THEN "cut" ELSE via
       \/ PeerBinds /\ UNCHANGED via
       \/ PeerLeaves /\ via' = IF via = "peer" THEN "cut" ELSE via
    /\ UNCHANGED <<cloneVars, db, complete>>

-----------------------------------------------------------------------------
(* _do_create *)

Opens ==
    /\ PickLocalPort \/ NoSsh \/ StartSsh \/ Accepted \/ NotListening \/ Polled
    /\ UNCHANGED <<cloneVars, here>>

Clones ==
    /\ block = "open"
    /\ Parent
    /\ UNCHANGED <<tunnelVars, here>>

\* mutant: one round too many
NextDatabasePastTheLast ==
    /\ block = "open" /\ parent = "returned" /\ db <= Databases
    /\ db' = db + 1 /\ via' = "none"
    /\ parent' = "ensure" /\ dump' = "absent" /\ restore' = "absent"
    /\ written' = 0 /\ applied' = 0 /\ warned' = 0
    /\ UNCHANGED <<tunnelVars, category, complete>>

\* The loop goes on with the next database: two new children and pipes.
NextDatabase ==
    /\ block = "open" /\ parent = "returned" /\ db < Databases
    /\ db' = db + 1 /\ via' = "none"
    /\ parent' = "ensure" /\ dump' = "absent" /\ restore' = "absent"
    /\ written' = 0 /\ applied' = 0 /\ warned' = 0
    /\ UNCHANGED <<tunnelVars, category, complete>>

\* mutant: a clone that raised is skipped
LeavesIgnoringClones ==
    /\ Over
    /\ Close("fine")
    /\ UNCHANGED <<cloneVars, here>>

Leaves ==
    /\ \/ parent = "returned" /\ db = Databases /\ Close("fine")
       \/ parent = "raised" /\ Close("raised")
    /\ UNCHANGED <<cloneVars, here>>

Gone ==
    /\ Closed
    /\ via' = IF via = "ssh" /\ ~SshAlive' THEN "cut" ELSE via
    /\ UNCHANGED <<cloneVars, db, complete>>

\* Nothing is left to do; keeps the end from looking like a deadlock.
Finished == block = "left" /\ UNCHANGED transferVars

Block == Opens \/ Clones \/ NextDatabase \/ Leaves \/ Gone

TransferNext ==
    DumpConnects \/ DumpMoves \/ RestoreMoves \/ ListenerMoves \/ Block \/ Finished

TransferSpec == TransferInit /\ [][TransferNext]_transferVars

\* A child the kernel told so ends: its connection was cut while it was not
\* blocked on a full pipe, or nobody holds the pipe it writes to.
DumpNotices ==
    /\ DumpMoves /\ dump' \in {"failed", "sigpipe"}
    /\ \/ dump = "running" /\ via = "cut" /\ (written - applied < PipeSize \/ BrokenPipe)
       \/ dump = "stuck"

\* Every wait of the block has a timeout.  Nothing else is assumed of the
\* children: one that waits for a silent server may do so for ever.
Fairness == WF_transferVars(Block) /\ WF_transferVars(DumpNotices)

FairTransferSpec == TransferSpec /\ Fairness

-----------------------------------------------------------------------------
(* Properties *)

\* The create goes on only with every database copied completely, however
\* children, ssh and the listener on the port come and go.
LeavesComplete == block = "left" /\ outcome = "fine" => complete = 1..Databases

\* However the block ends, its ssh child is gone.
NoSshLeft == block = "left" => ~SshAlive

\* The block ends, however the children block each other or ssh hangs.
TransferEnds == <>(block = "left")

\* A dump that was left behind without its restore, and that reads through the
\* tunnel, ends with the tunnel: the block closes it on the way of the exception.
StrayEnds == Abandoned /\ via \in {"ssh", "cut"} ~> dump \notin {"running", "stuck"}

-----------------------------------------------------------------------------
(* The block as CreateSession sees it: see CloneBlock. *)

PhaseOf ==
    CASE block = "left" -> IF outcome = "raised" THEN "cleanup" ELSE "grant"
      [] block = "open" \/ (block = "closing" /\ Over) -> "clone"
      [] OTHER -> "tunnel"

Outer == INSTANCE CloneBlock WITH
             phase <- PhaseOf, open <- SshAlive, copied <- complete = 1..Databases

\* The block keeps the promise CreateSession is built on.
ImplementsBlock == Outer!BlockSpec
=============================================================================
