------------------------------- MODULE Tunnel -------------------------------
(***************************************************************************)
(* open_tunnel of api/ssh_tunnel.py, for one create: an `ssh -N -L` child   *)
(* on a local port the kernel picked and that was released again, so any   *)
(* other process (another create's ssh, say) may listen there first.       *)
(* ssh itself and the other process are external.                          *)
(***************************************************************************)

VARIABLES
    block,      \* where the with block stands
    ssh,        \* the ssh child
    peer,       \* another process that may listen on the picked port
    outcome     \* fine, or raised: an exception is on its way out

tunnelVars == <<block, ssh, peer, outcome>>

Blocks == {"start", "picked", "wait", "accepted", "open", "closing", "left"}

TunnelTypeOK == /\ block \in Blocks
                /\ ssh \in {"absent", "connecting", "listening", "exited"}
                /\ peer \in {"absent", "listening"}
                /\ outcome \in {"fine", "raised"}

TunnelInit == block = "start" /\ ssh = "absent" /\ peer = "absent" /\ outcome = "fine"

SshAlive == ssh \in {"connecting", "listening"}

\* A connect to the picked port is accepted, by whoever listens there.
Accepts == "listening" \in {ssh, peer}

-----------------------------------------------------------------------------
(* ssh and the other process *)

\* ssh binds the port once it is logged in, if nobody else has it.
SshListens ==
    /\ ssh = "connecting" /\ peer = "absent"
    /\ ssh' = "listening"
    /\ UNCHANGED <<block, peer, outcome>>

\* No login, the port taken (ExitOnForwardFailure), a lost connection, SIGTERM.
SshExits ==
    /\ SshAlive
    /\ ssh' = "exited"
    /\ UNCHANGED <<block, peer, outcome>>

PeerBinds ==
    /\ block \notin {"start", "left"}
    /\ ~Accepts
    /\ peer' = "listening"
    /\ UNCHANGED <<block, ssh, outcome>>

PeerLeaves ==
    /\ peer = "listening"
    /\ peer' = "absent"
    /\ UNCHANGED <<block, ssh, outcome>>

-----------------------------------------------------------------------------
(* open_tunnel, up to the yield *)

PickLocalPort ==
    /\ block = "start"
    /\ block' = "picked"
    /\ UNCHANGED <<ssh, peer, outcome>>

\* No key file, or ssh cannot be started.
NoSsh ==
    /\ block \in {"start", "picked"}
    /\ block' = "left" /\ outcome' = "raised"
    /\ UNCHANGED <<ssh, peer>>

StartSsh ==
    /\ block = "picked"
    /\ block' = "wait" /\ ssh' = "connecting"
    /\ UNCHANGED <<peer, outcome>>

\* _wait_listening connects; it cannot tell to whom.
Accepted ==
    /\ block = "wait"
    /\ Accepts
    /\ block' = "accepted"
    /\ UNCHANGED <<ssh, peer, outcome>>

\* 10 s without a connection: terminate, and TunnelError.  A child that does not
\* go in 3 s is killed and not waited for: SIGKILL is taken to act at once.
NotListening ==
    /\ block = "wait"
    /\ block' = "closing" /\ outcome' = "raised"
    /\ UNCHANGED <<ssh, peer>>

\* mutant: nobody looks at the child
EnteredUnpolled ==
    /\ block = "accepted"
    /\ block' = "open"
    /\ UNCHANGED <<ssh, peer, outcome>>

\* poll(): the block is entered while the child lives, TunnelError otherwise.
Polled ==
    /\ block = "accepted"
    /\ \/ SshAlive /\ block' = "open" /\ UNCHANGED outcome
       \/ ~SshAlive /\ block' = "left" /\ outcome' = "raised"
    /\ UNCHANGED <<ssh, peer>>

-----------------------------------------------------------------------------
(* the end of the block *)

\* Tunnel.close: SIGTERM, when the block ends or an exception leaves it.
Close(how) ==
    /\ block = "open"
    /\ block' = "closing" /\ outcome' = how
    /\ UNCHANGED <<ssh, peer>>

\* mutant: no SIGKILL after the 3 s
ClosedAnyway ==
    /\ block = "closing"
    /\ block' = "left"
    /\ UNCHANGED <<ssh, peer, outcome>>

\* wait(3) returns because the child has exited, or SIGKILL ends it.
Closed ==
    /\ block = "closing"
    /\ block' = "left" /\ ssh' = "exited"
    /\ UNCHANGED <<peer, outcome>>
=============================================================================
