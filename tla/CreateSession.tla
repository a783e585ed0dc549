---------------------------- MODULE CreateSession ---------------------------
(***************************************************************************)
(* POST /instance: SandboxService.create, run in one thread of the pool.   *)
(* Each action is one call of create / _do_create that another thread, the *)
(* reaper or a crash can come between.  A session id is created at most    *)
(* once, so the thread that creates s is named by s.                       *)
(***************************************************************************)
EXTENDS Docker

CONSTANT LastStart      \* bound: no create starts after this time

ASSUME LastStartAssumption == LastStart \in Nat

VARIABLES
    create,     \* where the create of each session stands, and its local `now`
    tunnels     \* sessions with an SSH tunnel to production open

createVars == <<create, tunnels>>

\* Steps that talk to the session's own container or files and may just raise.
Raising == {"tls", "render", "wait", "tunnel", "clone", "grant", "publish", "waitPublic",
            "ready"}

Steps == Raising \cup {"reserve", "up", "down", "upPublic", "lateDown", "cleanup", "rmtree",
                       "setError"}

NotStarted == [pc |-> "idle", t0 |-> 0]
Ended == [pc |-> "ended", t0 |-> 0]

CreateTypeOK == /\ create \in [Sids -> [pc : Steps \cup {"idle", "ended"}, t0 : Nat]]
                /\ tunnels \subseteq Sids

CreateInit == create = [s \in Sids |-> NotStarted] /\ tunnels = {}

At(s, step) == create[s].pc = step

\* The create of s has a thread running.
Live(s) == create[s].pc \in Steps

Goto(s, from, to) == At(s, from) /\ create' = [create EXCEPT ![s].pc = to]

Return(s) == create' = [create EXCEPT ![s] = Ended]

-----------------------------------------------------------------------------
(* create, up to the reservation *)

\* The id, int(time.time()) and make_session_paths, before the transaction.
Start(s) ==
    /\ At(s, "idle")
    /\ now <= LastStart
    /\ create' = [create EXCEPT ![s] = [pc |-> "reserve", t0 |-> now]]
    /\ disk' = [disk EXCEPT ![s] = "dirs"]
    /\ UNCHANGED <<storeVars, docker, tunnels>>

\* mutant: the row is to be inserted later
ReserveWithoutInsert(s) ==
    /\ Goto(s, "reserve", "tls")
    /\ UNCHANGED <<storeVars, dockerVars, tunnels>>

Reserve(s) ==
    /\ Goto(s, "reserve", "tls")
    /\ ReserveSession(s, create[s].t0)
    /\ UNCHANGED <<now, dockerVars, tunnels>>

\* allocate_port raises DockerOpsError: the directories go and no row is made.
NoPort(s) ==
    /\ At(s, "reserve")
    /\ FreePorts = {}
    /\ Return(s)
    /\ disk' = [disk EXCEPT ![s] = "none"]
    /\ UNCHANGED <<storeVars, docker, tunnels>>

\* Any other exception of the transaction is not caught: the directories stay.
ReserveRaises(s) ==
    /\ At(s, "reserve")
    /\ TransactionRaises
    /\ Return(s)
    /\ UNCHANGED <<dockerVars, tunnels>>

-----------------------------------------------------------------------------
(* _do_create, while every call succeeds *)

GenerateTls(s) ==
    /\ Goto(s, "tls", "render")
    /\ disk' = [disk EXCEPT ![s] = "tls"]
    /\ UNCHANGED <<storeVars, docker, tunnels>>

RenderLoopback(s) ==
    /\ Goto(s, "render", "up")
    /\ disk' = [disk EXCEPT ![s] = "loopback"]
    /\ UNCHANGED <<storeVars, docker, tunnels>>

UpLoopback(s) ==
    /\ Goto(s, "up", "wait")
    /\ Up(s, rows[s].port)
    /\ UNCHANGED <<storeVars, disk, tunnels>>

\* wait_healthy, wait_ready, then set_general_log(False), whose failure is
\* swallowed: the audit log may stay on.
WaitLoopback(s) ==
    /\ Goto(s, "wait", "tunnel")
    /\ Running(s)
    /\ \E audit \in BOOLEAN : docker' = [docker EXCEPT ![s].audit = audit]
    /\ UNCHANGED <<storeVars, disk, tunnels>>

OpenTunnel(s) ==
    /\ Goto(s, "tunnel", "clone")
    /\ tunnels' = tunnels \cup {s}
    /\ UNCHANGED <<storeVars, dockerVars>>

\* mutant: the tunnel is opened without the with statement
CloneLeavingTunnel(s) ==
    /\ Goto(s, "clone", "grant")
    /\ Running(s)
    /\ docker' = [docker EXCEPT ![s].data = "cloned"]
    /\ UNCHANGED <<storeVars, disk, tunnels>>

\* clone_db for every database, then the with block closes the tunnel.
Clone(s) ==
    /\ Goto(s, "clone", "grant")
    /\ Running(s)
    /\ docker' = [docker EXCEPT ![s].data = "cloned"]
    /\ tunnels' = tunnels \ {s}
    /\ UNCHANGED <<storeVars, disk>>

\* set_general_log(True), whose failure is swallowed, then apply_grants.
Grant(s) ==
    /\ Goto(s, "grant", "publish")
    /\ Running(s)
    /\ \E audit \in {TRUE, docker[s].audit} :
          docker' = [docker EXCEPT ![s].audit = audit, ![s].data = "granted"]
    /\ UNCHANGED <<storeVars, disk, tunnels>>

RenderPublic(s) ==
    /\ Goto(s, "publish", "down")
    /\ disk' = [disk EXCEPT ![s] = "public"]
    /\ UNCHANGED <<storeVars, docker, tunnels>>

\* mutant: the restart drops the data volume
DownWithVolumes(s) ==
    /\ Goto(s, "down", "upPublic")
    /\ Down(s, TRUE)
    /\ UNCHANGED <<storeVars, disk, tunnels>>

\* The restart on the public address keeps the volume.
DownLoopback(s) ==
    /\ Goto(s, "down", "upPublic")
    /\ Down(s, FALSE)
    /\ UNCHANGED <<storeVars, disk, tunnels>>

UpPublic(s) ==
    /\ Goto(s, "upPublic", "waitPublic")
    /\ Up(s, rows[s].port)
    /\ UNCHANGED <<storeVars, disk, tunnels>>

WaitPublic(s) ==
    /\ Goto(s, "waitPublic", "ready")
    /\ Running(s)
    /\ UNCHANGED <<storeVars, dockerVars, tunnels>>

\* mutant: the handler of create also covers what follows update_to_ready
ReadyThenRaise(s) ==
    /\ UpdateToReady(s, create[s].t0 + TtlDefault, create[s].t0 + TtlMax)
    /\ Goto(s, "ready", "cleanup")
    /\ UNCHANGED <<now, dockerVars, tunnels>>

\* update_to_ready wins: the session is handed to the caller.
Ready(s) ==
    /\ At(s, "ready")
    /\ UpdateToReady(s, create[s].t0 + TtlDefault, create[s].t0 + TtlMax)
    /\ Return(s)
    /\ UNCHANGED <<now, dockerVars, tunnels>>

-----------------------------------------------------------------------------
(* Failures *)

\* update_to_ready returned False: the row was nuked meanwhile.
LostRow(s) ==
    /\ Goto(s, "ready", "lateDown")
    /\ rows[s].status # "starting"
    /\ UNCHANGED <<storeVars, dockerVars, tunnels>>

\* mutant: the handler removes the files without stopping the container
RaisePastCleanup(s, from) ==
    /\ Goto(s, from, "rmtree")
    /\ tunnels' = tunnels \ {s}

\* An exception leaves the with block, if it is in it, and reaches the
\* handler of create.
Raise(s, from) ==
    /\ Goto(s, from, "cleanup")
    /\ tunnels' = tunnels \ {s}

LateDown(s) ==
    /\ Raise(s, "lateDown")
    /\ Down(s, TRUE) \/ DownFails(s)
    /\ UNCHANGED <<storeVars, disk>>

StepFails(s) ==
    /\ \E step \in Raising : Raise(s, step)
    /\ UNCHANGED <<storeVars, dockerVars>>

UpStepFails(s) ==
    /\ \E step \in {"up", "upPublic"} : Raise(s, step)
    /\ UpFails(s, rows[s].port)
    /\ UNCHANGED <<storeVars, disk>>

\* mysqld.cnf cannot be written, the compose file was.
RenderFails(s) ==
    /\ Raise(s, "render")
    /\ disk' = [disk EXCEPT ![s] = "loopback"]
    /\ UNCHANGED <<storeVars, docker>>

DownStepFails(s) ==
    /\ Raise(s, "down")
    /\ DownFails(s)
    /\ UNCHANGED <<storeVars, disk>>

-----------------------------------------------------------------------------
(* _cleanup_failed_create and the handler's set_status *)

\* mutant: the cleanup leaves the container
CleanupWithoutDown(s) ==
    /\ Goto(s, "cleanup", "rmtree")
    /\ UNCHANGED <<storeVars, dockerVars, tunnels>>

CleanupDown(s) ==
    /\ Goto(s, "cleanup", "rmtree")
    /\ Down(s, TRUE) \/ DownFails(s)
    /\ UNCHANGED <<storeVars, disk, tunnels>>

\* The session directory goes, compose file included, even if down failed.
Rmtree(s) ==
    /\ Goto(s, "rmtree", "setError")
    /\ disk' = [disk EXCEPT ![s] = "none"]
    /\ UNCHANGED <<storeVars, docker, tunnels>>

\* Whatever the row says now; a database error here is swallowed.
SetError(s) ==
    /\ At(s, "setError")
    /\ SetStatus(s, "error") \/ UNCHANGED rows
    /\ Return(s)
    /\ UNCHANGED <<now, dockerVars, tunnels>>

\* One step of the running create of s.
CreateStep(s) ==
    \/ Reserve(s) \/ NoPort(s) \/ ReserveRaises(s)
    \/ GenerateTls(s) \/ RenderLoopback(s) \/ UpLoopback(s) \/ WaitLoopback(s)
    \/ OpenTunnel(s) \/ Clone(s) \/ Grant(s)
    \/ RenderPublic(s) \/ DownLoopback(s) \/ UpPublic(s) \/ WaitPublic(s) \/ Ready(s)
    \/ LostRow(s) \/ LateDown(s)
    \/ StepFails(s) \/ RenderFails(s) \/ UpStepFails(s) \/ DownStepFails(s)
    \/ CleanupDown(s) \/ Rmtree(s) \/ SetError(s)
=============================================================================
