------------------------------- MODULE Docker -------------------------------
(***************************************************************************)
(* What the service sees of `docker compose` and of the session's files:   *)
(* one container, one named volume and one session directory per session.  *)
(* docker itself is not in the repository: its effects are modelled from   *)
(* api/docker_ops.py, templates/docker-compose.yml.j2 and mysqld.cnf.j2.   *)
(* A container that exists without running is not told from no container.  *)
(***************************************************************************)
EXTENDS SessionStore

CONSTANT
    DownMayFail     \* may `docker compose down` fail although the file is there?

ASSUME DownMayFailAssumption == DownMayFail \in BOOLEAN

VARIABLES
    docker,     \* what the daemon runs and stores for each session
    disk        \* how far the session directory has been filled

dockerVars == <<docker, disk>>

\* bind: the host address of the published port, none when nothing runs;
\* audit: mysqld's general_log; data: the content of the session's volume.
Nothing == [bind |-> "none", port |-> 0, audit |-> FALSE, data |-> "none"]

Container == [bind : {"none", "loopback", "public"}, port : Nat, audit : BOOLEAN,
              data : {"none", "empty", "cloned", "granted"}]

\* "loopback" and "public" say which bind host the compose file was rendered with.
Disk == {"none", "dirs", "tls", "loopback", "public"}

DockerTypeOK == docker \in [Sids -> Container] /\ disk \in [Sids -> Disk]

DockerInit == docker = [s \in Sids |-> Nothing] /\ disk = [s \in Sids |-> "none"]

Running(s) == docker[s].bind # "none"

HasCompose(s) == disk[s] \in {"loopback", "public"}

PortTaken(s, p) == \E r \in Sids \ {s} : Running(r) /\ docker[r].port = p

-----------------------------------------------------------------------------

\* A named volume outlives its container and is created empty when missing.
Volume(s) == IF docker[s].data = "none" THEN "empty" ELSE docker[s].data

\* mutant: the audit log is off unless the service turns it on
StartedUnaudited(s, p) ==
    [docker EXCEPT ![s] = [bind |-> disk[s], port |-> p, audit |-> FALSE, data |-> Volume(s)]]

\* A fresh container reads mysqld.cnf, where general_log = 1.
Started(s, p) ==
    [docker EXCEPT ![s] = [bind |-> disk[s], port |-> p, audit |-> TRUE, data |-> Volume(s)]]

\* up_session: the service only calls it when no container of s runs.
Up(s, p) ==
    /\ HasCompose(s)
    /\ ~PortTaken(s, p)
    /\ docker' = Started(s, p)

\* up_session raises: nothing done, only the volume made (the port is taken,
\* the image is missing), or the daemon finished after the client's timeout.
UpFails(s, p) ==
    \/ UNCHANGED docker
    \/ HasCompose(s) /\ docker' = [docker EXCEPT ![s].data = Volume(s)]
    \/ Up(s, p)

Stopped(s, data) == [docker EXCEPT ![s] = [Nothing EXCEPT !.data = data]]

\* down_session; with remove_volumes it is `down -v`.
Down(s, removeVolumes) ==
    /\ HasCompose(s)
    /\ docker' = Stopped(s, IF removeVolumes THEN "none" ELSE docker[s].data)

\* down_session raises: certainly when the compose file is gone, and otherwise
\* before or after the container is removed.
DownFails(s) ==
    \/ ~HasCompose(s) /\ UNCHANGED docker
    \/ DownMayFail /\ HasCompose(s) /\ docker' \in {docker, Stopped(s, docker[s].data)}
=============================================================================
