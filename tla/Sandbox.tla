------------------------------- MODULE Sandbox ------------------------------
(***************************************************************************)
(* The API process: creates, requests on sessions and the reaper share the *)
(* session table, docker and the session directories.  One uvicorn worker  *)
(* runs it and systemd restarts it; rows, containers, volumes and files    *)
(* survive a crash, threads and tunnels do not.                            *)
(***************************************************************************)
EXTENDS CreateSession, Requests, Reaper

CONSTANTS
    EarlyDelete,    \* may a session be deleted while its create still runs?
    SlowCreate,     \* may a create outlive its StuckDeadline?
    PoolSize,       \* threads of the pool that runs creates and requests
    MaxCrashes      \* bound: crashes of the process or of the host

ASSUME FaultsAssumption == /\ {EarlyDelete, SlowCreate} \subseteq BOOLEAN
                           /\ MaxCrashes \in Nat
ASSUME PoolAssumption == PoolSize \in Nat \ {0}

VARIABLE crashes

vars == <<storeVars, dockerVars, createVars, requestVars, reaperVars, crashes>>

TypeOK == /\ StoreTypeOK /\ DockerTypeOK /\ CreateTypeOK /\ RequestsTypeOK /\ ReaperTypeOK
          /\ crashes \in 0..MaxCrashes

Init == /\ StoreInit /\ DockerInit /\ CreateInit /\ RequestsInit /\ ReaperInit
        /\ crashes = 0

-----------------------------------------------------------------------------

Creates(s) == CreateStep(s) /\ UNCHANGED <<requestVars, reaperVars, crashes>>

Serves(t) == RequestStep(t) /\ UNCHANGED <<createVars, reaperVars, crashes>>

Reaps == ReaperStep /\ UNCHANGED <<createVars, requestVars, crashes>>

\* Creates and requests share one pool; a create keeps its thread for minutes.
Busy == Cardinality({s \in Sids : Live(s)}) + Cardinality({t \in Threads : ~ReqAt(t, "idle")})

\* The event loop hands a request to a pool thread, when no sweep blocks it and
\* a thread is free.
CanServe == LoopFree /\ Busy < PoolSize

NewCreate(s) == CanServe /\ Start(s) /\ UNCHANGED <<requestVars, reaperVars, crashes>>

NewRequest(t) ==
    /\ CanServe
    /\ \E s \in Sids, kind \in Kinds :
          /\ kind = "reset" \/ EarlyDelete \/ ~Live(s)
          /\ Dispatch(t, s, kind)
    /\ UNCHANGED <<createVars, reaperVars, crashes>>

\* Without SlowCreate time waits for a create at its deadline.
Time ==
    /\ Tick
    /\ SlowCreate \/ \A s \in Sids : Live(s) => now < create[s].t0 + StuckDeadline
    /\ UNCHANGED <<rows, dockerVars, createVars, requestVars, reaperVars, crashes>>

\* The process is started again; the first sweep starts at once.
Restart ==
    /\ crashes < MaxCrashes
    /\ crashes' = crashes + 1
    /\ create' = [s \in Sids |-> IF Live(s) THEN Ended ELSE create[s]]
    /\ tunnels' = {}
    /\ req' = [t \in Threads |-> NoRequest]
    /\ rpc' = "sleep" /\ rnow' = 0 /\ job' = NoJobs /\ loose' = {}
    /\ UNCHANGED <<storeVars, disk>>

\* The process dies, the containers stay.
Crash == Restart /\ UNCHANGED docker

\* The host reboots: restart is "no", so no container comes back.
Reboot == Restart /\ docker' = [s \in Sids |-> [Nothing EXCEPT !.data = docker[s].data]]

Next ==
    \/ \E s \in Sids : NewCreate(s) \/ Creates(s)
    \/ \E t \in Threads : NewRequest(t) \/ Serves(t)
    \/ Reaps
    \/ Time
    \/ Crash \/ Reboot

Spec == Init /\ [][Next]_vars

\* Threads run to their end, the reaper sweeps again and again, time passes;
\* a teardown or a transaction of the sweep that is retried for ever succeeds in
\* the end.
Fairness ==
    /\ \A s \in Sids : /\ WF_vars(Creates(s))
                       /\ SF_vars(Reaps /\ TeardownDone(s))
                       /\ SF_vars(Reaps /\ (MarkExpired(s) \/ MarkStuck(s)))
    /\ \A t \in Threads : WF_vars(Serves(t))
    /\ WF_vars(Reaps /\ SweepStep) /\ SF_vars(Reaps /\ SweepStuck)
    /\ WF_vars(Time)

FairSpec == Spec /\ Fairness

-----------------------------------------------------------------------------
(* Safety, with every fault allowed *)

\* The process uses the table only as its methods are meant to be used:
\* set_status never gets an active status, and a late update_ttl writes the
\* deadline any other reset would have written.
ImplementsStore == StoreSpec

\* A container or a volume belongs to a session that has a row, so that some
\* sweep can find it whatever dies: the row is inserted before docker is asked.
NothingWithoutRow == \A s \in Sids : docker[s] # Nothing => Exists(s)

\* No container is reachable from outside while the tunnel its create opened
\* to production is still up.
TunnelClosedWhenPublic == \A s \in tunnels : docker[s].bind # "public"

\* A publicly bound container always logs every statement, also when both
\* set_general_log calls failed.
AuditedWhenPublic == \A s \in Sids : docker[s].bind = "public" => docker[s].audit

\* When the reaper has torn an expired session down, nothing starts its
\* container again before the row is marked nuked.
ExpiredTeardownStands == \A s \in Sids : job[s] = "expiredDone" => ~Running(s)

\* A session that was handed out is never touched by its create again, and its
\* compose file stays for the teardown to come.
HandedOver ==
    \A s \in Sids : rows[s].status \in {"ready", "expired"} => ~Live(s) /\ HasCompose(s)

\* What a session may become: a failed create only ever leaves error, and
\* nothing but a teardown follows expired.
Successors(status) ==
    CASE status = "none"     -> {"starting"}
      [] status = "starting" -> {"ready", "nuked", "error"}
      [] status = "ready"    -> {"expired", "nuked"}
      [] status = "expired"  -> {"nuked"}
      [] status = "nuked"    -> {"error"}
      [] status = "error"    -> {"nuked"}

Lifecycle ==
    [][\A s \in Sids : rows'[s].status \in {rows[s].status} \cup Successors(rows[s].status)]_vars

\* However resets race with each other, with sweeps and with deletes, the
\* deadline of a session that was handed out moves at most once, and to later.
ExtendedOnce ==
    [][\A s \in Sids : rows[s].realCreds =>
           /\ rows[s].extended => rows'[s].extended
           /\ \/ rows'[s].expires = rows[s].expires
              \/ /\ ~rows[s].extended /\ rows'[s].extended
                 /\ rows'[s].expires > rows[s].expires]_vars

\* claim_stuck takes the row of a running create for an orphan only when that
\* create is past its own deadline, whatever `now` the sweep has in hand and
\* whoever wrote the row since.
StuckIsOverdue ==
    \A s \in Sids : job[s] \in {"stuck", "stuckDone"} /\ Live(s)
                       => now > create[s].t0 + StuckDeadline

-----------------------------------------------------------------------------
(* Each create runs the block of CloneBlock, which Transfer implements.  A   *)
(* session with credentials came out of the block with its databases.        *)

BlockPhase(s) ==
    CASE create[s].pc \in {"idle", "reserve", "tls", "render", "up", "wait", "tunnel"} -> "tunnel"
      [] At(s, "clone") -> "clone"
      [] create[s].pc \in {"cleanup", "rmtree", "setError"} -> "cleanup"
      [] At(s, "ended") /\ ~rows[s].realCreds -> "cleanup"
      [] OTHER -> "grant"

BlockOf(s) == INSTANCE CloneBlock WITH
                  phase <- BlockPhase(s), open <- s \in tunnels,
                  copied <- docker[s].data \in {"cloned", "granted"}

\* Whatever requests, sweeps and crashes do to a session meanwhile, its create
\* comes to the grants only with every database copied and the tunnel closed,
\* and no tunnel is opened anywhere else.
CreatesRunBlocks ==
    /\ \A s \in Sids : BlockOf(s)!BlockInit
    /\ [][\A s \in Sids : BlockOf(s)!BlockStep]_vars

-----------------------------------------------------------------------------
(* Safety, without some of the faults *)

\* A nuked session has no container.
NukedIsGone == \A s \in Sids : rows[s].status = "nuked" => ~Running(s)

\* A nuked session has no data either.
NukedHasNoVolume == \A s \in Sids : rows[s].status = "nuked" => docker[s].data = "none"

\* The port a create was given is not bound by another session's container.
AllocatedPortIsFree ==
    \A s \in Sids : rows[s].status = "starting" => ~PortTaken(s, rows[s].port)

\* If the compose file of a session with a row is gone there is no container:
\* the reaper takes the missing file for a finished teardown.
MissingComposeMeansNoContainer == \A s \in Sids : Running(s) => HasCompose(s)

\* What claim_stuck claims is an orphan: no create runs for it any more.
StuckIsOrphan == \A s \in Sids : job[s] \in {"stuck", "stuckDone"} => ~Live(s)

BeingNuked(s) == \E t \in Threads : ReqAt(t, "setNuked") /\ req[t].sid = s

Serving(s) == [bind |-> "public", port |-> rows[s].port, audit |-> TRUE, data |-> "granted"]

\* A ready session serves its users: published, cloned, granted and audited,
\* unless a delete is past its `down` (or was when the process died), or the
\* host was rebooted, which keeps its data.
ReadyIsServing ==
    \A s \in Sids : rows[s].status = "ready" =>
        \/ docker[s] = Serving(s)
        \/ BeingNuked(s)
        \/ crashes > 0 /\ docker[s] \in {Nothing, [Nothing EXCEPT !.data = "granted"]}

\* An extension is granted to a session that is ready, was not extended before
\* and whose deadline is not yet at max_extended_until: any other gets a 409.
ExtendOnlyEligible ==
    [][\A t \in Threads : ResetSet(t) =>
           LET row == rows[req[t].sid]
           IN  row.status = "ready" /\ ~row.extended /\ row.expires < row.maxExt]_vars

-----------------------------------------------------------------------------
(* Liveness *)

\* Every session is nuked in the end, and stays nuked: expired, abandoned by a
\* crash, failed, or deleted, whatever faults occur on the way.
EventuallyNuked ==
    \A s \in Sids : Exists(s) ~> [](rows[s].status = "nuked")

\* Neither a sweep, which blocks the event loop, nor creates that fill the pool
\* keep the process from serving for ever: it can take a request again.
ServesAgain == ~CanServe ~> CanServe
=============================================================================
