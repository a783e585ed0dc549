--------------------------- MODULE Sandbox_proofs ---------------------------
(***************************************************************************)
(* What holds of the whole process for every number of sessions, ports,    *)
(* threads and crashes, with every fault the model has allowed.            *)
(***************************************************************************)
EXTENDS Sandbox, SessionStore_proofs

USE DEF storeVars, TransactionRaises

-----------------------------------------------------------------------------
(* The process uses the table as StoreSpec says *)

\* The local `now` of a create is the created_at of its row, once inserted.
CreateInv ==
    \A s \in Sids :
        /\ create[s].t0 \in 0..now
        /\ Live(s) /\ ~At(s, "reserve")
               => Exists(s) /\ rows[s].created = create[s].t0

\* The deadline a reset is about to write is the row's capped extension.
RequestInv ==
    \A t \in Threads :
        /\ ~ReqAt(t, "idle") => req[t].sid \in Sids
        /\ ReqAt(t, "extend") => /\ rows[req[t].sid].realCreds
                                 /\ req[t].until = ExtendedDeadline(req[t].sid)

UseInv == StoreTypeOK /\ DeadlineInv /\ CreateTypeOK /\ RequestsTypeOK /\ CreateInv /\ RequestInv

\* At start-up there is no row, no create and no request.
LEMMA UseInit == Init => UseInv
<1> SUFFICES ASSUME Init PROVE UseInv
    OBVIOUS
<1>1. StoreTypeOK
  BY TypeInit DEF Init
<1>2. DeadlineInv
  BY DEF Init, StoreInit, DeadlineInv, DeadlineBounded, NoRow
<1>3. CreateTypeOK /\ RequestsTypeOK
  BY DEF Init, CreateInit, RequestsInit, CreateTypeOK, RequestsTypeOK, NotStarted, NoRequest
<1>4. CreateInv
  BY DEF Init, StoreInit, CreateInit, CreateInv, NotStarted, At, Live, Steps, Raising
<1>5. RequestInv
  BY DEF Init, RequestsInit, RequestInv, NoRequest, ReqAt
<1> QED BY <1>1, <1>2, <1>3, <1>4, <1>5 DEF UseInv

\* A create writes the table through reserve_session, update_to_ready with the
\* deadlines of its own row, and set_status(error).
LEMMA CreateUsesStore ==
    ASSUME UseInv, NEW s \in Sids, CreateStep(s)
    PROVE  [StoreNext]_storeVars
<1> USE DEF UseInv
<1>1. CASE Reserve(s)
  <2>1. create[s].t0 \in 0..now /\ ReserveSession(s, create[s].t0) /\ UNCHANGED now
    BY <1>1 DEF Reserve, CreateInv
  <2> QED BY <2>1 DEF StoreNext, Transaction
<1>2. CASE Ready(s)
  <2>1. rows[s].created = create[s].t0
    BY <1>2 DEF Ready, CreateInv, At, Live, Steps, Raising
  <2>2. UpdateToReady(s, rows[s].created + TtlDefault, rows[s].created + TtlMax) /\ UNCHANGED now
    BY <1>2, <2>1 DEF Ready
  <2> QED BY <2>2 DEF StoreNext, Transaction
<1>3. CASE SetError(s)
  BY <1>3 DEF SetError, StoreNext, Transaction
<1>4. CASE UNCHANGED storeVars
  BY <1>4
<1>5. CreateStep(s) => Reserve(s) \/ Ready(s) \/ SetError(s) \/ UNCHANGED storeVars
  BY DEF CreateStep, NoPort, ReserveRaises, GenerateTls, RenderLoopback, UpLoopback,
     WaitLoopback, OpenTunnel, Clone, Grant, RenderPublic, DownLoopback, UpPublic, WaitPublic,
     LostRow, LateDown, StepFails, RenderFails, UpStepFails, DownStepFails, CleanupDown, Rmtree
<1> QED BY <1>1, <1>2, <1>3, <1>4, <1>5

\* A request writes the table through set_status(nuked) and a capped update_ttl,
LEMMA RequestUsesStore ==
    ASSUME UseInv, NEW t \in Threads, RequestStep(t)
    PROVE  [StoreNext]_storeVars
<1> USE DEF UseInv
<1>1. CASE NukeSet(t)
  <2>1. req[t].sid \in Sids /\ SetStatus(req[t].sid, "nuked") /\ UNCHANGED now
    BY <1>1 DEF NukeSet, RequestInv, ReqAt
  <2> QED BY <2>1 DEF StoreNext, Transaction
<1>2. CASE ResetSet(t)
  <2>1. /\ req[t].sid \in Sids /\ rows[req[t].sid].realCreds
        /\ UpdateTtl(req[t].sid, ExtendedDeadline(req[t].sid)) /\ UNCHANGED now
    BY <1>2 DEF ResetSet, RequestInv, ReqAt
  <2> QED BY <2>1 DEF StoreNext, Transaction
<1>3. RequestStep(t) => NukeSet(t) \/ ResetSet(t) \/ UNCHANGED storeVars
  BY DEF RequestStep, DeleteGet, WebhookGet, NukeDown, ResetGet, RequestRaises
<1> QED BY <1>1, <1>2, <1>3

\* a sweep through claim_expired, set_status(nuked) and mark_nuked.
LEMMA ReaperUsesStore ==
    ASSUME UseInv, ReaperStep
    PROVE  [StoreNext]_storeVars
<1> USE DEF UseInv
<1>1. CASE SweepExpired
  BY <1>1 DEF SweepExpired, StoreNext, StoreTypeOK
<1>2. ASSUME NEW s \in Sids, MarkExpired(s)
      PROVE  [StoreNext]_storeVars
  BY <1>2 DEF MarkExpired, StoreNext, Transaction
<1>3. ASSUME NEW s \in Sids, MarkStuck(s)
      PROVE  [StoreNext]_storeVars
  BY <1>3 DEF MarkStuck, StoreNext, Transaction
<1>4. ReaperStep =>
          \/ SweepExpired \/ UNCHANGED storeVars
          \/ \E s \in Sids : MarkExpired(s) \/ MarkStuck(s)
  BY DEF ReaperStep, SweepStep, SweepStuck, EndSweep, TeardownDone, TeardownFails, SweepAborts,
         LooseTeardown
<1> QED BY <1>1, <1>2, <1>3, <1>4

\* So every step of the process is a step of StoreSpec or leaves the table alone.
LEMMA StoreStep == UseInv /\ [Next]_vars => [StoreNext]_storeVars
<1> SUFFICES ASSUME UseInv, [Next]_vars PROVE [StoreNext]_storeVars
    OBVIOUS
<1>1. ASSUME NEW s \in Sids, Creates(s) PROVE [StoreNext]_storeVars
  BY <1>1, CreateUsesStore DEF Creates
<1>2. ASSUME NEW t \in Threads, Serves(t) PROVE [StoreNext]_storeVars
  BY <1>2, RequestUsesStore DEF Serves
<1>3. CASE Reaps
  BY <1>3, ReaperUsesStore DEF Reaps
<1>4. ASSUME NEW s \in Sids, NewCreate(s) PROVE [StoreNext]_storeVars
  BY <1>4 DEF NewCreate, Start
<1>5. ASSUME NEW t \in Threads, NewRequest(t) PROVE [StoreNext]_storeVars
  BY <1>5 DEF NewRequest, Dispatch
<1>6. CASE Time
  BY <1>6 DEF Time, StoreNext
<1>7. CASE Crash \/ Reboot
  BY <1>7 DEF Crash, Reboot, Restart
<1>8. CASE UNCHANGED vars
  BY <1>8 DEF vars
<1> QED BY <1>1, <1>2, <1>3, <1>4, <1>5, <1>6, <1>7, <1>8 DEF Next

\* The steps of the create of s that leave its pc among the running steps.
LEMMA CreateKeepsUse ==
    ASSUME UseInv, NEW s \in Sids, CreateStep(s), StoreTypeOK',
           \A r \in Sids : RowKept(r), now' = now
    PROVE  CreateTypeOK' /\ CreateInv'
<1> USE DEF UseInv, CreateTypeOK, CreateInv, At, Live
<1>1. CASE Reserve(s)
  <2>1. Exists(s)' /\ rows'[s].created = create[s].t0
    BY <1>1 DEF Reserve, ReserveSession, Placeholder, Exists, StoreTypeOK
  <2>2. create' = [create EXCEPT ![s].pc = "tls"] /\ tunnels' = tunnels
    BY <1>1 DEF Reserve, Goto
  <2> QED BY <2>1, <2>2 DEF RowKept, Steps, Raising
<1>2. CASE create' = [create EXCEPT ![s] = Ended] /\ tunnels' = tunnels
  BY <1>2 DEF RowKept, Ended, Steps, Raising, StoreTypeOK
<1>3. ASSUME NEW from \in Steps \ {"reserve"}, NEW to \in Steps, Goto(s, from, to),
             tunnels' \subseteq Sids
      PROVE  CreateTypeOK' /\ CreateInv'
  BY <1>3 DEF RowKept, Goto, Steps, Raising
<1> USE DEF Steps, Raising
<1>4. CASE NoPort(s) \/ ReserveRaises(s) \/ Ready(s) \/ SetError(s)
  BY <1>2, <1>4 DEF NoPort, ReserveRaises, Ready, SetError, Return
<1>5. CASE GenerateTls(s) \/ RenderLoopback(s) \/ UpLoopback(s) \/ WaitLoopback(s) \/ OpenTunnel(s)
           \/ Clone(s) \/ Grant(s)
  BY <1>3, <1>5 DEF GenerateTls, RenderLoopback, UpLoopback, WaitLoopback, OpenTunnel, Clone, Grant
<1>6. CASE RenderPublic(s) \/ DownLoopback(s) \/ UpPublic(s) \/ WaitPublic(s) \/ LostRow(s)
           \/ CleanupDown(s) \/ Rmtree(s)
  BY <1>3, <1>6 DEF RenderPublic, DownLoopback, UpPublic, WaitPublic, LostRow, CleanupDown, Rmtree
<1>7. CASE LateDown(s) \/ StepFails(s) \/ RenderFails(s) \/ UpStepFails(s) \/ DownStepFails(s)
  BY <1>3, <1>7 DEF LateDown, StepFails, RenderFails, UpStepFails, DownStepFails, Raise
<1> QED BY <1>1, <1>4, <1>5, <1>6, <1>7 DEF CreateStep

\* A row that has its credentials keeps them, and with its creation time also
\* the deadline an extension would give it.
LEMMA CredsKept ==
    ASSUME StoreTypeOK, NEW s \in Sids, RowKept(s), rows[s].realCreds
    PROVE  rows'[s].realCreds /\ ExtendedDeadline(s)' = ExtendedDeadline(s)
<1>1. rows[s] \in Row
  BY DEF StoreTypeOK, NoRow
<1>2. Exists(s)
  BY <1>1 DEF Exists, Row, Statuses
<1>3. rows'[s].realCreds /\ rows'[s].created = rows[s].created
  BY <1>2 DEF RowKept
<1> QED BY <1>3 DEF ExtendedDeadline

\* What the other actors do to the table cannot hurt a create or a request
\* that stands still.
LEMMA OthersKeepUse ==
    ASSUME UseInv, StoreTypeOK', \A r \in Sids : RowKept(r), now' >= now
    PROVE  /\ UNCHANGED createVars => CreateTypeOK' /\ CreateInv'
           /\ UNCHANGED req => RequestsTypeOK' /\ RequestInv'
<1> USE DEF UseInv
<1>1. ASSUME UNCHANGED createVars PROVE CreateTypeOK' /\ CreateInv'
  BY <1>1 DEF createVars, CreateTypeOK, CreateInv, RowKept, At, Live, StoreTypeOK
<1>2. ASSUME UNCHANGED req PROVE RequestsTypeOK' /\ RequestInv'
  <2>1. \A s \in Sids : rows[s].realCreds =>
            rows'[s].realCreds /\ ExtendedDeadline(s)' = ExtendedDeadline(s)
    BY CredsKept
  <2> QED BY <1>2, <2>1 DEF RequestsTypeOK, RequestInv, ReqAt
<1> QED BY <1>1, <1>2

\* A reset computes the capped extension of the row it has just read.
LEMMA RequestKeepsUse ==
    ASSUME UseInv, NEW t \in Threads, RequestStep(t), StoreTypeOK', \A r \in Sids : RowKept(r),
           now' = now
    PROVE  RequestsTypeOK' /\ RequestInv'
<1> USE TtlAssumption DEF UseInv, RequestsTypeOK, RequestInv, ReqAt, Kinds
<1>1. \A s \in Sids : rows[s].realCreds =>
          rows'[s].realCreds /\ ExtendedDeadline(s)' = ExtendedDeadline(s)
  BY CredsKept
<1>2. ASSUME Answer(t) PROVE RequestsTypeOK' /\ RequestInv'
  BY <1>1, <1>2 DEF Answer, NoRequest
<1>3. ASSUME NEW step \in {"down", "setNuked"}, Proceed(t, step), ~ReqAt(t, "idle")
      PROVE  RequestsTypeOK' /\ RequestInv'
  BY <1>1, <1>3 DEF Proceed
<1>4. ASSUME ResetGet(t), ~Answer(t) PROVE RequestsTypeOK' /\ RequestInv'
  <2> DEFINE s == req[t].sid
  <2>1. s \in Sids /\ Extendable(rows[s])
    BY <1>4 DEF ResetGet
  <2>2. rows[s] \in Row /\ rows[s].realCreds /\ ~rows[s].extended
    BY <2>1 DEF Extendable, StoreTypeOK, NoRow, DeadlineInv
  <2>3. NewDeadline(rows[s]) = ExtendedDeadline(s) /\ NewDeadline(rows[s]) \in Nat
    BY <2>1, <2>2 DEF NewDeadline, ExtendedDeadline, Earlier, DeadlineInv, DeadlineBounded, Row
  <2>4. req' = [req EXCEPT ![t].pc = "extend", ![t].until = NewDeadline(rows[s])]
    BY <1>4, <2>1 DEF ResetGet
  <2> QED BY <1>1, <2>1, <2>2, <2>3, <2>4
<1> QED
  BY <1>2, <1>3, <1>4 DEF RequestStep, DeleteGet, WebhookGet, NukeDown, NukeSet, ResetSet,
     RequestRaises

\* Every step of the process keeps what its use of the table rests on.
LEMMA UseNext == UseInv /\ [Next]_vars => UseInv'
<1> SUFFICES ASSUME UseInv, [Next]_vars PROVE UseInv'
    OBVIOUS
<1>1. [StoreNext]_storeVars
  BY StoreStep
<1>2. StoreTypeOK' /\ DeadlineInv' /\ \A r \in Sids : RowKept(r)
  BY <1>1, TypeNext, DeadlineNext, RowsKept DEF UseInv
<1>3. now' >= now
  BY <1>1 DEF StoreNext, Tick, UseInv, StoreTypeOK
<1>4. ASSUME NEW s \in Sids, Creates(s) PROVE UseInv'
  <2>1. now' = now
    BY <1>4 DEF Creates, CreateStep, Reserve, NoPort, ReserveRaises, GenerateTls, RenderLoopback,
       UpLoopback, WaitLoopback, OpenTunnel, Clone, Grant, RenderPublic, DownLoopback, UpPublic,
       WaitPublic, Ready, LostRow, LateDown, StepFails, RenderFails, UpStepFails, DownStepFails,
       CleanupDown, Rmtree, SetError
  <2> QED BY <1>2, <1>3, <1>4, <2>1, CreateKeepsUse, OthersKeepUse DEF Creates, UseInv, requestVars
<1>5. ASSUME NEW t \in Threads, Serves(t) PROVE UseInv'
  <2>1. now' = now
    BY <1>5 DEF Serves, RequestStep, DeleteGet, WebhookGet, NukeDown, NukeSet, ResetGet, ResetSet,
        RequestRaises
  <2> QED BY <1>2, <1>3, <1>5, <2>1, RequestKeepsUse, OthersKeepUse DEF Serves, UseInv
<1>6. CASE Reaps \/ Time \/ UNCHANGED vars
  BY <1>2, <1>3, <1>6, OthersKeepUse DEF Reaps, Time, vars, UseInv, requestVars
<1>7. ASSUME NEW s \in Sids, NewCreate(s) PROVE UseInv'
  <2>1. CreateTypeOK' /\ CreateInv'
    BY <1>2, <1>7 DEF NewCreate, Start, UseInv, CreateTypeOK, CreateInv, At, Live, Steps, Raising,
           StoreTypeOK, RowKept
  <2> QED BY <1>2, <1>3, <1>7, <2>1, OthersKeepUse DEF NewCreate, UseInv, requestVars
<1>8. ASSUME NEW t \in Threads, NewRequest(t) PROVE UseInv'
  <2>1. RequestsTypeOK' /\ RequestInv'
    BY <1>2, <1>8 DEF NewRequest, Dispatch, UseInv, RequestsTypeOK, RequestInv, ReqAt, Kinds,
           ExtendedDeadline
  <2> QED BY <1>2, <1>3, <1>8, <2>1, OthersKeepUse DEF NewRequest, UseInv
<1>9. CASE Crash \/ Reboot
  <2>1. CreateTypeOK' /\ CreateInv'
    BY <1>2, <1>9 DEF Crash, Reboot, Restart, UseInv, CreateTypeOK, CreateInv, At, Live, Ended,
       Steps, Raising, StoreTypeOK
  <2>2. RequestsTypeOK' /\ RequestInv'
    BY <1>9 DEF Crash, Reboot, Restart, NoRequest, RequestsTypeOK, RequestInv, ReqAt
  <2> QED BY <1>2, <2>1, <2>2 DEF UseInv
<1> QED BY <1>4, <1>5, <1>6, <1>7, <1>8, <1>9 DEF Next

\* In every state the create threads know the created_at of their row, and a
\* reset is about to write the capped extension of the row it read.
THEOREM UseInvariant == Spec => []UseInv
BY UseInit, UseNext, PTL DEF Spec

\* Creates, requests, sweeps and crashes together use the session table as
\* StoreSpec says.
THEOREM ProcessImplementsStore == Spec => ImplementsStore
<1>1. Init => StoreInit
  BY DEF Init
<1> QED BY <1>1, StoreStep, UseInvariant, PTL DEF Spec, ImplementsStore, StoreSpec

\* So what is proved of the table holds of the process: no two active sessions
\* share a port,
THEOREM ProcessKeepsPortsUnique == Spec => []PortsUnique
BY ProcessImplementsStore, PortsNeverShared DEF ImplementsStore

\* a released port is not taken back by a late writer,
THEOREM ProcessReleasesForGood == Spec => ReleasedForGood
BY ProcessImplementsStore, NoComeback DEF ImplementsStore

\* no race of resets, creates and sweeps keeps a session past created + TtlMax,
THEOREM ProcessBoundsDeadlines == Spec => []DeadlineBounded
BY ProcessImplementsStore, DeadlinesAreBounded DEF ImplementsStore

\* however resets race, the deadline of a session in use moves once, to later,
THEOREM DeadlinesMoveOnce == Spec => ExtendedOnce
<1>1. UseInv /\ [Next]_vars => \A s \in Sids : rows[s].realCreds => ExtendStep(s)
  BY StoreStep, ExtendsOnce DEF UseInv
<1> QED BY <1>1, UseInvariant, PTL DEF Spec, ExtendedOnce, ExtendStep

\* and the process as a whole is a port-lease service.
THEOREM ProcessImplementsPortLease == Spec => ImplementsPortLease
BY ProcessImplementsStore, StoreImplementsPortLease DEF ImplementsStore

-----------------------------------------------------------------------------
(* Containers, tunnels and teardowns *)

Private == {"idle", "reserve", "tls", "render", "up", "wait", "tunnel", "clone", "grant",
            "publish", "down"}
OnLoopback == {"up", "wait", "tunnel", "clone", "grant", "publish"}
OnPublic == {"down", "upPublic", "waitPublic", "ready", "lateDown"}

\* Which compose file a running create has written, and that nothing of its
\* session is public before it restarts the container.
PhaseInv ==
    \A s \in Sids :
        /\ create[s].pc \in OnLoopback => disk[s] = "loopback"
        /\ create[s].pc \in OnPublic => disk[s] = "public"
        /\ create[s].pc \in Private => docker[s].bind # "public"
        /\ create[s].pc \in {"idle", "reserve"} => ~Exists(s)
        /\ s \in tunnels => At(s, "clone")

\* An expired session the sweep works on has a compose file and no create that
\* could start it again; torn down, it does not run.
JobInv ==
    \A s \in Sids :
        job[s] \in {"expired", "expiredDone"} =>
            /\ At(s, "ended") /\ HasCompose(s)
            /\ job[s] = "expiredDone" => ~Running(s)

ContainerInv ==
    /\ DockerTypeOK /\ ReaperTypeOK
    /\ PhaseInv /\ JobInv
    /\ NothingWithoutRow /\ AuditedWhenPublic /\ HandedOver

\* At start-up nothing runs and no file is there.
LEMMA ContainerInit == Init => ContainerInv
<1> SUFFICES ASSUME Init PROVE ContainerInv
    OBVIOUS
<1>1. DockerTypeOK /\ ReaperTypeOK
  BY DEF Init, DockerInit, DockerTypeOK, ReaperInit, ReaperTypeOK, Nothing, Container, Disk, Jobs,
     NoJobs
<1>2. PhaseInv
  BY DEF Init, StoreInit, DockerInit, CreateInit, PhaseInv, OnLoopback, OnPublic, Nothing,
     NotStarted, Exists, NoRow
<1>3. JobInv
  BY DEF Init, ReaperInit, JobInv, NoJobs
<1>4. NothingWithoutRow /\ AuditedWhenPublic
  BY DEF Init, DockerInit, NothingWithoutRow, AuditedWhenPublic, Nothing
<1>5. HandedOver
  BY DEF Init, StoreInit, HandedOver, NoRow
<1> QED BY <1>1, <1>2, <1>3, <1>4, <1>5 DEF ContainerInv

\* What a session's container may become when it is not its create that acts.
StoppedOrSame(s) ==
    docker'[s] \in {docker[s], [Nothing EXCEPT !.data = docker[s].data], Nothing}

\* down_session, whether it succeeds or raises, at most stops its session's own
\* container.
LEMMA DownStops ==
    ASSUME DockerTypeOK, NEW s \in Sids, NEW v \in BOOLEAN, Down(s, v) \/ DownFails(s)
    PROVE  docker' \in [Sids -> Container] /\ \A r \in Sids : StoppedOrSame(r)
<1> USE DEF DockerTypeOK
<1>1. docker[s].data \in {"none", "empty", "cloned", "granted"}
  BY DEF Container
<1>2. \A d \in {"none", docker[s].data} :
         /\ [Nothing EXCEPT !.data = d] \in Container
         /\ [Nothing EXCEPT !.data = d] \in {[Nothing EXCEPT !.data = docker[s].data], Nothing}
  <2>1. \A d \in {"none", "empty", "cloned", "granted"} : [Nothing EXCEPT !.data = d] \in Container
    BY DEF Nothing, Container
  <2>2. [Nothing EXCEPT !.data = "none"] = Nothing
    BY DEF Nothing
  <2> QED BY <1>1, <2>1, <2>2
<1>3. docker' = docker \/ \E d \in {"none", docker[s].data} : docker' = Stopped(s, d)
  BY DEF Down, DownFails
<1>4. ASSUME NEW d \in {"none", docker[s].data}, docker' = Stopped(s, d)
      PROVE  docker' \in [Sids -> Container] /\ \A r \in Sids : StoppedOrSame(r)
  <2> DEFINE c == [Nothing EXCEPT !.data = d]
  <2>1. c \in Container /\ c \in {[Nothing EXCEPT !.data = docker[s].data], Nothing}
    BY <1>2
  <2>2. docker' = [docker EXCEPT ![s] = c]
    BY <1>4 DEF Stopped
  <2> HIDE DEF c
  <2> QED BY <2>1, <2>2 DEF StoppedOrSame
<1>5. CASE docker' = docker
  BY <1>5 DEF StoppedOrSame
<1> QED BY <1>3, <1>4, <1>5

\* Everything but a create's step leaves files, tunnels and creates alone, only
\* stops containers, and makes no session ready or expired that was not.
OtherStep ==
    /\ UNCHANGED <<disk, createVars>>
    /\ docker' \in [Sids -> Container]
    /\ \A s \in Sids : /\ StoppedOrSame(s)
                       /\ rows'[s].status \in {"ready", "expired"} =>
                              rows[s].status \in {"ready", "expired"}
                       /\ ~Exists(s) => ~Exists(s)'

\* A request on a session is such a step,
LEMMA RequestOtherStep ==
    ASSUME UseInv, ContainerInv, NEW t \in Threads, Serves(t)
    PROVE  OtherStep
<1> USE DEF ContainerInv, DockerTypeOK, OtherStep, StoppedOrSame, Serves
<1>1. CASE NukeDown(t)
  <2>1. req[t].sid \in Sids
    BY <1>1 DEF NukeDown, UseInv, RequestInv, ReqAt
  <2> QED BY <1>1, <2>1, DownStops DEF NukeDown, Exists
<1>2. CASE NukeSet(t)
  BY <1>2 DEF NukeSet, SetStatus, dockerVars, Exists, UseInv, StoreTypeOK
<1>3. CASE ResetSet(t)
  BY <1>3 DEF ResetSet, UpdateTtl, dockerVars, Exists, UseInv, StoreTypeOK, Row, NoRow
<1>4. RequestStep(t) =>
         NukeDown(t) \/ NukeSet(t) \/ ResetSet(t) \/ UNCHANGED <<storeVars, dockerVars>>
  BY DEF RequestStep, DeleteGet, WebhookGet, ResetGet, RequestRaises
<1> QED BY <1>1, <1>2, <1>3, <1>4 DEF dockerVars, Exists

\* and so is a step of a sweep.
LEMMA ReaperOtherStep ==
    ASSUME UseInv, ContainerInv, Reaps
    PROVE  OtherStep
<1> USE DEF ContainerInv, DockerTypeOK, OtherStep, StoppedOrSame, Reaps
<1>1. CASE SweepExpired
  BY <1>1 DEF SweepExpired, ClaimExpired, ExpiredRows, dockerVars, Exists, UseInv, StoreTypeOK, Row,
         NoRow
<1>2. ASSUME NEW s \in Sids, TeardownDone(s) \/ TeardownFails(s) \/ LooseTeardown(s)
      PROVE  OtherStep
  BY <1>2, DownStops DEF TeardownDone, TeardownFails, LooseTeardown, Exists
<1>3. ASSUME NEW s \in Sids, MarkExpired(s) \/ MarkStuck(s)
      PROVE  OtherStep
  <2>1. rows' = [rows EXCEPT ![s].status = "nuked"] \/ rows' = rows
    BY <1>3 DEF MarkExpired, MarkStuck, SetStatus, MarkNuked
  <2>2. \A r \in Sids : /\ rows'[r].status \in {"ready", "expired"} =>
                               rows[r].status \in {"ready", "expired"}
                        /\ ~Exists(r) => ~Exists(r)'
    <3>1. Exists(s)
      BY <1>3 DEF MarkExpired, MarkStuck, SetStatus, MarkNuked
    <3>2. rows[s] \in Row
      BY <3>1 DEF UseInv, StoreTypeOK, Exists, NoRow
    <3>3. rows' \in [Sids -> Row \cup {NoRow}] /\ rows'[s].status \in {"nuked", rows[s].status}
      BY <2>1, <3>2 DEF UseInv, StoreTypeOK, Row, Statuses
    <3> QED BY <2>1, <3>1, <3>3 DEF Exists
  <2>3. UNCHANGED dockerVars
    BY <1>3 DEF MarkExpired, MarkStuck
  <2> QED BY <1>3, <2>2, <2>3 DEF dockerVars
<1>4. ReaperStep =>
         \/ SweepExpired \/ UNCHANGED <<storeVars, dockerVars>>
         \/ \E s \in Sids : \/ TeardownDone(s) \/ TeardownFails(s) \/ LooseTeardown(s)
                            \/ MarkExpired(s) \/ MarkStuck(s)
  BY DEF ReaperStep, SweepStep, SweepStuck, EndSweep, SweepAborts
<1> QED BY <1>1, <1>2, <1>3, <1>4 DEF dockerVars, Exists

\* Such a step keeps everything but the sweep's own bookkeeping.
LEMMA OtherKeeps ==
    ASSUME UseInv, ContainerInv, OtherStep, \A s \in Sids : RowKept(s)
    PROVE  /\ DockerTypeOK' /\ PhaseInv' /\ NothingWithoutRow' /\ AuditedWhenPublic' /\ HandedOver'
           /\ UNCHANGED job => JobInv'
<1> USE DEF ContainerInv, OtherStep, StoppedOrSame, DockerTypeOK, createVars
<1>1. DockerTypeOK'
  OBVIOUS
<1>2. PhaseInv'
  BY DEF PhaseInv, At, Exists, Nothing
<1>3. NothingWithoutRow'
  BY DEF NothingWithoutRow, RowKept, Nothing, Container
<1>4. AuditedWhenPublic'
  BY DEF AuditedWhenPublic, Nothing
<1>5. HandedOver'
  BY DEF HandedOver, Live, HasCompose
<1>6. ASSUME UNCHANGED job PROVE JobInv'
  BY <1>6 DEF JobInv, At, HasCompose, Running, Nothing
<1> QED BY <1>1, <1>2, <1>3, <1>4, <1>5, <1>6

\* Only a create that runs takes steps.
LEMMA CreateLive == ASSUME NEW s \in Sids, CreateStep(s) PROVE Live(s)
BY DEF CreateStep, Live, Steps, Raising, At, Goto, Raise, Reserve, NoPort, ReserveRaises,
   GenerateTls, RenderLoopback, UpLoopback, WaitLoopback, OpenTunnel, Clone, Grant, RenderPublic,
   DownLoopback, UpPublic, WaitPublic, Ready, LostRow, LateDown, StepFails, RenderFails,
   UpStepFails, DownStepFails, CleanupDown, Rmtree, SetError

\* The create of s touches no other session.
LEMMA CreateFrame ==
    ASSUME UseInv, ContainerInv, NEW s \in Sids, CreateStep(s), NEW r \in Sids \ {s}
    PROVE  /\ create'[r] = create[r] /\ docker'[r] = docker[r] /\ disk'[r] = disk[r]
           /\ rows'[r] = rows[r] /\ (r \in tunnels' <=> r \in tunnels)
<1> USE DEF UseInv, ContainerInv, DockerTypeOK, CreateTypeOK, StoreTypeOK, Goto, Return, dockerVars
<1>1. CASE Reserve(s) \/ NoPort(s) \/ ReserveRaises(s) \/ Ready(s) \/ SetError(s)
  BY <1>1 DEF Reserve, ReserveSession, NoPort, ReserveRaises, Ready, UpdateToReady, SetError,
     SetStatus
<1>2. CASE GenerateTls(s) \/ RenderLoopback(s) \/ RenderFails(s) \/ RenderPublic(s) \/ Rmtree(s)
  BY <1>2 DEF GenerateTls, RenderLoopback, RenderFails, Raise, RenderPublic, Rmtree
<1>3. CASE UpLoopback(s) \/ UpPublic(s)
  BY <1>3 DEF UpLoopback, UpPublic, Up, Started
<1>4. CASE WaitLoopback(s) \/ OpenTunnel(s) \/ Clone(s) \/ Grant(s) \/ WaitPublic(s) \/ LostRow(s)
  BY <1>4 DEF WaitLoopback, OpenTunnel, Clone, Grant, WaitPublic, LostRow
<1>5. CASE DownLoopback(s) \/ CleanupDown(s)
  BY <1>5 DEF DownLoopback, CleanupDown, Down, DownFails, Stopped
<1>6. CASE LateDown(s) \/ StepFails(s) \/ UpStepFails(s) \/ DownStepFails(s)
  BY <1>6 DEF LateDown, StepFails, UpStepFails, DownStepFails, Raise, UpFails, Up, Started, Down,
     DownFails, Stopped
<1> QED BY <1>1, <1>2, <1>3, <1>4, <1>5, <1>6 DEF CreateStep

\* What its own create may do to the container of s: leave it, start it anew,
\* stop it, or work on the one that is there.
LEMMA CreateDocker ==
    ASSUME UseInv, ContainerInv, NEW s \in Sids, CreateStep(s)
    PROVE  /\ docker' \in [Sids -> Container]
           /\ \/ docker'[s] = docker[s]
              \/ docker'[s].bind \in {"none", disk[s]} /\ docker'[s].audit = (docker'[s].bind # "none")
              \/ docker'[s].bind = docker[s].bind /\ docker'[s].audit = docker[s].audit
              \/ docker'[s].bind = docker[s].bind /\ create[s].pc \in {"wait", "grant"}
<1> USE DEF UseInv, ContainerInv, DockerTypeOK
<1>1. docker[s] \in Container
  OBVIOUS
<1>2. Exists(s) => rows[s].port \in Nat
  BY PortsAssumption DEF StoreTypeOK, Exists, Row, Ports, NoRow
<1>3. ASSUME Up(s, rows[s].port), Exists(s)
      PROVE  /\ docker' \in [Sids -> Container]
             /\ docker'[s].bind = disk[s] /\ docker'[s].audit /\ disk[s] # "none"
  BY <1>1, <1>2, <1>3 DEF Up, Started, HasCompose, Volume, Container
<1>4. ASSUME NEW v \in BOOLEAN, Down(s, v) \/ DownFails(s)
      PROVE  /\ docker' \in [Sids -> Container]
             /\ docker'[s] = docker[s] \/ (docker'[s].bind = "none" /\ docker'[s].audit = FALSE)
  BY <1>4, DownStops DEF StoppedOrSame, Nothing
<1>5. ~At(s, "reserve") => Exists(s)
  BY CreateLive DEF CreateInv, At
<1>6. CASE Reserve(s) \/ NoPort(s) \/ ReserveRaises(s) \/ GenerateTls(s) \/ RenderLoopback(s)
           \/ OpenTunnel(s) \/ RenderPublic(s) \/ WaitPublic(s) \/ Ready(s) \/ LostRow(s) \/ StepFails(s)
           \/ RenderFails(s) \/ Rmtree(s) \/ SetError(s)
  BY <1>6 DEF Reserve, NoPort, ReserveRaises, GenerateTls, RenderLoopback, OpenTunnel,
     RenderPublic, WaitPublic, Ready, LostRow, StepFails, RenderFails, Rmtree, SetError, dockerVars
<1>7. CASE UpLoopback(s) \/ UpPublic(s)
  <2>1. Up(s, rows[s].port) /\ Exists(s)
    BY <1>5, <1>7 DEF UpLoopback, UpPublic, Goto, At
  <2> QED BY <1>3, <2>1
<1>8. CASE WaitLoopback(s) \/ Clone(s) \/ Grant(s)
  <2>1. ASSUME WaitLoopback(s), NEW a \in BOOLEAN, docker' = [docker EXCEPT ![s].audit = a]
        PROVE  /\ docker' \in [Sids -> Container]
               /\ docker'[s].bind = docker[s].bind /\ create[s].pc = "wait"
    BY <1>1, <2>1 DEF WaitLoopback, Goto, At, Container
  <2>2. ASSUME Clone(s)
        PROVE  /\ docker' \in [Sids -> Container]
               /\ docker'[s].bind = docker[s].bind /\ docker'[s].audit = docker[s].audit
    BY <1>1, <2>2 DEF Clone, Container
  <2>3. ASSUME Grant(s), NEW a \in {TRUE, docker[s].audit},
               docker' = [docker EXCEPT ![s].audit = a, ![s].data = "granted"]
        PROVE  /\ docker' \in [Sids -> Container]
               /\ docker'[s].bind = docker[s].bind /\ create[s].pc = "grant"
    <3>1. a \in BOOLEAN
      BY <1>1 DEF Container
    <3> DEFINE c == [docker[s] EXCEPT !.audit = a, !.data = "granted"]
    <3>2. c \in Container /\ c.bind = docker[s].bind
      BY <1>1, <3>1 DEF Container
    <3>3. docker' = [docker EXCEPT ![s] = c]
      BY <2>3
    <3> HIDE DEF c
    <3> QED BY <2>3, <3>2, <3>3 DEF Grant, Goto, At
  <2> QED BY <1>8, <2>1, <2>2, <2>3 DEF WaitLoopback, Grant
<1>9. CASE DownLoopback(s) \/ LateDown(s) \/ DownStepFails(s) \/ CleanupDown(s)
  <2>1. \E v \in BOOLEAN : Down(s, v) \/ DownFails(s)
    BY <1>9 DEF DownLoopback, LateDown, DownStepFails, CleanupDown
  <2> QED BY <1>4, <2>1
<1>10. CASE UpStepFails(s)
  <2>1. UpFails(s, rows[s].port) /\ Exists(s)
    BY <1>5, <1>10 DEF UpStepFails, Raise, Goto, At
  <2>2. CASE HasCompose(s) /\ docker' = [docker EXCEPT ![s].data = Volume(s)]
    BY <1>1, <2>2 DEF Volume, Container
  <2> QED BY <1>3, <2>1, <2>2 DEF UpFails
<1> QED BY <1>6, <1>7, <1>8, <1>9, <1>10 DEF CreateStep


\* Where a step of its create leaves session s.
OwnPhase(s) ==
    /\ create[s].pc \in OnLoopback => disk[s] = "loopback"
    /\ create[s].pc \in OnPublic => disk[s] = "public"
    /\ create[s].pc \in Private => docker[s].bind # "public"
    /\ create[s].pc \notin {"idle", "reserve"}
    /\ s \in tunnels => At(s, "clone")

\* What a create leaves alone: the clock and, except in three steps, the table.
LEMMA CreateTable ==
    ASSUME NEW s \in Sids, CreateStep(s)
    PROVE  now' = now /\ (rows' = rows \/ Reserve(s) \/ Ready(s) \/ SetError(s))
BY DEF CreateStep, Reserve, NoPort, ReserveRaises, GenerateTls, RenderLoopback, UpLoopback,
       WaitLoopback, OpenTunnel, Clone, Grant, RenderPublic, DownLoopback, UpPublic, WaitPublic,
       Ready, LostRow, LateDown, StepFails, RenderFails, UpStepFails, DownStepFails, CleanupDown,
       Rmtree, SetError

\* Files, container and tunnel follow the phases of the create.
LEMMA CreatePhase ==
    ASSUME UseInv, ContainerInv, NEW s \in Sids, CreateStep(s)
    PROVE  OwnPhase(s)' /\ disk' \in [Sids -> Disk]
<1> USE DEF UseInv, ContainerInv, DockerTypeOK, CreateTypeOK
<1>1. /\ s \in tunnels => At(s, "clone")
      /\ create[s].pc \in OnLoopback => disk[s] = "loopback"
      /\ create[s].pc \in OnPublic => disk[s] = "public"
      /\ create[s].pc \in Private => docker[s].bind # "public"
  BY DEF PhaseInv
<1>2. ASSUME NEW from \in Private, NEW to \in {"tls", "render", "up", "down"}, Goto(s, from, to),
             docker' = docker, tunnels' = tunnels, from # "clone",
             NEW d \in Disk, disk' = [disk EXCEPT ![s] = d],
             to = "up" => d = "loopback", to = "down" => d = "public"
      PROVE  OwnPhase(s)' /\ disk' \in [Sids -> Disk]
  BY <1>1, <1>2 DEF Goto, At, OwnPhase, Private, OnLoopback, OnPublic
<1>3. CASE Reserve(s) \/ GenerateTls(s) \/ RenderLoopback(s) \/ RenderPublic(s)
  <2>1. disk' = [disk EXCEPT ![s] = disk'[s]] /\ disk'[s] \in Disk
    BY <1>3 DEF Reserve, GenerateTls, RenderLoopback, RenderPublic, dockerVars, Disk
  <2>2. disk' = disk => disk'[s] \in Disk
    OBVIOUS
  <2> QED
    BY <1>2, <1>3, <2>1 DEF Reserve, GenerateTls, RenderLoopback, RenderPublic, dockerVars, Private
<1>4. ASSUME NEW from \in OnLoopback \ {"publish"}, NEW to \in OnLoopback, Goto(s, from, to),
             disk' = disk, s \in tunnels' => to = "clone"
      PROVE  OwnPhase(s)' /\ disk' \in [Sids -> Disk]
  <2>1. docker'[s].bind # "public"
    BY <1>1, <1>4, CreateDocker DEF Goto, At, Private, OnLoopback
  <2> QED BY <1>1, <1>4, <2>1 DEF Goto, At, OwnPhase, Private, OnLoopback, OnPublic
<1>5. CASE UpLoopback(s) \/ WaitLoopback(s) \/ OpenTunnel(s) \/ Clone(s) \/ Grant(s)
  BY <1>1, <1>4, <1>5 DEF UpLoopback, WaitLoopback, OpenTunnel, Clone, Grant, dockerVars, Goto, At,
     OnLoopback
<1>6. ASSUME NEW from \in OnPublic, NEW to \in OnPublic \ {"down"}, Goto(s, from, to),
             disk' = disk, tunnels' = tunnels
      PROVE  OwnPhase(s)' /\ disk' \in [Sids -> Disk]
  BY <1>1, <1>6 DEF Goto, At, OwnPhase, Private, OnLoopback, OnPublic
<1>7. CASE DownLoopback(s) \/ UpPublic(s) \/ WaitPublic(s) \/ LostRow(s)
  BY <1>6, <1>7 DEF DownLoopback, UpPublic, WaitPublic, LostRow, dockerVars, OnPublic
<1>8. ASSUME NEW to \in {"cleanup", "rmtree", "setError", "ended"}, create'[s].pc = to,
             s \notin tunnels', NEW d \in Disk, disk' = disk \/ disk' = [disk EXCEPT ![s] = d]
      PROVE  OwnPhase(s)' /\ disk' \in [Sids -> Disk]
  BY <1>8 DEF OwnPhase, At, Private, OnLoopback, OnPublic
<1>9. CASE LateDown(s) \/ StepFails(s) \/ RenderFails(s) \/ UpStepFails(s) \/ DownStepFails(s)
  BY <1>8, <1>9 DEF LateDown, StepFails, RenderFails, UpStepFails, DownStepFails, Raise, Goto,
     dockerVars, Disk
<1>10. CASE CleanupDown(s) \/ Rmtree(s)
  BY <1>1, <1>8, <1>10 DEF CleanupDown, Rmtree, Goto, At, Disk
<1>11. CASE NoPort(s) \/ ReserveRaises(s) \/ Ready(s) \/ SetError(s)
  BY <1>1, <1>8, <1>11 DEF NoPort, ReserveRaises, Ready, SetError, Return, Ended, At,
     dockerVars, Disk
<1> QED BY <1>3, <1>5, <1>7, <1>9, <1>10, <1>11 DEF CreateStep

\* A create hands its session out in its last step, from its public compose file.
LEMMA CreateHandsOver ==
    ASSUME UseInv, ContainerInv, NEW s \in Sids, CreateStep(s),
           rows'[s].status \in {"ready", "expired"}
    PROVE  At(s, "ended")' /\ HasCompose(s)'
<1> USE DEF UseInv, ContainerInv, StoreTypeOK, CreateTypeOK
<1>1. rows[s].status \notin {"ready", "expired"}
  BY CreateLive DEF HandedOver
<1>2. CASE Ready(s)
  <2>1. disk[s] = "public" /\ disk' = disk
    BY <1>2 DEF Ready, At, PhaseInv, OnPublic, dockerVars
  <2> QED BY <1>2, <2>1 DEF Ready, Return, Ended, At, HasCompose
<1>3. rows' = rows \/ Reserve(s) \/ Ready(s) \/ SetError(s)
  BY DEF CreateStep, NoPort, ReserveRaises, GenerateTls, RenderLoopback, UpLoopback,
     WaitLoopback, OpenTunnel, Clone, Grant, RenderPublic, DownLoopback, UpPublic, WaitPublic,
     LostRow, LateDown, StepFails, RenderFails, UpStepFails, DownStepFails, CleanupDown, Rmtree
<1>4. ~Reserve(s)
  BY DEF Reserve, ReserveSession, Placeholder
<1>5. SetError(s) => rows' = rows
  <2>1. rows[s] \in Row \cup {NoRow}
    OBVIOUS
  <2>2. SetStatus(s, "error") => rows'[s].status = "error"
    BY <2>1 DEF SetStatus, Row, NoRow
  <2> QED BY <2>2 DEF SetError
<1> QED BY <1>1, <1>2, <1>3, <1>4, <1>5


\* A step of a create keeps the whole invariant.
LEMMA CreateKeepsContainers ==
    ASSUME UseInv, ContainerInv, NEW s \in Sids, Creates(s), \A r \in Sids : RowKept(r)
    PROVE  ContainerInv'
<1>1. CreateStep(s) /\ Live(s) /\ UNCHANGED <<job, rpc, rnow, loose>>
  BY CreateLive DEF Creates, reaperVars
<1>2. \A r \in Sids \ {s} :
         /\ create'[r] = create[r] /\ docker'[r] = docker[r] /\ disk'[r] = disk[r]
         /\ rows'[r] = rows[r] /\ (r \in tunnels' <=> r \in tunnels)
  BY <1>1, CreateFrame
<1>3. DockerTypeOK'
  BY <1>1, CreateDocker, CreatePhase DEF DockerTypeOK
<1>4. ReaperTypeOK'
  BY <1>1 DEF ContainerInv, ReaperTypeOK
<1>5. PhaseInv'
  <2>1. OwnPhase(s)'
    BY <1>1, CreatePhase
  <2> QED BY <1>2, <2>1 DEF ContainerInv, PhaseInv, OwnPhase, At, Exists
<1>6. JobInv'
  <2>1. job[s] \notin {"expired", "expiredDone"}
    BY <1>1 DEF ContainerInv, JobInv, Live, At, Steps, Raising
  <2> QED BY <1>1, <1>2, <2>1 DEF ContainerInv, JobInv, At, HasCompose, Running
<1>7. NothingWithoutRow'
  <2>1. docker'[s] = docker[s] \/ Exists(s)
    <3>1. CASE At(s, "reserve")
      BY <1>1, <3>1 DEF CreateStep, At, Goto, Raise, Raising, Reserve, NoPort, ReserveRaises,
         GenerateTls, RenderLoopback, UpLoopback, WaitLoopback, OpenTunnel, Clone, Grant,
         RenderPublic, DownLoopback, UpPublic, WaitPublic, Ready, LostRow, LateDown, StepFails,
         RenderFails, UpStepFails, DownStepFails, CleanupDown, Rmtree, SetError, dockerVars
    <3> QED BY <1>1, <3>1 DEF UseInv, CreateInv
  <2>2. Exists(s) => Exists(s)'
    BY DEF RowKept
  <2> QED BY <1>2, <2>1, <2>2 DEF ContainerInv, NothingWithoutRow, Exists
<1>8. AuditedWhenPublic'
  <2>1. create[s].pc \in {"wait", "grant"} => docker[s].bind # "public"
    BY DEF ContainerInv, PhaseInv, Private
  <2>2. docker'[s].bind = "public" => docker'[s].audit
    BY <1>1, <2>1, CreateDocker DEF ContainerInv, AuditedWhenPublic
  <2> QED BY <1>2, <2>2 DEF ContainerInv, AuditedWhenPublic
<1>9. HandedOver'
  <2>1. rows'[s].status \in {"ready", "expired"} => ~Live(s)' /\ HasCompose(s)'
    BY <1>1, CreateHandsOver DEF At, Live, Steps, Raising
  <2> QED BY <1>2, <2>1 DEF ContainerInv, HandedOver, Live, HasCompose
<1> QED BY <1>3, <1>4, <1>5, <1>6, <1>7, <1>8, <1>9 DEF ContainerInv

\* The reaper tears an expired session down before it counts it as torn down.
LEMMA ReaperKeepsJobs ==
    ASSUME UseInv, ContainerInv, Reaps, OtherStep
    PROVE  ReaperTypeOK' /\ JobInv'
<1> USE DEF UseInv, ContainerInv, ReaperTypeOK, Jobs
<1>1. CASE SweepExpired
  <2>1. \A s \in ExpiredRows(now) : s \in Sids /\ At(s, "ended") /\ HasCompose(s)
    BY DEF ExpiredRows, HandedOver, Live, PhaseInv, CreateTypeOK, Exists, At
  <2> QED BY <1>1, <2>1 DEF SweepExpired, StoreTypeOK, JobInv, OtherStep, createVars, At, HasCompose
<1>2. CASE SweepStuck
  BY <1>2 DEF SweepStuck, JobInv, OtherStep, createVars, dockerVars, At, HasCompose, Running
<1>3. ASSUME NEW s \in Sids, TeardownDone(s)
      PROVE  ReaperTypeOK' /\ JobInv'
  <2>1. job[s] = "expired" => ~Running(s)'
    BY <1>3 DEF TeardownDone, JobInv, Down, Stopped, DockerTypeOK, Running, Nothing
  <2>2. \A r \in Sids : Running(r)' => Running(r)
    BY DEF OtherStep, StoppedOrSame, Running, Nothing
  <2> QED BY <1>3, <2>1, <2>2 DEF TeardownDone, Done, JobInv, OtherStep, createVars, At, HasCompose
<1>4. ASSUME NEW s \in Sids, TeardownFails(s) \/ MarkExpired(s) \/ MarkStuck(s)
      PROVE  ReaperTypeOK' /\ JobInv'
  <2>1. job' = [job EXCEPT ![s] = "none"] /\ UNCHANGED <<rpc, rnow, loose>>
    BY <1>4 DEF TeardownFails, MarkExpired, MarkStuck
  <2>2. \A r \in Sids : Running(r)' => Running(r)
    BY DEF OtherStep, StoppedOrSame, Running, Nothing
  <2> QED BY <2>1, <2>2 DEF JobInv, OtherStep, createVars, At, HasCompose
<1>5. CASE EndSweep
  BY <1>5 DEF EndSweep, JobInv, OtherStep, createVars, dockerVars, At, HasCompose, Running
<1>6. CASE SweepAborts
  BY <1>6 DEF SweepAborts, NoJobs, JobInv
<1>7. ASSUME NEW s \in Sids, LooseTeardown(s)
      PROVE  ReaperTypeOK' /\ JobInv'
  <2>1. \A r \in Sids : Running(r)' => Running(r)
    BY DEF OtherStep, StoppedOrSame, Running, Nothing
  <2> QED BY <1>7, <2>1 DEF LooseTeardown, JobInv, OtherStep, createVars, At, HasCompose
<1> QED BY <1>1, <1>2, <1>3, <1>4, <1>5, <1>6, <1>7 DEF Reaps, ReaperStep, SweepStep

\* Every step of the process keeps it, a crash between any two included.
LEMMA ContainerNext == UseInv /\ ContainerInv /\ [Next]_vars => ContainerInv'
<1> SUFFICES ASSUME UseInv, ContainerInv, [Next]_vars PROVE ContainerInv'
    OBVIOUS
<1>1. \A r \in Sids : RowKept(r)
  BY StoreStep, RowsKept DEF UseInv
<1>2. ASSUME OtherStep, ReaperTypeOK', JobInv' PROVE ContainerInv'
  BY <1>1, <1>2, OtherKeeps DEF ContainerInv
<1>3. ASSUME OtherStep, UNCHANGED reaperVars PROVE ContainerInv'
  BY <1>1, <1>3, OtherKeeps DEF ContainerInv, reaperVars, ReaperTypeOK
<1>4. ASSUME NEW s \in Sids, Creates(s) PROVE ContainerInv'
  BY <1>1, <1>4, CreateKeepsContainers
<1>5. ASSUME NEW t \in Threads, Serves(t) PROVE ContainerInv'
  BY <1>3, <1>5, RequestOtherStep DEF Serves
<1>6. CASE Reaps
  BY <1>2, <1>6, ReaperOtherStep, ReaperKeepsJobs
<1>7. CASE Time \/ (\E t \in Threads : NewRequest(t)) \/ UNCHANGED vars
  <2>1. UNCHANGED <<rows, dockerVars, createVars, reaperVars>>
    BY <1>7 DEF Time, NewRequest, Dispatch, vars
  <2>2. OtherStep
    BY <2>1 DEF OtherStep, StoppedOrSame, dockerVars, ContainerInv, DockerTypeOK, Exists
  <2> QED BY <1>3, <2>1, <2>2
<1>8. ASSUME NEW s \in Sids, NewCreate(s) PROVE ContainerInv'
  <2>1. /\ create' = [create EXCEPT ![s] = [pc |-> "reserve", t0 |-> now]]
        /\ disk' = [disk EXCEPT ![s] = "dirs"]
        /\ UNCHANGED <<rows, docker, tunnels, reaperVars>> /\ At(s, "idle")
    BY <1>8 DEF NewCreate, Start
  <2>2. ~Exists(s) /\ docker[s].bind # "public" /\ s \notin tunnels
    BY <2>1 DEF ContainerInv, PhaseInv, At, Private
  <2>3. DockerTypeOK' /\ ReaperTypeOK'
    BY <2>1 DEF ContainerInv, DockerTypeOK, Disk, ReaperTypeOK, reaperVars
  <2>4. PhaseInv'
    BY <2>1, <2>2 DEF ContainerInv, UseInv, CreateTypeOK, DockerTypeOK, PhaseInv, At, Exists,
       OnLoopback, OnPublic
  <2>5. JobInv'
    BY <2>1 DEF ContainerInv, UseInv, CreateTypeOK, DockerTypeOK, JobInv, At, HasCompose, Running,
       reaperVars
  <2>6. NothingWithoutRow' /\ AuditedWhenPublic'
    BY <2>1 DEF ContainerInv, NothingWithoutRow, AuditedWhenPublic, Exists
  <2>7. HandedOver'
    BY <2>1, <2>2 DEF ContainerInv, UseInv, CreateTypeOK, DockerTypeOK, HandedOver, Exists, Live,
       HasCompose
  <2> QED BY <2>3, <2>4, <2>5, <2>6, <2>7 DEF ContainerInv
<1>9. CASE Crash \/ Reboot
  <2>1. /\ create' = [s \in Sids |-> IF Live(s) THEN Ended ELSE create[s]]
        /\ tunnels' = {} /\ job' = NoJobs /\ rpc' = "sleep" /\ rnow' = 0 /\ loose' = {}
        /\ UNCHANGED <<rows, disk>>
    BY <1>9 DEF Crash, Reboot, Restart
  <2>2. docker' \in [Sids -> Container] /\ \A s \in Sids : StoppedOrSame(s)
    <3>1. \A s \in Sids : [Nothing EXCEPT !.data = docker[s].data] \in Container
      BY DEF ContainerInv, DockerTypeOK, Nothing, Container
    <3> QED BY <1>9, <3>1 DEF Crash, Reboot, StoppedOrSame, ContainerInv, DockerTypeOK
  <2>3. DockerTypeOK' /\ ReaperTypeOK'
    BY <2>1, <2>2 DEF ContainerInv, DockerTypeOK, ReaperTypeOK, Jobs, NoJobs
  <2>4. PhaseInv'
    BY <2>1, <2>2 DEF ContainerInv, PhaseInv, UseInv, CreateTypeOK, Exists, Ended, Live, Steps,
       Raising, Private, OnLoopback, OnPublic, StoppedOrSame, Nothing
  <2>5. JobInv'
    BY <2>1 DEF JobInv, NoJobs
  <2>6. NothingWithoutRow' /\ AuditedWhenPublic'
    BY <2>1, <2>2 DEF ContainerInv, NothingWithoutRow, AuditedWhenPublic, Exists, StoppedOrSame,
       Nothing, DockerTypeOK, Container
  <2>7. HandedOver'
    BY <2>1 DEF ContainerInv, HandedOver, HasCompose, Live, Ended, Steps, Raising
  <2> QED BY <2>3, <2>4, <2>5, <2>6, <2>7 DEF ContainerInv
<1> QED BY <1>4, <1>5, <1>6, <1>7, <1>8, <1>9 DEF Next

\* In every state the containers, files and tunnels are where the creates'
\* phases and the sweep's jobs say.
THEOREM ContainerInvariant == Spec => []ContainerInv
BY UseInvariant, ContainerInit, ContainerNext, PTL DEF Spec

\* No container or volume is ever left without a row to find it by.
THEOREM NothingIsLost == Spec => []NothingWithoutRow
BY ContainerInvariant, PTL DEF ContainerInv

\* No container is public while the tunnel to production that filled it is up.
THEOREM TunnelsAreClosed == Spec => []TunnelClosedWhenPublic
<1>1. UseInv /\ ContainerInv => TunnelClosedWhenPublic
  BY DEF UseInv, ContainerInv, PhaseInv, TunnelClosedWhenPublic, CreateTypeOK, At, Private
<1> QED BY <1>1, UseInvariant, ContainerInvariant, PTL

\* Whatever becomes of the two general_log calls, a public container audits.
THEOREM PublicIsAudited == Spec => []AuditedWhenPublic
BY ContainerInvariant, PTL DEF ContainerInv

\* A finished teardown of an expired session is not undone before it is marked.
THEOREM TeardownsStand == Spec => []ExpiredTeardownStands
<1>1. ContainerInv => ExpiredTeardownStands
  BY DEF ContainerInv, JobInv, ExpiredTeardownStands
<1> QED BY <1>1, ContainerInvariant, PTL

\* A session in a user's hands is out of the reach of its create's failure paths.
THEOREM SessionsAreHandedOver == Spec => []HandedOver
BY ContainerInvariant, PTL DEF ContainerInv

CrashesOK == crashes \in 0..MaxCrashes

\* Every step of the process keeps its state well typed.
THEOREM TypeCorrect == Spec => []TypeOK
<1>1. Init => CrashesOK
  BY FaultsAssumption DEF Init, CrashesOK
<1>2. CrashesOK /\ [Next]_vars => CrashesOK'
  BY FaultsAssumption DEF Next, NewCreate, Creates, NewRequest, Serves, Reaps, Time, Crash, Reboot,
     Restart, vars, CrashesOK
<1>3. UseInv /\ ContainerInv /\ CrashesOK => TypeOK
  BY DEF UseInv, ContainerInv, TypeOK, CrashesOK
<1> QED BY <1>1, <1>2, <1>3, UseInvariant, ContainerInvariant, PTL DEF Spec

-----------------------------------------------------------------------------
(* The life of a session *)

LifeStep(s) == rows'[s].status \in {rows[s].status} \cup Successors(rows[s].status)

\* The successors of a status that the steps below use.
LEMMA Follows ==
    /\ "starting" \in Successors("none")
    /\ \A status \in {"starting", "ready", "expired", "error"} : "nuked" \in Successors(status)
    /\ "ready" \in Successors("starting") /\ "expired" \in Successors("ready")
    /\ "error" \in Successors("starting") /\ "error" \in Successors("nuked")
BY DEF Successors

\* A create makes its row starting, then ready, or error in the end.
LEMMA CreateLifeStep ==
    ASSUME UseInv, ContainerInv, NEW s \in Sids, Creates(s)
    PROVE  \A r \in Sids : LifeStep(r)
<1> USE DEF UseInv, ContainerInv
<1>1. CreateStep(s)
  BY DEF Creates
<1>2. \A r \in Sids \ {s} : LifeStep(r)
  BY <1>1, CreateFrame DEF LifeStep
<1>3. rows[s] \in Row \cup {NoRow} /\ rows[s].status \notin {"ready", "expired"}
  BY <1>1, CreateLive DEF StoreTypeOK, HandedOver
<1>4. CASE Reserve(s)
  BY <1>2, <1>4, Follows DEF Reserve, ReserveSession, Exists, Placeholder, StoreTypeOK, LifeStep
<1>5. CASE Ready(s)
  <2>1. rows[s].status = "starting" /\ rows'[s].status = "ready"
    BY <1>5 DEF Ready, UpdateToReady, Readied, StoreTypeOK, Row, NoRow
  <2> QED BY <1>2, <2>1, Follows DEF LifeStep
<1>6. CASE SetError(s)
  <2>1. SetStatus(s, "error") \/ rows' = rows
    BY <1>6 DEF SetError
  <2>2. SetStatus(s, "error") => Exists(s) /\ rows'[s].status = "error"
    BY <1>3 DEF SetStatus, StoreTypeOK, Row, NoRow
  <2>3. Exists(s) => rows[s].status \in {"starting", "nuked", "error"}
    BY <1>3 DEF Exists, Row, Statuses, NoRow
  <2>4. LifeStep(s)
    BY <2>1, <2>2, <2>3, Follows DEF LifeStep
  <2> QED BY <1>2, <2>4
<1>7. CASE rows' = rows
  BY <1>7 DEF LifeStep
<1>8. rows' = rows \/ Reserve(s) \/ Ready(s) \/ SetError(s)
  BY <1>1 DEF CreateStep, NoPort, ReserveRaises, GenerateTls, RenderLoopback, UpLoopback,
     WaitLoopback, OpenTunnel, Clone, Grant, RenderPublic, DownLoopback, UpPublic, WaitPublic,
     LostRow, LateDown, StepFails, RenderFails, UpStepFails, DownStepFails, CleanupDown, Rmtree
<1> QED BY <1>2, <1>4, <1>5, <1>6, <1>7, <1>8

\* Deletes and sweeps nuke whatever row there is, a sweep expires ready rows, a
\* reset changes no status.
LEMMA OtherLifeStep ==
    ASSUME UseInv, Reaps \/ (\E t \in Threads : Serves(t))
    PROVE  \A r \in Sids : LifeStep(r)
<1> USE DEF UseInv
<1>1. \A s \in Sids : Exists(s) => rows[s] \in Row
  BY DEF StoreTypeOK, Exists, NoRow
<1>2. ASSUME NEW s \in Sids, Exists(s), rows' = [rows EXCEPT ![s].status = "nuked"] \/ rows' = rows
      PROVE  \A r \in Sids : LifeStep(r)
  <2>1. rows[s].status \in Statuses /\ rows'[s].status \in {"nuked", rows[s].status}
    BY <1>1, <1>2 DEF StoreTypeOK, Row
  <2>2. \A r \in Sids \ {s} : rows'[r] = rows[r]
    BY <1>2 DEF StoreTypeOK
  <2>3. LifeStep(s)
    BY <2>1, Follows DEF LifeStep, Statuses
  <2> QED BY <2>2, <2>3 DEF LifeStep
<1>3. ASSUME NEW s \in Sids, SetStatus(s, "nuked") \/ MarkNuked(s) PROVE \A r \in Sids : LifeStep(r)
  BY <1>2, <1>3 DEF SetStatus, MarkNuked
<1>4. ASSUME NEW t \in Threads, Serves(t) PROVE \A r \in Sids : LifeStep(r)
  <2>1. CASE NukeSet(t)
    BY <1>3, <2>1 DEF NukeSet, RequestInv, ReqAt
  <2>2. CASE ResetSet(t)
    <3>1. req[t].sid \in Sids /\ Exists(req[t].sid)
      BY <2>2 DEF ResetSet, UpdateTtl, RequestInv, ReqAt
    <3>2. rows' = [rows EXCEPT ![req[t].sid] =
                       [rows[req[t].sid] EXCEPT !.expires = req[t].until, !.extended = TRUE]]
      BY <2>2 DEF ResetSet, UpdateTtl
    <3>3. [rows[req[t].sid] EXCEPT !.expires = req[t].until, !.extended = TRUE].status
              = rows[req[t].sid].status
      BY <1>1, <3>1 DEF Row
    <3> QED BY <3>1, <3>2, <3>3 DEF LifeStep, StoreTypeOK
  <2>3. CASE rows' = rows
    BY <2>3 DEF LifeStep
  <2> QED BY <1>4, <2>1, <2>2, <2>3 DEF Serves, RequestStep, DeleteGet, WebhookGet, NukeDown,
     ResetGet, RequestRaises
<1>5. CASE SweepExpired
  <2>1. \A r \in Sids : \/ rows'[r] = rows[r]
                        \/ rows[r].status \in {"ready", "expired"} /\ rows'[r].status = "expired"
    BY <1>1, <1>5 DEF SweepExpired, ClaimExpired, ExpiredRows, StoreTypeOK, Exists, Row
  <2> QED BY <2>1, Follows DEF LifeStep
<1>6. CASE Reaps
  <2>1. CASE rows' = rows
    BY <2>1 DEF LifeStep
  <2>2. ASSUME NEW s \in Sids, MarkExpired(s) \/ MarkStuck(s) PROVE \A r \in Sids : LifeStep(r)
    BY <1>3, <2>2 DEF MarkExpired, MarkStuck
  <2> QED BY <1>5, <1>6, <2>1, <2>2 DEF Reaps, ReaperStep, SweepStep, SweepStuck, EndSweep,
          TeardownDone, TeardownFails, SweepAborts, LooseTeardown
<1> QED BY <1>4, <1>6

\* A failed create leaves error and nothing else, and only a teardown follows
\* expired: a session in use never falls back to starting or into error.
THEOREM LivesAreOrdered == Spec => Lifecycle
<1>1. UseInv /\ ContainerInv /\ [Next]_vars => \A s \in Sids : LifeStep(s)
  <2> SUFFICES ASSUME UseInv, ContainerInv, [Next]_vars PROVE \A s \in Sids : LifeStep(s)
      OBVIOUS
  <2>1. CASE rows' = rows
    BY <2>1 DEF LifeStep
  <2> QED BY <2>1, CreateLifeStep, OtherLifeStep DEF Next, NewCreate, Start, NewRequest,
     Dispatch, Time, Crash, Reboot, Restart, vars
<1> QED BY <1>1, UseInvariant, ContainerInvariant, PTL DEF Spec, Lifecycle, LifeStep

-----------------------------------------------------------------------------
(* What requests and sweeps do to a session *)

\* A delete or a webhook works on session s.
Targeted(s) ==
    \E t \in Threads : req[t].sid = s /\ req[t].pc \in {"delete", "webhook", "down", "setNuked"}

\* What may become of its row: nuked, by a request or a sweep that is done with
\* its container; expired; or, when it was handed out, a new deadline.
Marked(s) ==
    \/ rows'[s] = rows[s]
    \/ /\ rows[s] \in Row /\ rows'[s] \in Row
       /\ rows'[s].port = rows[s].port /\ rows'[s].created = rows[s].created
       /\ rows'[s].realCreds = rows[s].realCreds
       /\ \/ rows'[s].status = "nuked" /\ (BeingNuked(s) \/ job[s] \in {"expiredDone", "stuckDone"})
          \/ rows[s].status \in {"ready", "expired"} /\ rows'[s].status = "expired"
          \/ rows[s].status # "starting" /\ rows'[s].status = rows[s].status

\* A change of a row's status alone.
LEMMA StatusMarks ==
    ASSUME StoreTypeOK, NEW s \in Sids, Exists(s), NEW status \in {"nuked", "expired"},
           NEW r \in Sids, rows' = [rows EXCEPT ![s].status = status],
           \/ status = "nuked" /\ (BeingNuked(s) \/ job[s] \in {"expiredDone", "stuckDone"})
           \/ status = "expired" /\ rows[s].status \in {"ready", "expired"}
    PROVE  Marked(r)
<1>1. rows[s] \in Row
  BY DEF StoreTypeOK, Exists, NoRow
<1>2. rows'[s] = [rows[s] EXCEPT !.status = status]
  BY DEF StoreTypeOK
<1>3. /\ rows'[s] \in Row /\ rows'[s].status = status /\ rows'[s].port = rows[s].port
      /\ rows'[s].created = rows[s].created /\ rows'[s].realCreds = rows[s].realCreds
  BY <1>1, <1>2 DEF Row, Statuses
<1>4. r # s => rows'[r] = rows[r]
  BY DEF StoreTypeOK
<1> QED BY <1>1, <1>3, <1>4 DEF Marked

\* A request marks its session in its last step, if at all,
LEMMA RequestMarks ==
    ASSUME UseInv, NEW t \in Threads, Serves(t), NEW r \in Sids
    PROVE  Marked(r)
<1> DEFINE s == req[t].sid
<1>1. CASE NukeSet(t)
  <2>1. s \in Sids /\ BeingNuked(s) /\ Exists(s) /\ rows' = [rows EXCEPT ![s].status = "nuked"]
    BY <1>1 DEF NukeSet, SetStatus, UseInv, RequestInv, ReqAt, BeingNuked
  <2> QED BY <2>1, StatusMarks DEF UseInv
<1>2. CASE ResetSet(t)
  <2>1. /\ s \in Sids /\ rows[s].realCreds /\ Exists(s) /\ req[t].until \in Nat
        /\ rows' = [rows EXCEPT ![s] = [rows[s] EXCEPT !.expires = req[t].until, !.extended = TRUE]]
    BY <1>2 DEF ResetSet, UpdateTtl, UseInv, RequestInv, RequestsTypeOK, ReqAt
  <2>2. rows[s] \in Row /\ rows[s].status # "starting"
    BY <2>1 DEF UseInv, StoreTypeOK, DeadlineInv, Exists, NoRow
  <2> DEFINE row == [rows[s] EXCEPT !.expires = req[t].until, !.extended = TRUE]
  <2>3. /\ row \in Row /\ row.status = rows[s].status /\ row.port = rows[s].port
        /\ row.created = rows[s].created /\ row.realCreds = rows[s].realCreds
    BY <2>1, <2>2 DEF Row
  <2>4. rows'[s] = row /\ (r # s => rows'[r] = rows[r])
    BY <2>1 DEF UseInv, StoreTypeOK
  <2> HIDE DEF row
  <2> QED BY <2>2, <2>3, <2>4 DEF Marked
<1>3. CASE rows' = rows
  BY <1>3 DEF Marked
<1> QED BY <1>1, <1>2, <1>3 DEF Serves, RequestStep, DeleteGet, WebhookGet, NukeDown, ResetGet,
        RequestRaises

\* and a sweep when it claims a ready session and after each teardown.
LEMMA ReaperMarks ==
    ASSUME UseInv, ContainerInv, Reaps, NEW r \in Sids
    PROVE  Marked(r)
<1>1. CASE SweepExpired
  <2>1. rows'[r] = IF r \in ExpiredRows(now) THEN [rows[r] EXCEPT !.status = "expired"] ELSE rows[r]
    BY <1>1 DEF SweepExpired, ClaimExpired
  <2>2. CASE r \in ExpiredRows(now)
    <3>1. rows[r].status \in {"ready", "expired"} /\ rows[r] \in Row
      BY <2>2 DEF ExpiredRows, UseInv, StoreTypeOK, NoRow
    <3> QED BY <2>1, <2>2, <3>1 DEF Marked, Row, Statuses
  <2> QED BY <2>1, <2>2 DEF Marked
<1>2. ASSUME NEW s \in Sids, MarkExpired(s) \/ MarkStuck(s) PROVE Marked(r)
  <2>1. job[s] \in {"expiredDone", "stuckDone"} /\ Exists(s)
    BY <1>2 DEF MarkExpired, MarkStuck, StuckTurn, SetStatus, MarkNuked
  <2>2. rows' = rows \/ rows' = [rows EXCEPT ![s].status = "nuked"]
    BY <1>2 DEF MarkExpired, MarkStuck, SetStatus, MarkNuked
  <2> QED BY <2>1, <2>2, StatusMarks DEF UseInv, Marked
<1>3. CASE rows' = rows
  BY <1>3 DEF Marked
<1> QED BY <1>1, <1>2, <1>3 DEF Reaps, ReaperStep, SweepStep, SweepStuck, EndSweep, TeardownDone,
        TeardownFails, SweepAborts, LooseTeardown
=============================================================================
