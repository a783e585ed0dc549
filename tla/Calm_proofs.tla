----------------------------- MODULE Calm_proofs -----------------------------
(***************************************************************************)
(* What holds of the whole process, for every number of sessions, ports,   *)
(* threads and crashes, once some of four faults are excluded: a create    *)
(* slower than its deadline (SlowCreate), a delete during the create       *)
(* (EarlyDelete), a `docker compose down` that fails although the file is  *)
(* there (DownMayFail), and a store that raises (StoreMayFail).  Each      *)
(* layer below excludes no more than it needs and builds on the ones that  *)
(* exclude less:                                                           *)
(*   Overdue nothing                      File   ~DownMayFail              *)
(*   Timely  ~SlowCreate                                                   *)
(*   Alone   ~SlowCreate, ~EarlyDelete    (on Overdue and Timely)          *)
(*   Owned   ~SlowCreate, ~EarlyDelete, ~DownMayFail   (on Alone and File) *)
(*   Served  ~SlowCreate, ~EarlyDelete, ~StoreMayFail  (on Alone)          *)
(***************************************************************************)
EXTENDS Sandbox_proofs

USE DEF storeVars, TransactionRaises

-----------------------------------------------------------------------------
(* The actors, seen from one session *)

\* A row there is has the columns of a row.
LEMMA RowThere == ASSUME StoreTypeOK, NEW s \in Sids PROVE Exists(s) <=> rows[s] \in Row
BY DEF StoreTypeOK, Exists, Row, Statuses, NoRow

\* The local `now` of a create never changes while it runs.
LEMMA CreateT0 ==
    ASSUME UseInv, NEW s \in Sids, CreateStep(s), Live(s)'
    PROVE  create'[s].t0 = create[s].t0
<1> USE DEF UseInv, CreateTypeOK
<1>1. ASSUME NEW from, NEW to, Goto(s, from, to) PROVE create'[s].t0 = create[s].t0
  BY <1>1 DEF Goto
<1>2. ~Return(s)
  BY DEF Return, Ended, Live, Steps, Raising
<1> QED BY <1>1, <1>2 DEF CreateStep, Reserve, NoPort, ReserveRaises, GenerateTls, RenderLoopback,
       UpLoopback, WaitLoopback, OpenTunnel, Clone, Grant, RenderPublic, DownLoopback, UpPublic,
       WaitPublic, Ready, LostRow, LateDown, StepFails, RenderFails, UpStepFails, DownStepFails,
       CleanupDown, Rmtree, SetError, Raise

\* What a create does to its row: insert it, make it ready, put it in error.
LEMMA CreateRow ==
    ASSUME UseInv, ContainerInv, NEW s \in Sids, CreateStep(s)
    PROVE  \/ rows'[s] = rows[s]
           \/ /\ Reserve(s) /\ At(s, "tls")' /\ ~Exists(s) /\ rows'[s].status = "starting"
              /\ rows'[s].expires = rows'[s].created + StuckDeadline
           \/ /\ Ready(s) /\ At(s, "ended")' /\ rows'[s].status = "ready"
              /\ rows'[s].port = rows[s].port /\ UNCHANGED dockerVars
           \/ /\ SetError(s) /\ At(s, "ended")' /\ rows'[s].status = "error"
              /\ UNCHANGED dockerVars
<1> USE DEF UseInv, StoreTypeOK, CreateTypeOK
<1>1. CASE Reserve(s)
  <2>1. PICK p \in Ports : rows'[s] = Placeholder(p, create[s].t0)
    BY <1>1 DEF Reserve, ReserveSession, FreePorts
  <2>2. At(s, "tls")' /\ ~Exists(s)
    BY <1>1 DEF Reserve, ReserveSession, Goto, At
  <2> QED BY <1>1, <2>1, <2>2 DEF Placeholder
<1>2. CASE Ready(s)
  <2>1. rows[s] \in Row
    BY <1>2 DEF Ready, UpdateToReady, NoRow
  <2> QED BY <1>2, <2>1 DEF Ready, UpdateToReady, Readied, Row, Return, Ended, At
<1>3. CASE SetError(s)
  <2>1. Exists(s) => rows[s] \in Row
    BY RowThere
  <2> QED BY <1>3, <2>1 DEF SetError, SetStatus, Row, Return, Ended, At
<1> QED BY <1>1, <1>2, <1>3, CreateTable

\* A request steps on, answers, or stops its own session's container.
LEMMA RequestFacts ==
    ASSUME UseInv, ContainerInv, NEW t \in Threads, Serves(t), NEW s \in Sids
    PROVE  /\ UNCHANGED <<now, create, disk, job, rnow, loose, crashes>>
           /\ Targeted(s)' => Targeted(s)
           /\ BeingNuked(s)' => BeingNuked(s) \/ (NukeDown(t) /\ req[t].sid = s)
           /\ docker'[s] = docker[s] \/ (NukeDown(t) /\ req[t].sid = s)
<1> USE DEF UseInv, RequestsTypeOK, Targeted, BeingNuked, ReqAt
<1>1. RequestStep(t) /\ UNCHANGED <<create, job, rnow, loose, crashes>>
  BY DEF Serves, createVars, reaperVars
<1>2. ASSUME Answer(t) PROVE (Targeted(s)' => Targeted(s)) /\ (BeingNuked(s)' => BeingNuked(s))
  BY <1>2 DEF Answer, NoRequest
<1>3. CASE DeleteGet(t) \/ WebhookGet(t) \/ ResetGet(t)
  <2>1. UNCHANGED <<now, docker, disk>>
    BY <1>3 DEF DeleteGet, WebhookGet, ResetGet, dockerVars
  <2>2. (Targeted(s)' => Targeted(s)) /\ (BeingNuked(s)' => BeingNuked(s))
    <3>1. CASE DeleteGet(t)
      BY <3>1 DEF DeleteGet, Proceed
    <3>2. CASE WebhookGet(t)
      BY <1>2, <3>2 DEF WebhookGet, Proceed
    <3>3. CASE ResetGet(t)
      BY <1>2, <3>3 DEF ResetGet
    <3> QED BY <1>3, <3>1, <3>2, <3>3
  <2> QED BY <1>1, <2>1, <2>2
<1>4. CASE NukeDown(t)
  <2>1. UNCHANGED <<now, disk>> /\ (Targeted(s)' => Targeted(s))
    BY <1>4 DEF NukeDown, Proceed
  <2>2. BeingNuked(s)' => BeingNuked(s) \/ req[t].sid = s
    BY <1>4 DEF NukeDown, Proceed
  <2>3. docker'[s] = docker[s] \/ req[t].sid = s
    BY <1>4 DEF NukeDown, Down, DownFails, Stopped, ContainerInv, DockerTypeOK
  <2> QED BY <1>1, <1>4, <2>1, <2>2, <2>3
<1>5. CASE NukeSet(t) \/ ResetSet(t) \/ RequestRaises(t)
  BY <1>1, <1>2, <1>5 DEF NukeSet, ResetSet, RequestRaises, dockerVars
<1> QED BY <1>1, <1>3, <1>4, <1>5 DEF RequestStep

\* The `down` of a delete or a webhook, just before it marks the row.
LEMMA NukeFacts ==
    ASSUME UseInv, NEW t \in Threads, NukeDown(t), NEW s \in Sids, req[t].sid = s
    PROVE  /\ Targeted(s) /\ BeingNuked(s)' /\ rows' = rows
           /\ Down(s, TRUE) \/ DownFails(s)
<1>1. req[t].pc = "down" /\ rows' = rows /\ (Down(s, TRUE) \/ DownFails(s))
  BY DEF NukeDown, ReqAt
<1>2. req'[t].pc = "setNuked" /\ req'[t].sid = s
  BY DEF NukeDown, Proceed, UseInv, RequestsTypeOK
<1> QED BY <1>1, <1>2 DEF Targeted, BeingNuked, ReqAt

\* A sweep gives a session a job, does it, drops it or leaves it.
JobStep(s) ==
    \/ job'[s] \in {job[s], "none"}
    \/ SweepExpired /\ s \in ExpiredRows(now) /\ job'[s] = "expired"
    \/ SweepStuck /\ s \in StuckRows(rnow) /\ job'[s] = "stuck" /\ rows' = rows
    \/ /\ job[s] \in {"expired", "stuck"} /\ job'[s] = Done(s) /\ rows' = rows
       /\ (~HasCompose(s) /\ UNCHANGED docker) \/ Down(s, FALSE)

LEMMA ReaperFacts ==
    ASSUME UseInv, ContainerInv, Reaps, NEW s \in Sids
    PROVE  /\ UNCHANGED <<now, create, disk, req, crashes>> /\ JobStep(s)
           /\ docker'[s] = docker[s] \/ job[s] \in {"expired", "stuck"} \/ s \in loose
           /\ rnow' \in {rnow, now, 0} /\ (loose' \subseteq loose \/ SweepAborts)
<1> USE DEF ContainerInv, ReaperTypeOK, DockerTypeOK, JobStep
<1>1. ReaperStep /\ UNCHANGED <<create, req, crashes>>
  BY DEF Reaps, createVars, requestVars
<1>2. CASE SweepExpired \/ SweepStuck
  <2>1. UNCHANGED <<now, docker, disk, loose>> /\ rnow' \in {rnow, now, 0}
    BY <1>2 DEF SweepExpired, SweepStuck, dockerVars
  <2>2. JobStep(s)
    BY <1>2 DEF SweepExpired, SweepStuck
  <2> QED BY <1>1, <2>1, <2>2
<1>3. ASSUME NEW r \in Sids, TeardownDone(r) \/ TeardownFails(r)
      PROVE  /\ UNCHANGED <<now, disk, rnow, loose>> /\ JobStep(s)
             /\ docker'[s] = docker[s] \/ job[s] \in {"expired", "stuck"}
  <2>1. UNCHANGED <<now, rows, disk, rnow, loose>> /\ job[r] \in {"expired", "stuck"}
    BY <1>3 DEF TeardownDone, TeardownFails
  <2>2. r # s => docker'[s] = docker[s] /\ job'[s] = job[s]
    BY <1>3 DEF TeardownDone, TeardownFails, Down, DownFails, Stopped
  <2>3. r = s => JobStep(s)
    BY <1>3 DEF TeardownDone, TeardownFails
  <2> QED BY <2>1, <2>2, <2>3
<1>4. ASSUME NEW r \in Sids, MarkExpired(r) \/ MarkStuck(r)
      PROVE  UNCHANGED <<now, docker, disk, rnow, loose>> /\ JobStep(s)
  BY <1>4 DEF MarkExpired, MarkStuck, dockerVars
<1>5. ASSUME NEW r \in Sids, LooseTeardown(r)
      PROVE  /\ UNCHANGED <<now, disk, rnow, job>> /\ loose' \subseteq loose
             /\ docker'[s] = docker[s] \/ s \in loose
  BY <1>5 DEF LooseTeardown, Down, DownFails, Stopped
<1>6. CASE EndSweep \/ SweepAborts
  BY <1>1, <1>6 DEF EndSweep, SweepAborts, NoJobs, dockerVars
<1> QED BY <1>1, <1>2, <1>3, <1>4, <1>5, <1>6 DEF ReaperStep, SweepStep

\* A create starts on an id that nothing knows yet.
LEMMA StartFacts ==
    ASSUME UseInv, ContainerInv, NEW r \in Sids, NewCreate(r), NEW s \in Sids
    PROVE  /\ UNCHANGED <<now, rows, docker, req, job, rnow, loose, crashes>>
           /\ s # r => create'[s] = create[s] /\ disk'[s] = disk[s]
           /\ s = r => /\ At(s, "idle") /\ ~Exists(s) /\ docker[s] = Nothing
                       /\ create'[s] = [pc |-> "reserve", t0 |-> now]
<1>1. /\ UNCHANGED <<now, rows, docker, req, job, rnow, loose, crashes>> /\ At(r, "idle")
      /\ create' = [create EXCEPT ![r] = [pc |-> "reserve", t0 |-> now]]
      /\ disk' = [disk EXCEPT ![r] = "dirs"]
  BY DEF NewCreate, Start, requestVars, reaperVars
<1>2. ~Exists(r) /\ docker[r] = Nothing
  BY <1>1 DEF ContainerInv, PhaseInv, NothingWithoutRow, At
<1> QED BY <1>1, <1>2 DEF UseInv, CreateTypeOK, ContainerInv, DockerTypeOK

\* A request is dispatched to a session there is.
LEMMA DispatchFacts ==
    ASSUME UseInv, NEW t \in Threads, NewRequest(t), NEW s \in Sids
    PROVE  /\ UNCHANGED <<now, rows, docker, disk, create, job, rnow, loose, crashes>>
           /\ BeingNuked(s)' <=> BeingNuked(s)
           /\ Targeted(s)' => Targeted(s) \/ (Exists(s) /\ (EarlyDelete \/ ~Live(s)))
<1>1. PICK r \in Sids, kind \in Kinds :
          (kind = "reset" \/ EarlyDelete \/ ~Live(r)) /\ Dispatch(t, r, kind)
  BY DEF NewRequest
<1>2. /\ UNCHANGED <<now, rows, docker, disk, create, job, rnow, loose, crashes>>
      /\ req' = [req EXCEPT ![t] = [pc |-> kind, sid |-> r, until |-> 0]]
      /\ Exists(r) /\ ReqAt(t, "idle")
  BY <1>1 DEF NewRequest, Dispatch, createVars, reaperVars, dockerVars
<1>3. /\ BeingNuked(s)' <=> BeingNuked(s)
      /\ Targeted(s)' => Targeted(s) \/ (r = s /\ kind # "reset")
  BY <1>2 DEF UseInv, RequestsTypeOK, BeingNuked, Targeted, ReqAt, Kinds
<1> QED BY <1>1, <1>2, <1>3

\* What the process knew in memory is gone, and with it who was at work.
LEMMA RestartFacts ==
    ASSUME UseInv, ContainerInv, Crash \/ Reboot, NEW s \in Sids
    PROVE  /\ UNCHANGED <<now, rows, disk>> /\ crashes' = crashes + 1
           /\ create'[s] = IF Live(s) THEN Ended ELSE create[s]
           /\ create'[s].pc \in {"idle", "ended"} /\ ~Live(s)'
           /\ job'[s] = "none" /\ rnow' = 0 /\ loose' = {}
           /\ ~Targeted(s)' /\ ~BeingNuked(s)'
           /\ docker'[s] \in {docker[s], [Nothing EXCEPT !.data = docker[s].data]}
<1>1. /\ UNCHANGED <<now, rows, disk>> /\ crashes' = crashes + 1
      /\ create' = [r \in Sids |-> IF Live(r) THEN Ended ELSE create[r]]
      /\ req' = [t \in Threads |-> NoRequest] /\ rnow' = 0 /\ job' = NoJobs /\ loose' = {}
  BY DEF Crash, Reboot, Restart
<1>2. create'[s].pc \in {"idle", "ended"}
  BY <1>1 DEF UseInv, CreateTypeOK, Live, Ended
<1>3. ~Live(s)'
  BY <1>2 DEF Live, Steps, Raising
<1>4. ~Targeted(s)' /\ ~BeingNuked(s)'
  BY <1>1 DEF Targeted, BeingNuked, ReqAt, NoRequest
<1>5. docker'[s] \in {docker[s], [Nothing EXCEPT !.data = docker[s].data]}
  BY DEF Crash, Reboot
<1> QED BY <1>1, <1>2, <1>3, <1>4, <1>5 DEF NoJobs

\* Time, and a step of nobody, leave everything else alone.
LEMMA TimeFacts ==
    ASSUME Time \/ UNCHANGED vars, NEW s \in Sids
    PROVE  /\ UNCHANGED <<rows, docker, disk, create, req, job, rnow, loose, crashes>>
           /\ now' = now \/ (Tick /\ (SlowCreate \/ (Live(s) => now < create[s].t0 + StuckDeadline)))
           /\ (Targeted(s)' <=> Targeted(s)) /\ (BeingNuked(s)' <=> BeingNuked(s))
<1>1. UNCHANGED <<rows, docker, disk, create, req, job, rnow, loose, crashes>>
  BY DEF Time, vars, dockerVars, createVars, requestVars, reaperVars
<1> QED BY <1>1 DEF Time, vars, Targeted, BeingNuked, ReqAt

-----------------------------------------------------------------------------
(* Overdue: whatever fails *)

\* The create of s has run for longer than its row allowed it to.
Overdue(s) == Live(s) /\ now > create[s].t0 + StuckDeadline

\* While a create runs its row shows the deadline it was inserted with; so the
\* sweep's second claim takes only rows whose create is over or overdue.
OverdueSession(s) ==
    /\ Live(s) => rows[s].status # "error"
    /\ rows[s].status = "starting" => rows[s].expires = rows[s].created + StuckDeadline
    /\ job[s] \in {"stuck", "stuckDone"} => At(s, "ended") \/ Overdue(s)

OverdueInv == rnow <= now /\ \A s \in Sids : OverdueSession(s)

LEMMA OverdueInit == Init => OverdueInv
BY DEF Init, StoreInit, CreateInit, ReaperInit, OverdueInv, OverdueSession, NotStarted, NoRow, NoJobs,
   Live, Steps, Raising

\* A create keeps its local `now` and its row's deadline until it ends.
LEMMA CreateKeepsOverdue ==
    ASSUME UseInv, ContainerInv, NEW s \in Sids, OverdueSession(s), Creates(s)
    PROVE  OverdueSession(s)'
<1>1. CreateStep(s) /\ Live(s) /\ UNCHANGED <<now, job>>
  BY CreateLive, CreateTable DEF Creates, reaperVars
<1>2. At(s, "ended")' => ~Live(s)'
  BY DEF At, Live, Steps, Raising
<1>3. /\ Live(s)' => rows'[s].status # "error"
      /\ rows'[s].status = "starting" => rows'[s].expires = rows'[s].created + StuckDeadline
  BY <1>1, <1>2, CreateRow DEF OverdueSession
<1>4. ~Live(s)' => At(s, "ended")'
  <2>1. UseInv'
    BY UseNext DEF Next
  <2>2. create'[s].pc \in Steps \cup {"idle", "ended"} /\ create'[s].pc # "idle"
    BY <1>1, <2>1, CreatePhase DEF UseInv, CreateTypeOK, OwnPhase
  <2> QED BY <2>2 DEF Live, At
<1>5. job[s] \in {"stuck", "stuckDone"} => At(s, "ended")' \/ Overdue(s)'
  <2>1. ~At(s, "ended")
    BY <1>1 DEF At, Live, Steps, Raising
  <2> QED BY <1>1, <1>4, <2>1, CreateT0 DEF OverdueSession, Overdue
<1> QED BY <1>1, <1>3, <1>5 DEF OverdueSession

\* The second claim compares the row's deadline with a `now` that is over.
LEMMA ClaimedIsOverdue ==
    ASSUME UseInv, ContainerInv, OverdueInv, NEW s \in Sids, s \in StuckRows(rnow)
    PROVE  At(s, "ended") \/ Overdue(s)
<1>1. rows[s].status \in {"starting", "error"} /\ rows[s].expires < rnow /\ rows[s] \in Row
  BY DEF StuckRows, Past, UseInv, StoreTypeOK, NoRow
<1>2. Exists(s) /\ create[s].pc \notin {"idle", "reserve"}
  BY <1>1 DEF Exists, ContainerInv, PhaseInv
<1>3. CASE Live(s)
  <2>1. rows[s].status = "starting" /\ rows[s].created = create[s].t0
    BY <1>1, <1>2, <1>3 DEF OverdueInv, OverdueSession, UseInv, CreateInv, At
  <2>2. create[s].t0 + StuckDeadline < rnow /\ rnow <= now
    BY <1>1, <2>1 DEF OverdueInv, OverdueSession
  <2>3. now \in Int /\ rnow \in Int /\ create[s].t0 + StuckDeadline \in Int
    BY TtlAssumption DEF UseInv, StoreTypeOK, CreateTypeOK, ContainerInv, ReaperTypeOK
  <2> QED BY <1>3, <2>2, <2>3 DEF Overdue
<1>4. CASE ~Live(s)
  BY <1>2, <1>4 DEF Live, At, UseInv, CreateTypeOK
<1> QED BY <1>3, <1>4

\* The `now` of a sweep is never ahead of the clock, which never goes back.
LEMMA SweepTime ==
    UseInv /\ ContainerInv /\ rnow <= now /\ [Next]_vars => rnow' <= now' /\ now <= now'
<1> SUFFICES ASSUME UseInv, ContainerInv, rnow <= now, [Next]_vars
             PROVE  rnow' <= now' /\ now <= now'
    OBVIOUS
<1>1. now \in Nat /\ rnow \in Nat
  BY DEF UseInv, StoreTypeOK, ContainerInv, ReaperTypeOK
<1>2. now' \in Nat /\ now <= now'
  BY <1>1, StoreStep DEF StoreNext, Tick
<1>3. rnow' \in {rnow, now, 0}
  <2>1. CASE Reaps
    BY <2>1 DEF Reaps, ReaperStep, SweepStep, SweepExpired, SweepStuck, EndSweep, TeardownDone,
       TeardownFails, MarkExpired, MarkStuck, SweepAborts, LooseTeardown
  <2> QED BY <2>1 DEF Next, NewCreate, Creates, NewRequest, Serves, Time, Crash, Reboot, Restart,
          vars, reaperVars
<1> QED BY <1>1, <1>2, <1>3

\* Nobody but a create changes what its row says of its deadline.
LEMMA OverdueNext == UseInv /\ ContainerInv /\ OverdueInv /\ [Next]_vars => OverdueInv'
<1> SUFFICES ASSUME UseInv, ContainerInv, OverdueInv, [Next]_vars, NEW s \in Sids
             PROVE  OverdueSession(s)'
    BY SweepTime DEF OverdueInv
<1>1. /\ OverdueSession(s) /\ now \in Int /\ now' \in Int /\ now <= now'
      /\ create[s].t0 + StuckDeadline \in Int
  <2>1. UseInv'
    BY UseNext
  <2> QED BY <2>1, SweepTime, TtlAssumption DEF OverdueInv, UseInv, StoreTypeOK, CreateTypeOK
<1>2. ASSUME NEW r \in Sids, Creates(r) PROVE OverdueSession(s)'
  <2>1. CreateStep(r) /\ UNCHANGED <<now, job>>
    BY <1>2, CreateTable DEF Creates, reaperVars
  <2>2. CASE r = s
    BY <1>1, <1>2, <2>2, CreateKeepsOverdue
  <2>3. CASE r # s
    BY <1>1, <2>1, <2>3, CreateFrame DEF OverdueSession, Overdue, Live, At
  <2> QED BY <2>2, <2>3
<1>3. ASSUME Marked(s), now' = now, create' = create,
             job'[s] \in {"stuck", "stuckDone"} => At(s, "ended") \/ Overdue(s)
      PROVE  OverdueSession(s)'
  BY <1>1, <1>3 DEF OverdueSession, Overdue, Marked, Live, At
<1>4. ASSUME NEW t \in Threads, Serves(t) PROVE OverdueSession(s)'
  BY <1>1, <1>3, <1>4, RequestFacts, RequestMarks DEF OverdueSession
<1>5. CASE Reaps
  <2>1. UNCHANGED <<now, create>> /\ JobStep(s)
    BY <1>5, ReaperFacts
  <2>2. job'[s] \in {"stuck", "stuckDone"} => At(s, "ended") \/ Overdue(s)
    BY <1>1, <2>1, ClaimedIsOverdue DEF JobStep, Done, OverdueSession
  <2> QED BY <1>3, <1>5, <2>1, <2>2, ReaperMarks
<1>6. ASSUME NEW r \in Sids, NewCreate(r) PROVE OverdueSession(s)'
  <2>1. UNCHANGED <<now, rows, job>> /\ (s # r => create'[s] = create[s])
    BY <1>6, StartFacts
  <2>2. CASE s = r
    <3>1. At(s, "idle") /\ rows[s].status = "none"
      BY <1>6, <2>2, StartFacts DEF Exists
    <3> QED BY <1>1, <2>1, <3>1 DEF OverdueSession, Overdue, At, Live, Steps, Raising
  <2> QED BY <1>1, <2>1, <2>2 DEF OverdueSession, Overdue, Live, At
<1>7. ASSUME NEW t \in Threads, NewRequest(t) PROVE OverdueSession(s)'
  BY <1>1, <1>7, DispatchFacts DEF OverdueSession, Overdue, Live, At
<1>8. CASE Time \/ UNCHANGED vars
  <2>1. UNCHANGED <<rows, create, job>>
    BY <1>8, TimeFacts
  <2> QED BY <1>1, <2>1 DEF OverdueSession, Overdue, Live, At
<1>9. CASE Crash \/ Reboot
  <2>1. rows' = rows /\ ~Live(s)' /\ job'[s] = "none"
    BY <1>9, RestartFacts
  <2> QED BY <1>1, <2>1 DEF OverdueSession
<1> QED BY <1>2, <1>4, <1>5, <1>6, <1>7, <1>8, <1>9 DEF Next

\* Sweeps know when a create is overdue, whatever fails.
THEOREM OverdueInvariant == Spec => []OverdueInv
<1> QED BY OverdueInit, OverdueNext, UseInvariant, ContainerInvariant, PTL DEF Spec

\* The sweep takes the row of a running create for an orphan only after the
\* deadline that the create gave its row, with every fault, crash and race.
THEOREM OnlyOverdueAreStuck == Spec => []StuckIsOverdue
<1>1. OverdueInv => StuckIsOverdue
  BY DEF OverdueInv, OverdueSession, Overdue, StuckIsOverdue, At, Live, Steps, Raising
<1> QED BY <1>1, OverdueInvariant, PTL

-----------------------------------------------------------------------------
(* Timely: no create outlives its deadline *)

TimelySession(s) == Live(s) => now <= create[s].t0 + StuckDeadline

TimelyInv == \A s \in Sids : TimelySession(s)

LEMMA TimelyInit == Init => TimelyInv
BY DEF Init, CreateInit, TimelyInv, TimelySession, NotStarted, Live, Steps, Raising

\* A create that is in time is over when the second claim takes its row.
LEMMA ClaimedIsOver ==
    ASSUME UseInv, ContainerInv, OverdueInv, NEW s \in Sids, TimelySession(s), s \in StuckRows(rnow)
    PROVE  At(s, "ended")
<1>1. now \in Int /\ create[s].t0 + StuckDeadline \in Int
  BY TtlAssumption DEF UseInv, StoreTypeOK, CreateTypeOK
<1> QED BY <1>1, ClaimedIsOverdue DEF TimelySession, Overdue

\* Only time moves a create towards its deadline.
LEMMA TimelyNext == ~SlowCreate /\ UseInv /\ ContainerInv /\ TimelyInv /\ [Next]_vars => TimelyInv'
<1> SUFFICES ASSUME ~SlowCreate, UseInv, ContainerInv, TimelyInv, [Next]_vars,
                    NEW s \in Sids
             PROVE  TimelySession(s)'
    BY DEF TimelyInv
<1>1. TimelySession(s) /\ now \in Nat /\ StuckDeadline \in Nat /\ create[s].t0 \in Nat
  BY TtlAssumption DEF TimelyInv, UseInv, StoreTypeOK, CreateTypeOK
<1>2. ASSUME NEW r \in Sids, Creates(r) PROVE TimelySession(s)'
  <2>1. CreateStep(r) /\ now' = now
    BY <1>2, CreateTable DEF Creates
  <2>2. CASE r = s
    BY <1>1, <2>1, <2>2, CreateLive, CreateT0 DEF TimelySession
  <2>3. CASE r # s
    BY <1>1, <2>1, <2>3, CreateFrame DEF TimelySession, Live
  <2> QED BY <2>2, <2>3
<1>3. CASE Reaps \/ (\E t \in Threads : Serves(t))
  BY <1>1, <1>3, RequestFacts, ReaperFacts DEF TimelySession, Live
<1>4. ASSUME NEW r \in Sids, NewCreate(r) PROVE TimelySession(s)'
  <2>1. now' = now /\ (s # r => create'[s] = create[s]) /\ (s = r => create'[s].t0 = now)
    BY <1>4, StartFacts
  <2> QED BY <1>1, <2>1 DEF TimelySession, Live
<1>5. ASSUME NEW t \in Threads, NewRequest(t) PROVE TimelySession(s)'
  BY <1>1, <1>5, DispatchFacts DEF TimelySession, Live
<1>6. CASE Time \/ UNCHANGED vars
  <2>1. create' = create
    BY <1>6, TimeFacts
  <2>2. now' = now \/ (now' = now + 1 /\ (Live(s) => now < create[s].t0 + StuckDeadline))
    BY <1>6, TimeFacts DEF Tick
  <2> QED BY <1>1, <2>1, <2>2 DEF TimelySession, Live
<1>7. CASE Crash \/ Reboot
  BY <1>7, RestartFacts DEF TimelySession
<1> QED BY <1>2, <1>3, <1>4, <1>5, <1>6, <1>7 DEF Next

\* With SlowCreate excluded creates are in time, whatever else fails.
THEOREM TimelyInvariant == ASSUME ~SlowCreate PROVE Spec => []TimelyInv
<1>1. UseInv /\ ContainerInv /\ TimelyInv /\ [Next]_vars => TimelyInv'
  BY TimelyNext
<1> QED BY <1>1, TimelyInit, UseInvariant, ContainerInvariant, PTL DEF Spec

-----------------------------------------------------------------------------
(* File: every `down` that finds its file works *)

\* A container that runs can be torn down; none runs where a create has yet to
\* write the file or is about to remove it.
FileSession(s) ==
    /\ Running(s) => HasCompose(s)
    /\ create[s].pc \in {"tls", "render", "rmtree"} => ~Running(s)

FileInv == \A s \in Sids : FileSession(s)

LEMMA FileInit == Init => FileInv
BY DEF Init, DockerInit, CreateInit, FileInv, FileSession, Running, Nothing, NotStarted

\* Such a `down` leaves no container, with or without its file.
LEMMA DownWorks ==
    ASSUME ~DownMayFail, DockerTypeOK, NEW s \in Sids, FileSession(s), NEW v \in BOOLEAN,
           Down(s, v) \/ DownFails(s)
    PROVE  ~Running(s)'
<1>1. CASE HasCompose(s)
  <2>1. Down(s, v)
    BY <1>1 DEF DownFails
  <2> QED BY <2>1 DEF Down, Stopped, Running, DockerTypeOK, Nothing
<1>2. CASE ~HasCompose(s)
  <2>1. docker' = docker
    BY <1>2 DEF Down, DownFails
  <2> QED BY <1>2, <2>1 DEF FileSession, Running
<1> QED BY <1>1, <1>2

\* A create removes the file only after its `down`.
LEMMA CreateKeepsFile ==
    ASSUME ~DownMayFail, UseInv, ContainerInv, NEW s \in Sids, FileSession(s), CreateStep(s)
    PROVE  FileSession(s)'
<1> USE DEF UseInv, ContainerInv, DockerTypeOK, CreateTypeOK
<1>1. Running(s)' => HasCompose(s)
  <2>1. docker'[s].bind \in {"none", "loopback", "public"}
    BY CreateDocker DEF Container
  <2> QED BY <2>1, CreateDocker DEF FileSession, Running, HasCompose
<1>2. ASSUME NEW from, NEW to, Goto(s, from, to) PROVE create'[s].pc = to
  BY <1>2 DEF Goto
<1>3. CASE Reserve(s) \/ NoPort(s) \/ ReserveRaises(s) \/ GenerateTls(s) \/ RenderLoopback(s)
           \/ RenderFails(s) \/ Rmtree(s)
  <2>1. docker' = docker /\ create[s].pc \in {"reserve", "tls", "render", "rmtree"}
    BY <1>3 DEF Reserve, NoPort, ReserveRaises, GenerateTls, RenderLoopback, RenderFails, Raise,
       Rmtree, Goto, At, dockerVars
  <2>2. ~Running(s)
    BY <2>1 DEF FileSession, PhaseInv, NothingWithoutRow, Running, Nothing
  <2> QED BY <2>1, <2>2 DEF FileSession, Running
<1>4. CASE CleanupDown(s)
  BY <1>4, DownWorks DEF CleanupDown, FileSession
<1>5. ASSUME disk' = disk \/ disk' = [disk EXCEPT ![s] = "public"],
             create'[s].pc \notin {"tls", "render", "rmtree"}
      PROVE  FileSession(s)'
  BY <1>1, <1>5 DEF FileSession, HasCompose
<1>6. CASE UpLoopback(s) \/ WaitLoopback(s) \/ OpenTunnel(s) \/ Clone(s) \/ Grant(s)
           \/ RenderPublic(s) \/ DownLoopback(s) \/ UpPublic(s) \/ WaitPublic(s) \/ LostRow(s)
  <2>1. disk' = disk \/ disk' = [disk EXCEPT ![s] = "public"]
    BY <1>6 DEF UpLoopback, WaitLoopback, OpenTunnel, Clone, Grant, RenderPublic, DownLoopback,
       UpPublic, WaitPublic, LostRow, dockerVars
  <2>2. create'[s].pc \notin {"tls", "render", "rmtree"}
    BY <1>2, <1>6 DEF UpLoopback, WaitLoopback, OpenTunnel, Clone, Grant, RenderPublic,
       DownLoopback, UpPublic, WaitPublic, LostRow
  <2> QED BY <1>5, <2>1, <2>2
<1>7. CASE LateDown(s) \/ StepFails(s) \/ UpStepFails(s) \/ DownStepFails(s) \/ Ready(s)
           \/ SetError(s)
  <2>1. disk' = disk
    BY <1>7 DEF LateDown, StepFails, UpStepFails, DownStepFails, Ready, SetError, dockerVars
  <2>2. create'[s].pc \notin {"tls", "render", "rmtree"}
    <3>1. Ready(s) \/ SetError(s) => create'[s].pc = "ended"
      BY DEF Ready, SetError, Return, Ended
    <3> QED BY <1>2, <1>7, <3>1 DEF LateDown, StepFails, UpStepFails, DownStepFails, Raise
  <2> QED BY <1>5, <2>1, <2>2
<1> QED BY <1>3, <1>4, <1>6, <1>7 DEF CreateStep

\* A step of anybody else at most stops the container.
LEMMA StopKeepsFile ==
    ASSUME NEW s \in Sids, FileSession(s), disk'[s] = disk[s],
           create'[s].pc \in {create[s].pc, "idle", "ended"},
           docker'[s].bind \in {docker[s].bind, "none"}
    PROVE  FileSession(s)'
BY DEF FileSession, Running, HasCompose

LEMMA FileNext == ~DownMayFail /\ UseInv /\ ContainerInv /\ FileInv /\ [Next]_vars => FileInv'
<1> SUFFICES ASSUME ~DownMayFail, UseInv, ContainerInv, FileInv, [Next]_vars, NEW s \in Sids
             PROVE  FileSession(s)'
    BY DEF FileInv
<1>1. FileSession(s)
  BY DEF FileInv
<1>2. ASSUME NEW r \in Sids, Creates(r) PROVE FileSession(s)'
  <2>1. CreateStep(r)
    BY <1>2 DEF Creates
  <2>2. CASE r = s
    BY <1>1, <2>1, <2>2, CreateKeepsFile
  <2>3. CASE r # s
    BY <1>1, <2>1, <2>3, CreateFrame, StopKeepsFile
  <2> QED BY <2>2, <2>3
<1>3. ASSUME OtherStep PROVE FileSession(s)'
  <2>1. disk' = disk /\ create' = create /\ docker'[s].bind \in {docker[s].bind, "none"}
    BY <1>3 DEF OtherStep, StoppedOrSame, createVars, Nothing
  <2> QED BY <1>1, <2>1, StopKeepsFile
<1>4. CASE Reaps \/ (\E t \in Threads : Serves(t))
  BY <1>3, <1>4, RequestOtherStep, ReaperOtherStep
<1>5. ASSUME NEW r \in Sids, NewCreate(r) PROVE FileSession(s)'
  <2>1. CASE s = r
    <3>1. docker'[s] = Nothing /\ create'[s].pc = "reserve"
      BY <1>5, <2>1, StartFacts
    <3> QED BY <3>1 DEF FileSession, Running, Nothing
  <2>2. CASE s # r
    BY <1>1, <1>5, <2>2, StartFacts, StopKeepsFile
  <2> QED BY <2>1, <2>2
<1>6. CASE Time \/ UNCHANGED vars
  BY <1>1, <1>6, TimeFacts, StopKeepsFile
<1>7. ASSUME NEW t \in Threads, NewRequest(t) PROVE FileSession(s)'
  BY <1>1, <1>7, DispatchFacts, StopKeepsFile
<1>8. CASE Crash \/ Reboot
  <2>1. docker'[s].bind \in {docker[s].bind, "none"}
    BY <1>8, RestartFacts DEF Nothing
  <2> QED BY <1>1, <1>8, <2>1, RestartFacts, StopKeepsFile
<1> QED BY <1>2, <1>4, <1>5, <1>6, <1>7, <1>8 DEF Next

\* Where a container runs there is its file, in every state,
THEOREM FileInvariant == ASSUME ~DownMayFail PROVE Spec => []FileInv
<1>1. UseInv /\ ContainerInv /\ FileInv /\ [Next]_vars => FileInv'
  BY FileNext
<1> QED BY <1>1, FileInit, UseInvariant, ContainerInvariant, PTL DEF Spec

\* so the reaper is right to take a missing file for a finished teardown, if no
\* `docker compose down` ever fails on its file.
THEOREM NoContainerWithoutItsFile ==
    ASSUME ~DownMayFail PROVE Spec => []MissingComposeMeansNoContainer
<1>1. FileInv => MissingComposeMeansNoContainer
  BY DEF FileInv, FileSession, MissingComposeMeansNoContainer
<1> QED BY <1>1, FileInvariant, PTL

-----------------------------------------------------------------------------
(* Alone: no delete comes while the create runs either *)

\* While a create runs nobody else works on its session, whose row is starting;
\* a sweep does not work on a ready session.
AloneSession(s) ==
    /\ Live(s) /\ Exists(s) => rows[s].status = "starting"
    /\ job[s] # "none" => At(s, "ended") /\ rows[s].status # "ready"
    /\ Targeted(s) => At(s, "ended")

AloneInv == \A s \in Sids : AloneSession(s)

LEMMA AloneInit == Init => AloneInv
BY DEF Init, StoreInit, CreateInit, RequestsInit, ReaperInit, AloneInv, AloneSession, NoRow, Exists,
   NotStarted, NoRequest, NoJobs, Live, Steps, Raising, Targeted

\* A session that was handed out has no create any more.
LEMMA HandedOverEnded ==
    ASSUME UseInv, ContainerInv, NEW s \in Sids, Exists(s), ~Live(s)
    PROVE  At(s, "ended")
BY DEF UseInv, CreateTypeOK, ContainerInv, PhaseInv, Live, At

\* Who is alone with a session while its create runs.
LEMMA AloneCreate ==
    ASSUME NEW s \in Sids, AloneSession(s), CreateStep(s)
    PROVE  job[s] = "none" /\ ~Targeted(s) /\ ~BeingNuked(s)
<1>1. ~At(s, "ended")
  BY CreateLive DEF At, Live, Steps, Raising
<1> QED BY <1>1 DEF AloneSession, BeingNuked, Targeted, ReqAt

\* A create keeps its row starting until its last step,
LEMMA CreateKeepsAlone ==
    ASSUME UseInv, ContainerInv, NEW s \in Sids, AloneSession(s), Creates(s)
    PROVE  AloneSession(s)'
<1>1. CreateStep(s) /\ job' = job /\ req' = req
  BY DEF Creates, requestVars, reaperVars
<1>2. job'[s] = "none" /\ ~Targeted(s)'
  BY <1>1, AloneCreate DEF Targeted
<1>3. At(s, "ended")' => ~Live(s)'
  BY DEF At, Live, Steps, Raising
<1>4. Live(s)' /\ Exists(s)' => rows'[s].status = "starting"
  BY <1>1, <1>3, CreateLive, CreateRow DEF AloneSession, Exists
<1> QED BY <1>2, <1>4 DEF AloneSession

\* and the others wait for its end.
LEMMA MarkKeepsAlone ==
    ASSUME NEW s \in Sids, AloneSession(s), Marked(s), create' = create,
           job'[s] # "none" => At(s, "ended") /\ rows'[s].status # "ready",
           Targeted(s)' => At(s, "ended")
    PROVE  AloneSession(s)'
<1>1. Live(s) => ~At(s, "ended")
  BY DEF At, Live, Steps, Raising
<1>2. Live(s) => job[s] = "none" /\ ~BeingNuked(s)
  BY <1>1 DEF AloneSession, BeingNuked, Targeted, ReqAt
<1>3. Live(s) /\ Exists(s)' => rows'[s].status = "starting"
  BY <1>2 DEF AloneSession, Marked, Exists, Row, Statuses
<1> QED BY <1>3 DEF AloneSession, Live, At

LEMMA AloneNext ==
    /\ ~EarlyDelete /\ UseInv /\ ContainerInv /\ OverdueInv /\ TimelyInv /\ AloneInv
    /\ [Next]_vars
    => AloneInv'
<1> SUFFICES ASSUME ~EarlyDelete, UseInv, ContainerInv, OverdueInv, TimelyInv, AloneInv,
                    [Next]_vars, NEW s \in Sids
             PROVE  AloneSession(s)'
    BY DEF AloneInv
<1>1. AloneSession(s) /\ TimelySession(s)
  BY DEF AloneInv, TimelyInv
<1>2. ASSUME NEW r \in Sids, Creates(r) PROVE AloneSession(s)'
  <2>1. CreateStep(r) /\ job' = job /\ req' = req
    BY <1>2 DEF Creates, requestVars, reaperVars
  <2>2. CASE r = s
    BY <1>1, <1>2, <2>2, CreateKeepsAlone
  <2>3. CASE r # s
    BY <1>1, <2>1, <2>3, CreateFrame DEF AloneSession, Live, At, Exists, Targeted
  <2> QED BY <2>2, <2>3
<1>3. ASSUME NEW t \in Threads, Serves(t) PROVE AloneSession(s)'
  <2>1. Marked(s) /\ create' = create /\ job' = job /\ (Targeted(s)' => Targeted(s))
    BY <1>3, RequestMarks, RequestFacts
  <2>2. job[s] # "none" => rows'[s].status # "ready"
    BY <1>1, <2>1 DEF AloneSession, Marked
  <2> QED BY <1>1, <2>1, <2>2, MarkKeepsAlone DEF AloneSession
<1>4. CASE Reaps
  <2>1. Marked(s) /\ create' = create /\ req' = req /\ JobStep(s)
    BY <1>4, ReaperMarks, ReaperFacts
  <2>2. Targeted(s)' => At(s, "ended")
    BY <1>1, <2>1 DEF AloneSession, Targeted
  <2>3. CASE SweepExpired /\ s \in ExpiredRows(now)
    <3>1. Exists(s) /\ ~Live(s)
      BY <2>3 DEF ExpiredRows, Exists, ContainerInv, HandedOver
    <3>2. rows'[s].status # "ready"
      BY <2>3 DEF SweepExpired, ClaimExpired, UseInv, StoreTypeOK, Row, NoRow
    <3> QED BY <1>1, <2>1, <2>2, <3>1, <3>2, HandedOverEnded, MarkKeepsAlone
  <2>4. CASE SweepStuck /\ s \in StuckRows(rnow) /\ rows' = rows
    BY <1>1, <2>1, <2>2, <2>4, ClaimedIsOver, MarkKeepsAlone DEF StuckRows
  <2>5. CASE job'[s] # "none" => job[s] # "none"
    <3>1. job[s] # "none" => rows'[s].status # "ready"
      BY <1>1, <2>1 DEF AloneSession, Marked
    <3> QED BY <1>1, <2>1, <2>2, <2>5, <3>1, MarkKeepsAlone DEF AloneSession
  <2> QED BY <2>1, <2>3, <2>4, <2>5 DEF JobStep
<1>5. ASSUME NEW r \in Sids, NewCreate(r) PROVE AloneSession(s)'
  <2>1. UNCHANGED <<rows, job, req>> /\ (s # r => create'[s] = create[s])
    BY <1>5, StartFacts
  <2>2. s = r => ~Exists(s) /\ At(s, "idle")
    BY <1>5, StartFacts
  <2> QED BY <1>1, <2>1, <2>2 DEF AloneSession, Live, At, Exists, Targeted
<1>6. ASSUME NEW t \in Threads, NewRequest(t) PROVE AloneSession(s)'
  <2>1. UNCHANGED <<rows, job, create>> /\ (Targeted(s)' => Targeted(s) \/ (Exists(s) /\ ~Live(s)))
    BY <1>6, DispatchFacts
  <2> QED BY <1>1, <2>1, HandedOverEnded DEF AloneSession, Live, At, Exists
<1>7. CASE Time \/ UNCHANGED vars
  BY <1>1, <1>7, TimeFacts DEF AloneSession, Live, At, Exists
<1>8. CASE Crash \/ Reboot
  BY <1>8, RestartFacts DEF AloneSession
<1> QED BY <1>2, <1>3, <1>4, <1>5, <1>6, <1>7, <1>8 DEF Next

\* With creates in time and no early delete, a running create has its session
\* to itself.
THEOREM AloneInvariant == ASSUME ~SlowCreate, ~EarlyDelete PROVE Spec => []AloneInv
<1>1. UseInv /\ ContainerInv /\ OverdueInv /\ TimelyInv /\ AloneInv /\ [Next]_vars => AloneInv'
  BY AloneNext
<1> QED BY <1>1, AloneInit, UseInvariant, ContainerInvariant, OverdueInvariant, TimelyInvariant, PTL
        DEF Spec

-----------------------------------------------------------------------------
(* Owned: and every `down` that finds its file works *)

\* A container that runs belongs to a row that holds its port; it is stopped
\* wherever the row is about to give the port up.
OwnedSession(s) ==
    /\ Running(s) => rows[s].status \in Holding /\ docker[s].port = rows[s].port
    /\ At(s, "setError") \/ job[s] \in {"expiredDone", "stuckDone"} \/ BeingNuked(s) => ~Running(s)

OwnedInv == \A s \in Sids : OwnedSession(s)

LEMMA OwnedInit == Init => OwnedInv
BY DEF Init, DockerInit, OwnedInv, OwnedSession, Running, Nothing

\* What up_session leaves of the session's container when it is started.
LEMMA Upped ==
    ASSUME ContainerInv, NEW s \in Sids, Up(s, rows[s].port)
    PROVE  docker'[s] = [bind |-> disk[s], port |-> rows[s].port, audit |-> TRUE,
                         data |-> Volume(s)]
BY DEF Up, Started, ContainerInv, DockerTypeOK

\* A create starts the container on the port of its row and on no other.
LEMMA CreatePort ==
    ASSUME ~DownMayFail, UseInv, ContainerInv, NEW s \in Sids, FileSession(s), CreateStep(s), Running(s)'
    PROVE  \/ docker'[s].port = rows[s].port
           \/ Running(s) /\ docker'[s].port = docker[s].port
<1>1. CASE Up(s, rows[s].port)
  <2>1. docker'[s] = [bind |-> disk[s], port |-> rows[s].port, audit |-> TRUE, data |-> Volume(s)]
    BY <1>1, Upped
  <2> QED BY <2>1
<1> USE DEF ContainerInv, DockerTypeOK
<1>2. CASE docker' = docker \/ docker' = [docker EXCEPT ![s].data = Volume(s)]
  <2>1. docker'[s].bind = docker[s].bind /\ docker'[s].port = docker[s].port
    BY <1>2 DEF Container
  <2> QED BY <2>1 DEF Running
<1>3. CASE WaitLoopback(s) \/ Clone(s) \/ Grant(s)
  <2>1. docker'[s].bind = docker[s].bind /\ docker'[s].port = docker[s].port
    BY <1>3 DEF WaitLoopback, Clone, Grant, Container
  <2> QED BY <2>1 DEF Running
<1>4. ~(DownLoopback(s) \/ LateDown(s) \/ DownStepFails(s) \/ CleanupDown(s))
  <2>1. SUFFICES ASSUME DownLoopback(s) \/ LateDown(s) \/ DownStepFails(s) \/ CleanupDown(s)
                 PROVE  \E v \in BOOLEAN : Down(s, v) \/ DownFails(s)
    BY DownWorks
  <2> QED BY <2>1 DEF DownLoopback, LateDown, DownStepFails, CleanupDown
<1> QED BY <1>1, <1>2, <1>3, <1>4 DEF CreateStep, Reserve, NoPort, ReserveRaises, GenerateTls,
       RenderLoopback, UpLoopback, OpenTunnel, RenderPublic, UpPublic, WaitPublic, Ready, LostRow,
       StepFails, RenderFails, UpStepFails, UpFails, Rmtree, SetError, dockerVars

\* The container of a running create stays with the row that holds its port.
LEMMA CreateKeepsOwned ==
    ASSUME ~DownMayFail, UseInv, ContainerInv, NEW s \in Sids, FileSession(s), AloneSession(s),
           OwnedSession(s), Creates(s)
    PROVE  OwnedSession(s)'
<1>1. CreateStep(s) /\ Live(s) /\ job'[s] = "none" /\ ~BeingNuked(s)'
  <2>1. CreateStep(s) /\ job' = job /\ req' = req
    BY DEF Creates, requestVars, reaperVars
  <2> QED BY <2>1, CreateLive, AloneCreate DEF BeingNuked, ReqAt
<1>2. SUFFICES ASSUME Running(s)'
               PROVE  /\ rows'[s].status \in Holding /\ docker'[s].port = rows'[s].port
                      /\ ~At(s, "setError")'
  BY <1>1 DEF OwnedSession
<1>3. ~(Reserve(s) \/ GenerateTls(s) \/ RenderLoopback(s) \/ Rmtree(s) \/ SetError(s))
  <2>1. At(s, "reserve") => ~Running(s)
    BY DEF ContainerInv, PhaseInv, NothingWithoutRow, At, Running, Nothing
  <2> QED BY <1>2, <2>1 DEF Reserve, GenerateTls, RenderLoopback, Rmtree, SetError, Goto, At,
         FileSession, OwnedSession, Running, dockerVars
<1>4. ~At(s, "setError")'
  <2>1. ASSUME NEW from, NEW to, Goto(s, from, to) PROVE At(s, to)'
    BY <2>1 DEF Goto, At, UseInv, CreateTypeOK
  <2>2. ASSUME Return(s) PROVE ~At(s, "setError")'
    BY <2>2 DEF Return, Ended, At, UseInv, CreateTypeOK
  <2>3. ASSUME NEW from, NEW to, Goto(s, from, to), to # "setError" PROVE ~At(s, "setError")'
    BY <2>1, <2>3 DEF At
  <2> QED BY <1>1, <1>3, <2>2, <2>3 DEF CreateStep, NoPort, ReserveRaises, UpLoopback, WaitLoopback,
         OpenTunnel, Clone, Grant, RenderPublic, DownLoopback, UpPublic, WaitPublic, Ready, LostRow,
         LateDown, StepFails, RenderFails, UpStepFails, DownStepFails, CleanupDown, Raise
<1>5. docker'[s].port = rows[s].port /\ (Exists(s) => rows[s].status = "starting")
  BY <1>1, <1>2, CreatePort DEF OwnedSession, AloneSession
<1>6. CASE rows'[s] = rows[s]
  <2>1. Exists(s)
    <3>1. ContainerInv'
      BY ContainerNext DEF Next
    <3> QED BY <1>2, <1>6, <3>1 DEF ContainerInv, NothingWithoutRow, Running, Nothing, Exists
  <2> QED BY <1>4, <1>5, <1>6, <2>1 DEF Holding
<1> QED BY <1>1, <1>3, <1>4, <1>5, <1>6, CreateRow DEF Holding

\* Whoever marks the row of a session that runs keeps it among those that hold
\* their port.
LEMMA MarkKeepsOwned ==
    ASSUME NEW s \in Sids, OwnedSession(s), Marked(s), create' = create,
           docker'[s] = docker[s] \/ ~Running(s)',
           job'[s] \in {"expiredDone", "stuckDone"} => job'[s] = job[s] \/ ~Running(s)',
           BeingNuked(s)' => BeingNuked(s) \/ ~Running(s)'
    PROVE  OwnedSession(s)'
<1>1. SUFFICES ASSUME Running(s)' PROVE OwnedSession(s)'
  BY DEF OwnedSession
<1>2. Running(s) /\ docker'[s] = docker[s]
  BY <1>1 DEF Running
<1>3. ~(At(s, "setError") \/ job[s] \in {"expiredDone", "stuckDone"} \/ BeingNuked(s))
  BY <1>2 DEF OwnedSession
<1>4. rows'[s].status \in Holding /\ rows'[s].port = rows[s].port
  BY <1>2, <1>3 DEF OwnedSession, Marked, Holding
<1> QED BY <1>1, <1>2, <1>3, <1>4 DEF OwnedSession, At

LEMMA OwnedNext ==
    /\ ~DownMayFail /\ UseInv /\ ContainerInv /\ FileInv /\ AloneInv /\ OwnedInv /\ [Next]_vars
    => OwnedInv'
<1> SUFFICES ASSUME ~DownMayFail, UseInv, ContainerInv, FileInv, AloneInv, OwnedInv, [Next]_vars,
                    NEW s \in Sids
             PROVE  OwnedSession(s)'
    BY DEF OwnedInv
<1>1. FileSession(s) /\ AloneSession(s) /\ OwnedSession(s) /\ DockerTypeOK
  BY DEF FileInv, AloneInv, OwnedInv, ContainerInv
<1>2. ASSUME NEW r \in Sids, Creates(r) PROVE OwnedSession(s)'
  <2>1. CreateStep(r) /\ job' = job /\ req' = req
    BY <1>2 DEF Creates, requestVars, reaperVars
  <2>2. CASE r = s
    BY <1>1, <1>2, <2>2, CreateKeepsOwned
  <2>3. CASE r # s
    BY <1>1, <2>1, <2>3, CreateFrame DEF OwnedSession, Running, At, BeingNuked, ReqAt
  <2> QED BY <2>2, <2>3
<1>3. ASSUME NEW t \in Threads, Serves(t) PROVE OwnedSession(s)'
  <2>1. Marked(s) /\ UNCHANGED <<create, job>>
    BY <1>3, RequestMarks, RequestFacts
  <2>2. CASE NukeDown(t) /\ req[t].sid = s
    <3>1. ~Running(s)'
      BY <1>1, <2>2, NukeFacts, DownWorks
    <3> QED BY <1>1, <2>1, <3>1, MarkKeepsOwned
  <2>3. CASE ~(NukeDown(t) /\ req[t].sid = s)
    BY <1>1, <1>3, <2>1, <2>3, RequestFacts, MarkKeepsOwned
  <2> QED BY <2>2, <2>3
<1>4. CASE Reaps
  <2>1. Marked(s) /\ UNCHANGED <<create, req>> /\ JobStep(s)
    BY <1>4, ReaperMarks, ReaperFacts
  <2>2. docker'[s] = docker[s] \/ ~Running(s)'
    BY <1>4, ReaperOtherStep DEF OtherStep, StoppedOrSame, Running, Nothing
  <2>3. job'[s] \in {"expiredDone", "stuckDone"} => job'[s] = job[s] \/ ~Running(s)'
    <3>1. CASE ~HasCompose(s) /\ UNCHANGED docker
      BY <1>1, <3>1 DEF FileSession, Running
    <3>2. CASE Down(s, FALSE)
      BY <1>1, <3>2, DownWorks
    <3> QED BY <2>1, <3>1, <3>2 DEF JobStep
  <2> QED BY <1>1, <2>1, <2>2, <2>3, MarkKeepsOwned DEF BeingNuked, ReqAt
<1>5. ASSUME NEW r \in Sids, NewCreate(r) PROVE OwnedSession(s)'
  <2>1. UNCHANGED <<rows, docker, job, req>>
    BY <1>5, StartFacts
  <2>2. At(s, "setError")' => At(s, "setError")
    BY <1>5, StartFacts DEF At
  <2> QED BY <1>1, <2>1, <2>2 DEF OwnedSession, Running, BeingNuked, ReqAt
<1>6. ASSUME NEW t \in Threads, NewRequest(t) PROVE OwnedSession(s)'
  BY <1>1, <1>6, DispatchFacts DEF OwnedSession, Running, At
<1>7. CASE Time \/ UNCHANGED vars
  BY <1>1, <1>7, TimeFacts DEF OwnedSession, Running, At
<1>8. CASE Crash \/ Reboot
  <2>1. docker'[s] = docker[s] \/ ~Running(s)'
    BY <1>8, RestartFacts DEF Running, Nothing
  <2> QED BY <1>1, <1>8, <2>1, RestartFacts DEF OwnedSession, Running, At
<1> QED BY <1>2, <1>3, <1>4, <1>5, <1>6, <1>7, <1>8 DEF Next

\* Every container runs on the port its row holds, and is stopped before the
\* row lets go of it; a store that raises and any number of crashes included.
THEOREM OwnedInvariant ==
    ASSUME ~SlowCreate, ~EarlyDelete, ~DownMayFail PROVE Spec => []OwnedInv
<1>1. UseInv /\ ContainerInv /\ FileInv /\ AloneInv /\ OwnedInv /\ [Next]_vars => OwnedInv'
  BY OwnedNext
<1> QED BY <1>1, OwnedInit, UseInvariant, ContainerInvariant, FileInvariant, AloneInvariant, PTL
        DEF Spec

\* So a nuked session has no container,
THEOREM NukedSessionsAreGone ==
    ASSUME ~SlowCreate, ~EarlyDelete, ~DownMayFail PROVE Spec => []NukedIsGone
<1>1. OwnedInv => NukedIsGone
  BY DEF OwnedInv, OwnedSession, NukedIsGone, Holding
<1> QED BY <1>1, OwnedInvariant, PTL

\* and no other session's container is bound to the port a create was given.
THEOREM AllocatedPortsAreFree ==
    ASSUME ~SlowCreate, ~EarlyDelete, ~DownMayFail PROVE Spec => []AllocatedPortIsFree
<1>1. PortsUnique /\ OwnedInv => AllocatedPortIsFree
  BY DEF PortsUnique, OwnedInv, OwnedSession, AllocatedPortIsFree, PortTaken, Holding
<1> QED BY <1>1, ProcessKeepsPortsUnique, OwnedInvariant, PTL

-----------------------------------------------------------------------------
(* Served: a `down` may fail again, but no transaction raises *)

\* What is left of a container that was stopped after it was handed out.
Leftovers == {Nothing, [Nothing EXCEPT !.data = "granted"]}

\* What a create has put into the container by the time it hands it out, and
\* what may have happened to it since.
ServedSession(s) ==
    /\ create[s].pc \in {"publish", "down", "upPublic"} => docker[s].data = "granted"
    /\ create[s].pc \in {"waitPublic", "ready"} => docker[s] = Serving(s)
    /\ rows[s].status = "ready" =>
           \/ docker[s] = Serving(s)
           \/ docker[s] \in Leftovers /\ (BeingNuked(s) \/ crashes > 0)

ServedInv == loose = {} /\ crashes \in Nat /\ \A s \in Sids : ServedSession(s)

LEMMA ServedInit == Init => ServedInv
BY DEF Init, StoreInit, CreateInit, ReaperInit, ServedInv, ServedSession, NoRow, NotStarted

\* A create hands its session out with the container it has filled.
LEMMA CreateKeepsServed ==
    ASSUME UseInv, ContainerInv, NEW s \in Sids, AloneSession(s), ServedSession(s), CreateStep(s)
    PROVE  ServedSession(s)'
<1>1. OwnPhase(s)' /\ docker[s] \in Container
  BY CreatePhase DEF ContainerInv, DockerTypeOK
<1>2. ASSUME NEW from, NEW to, Goto(s, from, to)
      PROVE  create[s].pc = from /\ create'[s].pc = to /\ (~At(s, "ready") => ~Ready(s))
  BY <1>2 DEF Goto, At, Ready, UseInv, CreateTypeOK
<1>3. ~Ready(s) => rows'[s].status # "ready"
  <2>1. rows[s].status # "ready"
    BY CreateLive DEF AloneSession, Exists
  <2> QED BY <2>1, CreateRow
<1>4. ASSUME ~Ready(s), create'[s].pc \notin {"publish", "down", "upPublic", "waitPublic", "ready"}
      PROVE  ServedSession(s)'
  BY <1>3, <1>4 DEF ServedSession
<1>5. CASE Grant(s)
  <2>1. docker'[s].data = "granted"
    BY <1>1, <1>5 DEF Grant, ContainerInv, DockerTypeOK
  <2> QED BY <1>2, <1>3, <1>5, <2>1 DEF Grant, ServedSession, At
<1>6. CASE RenderPublic(s) \/ DownLoopback(s)
  <2>1. docker'[s].data = docker[s].data
    BY <1>6 DEF RenderPublic, DownLoopback, Down, Stopped, Nothing, ContainerInv, DockerTypeOK,
       dockerVars
  <2>2. /\ create[s].pc \in {"publish", "down"} /\ create'[s].pc \in {"down", "upPublic"}
        /\ ~Ready(s)
    <3>1. Goto(s, "publish", "down") \/ Goto(s, "down", "upPublic")
      BY <1>6 DEF RenderPublic, DownLoopback
    <3> QED BY <1>2, <3>1 DEF At
  <2> QED BY <1>3, <2>1, <2>2 DEF ServedSession
<1>7. CASE UpPublic(s)
  <2>1. /\ create[s].pc = "upPublic" /\ create'[s].pc = "waitPublic" /\ ~Ready(s) /\ rows' = rows
        /\ Up(s, rows[s].port)
    BY <1>2, <1>7 DEF UpPublic, At
  <2>2. docker[s].data = "granted" /\ disk[s] = "public"
    BY <2>1 DEF ServedSession, ContainerInv, PhaseInv, OnPublic
  <2>3. docker'[s] = [bind |-> disk[s], port |-> rows[s].port, audit |-> TRUE, data |-> Volume(s)]
    BY <2>1, Upped
  <2> QED BY <1>3, <2>1, <2>2, <2>3 DEF ServedSession, Serving, Volume
<1>8. CASE WaitPublic(s)
  <2>1. /\ create[s].pc = "waitPublic" /\ create'[s].pc = "ready" /\ ~Ready(s)
        /\ UNCHANGED <<rows, docker>>
    BY <1>2, <1>8 DEF WaitPublic, At, dockerVars
  <2> QED BY <1>3, <2>1 DEF ServedSession, Serving
<1>9. CASE Ready(s)
  <2>1. docker[s] = Serving(s) /\ docker' = docker /\ create'[s].pc = "ended"
    BY <1>9 DEF ServedSession, Ready, At, Return, Ended, UseInv, CreateTypeOK, dockerVars
  <2>2. rows'[s].port = rows[s].port
    BY <1>9, CreateRow DEF Ready, Reserve, SetError, At, Goto
  <2> QED BY <2>1, <2>2 DEF ServedSession, Serving
<1>10. CASE Reserve(s) \/ GenerateTls(s) \/ RenderLoopback(s) \/ UpLoopback(s) \/ WaitLoopback(s)
            \/ OpenTunnel(s) \/ Clone(s)
  BY <1>2, <1>4, <1>10 DEF Reserve, GenerateTls, RenderLoopback, UpLoopback, WaitLoopback,
     OpenTunnel, Clone, At
<1>11. CASE NoPort(s) \/ ReserveRaises(s) \/ SetError(s)
  <2>1. create'[s].pc = "ended" /\ ~Ready(s)
    BY <1>11 DEF NoPort, ReserveRaises, SetError, Ready, At, Return, Ended, UseInv, CreateTypeOK
  <2> QED BY <1>4, <2>1
<1>12. CASE LostRow(s) \/ LateDown(s) \/ StepFails(s) \/ RenderFails(s) \/ UpStepFails(s)
            \/ DownStepFails(s) \/ CleanupDown(s) \/ Rmtree(s)
  <2>1. create'[s].pc \in {"lateDown", "cleanup", "rmtree", "setError"}
    BY <1>2, <1>12 DEF LostRow, LateDown, StepFails, RenderFails, UpStepFails, DownStepFails,
       CleanupDown, Rmtree, Raise
  <2>2. ~Ready(s)
    BY <2>1 DEF Ready, Return, Ended, UseInv, CreateTypeOK
  <2> QED BY <1>4, <2>1, <2>2
<1> QED BY <1>5, <1>6, <1>7, <1>8, <1>9, <1>10, <1>11, <1>12 DEF CreateStep

\* A session whose container nobody touches stays served.
LEMMA MarkKeepsServed ==
    ASSUME NEW s \in Sids, ServedSession(s), Marked(s), docker'[s] = docker[s],
           create'[s].pc \in {create[s].pc, "idle", "ended"},
           BeingNuked(s) => BeingNuked(s)' \/ rows'[s].status = "nuked",
           crashes' = crashes
    PROVE  ServedSession(s)'
<1>1. rows'[s].port = rows[s].port /\ (rows'[s].status = "ready" => rows[s].status = "ready")
  BY DEF Marked
<1> QED BY <1>1 DEF ServedSession, Serving

\* A delete that is past its `down` ends with the row nuked, when its
\* transaction does not raise.
LEMMA NukeEnds ==
    ASSUME ~StoreMayFail, UseInv, NEW t \in Threads, Serves(t), NEW s \in Sids, BeingNuked(s)
    PROVE  BeingNuked(s)' \/ rows'[s].status = "nuked"
<1> USE DEF UseInv, RequestsTypeOK, ReqAt
<1>1. PICK u \in Threads : ReqAt(u, "setNuked") /\ req[u].sid = s
  BY DEF BeingNuked
<1>2. RequestStep(t)
  BY DEF Serves
<1>3. CASE u = t
  <2>1. NukeSet(t)
    BY <1>1, <1>2, <1>3 DEF RequestStep, DeleteGet, WebhookGet, NukeDown, ResetGet, ResetSet,
       RequestRaises
  <2>2. rows' = [rows EXCEPT ![s].status = "nuked"] /\ Exists(s)
    BY <1>1, <1>3, <2>1 DEF NukeSet, SetStatus
  <2> QED BY <2>2, RowThere DEF StoreTypeOK, Row
<1>4. CASE u # t
  <2>1. req'[u] = req[u]
    BY <1>2, <1>4 DEF RequestStep, DeleteGet, WebhookGet, NukeDown, NukeSet, ResetGet, ResetSet,
       RequestRaises, Proceed, Answer
  <2> QED BY <1>1, <2>1 DEF BeingNuked
<1> QED BY <1>3, <1>4

\* The `down` of a delete stops what its session still had.
LEMMA DownServed ==
    ASSUME ContainerInv, NEW s \in Sids, ServedSession(s), rows[s].status = "ready",
           Down(s, TRUE) \/ DownFails(s)
    PROVE  docker'[s] \in {docker[s]} \cup Leftovers
<1>1. docker'[s] \in {docker[s], [Nothing EXCEPT !.data = "none"],
                      [Nothing EXCEPT !.data = docker[s].data]}
  BY DEF Down, DownFails, Stopped, ContainerInv, DockerTypeOK
<1>2. docker[s].data \in {"none", "granted"}
  BY DEF ServedSession, Serving, Leftovers, Nothing
<1>3. [Nothing EXCEPT !.data = "none"] = Nothing
  BY DEF Nothing
<1> QED BY <1>1, <1>2, <1>3 DEF Leftovers

LEMMA ServedNext ==
    ~StoreMayFail /\ UseInv /\ ContainerInv /\ AloneInv /\ ServedInv /\ [Next]_vars => ServedInv'
<1> SUFFICES ASSUME ~StoreMayFail, UseInv, ContainerInv, AloneInv, ServedInv, [Next]_vars
             PROVE  ServedInv'
    OBVIOUS
<1>1. loose' = {} /\ crashes' \in Nat
  <2>1. ~SweepAborts /\ \A s \in Sids : ~LooseTeardown(s)
    BY DEF SweepAborts, LooseTeardown, ServedInv
  <2>2. CASE Reaps
    <3>1. crashes' = crashes /\ ReaperStep
      BY <2>2 DEF Reaps
    <3>2. loose' = loose
      BY <2>1, <3>1 DEF ReaperStep, SweepStep, SweepExpired, SweepStuck, EndSweep, TeardownDone,
         TeardownFails, MarkExpired, MarkStuck
    <3> QED BY <3>1, <3>2 DEF ServedInv
  <2>3. CASE Crash \/ Reboot
    BY <2>3 DEF Crash, Reboot, Restart, ServedInv
  <2> QED BY <2>2, <2>3 DEF ServedInv, Next, NewCreate, Creates, NewRequest, Serves, Time, vars,
         reaperVars
<1>2. SUFFICES ASSUME NEW s \in Sids PROVE ServedSession(s)'
  BY <1>1 DEF ServedInv
<1>3. AloneSession(s) /\ ServedSession(s) /\ loose = {} /\ crashes \in Nat
  BY DEF AloneInv, ServedInv
<1>4. ASSUME NEW r \in Sids, Creates(r) PROVE ServedSession(s)'
  <2>1. CreateStep(r) /\ req' = req /\ crashes' = crashes
    BY <1>4 DEF Creates, requestVars
  <2>2. CASE r = s
    BY <1>3, <2>1, <2>2, CreateKeepsServed
  <2>3. CASE r # s
    BY <1>3, <2>1, <2>3, CreateFrame DEF ServedSession, Serving, BeingNuked, ReqAt
  <2> QED BY <2>2, <2>3
<1>5. ASSUME NEW t \in Threads, Serves(t) PROVE ServedSession(s)'
  <2>1. /\ UNCHANGED <<create, crashes>> /\ Marked(s)
        /\ docker'[s] = docker[s] \/ (NukeDown(t) /\ req[t].sid = s)
    BY <1>5, RequestFacts, RequestMarks
  <2>2. CASE docker'[s] = docker[s]
    BY <1>3, <1>5, <2>1, <2>2, NukeEnds, MarkKeepsServed
  <2>3. CASE NukeDown(t) /\ req[t].sid = s
    <3>1. Targeted(s) /\ BeingNuked(s)' /\ rows' = rows /\ (Down(s, TRUE) \/ DownFails(s))
      BY <2>3, NukeFacts
    <3>2. create'[s].pc = "ended"
      BY <1>3, <2>1, <3>1 DEF AloneSession, At
    <3>3. rows[s].status = "ready" => docker'[s] \in {Serving(s)} \cup Leftovers
      BY <1>3, <3>1, DownServed DEF ServedSession
    <3> QED BY <3>1, <3>2, <3>3 DEF ServedSession, Serving
  <2> QED BY <2>1, <2>2, <2>3
<1>6. CASE Reaps
  <2>1. /\ UNCHANGED <<create, req, crashes>> /\ Marked(s)
        /\ docker'[s] = docker[s] \/ job[s] # "none"
    BY <1>3, <1>6, ReaperFacts, ReaperMarks
  <2>2. CASE docker'[s] = docker[s]
    BY <1>3, <2>1, <2>2, MarkKeepsServed DEF BeingNuked, ReqAt
  <2>3. CASE job[s] # "none"
    BY <1>3, <2>1, <2>3 DEF AloneSession, Marked, ServedSession, At
  <2> QED BY <2>1, <2>2, <2>3
<1>7. ASSUME NEW r \in Sids, NewCreate(r) PROVE ServedSession(s)'
  <2>1. /\ UNCHANGED <<rows, docker, req, crashes>>
        /\ create'[s] = create[s] \/ create'[s].pc = "reserve"
    BY <1>7, StartFacts
  <2> QED BY <1>3, <2>1 DEF ServedSession, Serving, BeingNuked, ReqAt
<1>8. ASSUME NEW t \in Threads, NewRequest(t) PROVE ServedSession(s)'
  BY <1>3, <1>8, DispatchFacts, MarkKeepsServed DEF Marked
<1>9. CASE Time \/ UNCHANGED vars
  BY <1>3, <1>9, TimeFacts, MarkKeepsServed DEF Marked
<1>10. CASE Crash \/ Reboot
  <2>1. /\ rows' = rows /\ crashes' > 0 /\ create'[s].pc \in {"idle", "ended"}
        /\ docker'[s] \in {docker[s], [Nothing EXCEPT !.data = docker[s].data]}
    BY <1>3, <1>10, RestartFacts
  <2>2. rows[s].status = "ready" => docker[s] \in {Serving(s)} \cup Leftovers
    BY <1>3 DEF ServedSession
  <2>3. rows[s].status = "ready" => docker'[s] \in {Serving(s)} \cup Leftovers
    <3>1. \A c \in {Serving(s)} \cup Leftovers : [Nothing EXCEPT !.data = c.data] \in Leftovers
      BY DEF Serving, Leftovers, Nothing
    <3> QED BY <2>1, <2>2, <3>1
  <2> QED BY <2>1, <2>3 DEF ServedSession, Serving
<1> QED BY <1>4, <1>5, <1>6, <1>7, <1>8, <1>9, <1>10 DEF Next

\* Creates fill their containers before they hand them out, and only a delete
\* or a crash takes them away again while the row says ready.
THEOREM ServedInvariant ==
    ASSUME ~SlowCreate, ~EarlyDelete, ~StoreMayFail PROVE Spec => []ServedInv
<1>1. UseInv /\ ContainerInv /\ AloneInv /\ ServedInv /\ [Next]_vars => ServedInv'
  BY ServedNext
<1> QED BY <1>1, ServedInit, UseInvariant, ContainerInvariant, AloneInvariant, PTL DEF Spec

\* So a ready session serves, unless it is being nuked or something crashed,
\* also when every `docker compose down` fails.
THEOREM ReadySessionsServe ==
    ASSUME ~SlowCreate, ~EarlyDelete, ~StoreMayFail PROVE Spec => []ReadyIsServing
<1>1. ServedInv => ReadyIsServing
  BY DEF ServedInv, ServedSession, Leftovers, ReadyIsServing
<1> QED BY <1>1, ServedInvariant, PTL
=============================================================================
