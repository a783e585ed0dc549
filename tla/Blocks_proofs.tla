---------------------------- MODULE Blocks_proofs ----------------------------
(***************************************************************************)
(* The create of every session runs the block of CloneBlock, whatever the  *)
(* other creates, requests, sweeps and crashes do: nobody else fills its   *)
(* volume or opens its tunnel, and what a crash interrupts is over.        *)
(***************************************************************************)
EXTENDS Sandbox_proofs

USE DEF storeVars, TransactionRaises

BeforeBlock == {"idle", "reserve", "tls", "render", "up", "wait", "tunnel"}
AfterBlock == {"grant", "publish", "down", "upPublic", "waitPublic", "ready", "lateDown"}
Failing == {"cleanup", "rmtree", "setError"}

\* Until a create has copied its volume is at most created, and its row gets
\* its credentials in the create's last step.
FilledSession(s) ==
    /\ create[s].pc \in BeforeBlock \cup {"clone"} => docker[s].data \in {"none", "empty"}
    /\ ~At(s, "ended") => ~rows[s].realCreds

FilledInv == \A s \in Sids : FilledSession(s)

\* Where the block of s stands, told by the pc of its create.
PhaseRight(s) ==
    /\ create[s].pc \in BeforeBlock => BlockPhase(s) = "tunnel"
    /\ create[s].pc = "clone" => BlockPhase(s) = "clone"
    /\ create[s].pc \in AfterBlock => BlockPhase(s) = "grant"
    /\ create[s].pc \in Failing => BlockPhase(s) = "cleanup"
    /\ create[s].pc = "ended" =>
           BlockPhase(s) = IF rows[s].realCreds THEN "grant" ELSE "cleanup"

LEMMA PhaseOfCreate == ASSUME NEW s \in Sids PROVE PhaseRight(s) /\ PhaseRight(s)'
BY DEF PhaseRight, BlockPhase, At, BeforeBlock, AfterBlock, Failing

\* At start-up every block is still ahead.
LEMMA BlocksInit == Init => FilledInv /\ \A s \in Sids : BlockOf(s)!BlockInit
<1> SUFFICES ASSUME Init, NEW s \in Sids PROVE FilledSession(s) /\ BlockOf(s)!BlockInit
    BY DEF FilledInv
<1>1. /\ create[s].pc = "idle" /\ docker[s].data = "none" /\ rows[s].realCreds = FALSE
      /\ s \notin tunnels
  BY DEF Init, StoreInit, DockerInit, CreateInit, NotStarted, Nothing, NoRow
<1>2. FilledSession(s)
  BY <1>1 DEF FilledSession
<1>3. BlockPhase(s) = "tunnel"
  BY <1>1, PhaseOfCreate DEF PhaseRight, BeforeBlock
<1> QED BY <1>1, <1>2, <1>3 DEF BlockOf!BlockInit

-----------------------------------------------------------------------------
(* A create *)

\* How a step of its create takes session s on: towards the block, into it, out
\* of it with the copy, on after it, to the end, or out by an exception.
Towards(s) == create[s].pc \in BeforeBlock /\ create'[s].pc \in BeforeBlock
Into(s) == At(s, "tunnel") /\ At(s, "clone")' /\ s \in tunnels'
OutOf(s) == At(s, "clone") /\ At(s, "grant")' /\ docker'[s].data = "cloned"
After(s) == create[s].pc \in AfterBlock /\ create'[s].pc \in AfterBlock
Home(s) == create[s].pc \in AfterBlock /\ At(s, "ended")' /\ rows'[s].realCreds
Out(s) == create[s].pc \in BeforeBlock \cup {"clone"} /\ create'[s].pc \in {"cleanup", "ended"}
Undone(s) == create[s].pc \in AfterBlock \cup Failing /\ create'[s].pc \in Failing \cup {"ended"}

\* Each step of a create is one of these; before the copy it only creates the
\* volume, and before the end it writes no credentials.
LEMMA CreatePaths ==
    ASSUME UseInv, ContainerInv, NEW s \in Sids, FilledSession(s), CreateStep(s)
    PROVE  /\ \/ (Towards(s) \/ Into(s) \/ Out(s)) /\ docker'[s].data \in {"none", "empty"}
              \/ OutOf(s) \/ After(s) \/ Home(s) \/ Undone(s)
           /\ Home(s) \/ ~rows'[s].realCreds
<1> USE DEF UseInv, CreateTypeOK, ContainerInv, DockerTypeOK
<1>1. Live(s) /\ ~rows[s].realCreds /\ docker[s] \in Container
  BY CreateLive DEF FilledSession, At, Live, Steps, Raising
<1>2. create[s].pc \in BeforeBlock \cup {"clone"} => docker[s].data \in {"none", "empty"}
  BY DEF FilledSession
<1>3. Ready(s) \/ ~rows'[s].realCreds
  <2>1. Reserve(s) => ~rows'[s].realCreds
    BY DEF Reserve, ReserveSession, Placeholder, StoreTypeOK
  <2>2. SetError(s) => ~rows'[s].realCreds
    <3>1. Exists(s) => rows[s] \in Row
      BY DEF StoreTypeOK, Exists, NoRow
    <3> QED BY <1>1, <3>1 DEF SetError, SetStatus, StoreTypeOK, Row
  <2> QED BY <1>1, <2>1, <2>2, CreateTable
<1>4. CASE Reserve(s) \/ GenerateTls(s) \/ RenderLoopback(s) \/ WaitLoopback(s)
  <2>1. Towards(s)
    BY <1>4 DEF Reserve, GenerateTls, RenderLoopback, WaitLoopback, Goto, At, Towards, BeforeBlock
  <2>2. docker'[s].data = docker[s].data
    BY <1>1, <1>4 DEF Reserve, GenerateTls, RenderLoopback, WaitLoopback, dockerVars, Container
  <2>3. ~Ready(s)
    BY <2>1 DEF Towards, Ready, At, BeforeBlock
  <2> QED BY <1>2, <1>3, <2>1, <2>2, <2>3 DEF Towards
<1>5. CASE UpLoopback(s)
  <2>1. Towards(s) /\ At(s, "up")
    BY <1>5 DEF UpLoopback, Goto, At, Towards, BeforeBlock
  <2>2. docker'[s].data = Volume(s)
    BY <1>5 DEF UpLoopback, Up, Started
  <2> QED BY <1>2, <1>3, <2>1, <2>2 DEF Towards, Volume, Ready, At
<1>6. CASE OpenTunnel(s)
  <2>1. Into(s) /\ docker' = docker
    BY <1>6 DEF OpenTunnel, Goto, At, Into, dockerVars
  <2> QED BY <1>2, <1>3, <2>1 DEF Into, At, Ready, BeforeBlock
<1>7. CASE Clone(s)
  <2>1. OutOf(s)
    BY <1>1, <1>7 DEF Clone, Goto, At, OutOf, Container
  <2> QED BY <1>3, <2>1 DEF OutOf, At, Ready
<1>8. CASE Grant(s) \/ RenderPublic(s) \/ DownLoopback(s) \/ UpPublic(s) \/ WaitPublic(s) \/ LostRow(s)
  <2>1. After(s)
    BY <1>8 DEF Grant, RenderPublic, DownLoopback, UpPublic, WaitPublic, LostRow, Goto, At, After,
       AfterBlock
  <2>2. ~Ready(s)
    BY <2>1 DEF After, AfterBlock, Ready, Return, Ended, At
  <2> QED BY <1>3, <2>1, <2>2
<1>9. CASE Ready(s)
  BY <1>9 DEF Ready, UpdateToReady, Readied, StoreTypeOK, Row, NoRow, Return, Ended, At, Home,
     AfterBlock
<1>10. CASE NoPort(s) \/ ReserveRaises(s)
  <2>1. Out(s) /\ docker' = docker /\ At(s, "reserve")
    BY <1>10 DEF NoPort, ReserveRaises, Return, Ended, At, Out, BeforeBlock, dockerVars
  <2> QED BY <1>2, <1>3, <2>1 DEF Out, At, Ready
<1>11. CASE StepFails(s) \/ RenderFails(s)
  <2>1. docker' = docker /\ create[s].pc \in Raising /\ create'[s].pc = "cleanup"
    BY <1>11 DEF StepFails, RenderFails, Raise, Raising, Goto, At, dockerVars
  <2>2. ~Ready(s)
    BY <2>1 DEF Ready, Return, Ended
  <2>3. Out(s) \/ Undone(s)
    BY <2>1 DEF Out, Undone, Raising, BeforeBlock, AfterBlock, Failing
  <2> QED BY <1>2, <1>3, <2>1, <2>2, <2>3 DEF Out
<1>12. CASE UpStepFails(s)
  <2>1. create[s].pc \in {"up", "upPublic"} /\ create'[s].pc = "cleanup" /\ UpFails(s, rows[s].port)
    BY <1>12 DEF UpStepFails, Raise, Goto, At
  <2>2. docker'[s].data \in {docker[s].data, Volume(s)}
    BY <1>1, <2>1 DEF UpFails, Up, Started, Container
  <2>3. Out(s) \/ Undone(s)
    BY <2>1 DEF Out, Undone, BeforeBlock, AfterBlock, Failing
  <2> QED BY <1>2, <1>3, <2>1, <2>2, <2>3 DEF Out, Volume, Ready, At
<1>13. CASE LateDown(s) \/ DownStepFails(s)
  <2>1. Undone(s) /\ ~At(s, "ready")
    BY <1>13 DEF LateDown, DownStepFails, Raise, Goto, At, Undone, AfterBlock, Failing
  <2> QED BY <1>3, <2>1 DEF Ready
<1>14. CASE CleanupDown(s) \/ Rmtree(s) \/ SetError(s)
  <2>1. /\ create[s].pc \in Failing
        /\ create'[s].pc \in {"rmtree", "setError"} \/ create'[s] = Ended
    BY <1>14 DEF CleanupDown, Rmtree, SetError, Goto, At, Return, Failing
  <2>2. Undone(s) /\ ~At(s, "ready")
    BY <2>1 DEF Ended, At, Undone, Failing
  <2> QED BY <1>3, <2>2 DEF Ready
<1> QED
  BY <1>4, <1>5, <1>6, <1>7, <1>8, <1>9, <1>10, <1>11, <1>12, <1>13, <1>14 DEF CreateStep

\* So the create of s runs its block.
LEMMA CreateRunsBlock ==
    ASSUME UseInv, ContainerInv, FilledInv, NEW s \in Sids, CreateStep(s)
    PROVE  FilledSession(s)' /\ BlockOf(s)!BlockStep
<1> USE DEF BlockOf!BlockStep, BlockOf!BlockNext, BlockOf!blockVars
<1>1. PhaseRight(s) /\ PhaseRight(s)'
  BY PhaseOfCreate
<1>2. /\ s \in tunnels => create[s].pc = "clone"
      /\ s \in tunnels' => create'[s].pc = "clone"
  BY CreatePhase DEF OwnPhase, ContainerInv, PhaseInv, At
<1>3. /\ create[s].pc \in BeforeBlock \cup {"clone"} => docker[s].data \in {"none", "empty"}
      /\ FilledSession(s)
  BY DEF FilledInv, FilledSession
<1>4. CASE Towards(s) /\ docker'[s].data \in {"none", "empty"} /\ ~rows'[s].realCreds
  <2>1. BlockPhase(s) = "tunnel" /\ BlockPhase(s)' = "tunnel" /\ s \notin tunnels /\ s \notin tunnels'
    BY <1>1, <1>2, <1>4 DEF PhaseRight, Towards, BeforeBlock
  <2> QED BY <1>3, <1>4, <2>1 DEF Towards, FilledSession
<1>5. CASE Into(s) /\ docker'[s].data \in {"none", "empty"} /\ ~rows'[s].realCreds
  <2>1. BlockPhase(s) = "tunnel" /\ BlockPhase(s)' = "clone" /\ s \in tunnels'
    BY <1>1, <1>5 DEF PhaseRight, Into, At, BeforeBlock
  <2>2. docker[s].data \in {"none", "empty"}
    BY <1>3, <1>5 DEF Into, At, BeforeBlock
  <2> QED BY <1>5, <2>1, <2>2 DEF FilledSession, BlockOf!Enter
<1>6. CASE OutOf(s) /\ ~rows'[s].realCreds
  <2>1. /\ BlockPhase(s) = "clone" /\ BlockPhase(s)' = "grant" /\ s \notin tunnels'
        /\ create'[s].pc = "grant"
    BY <1>1, <1>2, <1>6 DEF PhaseRight, OutOf, At, AfterBlock
  <2> QED BY <1>6, <2>1 DEF OutOf, FilledSession, BeforeBlock, BlockOf!Leave
<1>7. CASE Out(s) /\ docker'[s].data \in {"none", "empty"} /\ ~rows'[s].realCreds
  <2>1. /\ BlockPhase(s) \in {"tunnel", "clone"} /\ BlockPhase(s)' = "cleanup" /\ s \notin tunnels'
        /\ create'[s].pc \notin BeforeBlock \cup {"clone"}
    BY <1>1, <1>2, <1>7 DEF PhaseRight, Out, BeforeBlock, Failing
  <2> QED BY <1>3, <1>7, <2>1 DEF Out, FilledSession, BlockOf!RaiseOut
<1>8. ASSUME BlockPhase(s) \in {"grant", "cleanup"}, BlockPhase(s)' \in {BlockPhase(s), "cleanup"},
             s \notin tunnels, s \notin tunnels', create'[s].pc \notin BeforeBlock \cup {"clone"},
             ~At(s, "ended")' => ~rows'[s].realCreds
      PROVE  FilledSession(s)' /\ BlockOf(s)!BlockStep
  BY <1>8 DEF FilledSession, BlockOf!Afterwards
<1>9. CASE After(s) /\ ~rows'[s].realCreds
  BY <1>1, <1>2, <1>8, <1>9 DEF After, AfterBlock, BeforeBlock, PhaseRight
<1>10. CASE Home(s)
  BY <1>1, <1>2, <1>8, <1>10 DEF Home, At, AfterBlock, BeforeBlock, PhaseRight
<1>11. CASE Undone(s) /\ ~rows'[s].realCreds
  BY <1>1, <1>2, <1>8, <1>11 DEF Undone, AfterBlock, BeforeBlock, Failing, PhaseRight
<1> QED BY <1>3, <1>4, <1>5, <1>6, <1>7, <1>9, <1>10, <1>11, CreatePaths

-----------------------------------------------------------------------------
(* The others *)

\* A step that leaves the create of s, its tunnel and its credentials alone and
\* at most stops its container is no step of the block, or one after it.
LEMMA BlockStandsStill ==
    ASSUME UseInv, ContainerInv, NEW s \in Sids, FilledSession(s),
           create'[s].pc = create[s].pc \/ (create[s].pc = "idle" /\ create'[s].pc = "reserve"),
           s \in tunnels' <=> s \in tunnels,
           rows'[s].realCreds = rows[s].realCreds, docker'[s].data \in {docker[s].data, "none"}
    PROVE  FilledSession(s)' /\ BlockOf(s)!BlockStep
<1> USE DEF BlockOf!BlockStep, BlockOf!BlockNext, BlockOf!blockVars
<1>1. PhaseRight(s) /\ PhaseRight(s)' /\ create[s].pc \in Steps \cup {"idle", "ended"}
  BY PhaseOfCreate DEF UseInv, CreateTypeOK
<1>2. FilledSession(s)'
  BY DEF FilledSession, At, BeforeBlock
<1>3. BlockPhase(s)' = BlockPhase(s)
  BY DEF BlockPhase, At
<1>4. CASE create[s].pc \in BeforeBlock \cup {"clone"}
  BY <1>2, <1>3, <1>4 DEF FilledSession
<1>5. CASE create[s].pc \notin BeforeBlock \cup {"clone"}
  <2>1. BlockPhase(s) \in {"grant", "cleanup"}
    BY <1>1, <1>5 DEF PhaseRight, Steps, Raising, BeforeBlock, AfterBlock, Failing
  <2> QED BY <1>2, <1>3, <2>1 DEF BlockOf!Afterwards
<1> QED BY <1>4, <1>5

\* A crash ends the block of a create that runs, as an exception would.
LEMMA CrashEndsBlock ==
    ASSUME UseInv, ContainerInv, NEW s \in Sids, FilledSession(s), Crash \/ Reboot
    PROVE  FilledSession(s)' /\ BlockOf(s)!BlockStep
<1> USE DEF BlockOf!BlockStep, BlockOf!BlockNext, BlockOf!blockVars
<1>1. /\ create'[s] = (IF Live(s) THEN Ended ELSE create[s]) /\ tunnels' = {} /\ rows' = rows
      /\ docker'[s].data = docker[s].data
  BY DEF Crash, Reboot, Restart, Nothing
<1>2. PhaseRight(s) /\ PhaseRight(s)' /\ (s \in tunnels => create[s].pc = "clone")
  BY PhaseOfCreate DEF ContainerInv, PhaseInv, At
<1>3. CASE ~Live(s)
  <2>1. create'[s].pc = create[s].pc /\ s \notin tunnels
    BY <1>1, <1>2, <1>3 DEF Live, Steps, Raising
  <2> QED BY <1>1, <2>1, BlockStandsStill
<1>4. CASE Live(s)
  <2>1. /\ create'[s].pc = "ended" /\ BlockPhase(s)' = "cleanup"
        /\ create[s].pc \in BeforeBlock \cup {"clone"} \cup AfterBlock \cup Failing
    BY <1>1, <1>2, <1>4 DEF Ended, Live, Steps, Raising, FilledSession, At, PhaseRight, BeforeBlock,
       AfterBlock, Failing
  <2>2. FilledSession(s)'
    BY <2>1 DEF FilledSession, At, BeforeBlock
  <2>3. CASE create[s].pc \in BeforeBlock \cup {"clone"}
    BY <1>1, <1>2, <2>1, <2>2, <2>3 DEF PhaseRight, BlockOf!RaiseOut
  <2>4. CASE create[s].pc \in AfterBlock \cup Failing
    <3>1. s \notin tunnels /\ BlockPhase(s) \in {"grant", "cleanup"}
      BY <1>2, <2>4 DEF PhaseRight, AfterBlock, Failing
    <3> QED BY <1>1, <2>1, <2>2, <3>1 DEF BlockOf!Afterwards
  <2> QED BY <2>1, <2>3, <2>4
<1> QED BY <1>3, <1>4

\* Every step of the process is a step, or none, of every session's block.
LEMMA BlocksNext ==
    UseInv /\ ContainerInv /\ FilledInv /\ [Next]_vars =>
        FilledInv' /\ \A s \in Sids : BlockOf(s)!BlockStep
<1> SUFFICES ASSUME UseInv, ContainerInv, FilledInv, [Next]_vars, NEW s \in Sids
             PROVE  FilledSession(s)' /\ BlockOf(s)!BlockStep
    BY DEF FilledInv
<1>1. FilledSession(s)
  BY DEF FilledInv
<1>2. ASSUME NEW r \in Sids, Creates(r) PROVE FilledSession(s)' /\ BlockOf(s)!BlockStep
  <2>1. CreateStep(r)
    BY <1>2 DEF Creates
  <2>2. CASE r = s
    BY <2>1, <2>2, CreateRunsBlock
  <2>3. CASE r # s
    BY <1>1, <2>1, <2>3, CreateFrame, BlockStandsStill
  <2> QED BY <2>2, <2>3
<1>3. ASSUME OtherStep, Marked(s) PROVE FilledSession(s)' /\ BlockOf(s)!BlockStep
  <2>1. rows'[s].realCreds = rows[s].realCreds
    BY <1>3 DEF Marked
  <2>2. create' = create /\ tunnels' = tunnels /\ docker'[s].data \in {docker[s].data, "none"}
    BY <1>3 DEF OtherStep, createVars, StoppedOrSame, Nothing
  <2> QED BY <1>1, <2>1, <2>2, BlockStandsStill
<1>4. ASSUME NEW t \in Threads, Serves(t) PROVE FilledSession(s)' /\ BlockOf(s)!BlockStep
  BY <1>3, <1>4, RequestOtherStep, RequestMarks
<1>5. CASE Reaps
  BY <1>3, <1>5, ReaperOtherStep, ReaperMarks
<1>6. CASE Time \/ (\E t \in Threads : NewRequest(t)) \/ UNCHANGED vars
  <2>1. UNCHANGED <<rows, docker, create, tunnels>>
    BY <1>6 DEF Time, NewRequest, Dispatch, vars, dockerVars, createVars
  <2> QED BY <1>1, <2>1, BlockStandsStill
<1>7. ASSUME NEW r \in Sids, NewCreate(r) PROVE FilledSession(s)' /\ BlockOf(s)!BlockStep
  <2>1. /\ UNCHANGED <<rows, docker, tunnels>>
        /\ create' = [create EXCEPT ![r] = [pc |-> "reserve", t0 |-> now]] /\ At(r, "idle")
    BY <1>7 DEF NewCreate, Start
  <2>2. create'[s].pc = create[s].pc \/ (create[s].pc = "idle" /\ create'[s].pc = "reserve")
    BY <2>1 DEF UseInv, CreateTypeOK, At
  <2> QED BY <1>1, <2>1, <2>2, BlockStandsStill
<1>8. CASE Crash \/ Reboot
  BY <1>1, <1>8, CrashEndsBlock
<1> QED BY <1>2, <1>4, <1>5, <1>6, <1>7, <1>8 DEF Next

\* In every state the volumes and the credentials are as far as the creates.
THEOREM FilledInvariant == Spec => []FilledInv
BY BlocksInit, BlocksNext, UseInvariant, ContainerInvariant, PTL DEF Spec

\* Every create of the process runs the block that Transfer implements.
THEOREM ProcessRunsBlocks == Spec => CreatesRunBlocks
BY BlocksInit, BlocksNext, FilledInvariant, UseInvariant, ContainerInvariant, PTL
   DEF Spec, CreatesRunBlocks

\* The same for one session, as a refinement: seen through its create, its
\* tunnel and its volume the process implements CloneBlock.
THEOREM ProcessImplementsBlock == ASSUME NEW s \in Sids PROVE Spec => BlockOf(s)!BlockSpec
<1>1. Init => BlockOf(s)!BlockInit
  BY BlocksInit
<1>2. UseInv /\ ContainerInv /\ FilledInv /\ [Next]_vars =>
          [BlockOf(s)!BlockNext]_(BlockOf(s)!blockVars)
  BY BlocksNext DEF BlockOf!BlockStep
<1> QED BY <1>1, <1>2, FilledInvariant, UseInvariant, ContainerInvariant, PTL
        DEF Spec, BlockOf!BlockSpec
=============================================================================
