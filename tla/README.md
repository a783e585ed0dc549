# A TLA+ development of the SQL sandbox service

The repository is a small FastAPI service that hands out throw-away MySQL
sandboxes: `POST /instance` starts a container, clones production databases
into it through an SSH tunnel, restarts it on a public port and returns
credentials; the session expires after a few hours, or is deleted, and a reaper
tears it down.  The code is short and its unit tests mock docker, so what they
hardly reach is everything that happens *between* two calls: a delete while the
create still runs, a crash half way, a teardown that fails, two resets at once.
This directory models that with TLA+, checks it with TLC on small instances and
proves all of the safety it checks with TLAPS for instances of every size.

## 1. The system

### Components

| component | code | state it keeps | operations |
|---|---|---|---|
| session store | `api/state.py` | SQLite table: status, port, `expires_at`, `max_extended_until`, `ttl_extended`, credentials | `reserve_session`, `update_to_ready`, `set_status`, `mark_nuked`, `update_ttl`, `claim_expired`, `claim_stuck`, `get`, `list_all` |
| create flow | `service.create`, `_do_create`, `_cleanup_failed_create` | the thread's position and local `now`, an open tunnel | some 15 calls in order, each of which may raise |
| requests on a session | `service.nuke`, `nuke_by_ticket`, `reset_ttl` | the snapshot of the row they read | read, act, write |
| reaper | `api/reaper.py` | the two lists it claimed | claim, tear down in a pool, mark |
| docker and files | `api/docker_ops.py`, `templates/` | containers, named volumes, the session directory | `up_session`, `down_session`, `render_compose`, ... |
| API process | `api/main.py`, the systemd unit | event loop, thread pool | dispatch, crash, restart, reboot |
| clone pipeline | `mysql_ops.clone_db` | two child processes, three pipes | spawn, communicate, wait, kill |
| read-only endpoints | `service.view`, `ca_pem`, `main.metrics` | none | answer from the row and the files |
| SSH tunnel | `api/ssh_tunnel.py` | an `ssh -N -L` child | open, close |
| authentication | `api/auth.py` | the JWKS client, shared by the threads | fetch keys, admit or refuse a request |
| configuration, models | `api/config.py`, `api/models.py` | none | validate |
| crypto, TLS | `api/crypto.py`, `api/tls_ops.py` | files `ca.pem`, ... | generate, encrypt, decrypt |
| deployment | `scripts/`, `deploy/` | | install, back up, rotate |

### How they interact

All of it is one process (`--workers 1`).  Request handlers are plain `def`s, so
FastAPI runs them in pool threads; `reap_loop` is a coroutine that calls
`reap_once` *synchronously*, so a sweep blocks the event loop: no new request is
dispatched while it runs, but threads already running go on.  The threads and
the reaper share three things: the table (each store method is one
`BEGIN IMMEDIATE` transaction under a lock, hence atomic), docker, and the
session directories (neither of which is protected by anything).  Rows,
containers, volumes and files survive a crash; threads and tunnels do not.

### What is hard

* *Interleavings.*  Every handler reads a row, works on the snapshot for up to
  minutes, and then writes unconditionally (`set_status`, `update_ttl`); only
  `update_to_ready` and `mark_nuked` look at the status they overwrite.
* *Failure.*  `docker compose` can fail before or after doing its work; failures
  of teardown are swallowed by deletes and by the create's cleanup, and retried
  only by the reaper, only for rows in some statuses.
* *Crash and restart* between any two steps of a create, a delete or a sweep.
* *Time.*  A create may outlive the 3600 s deadline written in its placeholder
  row (`clone_db` alone may take 7200 s); resets and expiry race.
* *Resources.*  Host ports are returned to the pool by a change of status, not
  by the end of the container that binds them.
* *Pools.*  Creates hold a pool thread for minutes, next to deletes and webhooks.
* *Pipes.*  `mysqldump | mysql` with stderr pipes that nobody drains in time, and
  two children that are started one after the other.
* *A port given back before it is used.*  The tunnel's local port is picked,
  released, and then bound by ssh or by whoever is faster; the wait for it cannot
  tell who accepts.
* *A cache used after its lock is released.*  Threads go on with a JWKS client
  another thread has replaced, while the issuer rotates keys or goes away.

What makes the system correct: no port is leased twice; a session that is gone
stays gone and its container and data with it; whatever dies on the way, some
sweep finds what was left and removes it; a session that is `ready` really
serves, is audited, and production is not reachable from it; a deadline is
bounded and moved at most once; a clone is complete or reported as failed.

`PROJECT.json` lists the hazards line by line, with the properties that watch
them.

## 2. The modules

```
PortLease          abstract: ports are leased to one session at a time
SessionStore       the table and its transactions   (implements PortLease)
 └ Docker          containers, volumes, session directories
    ├ CreateSession   POST /instance
    ├ Requests        DELETE, webhook, reset-ttl
    └ Reaper          reap_loop / reap_once
       Sandbox        the process: the three above + pool + time + crash + reboot
        └ Observers   GET /session, ca.pem

CloneBlock         abstract: the with block of a create
                     (implemented by Transfer, and by each create of Sandbox)
ClonePipe          mysqldump | mysql, one database
Tunnel             open_tunnel, one create
 └ Transfer        both, for all databases of a create  (implements CloneBlock)

Auth               the JWKS client behind the endpoints

MCSessionStore, MCSandbox, MCAuth             instances for TLC
SessionStore_proofs, Sandbox_proofs           theorems: table and process,
Calm_proofs, Observers_proofs                   without some faults, endpoints,
ClonePipe_proofs, Transfer_proofs               one clone, the block,
Blocks_proofs, Auth_proofs                      the block in the process, the gate
```

**SessionStore.**  `rows` maps every session id to its row or `NoRow`; `now` is
`int(time.time())`.  One operator per method, named after it.  Columns nothing
depends on (ticket, names, host) are left out.  `TransactionRaises` is the
`_tx` that rolls back (a locked database, a full disk); `StoreMayFail` switches
it on, and every caller says what it does then: a reservation or a request ends
in a 500 (`ReserveRaises`, `RequestRaises`), a create's failing
`update_to_ready` is one of its failing steps, its last `set_status` is
swallowed, and a sweep is aborted (`SweepAborts`).  `realCreds` says whether
`creds_enc` is the real blob or the one-byte placeholder.  `StoreSpec` is the
table under arbitrary callers who keep to three rules: `set_status` gets only
`nuked` or `error`, `update_to_ready` the deadlines of the row's own creation
time, and `update_ttl` the capped extension.  That the process keeps to
them is not assumed but checked and proved (`ImplementsStore`).

**PortLease.**  What the store promises its callers: a session acquires a free
port once, may give it back, and never gets one again.  `lease[p]` is the set
of sessions holding `p`; `SessionStore` refines it with the rows in `starting`,
`ready` or `expired`.

**Docker.**  For each session the daemon's view (`bind`, `port`, `audit`,
`data`) and how far the session directory is filled (`disk`).  `Up` needs the
port free; `UpFails` and `DownFails` cover failing before, half way and after
(a client timeout).  `DownMayFail` switches teardown failures other than a
missing compose file on or off.

**CreateSession.**  One action per call of `create`/`_do_create` that another
actor can come between; the thread of session `s` is `create[s]`.  `StepFails`,
`RenderFails` (the compose file is written, `mysqld.cnf` is not), `UpStepFails` and
`DownStepFails` leave any of them by an exception, through the
`with` block that closes the tunnel and the handler that cleans up.  The two
`set_general_log` calls, whose failures are swallowed, leave the log's state
open.

**Requests.**  Each request thread reads (`DeleteGet`, `WebhookGet`,
`ResetGet`), calls docker (`NukeDown`), writes (`NukeSet`, `ResetSet`).
`ResetGet` makes every check of `reset_ttl` and computes the deadline from the
snapshot; `ResetSet` writes it whatever the row is by then.

**Reaper.**  The two claims are separate transactions, the teardowns run in any
order, the marks come in the order of the futures (expired first).  A missing
compose file counts as a finished teardown.  `SweepAborts` is the exception that
`reap_loop` logs: the results not yet looked at are dropped, but the pool of
teardowns is not shut down, so they go on next to later requests and sweeps
(`loose`, `LooseTeardown`).

**Sandbox.**  Composes them.  `NewCreate` and `NewRequest` need the event loop
free and a free thread of the `PoolSize` ones creates and requests share
(`CanServe`); `Time` ticks at any moment; `Crash` drops threads and tunnels (the
unit's default kill mode takes the `ssh` and dump children along) and restarts
with an immediate sweep; `Reboot` does the same for the whole host, where the
containers do not come back (`restart: "no"`) and the volumes stay.
`EarlyDelete` and `SlowCreate` switch on deletes of a session whose create still
runs and creates that outlive their deadline.  `BlockOf(s)` is the abstract block
of session `s`: its phase told by the `pc` of its create (and, once that ended, by
whether the row got its credentials), `open` by the tunnels, `copied` by the data
in the volume.

**Observers.**  `view` and `ca_pem`, as the status code each would answer in a
given state.

**ClonePipe.**  `clone_db`: parent, dump and restore, the bounded pipe between
them and the dump's bounded stderr pipe that is read only after both exited.
The children are started in two steps; when the second `Popen` raises
(`SpawnFails`) the dump is `Abandoned`: nobody kills it or waits for it, but the pipes
the parent held are closed with the frame of `clone_db`, so that a write would end it.

**Tunnel.**  `open_tunnel`: the picked port, the `ssh` child, and `peer`, any other
process that may listen on that port (the `ssh` of another create, say).
`Accepted` needs only that *somebody* listens; `Polled` is the check of the
child that follows.  `Closed` is the end of `close`: SIGTERM, 3 s, SIGKILL (which
nobody waits for; it is taken to act at once).

**Transfer.**  The `with open_tunnel(...)` block of `_do_create`, around a loop of
clones.  `via` says to whom the running dump is connected, and whether that
connection was cut since.  `ImplementsBlock` refines **CloneBlock**: ssh comes up,
every database is copied, ssh is gone; or an exception, and ssh is gone.
`CreateSession` takes two steps for the block, `OpenTunnel` and `Clone`, and
`CreatesRunBlocks` says that a create of the process is the same `CloneBlock`
whatever requests, sweeps and crashes do to its session: so the detailed model and the
coarse one meet in one specification.  `Afterwards` is all that the block leaves to
the rest of the create: it may fail and throw the copy away, but opens no
tunnel.  (What a dump reads through a foreign listener is not modelled beyond that
it must end well: `mysqldump` has to log in there.)

**Auth.**  `_JWKSCache.get` under its lock (`Get`), and what a thread does with the
client afterwards.  A client is named by its `_fetched_at`, so old ones live
on beside the present one.  `keys` is what `cache_keys=True` remembers for
ever, `jwks` the key set with the lifespan given to it.  The answer of the issuer
(`Answer`) and its storing (`Store`) are two steps, so a late answer may
overwrite a newer one.  `seen` is a history variable: when a key was published
last.  `enforce_cf_access` without Access or in test mode admits without any of
this.

Operators preceded by a comment starting with `mutant:` are plausible bugs of
the definition that follows them; no specification uses them.  Each shows that
one property would notice.

## 3. The runs

Bounds common to the `Sandbox` runs: `StuckDeadline = 1`, `TtlDefault = 1`,
`TtlMax = 2`, `TtlResetAdd = 2`.  Only the order of instants matters to the
code, and these values make every order possible: a session can expire, be
extended (and capped), and a create can reach its deadline.  `Horizon` stops the
clock after every deadline has passed at least once; `LastStart` stops new
creates; ids are used once (`uuid4`), so the number of sessions is `Sids`.
Deadlock is checked in every run but is possible in none: the reaper can always
sweep.  One port with two sessions is the interesting case for ports, since
a second session only gets a port the first has given back.  `PoolSize` is 2 in
`Live`, where one create and one request fill the pool, and large enough not to
matter elsewhere.

| run | checks | instance | faults |
|---|---|---|---|
| `MCSessionStore` | `StoreTypeOK`, `PortsUnique`, `DeadlineBounded`, `ReleasedForGood`, `ImplementsPortLease` | 3 sessions, 2 ports | arbitrary callers |
| `Faults` | `TypeOK`, `NothingWithoutRow`, `TunnelClosedWhenPublic`, `AuditedWhenPublic`, `ExpiredTeardownStands`, `HandedOver`, `HandedOutIsViewable`, `StuckIsOverdue`, `ImplementsStore`, `Lifecycle`, `ExtendedOnce`, `CreatesRunBlocks` | 1 session, 2 request threads | all, 1 crash or reboot |
| `Calm` | `NukedIsGone`, `AllocatedPortIsFree`, `MissingComposeMeansNoContainer`, `ReadyIsServing`, `ImplementsPortLease` | 2 sessions, 2 request threads, 1 port | 1 crash or reboot, ups fail |
| `Live` | `EventuallyNuked`, `ServesAgain` | 1 session, 1 request thread, pool of 2 | all, 1 crash or reboot |
| `Clone` | `TransferTypeOK`, `CompleteOnReturn`, `NoChildLeft`, `LeavesComplete`, `NoSshLeft`, `TransferEnds`, `StrayEnds`, `ImplementsBlock` | 3 databases of 3 chunks, pipe of 2, stderr pipe of 1 | children and ssh fail or block at will, a second `Popen` raises, a peer takes and leaves the port |
| `Auth` | `AuthTypeOK`, `KeysAreFresh`, `UnknownOnlyIfRetired` | 2 keys, 2 threads, TTL of 1, clock to 2 | keys come and go, the issuer is unreachable |

"All" faults are `DownMayFail`, `EarlyDelete`, `SlowCreate`, `StoreMayFail`; that
`up` fails is not switched, it may in every run.  One session is enough for the
properties of `Faults`: each speaks of one session's row, container and files, and
sessions share only ports.  The four invariants of `Calm` do not survive every fault:
a failing `down` breaks `MissingComposeMeansNoContainer`, an early delete
`NukedIsGone`, and the runs `ComposeRemoved` and `DeletedWhileStarting` each switch one
of those on and show the behaviour; that is the point of having switches.  That
`claim_stuck` claims only orphans (`StuckIsOrphan`) does not survive a slow create, as
`StuckButAlive` shows; what does survive every fault is `StuckIsOverdue`, in `Faults`:
it never claims a running create before the deadline that create gave its row, though
it compares with the `now` its sweep began with and others write the row meanwhile.  `Calm` has all four
off, since its second session makes it large; the theorems of `Calm_proofs` exclude
for each invariant only the faults it does not survive.  In `Calm` the second session may start one
instant later than the first, so that it can get the port of a session that was
deleted, failed or expired.  `ReadyIsServing` makes one exception for a crash or
a reboot: a delete that is past its `down` and then dies leaves a `ready` row
without a container until it expires, and a reboot leaves every one so, though
with its data.  Together, `EventuallyNuked` and `NukedIsGone` say that every
container is removed in the end, as far as the latter holds.

In `Clone` the dump is longer than the pipe and its warnings than the stderr
pipe, so every way to block happens; three databases are a first, a middle and a
last one.  `StrayEnds` is about `NoChildLeft`'s exception: no wait, kill or timeout of
`clone_db` reaches an abandoned dump, and it may wait for its server for ever; what
ends it is that the exception leaves the `with` block, that the ssh child is gone
then, whatever it does on SIGTERM, and that the connection is cut with it.  Nothing of
the kind holds for a dump that never connected, or connected to a foreign listener.
In `Auth` the clock just passes the TTL, so that a client is
replaced while another thread still holds it; more time only repeats that (and
`Auth_proofs` needs no bound).

### Disagreements between the code and what is written about it

Each of these runs checks one property that a document, a docstring or a
comment of the repository states, and TLC finds a behaviour of the code that
violates it.  `PROJECT.json` quotes the lines.

| run | property | what the code does |
|---|---|---|
| `VolumeLeft` | `NukedHasNoVolume` | the reaper never passes `-v`: the clone of production stays on disk |
| `DeletedWhileStarting` | `NukedIsGone` | a delete during a create does not stop the create from starting the container |
| `StuckButAlive` | `StuckIsOrphan` | a create slower than 3600 s is torn down while it runs |
| `ComposeRemoved` | `MissingComposeMeansNoContainer` | a failed cleanup removes the compose file of a running container, and the reaper takes that for done |
| `ExtendIneligible` | `ExtendOnlyEligible` | a reset extends a session that was expired, deleted or extended since it was read; two resets at once are both granted |
| `CloneMisblames` | `RestoreIsBlamed` | a restore failure is reported as a dump failure |

Seen while modelling, without a run of their own:

* a delete whose `down` fails nukes the row all the same and nothing retries
  (`service.py:463`); `NukedIsGone` fails in `Calm` as soon as `DownMayFail` is
  on;
* a create that fails after its session was deleted turns `nuked` into `error`
  (`service.py:188`), after which the webhook answers `nuked` a second time,
  not `already_nuked` (README.md:201); `Successors("nuked")` records it;
* `clone_db` reads the dump's stderr only after both children have exited
  (`mysql_ops.py:208`), so a dump that fills it blocks all three until the
  7200 s timeout; `ClonePipe` has that behaviour and `TransferEnds` holds only
  because of the timeout;
* `GET /session/{id}` is a 500 for every row that never became ready
  (`service.py:415`): its `creds_enc` is a placeholder byte;
* nothing ever removes the TLS directory of a session that was handed out, neither a
  delete nor a sweep (`service.py:457`, `reaper.py:82`): `ca.pem` is still answered with
  200, not 410, for a session that was nuked, and the keys next to it stay on the host.
  Most documents say otherwise: README.md:297 keeps it "for the duration of the
  session", docs/SECURITY.md:59 says of `ca.key` "nuked when session expires", :134
  "dies with the session", :163 "container lifetime", and docs/USER_GUIDE.md:89 explains
  the 410 as "TLS material deleted"; docs/OPERATIONS.md:391 has it that the material of
  a nuked session "is kept around for forensics only".  No order of steps matters to
  this, so it is no run; `HandedOutIsViewable` claims a CA for `ready` and `expired`
  sessions only.  A 410 is what `ca.pem` answers before a create has made the files and
  after it has failed;
* with `TtlDefault = TtlMax` the one extension of a session can be spent without moving
  its deadline: `reset_ttl` asks whether *now* is at `max_extended_until`, not whether
  `expires_at` is, as docs/USER_GUIDE.md:245 says (`service.py:441`; no run configures
  the two to be equal);
* `GET /metrics` is a 500 as soon as a session is ready: the generator at
  `main.py:163` uses the local `now` that is assigned at line 167;
* after a reboot of the host every `ready` session is without a container until it
  expires (`docker-compose.yml.j2:6`), and nothing tells its user;
* `ssh_tunnel.py:21` calls the SSH process the source of truth, but a create goes
  on when another process has taken the port and ssh has not exited *yet*
  (`Accepted`, then `Polled`); a clone through it fails unless the listener
  lets the dump log in, and the block still ends as `CloneBlock` says;
* when the restore's `Popen` fails the dump is left running until its pipe breaks
  (`mysql_ops.py:198`);
* the category `grant` (USER_GUIDE.md's table, `main.py:191`) is never produced:
  `apply_grants` raises `MySQLOpsError`, which `_classify_failure` calls
  `restore`, as it does a `wait_ready` that gives up; a health timeout whose
  message holds `port=` (`docker_ops.py:184`) becomes `port` and a 503;
* README.md:313 speaks of a grace of 5 minutes for orphans; the placeholder row
  gives 3600 s (`service.py:149`).

### Fairness

`FairSpec` assumes weak fairness of every thread (the pool runs them; each call
they make has a timeout in the code), of the reaper (`reap_loop` never ends
while the process lives, and systemd restarts it) and of time.  It assumes
strong fairness of a *successful* teardown and of the sweep's transactions:
docker and SQLite may fail any number of times, but what is retried for ever
succeeds in the end; that is what the reaper's retry is written for and without it
nothing could be said.  Nothing is assumed of new requests, of failures or of
the crash.  `FairTransferSpec` assumes only that the API process goes on, i.e.
that its timeouts fire (10 s for the tunnel, 7200 s and 30 s for a clone, 3 s for
ssh), and that a dump ends once the kernel tells it so (`DumpNotices`): it reads from a
connection that was cut, without being blocked on a full pipe, or it writes to a pipe
nobody holds any more.  The children and ssh may otherwise hang for ever, an abandoned
dump that waits for a silent server included.

## 4. What is proved

All theorems hold for any finite or infinite set of sessions, any port range,
any TTLs, any number of request threads, any pool and any number of crashes and
reboots, and, but for those of `Calm_proofs` (which name the faults they exclude),
with all faults allowed.  They
rest only on the named assumptions beside the constants, which are the relations
`api/config.py` validates (`PortStart <= PortEnd`, `TtlDefault <= TtlMax`) and
types.

**The table** (`SessionStore_proofs`).  `StoreTypeCorrect`; `PortsNeverShared`
(inductive by itself given the types: a reservation takes a port outside
`UsedPorts`, every other transaction keeps the set of holders or shrinks it);
`NoComeback` (an action property: every transaction on a nuked or failed row
leaves it so; it is the `status = 'starting'` guard of `update_to_ready` and the
status list of `claim_expired` that make it true); `DeadlinesAreBounded`;
`StoreImplementsPortLease`.  `DeadlineBounded` is not inductive:
`update_to_ready` writes deadlines but keeps `ttl_extended`, so one needs that a
`starting` row was never extended, and for that that an extended row has real
credentials and a `ready` or `expired` one too.  `DeadlineInv` adds these three
facts.  For the refinement, each transaction is shown to acquire one lease,
release a set of them, or stutter.

**The process** (`Sandbox_proofs`), in three steps.

1. `UseInv`: the `t0` of a running create is the creation time of its row, and
   the deadline a reset is about to write is the row's capped extension.  It is
   preserved by every other actor because no transaction ever changes a row's
   creation time or takes its credentials away (`RowsKept`).  With it every step
   of the process is a step of `StoreSpec` (`ProcessImplementsStore`), and all
   theorems about the table carry over (`ProcessKeepsPortsUnique`,
   `ProcessImplementsPortLease`).
2. `ContainerInv`: which compose file a create has written in each phase, that
   nothing is public before the restart, that a tunnel is open only in the clone
   phase, that a session the sweep claimed as expired has no create any more
   (`JobInv`), and `HandedOver`.  The conjuncts need each other: the sweep may
   rely on a claimed session's create being over because a row that is `ready`
   was handed over; that holds because a create's last step is the one that
   makes the row `ready`; its compose file is the public one because of the
   phase.  All steps that are not a create's are treated once (`OtherStep`:
   they only stop containers); a create's steps touch only its own session
   (`CreateFrame`), where `CreateDocker`, `CreatePhase` and `CreateHandsOver`
   say what they do.  From it follow `NothingIsLost`, `TunnelsAreClosed`,
   `PublicIsAudited`, `TeardownsStand`, `SessionsAreHandedOver` and
   `TypeCorrect`.
3. `LivesAreOrdered`: every step moves every status along the life cycle.  The
   unguarded `set_status(error)` is harmless for a session in use exactly
   because of `HandedOver`.

**Consequences of `ProcessImplementsStore`.**  What is true of the table under
every caller that keeps its rules is true of the process: besides the ports, also
`ProcessReleasesForGood`, `ProcessBoundsDeadlines` and `DeadlinesMoveOnce`.  The last
one rests on `ExtendsOnce`, a lemma about one transaction: the unconditional
`update_ttl` of a reset can come after a sweep, a delete or another reset, but what it
writes is a function of the creation time and the default deadline, so that the
second of two resets at once writes what the first one wrote.

**Without some of the faults** (`Calm_proofs`).  `ContainerInv` ties a container to
its create; what ties it to its *row* depends on which faults are possible.  The
module is built in six layers, each of which excludes the faults it has to and
uses the layers before it; a theorem is `ASSUME ~Fault, ... PROVE Spec => []...`.

| layer | excludes | says | gives |
|---|---|---|---|
| `OverdueInv` | nothing | while a create runs its row is not in `error` and, if `starting`, shows the deadline it was inserted with; a sweep's `now` is never ahead of the clock; so what `claim_stuck` claimed is over or overdue | `OnlyOverdueAreStuck` |
| `TimelyInv` | `SlowCreate` | a running create is within its deadline (that is what the switch says) | |
| `FileInv` | `DownMayFail` | a container that runs can be torn down; none runs where its create has yet to write the file or is about to remove it | `NoContainerWithoutItsFile` |
| `AloneInv` | `SlowCreate`, `EarlyDelete` | while a create runs its row is `starting` and neither a sweep nor a delete works on its session | |
| `OwnedInv` | `SlowCreate`, `EarlyDelete`, `DownMayFail` | a running container belongs to a row that still holds the port it is bound to; wherever a row is about to give the port up (after the `down` of a cleanup, a delete or a sweep) it does not run any more | `NukedSessionsAreGone`, and with `PortsUnique` `AllocatedPortsAreFree` |
| `ServedInv` | `SlowCreate`, `EarlyDelete`, `StoreMayFail` | what the create has put into the container when it hands it out, and what may have happened to it since | `ReadySessionsServe` |

`Overdue` keeps every fault, a create that takes for ever included; only from
`AloneInv` on is it used together with `Timely`, to say that a claimed session has no
create.  `Timely` and `File` exclude one fault each and keep all others.  `Owned` does without
a store that works: a transaction that raises leaves the row holding its port.
`Served` does without a docker that works: a `down` that fails is one of a delete
under way.  It needs the store because a delete whose last write raises has taken
the container away and leaves the row `ready`.

The first section of the module says of each actor (a create, a request, the
reaper, the dispatcher, a restart, time) what one step of it does to one session,
so that each layer's step lemma looks at these facts and not at the actions.

**The block in the process** (`Blocks_proofs`).  `CreatePaths` sorts the steps of a
create into those towards the block, into it, out of it with the copy, on after
it, to the end, and out by an exception; `CreateRunsBlock` maps each to a step of
`CloneBlock`.  All other actors leave the create's phase alone and at most stop its
container (`BlockStandsStill`), and a crash ends a block as an exception does
(`CrashEndsBlock`).  `FilledInv` is what this needs beyond `ContainerInv`: before the
copy the volume is at most created, and before its last step a create's row has no
credentials.  `ProcessRunsBlocks` says it for all sessions,
`ProcessImplementsBlock` as a refinement for each.  With
`TransferImplementsBlock` it is what justifies modelling a create with the two
steps and the block on its own.

**The endpoints** (`Observers_proofs`).  `HandedOutSessionsAreViewable` is
`DeadlineInv`'s fact about credentials, carried over to the process by
`ProcessImplementsStore`, and `HandedOver`'s about the files.

**The clone** (`ClonePipe_proofs`).  `ClonesAreComplete` and `ChildrenAreReaped`,
from `PipeInv`: a dump exits well only when everything is written, a restore only
when the dump is over and all that was written is applied.

**The block** (`Transfer_proofs`).  `TransferInv` adds two parts to the clone's
invariant: `LoopInv` (the databases before the present one are complete; clones
run only while the block is open; it is left normally only after the last one)
and `SshInv` (the child lives from its start to the end of the block at most).
Every clone of the loop begins as `CloneInit` does, so the clone's invariant
carries over (`EveryCloneIsComplete`, `EveryCloneReaps`).
`TransfersAreComplete` and `TunnelsAreReaped` follow.  For
`TransferImplementsBlock` each step is mapped: ssh's coming and going to
`Flips`, a passed `poll` to `Enter`, the last chunk of the last missing database
to `Fill`, the end to `Leave` or `RaiseOut`, and all others to a stutter
(`BlockStep`).  `Fill` is where `RestoreInBlock` is needed: a restore runs only
while `clone_db` waits for it, so nothing is copied outside the open block.

**The gate** (`Auth_proofs`).  `AdmittedKeysAreFresh` rests on two facts: every
key a client knows was published at or after the client was made (`CacheInv`),
and a request takes a client made at most TTL before (`FreshRequest`); nothing
else, neither the thread's delay nor the order in which answers are stored,
matters.  `PublishedKeysAreFound`: a key published all the while is in the last
answer (`SteadyRequest`).  `AuthTypeCorrect` is a part of the same invariant.

### Only model-checked

Liveness (`EventuallyNuked`, `ServesAgain`, `TransferEnds`, `StrayEnds`): out of the
prover's reach.  Every invariant and every action property of the passing runs is
proved.  The properties of the violated runs are the ones that do not hold.

## 5. What is not modelled

* Request validation, key and certificate generation, rendering as text, the
  webhook's HMAC: pure computations of one call.  `/healthz` and `/readyz` only
  probe the host; `/metrics` reads the table once.
* The shell scripts, nginx and logrotate configuration under `scripts/` and
  `deploy/`, but for the unit file's restart.
* `dump_db`, `restore_db`, `update_port`, `delete` and the plain `create` of the
  store, which nothing in the service calls.
* A container that exists but does not run is not told from none.  Log
  directories are kept by design and left out.
* `wait_healthy` and `wait_ready` are one step each: their polls change nothing, and
  a poll that raises (`mysqladmin ping` hanging for 5 s) is one of the step's
  failures.
* The categories of a create's failure are modelled for `clone_db` only, where two
  processes report one failure; the others are a search for words in one message.
* SQLite itself: a transaction happens or is rolled back.

What could come next: a create's failure category as part of `CreateSession`, and
the orderly shutdown of the lifespan handler (a sweep that is running when the
store is closed), which today is taken for a crash.

## 6. Running it

    tlc -config Calm.cfg MCSandbox.tla        # any run: see PROJECT.json
    tlapm Sandbox_proofs.tla

The longest run (`Calm`) has two million states and takes one to two
minutes on two cores.
