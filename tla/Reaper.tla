------------------------------- MODULE Reaper -------------------------------
(***************************************************************************)
(* reap_loop and reap_once of api/reaper.py.  reap_loop calls reap_once    *)
(* synchronously in the event loop, so while a sweep runs no request is    *)
(* dispatched (LoopFree), but pool threads already running go on.          *)
(***************************************************************************)
EXTENDS Docker

VARIABLES
    rpc,    \* sleep between sweeps, stuck between the two claims, work after
    rnow,   \* the `now` of this sweep, while a claim still needs it
    job,    \* for each session: none, claimed as expired or stuck, torn down
    loose   \* sessions whose teardown goes on although its sweep has ended

reaperVars == <<rpc, rnow, job, loose>>

Jobs == {"none", "expired", "stuck", "expiredDone", "stuckDone"}

ReaperTypeOK == /\ rpc \in {"sleep", "stuck", "work"} /\ rnow \in Nat
                /\ job \in [Sids -> Jobs] /\ loose \subseteq Sids

NoJobs == [s \in Sids |-> "none"]

ReaperInit == rpc = "sleep" /\ rnow = 0 /\ job = NoJobs /\ loose = {}

LoopFree == rpc = "sleep"

SweepExpired ==
    /\ rpc = "sleep"
    /\ ClaimExpired(now)
    /\ job' = [s \in Sids |-> IF s \in ExpiredRows(now) THEN "expired" ELSE "none"]
    /\ rpc' = "stuck"
    /\ rnow' = now
    /\ UNCHANGED <<now, dockerVars, loose>>

SweepStuck ==
    /\ rpc = "stuck"
    /\ job' = [s \in Sids |-> IF s \in StuckRows(rnow) THEN "stuck" ELSE job[s]]
    /\ rpc' = "work"
    /\ rnow' = 0
    /\ UNCHANGED <<storeVars, dockerVars, loose>>

Done(s) == IF job[s] = "expired" THEN "expiredDone" ELSE "stuckDone"

\* _teardown returns True: nothing to do without a compose file, and otherwise
\* `down` without -v.  The pool tears sessions down in any order.
TeardownDone(s) ==
    /\ rpc = "work"
    /\ job[s] \in {"expired", "stuck"}
    /\ job' = [job EXCEPT ![s] = Done(s)]
    /\ \/ ~HasCompose(s) /\ UNCHANGED docker
       \/ Down(s, FALSE)
    /\ UNCHANGED <<storeVars, disk, rpc, rnow, loose>>

\* _teardown returns False: the session is left for a later sweep.
TeardownFails(s) ==
    /\ rpc = "work"
    /\ job[s] \in {"expired", "stuck"}
    /\ HasCompose(s)
    /\ DownFails(s)
    /\ job' = [job EXCEPT ![s] = "none"]
    /\ UNCHANGED <<storeVars, disk, rpc, rnow, loose>>

\* mutant: the sweep waits for a row that a DELETE has already nuked
MarkExpiredIfStillExpired(s) ==
    /\ job[s] = "expiredDone"
    /\ rows[s].status = "expired"
    /\ SetStatus(s, "nuked")
    /\ job' = [job EXCEPT ![s] = "none"]
    /\ UNCHANGED <<now, dockerVars, rpc, rnow, loose>>

MarkExpired(s) ==
    /\ job[s] = "expiredDone"
    /\ SetStatus(s, "nuked")
    /\ job' = [job EXCEPT ![s] = "none"]
    /\ UNCHANGED <<now, dockerVars, rpc, rnow, loose>>

\* The futures are awaited in order, the expired sessions first.
StuckTurn(s) == job[s] = "stuckDone" /\ \A r \in Sids : job[r] \notin {"expired", "expiredDone"}

MarkStuck(s) ==
    /\ StuckTurn(s)
    /\ MarkNuked(s)
    /\ job' = [job EXCEPT ![s] = "none"]
    /\ UNCHANGED <<now, dockerVars, rpc, rnow, loose>>

EndSweep ==
    /\ rpc = "work"
    /\ job = NoJobs
    /\ rpc' = "sleep"
    /\ UNCHANGED <<storeVars, dockerVars, rnow, job, loose>>

\* A transaction raises; reap_loop logs it and sleeps.  The other results are
\* dropped, but nobody stops the pool: what was submitted to it goes on.
SweepAborts ==
    /\ TransactionRaises
    /\ \/ rpc = "stuck" /\ UNCHANGED loose
       \/ /\ \E s \in Sids : job[s] = "expiredDone" \/ StuckTurn(s)
          /\ loose' = loose \cup {s \in Sids : job[s] \in {"expired", "stuck"}}
    /\ rpc' = "sleep" /\ rnow' = 0 /\ job' = NoJobs
    /\ UNCHANGED dockerVars

\* _teardown in a pool whose sweep was aborted: nobody asks for the result.
LooseTeardown(s) ==
    /\ s \in loose
    /\ loose' = loose \ {s}
    /\ \/ ~HasCompose(s) /\ UNCHANGED docker
       \/ Down(s, FALSE) \/ DownFails(s)
    /\ UNCHANGED <<storeVars, disk, rpc, rnow, job>>

\* A sweep that no transaction interrupts,
SweepStep ==
    \/ SweepExpired \/ SweepStuck \/ EndSweep
    \/ \E s \in Sids : TeardownDone(s) \/ TeardownFails(s) \/ MarkExpired(s) \/ MarkStuck(s)

\* and everything the reaper may do.
ReaperStep == SweepStep \/ SweepAborts \/ \E s \in Sids : LooseTeardown(s)
=============================================================================
