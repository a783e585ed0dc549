----------------------------- MODULE PortLease ------------------------------
(***************************************************************************)
(* What the session table promises about host ports, with the table, the   *)
(* clock and the statuses forgotten: a port is leased to at most one       *)
(* session, only a free port can be acquired, each session acquires a port *)
(* at most once in its life, and a released port is never taken back.      *)
(***************************************************************************)
CONSTANTS Sids, Ports

VARIABLES
    lease,  \* for each port the set of its holders: empty or one session
    spent   \* sessions that have had their one lease

leaseVars == <<lease, spent>>

LeaseInit == lease = [p \in Ports |-> {}] /\ spent = {}

\* POST /instance: a session that never had a port takes a free one.
Acquire(s, p) ==
    /\ s \notin spent
    /\ lease[p] = {}
    /\ lease' = [lease EXCEPT ![p] = {s}]
    /\ spent' = spent \cup {s}

\* The session on port p is nuked, or its create failed.
Release(p) ==
    /\ lease[p] # {}
    /\ lease' = [lease EXCEPT ![p] = {}]
    /\ UNCHANGED spent

LeaseNext == \E p \in Ports : Release(p) \/ \E s \in Sids : Acquire(s, p)

LeaseSpec == LeaseInit /\ [][LeaseNext]_leaseVars
=============================================================================
