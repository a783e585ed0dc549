---------------------------- MODULE SessionStore ----------------------------
(***************************************************************************)
(* The SQLite session table of api/state.py.  Every method of SessionStore *)
(* runs one BEGIN IMMEDIATE transaction under the store's lock (_tx), so a *)
(* method is one atomic step; what is NOT atomic is everything its callers *)
(* do between two methods, and that is where the properties below bite.    *)
(* Columns no property tells apart (ticket, paths, names, host) are left   *)
(* out; paths and names are functions of the session id.                   *)
(***************************************************************************)
EXTENDS Integers, FiniteSets

CONSTANTS
    Sids,           \* session ids; uuid4 makes every create use a new one
    PortStart,      \* SANDBOX_PORT_RANGE_START
    PortEnd,        \* SANDBOX_PORT_RANGE_END, inclusive
    StuckDeadline,  \* the 3600 s a create may take before it counts as stuck
    TtlDefault,     \* SANDBOX_TTL_DEFAULT_SECONDS
    TtlMax,         \* SANDBOX_TTL_MAX_SECONDS
    TtlResetAdd,    \* SANDBOX_TTL_RESET_ADD_SECONDS
    StoreMayFail,   \* may a transaction raise (locked database, full disk)?
    Horizon         \* bound: the clock stops here

\* api/config.py rejects PortEnd < PortStart and TtlMax < TtlDefault.
ASSUME PortsAssumption == /\ PortStart \in Nat \ {0}
                          /\ PortEnd \in Nat
                          /\ PortStart <= PortEnd
ASSUME TtlAssumption == /\ {StuckDeadline, TtlDefault, TtlMax, TtlResetAdd} \subseteq Nat
                        /\ TtlDefault <= TtlMax
ASSUME HorizonAssumption == Horizon \in Nat
ASSUME StoreMayFailAssumption == StoreMayFail \in BOOLEAN

VARIABLES
    now,    \* int(time.time()), one clock for the process
    rows    \* the table: a row for every id, NoRow before its INSERT

storeVars == <<now, rows>>

Ports == PortStart .. PortEnd

Statuses == {"starting", "ready", "expired", "nuked", "error"}

\* Statuses whose row keeps its host port reserved.
Holding == {"starting", "ready", "expired"}

NoRow == [status |-> "none", port |-> 0, created |-> 0, expires |-> 0,
          maxExt |-> 0, extended |-> FALSE, realCreds |-> FALSE]

Row == [status : Statuses, port : Ports, created : Nat, expires : Nat,
        maxExt : Nat, extended : BOOLEAN, realCreds : BOOLEAN]

Exists(s) == rows[s].status # "none"

Earlier(a, b) == IF a <= b THEN a ELSE b

-----------------------------------------------------------------------------
(* reserve_session *)

\* mutant: expired rows no longer counted as holding their port
UsedPortsIgnoringExpired ==
    {rows[s].port : s \in {r \in Sids : rows[r].status \in {"starting", "ready"}}}

UsedPorts == {rows[s].port : s \in {r \in Sids : rows[r].status \in Holding}}

FreePorts == Ports \ UsedPorts

\* allocate_port scans the range upwards and takes the first unused port.
LowestFree(p) == p \in FreePorts /\ \A q \in FreePorts : p <= q

\* mutant: the stuck-create deadline is the creation time itself
PlaceholderWithoutGrace(p, t) ==
    [status |-> "starting", port |-> p, created |-> t, expires |-> t,
     maxExt |-> t, extended |-> FALSE, realCreds |-> FALSE]

\* The row _factory builds; `t` was read from the clock before the transaction.
Placeholder(p, t) ==
    [status |-> "starting", port |-> p, created |-> t, expires |-> t + StuckDeadline,
     maxExt |-> t, extended |-> FALSE, realCreds |-> FALSE]

\* mutant: the scan also tries the port after the last one
ReservePastTheRange(s, t) ==
    /\ ~Exists(s)
    /\ \E p \in (PortStart .. PortEnd + 1) \ UsedPorts :
          (\A q \in FreePorts : p <= q) /\ rows' = [rows EXCEPT ![s] = Placeholder(p, t)]

ReserveSession(s, t) ==
    /\ ~Exists(s)
    /\ \E p \in FreePorts :
          LowestFree(p) /\ rows' = [rows EXCEPT ![s] = Placeholder(p, t)]

-----------------------------------------------------------------------------
(* The other transactions *)

Past(s, n) == rows[s].expires < n

\* mutant: a session whose teardown failed is not claimed again
ExpiredRowsOnce(n) == {s \in Sids : rows[s].status = "ready" /\ Past(s, n)}

\* mutant: starting rows expire like ready ones
ExpiredRowsStartingToo(n) ==
    {s \in Sids : rows[s].status \in {"starting", "ready", "expired"} /\ Past(s, n)}

\* The rows claim_expired(n) selects: failed teardowns are claimed again.
ExpiredRows(n) == {s \in Sids : rows[s].status \in {"ready", "expired"} /\ Past(s, n)}

\* mutant: the sweep takes every overdue row, whatever its status
ClaimExpiredAnyStatus(n) ==
    rows' = [s \in Sids |-> IF Exists(s) /\ Past(s, n)
                            THEN [rows[s] EXCEPT !.status = "expired"] ELSE rows[s]]

ClaimExpired(n) ==
    rows' = [s \in Sids |-> IF s \in ExpiredRows(n)
                            THEN [rows[s] EXCEPT !.status = "expired"] ELSE rows[s]]

\* claim_stuck(n) only reads: its rows keep their status until the teardown.
StuckRows(n) == {s \in Sids : rows[s].status \in {"starting", "error"} /\ Past(s, n)}

\* Unconditional, as in the code: no guard on the present status.
SetStatus(s, st) ==
    /\ Exists(s)
    /\ rows' = [rows EXCEPT ![s].status = st]

Readied(s, e, m) ==
    [rows[s] EXCEPT !.status = "ready", !.realCreds = TRUE, !.expires = e, !.maxExt = m]

\* mutant: the UPDATE loses its AND status = 'starting'
UpdateToReadyUnguarded(s, e, m) ==
    /\ Exists(s)
    /\ rows' = [rows EXCEPT ![s] = Readied(s, e, m)]

\* update_to_ready when its UPDATE matches a row; it matches none otherwise.
UpdateToReady(s, e, m) ==
    /\ rows[s].status = "starting"
    /\ rows' = [rows EXCEPT ![s] = Readied(s, e, m)]

\* mark_nuked leaves nuked and expired rows alone.
MarkNuked(s) ==
    /\ Exists(s)
    /\ rows' = IF rows[s].status \in {"nuked", "expired"}
               THEN rows ELSE [rows EXCEPT ![s].status = "nuked"]

\* Unconditional too: neither the status nor the present deadline is compared.
UpdateTtl(s, e) ==
    /\ Exists(s)
    /\ rows' = [rows EXCEPT ![s].expires = e, ![s].extended = TRUE]

\* _tx rolls back and lets the exception through.
TransactionRaises == StoreMayFail /\ UNCHANGED storeVars

Tick == now < Horizon /\ now' = now + 1

-----------------------------------------------------------------------------
(* The store under arbitrary callers.  What every caller in api/ respects:  *)
(* set_status is only ever given nuked or error, and update_ttl the capped  *)
(* deadline computed from a snapshot taken while the row was ready.         *)

\* mutant: reset_ttl forgets the cap of max_extended_until
UncappedDeadline(s) == rows[s].created + TtlDefault + TtlResetAdd

ExtendedDeadline(s) == rows[s].created + Earlier(TtlMax, TtlDefault + TtlResetAdd)

StoreInit == now = 0 /\ rows = [s \in Sids |-> NoRow]

Transaction(s) ==
    \/ \E t \in 0..now : ReserveSession(s, t)
    \/ \E st \in {"nuked", "error"} : SetStatus(s, st)
    \/ UpdateToReady(s, rows[s].created + TtlDefault, rows[s].created + TtlMax)
    \/ MarkNuked(s)
    \/ rows[s].realCreds /\ UpdateTtl(s, ExtendedDeadline(s))

StoreNext ==
    \/ Tick /\ UNCHANGED rows
    \/ (\E s \in Sids : Transaction(s)) /\ UNCHANGED now
    \/ (\E n \in 0..now : ClaimExpired(n)) /\ UNCHANGED now

StoreSpec == StoreInit /\ [][StoreNext]_storeVars

-----------------------------------------------------------------------------
(* Properties *)

\* Type invariant: every row is NoRow or a well-formed row of the table.
StoreTypeOK == now \in Nat /\ rows \in [Sids -> Row \cup {NoRow}]

\* Two sessions that are starting, ready or awaiting teardown never share a
\* host port, whatever the interleaving of creates, sweeps and deletes
\* (reserve_session's promise).
PortsUnique ==
    \A s, r \in Sids :
        rows[s].status \in Holding /\ rows[r].status \in Holding /\ rows[s].port = rows[r].port
            => s = r

\* Once a row is nuked or in error, no later transaction (a late create, an
\* overdue sweep, a TTL reset) makes it hold its port again: the port may have
\* been given to another session in between.
ReleasedForGood ==
    [][\A s \in Sids : rows[s].status \in {"nuked", "error"}
           => rows'[s].status \in {"nuked", "error"}]_storeVars

\* A session that became ready is never kept past created + TtlMax, and its
\* deadline is the default or, once extended, the capped extension, however
\* many resets raced.
DeadlineBounded ==
    \A s \in Sids : rows[s].realCreds =>
        /\ rows[s].maxExt = rows[s].created + TtlMax
        /\ rows[s].expires <= rows[s].maxExt
        /\ rows[s].expires = IF rows[s].extended THEN ExtendedDeadline(s)
                             ELSE rows[s].created + TtlDefault

-----------------------------------------------------------------------------
(* The store hands out port leases: see PortLease. *)

Holders(p) == {s \in Sids : rows[s].status \in Holding /\ rows[s].port = p}

LeaseOf == [p \in Ports |-> Holders(p)]

Spent == {s \in Sids : Exists(s)}

Lease == INSTANCE PortLease WITH lease <- LeaseOf, spent <- Spent

\* The table implements the port-lease service.
ImplementsPortLease == Lease!LeaseSpec
=============================================================================
