------------------------ MODULE SessionStore_proofs ------------------------
(***************************************************************************)
(* What holds of the session table for every set of sessions, port range   *)
(* and TTL configuration, whatever the interleaving of its transactions.   *)
(***************************************************************************)
EXTENDS SessionStore, TLAPS

USE DEF storeVars

-----------------------------------------------------------------------------
(* Type correctness *)

\* The empty table is well formed.
LEMMA TypeInit == StoreInit => StoreTypeOK
BY DEF StoreInit, StoreTypeOK

\* Each transaction on one row keeps the table well typed.
LEMMA TypeTransaction ==
    ASSUME StoreTypeOK, NEW s \in Sids, Transaction(s), UNCHANGED now
    PROVE  StoreTypeOK'
<1> USE PortsAssumption, TtlAssumption DEF StoreTypeOK, Exists
<1>1. CASE \E t \in 0..now : ReserveSession(s, t)
  <2>1. PICK t \in 0..now, p \in FreePorts : rows' = [rows EXCEPT ![s] = Placeholder(p, t)]
    BY <1>1 DEF ReserveSession
  <2>2. Placeholder(p, t) \in Row
    BY <2>1 DEF Placeholder, Row, Statuses, FreePorts, Ports
  <2> QED BY <2>1, <2>2
<1>2. CASE \E st \in {"nuked", "error"} : SetStatus(s, st)
  BY <1>2 DEF SetStatus, Row, NoRow, Statuses
<1>3. CASE UpdateToReady(s, rows[s].created + TtlDefault, rows[s].created + TtlMax)
  <2>1. rows[s] \in Row
    BY <1>3 DEF UpdateToReady, NoRow
  <2>2. Readied(s, rows[s].created + TtlDefault, rows[s].created + TtlMax) \in Row
    <3>1. \A e, m \in Nat : Readied(s, e, m) \in Row
      BY <2>1 DEF Readied, Row, Statuses
    <3>2. rows[s].created + TtlDefault \in Nat /\ rows[s].created + TtlMax \in Nat
      BY <2>1 DEF Row
    <3> QED BY <3>1, <3>2
  <2> QED BY <1>3, <2>2 DEF UpdateToReady
<1>4. CASE MarkNuked(s)
  BY <1>4 DEF MarkNuked, Row, NoRow, Statuses
<1>5. CASE rows[s].realCreds /\ UpdateTtl(s, ExtendedDeadline(s))
  <2>1. rows[s] \in Row
    BY <1>5 DEF UpdateTtl, NoRow
  <2>2. ExtendedDeadline(s) \in Nat
    BY <2>1 DEF ExtendedDeadline, Earlier, Row
  <2> QED BY <1>5, <2>1, <2>2 DEF UpdateTtl, Row
<1> QED BY <1>1, <1>2, <1>3, <1>4, <1>5 DEF Transaction

\* The sweep's claim only changes statuses.
LEMMA TypeClaim ==
    ASSUME StoreTypeOK, NEW n \in 0..now, ClaimExpired(n), UNCHANGED now
    PROVE  StoreTypeOK'
BY DEF StoreTypeOK, ClaimExpired, ExpiredRows, Row, NoRow, Statuses

\* Every transaction leaves a well-formed table.
LEMMA TypeNext == StoreTypeOK /\ [StoreNext]_storeVars => StoreTypeOK'
<1> SUFFICES ASSUME StoreTypeOK, [StoreNext]_storeVars
             PROVE  StoreTypeOK'
    OBVIOUS
<1>1. CASE Tick /\ UNCHANGED rows
  BY <1>1 DEF Tick, StoreTypeOK
<1>2. CASE (\E s \in Sids : Transaction(s)) /\ UNCHANGED now
  BY <1>2, TypeTransaction
<1>3. CASE (\E n \in 0..now : ClaimExpired(n)) /\ UNCHANGED now
  BY <1>3, TypeClaim
<1>4. CASE UNCHANGED storeVars
  BY <1>4 DEF StoreTypeOK
<1> QED BY <1>1, <1>2, <1>3, <1>4 DEF StoreNext

\* Every row is absent or well formed, after any sequence of transactions.
THEOREM StoreTypeCorrect == StoreSpec => []StoreTypeOK
BY TypeInit, TypeNext, PTL DEF StoreSpec

-----------------------------------------------------------------------------
(* Ports are never shared *)

\* A step that gives no row a port, and makes no idle row active, keeps the
\* ports of the active rows distinct.
LEMMA FewerHolders ==
    ASSUME PortsUnique,
           \A s \in Sids : rows'[s].status \in Holding =>
               rows[s].status \in Holding /\ rows'[s].port = rows[s].port
    PROVE  PortsUnique'
BY DEF PortsUnique

\* reserve_session takes a port no active row has.
LEMMA ReserveKeepsPortsUnique ==
    ASSUME StoreTypeOK, PortsUnique, NEW s \in Sids, NEW t \in Nat, ReserveSession(s, t)
    PROVE  PortsUnique'
<1>1. PICK p \in FreePorts : rows' = [rows EXCEPT ![s] = Placeholder(p, t)]
  BY DEF ReserveSession
<1>2. \A r \in Sids : rows[r].status \in Holding => rows[r].port # p
  BY <1>1 DEF FreePorts, UsedPorts
<1>3. rows'[s].port = p /\ \A r \in Sids \ {s} : rows'[r] = rows[r]
  BY <1>1 DEF StoreTypeOK, Placeholder
<1> QED BY <1>2, <1>3 DEF PortsUnique

\* Every transaction keeps the ports of active rows apart.
LEMMA PortsNext == StoreTypeOK /\ PortsUnique /\ [StoreNext]_storeVars => PortsUnique'
<1> SUFFICES ASSUME StoreTypeOK, PortsUnique, [StoreNext]_storeVars
             PROVE  PortsUnique'
    OBVIOUS
<1> USE DEF StoreTypeOK
<1>1. CASE UNCHANGED rows
  BY <1>1 DEF PortsUnique
<1>2. ASSUME NEW s \in Sids, Transaction(s)
      PROVE  PortsUnique'
  <2>1. CASE \E t \in 0..now : ReserveSession(s, t)
    BY <2>1, ReserveKeepsPortsUnique
  <2>2. CASE \E st \in {"nuked", "error"} : SetStatus(s, st)
    BY <2>2, FewerHolders DEF SetStatus, Holding
  <2>3. CASE UpdateToReady(s, rows[s].created + TtlDefault, rows[s].created + TtlMax)
    BY <2>3, FewerHolders DEF UpdateToReady, Readied, Holding, Row, NoRow
  <2>4. CASE MarkNuked(s)
    BY <2>4, FewerHolders DEF MarkNuked, Holding
  <2>5. CASE rows[s].realCreds /\ UpdateTtl(s, ExtendedDeadline(s))
    BY <2>5, FewerHolders DEF UpdateTtl, Row, NoRow
  <2> QED BY <1>2, <2>1, <2>2, <2>3, <2>4, <2>5 DEF Transaction
<1>3. ASSUME NEW n \in 0..now, ClaimExpired(n)
      PROVE  PortsUnique'
  BY <1>3, FewerHolders DEF ClaimExpired, ExpiredRows, Holding, Row, NoRow
<1> QED BY <1>1, <1>2, <1>3 DEF StoreNext

\* Two active sessions never have the same host port: reserve_session's scan
\* and insert, in one transaction, against every other method of the store.
THEOREM PortsNeverShared == StoreSpec => []PortsUnique
<1>1. StoreInit => PortsUnique
  BY DEF StoreInit, PortsUnique, NoRow, Holding
<1> QED BY <1>1, PortsNext, StoreTypeCorrect, PTL DEF StoreSpec
-----------------------------------------------------------------------------
(* A nuked or failed session never holds a port again *)

\* No transaction takes a row out of nuked or error to an active status.
LEMMA ReleasedNext ==
    ASSUME StoreTypeOK, [StoreNext]_storeVars, NEW s \in Sids,
           rows[s].status \in {"nuked", "error"}
    PROVE  rows'[s].status \in {"nuked", "error"}
<1> USE DEF StoreTypeOK, Exists
<1>1. CASE UNCHANGED rows
  BY <1>1
<1>2. ASSUME NEW r \in Sids, Transaction(r)
      PROVE  rows'[s].status \in {"nuked", "error"}
  <2>1. CASE \E t \in 0..now : ReserveSession(r, t)
    BY <2>1 DEF ReserveSession
  <2>2. CASE \E st \in {"nuked", "error"} : SetStatus(r, st)
    BY <2>2 DEF SetStatus
  <2>3. CASE UpdateToReady(r, rows[r].created + TtlDefault, rows[r].created + TtlMax)
    BY <2>3 DEF UpdateToReady
  <2>4. CASE MarkNuked(r)
    BY <2>4 DEF MarkNuked
  <2>5. CASE rows[r].realCreds /\ UpdateTtl(r, ExtendedDeadline(r))
    BY <2>5 DEF UpdateTtl, Row
  <2> QED BY <1>2, <2>1, <2>2, <2>3, <2>4, <2>5 DEF Transaction
<1>3. ASSUME NEW n \in 0..now, ClaimExpired(n)
      PROVE  rows'[s].status \in {"nuked", "error"}
  BY <1>3 DEF ClaimExpired, ExpiredRows
<1> QED BY <1>1, <1>2, <1>3 DEF StoreNext

\* After nuke, mark_nuked or a failed create has released a row's port, no late
\* update_to_ready, claim_expired or update_ttl takes it back.
THEOREM NoComeback == StoreSpec => ReleasedForGood
<1>1. StoreTypeOK /\ [StoreNext]_storeVars =>
          [\A s \in Sids : rows[s].status \in {"nuked", "error"}
              => rows'[s].status \in {"nuked", "error"}]_storeVars
  BY ReleasedNext
<1> QED BY <1>1, StoreTypeCorrect, PTL DEF StoreSpec, ReleasedForGood

-----------------------------------------------------------------------------
(* Deadlines *)

\* DeadlineBounded is not inductive: update_to_ready keeps ttl_extended, so a
\* starting row must be known not to be extended yet.
DeadlineInv ==
    /\ DeadlineBounded
    /\ \A s \in Sids :
          /\ ~rows[s].realCreds => ~rows[s].extended
          /\ rows[s].status = "starting" => ~rows[s].realCreds
          /\ rows[s].status \in {"ready", "expired"} => rows[s].realCreds

\* Every transaction keeps the deadlines where their bounds say.
LEMMA DeadlineNext == StoreTypeOK /\ DeadlineInv /\ [StoreNext]_storeVars => DeadlineInv'
<1> SUFFICES ASSUME StoreTypeOK, DeadlineInv, [StoreNext]_storeVars
             PROVE  DeadlineInv'
    OBVIOUS
<1> USE TtlAssumption DEF StoreTypeOK, DeadlineInv, DeadlineBounded, ExtendedDeadline, Earlier
<1>1. CASE UNCHANGED rows
  BY <1>1
<1>2. ASSUME NEW s \in Sids, Transaction(s)
      PROVE  DeadlineInv'
  <2>1. CASE \E t \in 0..now : ReserveSession(s, t)
    BY <2>1 DEF ReserveSession, Placeholder
  <2>2. CASE \E st \in {"nuked", "error"} : SetStatus(s, st)
    BY <2>2 DEF SetStatus, Row, NoRow
  <2>3. CASE UpdateToReady(s, rows[s].created + TtlDefault, rows[s].created + TtlMax)
    BY <2>3 DEF UpdateToReady, Readied, Row, NoRow
  <2>4. CASE MarkNuked(s)
    BY <2>4 DEF MarkNuked, Row, NoRow
  <2>5. CASE rows[s].realCreds /\ UpdateTtl(s, ExtendedDeadline(s))
    BY <2>5 DEF UpdateTtl, Row, NoRow
  <2> QED BY <1>2, <2>1, <2>2, <2>3, <2>4, <2>5 DEF Transaction
<1>3. ASSUME NEW n \in 0..now, ClaimExpired(n)
      PROVE  DeadlineInv'
  BY <1>3 DEF ClaimExpired, ExpiredRows, Row, NoRow
<1> QED BY <1>1, <1>2, <1>3 DEF StoreNext

\* No sequence of resets keeps a session past created + TtlMax, and however
\* many resets raced the deadline moved by one capped extension.
THEOREM DeadlinesAreBounded == StoreSpec => []DeadlineBounded
<1>1. StoreInit => DeadlineInv
  BY DEF StoreInit, DeadlineInv, DeadlineBounded, NoRow
<1>2. DeadlineInv => DeadlineBounded
  BY DEF DeadlineInv
<1> QED BY <1>1, <1>2, DeadlineNext, StoreTypeCorrect, PTL DEF StoreSpec

\* What a transaction may do to the deadline of a session with credentials.
ExtendStep(s) ==
    /\ rows[s].extended => rows'[s].extended
    /\ \/ rows'[s].expires = rows[s].expires
       \/ /\ ~rows[s].extended /\ rows'[s].extended
          /\ rows'[s].expires > rows[s].expires

\* update_ttl writes the same deadline however often it is called, and
\* update_to_ready finds no row to write a second time.
LEMMA ExtendsOnce ==
    ASSUME StoreTypeOK, DeadlineInv, [StoreNext]_storeVars, NEW s \in Sids, rows[s].realCreds
    PROVE  ExtendStep(s)
<1> USE DEF StoreTypeOK, ExtendStep
<1>1. CASE UNCHANGED rows
  BY <1>1
<1>2. ASSUME NEW r \in Sids, Transaction(r)
      PROVE  ExtendStep(s)
  <2>1. CASE \E t \in 0..now : ReserveSession(r, t)
    <3>1. Exists(s)
      BY DEF Exists, Row, Statuses, NoRow
    <3> QED BY <2>1, <3>1 DEF ReserveSession
  <2>2. CASE \E st \in {"nuked", "error"} : SetStatus(r, st)
    BY <2>2 DEF SetStatus, Row, NoRow
  <2>3. CASE UpdateToReady(r, rows[r].created + TtlDefault, rows[r].created + TtlMax)
    BY <2>3 DEF UpdateToReady, DeadlineInv
  <2>4. CASE MarkNuked(r)
    BY <2>4 DEF MarkNuked, Row, NoRow
  <2>5. CASE rows[r].realCreds /\ UpdateTtl(r, ExtendedDeadline(r))
    <3>1. CASE r = s
      <4>1. rows[s] \in Row /\ ExtendedDeadline(s) >= rows[s].expires
        BY TtlAssumption DEF DeadlineInv, DeadlineBounded, ExtendedDeadline, Earlier, Row, NoRow
      <4>2. /\ rows'[s].expires = ExtendedDeadline(s) /\ rows'[s].extended
            /\ rows[s].extended => rows[s].expires = ExtendedDeadline(s)
        BY <2>5, <3>1, <4>1 DEF UpdateTtl, Row, DeadlineInv, DeadlineBounded
      <4>3. rows[s].expires \in Int /\ ExtendedDeadline(s) \in Int
        BY <4>1, TtlAssumption DEF Row, ExtendedDeadline, Earlier
      <4> QED BY <4>1, <4>2, <4>3
    <3>2. CASE r # s
      BY <2>5, <3>2 DEF UpdateTtl
    <3> QED BY <3>1, <3>2
  <2> QED BY <1>2, <2>1, <2>2, <2>3, <2>4, <2>5 DEF Transaction
<1>3. ASSUME NEW n \in 0..now, ClaimExpired(n)
      PROVE  ExtendStep(s)
  BY <1>3 DEF ClaimExpired, Row, NoRow
<1> QED BY <1>1, <1>2, <1>3 DEF StoreNext

-----------------------------------------------------------------------------
(* What no transaction undoes *)

\* Rows are never deleted, and keep their port, their creation time and, once
\* written, their credentials.
RowKept(s) ==
    Exists(s) => /\ Exists(s)'
                 /\ rows'[s].port = rows[s].port
                 /\ rows'[s].created = rows[s].created
                 /\ rows[s].realCreds => rows'[s].realCreds

\* No transaction removes a row, changes its creation time or takes its
\* credentials away.
LEMMA RowsKept ==
    ASSUME StoreTypeOK, [StoreNext]_storeVars, NEW s \in Sids
    PROVE  RowKept(s)
<1> USE DEF StoreTypeOK, Exists, RowKept
<1>1. CASE UNCHANGED rows
  BY <1>1
<1>2. ASSUME NEW r \in Sids, Transaction(r)
      PROVE  RowKept(s)
  <2>1. CASE \E t \in 0..now : ReserveSession(r, t)
    BY <2>1 DEF ReserveSession
  <2>2. CASE \E st \in {"nuked", "error"} : SetStatus(r, st)
    BY <2>2 DEF SetStatus, Row, NoRow
  <2>3. CASE UpdateToReady(r, rows[r].created + TtlDefault, rows[r].created + TtlMax)
    BY <2>3 DEF UpdateToReady, Readied, Row, NoRow
  <2>4. CASE MarkNuked(r)
    BY <2>4 DEF MarkNuked, Row, NoRow
  <2>5. CASE rows[r].realCreds /\ UpdateTtl(r, ExtendedDeadline(r))
    BY <2>5 DEF UpdateTtl, Row, NoRow
  <2> QED BY <1>2, <2>1, <2>2, <2>3, <2>4, <2>5 DEF Transaction
<1>3. ASSUME NEW n \in 0..now, ClaimExpired(n)
      PROVE  RowKept(s)
  BY <1>3 DEF ClaimExpired, ExpiredRows, Row, NoRow
<1> QED BY <1>1, <1>2, <1>3 DEF StoreNext

-----------------------------------------------------------------------------
(* The table implements PortLease *)

\* A step that changes no row's port, activity or existence is a stutter.
LEMMA SameLease ==
    ASSUME \A s \in Sids :
               /\ rows'[s].status \in Holding <=> rows[s].status \in Holding
               /\ rows'[s].port = rows[s].port
               /\ Exists(s)' <=> Exists(s)
    PROVE  UNCHANGED <<LeaseOf, Spent>>
<1>1. ASSUME NEW p \in Ports PROVE Holders(p)' = Holders(p)
  <2>1. \A s \in Sids : s \in Holders(p)' <=> s \in Holders(p)
    BY DEF Holders
  <2>2. Holders(p) \subseteq Sids /\ Holders(p)' \subseteq Sids
    BY DEF Holders
  <2> QED BY <2>1, <2>2
<1>2. LeaseOf' = LeaseOf
  BY <1>1 DEF LeaseOf
<1>3. Spent' = Spent
  BY DEF Spent, Exists
<1> QED BY <1>2, <1>3

\* reserve_session is Acquire of the port it picked.
LEMMA ReserveAcquires ==
    ASSUME StoreTypeOK, NEW s \in Sids, NEW t \in Nat, ReserveSession(s, t)
    PROVE  \E p \in Ports : Lease!Acquire(s, p)
<1>1. PICK p \in FreePorts : rows' = [rows EXCEPT ![s] = Placeholder(p, t)]
  BY DEF ReserveSession
<1>2. p \in Ports /\ Holders(p) = {}
  BY <1>1 DEF FreePorts, UsedPorts, Holders
<1>3. /\ rows'[s].status = "starting" /\ rows'[s].port = p
      /\ rows[s].status = "none"
      /\ \A r \in Sids \ {s} : rows'[r] = rows[r]
  BY <1>1 DEF StoreTypeOK, Placeholder, ReserveSession, Exists
<1>4. Holders(p)' = {s}
  BY <1>2, <1>3 DEF Holders, Holding
<1>5. \A q \in Ports \ {p} : Holders(q)' = Holders(q)
  BY <1>3 DEF Holders, Holding
<1>6. LeaseOf' = [LeaseOf EXCEPT ![p] = {s}]
  BY <1>2, <1>4, <1>5 DEF LeaseOf
<1>7. s \notin Spent /\ Spent' = Spent \cup {s}
  BY <1>3 DEF Spent, Exists
<1>8. LeaseOf[p] = {}
  BY <1>2 DEF LeaseOf
<1> QED BY <1>2, <1>6, <1>7, <1>8 DEF Lease!Acquire

\* Nuking or failing an active row is Release of its port; of another row, a
\* stutter.
LEMMA RetireReleases ==
    ASSUME StoreTypeOK, PortsUnique, NEW s \in Sids, NEW st \in {"nuked", "error"},
           Exists(s), rows' = [rows EXCEPT ![s].status = st]
    PROVE  (\E p \in Ports : Lease!Release(p)) \/ UNCHANGED <<LeaseOf, Spent>>
<1>1. /\ rows'[s].status = st /\ rows'[s].port = rows[s].port
      /\ \A r \in Sids \ {s} : rows'[r] = rows[r]
      /\ rows[s] \in Row
  BY DEF StoreTypeOK, Exists, Row, NoRow
<1>2. CASE rows[s].status \notin Holding
  BY <1>1, <1>2, SameLease DEF Holding, Exists
<1>3. CASE rows[s].status \in Holding
  <2> PICK p \in Ports : p = rows[s].port
    BY <1>1 DEF Row
  <2>1. Holders(p) = {s}
    BY <1>1, <1>3 DEF PortsUnique, Holders, Row
  <2>2. Holders(p)' = {}
    BY <1>1, <2>1 DEF Holders, Holding
  <2>3. \A q \in Ports \ {p} : Holders(q)' = Holders(q)
    BY <1>1 DEF Holders, Holding
  <2>4. LeaseOf' = [LeaseOf EXCEPT ![p] = {}]
    BY <2>1, <2>2, <2>3 DEF LeaseOf
  <2>5. LeaseOf[p] # {}
    BY <2>1 DEF LeaseOf
  <2>6. Spent' = Spent
    BY <1>1 DEF Spent, Exists
  <2> QED BY <2>1, <2>4, <2>5, <2>6 DEF Lease!Release
<1> QED BY <1>2, <1>3

\* Every transaction acquires one lease, releases some, or leaves them alone.
LEMMA LeaseStep ==
    StoreTypeOK /\ PortsUnique /\ [StoreNext]_storeVars
        => [Lease!LeaseNext]_<<LeaseOf, Spent>>
<1> SUFFICES ASSUME StoreTypeOK, PortsUnique, [StoreNext]_storeVars
             PROVE  [Lease!LeaseNext]_<<LeaseOf, Spent>>
    OBVIOUS
<1> USE DEF StoreTypeOK
<1>1. CASE UNCHANGED rows
  BY <1>1, SameLease DEF Exists
<1>2. ASSUME NEW s \in Sids, Transaction(s)
      PROVE  [Lease!LeaseNext]_<<LeaseOf, Spent>>
  <2>1. CASE \E t \in 0..now : ReserveSession(s, t)
    BY <2>1, ReserveAcquires DEF Lease!LeaseNext
  <2>2. CASE \E st \in {"nuked", "error"} : SetStatus(s, st)
    BY <2>2, RetireReleases DEF SetStatus, Lease!LeaseNext
  <2>3. CASE UpdateToReady(s, rows[s].created + TtlDefault, rows[s].created + TtlMax)
    BY <2>3, SameLease DEF UpdateToReady, Readied, Holding, Exists, Row, NoRow
  <2>4. CASE MarkNuked(s)
    <3>1. CASE rows[s].status \in {"nuked", "expired"}
      BY <2>4, <3>1, SameLease DEF MarkNuked, Exists
    <3>2. CASE rows[s].status \notin {"nuked", "expired"}
      BY <2>4, <3>2, RetireReleases DEF MarkNuked, Lease!LeaseNext
    <3> QED BY <3>1, <3>2
  <2>5. CASE rows[s].realCreds /\ UpdateTtl(s, ExtendedDeadline(s))
    BY <2>5, SameLease DEF UpdateTtl, Exists, Row, NoRow
  <2> QED BY <1>2, <2>1, <2>2, <2>3, <2>4, <2>5 DEF Transaction
<1>3. ASSUME NEW n \in 0..now, ClaimExpired(n)
      PROVE  [Lease!LeaseNext]_<<LeaseOf, Spent>>
  BY <1>3, SameLease DEF ClaimExpired, ExpiredRows, Holding, Exists, Row, NoRow
<1> QED BY <1>1, <1>2, <1>3 DEF StoreNext

\* The session table implements the port-lease service: one holder per port,
\* one lease per session, no lease taken back.
THEOREM StoreImplementsPortLease == StoreSpec => ImplementsPortLease
<1>1. StoreInit => Lease!LeaseInit
  BY DEF StoreInit, Lease!LeaseInit, LeaseOf, Spent, Holders, Exists, NoRow, Holding
<1> QED
  BY <1>1, LeaseStep, StoreTypeCorrect, PortsNeverShared, PTL
  DEF StoreSpec, ImplementsPortLease, Lease!LeaseSpec, Lease!leaseVars
=============================================================================
