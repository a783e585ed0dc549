----------------------------- MODULE CloneBlock -----------------------------
(***************************************************************************)
(* What SandboxService._do_create relies on when it copies the databases   *)
(* inside `with open_tunnel(...)`, and what CreateSession takes for two    *)
(* steps, OpenTunnel and Clone: the block ends with every database copied, *)
(* or with an exception, and either way with the tunnel closed.            *)
(***************************************************************************)

VARIABLES
    phase,      \* tunnel and clone inside the block, grant or cleanup after it
    open,       \* the tunnel's ssh child lives
    copied      \* every database was copied completely

blockVars == <<phase, open, copied>>

BlockInit == phase = "tunnel" /\ ~open /\ ~copied

\* The ssh child comes up, or dies at any time.
Flips == phase \in {"tunnel", "clone"} /\ open' = ~open /\ UNCHANGED <<phase, copied>>

\* The poll before the first clone: a child that is gone by then is an exception.
Enter == phase = "tunnel" /\ phase' = "clone" /\ open' = TRUE /\ UNCHANGED copied

Fill == phase = "clone" /\ copied' = TRUE /\ UNCHANGED <<phase, open>>

Leave == phase = "clone" /\ phase' = "grant" /\ copied' = TRUE /\ open' = FALSE

RaiseOut == phase \in {"tunnel", "clone"} /\ phase' = "cleanup" /\ open' = FALSE /\ UNCHANGED copied

\* What follows may fail too and throw the copy away, but opens no tunnel.
Afterwards ==
    /\ phase \in {"grant", "cleanup"} /\ phase' \in {phase, "cleanup"}
    /\ copied' \in BOOLEAN /\ UNCHANGED open

BlockNext == Flips \/ Enter \/ Fill \/ Leave \/ RaiseOut \/ Afterwards

BlockStep == [BlockNext]_blockVars

BlockSpec == BlockInit /\ [][BlockNext]_blockVars
=============================================================================
