--------------------------- MODULE Observers_proofs ---------------------------
(***************************************************************************)
(* What the read-only endpoints answer, for every number of sessions,      *)
(* ports, threads and crashes, with every fault the model has allowed.     *)
(***************************************************************************)
EXTENDS Observers, Sandbox_proofs

\* Whoever was handed a session can look it up and fetch its CA: its row has
\* its credentials, and its files are left to the sweep that tears it down.
THEOREM HandedOutSessionsAreViewable == Spec => []HandedOutIsViewable
<1>1. UseInv => \A s \in Sids : rows[s].status \in {"ready", "expired"} => View(s) = 200
  BY DEF UseInv, DeadlineInv, View, Exists
<1>2. ContainerInv => \A s \in Sids : rows[s].status \in {"ready", "expired"} => CaPem(s) = 200
  BY DEF ContainerInv, HandedOver, HasCompose, CaPem, Exists
<1>3. UseInv /\ ContainerInv => HandedOutIsViewable
  BY <1>1, <1>2 DEF HandedOutIsViewable
<1> QED BY <1>3, UseInvariant, ContainerInvariant, PTL
=============================================================================
