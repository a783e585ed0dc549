------------------------------ MODULE Observers -----------------------------
(***************************************************************************)
(* The read-only endpoints over the sandbox's state: what each answers in  *)
(* a given state.  They change nothing, so they need no actions.           *)
(***************************************************************************)
EXTENDS Sandbox

\* GET /session/{id}: view decrypts creds_enc, and the one-byte placeholder of
\* a row that never became ready is no Fernet token (ValueError, uncaught).
View(s) ==
    IF ~Exists(s) THEN 404
    ELSE IF rows[s].realCreds THEN 200 ELSE 500

\* GET /session-tls/{id}/ca.pem
CaPem(s) ==
    IF ~Exists(s) THEN 404
    ELSE IF disk[s] \in {"tls", "loopback", "public"} THEN 200 ELSE 410

\* Whoever was handed a session can look it up and fetch its CA: no failure path
\* of its create runs after the row was handed out.  Rows in other statuses may
\* answer 500 or 410, and a nuked one, which keeps its files, may answer 200.
HandedOutIsViewable ==
    \A s \in Sids : rows[s].status \in {"ready", "expired"} => View(s) = 200 /\ CaPem(s) = 200
=============================================================================
