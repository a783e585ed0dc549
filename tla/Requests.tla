------------------------------ MODULE Requests ------------------------------
(***************************************************************************)
(* The requests on an existing session: DELETE /session/{id} (nuke),       *)
(* POST /webhook/ticket-closed (nuke_by_ticket) and                        *)
(* POST /session/{id}/reset-ttl (reset_ttl).  Each runs in a pool thread   *)
(* and reads the row, works on that snapshot, then writes unconditionally. *)
(***************************************************************************)
EXTENDS Docker

CONSTANT Threads    \* pool threads serving these requests

VARIABLE req        \* what each thread does: pc, session, snapshot's deadline

requestVars == <<req>>

Kinds == {"delete", "webhook", "reset"}

NoRequest == [pc |-> "idle", sid |-> "none", until |-> 0]

RequestsTypeOK ==
    req \in [Threads -> [pc : Kinds \cup {"idle", "down", "setNuked", "extend"},
                         sid : Sids \cup {"none"}, until : Nat]]

RequestsInit == req = [t \in Threads |-> NoRequest]

ReqAt(t, step) == req[t].pc = step

Answer(t) == req' = [req EXCEPT ![t] = NoRequest]

Proceed(t, step) == req' = [req EXCEPT ![t].pc = step]

\* A request for an unknown id is answered 404 and changes nothing.
Dispatch(t, s, kind) ==
    /\ ReqAt(t, "idle")
    /\ Exists(s)
    /\ req' = [req EXCEPT ![t] = [pc |-> kind, sid |-> s, until |-> 0]]
    /\ UNCHANGED <<storeVars, dockerVars>>

-----------------------------------------------------------------------------
(* nuke and nuke_by_ticket *)

\* mutant: DELETE only marks the row
DeleteGetSkippingDown(t) ==
    /\ ReqAt(t, "delete")
    /\ Proceed(t, "setNuked")
    /\ UNCHANGED <<storeVars, dockerVars>>

DeleteGet(t) ==
    /\ ReqAt(t, "delete")
    /\ Proceed(t, "down")
    /\ UNCHANGED <<storeVars, dockerVars>>

\* 404 when the ticket is not the session's, already_nuked when it is nuked.
WebhookGet(t) ==
    /\ ReqAt(t, "webhook")
    /\ \/ Answer(t)
       \/ rows[req[t].sid].status # "nuked" /\ Proceed(t, "down")
    /\ UNCHANGED <<storeVars, dockerVars>>

\* down_session removes the volume by default; its failure is swallowed.
NukeDown(t) ==
    /\ ReqAt(t, "down")
    /\ Down(req[t].sid, TRUE) \/ DownFails(req[t].sid)
    /\ Proceed(t, "setNuked")
    /\ UNCHANGED <<storeVars, disk>>

NukeSet(t) ==
    /\ ReqAt(t, "setNuked")
    /\ SetStatus(req[t].sid, "nuked")
    /\ Answer(t)
    /\ UNCHANGED <<now, dockerVars>>

-----------------------------------------------------------------------------
(* reset_ttl *)

Extendable(row) == row.status = "ready" /\ ~row.extended /\ now < row.maxExt

\* mutant: the deadline is moved the wrong way
EarlierDeadline(row) == Earlier(row.maxExt, row.expires - TtlResetAdd)

\* mutant: the cap is forgotten
UncappedNewDeadline(row) == row.expires + TtlResetAdd

NewDeadline(row) == Earlier(row.maxExt, row.expires + TtlResetAdd)

\* Every early return is a 409; otherwise the new deadline is computed here,
\* from this snapshot of the row.
ResetGet(t) ==
    LET row == rows[req[t].sid]
    IN  /\ ReqAt(t, "reset")
        /\ \/ ~Extendable(row) /\ Answer(t)
           \/ /\ Extendable(row)
              /\ req' = [req EXCEPT ![t].pc = "extend", ![t].until = NewDeadline(row)]
        /\ UNCHANGED <<storeVars, dockerVars>>

\* mutant: the UPDATE adds to the deadline that the row has by now
ResetSetRelative(t) ==
    /\ ReqAt(t, "extend")
    /\ UpdateTtl(req[t].sid, rows[req[t].sid].expires + TtlResetAdd)
    /\ Answer(t)
    /\ UNCHANGED <<now, dockerVars>>

ResetSet(t) ==
    /\ ReqAt(t, "extend")
    /\ UpdateTtl(req[t].sid, req[t].until)
    /\ Answer(t)
    /\ UNCHANGED <<now, dockerVars>>

\* Any transaction may raise: the request ends in a 500, with what was done done.
RequestRaises(t) ==
    /\ req[t].pc \in Kinds \cup {"setNuked", "extend"}
    /\ TransactionRaises
    /\ Answer(t)
    /\ UNCHANGED dockerVars

RequestStep(t) ==
    \/ DeleteGet(t) \/ WebhookGet(t) \/ NukeDown(t) \/ NukeSet(t)
    \/ ResetGet(t) \/ ResetSet(t) \/ RequestRaises(t)
=============================================================================
