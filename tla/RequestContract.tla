--------------------------- MODULE RequestContract ---------------------------
(***************************************************************************)
(* What AppServerConnection::request promises to each of its callers,      *)
(* whatever the router, the reader, the child process and the clock do:    *)
(* an issued request ends in one outcome; it is reported as answered only  *)
(* if it was sent to the app-server; it is reported as refused only if it  *)
(* was not sent, and it is never sent afterwards.  A request reported as   *)
(* failed (timed out, transport closed) may have been sent, or may still   *)
(* be: nothing is promised.                                                *)
(***************************************************************************)
CONSTANT Requests

VARIABLES
    phase,  \* phase[id]: what the issuer of the request knows
    sent    \* the requests the app-server was sent

vars == <<phase, sent>>

Init ==
    /\ phase = [id \in Requests |-> "idle"]
    /\ sent = {}

(* On a closed connection the request fails at once. *)
Issue(id) ==
    /\ phase[id] = "idle"
    /\ \E to \in {"open", "failed"} : phase' = [phase EXCEPT ![id] = to]
    /\ UNCHANGED sent

Send(id) ==
    /\ phase[id] \in {"open", "failed"}
    /\ sent' = sent \cup {id}
    /\ UNCHANGED phase

Finish(id) ==
    /\ phase[id] = "open"
    /\ \/ id \in sent /\ phase' = [phase EXCEPT ![id] = "answered"]
       \/ id \notin sent /\ phase' = [phase EXCEPT ![id] = "refused"]
       \/ phase' = [phase EXCEPT ![id] = "failed"]
    /\ UNCHANGED sent

Next == \E id \in Requests : Issue(id) \/ Send(id) \/ Finish(id)

Spec == Init /\ [][Next]_vars
=============================================================================
