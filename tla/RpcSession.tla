----------------------------- MODULE RpcSession -----------------------------
(***************************************************************************)
(* What a session with the server promises its client, whatever the        *)
(* methods do: a request is answered at most once, the session moves only  *)
(* forward, a refused, failed or dropped request leaves it where it was,   *)
(* and what is accepted depends on its phase alone.  LspServer implements  *)
(* this.                                                                   *)
(***************************************************************************)

CONSTANT Requests   \* the identifiers the client gives its requests

VARIABLES
  phase,            \* "new", "running", "stopping", "ended"
  replies           \* what each request has received

vars == <<phase, replies>>

TypeOK ==
  /\ phase \in {"new", "running", "stopping", "ended"}
  /\ replies \in [Requests -> {"unsent", "waiting", "value", "error", "dropped"}]

Init ==
  /\ phase = "new"
  /\ replies = [r \in Requests |-> "unsent"]

Ask(r) ==
  /\ phase # "ended"
  /\ replies[r] = "unsent"
  /\ replies' = [replies EXCEPT ![r] = "waiting"]
  /\ UNCHANGED phase

(* The only request a new session accepts is the one that starts it.       *)
Accept(r) ==
  /\ replies[r] = "waiting"
  /\ \/ phase = "new" /\ phase' = "running"
     \/ phase = "running" /\ phase' \in {"running", "stopping", "ended"}
  /\ replies' = [replies EXCEPT ![r] = "value"]

Refuse(r) ==
  /\ phase # "ended"
  /\ replies[r] = "waiting"
  /\ replies' = [replies EXCEPT ![r] = "error"]
  /\ UNCHANGED phase

(* A request whose handler failed on the server's side gets no answer.     *)
Drop(r) ==
  /\ phase # "ended"
  /\ replies[r] = "waiting"
  /\ replies' = [replies EXCEPT ![r] = "dropped"]
  /\ UNCHANGED phase

End ==
  /\ phase' = "ended"
  /\ UNCHANGED replies

Next == End \/ \E r \in Requests : Ask(r) \/ Accept(r) \/ Refuse(r) \/ Drop(r)

Spec == Init /\ [][Next]_vars
=============================================================================
