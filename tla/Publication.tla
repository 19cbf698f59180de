----------------------------- MODULE Publication -----------------------------
(***************************************************************************)
(* What a publication promises to the task that asked for it, whatever     *)
(* happens underneath: its pages of entries reach the contract at any      *)
(* time and in any groups, it only succeeds once all of them have, and it  *)
(* may fail at any point, after which those already sent may still arrive. *)
(* The pusher of Orchestrator relies on no more than that.                 *)
(***************************************************************************)
CONSTANTS Tasks,        \* the tasks that publish
          PagesOf       \* per task: the pages of its batch

VARIABLES status,       \* per task: "publishing", "done" or "failed"
          unaccepted    \* per task: the pages that the contract does not have

vars == <<status, unaccepted>>

Init ==
  /\ status = [t \in Tasks |-> "publishing"]
  /\ unaccepted = PagesOf

Accept(t) ==
  /\ \E K \in SUBSET unaccepted[t] :
       K # {} /\ unaccepted' = [unaccepted EXCEPT ![t] = @ \ K]
  /\ UNCHANGED status

Succeed(t) ==
  /\ status[t] = "publishing"
  /\ unaccepted[t] = {}
  /\ status' = [status EXCEPT ![t] = "done"]
  /\ UNCHANGED unaccepted

Fail(t) ==
  /\ status[t] = "publishing"
  /\ status' = [status EXCEPT ![t] = "failed"]
  /\ UNCHANGED unaccepted

Next == \E t \in Tasks : Accept(t) \/ Succeed(t) \/ Fail(t)

Spec == Init /\ [][Next]_vars
=============================================================================
