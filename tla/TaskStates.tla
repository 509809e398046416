------------------------------ MODULE TaskStates ------------------------------
(***************************************************************************)
(* The status machine every task obeys (modules/tasks/state.py).  The      *)
(* service never stores a task as waiting_for_user, but require_transition *)
(* accepts it, so the table keeps it.                                      *)
(***************************************************************************)

TerminalStatuses == {"succeeded", "failed", "cancelled"}

Transitions ==
  [queued           |-> {"running", "failed", "cancelled"},
   running          |-> {"waiting_for_user", "succeeded", "failed", "cancelled"},
   waiting_for_user |-> {"queued", "running", "failed", "cancelled"}]

Statuses == TerminalStatuses \union DOMAIN Transitions

\* require_transition: a terminal status has no successor at all.
CanTransition(current, target) ==
  /\ current \notin TerminalStatuses
  /\ target \in Transitions[current]

===============================================================================
