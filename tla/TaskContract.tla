----------------------------- MODULE TaskContract -----------------------------
(***************************************************************************)
(* What a task promises to whoever created it, without claims, leases,     *)
(* events or runs: it ends at most once, its result exists exactly when it *)
(* succeeded, and the reservation it was admitted with is charged or given *)
(* back once, given back only when the task is over, and charged before    *)
(* the task can succeed.                                                   *)
(***************************************************************************)
EXTENDS TaskStates

VARIABLES phase, charge, published

contractVars == <<phase, charge, published>>

ContractInit ==
  /\ phase = "queued"
  /\ charge \in {"none", "reserved"}
  /\ published = FALSE

Start ==
  /\ phase = "queued"
  /\ phase' = "running"
  /\ UNCHANGED <<charge, published>>

\* A run was started; it may turn out that the owner cancelled in between.
Spend ==
  /\ phase # "queued"
  /\ charge = "reserved"
  /\ charge' = "consumed"
  /\ UNCHANGED <<phase, published>>

GiveBack ==
  /\ phase \in TerminalStatuses
  /\ charge = "reserved"
  /\ charge' = "released"
  /\ UNCHANGED <<phase, published>>

Succeed ==
  /\ phase = "running"
  /\ phase' = "succeeded"
  /\ published' = TRUE
  /\ charge' = IF charge = "reserved" THEN "consumed" ELSE charge
  /\ charge # "released"

Stop ==
  /\ phase \notin TerminalStatuses
  /\ phase' \in {"failed", "cancelled"}
  /\ charge' = charge \/ (charge = "reserved" /\ charge' \in {"consumed", "released"})
  /\ UNCHANGED published

ContractNext == Start \/ Spend \/ GiveBack \/ Succeed \/ Stop

ContractSpec == ContractInit /\ [][ContractNext]_contractVars

===============================================================================
