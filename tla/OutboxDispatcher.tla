--------------------------- MODULE OutboxDispatcher ---------------------------
(***************************************************************************)
(* How the task of TaskService reaches a worker: its outbox row, the       *)
(* dispatcher that publishes it (on request right after the creation, and  *)
(* in drain_forever; the row lock serializes the two) and the broker queue.*)
(* One step is one transaction of _dispatch_locked, publish included.      *)
(* Publishing is not atomic with the transaction: the broker may have      *)
(* taken a message whose publisher saw an error, or whose transaction was  *)
(* rolled back, so the queue may hold several messages for one task.       *)
(***************************************************************************)
EXTENDS TaskService

CONSTANTS
  MaxDispatchAttempts,  \* MAX_DISPATCH_ATTEMPTS
  MaxPublishFaults      \* bound on publishes that fail or are rolled back

ASSUME DispatchAssumption == MaxDispatchAttempts \in Nat \ {0}
ASSUME FaultsAssumption   == MaxPublishFaults \in Nat

VARIABLES
  outbox,         \* the outbox row: pending, dispatched or exhausted, and its attempts
  broker,         \* how many messages for the task the queue holds
  publishFaults

dispatchVars == <<outbox, broker, publishFaults>>

OutboxInit ==
  /\ outbox = [state |-> "pending", attempts |-> 0]
  /\ broker = 0
  /\ publishFaults = 0

\* The attempt counted and the row marked, as one commit.
Dispatched(state) == outbox' = [state |-> state, attempts |-> outbox.attempts + 1]

Publish ==
  /\ outbox.state = "pending"
  /\ Dispatched("dispatched")
  /\ broker' = broker + 1
  /\ UNCHANGED <<taskVars, publishFaults>>

PublishFault(accepted) ==
  /\ outbox.state = "pending"
  /\ publishFaults < MaxPublishFaults
  /\ publishFaults' = publishFaults + 1
  /\ broker' = broker + (IF accepted THEN 1 ELSE 0)

PublishesLeft == outbox.attempts + 1 < MaxDispatchAttempts

\* publish raises: the next attempt is due later, or the task is failed.
PublishRaises(accepted) ==
  /\ PublishFault(accepted)
  /\ IF PublishesLeft
     THEN /\ Dispatched("pending")
          /\ UNCHANGED taskVars
     ELSE /\ Dispatched("exhausted")
          /\ FailExhausted \/ (Terminal /\ UNCHANGED taskVars)

\* The dispatcher stops between publish and commit.
DispatcherCrashes ==
  /\ PublishFault(TRUE)
  /\ UNCHANGED <<taskVars, outbox>>

DispatchNext ==
  \/ Publish
  \/ \E accepted \in BOOLEAN : PublishRaises(accepted)
  \/ DispatcherCrashes

===============================================================================
