------------------------------- MODULE AiService ------------------------------
(***************************************************************************)
(* The AI service as its client sees it: a run exists once, under the id   *)
(* the client derived for it, it ends once, and a run whose cancellation   *)
(* was accepted does not succeed any more.  AiRunStore is the service      *)
(* behind this.                                                            *)
(***************************************************************************)
CONSTANT RunIds

VARIABLES
  aiRun,     \* the status of each run; a queued run counts as running
  aiCancel   \* the runs whose cancellation was accepted

aiVars == <<aiRun, aiCancel>>

EndStatuses == {"succeeded", "failed", "cancelled"}

AiTypeOK ==
  /\ aiRun \in [RunIds -> {"absent", "running"} \union EndStatuses]
  /\ aiCancel \subseteq RunIds

AiInit ==
  /\ aiRun = [run \in RunIds |-> "absent"]
  /\ aiCancel = {}

\* POST /runs creates the run or finds it.
Accept(run) ==
  /\ aiRun' = [aiRun EXCEPT ![run] = IF @ = "absent" THEN "running" ELSE @]
  /\ UNCHANGED aiCancel

\* POST /runs/{id}/cancel is accepted for a run that has not ended.
CancelRun(run) ==
  /\ aiCancel' = aiCancel \union {r \in {run} : aiRun[r] = "running"}
  /\ UNCHANGED aiRun

\* A run ends; a service that shuts down cancels its runs unasked.
RunEnds(run) ==
  /\ aiRun[run] = "running"
  /\ \E outcome \in EndStatuses :
       /\ outcome = "succeeded" => run \notin aiCancel
       /\ aiRun' = [aiRun EXCEPT ![run] = outcome]
  /\ UNCHANGED aiCancel

AiNext == \E run \in RunIds : Accept(run) \/ CancelRun(run) \/ RunEnds(run)

AiSpec == AiInit /\ [][AiNext]_aiVars

===============================================================================
