------------------------------ MODULE RunWorkflow -----------------------------
(***************************************************************************)
(* One run inside the AI service: runWorkflow calls the model until it has *)
(* an answer that passes the checks, correcting it once, retrying the      *)
(* provider once and falling back to the second model once, within a       *)
(* budget of turns, tokens and cost, a deadline, and the signal of its     *)
(* owner.                                                                  *)
(*                                                                         *)
(* The function runs to completion between two awaits, and it awaits only  *)
(* the model: the signals change while a call is out, the clock always.    *)
(* The stream of the production runtime has neither turn nor tool events,  *)
(* so a call is one turn and the limit of tools plays no part.  Tokens and *)
(* cost are counted in units; usage is reported once per call.  The checks *)
(* of the input, which end a run before its first call, are left out.      *)
(***************************************************************************)
EXTENDS Naturals

CONSTANTS
  MaxTurns, MaxTokens,   \* MAX_TURNS, MAX_TOKENS
  RetryCount,            \* retry_count of the route, at most one
  RouteCost,             \* max_cost_usd, which both models of a route share
  Needs, Estimates,      \* what a call may need at most, in tokens and in cost
  Reports                \* what a call may report, in tokens and in cost

ASSUME LimitsAssumption ==
  /\ MaxTurns \in Nat \ {0} /\ MaxTokens \in Nat \ {0} /\ RouteCost \in Nat \ {0}
  /\ RetryCount \in {0, 1}
ASSUME ReportsAssumption == Needs \subseteq Nat /\ Estimates \subseteq Nat /\ Reports \subseteq Nat

VARIABLES
  pc,             \* at the head of the loop, in a call, back from it, ended
  outcome, code,  \* status and error_code of the receipt
  route,          \* routeAttempt, which is also fallbackCount
  retries,        \* providerRetries
  corrected,
  turns, tokens, cost,
  answer,         \* what the call came back with
  available,      \* the models of the route the router approves and knows
  aborted,        \* the signal of the owner
  deadline,       \* the deadline controller
  late,           \* the clock is past MAX_DURATION_MS
  timedOut        \* the timeout of the route, for this call

planVars   == <<route, retries, corrected>>
budgetVars == <<turns, tokens, cost>>
signalVars == <<aborted, deadline, late, timedOut>>
runVars    == <<pc, outcome, code, planVars, budgetVars, answer, available, signalVars>>

Answers == {"none", "valid", "invalid", "json", "provider", "timeout", "budget", "abort"}
Codes   == {"none", "timeout_exceeded", "turn_limit_exceeded", "spending_limit_exceeded",
            "model_route_unavailable", "output_invalid", "runtime_failed"}

-------------------------------------------------------------------------------

\* Fault: the deadline is not combined with the signal of the owner, or replaces it.
OwnersSignal   == aborted
DeadlineSignal == deadline

\* AbortSignal.any of the owner and the deadline; it is what the model call listens to.
Signal == aborted \/ deadline

End(o, c) ==
  /\ pc' = "ended"
  /\ outcome' = o
  /\ code' = c

\* The catch clause: whatever is thrown, a run whose signal fired ends cancelled.
Throw(c) == IF Signal THEN End("cancelled", "none") ELSE End("failed", c)

\* checkSignal does not let the run go on.
Stopped == Signal \/ late

\* preflightAttempt
BudgetLeft == turns < MaxTurns /\ tokens < MaxTokens /\ cost < RouteCost

\* preflightProvider
Fits(need, estimate) == tokens + need <= MaxTokens /\ cost + estimate <= RouteCost

\* Fault: spending is added up and not compared.
NeverOverspent(t, c) == FALSE

\* recordPiEvent throws.
Overspent(t, c) == t > MaxTokens \/ c > RouteCost

-------------------------------------------------------------------------------
(* Before a call *)

AtLoop == pc = "loop" /\ ~Stopped

ExhaustBudget ==
  /\ AtLoop
  /\ ~BudgetLeft
  /\ Throw(IF turns >= MaxTurns THEN "turn_limit_exceeded" ELSE "spending_limit_exceeded")
  /\ UNCHANGED <<planVars, budgetVars, answer, available, signalVars>>

\* requireModel
RouteUnavailable ==
  /\ AtLoop
  /\ BudgetLeft
  /\ route \notin available
  /\ Throw("model_route_unavailable")
  /\ UNCHANGED <<planVars, budgetVars, answer, available, signalVars>>

\* runStructured up to its first await: a turn is used even if the call does not fit.
Call(need, estimate) ==
  /\ AtLoop
  /\ BudgetLeft
  /\ route \in available
  /\ turns' = turns + 1
  /\ timedOut' = FALSE
  /\ IF Fits(need, estimate)
     THEN pc' = "call" /\ UNCHANGED <<outcome, code>>
     ELSE Throw("spending_limit_exceeded")
  /\ UNCHANGED <<planVars, tokens, cost, answer, available, aborted, deadline, late>>

-------------------------------------------------------------------------------
(* The call *)

\* How runStructured ends, given what the provider sent: the timeout of the route hides
\* an overspent budget, but not the signal.
AnswerOf(t, c, reply) ==
  IF timedOut /\ ~Signal THEN "timeout"
  ELSE IF Overspent(t, c) THEN "budget"
  ELSE IF Signal THEN "abort" ELSE reply

CallEnds ==
  /\ pc = "call"
  /\ pc' = "returned"
  /\ \E t, c \in Reports :
       /\ tokens' = tokens + t
       /\ cost' = cost + c
  /\ \E reply \in {"valid", "invalid", "json", "provider"} :
       answer' = AnswerOf(tokens', cost', reply)
  /\ UNCHANGED <<outcome, code, planVars, turns, available, signalVars>>

\* What happens while the call is out.
Fires(sig, others) ==
  /\ pc = "call"
  /\ sig' = TRUE
  /\ UNCHANGED <<pc, outcome, code, planVars, budgetVars, answer, available, others>>

OwnerAborts   == Fires(aborted, <<deadline, late, timedOut>>)
DeadlineFires == late /\ Fires(deadline, <<aborted, late, timedOut>>)
RouteTimesOut == Fires(timedOut, <<aborted, deadline, late>>)

\* The timer follows the clock, but not at once.
ClockPasses ==
  /\ pc # "ended"
  /\ late' = TRUE
  /\ UNCHANGED <<pc, outcome, code, planVars, budgetVars, answer, available, aborted, deadline,
                 timedOut>>

-------------------------------------------------------------------------------
(* After a call *)

\* checkSignal at the head of the loop, or after the call.
Stop ==
  /\ pc \in {"loop", "returned"}
  /\ Stopped
  /\ Throw("timeout_exceeded")
  /\ UNCHANGED <<planVars, budgetVars, answer, available, signalVars>>

\* runStructured threw, or the limit of the route is set and found exceeded.
CostExceeded ==
  /\ pc = "returned"
  /\ ~Stopped
  /\ answer = "budget" \/ cost > RouteCost
  /\ Throw("spending_limit_exceeded")
  /\ UNCHANGED <<planVars, budgetVars, answer, available, signalVars>>

Proceeds == pc = "returned" /\ ~Stopped /\ answer # "budget" /\ cost <= RouteCost

Again == pc' = "loop" /\ UNCHANGED <<outcome, code, budgetVars, answer, available, signalVars>>

Correct ==
  /\ Proceeds
  /\ answer \in {"json", "invalid"}
  /\ ~corrected
  /\ corrected' = TRUE
  /\ Again
  /\ UNCHANGED <<route, retries>>

CorrectionFailed ==
  /\ Proceeds
  /\ answer \in {"json", "invalid"}
  /\ corrected
  /\ Throw("output_invalid")
  /\ UNCHANGED <<planVars, budgetVars, answer, available, signalVars>>

CanRetry == answer = "provider" /\ retries < RetryCount /\ route = 0

Retry ==
  /\ Proceeds
  /\ CanRetry
  /\ retries' = retries + 1
  /\ Again
  /\ UNCHANGED <<route, corrected>>

\* Fault: a timeout of the first model is final.
CanFallBackOnError == answer = "provider" /\ ~CanRetry /\ route = 0

CanFallBack == answer \in {"provider", "timeout"} /\ ~CanRetry /\ route = 0

FallBack ==
  /\ Proceeds
  /\ CanFallBack
  /\ route' = 1
  /\ Again
  /\ UNCHANGED <<retries, corrected>>

\* failureCode
GiveUp ==
  /\ Proceeds
  /\ answer \in {"provider", "timeout"}
  /\ ~CanRetry
  /\ ~CanFallBack
  /\ Throw(IF answer = "timeout" THEN "timeout_exceeded" ELSE "runtime_failed")
  /\ UNCHANGED <<planVars, budgetVars, answer, available, signalVars>>

Succeed ==
  /\ Proceeds
  /\ answer = "valid"
  /\ End("succeeded", "none")
  /\ UNCHANGED <<planVars, budgetVars, answer, available, signalVars>>

-------------------------------------------------------------------------------

\* The owner may have cancelled before the run was marked as running.
RunInit ==
  /\ pc = "loop"
  /\ outcome = "none" /\ code = "none"
  /\ route = 0 /\ retries = 0 /\ corrected = FALSE
  /\ turns = 0 /\ tokens = 0 /\ cost = 0
  /\ answer = "none"
  /\ available \in SUBSET {0, 1}
  /\ aborted \in BOOLEAN
  /\ deadline = FALSE /\ late = FALSE /\ timedOut = FALSE

Before == ExhaustBudget \/ RouteUnavailable \/ \E n \in Needs, e \in Estimates : Call(n, e)

After == Stop \/ CostExceeded \/ Correct \/ CorrectionFailed \/ Retry \/ FallBack \/ GiveUp
           \/ Succeed

RunNext ==
  \/ Before \/ CallEnds \/ After
  \/ OwnerAborts \/ DeadlineFires \/ RouteTimesOut \/ ClockPasses

RunSpec == RunInit /\ [][RunNext]_runVars

\* The function goes on, time passes, the timer fires, and a call returns once its
\* signal fired.  A provider may never answer, and no timeout of a route is assumed.
RunFairness ==
  /\ WF_runVars(Before \/ After)
  /\ WF_runVars(ClockPasses)
  /\ WF_runVars(DeadlineFires)
  /\ WF_runVars(Signal /\ CallEnds)

FairRunSpec == RunSpec /\ RunFairness

-------------------------------------------------------------------------------
(* Correctness *)

RunTypeOK ==
  /\ pc \in {"loop", "call", "returned", "ended"}
  /\ outcome \in {"none", "succeeded", "failed", "cancelled"}
  /\ code \in Codes
  /\ route \in {0, 1}
  /\ retries \in 0..RetryCount
  /\ corrected \in BOOLEAN
  /\ turns \in 0..MaxTurns
  /\ tokens \in Nat /\ cost \in Nat
  /\ answer \in Answers
  /\ available \subseteq {0, 1}
  /\ aborted \in BOOLEAN /\ deadline \in BOOLEAN
  /\ late \in BOOLEAN /\ timedOut \in BOOLEAN

\* The first call, a correction, a retry and a fallback are four turns: the limit of
\* four never is what ends a run (runWorkflow's counters against createRunBudget's).
TurnsSuffice == MaxTurns >= 4 => code # "turn_limit_exceeded"

\* A model is called, and a result is returned, only while neither the tokens nor the
\* cost reported so far exceed their limits, also after a timeout hid an overspent call.
SpendsWithinLimits ==
  pc = "call" \/ outcome = "succeeded" => tokens <= MaxTokens /\ cost <= RouteCost

\* The limits of a run hold, and its turns are never what it runs out of.
WithinBudget == RunTypeOK /\ TurnsSuffice /\ SpendsWithinLimits

\* A run whose owner cancelled it, or whose deadline fired, does not succeed: what the
\* run server counts on when it marks a run as cancelled.
SignalledNeverSucceeds == outcome = "succeeded" => ~aborted /\ ~deadline

\* No run fails for its provider before the second model was tried, unless it is late.
FailsAfterFallback ==
  /\ code = "runtime_failed" => route = 1
  /\ code = "timeout_exceeded" => route = 1 \/ late

\* Every run ends, even if no provider ever answers.
RunEnds == <>(pc = "ended")

===============================================================================
