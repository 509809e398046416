----------------------------- MODULE PiServerProofs ----------------------------
(***************************************************************************)
(* The two halves of the Pi run server, which share no state: the workflow *)
(* of one run, and the store that says which runs there are.               *)
(*                                                                         *)
(* RunWorkflow, for every limit, route and usage: its invariants, made     *)
(* stronger by what is true between two calls: only an ended run has an    *)
(* outcome, the plan accounts for every turn, and a valid answer came      *)
(* within the limits.                                                      *)
(*                                                                         *)
(* AiRunStore, for all instances and runs, however many of them crash and  *)
(* however many store calls are lost.  A step changes the record of one    *)
(* run by one script, and the jobs of one instance: the scripts are        *)
(* reduced to Moves, which says what any of them may do to a record, and   *)
(* both the invariant and the refinement follow from Moves.                *)
(***************************************************************************)
EXTENDS RunWorkflow, AiRunStore, TLAPS

-------------------------------------------------------------------------------
(* The workflow of one run *)

\* The environment: nothing it does touches plan, budget or outcome.
Environment == OwnerAborts \/ DeadlineFires \/ RouteTimesOut \/ ClockPasses

LEMMA NextCases ==
  ASSUME RunNext
  PROVE  \/ \E n \in Needs, e \in Estimates : Call(n, e)
         \/ ExhaustBudget \/ RouteUnavailable \/ CallEnds \/ After \/ Environment
BY DEF RunNext, Before, Environment

-------------------------------------------------------------------------------
(* Types, in three parts that do not depend on each other *)

ControlOK ==
  /\ pc \in {"loop", "call", "returned", "ended"}
  /\ outcome \in {"none", "succeeded", "failed", "cancelled"}
  /\ code \in Codes
  /\ answer \in Answers

CountersOK ==
  /\ route \in {0, 1}
  /\ retries \in 0..RetryCount
  /\ turns \in 0..MaxTurns
  /\ tokens \in Nat /\ cost \in Nat

FlagsOK ==
  /\ corrected \in BOOLEAN
  /\ available \subseteq {0, 1}
  /\ aborted \in BOOLEAN /\ deadline \in BOOLEAN
  /\ late \in BOOLEAN /\ timedOut \in BOOLEAN

LEMMA TypeParts == RunTypeOK <=> ControlOK /\ CountersOK /\ FlagsOK
BY DEF RunTypeOK, ControlOK, CountersOK, FlagsOK

LEMMA ThrowKeepsControl ==
  ASSUME ControlOK, NEW c \in Codes, Throw(c), answer' = answer
  PROVE  ControlOK'
<1>1. PICK o \in {"failed", "cancelled"}, d \in Codes : End(o, d)
  BY DEF Throw, Codes
<1> QED  BY <1>1 DEF End, ControlOK

LEMMA ControlStep ==
  ASSUME ControlOK, [RunNext]_runVars
  PROVE  ControlOK'
<1>1. ASSUME NEW n \in Needs, NEW e \in Estimates, Call(n, e)
      PROVE  ControlOK'
  <2>1. CASE Fits(n, e)
    BY <1>1, <2>1 DEF Call, ControlOK
  <2>2. CASE ~Fits(n, e)
    BY <1>1, <2>2, ThrowKeepsControl DEF Call, Codes
  <2> QED  BY <2>1, <2>2
<1>2. CASE ExhaustBudget \/ RouteUnavailable
  BY <1>2, ThrowKeepsControl DEF ExhaustBudget, RouteUnavailable, Codes
<1>3. CASE CallEnds
  <2>1. PICK reply \in {"valid", "invalid", "json", "provider"} :
          answer' = AnswerOf(tokens', cost', reply)
    BY <1>3 DEF CallEnds
  <2>2. answer' \in {"timeout", "budget", "abort", reply}
    BY <2>1 DEF AnswerOf
  <2> QED  BY <1>3, <2>2 DEF CallEnds, ControlOK, Answers
<1>4. CASE Stop \/ CostExceeded \/ CorrectionFailed \/ GiveUp
  BY <1>4, ThrowKeepsControl DEF Stop, CostExceeded, CorrectionFailed, GiveUp, Codes
<1>5. CASE Correct \/ Retry \/ FallBack
  BY <1>5 DEF Correct, Retry, FallBack, Again, ControlOK
<1>6. CASE Succeed
  BY <1>6 DEF Succeed, End, ControlOK, Codes
<1>7. CASE Environment
  BY <1>7 DEF Environment, OwnerAborts, DeadlineFires, RouteTimesOut, ClockPasses, Fires, ControlOK
<1>8. CASE UNCHANGED runVars
  BY <1>8 DEF runVars, ControlOK
<1> QED  BY <1>1, <1>2, <1>3, <1>4, <1>5, <1>6, <1>7, <1>8, NextCases DEF After

LEMMA CountersStep ==
  ASSUME CountersOK, [RunNext]_runVars
  PROVE  CountersOK'
<1> USE LimitsAssumption, ReportsAssumption
<1>1. ASSUME NEW n \in Needs, NEW e \in Estimates, Call(n, e)
      PROVE  CountersOK'
  BY <1>1 DEF Call, BudgetLeft, CountersOK, planVars
<1>2. CASE UNCHANGED <<planVars, budgetVars>>
  BY <1>2 DEF planVars, budgetVars, CountersOK
<1>3. CASE CallEnds
  BY <1>3 DEF CallEnds, CountersOK, planVars
<1>4. CASE Correct \/ Retry \/ FallBack
  BY <1>4 DEF Correct, Retry, FallBack, CanRetry, Again, CountersOK, planVars, budgetVars
<1>5. CASE \/ ExhaustBudget \/ RouteUnavailable \/ Stop \/ CostExceeded \/ CorrectionFailed
           \/ GiveUp \/ Succeed \/ Environment \/ UNCHANGED runVars
  <2>1. UNCHANGED <<planVars, budgetVars>>
    BY <1>5
    DEF ExhaustBudget, RouteUnavailable, Stop, CostExceeded, CorrectionFailed, GiveUp, Succeed,
        Environment, OwnerAborts, DeadlineFires, RouteTimesOut, ClockPasses, Fires, runVars
  <2> QED  BY <1>2, <2>1
<1> QED  BY <1>1, <1>3, <1>4, <1>5, NextCases DEF After

LEMMA FlagsStep ==
  ASSUME FlagsOK, [RunNext]_runVars
  PROVE  FlagsOK'
<1>1. CASE UNCHANGED <<planVars, available, signalVars>>
  BY <1>1 DEF planVars, signalVars, FlagsOK
<1>2. ASSUME NEW n \in Needs, NEW e \in Estimates, Call(n, e)
      PROVE  FlagsOK'
  BY <1>2 DEF Call, FlagsOK, planVars
<1>3. CASE Correct \/ Retry \/ FallBack
  BY <1>3 DEF Correct, Retry, FallBack, Again, FlagsOK, signalVars
<1>4. CASE \/ ExhaustBudget \/ RouteUnavailable \/ Stop \/ CostExceeded \/ CorrectionFailed
           \/ GiveUp \/ Succeed \/ CallEnds \/ UNCHANGED runVars
  <2>1. UNCHANGED <<planVars, available, signalVars>>
    BY <1>4
    DEF ExhaustBudget, RouteUnavailable, Stop, CostExceeded, CorrectionFailed, GiveUp, Succeed,
        CallEnds, runVars
  <2> QED  BY <1>1, <2>1
<1>5. CASE Environment
  BY <1>5 DEF Environment, OwnerAborts, DeadlineFires, RouteTimesOut, ClockPasses, Fires, FlagsOK,
              planVars
<1> QED  BY <1>2, <1>3, <1>4, <1>5, NextCases DEF After

\* The variables of runWorkflow keep their types; the counters of createRunBudget and of
\* the plan keep within their limits, whatever the limits are.
THEOREM RunTypeCorrect == RunSpec => []RunTypeOK
<1>1. RunInit => ControlOK /\ CountersOK /\ FlagsOK
  <2> SUFFICES ASSUME RunInit PROVE ControlOK /\ CountersOK /\ FlagsOK
    OBVIOUS
  <2>1. ControlOK
    BY DEF RunInit, ControlOK, Codes, Answers
  <2>2. CountersOK
    BY LimitsAssumption DEF RunInit, CountersOK
  <2>3. FlagsOK
    BY DEF RunInit, FlagsOK
  <2> QED  BY <2>1, <2>2, <2>3
<1>2. ControlOK /\ CountersOK /\ FlagsOK /\ [RunNext]_runVars
        => ControlOK' /\ CountersOK' /\ FlagsOK'
  BY ControlStep, CountersStep, FlagsStep
<1> QED  BY <1>1, <1>2, TypeParts, PTL DEF RunSpec

-------------------------------------------------------------------------------
(* The strengthening *)

EndedHasOutcome == outcome # "none" \/ code # "none" => pc = "ended"

Corrections == IF corrected THEN 1 ELSE 0

\* Every turn was the first one, a correction, a retry or the fallback.
PlanAccountsForTurns ==
  /\ pc = "loop" => turns = route + retries + Corrections
  /\ pc \in {"call", "returned"} => turns = 1 + route + retries + Corrections

ValidWithinLimits ==
  pc = "returned" /\ answer = "valid" => tokens <= MaxTokens /\ cost <= RouteCost

RunInv ==
  /\ EndedHasOutcome
  /\ PlanAccountsForTurns
  /\ ValidWithinLimits
  /\ TurnsSuffice
  /\ SpendsWithinLimits
  /\ SignalledNeverSucceeds
  /\ FailsAfterFallback

\* A step that ends the run without a result keeps the invariant if its code is right.
LEMMA EndKeepsRunInv ==
  ASSUME RunTypeOK, RunInv, NEW o \in {"failed", "cancelled"}, NEW c \in Codes, End(o, c),
         UNCHANGED <<planVars, aborted, deadline, late>>,
         MaxTurns >= 4 => c # "turn_limit_exceeded",
         c = "runtime_failed" => route = 1,
         c = "timeout_exceeded" => route = 1 \/ late
  PROVE  RunInv'
BY DEF End, RunInv, EndedHasOutcome, PlanAccountsForTurns, ValidWithinLimits, TurnsSuffice,
       SpendsWithinLimits, SignalledNeverSucceeds, FailsAfterFallback, planVars

LEMMA ThrowKeepsRunInv ==
  ASSUME RunTypeOK, RunInv, NEW c \in Codes, Throw(c),
         UNCHANGED <<planVars, aborted, deadline, late>>,
         MaxTurns >= 4 => c # "turn_limit_exceeded",
         c = "runtime_failed" => route = 1,
         c = "timeout_exceeded" /\ ~Signal => route = 1 \/ late
  PROVE  RunInv'
<1>1. CASE Signal
  <2>1. End("cancelled", "none")
    BY <1>1 DEF Throw
  <2> QED  BY <2>1, EndKeepsRunInv DEF Codes
<1>2. CASE ~Signal
  <2>1. End("failed", c)
    BY <1>2 DEF Throw
  <2> QED  BY <1>2, <2>1, EndKeepsRunInv
<1> QED  BY <1>1, <1>2

LEMMA RunInvStep ==
  ASSUME RunTypeOK, RunInv, [RunNext]_runVars
  PROVE  RunInv'
<1> USE LimitsAssumption, ReportsAssumption DEF RunTypeOK
<1>1. ASSUME NEW n \in Needs, NEW e \in Estimates, Call(n, e)
      PROVE  RunInv'
  <2>1. CASE Fits(n, e)
    <3>1. tokens <= MaxTokens /\ cost <= RouteCost
      BY <2>1 DEF Fits
    <3> QED
      BY <1>1, <2>1, <3>1
      DEF Call, AtLoop, RunInv, EndedHasOutcome, PlanAccountsForTurns, ValidWithinLimits,
          TurnsSuffice, SpendsWithinLimits, SignalledNeverSucceeds, FailsAfterFallback,
          Corrections, planVars
  <2>2. CASE ~Fits(n, e)
    BY <1>1, <2>2, ThrowKeepsRunInv DEF Call, Codes
  <2> QED  BY <2>1, <2>2
<1>2. CASE ExhaustBudget
  <2>1. MaxTurns >= 4 => turns < MaxTurns
    BY <1>2 DEF ExhaustBudget, AtLoop, RunInv, PlanAccountsForTurns, Corrections
  <2> QED  BY <1>2, <2>1, ThrowKeepsRunInv DEF ExhaustBudget, Codes, signalVars
<1>3. CASE RouteUnavailable
  BY <1>3, ThrowKeepsRunInv DEF RouteUnavailable, Codes, signalVars
<1>4. CASE CallEnds
  <2>1. answer' = "valid" => ~Overspent(tokens', cost')
    BY <1>4 DEF CallEnds, AnswerOf
  <2>2. ValidWithinLimits'
    BY <1>4, <2>1 DEF CallEnds, Overspent, ValidWithinLimits
  <2> QED
    BY <1>4, <2>2
    DEF CallEnds, RunInv, EndedHasOutcome, PlanAccountsForTurns, TurnsSuffice,
        SpendsWithinLimits, SignalledNeverSucceeds, FailsAfterFallback, Corrections,
        planVars, signalVars
<1>5. CASE After
  <2>1. CASE Stop
    BY <2>1, ThrowKeepsRunInv DEF Stop, Stopped, Codes, signalVars
  <2>2. CASE CostExceeded \/ CorrectionFailed
    BY <2>2, ThrowKeepsRunInv DEF CostExceeded, CorrectionFailed, Codes, signalVars
  <2>3. CASE GiveUp
    <3>1. route = 1
      BY <2>3 DEF GiveUp, CanFallBack
    <3> QED  BY <2>3, <3>1, ThrowKeepsRunInv DEF GiveUp, Codes, signalVars
  <2>4. CASE Correct \/ Retry \/ FallBack
    BY <2>4
    DEF Correct, Retry, FallBack, CanRetry, CanFallBack, Proceeds, Again, RunInv,
        EndedHasOutcome, PlanAccountsForTurns, ValidWithinLimits, TurnsSuffice,
        SpendsWithinLimits, SignalledNeverSucceeds, FailsAfterFallback, Corrections,
        planVars, budgetVars, signalVars
  <2>5. CASE Succeed
    BY <2>5
    DEF Succeed, Proceeds, Stopped, Signal, End, RunInv, EndedHasOutcome,
        PlanAccountsForTurns, ValidWithinLimits, TurnsSuffice, SpendsWithinLimits,
        SignalledNeverSucceeds, FailsAfterFallback, planVars, budgetVars, signalVars
  <2> QED  BY <1>5, <2>1, <2>2, <2>3, <2>4, <2>5 DEF After
<1>6. CASE Environment
  BY <1>6
  DEF Environment, OwnerAborts, DeadlineFires, RouteTimesOut, ClockPasses, Fires, RunInv,
      EndedHasOutcome, PlanAccountsForTurns, ValidWithinLimits, TurnsSuffice,
      SpendsWithinLimits, SignalledNeverSucceeds, FailsAfterFallback, Corrections,
      planVars, budgetVars
<1>7. CASE UNCHANGED runVars
  BY <1>7
  DEF RunInv, EndedHasOutcome, PlanAccountsForTurns, ValidWithinLimits, TurnsSuffice,
      SpendsWithinLimits, SignalledNeverSucceeds, FailsAfterFallback, Corrections,
      runVars, planVars, budgetVars, signalVars
<1> QED  BY <1>1, <1>2, <1>3, <1>4, <1>5, <1>6, <1>7, NextCases

LEMMA RunInvHolds == RunSpec => []RunInv
<1>1. RunInit => RunInv
  BY LimitsAssumption
  DEF RunInit, RunInv, EndedHasOutcome, PlanAccountsForTurns, ValidWithinLimits,
      TurnsSuffice, SpendsWithinLimits, SignalledNeverSucceeds, FailsAfterFallback,
      Corrections
<1>2. RunTypeOK /\ RunInv /\ [RunNext]_runVars => RunInv'
  BY RunInvStep
<1> QED  BY <1>1, <1>2, RunTypeCorrect, PTL DEF RunSpec

-------------------------------------------------------------------------------
(* The properties *)

\* With a limit of four turns or more, runWorkflow never runs out of turns.
THEOREM TurnsSufficeCorrect == RunSpec => []TurnsSuffice
<1>1. RunInv => TurnsSuffice
  BY DEF RunInv
<1> QED  BY <1>1, RunInvHolds, PTL

\* No model is called and no result is returned beyond the limits of createRunBudget.
THEOREM SpendingCorrect == RunSpec => []SpendsWithinLimits
<1>1. RunInv => SpendsWithinLimits
  BY DEF RunInv
<1> QED  BY <1>1, RunInvHolds, PTL

\* checkSignal after the call keeps a cancelled or overdue run from succeeding.
THEOREM SignalCorrect == RunSpec => []SignalledNeverSucceeds
<1>1. RunInv => SignalledNeverSucceeds
  BY DEF RunInv
<1> QED  BY <1>1, RunInvHolds, PTL

\* A provider failure reaches the receipt only after the fallback.
THEOREM FallbackCorrect == RunSpec => []FailsAfterFallback
<1>1. RunInv => FailsAfterFallback
  BY DEF RunInv
<1> QED  BY <1>1, RunInvHolds, PTL

\* The counters of a run keep to its budget (run-budget.ts), and its turns suffice.
THEOREM BudgetCorrect == RunSpec => []WithinBudget
<1>1. RunTypeOK /\ TurnsSuffice /\ SpendsWithinLimits => WithinBudget
  BY DEF WithinBudget
<1> QED  BY <1>1, RunTypeCorrect, TurnsSufficeCorrect, SpendingCorrect, PTL

-------------------------------------------------------------------------------
(* The store of the runs: the inductive invariant *)

LiveStatuses == {"queued", "running"}

\* A record that was not created is not cancelled, a live one has an owner to notify, and
\* the receipt is ReceiptWhenEnded of one record.
RecordFits(rec) ==
  /\ rec.status = "absent" => ~rec.cancel
  /\ rec.status \in LiveStatuses => rec.owner \in Instances
  /\ rec.receipt = IF rec.status \in EndStatuses THEN rec.status ELSE "none"

\* OneExecution of one job, and the two facts it rests on: a job has a run, and what it is
\* about to store is an end.
JobFits(i, rec, job) ==
  /\ job.pc # "none" => rec.status # "absent" /\ rec.owner = i /\ i \in up
  /\ job.pc \in {"complete", "again"} => job.outcome \in EndStatuses

StoreInv ==
  /\ StoreTypeOK
  /\ \A r \in RunIds : RecordFits(run[r])
  /\ \A i \in Instances, r \in RunIds : JobFits(i, run[r], work[i][r])

-------------------------------------------------------------------------------
(* What a script does to a record *)

\* A script creates a run, goes on with a live one, or ends it with a receipt; a run that
\* ended keeps its record, and a cancelled one does not succeed.
Moves(rec, new) ==
  \/ new = rec
  \/ /\ rec.status = "absent"
     /\ \E i \in Instances : new = [Absent EXCEPT !.status = "queued", !.owner = i, !.lease = "live"]
  \/ /\ rec.status \in LiveStatuses
     /\ new \in Records /\ new.owner = rec.owner
     /\ \/ new.status \in LiveStatuses /\ new.receipt = rec.receipt /\ (rec.cancel => new.cancel)
        \/ /\ new.status \in EndStatuses /\ new.receipt = new.status
           /\ new.cancel = rec.cancel /\ (rec.cancel => new.status # "succeeded")

LEMMA OwnerLostMoves ==
  ASSUME NEW rec \in Records, rec.status \in LiveStatuses
  PROVE  Moves(rec, OwnerLost(rec)) /\ OwnerLost(rec).cancel = rec.cancel
BY DEF Moves, OwnerLost, Records, LiveStatuses, EndStatuses

LEMMA ExpiredMoves ==
  ASSUME NEW rec \in Records
  PROVE  Moves(rec, Expired(rec)) /\ Expired(rec).cancel = rec.cancel
<1>1. CASE rec.status \in LiveStatuses /\ rec.lease = "expired"
  BY <1>1, OwnerLostMoves DEF Expired, LiveStatuses
<1>2. CASE ~(rec.status \in LiveStatuses /\ rec.lease = "expired")
  BY <1>2 DEF Expired, LiveStatuses, Moves
<1> QED  BY <1>1, <1>2

LEMMA MarkedMoves ==
  ASSUME NEW rec \in Records
  PROVE  Moves(rec, Marked(rec)) /\ Marked(rec).cancel = rec.cancel
<1>1. CASE rec.status \in LiveStatuses /\ rec.lease # "expired"
  <2>1. Marked(rec) = [rec EXCEPT !.status = "running"]
    BY <1>1 DEF Marked, LiveStatuses
  <2> QED  BY <1>1, <2>1 DEF Moves, Records, LiveStatuses
<1>2. CASE ~(rec.status \in LiveStatuses /\ rec.lease # "expired")
  BY <1>2, ExpiredMoves DEF Marked, LiveStatuses
<1> QED  BY <1>1, <1>2

LEMMA CompletedMoves ==
  ASSUME NEW rec \in Records, NEW i, NEW end \in EndStatuses
  PROVE  Moves(rec, Completed(rec, i, end)) /\ Completed(rec, i, end).cancel = rec.cancel
<1>1. CASE rec.status \notin LiveStatuses \/ rec.owner # i
  BY <1>1 DEF Completed, LiveStatuses, Moves
<1>2. CASE rec.status \in LiveStatuses /\ rec.owner = i /\ rec.lease = "expired"
  BY <1>2, OwnerLostMoves DEF Completed, LiveStatuses
<1>3. CASE rec.status \in LiveStatuses /\ rec.owner = i /\ rec.lease # "expired"
  <2>1. Completed(rec, i, end)
          = [rec EXCEPT !.status = Final(rec, end), !.receipt = Final(rec, end)]
    BY <1>3 DEF Completed, LiveStatuses
  <2>2. Final(rec, end) \in EndStatuses /\ (rec.cancel => Final(rec, end) # "succeeded")
    BY DEF Final, EndStatuses
  <2>3. DEFINE new == [rec EXCEPT !.status = Final(rec, end), !.receipt = Final(rec, end)]
  <2>4. new \in Records /\ new.owner = rec.owner /\ new.cancel = rec.cancel
        /\ new.status = Final(rec, end) /\ new.receipt = Final(rec, end)
    BY <2>2 DEF Records
  <2> QED  BY <1>3, <2>1, <2>2, <2>4 DEF Moves
<1> QED  BY <1>1, <1>2, <1>3

LEMMA RenewedMoves ==
  ASSUME NEW rec \in Records, NEW i
  PROVE  Moves(rec, Renewed(rec, i)) /\ Renewed(rec, i).cancel = rec.cancel
BY ExpiredMoves DEF Renewed, Moves

\* A move keeps the record fit, and the owner of a run that exists.
LEMMA MoveFits ==
  ASSUME NEW rec \in Records, RecordFits(rec), NEW new, Moves(rec, new)
  PROVE  /\ new \in Records /\ RecordFits(new)
         /\ rec.status # "absent" => new.status # "absent" /\ new.owner = rec.owner
<1>1. CASE new = rec
  BY <1>1
<1>2. CASE /\ rec.status = "absent"
           /\ \E i \in Instances : new = [Absent EXCEPT !.status = "queued", !.owner = i, !.lease = "live"]
  BY <1>2 DEF Absent, Records, RecordFits, LiveStatuses, EndStatuses
<1>3. CASE rec.status \in LiveStatuses /\ new \in Records /\ new.owner = rec.owner
           /\ new.status \in LiveStatuses /\ new.receipt = rec.receipt
  BY <1>3 DEF Records, RecordFits, LiveStatuses, EndStatuses
<1>4. CASE rec.status \in LiveStatuses /\ new \in Records /\ new.owner = rec.owner
           /\ new.status \in EndStatuses /\ new.receipt = new.status
  BY <1>4 DEF Records, RecordFits, LiveStatuses, EndStatuses
<1> QED  BY <1>1, <1>2, <1>3, <1>4 DEF Moves

-------------------------------------------------------------------------------
(* The steps *)

\* A step that moves one record, and leaves the jobs and the instances alone.
LEMMA RecordStep ==
  ASSUME StoreInv, NEW r \in RunIds, NEW new, Moves(run[r], new), Store(r, new)
  PROVE  /\ run' \in [RunIds -> Records]
         /\ \A s \in RunIds : RecordFits(run'[s])
         /\ \A s \in RunIds : run[s].status # "absent"
                                => run'[s].status # "absent" /\ run'[s].owner = run[s].owner
         /\ run'[r] = new
<1>1. run \in [RunIds -> Records] /\ \A s \in RunIds : RecordFits(run[s])
  BY DEF StoreInv, StoreTypeOK
<1>2. /\ new \in Records /\ RecordFits(new)
      /\ run[r].status # "absent" => new.status # "absent" /\ new.owner = run[r].owner
  BY <1>1, MoveFits
<1>3. run' = [run EXCEPT ![r] = new]
  BY DEF Store
<1>4. run'[r] = new /\ \A s \in RunIds \ {r} : run'[s] = run[s]
  BY <1>1, <1>3
<1> QED  BY <1>1, <1>2, <1>3, <1>4

\* The jobs still fit when the runs keep their owners and no instance stops.
LEMMA JobStep ==
  ASSUME StoreInv, StoreTypeOK',
         up \subseteq up',
         \A s \in RunIds : RecordFits(run'[s]),
         \A s \in RunIds : run[s].status # "absent"
                             => run'[s].status # "absent" /\ run'[s].owner = run[s].owner,
         \A j \in Instances, s \in RunIds :
           work'[j][s] = work[j][s] \/ JobFits(j, run[s], work'[j][s])
                                    \/ JobFits(j, run'[s], work'[j][s])
  PROVE  StoreInv'
<1>1. ASSUME NEW j \in Instances, NEW s \in RunIds
      PROVE  JobFits(j, run[s], work[j][s])
  BY DEF StoreInv
<1>2. ASSUME NEW j \in Instances, NEW s \in RunIds
      PROVE  JobFits(j, run[s], work[j][s])'
  BY <1>1 DEF JobFits
<1>3. \A s \in RunIds : RecordFits(run[s])'
  BY DEF RecordFits
<1> QED  BY <1>2, <1>3 DEF StoreInv

\* What a script stores for the run of a job, and what the job does next.
JobMoves(i, r) ==
  \E new, job :
    /\ Moves(run[r], new) /\ Store(r, new)
    /\ job \in Jobs /\ Job(i, r, job)
    /\ JobFits(i, run[r], job) \/ JobFits(i, new, job)

LEMMA JobMovesStep ==
  ASSUME StoreInv, NEW i \in Instances, NEW r \in RunIds, JobMoves(i, r),
         UNCHANGED up, faults' \in [{"crashes", "store"} -> Nat],
         notices' \subseteq Instances \X RunIds
  PROVE  StoreInv'
<1>1. PICK new, job :
        /\ Moves(run[r], new) /\ Store(r, new)
        /\ job \in Jobs /\ Job(i, r, job)
        /\ JobFits(i, run[r], job) \/ JobFits(i, new, job)
  BY DEF JobMoves
<1>2. /\ run' \in [RunIds -> Records]
      /\ \A s \in RunIds : RecordFits(run'[s])
      /\ \A s \in RunIds : run[s].status # "absent"
                             => run'[s].status # "absent" /\ run'[s].owner = run[s].owner
      /\ run'[r] = new
  BY <1>1, RecordStep
<1>3. work \in [Instances -> [RunIds -> Jobs]] /\ up \subseteq Instances
  BY DEF StoreInv, StoreTypeOK
<1>4. work' \in [Instances -> [RunIds -> Jobs]]
  BY <1>1, <1>3 DEF Job
<1>5. ASSUME NEW j \in Instances, NEW s \in RunIds
      PROVE  work'[j][s] = IF j = i /\ s = r THEN job ELSE work[j][s]
  BY <1>1, <1>3 DEF Job
<1>6. StoreTypeOK'
  BY <1>2, <1>3, <1>4 DEF StoreTypeOK
<1>7. \A j \in Instances, s \in RunIds :
        work'[j][s] = work[j][s] \/ JobFits(j, run[s], work'[j][s])
                                 \/ JobFits(j, run'[s], work'[j][s])
  BY <1>1, <1>2, <1>5
<1> QED  BY <1>2, <1>6, <1>7, JobStep

\* A script without consequences for the jobs.
LEMMA ScriptStep ==
  ASSUME StoreInv, NEW r \in RunIds, NEW new, Moves(run[r], new), Store(r, new),
         UNCHANGED <<work, up>>, faults' \in [{"crashes", "store"} -> Nat],
         notices' \subseteq Instances \X RunIds
  PROVE  StoreInv'
<1>1. /\ run' \in [RunIds -> Records]
      /\ \A s \in RunIds : RecordFits(run'[s])
      /\ \A s \in RunIds : run[s].status # "absent"
                             => run'[s].status # "absent" /\ run'[s].owner = run[s].owner
  BY RecordStep
<1>2. StoreTypeOK'
  BY <1>1 DEF StoreInv, StoreTypeOK
<1> QED  BY <1>1, <1>2, JobStep

\* Some jobs change, the records do not.
LEMMA OnlyJobsStep ==
  ASSUME StoreInv, UNCHANGED run, up' \subseteq Instances,
         work' \in [Instances -> [RunIds -> Jobs]],
         faults' \in [{"crashes", "store"} -> Nat], notices' \subseteq Instances \X RunIds,
         \A j \in Instances, s \in RunIds : JobFits(j, run[s], work[j][s])'
  PROVE  StoreInv'
BY DEF StoreInv, StoreTypeOK, RecordFits

\* A fault is counted.
LEMMA FaultTyped ==
  ASSUME StoreInv, NEW what \in {"crashes", "store"}, NEW limit, Fault(what, limit)
  PROVE  faults' \in [{"crashes", "store"} -> Nat]
BY DEF StoreInv, StoreTypeOK, Fault

\* What is known of the rows of one run and one job.
LEMMA RowsOf ==
  ASSUME StoreInv, NEW r \in RunIds
  PROVE  /\ run \in [RunIds -> Records] /\ run[r] \in Records /\ RecordFits(run[r])
         /\ faults \in [{"crashes", "store"} -> Nat] /\ notices \subseteq Instances \X RunIds
         /\ \A i \in Instances : work[i][r] \in Jobs /\ JobFits(i, run[r], work[i][r])
BY DEF StoreInv, StoreTypeOK

LEMMA RunFunction == \A i \in Instances : StoreInv => work[i] \in [RunIds -> Jobs]
BY DEF StoreInv, StoreTypeOK

LEMMA KeepsRun == \A rec : Moves(rec, rec)
BY DEF Moves

\* A job that works on is as fit as it was, whatever else it remembers.
LEMMA JobGoesOn ==
  ASSUME NEW i, NEW rec, NEW job, NEW new, JobFits(i, rec, job), job.pc # "none",
         new.pc \in {"complete", "again"} => new.outcome \in EndStatuses
  PROVE  JobFits(i, rec, new)
BY DEF JobFits

LEMMA NoJobFits == NoJob \in Jobs /\ \A i, rec : JobFits(i, rec, NoJob)
BY DEF NoJob, Jobs, JobFits

\* Aborting a job leaves it where it is.
LEMMA AbortFits ==
  ASSUME NEW i, NEW rec, NEW job \in Jobs, JobFits(i, rec, job), NEW b \in BOOLEAN
  PROVE  [job EXCEPT !.aborted = b] \in Jobs /\ JobFits(i, rec, [job EXCEPT !.aborted = b])
BY DEF Jobs, JobFits

Created(i) == [Absent EXCEPT !.status = "queued", !.owner = i, !.lease = "live"]

LEMMA CreatedMoves ==
  ASSUME NEW i \in Instances, NEW rec, rec.status = "absent"
  PROVE  Moves(rec, Created(i)) /\ JobFits(i, Created(i), NoJob)
         /\ Created(i).owner = i /\ Created(i).status = "queued"
BY DEF Moves, Created, Absent, JobFits, NoJob

LEMMA PostStep ==
  ASSUME StoreInv, NEW i \in Instances, NEW r \in RunIds,
         CreateOrGet(i, r) \/ CreateFails(i, r)
  PROVE  StoreInv'
<1>1. CASE CreateFails(i, r)
  <2>1. Store(r, Created(i)) /\ Moves(run[r], Created(i))
    BY <1>1, CreatedMoves DEF CreateFails, Created
  <2>2. faults' \in [{"crashes", "store"} -> Nat]
    BY <1>1, FaultTyped DEF CreateFails
  <2> QED  BY <1>1, <2>1, <2>2, ScriptStep, RowsOf DEF CreateFails
<1>2. CASE CreateOrGet(i, r) /\ run[r].status # "absent"
  <2>1. Store(r, Expired(run[r])) /\ Moves(run[r], Expired(run[r]))
    BY <1>2, ExpiredMoves, RowsOf DEF CreateOrGet
  <2> QED  BY <1>2, <2>1, ScriptStep, RowsOf DEF CreateOrGet
<1>3. CASE CreateOrGet(i, r) /\ run[r].status = "absent"
  <2> DEFINE job == [NoJob EXCEPT !.pc = "mark"]
  <2>1. Store(r, Created(i)) /\ Moves(run[r], Created(i)) /\ Job(i, r, job)
    BY <1>3, CreatedMoves DEF CreateOrGet, Created
  <2>2. i \in up
    BY <1>3 DEF CreateOrGet
  <2>3. job \in Jobs /\ JobFits(i, Created(i), job)
    BY <2>2 DEF Jobs, NoJob, JobFits, Created, Absent
  <2>4. JobMoves(i, r)
    BY <2>1, <2>3 DEF JobMoves
  <2> QED  BY <1>3, <2>4, JobMovesStep, RowsOf DEF CreateOrGet
<1> QED  BY <1>1, <1>2, <1>3

LEMMA ReaderStep ==
  ASSUME StoreInv, NEW r \in RunIds,
         Get(r) \/ RequestCancel(r) \/ LeaseRunsOut(r) \/ OwnerStalls(r)
  PROVE  StoreInv'
<1>1. CASE Get(r)
  <2>1. Store(r, Expired(run[r])) /\ Moves(run[r], Expired(run[r]))
    BY <1>1, ExpiredMoves, RowsOf DEF Get
  <2> QED  BY <1>1, <2>1, ScriptStep, RowsOf DEF Get
<1>2. CASE RequestCancel(r)
  <2>1. run[r].status \in LiveStatuses /\ run[r].owner \in Instances
    BY <1>2, RowsOf DEF RequestCancel, Live, LiveStatuses, RecordFits
  <2>2. notices' \subseteq Instances \X RunIds
    BY <1>2, <2>1, RowsOf DEF RequestCancel
  <2>3. Moves(run[r], [run[r] EXCEPT !.cancel = TRUE])
    BY <2>1, RowsOf DEF Moves, Records
  <2> QED  BY <1>2, <2>2, <2>3, ScriptStep, RowsOf DEF RequestCancel
<1>3. CASE LeaseRunsOut(r) \/ OwnerStalls(r)
  <2>1. RunOut(r) /\ faults' \in [{"crashes", "store"} -> Nat]
    BY <1>3, FaultTyped, RowsOf DEF LeaseRunsOut, OwnerStalls
  <2>2. run[r].status \in LiveStatuses
    BY <2>1 DEF RunOut, Live, LiveStatuses
  <2>3. Moves(run[r], [run[r] EXCEPT !.lease = "expired"])
    BY <2>2, RowsOf DEF Moves, Records
  <2> QED  BY <2>1, <2>3, ScriptStep, RowsOf DEF RunOut
<1> QED  BY <1>1, <1>2, <1>3

LEMMA MarkRunningMoves ==
  ASSUME StoreInv, NEW i \in Instances, NEW r \in RunIds, MarkRunning(i, r)
  PROVE  JobMoves(i, r)
<1> DEFINE old == work[i][r]
           next == IF Ended(r)' THEN NoJob
                   ELSE [old EXCEPT !.pc = "work", !.aborted = @ \/ run[r].cancel]
<1>1. old \in Jobs /\ JobFits(i, run[r], old) /\ old.pc = "mark" /\ run[r] \in Records
  BY RowsOf DEF MarkRunning
<1>2. Store(r, Marked(run[r])) /\ Moves(run[r], Marked(run[r])) /\ Job(i, r, next)
  BY <1>1, MarkedMoves DEF MarkRunning
<1>3. [old EXCEPT !.pc = "work", !.aborted = @ \/ run[r].cancel] \in Jobs
  BY <1>1 DEF Jobs, Records
<1>4. JobFits(i, run[r], [old EXCEPT !.pc = "work", !.aborted = @ \/ run[r].cancel])
  BY <1>1, <1>3, JobGoesOn DEF Jobs
<1>5. next \in Jobs /\ JobFits(i, run[r], next)
  BY <1>3, <1>4, NoJobFits
<1> QED  BY <1>2, <1>5 DEF JobMoves

LEMMA WorkflowEndsMoves ==
  ASSUME StoreInv, NEW i \in Instances, NEW r \in RunIds, WorkflowEnds(i, r)
  PROVE  JobMoves(i, r)
<1> DEFINE old == work[i][r]
<1>1. old \in Jobs /\ JobFits(i, run[r], old) /\ old.pc = "work"
  BY RowsOf DEF WorkflowEnds
<1>2. PICK end \in EndStatuses :
        Job(i, r, [old EXCEPT !.pc = "complete", !.outcome = end])
  BY DEF WorkflowEnds
<1> DEFINE next == [old EXCEPT !.pc = "complete", !.outcome = end]
<1>3. next \in Jobs /\ next.outcome \in EndStatuses
  BY <1>1 DEF Jobs
<1>4. JobFits(i, run[r], next)
  BY <1>1, <1>3, JobGoesOn
<1>5. Store(r, run[r]) /\ Moves(run[r], run[r])
  BY RowsOf, KeepsRun DEF Store, WorkflowEnds
<1> QED  BY <1>2, <1>3, <1>4, <1>5 DEF JobMoves

LEMMA CompleteMoves ==
  ASSUME StoreInv, NEW i \in Instances, NEW r \in RunIds, Complete(i, r)
  PROVE  JobMoves(i, r)
<1>1. work[i][r].outcome \in EndStatuses
  BY RowsOf DEF Complete, JobFits
<1>2. Moves(run[r], Completed(run[r], i, work[i][r].outcome))
  BY <1>1, CompletedMoves, RowsOf
<1> QED  BY <1>2, NoJobFits DEF Complete, JobMoves

LEMMA StoreThrowsMoves ==
  ASSUME StoreInv, NEW i \in Instances, NEW r \in RunIds, StoreThrows(i, r)
  PROVE  JobMoves(i, r)
<1> DEFINE old == work[i][r]
           caught == [old EXCEPT !.pc = "again",
                        !.outcome = IF old.aborted THEN "cancelled" ELSE "failed"]
           next == IF old.pc = "again" THEN NoJob ELSE caught
<1>1. old \in Jobs /\ JobFits(i, run[r], old) /\ run[r] \in Records
      /\ old.pc \in {"mark", "complete", "again"}
  BY RowsOf DEF StoreThrows
<1>2. caught \in Jobs /\ caught.outcome \in EndStatuses
  BY <1>1 DEF Jobs, EndStatuses
<1>3. JobFits(i, run[r], caught)
  BY <1>1, <1>2, JobGoesOn
<1>4. next \in Jobs /\ JobFits(i, run[r], next) /\ Job(i, r, next)
  BY <1>2, <1>3, NoJobFits DEF StoreThrows
<1>5. \E new : Moves(run[r], new) /\ Store(r, new)
  <2>1. CASE UNCHANGED run
    BY <2>1, RowsOf, KeepsRun DEF Store
  <2>2. CASE old.pc = "mark" /\ Store(r, Marked(run[r]))
    BY <2>2, <1>1, MarkedMoves
  <2>3. CASE old.pc # "mark" /\ Store(r, Completed(run[r], i, old.outcome))
    BY <2>3, <1>1, CompletedMoves DEF JobFits
  <2> QED  BY <2>1, <2>2, <2>3 DEF StoreThrows
<1> QED  BY <1>4, <1>5 DEF JobMoves

LEMMA WorkerStep ==
  ASSUME StoreInv, NEW i \in Instances, NEW r \in RunIds,
         MarkRunning(i, r) \/ WorkflowEnds(i, r) \/ Complete(i, r) \/ StoreThrows(i, r)
  PROVE  StoreInv'
<1>1. JobMoves(i, r)
  BY MarkRunningMoves, WorkflowEndsMoves, CompleteMoves, StoreThrowsMoves
<1>2. faults' \in [{"crashes", "store"} -> Nat]
  BY FaultTyped, RowsOf DEF MarkRunning, WorkflowEnds, Complete, StoreThrows
<1> QED
  BY <1>1, <1>2, JobMovesStep, RowsOf DEF MarkRunning, WorkflowEnds, Complete, StoreThrows

\* Aborting, with whatever a script stores for the run.
LEMMA AbortMoves ==
  ASSUME StoreInv, NEW i \in Instances, NEW r \in RunIds, Abort(i, r),
         NEW new, Moves(run[r], new), Store(r, new)
  PROVE  JobMoves(i, r)
<1> DEFINE next == [work[i][r] EXCEPT !.aborted = (work[i][r].pc # "none")]
<1>1. work[i][r] \in Jobs /\ JobFits(i, run[r], work[i][r])
  BY RowsOf
<1>2. next \in Jobs /\ JobFits(i, run[r], next)
  BY <1>1, AbortFits
<1> QED  BY <1>2 DEF Abort, JobMoves

LEMMA ControllerStep ==
  ASSUME StoreInv, NEW i \in Instances, NEW r \in RunIds,
         Heartbeat(i, r) \/ PollCancel(i, r) \/ Notified(i, r) \/ NoticeLost(i, r)
  PROVE  StoreInv'
<1>1. CASE Heartbeat(i, r)
  <2>1. Store(r, Renewed(run[r], i)) /\ Moves(run[r], Renewed(run[r], i))
    BY <1>1, RenewedMoves, RowsOf DEF Heartbeat
  <2> QED  BY <1>1, <2>1, ScriptStep, RowsOf DEF Heartbeat
<1>2. CASE PollCancel(i, r)
  <2>1. Store(r, Expired(run[r])) /\ Moves(run[r], Expired(run[r]))
    BY <1>2, ExpiredMoves, RowsOf DEF PollCancel
  <2>2. CASE UNCHANGED work
    BY <1>2, <2>1, <2>2, ScriptStep, RowsOf DEF PollCancel
  <2>3. CASE Abort(i, r)
    BY <1>2, <2>1, <2>3, AbortMoves, JobMovesStep, RowsOf DEF PollCancel
  <2> QED  BY <1>2, <2>2, <2>3 DEF PollCancel
<1>3. CASE Notified(i, r)
  <2>1. Store(r, run[r]) /\ Moves(run[r], run[r]) /\ Abort(i, r)
    BY <1>3, RowsOf, KeepsRun DEF Notified, Store
  <2> QED  BY <1>3, <2>1, AbortMoves, JobMovesStep, RowsOf DEF Notified
<1>4. CASE NoticeLost(i, r)
  <2>1. Store(r, run[r]) /\ Moves(run[r], run[r])
    BY <1>4, RowsOf, KeepsRun DEF NoticeLost, Store
  <2> QED  BY <1>4, <2>1, ScriptStep, RowsOf DEF NoticeLost
<1> QED  BY <1>1, <1>2, <1>3, <1>4

LEMMA InstanceStep ==
  ASSUME StoreInv, NEW i \in Instances, Crash(i) \/ Restart(i) \/ Shutdown(i)
  PROVE  StoreInv'
<1>1. /\ work \in [Instances -> [RunIds -> Jobs]] /\ up \subseteq Instances
      /\ notices \subseteq Instances \X RunIds /\ faults \in [{"crashes", "store"} -> Nat]
      /\ \A j \in Instances, s \in RunIds : work[j][s] \in Jobs /\ JobFits(j, run[s], work[j][s])
  BY DEF StoreInv, StoreTypeOK
<1>2. UNCHANGED <<run, notices>> /\ up' \subseteq Instances
      /\ faults' \in [{"crashes", "store"} -> Nat]
  BY <1>1, FaultTyped DEF Crash, Restart, Shutdown
<1>3. CASE Crash(i)
  <2>1. work' \in [Instances -> [RunIds -> Jobs]]
    BY <1>1, <1>3, NoJobFits DEF Crash
  <2>2. ASSUME NEW j \in Instances, NEW s \in RunIds
        PROVE  JobFits(j, run[s], work[j][s])'
    <3>1. CASE j = i
      <4>1. work'[j][s] = NoJob
        BY <1>1, <1>3, <3>1 DEF Crash
      <4> QED  BY <4>1 DEF JobFits, NoJob
    <3>2. CASE j # i
      <4>1. work'[j][s] = work[j][s] /\ (j \in up => j \in up')
        BY <1>1, <1>3, <3>2 DEF Crash
      <4> QED  BY <1>1, <1>2, <4>1 DEF JobFits
    <3> QED  BY <3>1, <3>2
  <2> QED  BY <1>1, <1>2, <2>1, <2>2, OnlyJobsStep
<1>4. CASE Restart(i)
  <2>1. \A j \in Instances, s \in RunIds : JobFits(j, run[s], work[j][s])'
    BY <1>1, <1>2, <1>4 DEF JobFits, Restart
  <2> QED  BY <1>1, <1>2, <1>4, <2>1, OnlyJobsStep DEF Restart
<1>5. CASE Shutdown(i)
  <2> DEFINE stopped(s) == [work[i][s] EXCEPT !.aborted = (work[i][s].pc # "none")]
  <2>1. \A s \in RunIds : stopped(s) \in Jobs /\ JobFits(i, run[s], stopped(s))
    BY <1>1, AbortFits
  <2>2. work' = [work EXCEPT ![i] = [s \in RunIds |-> stopped(s)]] /\ up' = up
    BY <1>5 DEF Shutdown
  <2> HIDE DEF stopped
  <2>3. work' \in [Instances -> [RunIds -> Jobs]]
    BY <1>1, <2>1, <2>2
  <2>4. ASSUME NEW j \in Instances, NEW s \in RunIds
        PROVE  work'[j][s] = IF j = i THEN stopped(s) ELSE work[j][s]
    BY <1>1, <2>2
  <2>5. ASSUME NEW j \in Instances, NEW s \in RunIds
        PROVE  JobFits(j, run[s], work[j][s])'
    <3>1. JobFits(j, run[s], work'[j][s])
      BY <1>1, <2>1, <2>4
    <3> QED  BY <1>2, <2>2, <3>1 DEF JobFits
  <2> QED  BY <1>1, <1>2, <2>3, <2>5, OnlyJobsStep
<1> QED  BY <1>3, <1>4, <1>5

LEMMA StoreInvStep ==
  ASSUME StoreInv, [StoreNext]_storeVars
  PROVE  StoreInv'
<1>1. CASE UNCHANGED storeVars
  BY <1>1 DEF storeVars, StoreInv, StoreTypeOK, RecordFits, JobFits
<1>2. CASE StoreNext
  BY <1>2, PostStep, ReaderStep, WorkerStep, ControllerStep, InstanceStep DEF StoreNext
<1> QED  BY <1>1, <1>2

LEMMA StoreInitially == StoreInit => StoreInv
<1> SUFFICES ASSUME StoreInit PROVE StoreInv
  OBVIOUS
<1>1. Absent \in Records /\ RecordFits(Absent)
  BY DEF Absent, Records, RecordFits, LiveStatuses, EndStatuses
<1>2. StoreTypeOK
  BY <1>1, NoJobFits DEF StoreInit, StoreTypeOK
<1> QED  BY <1>1, <1>2, NoJobFits DEF StoreInit, StoreInv

\* Records, jobs, notices and instances of the AI service fit together.
THEOREM StoreCorrect == StoreSpec => []StoreInv
BY StoreInitially, StoreInvStep, PTL DEF StoreSpec

\* COMPLETE_SCRIPT and EXPIRE_OWNER_SCRIPT store the end of a run and its receipt at once:
\* whoever finds the run ended finds the receipt, and the same status in it.
THEOREM ReceiptsCorrect == StoreSpec => []StoreConsistent
<1>1. StoreInv => StoreConsistent
  BY DEF StoreInv, StoreConsistent, ReceiptWhenEnded, RecordFits, Ended
<1> QED  BY <1>1, StoreCorrect, PTL

\* createOrGet (run-store.ts) gives a run to one instance: whatever crashes, retries and
\* late replies there are, no other one executes it.
THEOREM OneExecutionCorrect == StoreSpec => []OneExecution
<1>1. StoreInv => OneExecution
  BY DEF StoreInv, OneExecution, JobFits
<1> QED  BY <1>1, StoreCorrect, PTL

-------------------------------------------------------------------------------
(* The refinement of AiService *)

\* The two variables of AiService, as the refinement mapping of AiRunStore defines them.
Shown(rec) == IF rec.status \in LiveStatuses THEN "running" ELSE rec.status

ShownRuns == [r \in RunIds |-> Shown(run[r])]
Cancelled == {r \in RunIds : run[r].cancel}

LEMMA MappingIs ==
  /\ [r \in RunIds |-> IF Live(r) THEN "running" ELSE run[r].status] = ShownRuns
  /\ {r \in RunIds : run[r].cancel} = Cancelled
BY DEF ShownRuns, Cancelled, Shown, Live, LiveStatuses

LEMMA MappingIsPrimed ==
  /\ [r \in RunIds |-> IF Live(r) THEN "running" ELSE run[r].status]' = ShownRuns'
  /\ {r \in RunIds : run[r].cancel}' = Cancelled'
BY DEF ShownRuns, Cancelled, Shown, Live, LiveStatuses

\* A script that leaves the mark of the cancellation alone creates the run, ends it, or
\* does nothing that a client sees.
LEMMA MoveIsClientStep ==
  ASSUME StoreInv, NEW r \in RunIds, NEW new, Moves(run[r], new), Store(r, new),
         new.cancel = run[r].cancel
  PROVE  [Client!AiNext]_(Client!aiVars)
<1>1. run \in [RunIds -> Records] /\ run[r] \in Records /\ RecordFits(run[r])
  BY RowsOf
<1>2. \A s \in RunIds : run'[s] = IF s = r THEN new ELSE run[s]
  BY <1>1 DEF Store
<1>3. Cancelled' = Cancelled
  BY <1>2 DEF Cancelled
<1>4. ShownRuns' = [ShownRuns EXCEPT ![r] = Shown(new)] /\ ShownRuns[r] = Shown(run[r])
  BY <1>2 DEF ShownRuns
<1>5. CASE Shown(new) = Shown(run[r])
  <2>1. ShownRuns' = ShownRuns
    BY <1>4, <1>5 DEF ShownRuns
  <2> QED  BY <1>3, <2>1, MappingIs, MappingIsPrimed DEF Client!aiVars
<1>6. CASE run[r].status = "absent" /\ \E i \in Instances : new = Created(i)
  <2>1. ShownRuns[r] = "absent" /\ Shown(new) = "running"
    BY <1>4, <1>6, CreatedMoves DEF Shown, LiveStatuses
  <2>2. Client!Accept(r)
    BY <1>3, <1>4, <2>1, MappingIs, MappingIsPrimed DEF Client!Accept
  <2> QED  BY <2>2 DEF Client!AiNext
<1>7. CASE /\ run[r].status \in LiveStatuses /\ new.status \in EndStatuses
           /\ run[r].cancel => new.status # "succeeded"
  <2>1. ShownRuns[r] = "running" /\ Shown(new) = new.status
    BY <1>4, <1>7 DEF Shown, LiveStatuses, EndStatuses
  <2>2. new.status = "succeeded" => r \notin Cancelled
    BY <1>7 DEF Cancelled
  <2>3. Client!RunEnds(r)
    BY <1>3, <1>4, <1>7, <2>1, <2>2, MappingIs, MappingIsPrimed
    DEF Client!RunEnds, Client!EndStatuses, EndStatuses
  <2> QED  BY <2>3 DEF Client!AiNext
<1>8. run[r].status \in LiveStatuses /\ new.status \in LiveStatuses => Shown(new) = Shown(run[r])
  BY DEF Shown
<1> QED  BY <1>5, <1>6, <1>7, <1>8 DEF Moves, Created

LEMMA CancelIsClientStep ==
  ASSUME StoreInv, NEW r \in RunIds, RequestCancel(r)
  PROVE  [Client!AiNext]_(Client!aiVars)
<1>1. run \in [RunIds -> Records] /\ run[r] \in Records /\ run[r].status \in LiveStatuses
  BY RowsOf DEF RequestCancel, Live, LiveStatuses
<1>2. run' = [run EXCEPT ![r] = [run[r] EXCEPT !.cancel = TRUE]]
  BY DEF RequestCancel, Store
<1>3. \A s \in RunIds : /\ run'[s].status = run[s].status
                        /\ run'[s].cancel = IF s = r THEN TRUE ELSE run[s].cancel
  BY <1>1, <1>2 DEF Records
<1>4. ShownRuns' = ShownRuns /\ Cancelled' = Cancelled \union {r}
  BY <1>3 DEF ShownRuns, Shown, Cancelled
<1>5. {s \in {r} : ShownRuns[s] = "running"} = {r}
  BY <1>1 DEF ShownRuns, Shown
<1>6. Client!CancelRun(r)
  BY <1>4, <1>5, MappingIs, MappingIsPrimed DEF Client!CancelRun
<1> QED  BY <1>6 DEF Client!AiNext

\* A step that leaves the records alone is none for the client.
LEMMA NoRunIsClientStutter ==
  ASSUME UNCHANGED run
  PROVE  [Client!AiNext]_(Client!aiVars)
<1>1. ShownRuns' = ShownRuns /\ Cancelled' = Cancelled
  BY DEF ShownRuns, Shown, Cancelled
<1> QED  BY <1>1, MappingIs, MappingIsPrimed DEF Client!aiVars

LEMMA ClientStep ==
  ASSUME StoreInv, [StoreNext]_storeVars
  PROVE  [Client!AiNext]_(Client!aiVars)
<1>1. CASE UNCHANGED run
  BY <1>1, NoRunIsClientStutter
<1>2. ASSUME NEW r \in RunIds, Get(r) \/ RequestCancel(r) \/ LeaseRunsOut(r) \/ OwnerStalls(r)
      PROVE  [Client!AiNext]_(Client!aiVars)
  <2>1. CASE Get(r)
    BY <2>1, ExpiredMoves, MoveIsClientStep, RowsOf DEF Get
  <2>2. CASE RequestCancel(r)
    BY <2>2, CancelIsClientStep
  <2>3. CASE LeaseRunsOut(r) \/ OwnerStalls(r)
    <3> DEFINE new == [run[r] EXCEPT !.lease = "expired"]
    <3>1. Store(r, new) /\ run[r].status \in LiveStatuses
      BY <2>3 DEF LeaseRunsOut, OwnerStalls, RunOut, Live, LiveStatuses
    <3>2. Moves(run[r], new) /\ new.cancel = run[r].cancel
      BY <3>1, RowsOf DEF Moves, Records
    <3> QED  BY <3>1, <3>2, MoveIsClientStep
  <2> QED  BY <1>2, <2>1, <2>2, <2>3
<1>3. ASSUME NEW i \in Instances, NEW r \in RunIds, CreateOrGet(i, r) \/ CreateFails(i, r)
      PROVE  [Client!AiNext]_(Client!aiVars)
  <2>1. CASE run[r].status = "absent"
    <3>1. Store(r, Created(i)) /\ Moves(run[r], Created(i))
      BY <1>3, <2>1, CreatedMoves DEF CreateOrGet, CreateFails, Created
    <3>2. Created(i).cancel = run[r].cancel
      BY <2>1, RowsOf DEF Created, Absent, RecordFits, Records
    <3> QED  BY <3>1, <3>2, MoveIsClientStep
  <2>2. CASE run[r].status # "absent"
    <3>1. Store(r, Expired(run[r]))
      BY <1>3, <2>2 DEF CreateOrGet, CreateFails
    <3> QED  BY <3>1, ExpiredMoves, MoveIsClientStep, RowsOf
  <2> QED  BY <2>1, <2>2
<1>4. ASSUME NEW i \in Instances, NEW r \in RunIds,
             MarkRunning(i, r) \/ Complete(i, r) \/ StoreThrows(i, r)
      PROVE  [Client!AiNext]_(Client!aiVars)
  <2>1. CASE UNCHANGED run
    BY <2>1, NoRunIsClientStutter
  <2>2. CASE Store(r, Marked(run[r]))
    BY <2>2, MarkedMoves, MoveIsClientStep, RowsOf
  <2>3. CASE work[i][r].pc \in {"complete", "again"}
             /\ Store(r, Completed(run[r], i, work[i][r].outcome))
    <3>1. work[i][r].outcome \in EndStatuses
      BY <2>3, RowsOf DEF JobFits
    <3> QED  BY <2>3, <3>1, CompletedMoves, MoveIsClientStep, RowsOf
  <2> QED  BY <1>4, <2>1, <2>2, <2>3 DEF MarkRunning, Complete, StoreThrows
<1>5. ASSUME NEW i \in Instances, NEW r \in RunIds, Heartbeat(i, r) \/ PollCancel(i, r)
      PROVE  [Client!AiNext]_(Client!aiVars)
  <2>1. CASE Heartbeat(i, r)
    BY <2>1, RenewedMoves, MoveIsClientStep, RowsOf DEF Heartbeat
  <2>2. CASE PollCancel(i, r)
    BY <2>2, ExpiredMoves, MoveIsClientStep, RowsOf DEF PollCancel
  <2> QED  BY <1>5, <2>1, <2>2
<1>6. StoreNext =>
        \/ UNCHANGED run
        \/ \E r \in RunIds : Get(r) \/ RequestCancel(r) \/ LeaseRunsOut(r) \/ OwnerStalls(r)
        \/ \E i \in Instances, r \in RunIds :
             \/ CreateOrGet(i, r) \/ CreateFails(i, r)
             \/ MarkRunning(i, r) \/ Complete(i, r) \/ StoreThrows(i, r)
             \/ Heartbeat(i, r) \/ PollCancel(i, r)
  BY DEF StoreNext, WorkflowEnds, Notified, NoticeLost, Crash, Restart, Shutdown
<1> QED  BY <1>1, <1>2, <1>3, <1>4, <1>5, <1>6 DEF storeVars

LEMMA ClientInitially == StoreInit => Client!AiInit
<1> SUFFICES ASSUME StoreInit PROVE Client!AiInit
  OBVIOUS
<1>1. \A r \in RunIds : run[r] = Absent
  BY DEF StoreInit
<1>2. ShownRuns = [r \in RunIds |-> "absent"] /\ Cancelled = {}
  BY <1>1 DEF ShownRuns, Shown, Cancelled, Absent, LiveStatuses
<1> QED  BY <1>2, MappingIs DEF Client!AiInit

\* Behind the calls of the AI client is the service it counts on (ai_client.py): the scripts
\* of several instances, crashes and lost replies included, let a run exist once, end once,
\* and not succeed after its cancellation was accepted.
THEOREM ServesClientCorrect == StoreSpec => ServesClient
<1>1. StoreInv /\ [StoreNext]_storeVars => [Client!AiNext]_(Client!aiVars)
  BY ClientStep
<1> QED
  BY <1>1, ClientInitially, StoreCorrect, PTL DEF StoreSpec, ServesClient, Client!AiSpec

===============================================================================
