----------------------------- MODULE TaskPipeline -----------------------------
(***************************************************************************)
(* The closed system around one task: the outbox dispatcher, the broker,   *)
(* workers that run TaskExecutor and the operations of the pipeline, the   *)
(* internal AI client, the AI service as that client sees it, the owner    *)
(* who may cancel or start over, and the clock.                            *)
(*                                                                         *)
(* Every call of a worker to TaskService is a step of its own, so whatever *)
(* another actor may do between two of them is between two steps here.  A  *)
(* call that TaskService refuses is an exception; where it goes depends on *)
(* where the executor is.                                                  *)
(*                                                                         *)
(* The broker acknowledges a message when a worker takes it (the default   *)
(* of the worker library), so the message of a worker that stops is gone.  *)
(***************************************************************************)
EXTENDS OutboxDispatcher

CONSTANTS
  Workers,
  MaxCrashes,       \* bound on workers that stop
  MaxPauses,        \* bound on leases that run out under a working worker
  MaxAiFaults,      \* bound on calls of the AI service that fail or time out
  MaxLostCancels,   \* bound on last cancellations of a run that do not arrive
  MaxCancels        \* 0 or 1: whether the owner cancels

ASSUME BoundsAssumption == {MaxCrashes, MaxPauses, MaxAiFaults, MaxLostCancels, MaxCancels} \subseteq Nat

VARIABLES
  worker,           \* what each worker is doing, see WorkerStates
  aiRun,            \* the status of each run in the AI service, "absent" before it exists
  aiCancel,         \* the runs whose cancellation the AI service has accepted
  budget            \* how much of each bound is used up

Ai == INSTANCE AiService WITH RunIds <- Runs

aiVars       == <<aiRun, aiCancel>>
pipelineVars == <<taskVars, dispatchVars, worker, aiRun, aiCancel, budget>>

-------------------------------------------------------------------------------
(* Workers *)

Steps == {"idle", "claim", "begin", "rules", "post", "register", "poll", "acknowledge",
          "apply", "abandon", "raised", "reconcile", "finalize", "release", "mark",
          "handle", "fail", "returned"}

\* tok: the claim; run: the run being executed; watching: cancellation is passed to the
\* client; stop: the client knows the task is cancelled; sent: it told the AI service;
\* outcome: of the receipt; retry: the error is one of should_retry.
WorkerStates ==
  [pc : Steps, tok : Nat, run : Runs, watching : BOOLEAN, stop : BOOLEAN, sent : BOOLEAN,
   outcome : ReceiptStatuses \union {"none"}, retry : BOOLEAN]

Idle == [pc |-> "idle", tok |-> NoClaim, run |-> "first", watching |-> FALSE, stop |-> FALSE,
         sent |-> FALSE, outcome |-> "none", retry |-> FALSE]

At(w, pc) == worker[w].pc = pc
Token(w)  == worker[w].tok
Run(w)    == worker[w].run
Become(w, state) == worker' = [worker EXCEPT ![w] = state]
GoTo(w, pc)      == Become(w, [worker[w] EXCEPT !.pc = pc])
Leave(w)         == Become(w, Idle)

\* The coroutine raises, with an error that should_retry accepts or not.
Raise(w, pc, retryable) == Become(w, [worker[w] EXCEPT !.pc = pc, !.retry = retryable])

\* The operation starts to execute a run; a match whose active run is the second one
\* repeats the first without watching for a cancellation.
StartRun(w, run) ==
  Become(w, [worker[w] EXCEPT
    !.pc = "post", !.run = run, !.stop = FALSE, !.sent = FALSE,
    !.watching = (activeRun \in {NoRun, run} \/ run = "second")])

Spend(what, limit) ==
  /\ budget[what] < limit
  /\ budget' = [budget EXCEPT ![what] = @ + 1]

outsideVars == <<dispatchVars, aiVars, budget>>

-------------------------------------------------------------------------------
(* execute: taking a message, claiming, and the two ways an attempt ends *)

Deliver(w) ==
  /\ At(w, "idle")
  /\ broker > 0
  /\ broker' = broker - 1
  /\ GoTo(w, "claim")
  /\ UNCHANGED <<taskVars, outbox, publishFaults, aiVars, budget>>

\* A claim that is granted; the claim of a pending failure goes to the handler.
Claim(w) ==
  /\ At(w, "claim")
  /\ ClaimFresh \/ ClaimPending
  /\ Become(w, [Idle EXCEPT !.pc = IF stage' \in PendingStages THEN "handle" ELSE "begin",
                            !.tok = claimToken'])
  /\ UNCHANGED outsideVars

\* claim_task returns None; execute returns the ended task or raises.
ClaimRefused(w) ==
  /\ At(w, "claim")
  /\ ClaimExhausted \/ (~Claimable /\ UNCHANGED taskVars)
  /\ Leave(w)
  /\ UNCHANGED outsideVars

\* The operation returned: execute reads the task again.
Return(w) ==
  /\ At(w, "returned")
  /\ Terminal
  /\ GoTo(w, "finalize")
  /\ UNCHANGED <<taskVars, outsideVars>>

\* complete_task, for an operation that leaves the end of the task to execute.
Complete(w) ==
  /\ At(w, "returned")
  /\ \/ CompleteTask(Token(w)) /\ Leave(w)
     \/ ~Claimed(Token(w)) /\ ~Terminal /\ Raise(w, "raised", FALSE) /\ UNCHANGED taskVars
  /\ UNCHANGED outsideVars

\* The operation raised: execute reads the task again and acts on what it has read.
\* No attempt is left when attempts = MaxAttempts; it cannot grow while the claim
\* is this worker's, and a worker that lost its claim is refused either way.
Except(w) ==
  /\ At(w, "raised")
  /\ \/ status = "cancelled"              /\ GoTo(w, "reconcile")
     \/ status \in {"succeeded", "failed"} /\ GoTo(w, "finalize")
     \/ ~Terminal /\ IF worker[w].retry /\ attempts < MaxAttempts
                     THEN GoTo(w, "release")
                     ELSE GoTo(w, IF kind = "file" THEN "fail" ELSE "mark")
  /\ UNCHANGED <<taskVars, outsideVars>>

Reconcile(w) ==
  /\ At(w, "reconcile")
  /\ \/ ReconcileCancelled(Token(w))
     \/ ~Reconcilable(Token(w)) /\ UNCHANGED taskVars
  /\ Leave(w)
  /\ UNCHANGED outsideVars

Finalize(w) ==
  /\ At(w, "finalize")
  /\ \/ FinalizeUnused(Token(w))
     \/ ~Finalizable(Token(w)) /\ UNCHANGED taskVars
  /\ Leave(w)
  /\ UNCHANGED outsideVars

\* Fault: the lease is ended under whatever claim there is.
ReleaseUnfenced(w) ==
  /\ At(w, "release")
  /\ lease' = "expired"
  /\ UNCHANGED <<jobVars, status, stage, attempts, claims, claimToken, activeRun, acked,
                 ledgerVars, audited, resource, snapshot, events>>
  /\ Become(w, [Idle EXCEPT !.pc = "claim"])
  /\ UNCHANGED outsideVars

\* Fault: the attempt is given up and nobody makes another.
ReleaseAndLeave(w) ==
  /\ At(w, "release")
  /\ ReleaseClaim(Token(w)) \/ (~Claimed(Token(w)) /\ UNCHANGED taskVars)
  /\ Leave(w)
  /\ UNCHANGED outsideVars

\* The attempt is given up for another one, after a delay that is not modelled.
Release(w) ==
  /\ At(w, "release")
  /\ \/ ReleaseClaim(Token(w)) /\ Become(w, [Idle EXCEPT !.pc = "claim"])
     \/ ~Claimed(Token(w)) /\ Leave(w) /\ UNCHANGED taskVars
  /\ UNCHANGED outsideVars

\* The last attempt failed: the failure is marked, then handled by the operation.
Mark(w) ==
  /\ At(w, "mark")
  /\ \/ MarkFailurePending(Token(w), worker[w].retry) /\ GoTo(w, "handle")
     \/ ~Claimed(Token(w)) /\ Leave(w) /\ UNCHANGED taskVars
  /\ UNCHANGED outsideVars

\* The handler is tried twice; a refusal is final, so one refusal stands for both.
Handle(w) ==
  /\ At(w, "handle")
  /\ \/ HandleTerminalFailure(Token(w))
     \/ ~(Claimed(Token(w)) /\ Linked) /\ UNCHANGED taskVars
  /\ Leave(w)
  /\ UNCHANGED outsideVars

Fail(w) ==
  /\ At(w, "fail")
  /\ \/ FailTask(Token(w), worker[w].retry)
     \/ ~Claimed(Token(w)) /\ UNCHANGED taskVars
  /\ Leave(w)
  /\ UNCHANGED outsideVars

-------------------------------------------------------------------------------
(* The operations before and after their runs *)

MarksStage == kind = "parse" \/ (kind = "draft" /\ metered)

\* The transaction each AI operation begins with, and where it goes from there.
Begin(w) ==
  /\ At(w, "begin")
  /\ kind # "file"
  /\ \/ /\ IF MarksStage
           THEN BeginProcessing(Token(w))
           ELSE Claimed(Token(w)) /\ UNCHANGED taskVars
        /\ IF metered THEN StartRun(w, "first") ELSE GoTo(w, "rules")
     \/ RejectInput(Token(w)) /\ GoTo(w, "returned")
     \/ ~(Claimed(Token(w)) /\ Linked) /\ Raise(w, "raised", FALSE) /\ UNCHANGED taskVars
  /\ UNCHANGED outsideVars

\* An import, an export or a privacy job knows nothing of the claim it works under.
FileOperation(w) ==
  /\ At(w, "begin")
  /\ kind = "file"
  /\ GoTo(w, "returned") \/ \E retryable \in BOOLEAN : Raise(w, "raised", retryable)
  /\ UNCHANGED <<taskVars, outsideVars>>

Rules(w) ==
  /\ At(w, "rules")
  /\ \/ \E valid \in BOOLEAN : ApplyRules(Token(w), valid) /\ GoTo(w, "returned")
     \/ ~(Claimed(Token(w)) /\ Linked) /\ Raise(w, "raised", FALSE) /\ UNCHANGED taskVars
  /\ UNCHANGED outsideVars

\* What the receipt transaction of the operation raises on.
ReceiptRefused(tok, run, outcome, valid) ==
  \/ ~ReceiptAccepted(tok, run, outcome)
  \/ ~Linked
  \/ kind = "draft" /\ ~snapshot
  \/ kind = "analysis" /\ ~valid

Apply(w) ==
  /\ At(w, "apply")
  /\ \E valid \in BOOLEAN :
       \/ /\ \/ ApplyReceipt(Token(w), worker[w].outcome, valid)
             \/ Run(w) = "second" /\ ApplySuggestionReceipt(Token(w), worker[w].outcome, valid)
          /\ GoTo(w, "returned")
       \/ /\ Run(w) = "first"
          /\ ApplyMatchReceipt(Token(w), worker[w].outcome, valid)
          /\ IF stage' = "match" THEN StartRun(w, "second") ELSE GoTo(w, "returned")
       \/ /\ ReceiptRefused(Token(w), Run(w), worker[w].outcome, valid)
          /\ Raise(w, "raised", FALSE)
          /\ UNCHANGED taskVars
  /\ UNCHANGED outsideVars

-------------------------------------------------------------------------------
(* InternalAiClient._execute, and the AI service behind it *)

\* POST /runs; the client asks for a run by the id it derived.
Post(w) ==
  /\ At(w, "post")
  /\ Ai!Accept(Run(w))
  /\ GoTo(w, IF worker[w].watching THEN "register" ELSE "poll")
  /\ UNCHANGED <<taskVars, dispatchVars, budget>>

\* The request or its reply is lost, or the service answers with an error.
PostFault(w) ==
  /\ At(w, "post")
  /\ Spend("aiFaults", MaxAiFaults)
  /\ \/ Ai!Accept(Run(w)) /\ Raise(w, "abandon", TRUE)
     \/ \E retryable \in BOOLEAN : Raise(w, "abandon", retryable) /\ UNCHANGED aiVars
  /\ UNCHANGED <<taskVars, dispatchVars>>

\* register_run; a task found cancelled is to be cancelled in the service as well.
Register(w) ==
  /\ At(w, "register")
  /\ LET tok   == Token(w)
         run   == Run(w)
         known == Claimed(tok) \/ (CancellationRequested /\ claimToken = tok)
     IN  \/ /\ RegisterRun(tok, run) \/ (known /\ activeRun = run /\ UNCHANGED taskVars)
            /\ Become(w, [worker[w] EXCEPT !.pc = "poll", !.stop = CancellationRequested])
         \/ /\ ~known \/ activeRun \notin {NoRun, run}
            /\ Raise(w, "abandon", FALSE)
            /\ UNCHANGED taskVars
  /\ UNCHANGED outsideVars

\* is_cancel_requested, once per poll.
NoticeCancel(w) ==
  /\ At(w, "poll")
  /\ worker[w].watching
  /\ ~worker[w].stop
  /\ CancellationRequested
  /\ Become(w, [worker[w] EXCEPT !.stop = TRUE])
  /\ UNCHANGED <<taskVars, outsideVars>>

SendCancel(w) ==
  /\ At(w, "poll")
  /\ worker[w].stop
  /\ ~worker[w].sent
  /\ Ai!CancelRun(Run(w))
  /\ Become(w, [worker[w] EXCEPT !.sent = TRUE])
  /\ UNCHANGED <<taskVars, dispatchVars, budget>>

RunEnded(w) == aiRun[Run(w)] \in ReceiptStatuses

MustAcknowledge(w) == worker[w].watching /\ aiRun[Run(w)] = "cancelled"

GetReceipt(w) ==
  /\ At(w, "poll")
  /\ RunEnded(w)
  /\ Become(w, [worker[w] EXCEPT
       !.outcome = aiRun[Run(w)],
       !.pc = IF MustAcknowledge(w) THEN "acknowledge" ELSE "apply"])
  /\ UNCHANGED <<taskVars, outsideVars>>

\* A poll or a cancellation fails, the deadline passes, or a body cannot be read.
PollFault(w) ==
  /\ At(w, "poll")
  /\ Spend("aiFaults", MaxAiFaults)
  /\ \E retryable \in BOOLEAN : Raise(w, "abandon", retryable)
  /\ UNCHANGED <<taskVars, dispatchVars, aiVars>>

\* _acknowledge_terminal_cancel: what it raises is dropped.
Acknowledge(w) ==
  /\ At(w, "acknowledge")
  /\ \/ AcknowledgeCancel(Run(w))
     \/ ~(activeRun = Run(w) /\ status \in {"running", "cancelled"}) /\ UNCHANGED taskVars
  /\ GoTo(w, "apply")
  /\ UNCHANGED outsideVars

\* Fault: the run is left to itself.
AbandonSilently(w) ==
  /\ At(w, "abandon")
  /\ GoTo(w, "raised")
  /\ UNCHANGED <<taskVars, outsideVars>>

\* The finally clause: a run that is left before its receipt came is cancelled, unless
\* it was told so before.
Abandon(w) ==
  /\ At(w, "abandon")
  /\ IF worker[w].sent THEN UNCHANGED aiVars ELSE Ai!CancelRun(Run(w))
  /\ GoTo(w, "raised")
  /\ UNCHANGED <<taskVars, dispatchVars, budget>>

AbandonFault(w) ==
  /\ At(w, "abandon")
  /\ ~worker[w].sent
  /\ Spend("lostCancels", MaxLostCancels)
  /\ GoTo(w, "raised")
  /\ UNCHANGED <<taskVars, dispatchVars, aiVars>>

-------------------------------------------------------------------------------
(* Everybody else *)

\* A worker process stops; nothing of what it was doing is undone.
Crash(w) ==
  /\ ~At(w, "idle")
  /\ Spend("crashes", MaxCrashes)
  /\ Leave(w)
  /\ UNCHANGED <<taskVars, dispatchVars, aiVars>>

\* The lease is far longer than a step, so it runs out when nobody works under the
\* claim, or under a worker that was paused.
Working == \E w \in Workers : ~At(w, "idle") /\ Token(w) = claimToken

Time ==
  /\ LeaseExpires
  /\ IF Working THEN Spend("pauses", MaxPauses) ELSE UNCHANGED budget
  /\ UNCHANGED <<dispatchVars, worker, aiVars>>

Owner ==
  /\ \/ RequestCancel /\ Spend("cancels", MaxCancels)
     \/ (StartAgain \/ LeaveFailedAnalysis) /\ UNCHANGED budget
  /\ UNCHANGED <<dispatchVars, worker, aiVars>>

Dispatcher == DispatchNext /\ UNCHANGED <<worker, aiVars, budget>>

EndRun(run) == Ai!RunEnds(run) /\ UNCHANGED <<taskVars, dispatchVars, worker, budget>>

-------------------------------------------------------------------------------

PipelineInit ==
  /\ TaskInit
  /\ OutboxInit
  /\ worker = [w \in Workers |-> Idle]
  /\ Ai!AiInit
  /\ budget = [b \in {"crashes", "pauses", "aiFaults", "lostCancels", "cancels"} |-> 0]

Client(w) == Post(w) \/ Register(w) \/ NoticeCancel(w) \/ SendCancel(w) \/ GetReceipt(w)
               \/ Acknowledge(w) \/ Abandon(w)

Operation(w) == Begin(w) \/ FileOperation(w) \/ Rules(w) \/ Apply(w)

Executor(w) == Claim(w) \/ ClaimRefused(w) \/ Return(w) \/ Complete(w) \/ Except(w)
                 \/ Reconcile(w) \/ Finalize(w) \/ Release(w) \/ Mark(w) \/ Handle(w) \/ Fail(w)

Work(w) == Deliver(w) \/ Executor(w) \/ Operation(w) \/ Client(w)

PipelineNext ==
  \/ \E w \in Workers : Work(w) \/ PostFault(w) \/ PollFault(w) \/ AbandonFault(w) \/ Crash(w)
  \/ \E run \in Runs : EndRun(run)
  \/ Dispatcher
  \/ Time
  \/ Owner

PipelineSpec == PipelineInit /\ [][PipelineNext]_pipelineVars

\* The dispatcher loop keeps publishing, workers that do not stop keep working, and
\* every run ends (its budget and its timeouts see to that).  Nobody has to cancel,
\* to fail, or to start over.
Fairness ==
  /\ WF_pipelineVars(Publish /\ UNCHANGED <<worker, aiVars, budget>>)
  /\ \A w \in Workers : WF_pipelineVars(Work(w))
  /\ \A run \in Runs : WF_pipelineVars(EndRun(run))

FairPipelineSpec == PipelineSpec /\ Fairness

-------------------------------------------------------------------------------
(* Correctness *)

PipelineTypeOK ==
  /\ TypeOK
  /\ outbox \in [state : {"pending", "dispatched", "exhausted"}, attempts : 0..MaxDispatchAttempts]
  /\ broker \in Nat
  /\ worker \in [Workers -> WorkerStates]
  /\ Ai!AiTypeOK

\* The steps of the closed system are steps of the open one: what is proved of
\* TaskService for any caller holds for the callers there are.
UsesTaskService == TaskSpec

\* Money follows runs: the service holds every run that is active, billed or stored,
\* and a receipt is stored only of a run that ended.
BilledRunsExist ==
  /\ activeRun # NoRun => aiRun[activeRun] # "absent"
  /\ billedRun # NoRun => aiRun[billedRun] # "absent"
  /\ \A run \in audited : aiRun[run] \in ReceiptStatuses

\* A published model result is the result of runs that all succeeded.
ResultsComeFromRuns ==
  metered /\ resource = "done" =>
    \A run \in RunsOf(kind) : run \in audited /\ aiRun[run] = "succeeded"

Quiet == broker = 0 /\ outbox.state # "pending" /\ \A w \in Workers : At(w, "idle")

\* The task takes a cancellation for acknowledged only if the service cancelled the run.
AcknowledgedIsCancelled == acked => activeRun # NoRun /\ aiRun[activeRun] = "cancelled"

\* What the rows of a task say of its runs is what the service knows of them.
RunsAgree == PipelineTypeOK /\ BilledRunsExist /\ ResultsComeFromRuns /\ AcknowledgedIsCancelled

\* Once Pi accepts a run, the reservation is consumed; given back, it paid for nothing.
GivenBackMeansUnused == ledger = "released" => \A run \in Runs : aiRun[run] = "absent"

\* It takes a fault in the call of the service, a stopped worker, an overtaken one or a
\* broker that takes messages it refused to lose sight of an accepted run.
UnusedUnlessFault ==
  /\ budget.aiFaults + budget.crashes + budget.pauses = 0
  /\ outbox.state # "exhausted"
  => GivenBackMeansUnused

\* Once nobody works for an ended task, none of its runs goes on unasked: it ended,
\* or its cancellation was accepted.
NoOrphanRun ==
  Quiet /\ Terminal => \A run \in Runs : aiRun[run] = "running" => run \in aiCancel

\* A task that nobody works for any more has ended.
NothingForgotten == Quiet => Terminal

\* Neither a task nor a run is lost sight of before it has ended.
NothingIsLost == NothingForgotten /\ NoOrphanRun

\* The row an ended task worked on is free or carries its result.
RowIsFree == Quiet /\ Terminal => resource # "busy"

\* The job of a parse is never left behind; drafts, answers and matches may be (README).
JobIsFree == kind = "parse" => RowIsFree

\* Every task ends, and every worker comes back for another message.
TaskEnds == <>Terminal
WorkersComeBack == \A w \in Workers : []<>At(w, "idle")

\* The workers finish what they were handed, and no step of theirs goes on for ever.
WorkFinishes == TaskEnds /\ WorkersComeBack

===============================================================================
