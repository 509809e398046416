--------------------------- MODULE TaskPipelineProofs --------------------------
(***************************************************************************)
(* What holds of the closed system around a task, for every number of      *)
(* workers, attempts, publishes and faults.  The invariants build on each  *)
(* other:                                                                  *)
(*                                                                         *)
(*   CallersInv  the workers hold tokens that were issued, no two the same *)
(*               one: their calls are calls of TaskService, which brings   *)
(*               in everything that is proved of it                        *)
(*   RunsInv     what a worker may rely on of the run it executes          *)
(*   WorkedInv   who works for the task works under its claim, and a task  *)
(*               that is not over is in somebody's hands                   *)
(*   WatchInv    a run that goes on unasked has a worker that follows it   *)
(*   ChargeInv   a run is asked for under a reservation that nobody can    *)
(*               give back                                                 *)
(*                                                                         *)
(* The last three hold until the first fault of a kind that their theorem  *)
(* names.                                                                  *)
(***************************************************************************)
EXTENDS TaskPipeline, TaskServiceProofs

-------------------------------------------------------------------------------
(* The pipeline: its workers are callers of the task service *)

\* What a worker knows of its claim, when n tokens were issued: none before it claims, and
\* one of them from then on.  What it hands over as a receipt is the end of a run.
HoldsToken(row, n) ==
  /\ row.pc \in {"idle", "claim"} => row.tok = NoClaim
  /\ row.pc \notin {"idle", "claim"} => row.tok \in 1..n
  /\ row.pc \in {"acknowledge", "apply"} => row.outcome \in ReceiptStatuses

Limit == [crashes |-> MaxCrashes, pauses |-> MaxPauses, aiFaults |-> MaxAiFaults,
          lostCancels |-> MaxLostCancels, cancels |-> MaxCancels]

Faults == {"crashes", "pauses", "aiFaults", "lostCancels", "cancels"}

CallersInv ==
  /\ PipelineTypeOK
  /\ outbox.state = "pending" => outbox.attempts < MaxDispatchAttempts
  /\ budget \in [Faults -> Nat] /\ \A what \in Faults : budget[what] <= Limit[what]
  /\ \A w \in Workers : HoldsToken(worker[w], claims)
  /\ \A v, w \in Workers : v # w /\ Token(w) # NoClaim => Token(v) # Token(w)

\* Worker w goes on as row, which keeps its claim, drops it or is the newest one.
GoesOn(w, row) ==
  /\ worker' = [worker EXCEPT ![w] = row]
  /\ row \in WorkerStates
  /\ HoldsToken(row, claims')
  /\ row.tok \in {worker[w].tok, NoClaim} \/ (row.tok = claims' /\ claims' = claims + 1)

WorkersTyped ==
  /\ worker \in [Workers -> WorkerStates]
  /\ \A w \in Workers : HoldsToken(worker[w], claims)
  /\ \A v, w \in Workers : v # w /\ Token(w) # NoClaim => Token(v) # Token(w)

LEMMA LimitsAre == \A what \in Faults : Limit[what] \in Nat
BY BoundsAssumption DEF Limit, Faults

\* A worker that goes on leaves all of them typed, with tokens of their own.
LEMMA GoesOnTyped ==
  ASSUME WorkersTyped, claims \in Nat, claims' \in Nat, claims <= claims',
         NEW w \in Workers, NEW row, GoesOn(w, row)
  PROVE  WorkersTyped'
<1>1. worker' \in [Workers -> WorkerStates]
  BY DEF WorkersTyped, GoesOn
<1>2. ASSUME NEW v \in Workers PROVE HoldsToken(worker[v], claims)'
  BY <1>2 DEF WorkersTyped, GoesOn, HoldsToken
<1>3. ASSUME NEW u \in Workers, NEW v \in Workers, u # v, Token(v)' # NoClaim
      PROVE  Token(u)' # Token(v)'
  <2>1. \A x \in Workers : worker[x].tok \in 0..claims
    BY DEF WorkersTyped, HoldsToken, NoClaim
  <2> QED  BY <1>3, <2>1 DEF WorkersTyped, GoesOn, Token, NoClaim
<1> QED  BY <1>1, <1>2, <1>3 DEF WorkersTyped

\* The rows a worker may take, and those it takes.
LEMMA RowTyped ==
  ASSUME NEW row \in WorkerStates
  PROVE  /\ row.pc \in Steps /\ row.tok \in Nat /\ row.run \in Runs /\ row.watching \in BOOLEAN
         /\ row.stop \in BOOLEAN /\ row.sent \in BOOLEAN /\ row.retry \in BOOLEAN
         /\ row.outcome \in ReceiptStatuses \union {"none"}
         /\ \A pc \in Steps : [row EXCEPT !.pc = pc] \in WorkerStates
         /\ \A pc \in Steps, retry \in BOOLEAN :
              [row EXCEPT !.pc = pc, !.retry = retry] \in WorkerStates
         /\ \A pc \in Steps, flag \in BOOLEAN :
              [row EXCEPT !.pc = pc, !.stop = flag] \in WorkerStates
BY DEF WorkerStates

LEMMA IdleTyped ==
  /\ Idle \in WorkerStates /\ Idle.pc = "idle" /\ Idle.tok = NoClaim
  /\ [Idle EXCEPT !.pc = "claim"] \in WorkerStates
BY DEF Idle, WorkerStates, Steps, NoClaim, Runs

\* No transaction changes what the task is, takes back a claim or drops a receipt.
TaskGrows ==
  /\ kind' = kind /\ metered' = metered
  /\ claims' \in {claims, claims + 1}
  /\ audited \subseteq audited'

LEMMA TaskStepGrows ==
  ASSUME [TaskNext]_taskVars
  PROVE  TaskGrows
<1> USE DEF TaskGrows, jobVars
<1>1. CASE UNCHANGED taskVars
  BY <1>1 DEF taskVars
<1>2. CASE ClaimTask
  BY <1>2 DEF ClaimTask, ClaimExhausted, ClaimFresh, ClaimPending, NewClaim
<1>3. CASE LeaseExpires
  BY <1>3 DEF LeaseExpires
<1>4. CASE OwnerCall
  BY <1>4 DEF OwnerCall, RequestCancel, StartAgain, LeaveFailedAnalysis
<1>5. CASE FailExhausted
  BY <1>5 DEF FailExhausted
<1>6. ASSUME NEW tok \in Tokens, WorkerCall(tok) PROVE TaskGrows
  <2>1. CASE ReleaseClaim(tok) \/ ReconcileCancelled(tok) \/ FinalizeUnused(tok) \/ BeginProcessing(tok)
    BY <2>1 DEF ReleaseClaim, ReconcileCancelled, FinalizeUnused, BeginProcessing
  <2>2. CASE RejectInput(tok) \/ CompleteTask(tok) \/ HandleTerminalFailure(tok)
    BY <2>2 DEF RejectInput, CompleteTask, HandleTerminalFailure
  <2>3. ASSUME NEW run \in Runs, RegisterRun(tok, run) PROVE TaskGrows
    BY <2>3 DEF RegisterRun
  <2>4. ASSUME NEW flag \in BOOLEAN,
               ApplyRules(tok, flag) \/ FailTask(tok, flag) \/ MarkFailurePending(tok, flag)
        PROVE  TaskGrows
    BY <2>4 DEF ApplyRules, FailTask, MarkFailurePending
  <2>5. ASSUME NEW flag \in BOOLEAN, NEW outcome \in ReceiptStatuses,
               \/ ApplyReceipt(tok, outcome, flag)
               \/ ApplyMatchReceipt(tok, outcome, flag)
               \/ ApplySuggestionReceipt(tok, outcome, flag)
        PROVE  TaskGrows
    BY <2>5 DEF ApplyReceipt, ApplyMatchReceipt, ApplySuggestionReceipt, StoreReceipt
  <2> QED  BY <1>6, <2>1, <2>2, <2>3, <2>4, <2>5 DEF WorkerCall
<1>7. ASSUME NEW run \in Runs, AcknowledgeCancel(run) PROVE TaskGrows
  BY <1>7 DEF AcknowledgeCancel
<1> QED  BY <1>1, <1>2, <1>3, <1>4, <1>5, <1>6, <1>7 DEF TaskNext

\* Past its claim a worker holds a token that was issued, so its calls are among WorkerCall.
LEMMA CallerHolds ==
  ASSUME CallersInv, NEW w \in Workers, worker[w].pc \notin {"idle", "claim"}
  PROVE  Token(w) \in Tokens
BY DEF CallersInv, HoldsToken, Token, Tokens

\* The transactions that leave the runs of the task alone; only Register, Apply and
\* Acknowledge call the others.
PlainCall(tok) ==
  \/ ReleaseClaim(tok)
  \/ ReconcileCancelled(tok)
  \/ FinalizeUnused(tok)
  \/ BeginProcessing(tok)
  \/ RejectInput(tok)
  \/ CompleteTask(tok)
  \/ HandleTerminalFailure(tok)
  \/ \E flag \in BOOLEAN : ApplyRules(tok, flag) \/ FailTask(tok, flag) \/ MarkFailurePending(tok, flag)

PlainStep ==
  \/ UNCHANGED taskVars
  \/ ClaimTask
  \/ LeaseExpires
  \/ OwnerCall
  \/ FailExhausted
  \/ \E tok \in Tokens : PlainCall(tok)

\* Each step of the pipeline is a call of the service, or none: first the calls that leave the
\* runs alone, by actor, then the three that do not.
LEMMA PlainStepUses == PlainStep => [TaskNext]_taskVars
BY DEF PlainStep, PlainCall, TaskNext, WorkerCall

\* What worker w does under the claim it holds, or to get one.
PlainCallOf(w) ==
  \/ UNCHANGED taskVars
  \/ ClaimTask
  \/ Token(w) \in Tokens /\ PlainCall(Token(w))

LEMMA ExecutorUses ==
  ASSUME CallersInv, NEW w \in Workers, Executor(w)
  PROVE  PlainCallOf(w)
<1>1. CASE Claim(w) \/ ClaimRefused(w)
  BY <1>1 DEF Claim, ClaimRefused, PlainCallOf, ClaimTask
<1>2. CASE Return(w) \/ Except(w)
  BY <1>2 DEF Return, Except, PlainCallOf
<1>3. ASSUME worker[w].pc \notin {"idle", "claim"}, PlainCall(Token(w)) \/ UNCHANGED taskVars
      PROVE  PlainCallOf(w)
  BY <1>3, CallerHolds DEF PlainCallOf
<1>4. CASE Complete(w) \/ Reconcile(w) \/ Finalize(w) \/ Release(w) \/ Handle(w)
  BY <1>3, <1>4 DEF Complete, Reconcile, Finalize, Release, Handle, At, PlainCall
<1>5. CASE Mark(w) \/ Fail(w)
  <2>1. worker[w].retry \in BOOLEAN
    BY RowTyped DEF CallersInv, PipelineTypeOK
  <2> QED  BY <1>3, <1>5, <2>1 DEF Mark, Fail, At, PlainCall
<1> QED  BY <1>1, <1>2, <1>4, <1>5 DEF Executor

LEMMA OperationUses ==
  ASSUME CallersInv, NEW w \in Workers, Begin(w) \/ FileOperation(w) \/ Rules(w)
  PROVE  PlainCallOf(w)
<1>1. ASSUME worker[w].pc \notin {"idle", "claim"}, PlainCall(Token(w)) \/ UNCHANGED taskVars
      PROVE  PlainCallOf(w)
  BY <1>1, CallerHolds DEF PlainCallOf
<1>2. CASE Begin(w)
  BY <1>1, <1>2 DEF Begin, At, PlainCall
<1>3. CASE FileOperation(w)
  BY <1>3 DEF FileOperation, PlainCallOf
<1>4. CASE Rules(w)
  BY <1>1, <1>4 DEF Rules, At, PlainCall
<1> QED  BY <1>2, <1>3, <1>4

LEMMA ReceiptUses ==
  ASSUME CallersInv, NEW w \in Workers, Apply(w)
  PROVE  [TaskNext]_taskVars
<1>1. Token(w) \in Tokens /\ worker[w].outcome \in ReceiptStatuses
  BY CallerHolds DEF Apply, At, CallersInv, HoldsToken
<1> QED  BY <1>1 DEF Apply, TaskNext, WorkerCall

LEMMA ClientUses ==
  ASSUME CallersInv, NEW w \in Workers, Register(w) \/ Acknowledge(w)
  PROVE  [TaskNext]_taskVars
<1>1. Run(w) \in Runs
  BY RowTyped DEF CallersInv, PipelineTypeOK, Run
<1>2. CASE Register(w)
  <2>1. Token(w) \in Tokens
    BY <1>2, CallerHolds DEF Register, At
  <2> QED  BY <1>1, <1>2, <2>1 DEF Register, TaskNext, WorkerCall
<1>3. CASE Acknowledge(w)
  BY <1>1, <1>3 DEF Acknowledge, TaskNext
<1> QED  BY <1>2, <1>3

LEMMA WorkUses ==
  ASSUME CallersInv, NEW w \in Workers,
         Work(w) \/ PostFault(w) \/ PollFault(w) \/ AbandonFault(w) \/ Crash(w)
  PROVE  PlainCallOf(w) \/ Register(w) \/ Apply(w) \/ Acknowledge(w)
<1>1. CASE Deliver(w) \/ Post(w) \/ NoticeCancel(w) \/ SendCancel(w) \/ GetReceipt(w) \/ Abandon(w)
  BY <1>1 DEF Deliver, Post, NoticeCancel, SendCancel, GetReceipt, Abandon, PlainCallOf
<1>2. CASE PostFault(w) \/ PollFault(w) \/ AbandonFault(w) \/ Crash(w)
  BY <1>2 DEF PostFault, PollFault, AbandonFault, Crash, PlainCallOf
<1> QED  BY <1>1, <1>2, ExecutorUses, OperationUses DEF Work, Operation, Client

LEMMA StepKinds ==
  ASSUME CallersInv, [PipelineNext]_pipelineVars
  PROVE  PlainStep \/ \E w \in Workers : Register(w) \/ Apply(w) \/ Acknowledge(w)
<1>1. CASE UNCHANGED pipelineVars
  BY <1>1 DEF pipelineVars, PlainStep
<1>2. ASSUME NEW w \in Workers, PlainCallOf(w) PROVE PlainStep
  BY <1>2 DEF PlainCallOf, PlainStep
<1>3. ASSUME NEW run \in Runs, EndRun(run) PROVE PlainStep
  BY <1>3 DEF EndRun, PlainStep
<1>4. CASE Dispatcher
  BY <1>4 DEF Dispatcher, DispatchNext, Publish, PublishRaises, DispatcherCrashes, PlainStep
<1>5. CASE Time \/ Owner
  BY <1>5 DEF Time, Owner, PlainStep, OwnerCall
<1> QED  BY <1>1, <1>2, <1>3, <1>4, <1>5, WorkUses DEF PipelineNext

LEMMA StepUses ==
  ASSUME CallersInv, [PipelineNext]_pipelineVars
  PROVE  [TaskNext]_taskVars
BY StepKinds, PlainStepUses, ReceiptUses, ClientUses

-------------------------------------------------------------------------------
(* What a step does to the worker that takes it *)

\* The worker changes where it is and keeps its claim, or has none before it claims again.
LEMMA KeepsClaim ==
  ASSUME CallersInv, claims' \in {claims, claims + 1}, NEW w \in Workers, NEW row \in WorkerStates,
         Become(w, row),
         \/ row.pc \in {"idle", "claim"} /\ row.tok = NoClaim
         \/ /\ row.pc \notin {"idle", "claim"} /\ row.tok = worker[w].tok
            /\ worker[w].pc \notin {"idle", "claim"}
            /\ row.pc \in {"acknowledge", "apply"} => row.outcome \in ReceiptStatuses
  PROVE  GoesOn(w, row)
<1>1. HoldsToken(row, claims')
  BY DEF CallersInv, HoldsToken, PipelineTypeOK, TypeOK
<1> QED  BY <1>1 DEF GoesOn, Become

LEMMA StartRunGoes ==
  ASSUME CallersInv, claims' \in {claims, claims + 1}, NEW w \in Workers, NEW run \in Runs,
         StartRun(w, run), worker[w].pc \notin {"idle", "claim"}
  PROVE  \E row : GoesOn(w, row)
<1> DEFINE watch == (activeRun \in {NoRun, run} \/ run = "second")
           row == [worker[w] EXCEPT !.pc = "post", !.run = run, !.stop = FALSE, !.sent = FALSE,
                                    !.watching = watch]
<1>1. worker[w] \in WorkerStates /\ watch \in BOOLEAN
  BY DEF CallersInv, PipelineTypeOK
<1>2. row \in WorkerStates /\ row.pc = "post" /\ row.tok = worker[w].tok
  <2> HIDE DEF watch
  <2> QED  BY <1>1 DEF WorkerStates, Steps
<1>3. Become(w, row)
  BY DEF StartRun
<1> HIDE DEF row
<1> QED  BY <1>2, <1>3, KeepsClaim

\* A claim hands out the newest token.
LEMMA ClaimGoes ==
  ASSUME CallersInv, claims' \in {claims, claims + 1}, NEW w \in Workers, Claim(w)
  PROVE  \E row : GoesOn(w, row)
<1> DEFINE pc  == IF stage' \in PendingStages THEN "handle" ELSE "begin"
           row == [Idle EXCEPT !.pc = pc, !.tok = claimToken']
<1>1. claims' = claims + 1 /\ claimToken' = claims' /\ claims \in Nat
  BY DEF Claim, ClaimFresh, ClaimPending, NewClaim, CallersInv, PipelineTypeOK, TypeOK
<1>2. pc \in {"handle", "begin"}
  OBVIOUS
<1>3. Become(w, row)
  BY DEF Claim
<1> HIDE DEF pc
<1>4. row \in WorkerStates /\ row.tok = claims' /\ row.pc = pc
  <2>1. Idle \in WorkerStates /\ claimToken' \in Nat
    BY <1>1, IdleTyped
  <2> QED  BY <1>1, <1>2, <2>1 DEF WorkerStates, Steps
<1> HIDE DEF row
<1>5. HoldsToken(row, claims')
  BY <1>1, <1>2, <1>4 DEF HoldsToken
<1> QED  BY <1>1, <1>3, <1>4, <1>5 DEF GoesOn, Become

\* The two ways on that change the place, and with it what is to be raised.
LEMMA PlaceGoes ==
  ASSUME CallersInv, claims' \in {claims, claims + 1}, NEW w \in Workers,
         worker[w].pc \notin {"idle", "claim"},
         NEW pc \in Steps \ {"idle", "claim"},
         pc \in {"acknowledge", "apply"} => worker[w].outcome \in ReceiptStatuses,
         GoTo(w, pc) \/ \E retry \in BOOLEAN : Raise(w, pc, retry)
  PROVE  \E row : GoesOn(w, row)
<1>1. worker[w] \in WorkerStates
  BY DEF CallersInv, PipelineTypeOK
<1>2. CASE GoTo(w, pc)
  <2> DEFINE row == [worker[w] EXCEPT !.pc = pc]
  <2>1. row \in WorkerStates /\ row.pc = pc /\ row.tok = worker[w].tok
        /\ row.outcome = worker[w].outcome
    BY <1>1 DEF WorkerStates
  <2>2. Become(w, row)
    BY <1>2 DEF GoTo
  <2> HIDE DEF row
  <2> QED  BY <2>1, <2>2, KeepsClaim
<1>3. ASSUME NEW retry \in BOOLEAN, Raise(w, pc, retry) PROVE \E row : GoesOn(w, row)
  <2> DEFINE row == [worker[w] EXCEPT !.pc = pc, !.retry = retry]
  <2>1. row \in WorkerStates /\ row.pc = pc /\ row.tok = worker[w].tok
        /\ row.outcome = worker[w].outcome
    BY <1>1 DEF WorkerStates
  <2>2. Become(w, row)
    BY <1>3 DEF Raise
  <2> HIDE DEF row
  <2> QED  BY <2>1, <2>2, KeepsClaim
<1> QED  BY <1>2, <1>3

LEMMA LeaveGoes ==
  ASSUME CallersInv, claims' \in {claims, claims + 1}, NEW w \in Workers,
         Leave(w) \/ Become(w, [Idle EXCEPT !.pc = "claim"])
  PROVE  \E row : GoesOn(w, row)
<1>1. /\ Idle \in WorkerStates /\ Idle.pc = "idle" /\ Idle.tok = NoClaim
      /\ [Idle EXCEPT !.pc = "claim"] \in WorkerStates
      /\ [Idle EXCEPT !.pc = "claim"].pc = "claim" /\ [Idle EXCEPT !.pc = "claim"].tok = NoClaim
  BY DEF Idle, WorkerStates, Steps, NoClaim, Runs
<1>2. CASE Leave(w)
  BY <1>1, <1>2, KeepsClaim DEF Leave
<1>3. CASE Become(w, [Idle EXCEPT !.pc = "claim"])
  BY <1>1, <1>3, KeepsClaim
<1> QED  BY <1>2, <1>3

LEMMA ExecutorGoes ==
  ASSUME CallersInv, claims' \in {claims, claims + 1}, NEW w \in Workers, Executor(w)
  PROVE  \E row : GoesOn(w, row)
<1> USE DEF At, Steps
<1>1. CASE Claim(w)
  BY <1>1, ClaimGoes
<1>2. CASE ClaimRefused(w) \/ Reconcile(w) \/ Finalize(w) \/ Handle(w) \/ Fail(w) \/ Release(w)
  BY <1>2, LeaveGoes DEF ClaimRefused, Reconcile, Finalize, Handle, Fail, Release
<1>3. CASE Return(w)
  BY <1>3, PlaceGoes DEF Return
<1>4. CASE Complete(w)
  BY <1>4, PlaceGoes, LeaveGoes DEF Complete
<1>5. CASE Except(w)
  BY <1>5, PlaceGoes DEF Except
<1>6. CASE Mark(w)
  BY <1>6, PlaceGoes, LeaveGoes DEF Mark
<1> QED  BY <1>1, <1>2, <1>3, <1>4, <1>5, <1>6 DEF Executor

LEMMA OperationGoes ==
  ASSUME CallersInv, claims' \in {claims, claims + 1}, NEW w \in Workers, Operation(w)
  PROVE  \E row : GoesOn(w, row)
<1> USE DEF At, Steps
<1>1. "first" \in Runs /\ "second" \in Runs
  BY DEF Runs
<1>2. CASE Begin(w)
  BY <1>1, <1>2, PlaceGoes, StartRunGoes DEF Begin
<1>3. CASE FileOperation(w)
  BY <1>3, PlaceGoes DEF FileOperation
<1>4. CASE Rules(w)
  BY <1>4, PlaceGoes DEF Rules
<1>5. CASE Apply(w)
  BY <1>1, <1>5, PlaceGoes, StartRunGoes DEF Apply
<1> QED  BY <1>2, <1>3, <1>4, <1>5 DEF Operation

LEMMA FaultGoes ==
  ASSUME CallersInv, claims' \in {claims, claims + 1}, NEW w \in Workers,
         PostFault(w) \/ PollFault(w) \/ AbandonFault(w) \/ Crash(w)
  PROVE  \E row : GoesOn(w, row)
<1> USE DEF At, Steps
<1>1. CASE PostFault(w)
  BY <1>1, PlaceGoes DEF PostFault
<1>2. CASE PollFault(w)
  BY <1>2, PlaceGoes DEF PollFault
<1>3. CASE AbandonFault(w)
  BY <1>3, PlaceGoes DEF AbandonFault
<1>4. CASE Crash(w)
  BY <1>4, LeaveGoes DEF Crash
<1> QED  BY <1>1, <1>2, <1>3, <1>4

LEMMA ClientGoes ==
  ASSUME CallersInv, claims' \in {claims, claims + 1}, NEW w \in Workers, Client(w)
  PROVE  \E row : GoesOn(w, row)
<1> USE DEF At, Steps
<1>1. worker[w] \in WorkerStates
  BY DEF CallersInv, PipelineTypeOK
<1>2. CASE Post(w) \/ Abandon(w)
  BY <1>2, PlaceGoes DEF Post, Abandon
<1>3. CASE Register(w)
  <2>1. ASSUME Become(w, [worker[w] EXCEPT !.pc = "poll", !.stop = CancellationRequested])
        PROVE  \E row : GoesOn(w, row)
    <3> DEFINE row == [worker[w] EXCEPT !.pc = "poll", !.stop = CancellationRequested]
    <3>1. CancellationRequested \in BOOLEAN
      BY DEF CancellationRequested
    <3>2. row \in WorkerStates /\ row.pc = "poll" /\ row.tok = worker[w].tok
      BY <1>1, <3>1 DEF WorkerStates
    <3>3. Become(w, row) /\ worker[w].pc = "register"
      BY <1>3, <2>1 DEF Register
    <3> HIDE DEF row
    <3> QED  BY <3>2, <3>3, KeepsClaim
  <2> QED  BY <1>3, <2>1, PlaceGoes DEF Register
<1>4. CASE NoticeCancel(w) \/ SendCancel(w)
  <2>1. PICK row : /\ row \in {[worker[w] EXCEPT !.stop = TRUE], [worker[w] EXCEPT !.sent = TRUE]}
                   /\ Become(w, row)
    BY <1>4 DEF NoticeCancel, SendCancel
  <2>2. row \in WorkerStates /\ row.pc = worker[w].pc /\ row.tok = worker[w].tok
    BY <1>1, <2>1 DEF WorkerStates
  <2>3. worker[w].pc = "poll"
    BY <1>4 DEF NoticeCancel, SendCancel
  <2> QED  BY <2>1, <2>2, <2>3, KeepsClaim
<1>5. CASE GetReceipt(w)
  <2> DEFINE next == IF MustAcknowledge(w) THEN "acknowledge" ELSE "apply"
             row == [worker[w] EXCEPT !.outcome = aiRun[Run(w)], !.pc = next]
  <2>1. aiRun[Run(w)] \in ReceiptStatuses /\ worker[w].pc = "poll" /\ Become(w, row)
    BY <1>5 DEF GetReceipt, RunEnded
  <2>2. next \in {"acknowledge", "apply"}
    OBVIOUS
  <2>3. row \in WorkerStates /\ row.pc = next /\ row.tok = worker[w].tok
        /\ row.outcome = aiRun[Run(w)]
    <3> HIDE DEF next
    <3> QED  BY <1>1, <2>1, <2>2 DEF WorkerStates
  <2> HIDE DEF next, row
  <2> QED  BY <2>1, <2>2, <2>3, KeepsClaim
<1>6. CASE Acknowledge(w)
  <2>1. worker[w].outcome \in ReceiptStatuses
    BY <1>6 DEF Acknowledge, CallersInv, HoldsToken
  <2> QED  BY <1>6, <2>1, PlaceGoes DEF Acknowledge
<1> QED  BY <1>2, <1>3, <1>4, <1>5, <1>6 DEF Client

LEMMA DeliverGoes ==
  ASSUME CallersInv, claims' \in {claims, claims + 1}, NEW w \in Workers, Deliver(w)
  PROVE  \E row : GoesOn(w, row)
<1> DEFINE row == [worker[w] EXCEPT !.pc = "claim"]
<1>1. worker[w] \in WorkerStates /\ worker[w].tok = NoClaim
  BY DEF CallersInv, PipelineTypeOK, HoldsToken, Deliver, At
<1>2. row \in WorkerStates /\ row.pc = "claim" /\ row.tok = NoClaim
  BY <1>1 DEF WorkerStates, Steps
<1>3. Become(w, row)
  BY DEF Deliver, GoTo
<1> HIDE DEF row
<1> QED  BY <1>2, <1>3, KeepsClaim

\* The AI service keeps its own types.
LEMMA AiKeepsTypes ==
  ASSUME Ai!AiTypeOK,
         NEW run \in Runs, Ai!Accept(run) \/ Ai!CancelRun(run) \/ Ai!RunEnds(run) \/ UNCHANGED aiVars
  PROVE  Ai!AiTypeOK'
BY DEF Ai!AiTypeOK, Ai!Accept, Ai!CancelRun, Ai!RunEnds, Ai!EndStatuses, aiVars

\* A run ends once and is never forgotten, and a cancellation is never taken back.
AiMoves ==
  /\ \A run \in Runs :
       \/ aiRun'[run] = aiRun[run]
       \/ aiRun[run] = "absent" /\ aiRun'[run] = "running"
       \/ /\ aiRun[run] = "running" /\ aiRun'[run] \in ReceiptStatuses
          /\ run \in aiCancel => aiRun'[run] # "succeeded"
  /\ aiCancel \subseteq aiCancel'

LEMMA AiStep ==
  ASSUME Ai!AiTypeOK,
         NEW run \in Runs, Ai!Accept(run) \/ Ai!CancelRun(run) \/ Ai!RunEnds(run) \/ UNCHANGED aiVars
  PROVE  AiMoves
BY DEF AiMoves, Ai!AiTypeOK, Ai!Accept, Ai!CancelRun, Ai!RunEnds, Ai!EndStatuses, aiVars, ReceiptStatuses

\* What else a step changes: the outbox, the service, and the counters of faults.
LEMMA WorkChanges ==
  ASSUME CallersInv, NEW w \in Workers,
         Work(w) \/ PostFault(w) \/ PollFault(w) \/ AbandonFault(w) \/ Crash(w)
  PROVE  /\ outbox' = outbox /\ broker' \in {broker, broker - 1} /\ broker' \in Nat
         /\ \E run \in Runs : Ai!Accept(run) \/ Ai!CancelRun(run) \/ UNCHANGED aiVars
         /\ budget' = budget \/ \E what \in Faults : Spend(what, Limit[what])
<1>1. broker \in Nat /\ Run(w) \in Runs
  BY RowTyped DEF CallersInv, PipelineTypeOK, Run
<1> USE <1>1 DEF dispatchVars
<1>2. CASE Deliver(w)
  BY <1>2 DEF Deliver
<1>3. CASE Executor(w)
  BY <1>3 DEF Executor, Claim, ClaimRefused, Return, Complete, Except, Reconcile, Finalize, Release,
     Mark, Handle, Fail, outsideVars
<1>4. CASE Operation(w)
  BY <1>4 DEF Operation, Begin, FileOperation, Rules, Apply, outsideVars
<1>5. CASE Client(w)
  BY <1>5 DEF Client, Post, Register, NoticeCancel, SendCancel, GetReceipt, Acknowledge, Abandon, outsideVars
<1>6. CASE PostFault(w) \/ PollFault(w) \/ AbandonFault(w) \/ Crash(w)
  BY <1>6 DEF PostFault, PollFault, AbandonFault, Crash, Limit, Faults
<1> QED  BY <1>2, <1>3, <1>4, <1>5, <1>6 DEF Work

LEMMA OthersChange ==
  ASSUME CallersInv, (\E run \in Runs : EndRun(run)) \/ Dispatcher \/ Time \/ Owner
  PROVE  /\ worker' = worker
         /\ outbox' \in [state : {"pending", "dispatched", "exhausted"}, attempts : 0..MaxDispatchAttempts]
         /\ outbox'.state = "pending" => outbox'.attempts < MaxDispatchAttempts
         /\ broker' \in Nat
         /\ \E run \in Runs : Ai!RunEnds(run) \/ UNCHANGED aiVars
         /\ budget' = budget \/ \E what \in Faults : Spend(what, Limit[what])
<1>1. /\ broker \in Nat /\ "first" \in Runs
      /\ outbox \in [state : {"pending", "dispatched", "exhausted"}, attempts : 0..MaxDispatchAttempts]
      /\ outbox.state = "pending" => outbox.attempts < MaxDispatchAttempts
      /\ MaxDispatchAttempts \in Nat
  BY DispatchAssumption DEF CallersInv, PipelineTypeOK, Runs
<1> USE <1>1 DEF dispatchVars
<1>2. CASE \E run \in Runs : EndRun(run)
  BY <1>2 DEF EndRun
<1>3. CASE Time \/ Owner
  BY <1>3 DEF Time, Owner, Limit, Faults
<1>4. CASE Dispatcher
  BY <1>4 DEF Dispatcher, DispatchNext, Publish, PublishRaises, PublishFault, PublishesLeft,
     DispatcherCrashes, Dispatched
<1> QED  BY <1>2, <1>3, <1>4

\* CallersInv is inductive.
LEMMA CallersStep ==
  ASSUME CallersInv, [PipelineNext]_pipelineVars
  PROVE  CallersInv'
<1>1. TypeOK' /\ claims \in Nat /\ claims' \in {claims, claims + 1}
  BY StepUses, TaskStepGrows, TypeStep DEF CallersInv, PipelineTypeOK, TypeOK, TaskGrows
<1>2. WorkersTyped
  BY DEF CallersInv, PipelineTypeOK, WorkersTyped
<1>3. ASSUME budget' = budget \/ \E what \in Faults : Spend(what, Limit[what])
      PROVE  budget' \in [Faults -> Nat] /\ \A what \in Faults : budget'[what] <= Limit[what]
  BY <1>3, LimitsAre DEF CallersInv, Spend
<1>4. ASSUME NEW w \in Workers,
             Work(w) \/ PostFault(w) \/ PollFault(w) \/ AbandonFault(w) \/ Crash(w)
      PROVE  CallersInv'
  <2>1. \E row : GoesOn(w, row)
    BY <1>1, <1>4, DeliverGoes, ExecutorGoes, OperationGoes, ClientGoes, FaultGoes DEF Work
  <2>2. WorkersTyped'
    BY <1>1, <1>2, <2>1, GoesOnTyped
  <2> QED  BY <1>1, <1>3, <1>4, <2>2, WorkChanges, AiKeepsTypes
           DEF CallersInv, PipelineTypeOK, WorkersTyped
<1>5. CASE (\E run \in Runs : EndRun(run)) \/ Dispatcher \/ Time \/ Owner
  <2>1. WorkersTyped'
    BY <1>1, <1>2, <1>5, OthersChange DEF WorkersTyped, HoldsToken, Token
  <2> QED  BY <1>1, <1>3, <1>5, <2>1, OthersChange, AiKeepsTypes
           DEF CallersInv, PipelineTypeOK, WorkersTyped
<1>6. CASE UNCHANGED pipelineVars
  BY <1>6 DEF pipelineVars, taskVars, dispatchVars, aiVars, CallersInv, PipelineTypeOK, TypeOK,
     Ai!AiTypeOK, HoldsToken, Token
<1> QED  BY <1>4, <1>5, <1>6 DEF PipelineNext

LEMMA CallersInit == PipelineInit => CallersInv
<1> SUFFICES ASSUME PipelineInit PROVE CallersInv
  OBVIOUS
<1>1. TypeOK
  BY TypeInit DEF PipelineInit
<1>2. Idle \in WorkerStates /\ Idle.pc = "idle" /\ Idle.tok = NoClaim
  BY DEF Idle, WorkerStates, Steps, NoClaim, Runs
<1>3. Ai!AiTypeOK
  BY DEF PipelineInit, Ai!AiInit, Ai!AiTypeOK
<1> QED  BY <1>1, <1>2, <1>3, DispatchAssumption, LimitsAre
         DEF PipelineInit, OutboxInit, CallersInv, PipelineTypeOK, HoldsToken, Token, Faults

\* Workers hold tokens that were issued, no two the same one, and none before they claim; the
\* rows, the queue, the service and the fault counters keep to their types.
THEOREM CallersCorrect == PipelineSpec => []CallersInv
<1>1. CallersInv /\ [PipelineNext]_pipelineVars => CallersInv'
  BY CallersStep
<1> QED  BY CallersInit, <1>1, PTL DEF PipelineSpec

\* Every step of the closed system is a step of the open one: what TaskService promises to
\* any caller it promises to the executor, the operations, the AI client and the dispatcher.
THEOREM UsesTaskServiceCorrect == PipelineSpec => UsesTaskService
<1>1. PipelineInit => TaskInit
  BY DEF PipelineInit
<1>2. CallersInv /\ [PipelineNext]_pipelineVars => [TaskNext]_taskVars
  BY StepUses
<1> QED  BY <1>1, <1>2, CallersCorrect, PTL DEF PipelineSpec, UsesTaskService, TaskSpec

-------------------------------------------------------------------------------
(* The runs of the pipeline *)

\* An acknowledged cancellation is the end of the claim, and names its run for good.
AckedIsOver == acked => status = "cancelled" /\ claimToken = NoClaim /\ activeRun \in Runs

\* The rows that name runs are left alone, but for a run that is settled.
RunsKept ==
  /\ activeRun' \in {activeRun, NoRun} /\ (acked => activeRun' = activeRun)
  /\ acked' = acked /\ billedRun' = billedRun /\ audited' = audited
  /\ resource' = "done" => resource = "done" \/ ~metered
  /\ acked => status' = status /\ claimToken' = claimToken

\* The transactions without a run leave what names runs alone.
LEMMA PlainStepKeepsRuns ==
  ASSUME AckedIsOver, PlainStep
  PROVE  RunsKept
<1> USE DEF RunsKept, AckedIsOver, jobVars, claimVars, ledgerVars, Terminal, TerminalStatuses
<1>1. CASE UNCHANGED taskVars
  BY <1>1 DEF taskVars
<1>2. CASE ClaimTask
  BY <1>2 DEF ClaimTask, ClaimExhausted, ClaimFresh, ClaimPending, Claimable
<1>3. CASE LeaseExpires
  BY <1>3 DEF LeaseExpires
<1>4. CASE RequestCancel
  BY <1>4 DEF RequestCancel, RestoredDraft, RestoredParse
<1>5. CASE StartAgain \/ LeaveFailedAnalysis
  BY <1>5 DEF StartAgain, LeaveFailedAnalysis
<1>6. CASE FailExhausted
  BY <1>6 DEF FailExhausted
<1>7. ASSUME NEW tok \in Tokens, PlainCall(tok) PROVE RunsKept
  <2>1. tok # NoClaim
    BY DEF Tokens, NoClaim
  <2>2. CASE ReleaseClaim(tok) \/ FinalizeUnused(tok) \/ BeginProcessing(tok)
    BY <2>1, <2>2 DEF ReleaseClaim, FinalizeUnused, Finalizable, BeginProcessing
  <2>3. CASE ReconcileCancelled(tok)
    BY <2>1, <2>3 DEF ReconcileCancelled, Reconcilable, RestoredDraft, RestoredParse
  <2>4. CASE RejectInput(tok) \/ CompleteTask(tok) \/ HandleTerminalFailure(tok)
    BY <2>4 DEF RejectInput, CompleteTask, HandleTerminalFailure, Claimed
  <2>5. ASSUME NEW flag \in BOOLEAN,
               ApplyRules(tok, flag) \/ FailTask(tok, flag) \/ MarkFailurePending(tok, flag)
        PROVE  RunsKept
    BY <2>5 DEF ApplyRules, FailTask, MarkFailurePending, Claimed
  <2> QED  BY <1>7, <2>2, <2>3, <2>4, <2>5 DEF PlainCall
<1> QED  BY <1>1, <1>2, <1>3, <1>4, <1>5, <1>6, <1>7 DEF PlainStep, OwnerCall

\* What a worker may rely on of the run it executes: it is one of the task's, it exists once
\* it was asked for, its end is what the worker has read, and the second run of a match
\* follows a first one that succeeded.
RunFits(row) ==
  /\ row.run \in RunsOf(kind)
  /\ row.pc \in {"register", "poll", "acknowledge", "apply"} => aiRun[row.run] # "absent"
  /\ row.pc \in {"acknowledge", "apply"} => aiRun[row.run] = row.outcome
  /\ row.pc = "acknowledge" => row.outcome = "cancelled"
  /\ row.run = "second" => "first" \in audited /\ aiRun["first"] = "succeeded"

RunsInv ==
  /\ AckedIsOver
  /\ BilledRunsExist /\ ResultsComeFromRuns /\ AcknowledgedIsCancelled
  /\ \A w \in Workers : RunFits(worker[w])

\* A worker that takes no step may rely on what it relied on.
LEMMA StillRuns ==
  ASSUME NEW row, RunFits(row), row.outcome \in ReceiptStatuses \/ row.pc \notin {"acknowledge", "apply"},
         AiMoves, TaskGrows
  PROVE  RunFits(row)'
<1>1. row.run \in Runs /\ "first" \in Runs
  BY DEF RunFits, RunsOf, Runs
<1> QED  BY <1>1 DEF RunFits, AiMoves, TaskGrows, ReceiptStatuses

\* The worker goes on without a run, or somewhere it says nothing of its run.
LEMMA PlaceRuns ==
  ASSUME CallersInv, RunsInv, AiMoves, TaskGrows, NEW w \in Workers,
         \/ Leave(w) \/ Become(w, [Idle EXCEPT !.pc = "claim"])
         \/ \E pc \in Steps \ {"register", "poll", "acknowledge", "apply"} :
              GoTo(w, pc) \/ \E retry \in BOOLEAN : Raise(w, pc, retry)
  PROVE  RunFits(worker[w])'
<1>1. worker[w] \in WorkerStates /\ RunFits(worker[w])
  BY DEF CallersInv, PipelineTypeOK, RunsInv
<1>2. CASE Leave(w) \/ Become(w, [Idle EXCEPT !.pc = "claim"])
  <2>1. worker'[w].pc \in {"idle", "claim"} /\ worker'[w].run = "first"
    BY <1>2 DEF Leave, Become, Idle, CallersInv, PipelineTypeOK
  <2> QED  BY <2>1 DEF RunFits, RunsOf, Runs
<1>3. ASSUME NEW pc \in Steps \ {"register", "poll", "acknowledge", "apply"},
             GoTo(w, pc) \/ \E retry \in BOOLEAN : Raise(w, pc, retry)
      PROVE  RunFits(worker[w])'
  <2>1. worker'[w].pc = pc /\ worker'[w].run = worker[w].run
    <3>0. worker \in [Workers -> WorkerStates]
      BY DEF CallersInv, PipelineTypeOK
    <3>1. CASE GoTo(w, pc)
      BY <1>1, <3>0, <3>1 DEF GoTo, Become, WorkerStates
    <3>2. ASSUME NEW retry \in BOOLEAN, Raise(w, pc, retry)
          PROVE  worker'[w].pc = pc /\ worker'[w].run = worker[w].run
      BY <1>1, <3>0, <3>2 DEF Raise, Become, WorkerStates
    <3> QED  BY <1>3, <3>1, <3>2
  <2>2. "first" \in Runs
    BY DEF Runs
  <2> QED  BY <1>1, <1>3, <2>1, <2>2 DEF RunFits, AiMoves, TaskGrows, ReceiptStatuses
<1> QED  BY <1>2, <1>3

LEMMA StartRunRuns ==
  ASSUME CallersInv, TaskGrows, NEW w \in Workers, NEW run \in RunsOf(kind), StartRun(w, run),
         run = "second" => "first" \in audited' /\ aiRun'["first"] = "succeeded"
  PROVE  RunFits(worker[w])'
<1>1. worker[w] \in WorkerStates
  BY DEF CallersInv, PipelineTypeOK
<1>2. worker'[w].pc = "post" /\ worker'[w].run = run
  BY <1>1 DEF StartRun, Become, CallersInv, PipelineTypeOK, WorkerStates
<1> QED  BY <1>2 DEF RunFits, TaskGrows

LEMMA ExecutorRuns ==
  ASSUME CallersInv, RunsInv, AiMoves, TaskGrows, NEW w \in Workers,
         Executor(w) \/ Deliver(w) \/ FileOperation(w) \/ Rules(w) \/ Abandon(w)
           \/ PostFault(w) \/ PollFault(w) \/ AbandonFault(w) \/ Crash(w)
  PROVE  RunFits(worker[w])'
<1> USE PlaceRuns DEF Steps
<1>1. CASE Claim(w)
  <2> DEFINE pc == IF stage' \in PendingStages THEN "handle" ELSE "begin"
  <2>1. pc \in {"handle", "begin"}
    OBVIOUS
  <2>2. Become(w, [Idle EXCEPT !.pc = pc, !.tok = claimToken'])
    BY <1>1 DEF Claim
  <2> HIDE DEF pc
  <2>3. worker'[w].pc = pc /\ worker'[w].run = "first"
    BY <2>2 DEF Become, Idle, CallersInv, PipelineTypeOK
  <2> QED  BY <2>1, <2>3 DEF RunFits, RunsOf, Runs
<1>2. CASE ClaimRefused(w) \/ Reconcile(w) \/ Finalize(w) \/ Handle(w) \/ Fail(w) \/ Release(w)
  BY <1>2 DEF ClaimRefused, Reconcile, Finalize, Handle, Fail, Release
<1>3. CASE Return(w) \/ Complete(w) \/ Mark(w) \/ Except(w)
  BY <1>3 DEF Return, Complete, Mark, Except
<1>4. CASE Deliver(w) \/ FileOperation(w) \/ Rules(w) \/ Abandon(w)
  BY <1>4 DEF Deliver, FileOperation, Rules, Abandon
<1>5. CASE PostFault(w) \/ PollFault(w) \/ AbandonFault(w) \/ Crash(w)
  BY <1>5 DEF PostFault, PollFault, AbandonFault, Crash
<1> QED  BY <1>1, <1>2, <1>3, <1>4, <1>5 DEF Executor

LEMMA BeginRuns ==
  ASSUME CallersInv, RunsInv, AiMoves, TaskGrows, NEW w \in Workers, Begin(w)
  PROVE  RunFits(worker[w])'
<1>1. "first" \in RunsOf(kind) /\ "first" # "second" /\ {"rules", "returned", "raised"} \subseteq Steps
  BY DEF RunsOf, Runs, Steps
<1>2. CASE StartRun(w, "first")
  BY <1>1, <1>2, StartRunRuns
<1>3. CASE GoTo(w, "rules") \/ GoTo(w, "returned") \/ Raise(w, "raised", FALSE)
  BY <1>1, <1>3, PlaceRuns
<1> QED  BY <1>2, <1>3 DEF Begin

LEMMA ClientRuns ==
  ASSUME CallersInv, RunsInv, AiMoves, TaskGrows, NEW w \in Workers,
         Post(w) \/ Register(w) \/ NoticeCancel(w) \/ SendCancel(w) \/ GetReceipt(w) \/ Acknowledge(w)
  PROVE  RunFits(worker[w])'
<1>1. worker[w] \in WorkerStates /\ RunFits(worker[w]) /\ worker[w].run \in Runs /\ "first" \in Runs
      /\ worker \in [Workers -> WorkerStates]
  BY DEF CallersInv, PipelineTypeOK, RunsInv, RunFits, RunsOf, Runs
<1>2. \A run \in Runs : aiRun[run] # "absent" => aiRun'[run] # "absent"
  BY DEF AiMoves, ReceiptStatuses
<1>3. kind' = kind /\ (worker[w].run = "second" => "first" \in audited' /\ aiRun'["first"] = "succeeded")
  BY <1>1 DEF AiMoves, TaskGrows, RunFits
<1> USE DEF At, Become, Run, RunFits
<1>4. CASE Post(w)
  <2>1. PICK pc \in {"register", "poll"} : GoTo(w, pc)
    BY <1>4 DEF Post
  <2>2. worker'[w].pc = pc /\ worker'[w].run = worker[w].run
    BY <1>1, <2>1 DEF GoTo, WorkerStates
  <2>3. aiRun'[worker[w].run] # "absent"
    BY <1>1, <1>4 DEF Post, Ai!Accept, CallersInv, PipelineTypeOK, Ai!AiTypeOK
  <2> QED  BY <1>1, <1>3, <2>1, <2>2, <2>3
<1>5. CASE Register(w)
  <2>1. CASE Raise(w, "abandon", FALSE)
    BY <2>1, PlaceRuns DEF Steps
  <2>2. ASSUME Become(w, [worker[w] EXCEPT !.pc = "poll", !.stop = CancellationRequested])
        PROVE  RunFits(worker[w])'
    <3>1. worker'[w].pc = "poll" /\ worker'[w].run = worker[w].run
      BY <1>1, <2>2 DEF WorkerStates
    <3> QED  BY <1>1, <1>2, <1>3, <1>5, <3>1 DEF Register
  <2> QED  BY <1>5, <2>1, <2>2 DEF Register
<1>6. CASE NoticeCancel(w) \/ SendCancel(w)
  <2>1. worker'[w].pc = "poll" /\ worker'[w].run = worker[w].run /\ worker[w].pc = "poll"
    BY <1>1, <1>6 DEF NoticeCancel, SendCancel, WorkerStates
  <2> QED  BY <1>1, <1>2, <1>3, <2>1
<1>7. CASE GetReceipt(w)
  <2>1. PICK pc \in {"acknowledge", "apply"} :
          /\ pc = IF MustAcknowledge(w) THEN "acknowledge" ELSE "apply"
          /\ Become(w, [worker[w] EXCEPT !.outcome = aiRun[Run(w)], !.pc = pc])
    BY <1>7 DEF GetReceipt
  <2>2. worker'[w].pc = pc /\ worker'[w].run = worker[w].run /\ worker'[w].outcome = aiRun[worker[w].run]
    BY <1>1, <2>1 DEF WorkerStates
  <2>3. aiRun' = aiRun /\ aiRun[worker[w].run] \in ReceiptStatuses
    BY <1>7 DEF GetReceipt, outsideVars, aiVars, RunEnded
  <2>4. pc = "acknowledge" => aiRun[worker[w].run] = "cancelled"
    BY <2>1 DEF MustAcknowledge
  <2> QED  BY <1>1, <1>3, <2>1, <2>2, <2>3, <2>4 DEF ReceiptStatuses
<1>8. CASE Acknowledge(w)
  <2>1. worker'[w].pc = "apply" /\ worker'[w].run = worker[w].run /\ worker'[w].outcome = worker[w].outcome
    BY <1>1, <1>8 DEF Acknowledge, GoTo, WorkerStates
  <2>2. worker[w].pc = "acknowledge" /\ aiRun' = aiRun
    BY <1>8 DEF Acknowledge, outsideVars, aiVars
  <2> QED  BY <1>1, <1>3, <2>1, <2>2
<1> QED  BY <1>4, <1>5, <1>6, <1>7, <1>8

\* What the receipt transaction of worker w writes: the receipt of its run, its charge, and
\* a result only if this run, and the one before it, succeeded.
ReceiptWritten(w) ==
  /\ audited' = audited \union {Run(w)}
  /\ billedRun' \in {billedRun, Run(w)}
  /\ activeRun' \in {activeRun, NoRun} /\ (acked => activeRun' = activeRun)
  /\ acked' = acked /\ (acked => status' = status /\ claimToken' = claimToken)
  /\ resource' = "done" /\ resource # "done" =>
       /\ worker[w].outcome = "succeeded"
       /\ kind = "match" => Run(w) = "second"

LEMMA ReceiptWrites ==
  ASSUME CallersInv, RunsInv, NEW w \in Workers, worker[w].pc = "apply",
         NEW valid \in BOOLEAN,
         \/ ApplyReceipt(Token(w), worker[w].outcome, valid)
         \/ Run(w) = "second" /\ ApplySuggestionReceipt(Token(w), worker[w].outcome, valid)
         \/ Run(w) = "first" /\ ApplyMatchReceipt(Token(w), worker[w].outcome, valid)
  PROVE  ReceiptWritten(w)
<1> DEFINE tok == Token(w)
           outcome == worker[w].outcome
<1>1. PICK run \in Runs : StoreReceipt(tok, run, outcome) /\ run = Run(w)
  BY DEF ApplyReceipt, ApplySuggestionReceipt, ApplyMatchReceipt, RunsInv, RunFits, RunsOf, Run, Runs
<1>2. activeRun' \in {activeRun, NoRun} /\ (status # "running" => activeRun' = activeRun)
  BY <1>1 DEF StoreReceipt, Settled
<1>3. billedRun' \in {billedRun, Run(w)}
  BY <1>1 DEF ApplyReceipt, ApplySuggestionReceipt, ApplyMatchReceipt, Consume, Bind, ledgerVars,
     RunsInv, RunFits, RunsOf, Run
<1>4. acked' = acked
  BY DEF ApplyReceipt, ApplySuggestionReceipt, ApplyMatchReceipt
<1>5. acked => status' = status /\ claimToken' = claimToken
  BY DEF ApplyReceipt, ApplySuggestionReceipt, ApplyMatchReceipt, PublishResource, FailResource, Usable,
     Finish, FinishWith, CanTransition, TerminalStatuses, claimVars, RunsInv, AckedIsOver
<1>6. resource' = "done" /\ resource # "done" => outcome = "succeeded" /\ (kind = "match" => Run(w) = "second")
  BY DEF ApplyReceipt, ApplySuggestionReceipt, ApplyMatchReceipt, PublishResource, FailResource, Usable
<1>7. acked => status # "running"
  BY DEF RunsInv, AckedIsOver
<1> QED  BY <1>1, <1>2, <1>3, <1>4, <1>5, <1>6, <1>7 DEF ReceiptWritten, StoreReceipt

LEMMA ApplyRuns ==
  ASSUME CallersInv, RunsInv, TaskGrows, NEW w \in Workers, Apply(w)
  PROVE  /\ RunFits(worker[w])'
         /\ ReceiptWritten(w) \/ UNCHANGED taskVars
<1>1. PICK valid \in BOOLEAN :
        \/ /\ \/ ApplyReceipt(Token(w), worker[w].outcome, valid)
              \/ Run(w) = "second" /\ ApplySuggestionReceipt(Token(w), worker[w].outcome, valid)
           /\ GoTo(w, "returned")
        \/ /\ Run(w) = "first"
           /\ ApplyMatchReceipt(Token(w), worker[w].outcome, valid)
           /\ IF stage' = "match" THEN StartRun(w, "second") ELSE GoTo(w, "returned")
        \/ Raise(w, "raised", FALSE) /\ UNCHANGED taskVars
  BY DEF Apply
<1>2. worker[w].pc = "apply" /\ aiRun' = aiRun /\ AiMoves
  BY DEF Apply, At, outsideVars, aiVars, AiMoves
<1>3. ReceiptWritten(w) \/ UNCHANGED taskVars
  BY <1>1, <1>2, ReceiptWrites
<1>4. CASE GoTo(w, "returned") \/ Raise(w, "raised", FALSE)
  BY <1>2, <1>3, <1>4, PlaceRuns DEF Steps
<1>5. CASE /\ Run(w) = "first"
           /\ ApplyMatchReceipt(Token(w), worker[w].outcome, valid)
           /\ stage' = "match" /\ StartRun(w, "second")
  <2>1. worker[w].outcome = "succeeded"
    BY <1>5 DEF ApplyMatchReceipt, FailResource, Finish, FinishWith, Usable
  <2>2. "first" \in audited' /\ aiRun'["first"] = "succeeded"
    BY <1>2, <1>5, <2>1 DEF ApplyMatchReceipt, StoreReceipt, RunsInv, RunFits, Run
  <2>3. "second" \in RunsOf(kind)
    BY <1>5 DEF ApplyMatchReceipt, RunsOf, Runs
  <2> QED  BY <1>3, <1>5, <2>2, <2>3, StartRunRuns
<1> QED  BY <1>1, <1>3, <1>4, <1>5

\* The invariant follows from the summaries.
LEMMA RowsKeepRuns ==
  ASSUME CallersInv, RunsInv, TaskGrows, AiMoves,
         \/ RunsKept
         \/ \E w \in Workers : worker[w].pc = "apply" /\ ReceiptWritten(w)
         \/ \E w \in Workers : worker[w].pc = "register" /\ RegisterRun(Token(w), Run(w))
         \/ \E w \in Workers : worker[w].pc = "acknowledge" /\ AcknowledgeCancel(Run(w))
  PROVE  AckedIsOver' /\ BilledRunsExist' /\ ResultsComeFromRuns' /\ AcknowledgedIsCancelled'
<1>1. /\ activeRun \in Runs \union {NoRun} /\ billedRun \in Runs \union {NoRun} /\ audited \subseteq Runs
      /\ NoRun \notin Runs /\ "absent" \notin ReceiptStatuses /\ "running" \notin ReceiptStatuses
      /\ "running" # "absent"
      /\ RunsOf(kind) \subseteq Runs
  BY DEF CallersInv, PipelineTypeOK, TypeOK, NoRun, Runs, ReceiptStatuses, RunsOf
<1>2. /\ \A run \in Runs : aiRun[run] # "absent" => aiRun'[run] # "absent"
      /\ \A run \in Runs : aiRun[run] \in ReceiptStatuses => aiRun'[run] = aiRun[run]
  BY <1>1 DEF AiMoves
<1>3. kind' = kind /\ metered' = metered /\ audited \subseteq audited'
  BY DEF TaskGrows
<1>4. \A w \in Workers : worker[w].run \in Runs
  BY RowTyped DEF CallersInv, PipelineTypeOK
<1>5. {"succeeded", "cancelled"} \subseteq ReceiptStatuses
  BY DEF ReceiptStatuses
<1> USE DEF RunsInv, AckedIsOver, BilledRunsExist, ResultsComeFromRuns, AcknowledgedIsCancelled
<1>6. CASE RunsKept
  BY <1>1, <1>2, <1>3, <1>5, <1>6 DEF RunsKept
<1>7. ASSUME NEW w \in Workers, worker[w].pc = "apply", ReceiptWritten(w)
      PROVE  AckedIsOver' /\ BilledRunsExist' /\ ResultsComeFromRuns' /\ AcknowledgedIsCancelled'
  <2>1. /\ aiRun[Run(w)] = worker[w].outcome /\ worker[w].outcome \in ReceiptStatuses
        /\ Run(w) \in RunsOf(kind)
        /\ Run(w) = "second" => "first" \in audited /\ aiRun["first"] = "succeeded"
    BY <1>7 DEF RunFits, Run, CallersInv, HoldsToken
  <2>2. AckedIsOver' /\ AcknowledgedIsCancelled'
    BY <1>1, <1>2, <1>5, <1>7 DEF ReceiptWritten
  <2>3. BilledRunsExist'
    BY <1>1, <1>2, <1>4, <1>7, <2>1 DEF ReceiptWritten, Run
  <2>4. ResultsComeFromRuns'
    <3>1. CASE resource = "done"
      BY <1>1, <1>2, <1>3, <1>5, <3>1
    <3>2. CASE resource # "done"
      BY <1>1, <1>2, <1>3, <1>5, <1>7, <2>1, <3>2 DEF ReceiptWritten, RunsOf, Runs
    <3> QED  BY <3>1, <3>2
  <2> QED  BY <2>2, <2>3, <2>4
<1>8. ASSUME NEW w \in Workers, worker[w].pc = "register", RegisterRun(Token(w), Run(w))
      PROVE  AckedIsOver' /\ BilledRunsExist' /\ ResultsComeFromRuns' /\ AcknowledgedIsCancelled'
  <2>1. aiRun[Run(w)] # "absent" /\ Run(w) \in Runs
    BY <1>4, <1>8 DEF RunFits, Run
  <2> QED  BY <1>1, <1>2, <1>3, <1>5, <1>8, <2>1 DEF RegisterRun, Bind, ledgerVars
<1>9. ASSUME NEW w \in Workers, worker[w].pc = "acknowledge", AcknowledgeCancel(Run(w))
      PROVE  AckedIsOver' /\ BilledRunsExist' /\ ResultsComeFromRuns' /\ AcknowledgedIsCancelled'
  <2>1. aiRun[Run(w)] = "cancelled" /\ Run(w) \in Runs
    BY <1>4, <1>9 DEF RunFits, Run
  <2> QED  BY <1>1, <1>2, <1>3, <1>5, <1>9, <2>1 DEF AcknowledgeCancel, ledgerVars
<1> QED  BY <1>6, <1>7, <1>8, <1>9

LEMMA StepAi ==
  ASSUME CallersInv, [PipelineNext]_pipelineVars
  PROVE  AiMoves
<1>1. Ai!AiTypeOK /\ "first" \in Runs
  BY DEF CallersInv, PipelineTypeOK, Runs
<1>2. CASE UNCHANGED pipelineVars
  BY <1>2 DEF pipelineVars, aiVars, AiMoves
<1> QED  BY <1>1, <1>2, WorkChanges, OthersChange, AiStep DEF PipelineNext

\* A step is the step of one worker, and leaves the others where they are.
LEMMA OneWorker ==
  ASSUME CallersInv, [PipelineNext]_pipelineVars
  PROVE  \/ worker' = worker
         \/ \E w \in Workers :
              /\ Work(w) \/ PostFault(w) \/ PollFault(w) \/ AbandonFault(w) \/ Crash(w)
              /\ \A v \in Workers \ {w} : worker'[v] = worker[v]
<1>1. claims' \in {claims, claims + 1}
  BY StepUses, TaskStepGrows DEF TaskGrows
<1>2. CASE UNCHANGED pipelineVars
  BY <1>2 DEF pipelineVars
<1>3. ASSUME NEW w \in Workers,
             Work(w) \/ PostFault(w) \/ PollFault(w) \/ AbandonFault(w) \/ Crash(w)
      PROVE  \A v \in Workers \ {w} : worker'[v] = worker[v]
  <2>1. PICK row : GoesOn(w, row)
    BY <1>1, <1>3, DeliverGoes, ExecutorGoes, OperationGoes, ClientGoes, FaultGoes DEF Work
  <2> QED  BY <2>1 DEF GoesOn, CallersInv, PipelineTypeOK
<1> QED  BY <1>2, <1>3, OthersChange DEF PipelineNext

\* RunsInv is inductive.
LEMMA RunsStep ==
  ASSUME CallersInv, CallersInv', RunsInv, [PipelineNext]_pipelineVars
  PROVE  RunsInv'
<1>1. TaskGrows /\ AiMoves
  BY StepUses, TaskStepGrows, StepAi
<1>2. ASSUME NEW w \in Workers, worker'[w] = worker[w]
      PROVE  RunFits(worker[w])'
  BY <1>1, <1>2, StillRuns DEF RunsInv, CallersInv, HoldsToken
<1>3. ASSUME NEW w \in Workers,
             Work(w) \/ PostFault(w) \/ PollFault(w) \/ AbandonFault(w) \/ Crash(w)
      PROVE  RunFits(worker[w])'
  BY <1>1, <1>3, ExecutorRuns, BeginRuns, ApplyRuns, ClientRuns DEF Work, Operation, Client
<1>4. \A w \in Workers : RunFits(worker[w])'
  BY <1>2, <1>3, OneWorker
<1>5. AckedIsOver
  BY DEF RunsInv
<1>6. PlainStep => RunsKept
  BY <1>5, PlainStepKeepsRuns
<1>7. UNCHANGED taskVars => RunsKept
  BY <1>6 DEF PlainStep
<1>8. ASSUME NEW w \in Workers, Register(w) \/ Apply(w) \/ Acknowledge(w)
      PROVE  \/ RunsKept
             \/ worker[w].pc = "apply" /\ ReceiptWritten(w)
             \/ worker[w].pc = "register" /\ RegisterRun(Token(w), Run(w))
             \/ worker[w].pc = "acknowledge" /\ AcknowledgeCancel(Run(w))
  <2>1. CASE Apply(w)
    BY <1>1, <1>7, <2>1, ApplyRuns DEF Apply, At
  <2>2. CASE Register(w) \/ Acknowledge(w)
    BY <1>7, <2>2 DEF Register, Acknowledge, At
  <2> QED  BY <1>8, <2>1, <2>2
<1>9. AckedIsOver' /\ BilledRunsExist' /\ ResultsComeFromRuns' /\ AcknowledgedIsCancelled'
  BY <1>1, <1>6, <1>8, StepKinds, RowsKeepRuns
<1> QED  BY <1>4, <1>9 DEF RunsInv

LEMMA RunsInit == PipelineInit => RunsInv
<1> SUFFICES ASSUME PipelineInit PROVE RunsInv
  OBVIOUS
<1>1. \A w \in Workers : worker[w].pc = "idle" /\ worker[w].run = "first"
  BY DEF PipelineInit, Idle
<1> QED  BY <1>1 DEF PipelineInit, TaskInit, RunsInv, AckedIsOver, BilledRunsExist, ResultsComeFromRuns,
         AcknowledgedIsCancelled, RunFits, RunsOf, Runs

\* A charge, a receipt, a result and an acknowledged cancellation each name a run that the
\* service knows, in the state the task takes it for, whatever replies were lost and
\* whichever worker was overtaken.
THEOREM RunsAgreeCorrect == PipelineSpec => []RunsAgree
<1>1. PipelineInit => RunsInv
  BY RunsInit
<1>2. CallersInv /\ CallersInv' /\ RunsInv /\ [PipelineNext]_pipelineVars => RunsInv'
  BY RunsStep
<1>3. CallersInv /\ RunsInv => RunsAgree
  BY DEF CallersInv, RunsInv, RunsAgree
<1> QED  BY <1>1, <1>2, <1>3, CallersCorrect, PTL DEF PipelineSpec

-------------------------------------------------------------------------------
(* The pipeline while no worker stops and no lease runs out under one *)

NoStop == budget.crashes = 0 /\ budget.pauses = 0

AtWork(w) == worker[w].pc \notin {"idle", "claim"}

\* A worker that holds a claim holds the one of the task, which is live, or the task is over;
\* it only gives an attempt up when there is another one, and only looks back at the task
\* when it is over.
WorkFits(w) ==
  /\ AtWork(w) => Claimed(Token(w)) \/ Terminal
  /\ worker[w].pc = "release" => attempts < MaxAttempts \/ Terminal
  /\ worker[w].pc \in {"reconcile", "finalize"} => Terminal

\* Somebody works under a live claim; a lease that ended was given up, and somebody is
\* about to take the task as long as it is not over.
TaskIsHeld ==
  /\ status = "running" /\ lease = "live" => \E w \in Workers : AtWork(w) /\ Token(w) = claimToken
  /\ status = "queued" => attempts = 0
  /\ status = "running" /\ lease # "live" => attempts < MaxAttempts
  /\ Terminal \/ ~Quiet

WorkedInv == (\A w \in Workers : WorkFits(w)) /\ TaskIsHeld

\* An import, an export or a privacy job works on no row of its own.
FilesHaveNoRow == kind = "file" => resource = "none"

\* Only the operations of the other kinds write a row.
LEMMA FilesHaveNoRowStep ==
  ASSUME FilesHaveNoRow, [TaskNext]_taskVars
  PROVE  FilesHaveNoRow'
<1> USE DEF FilesHaveNoRow, jobVars
<1>1. CASE UNCHANGED taskVars
  BY <1>1 DEF taskVars
<1>2. CASE ClaimTask \/ LeaseExpires \/ FailExhausted
  BY <1>2 DEF ClaimTask, ClaimExhausted, ClaimFresh, ClaimPending, LeaseExpires, FailExhausted
<1>3. CASE OwnerCall
  BY <1>3 DEF OwnerCall, RequestCancel, StartAgain, LeaveFailedAnalysis, Restartable, RestoredDraft,
     RestoredParse
<1>4. ASSUME NEW tok \in Tokens, WorkerCall(tok) PROVE FilesHaveNoRow'
  <2>1. CASE ReleaseClaim(tok) \/ ReconcileCancelled(tok) \/ FinalizeUnused(tok) \/ BeginProcessing(tok)
    BY <2>1 DEF ReleaseClaim, ReconcileCancelled, FinalizeUnused, BeginProcessing, RestoredDraft, RestoredParse
  <2>2. CASE RejectInput(tok) \/ CompleteTask(tok) \/ HandleTerminalFailure(tok)
    BY <2>2 DEF RejectInput, CompleteTask, HandleTerminalFailure
  <2>3. ASSUME NEW run \in Runs, RegisterRun(tok, run) PROVE FilesHaveNoRow'
    BY <2>3 DEF RegisterRun
  <2>4. ASSUME NEW flag \in BOOLEAN,
               ApplyRules(tok, flag) \/ FailTask(tok, flag) \/ MarkFailurePending(tok, flag)
        PROVE  FilesHaveNoRow'
    BY <2>4 DEF ApplyRules, FailTask, MarkFailurePending
  <2>5. ASSUME NEW flag \in BOOLEAN, NEW outcome \in ReceiptStatuses,
               \/ ApplyReceipt(tok, outcome, flag)
               \/ ApplyMatchReceipt(tok, outcome, flag)
               \/ ApplySuggestionReceipt(tok, outcome, flag)
        PROVE  FilesHaveNoRow'
    BY <2>5 DEF ApplyReceipt, ApplyMatchReceipt, ApplySuggestionReceipt
  <2> QED  BY <1>4, <2>1, <2>2, <2>3, <2>4, <2>5 DEF WorkerCall
<1>5. ASSUME NEW run \in Runs, AcknowledgeCancel(run) PROVE FilesHaveNoRow'
  BY <1>5 DEF AcknowledgeCancel
<1> QED  BY <1>1, <1>2, <1>3, <1>4, <1>5 DEF TaskNext

\* The step ends the task or finds it ended, or changes neither claim nor attempt.
ClaimKept == Terminal' \/ UNCHANGED <<status, attempts, claims, claimToken, lease>>

\* Who changes the claim: no transaction but a release, as long as the task goes on.
LEMMA PlainCallKeeps ==
  ASSUME NEW tok \in Tokens, PlainCall(tok), ~ReleaseClaim(tok)
  PROVE  ClaimKept
<1> USE DEF ClaimKept, claimVars
<1>1. ASSUME NEW st \in TerminalStatuses, Finish(st) PROVE Terminal'
  BY <1>1 DEF Finish, FinishWith, Terminal
<1>2. {"succeeded", "failed", "cancelled"} = TerminalStatuses
  BY DEF TerminalStatuses
<1>3. CASE ReconcileCancelled(tok) \/ FinalizeUnused(tok)
  BY <1>2, <1>3 DEF ReconcileCancelled, Reconcilable, FinalizeUnused, Finalizable, Terminal
<1>4. CASE BeginProcessing(tok)
  BY <1>4 DEF BeginProcessing
<1>5. CASE RejectInput(tok) \/ CompleteTask(tok) \/ HandleTerminalFailure(tok)
  BY <1>1, <1>2, <1>5 DEF RejectInput, CompleteTask, HandleTerminalFailure
<1>6. ASSUME NEW flag \in BOOLEAN, ApplyRules(tok, flag) \/ FailTask(tok, flag) PROVE ClaimKept
  BY <1>1, <1>2, <1>6 DEF ApplyRules, FailTask
<1>7. ASSUME NEW flag \in BOOLEAN, MarkFailurePending(tok, flag) PROVE ClaimKept
  BY <1>7 DEF MarkFailurePending
<1> QED  BY <1>3, <1>4, <1>5, <1>6, <1>7 DEF PlainCall

LEMMA OwnerKeeps ==
  ASSUME OwnerCall \/ FailExhausted
  PROVE  ClaimKept
BY DEF OwnerCall, RequestCancel, StartAgain, LeaveFailedAnalysis, FailExhausted, FinishWith, Terminal,
   TerminalStatuses, ClaimKept, claimVars

\* A receipt is accepted under the live claim of its worker, or of a task that is over.
LEMMA ReceiptKeeps ==
  ASSUME NEW w \in Workers, Apply(w), Claimed(Token(w)) \/ Terminal
  PROVE  ClaimKept
<1> USE DEF ClaimKept, claimVars
<1>1. CASE UNCHANGED taskVars
  BY <1>1 DEF taskVars
<1>2. CASE Terminal
  <2>1. Terminal'
    BY <1>2 DEF Apply, ApplyReceipt, ApplyMatchReceipt, ApplySuggestionReceipt, PublishResource,
       FailResource, Finish, FinishWith, CanTransition, Terminal, TerminalStatuses, taskVars
  <2> QED  BY <2>1
<1>3. CASE Claimed(Token(w))
  BY <1>3 DEF Apply, ApplyReceipt, ApplyMatchReceipt, ApplySuggestionReceipt, PublishResource,
     FailResource, Finish, FinishWith, CanTransition, Terminal, TerminalStatuses, taskVars, Claimed
<1> QED  BY <1>2, <1>3

LEMMA ClientKeeps ==
  ASSUME NEW w \in Workers, Register(w) \/ Acknowledge(w)
  PROVE  ClaimKept
BY DEF Register, Acknowledge, RegisterRun, AcknowledgeCancel, ClaimKept, claimVars, Terminal,
   TerminalStatuses, taskVars

\* Fault budgets only fill up, so a worker that never stopped had not stopped before.
LEMMA StillNoStop ==
  ASSUME CallersInv, [PipelineNext]_pipelineVars, NoStop'
  PROVE  NoStop
<1>1. \A what \in Faults : budget[what] \in Nat
  BY DEF CallersInv
<1>2. budget' = budget \/ \E what \in Faults : Spend(what, Limit[what])
  BY WorkChanges, OthersChange DEF PipelineNext, pipelineVars
<1>3. \A what \in Faults : budget[what] <= budget'[what]
  BY <1>1, <1>2 DEF Spend, CallersInv
<1>4. {"crashes", "pauses"} \subseteq Faults
  BY DEF Faults
<1>5. budget.crashes \in Nat /\ budget.pauses \in Nat /\ budget.crashes <= budget'.crashes
      /\ budget.pauses <= budget'.pauses
  BY <1>1, <1>3, <1>4
<1> QED  BY <1>5 DEF NoStop

\* Where the worker is after the ways there are to go on.
LEMMA PlaceIs ==
  ASSUME CallersInv, NEW w \in Workers
  PROVE  /\ \A pc \in Steps : GoTo(w, pc) => worker'[w].pc = pc
         /\ \A pc \in Steps, retry \in BOOLEAN : Raise(w, pc, retry) => worker'[w].pc = pc
         /\ \A run \in Runs : StartRun(w, run) => worker'[w].pc = "post"
         /\ Leave(w) => worker'[w].pc = "idle"
         /\ Become(w, [Idle EXCEPT !.pc = "claim"]) => worker'[w].pc = "claim"
<1>1. worker \in [Workers -> WorkerStates] /\ worker[w] \in WorkerStates
  BY DEF CallersInv, PipelineTypeOK
<1>2. ASSUME NEW pc \in Steps, GoTo(w, pc) PROVE worker'[w].pc = pc
  BY <1>1, <1>2 DEF GoTo, Become, WorkerStates
<1>3. ASSUME NEW pc \in Steps, NEW retry \in BOOLEAN, Raise(w, pc, retry) PROVE worker'[w].pc = pc
  BY <1>1, <1>3 DEF Raise, Become, WorkerStates
<1>4. ASSUME NEW run \in Runs, StartRun(w, run) PROVE worker'[w].pc = "post"
  BY <1>1, <1>4 DEF StartRun, Become, WorkerStates
<1>5. Leave(w) => worker'[w].pc = "idle"
  BY <1>1 DEF Leave, Become, Idle
<1>6. Become(w, [Idle EXCEPT !.pc = "claim"]) => worker'[w].pc = "claim"
  BY <1>1 DEF Become, Idle
<1> QED  BY <1>2, <1>3, <1>4, <1>5, <1>6

\* Where the steps of a worker lead, as far as the claim is concerned.
LEMMA OperationStays ==
  ASSUME CallersInv, NEW w \in Workers, Operation(w) \/ PostFault(w) \/ PollFault(w) \/ AbandonFault(w)
  PROVE  worker'[w].pc \notin {"idle", "claim", "release", "reconcile", "finalize"}
<1> USE PlaceIs DEF Steps, Runs
<1>1. CASE Begin(w)
  BY <1>1 DEF Begin
<1>2. CASE FileOperation(w) \/ Rules(w)
  BY <1>2 DEF FileOperation, Rules
<1>3. CASE Apply(w)
  BY <1>3 DEF Apply
<1>4. CASE PostFault(w) \/ PollFault(w) \/ AbandonFault(w)
  BY <1>4 DEF PostFault, PollFault, AbandonFault
<1> QED  BY <1>1, <1>2, <1>3, <1>4 DEF Operation

LEMMA ClientStays ==
  ASSUME CallersInv, NEW w \in Workers, Client(w)
  PROVE  worker'[w].pc \notin {"idle", "claim", "release", "reconcile", "finalize"}
<1>1. worker \in [Workers -> WorkerStates] /\ worker[w] \in WorkerStates
  BY DEF CallersInv, PipelineTypeOK
<1>2. CASE Post(w) \/ Acknowledge(w) \/ Abandon(w)
  BY <1>2, PlaceIs DEF Post, Acknowledge, Abandon, Steps
<1>3. CASE Register(w)
  <2>1. Raise(w, "abandon", FALSE) => worker'[w].pc = "abandon"
    BY PlaceIs DEF Steps
  <2>2. Become(w, [worker[w] EXCEPT !.pc = "poll", !.stop = CancellationRequested])
          => worker'[w].pc = "poll"
    BY <1>1 DEF Become, WorkerStates
  <2> QED  BY <1>3, <2>1, <2>2 DEF Register
<1>4. CASE NoticeCancel(w) \/ SendCancel(w)
  BY <1>1, <1>4 DEF NoticeCancel, SendCancel, At, Become, WorkerStates
<1>5. CASE GetReceipt(w)
  <2>1. PICK pc \in {"acknowledge", "apply"} :
          Become(w, [worker[w] EXCEPT !.outcome = aiRun[Run(w)], !.pc = pc])
    BY <1>5 DEF GetReceipt
  <2> QED  BY <1>1, <2>1 DEF Become, WorkerStates
<1> QED  BY <1>2, <1>3, <1>4, <1>5 DEF Client

\* The executor lays a claim down after the task ended, or to try again.
LEMMA ExecutorPlaces ==
  ASSUME CallersInv, ResultIffSucceeded, FilesHaveNoRow, NEW w \in Workers, WorkFits(w), Executor(w)
  PROVE  /\ AtWork(w) /\ worker'[w].pc \in {"idle", "claim"}
              => Terminal' \/ (Release(w) /\ ReleaseClaim(Token(w)))
         /\ worker'[w].pc = "release" => attempts < MaxAttempts /\ UNCHANGED taskVars
         /\ worker'[w].pc \in {"reconcile", "finalize"} => Terminal /\ UNCHANGED taskVars
<1> USE PlaceIs DEF Steps, At
<1>1. Terminal /\ UNCHANGED taskVars => Terminal'
  BY DEF Terminal, taskVars
<1>2. ASSUME NEW st \in TerminalStatuses, Finish(st) PROVE Terminal'
  BY <1>2 DEF Finish, FinishWith, Terminal
<1>3. {"succeeded", "failed", "cancelled"} = TerminalStatuses
  BY DEF TerminalStatuses
<1>4. CASE Claim(w)
  <2>1. PICK pc \in {"handle", "begin"} : Become(w, [Idle EXCEPT !.pc = pc, !.tok = claimToken'])
    BY <1>4 DEF Claim
  <2>2. worker'[w].pc = pc
    BY <2>1 DEF Become, Idle, CallersInv, PipelineTypeOK
  <2> QED  BY <2>1, <2>2
<1>5. CASE ClaimRefused(w)
  BY <1>5 DEF ClaimRefused, AtWork
<1>6. CASE Return(w)
  BY <1>6 DEF Return
<1>7. CASE Complete(w)
  BY <1>2, <1>3, <1>7 DEF Complete, CompleteTask
<1>8. CASE Except(w)
  BY <1>8, <1>3 DEF Except, Terminal
<1>9. CASE Reconcile(w) \/ Finalize(w)
  <2>1. Terminal'
    BY <1>1, <1>9 DEF Reconcile, Finalize, WorkFits, ReconcileCancelled, FinalizeUnused, Terminal
  <2> QED  BY <1>9, <2>1 DEF Reconcile, Finalize
<1>10. CASE Release(w)
  BY <1>1, <1>10 DEF Release, WorkFits, AtWork
<1>11. CASE Mark(w)
  BY <1>1, <1>11 DEF Mark, WorkFits, AtWork
<1>12. CASE Handle(w)
  <2>1. HandleTerminalFailure(Token(w)) => Terminal'
    BY <1>2, <1>3 DEF HandleTerminalFailure
  <2>2. ~Linked => Terminal
    BY DEF Linked, ResultIffSucceeded, FilesHaveNoRow
  <2>3. worker'[w].pc = "idle"
    BY <1>12 DEF Handle
  <2> QED  BY <1>1, <1>12, <2>1, <2>2, <2>3 DEF Handle, WorkFits, AtWork
<1>13. CASE Fail(w)
  <2>1. worker[w].retry \in BOOLEAN /\ (FailTask(Token(w), worker[w].retry) => Terminal')
    BY <1>2, <1>3, RowTyped DEF FailTask, CallersInv, PipelineTypeOK
  <2> QED  BY <1>1, <1>13, <2>1 DEF Fail, WorkFits, AtWork
<1> QED  BY <1>4, <1>5, <1>6, <1>7, <1>8, <1>9, <1>10, <1>11, <1>12, <1>13 DEF Executor

\* So does the worker as a whole.
LEMMA PlacesFit ==
  ASSUME CallersInv, ResultIffSucceeded, FilesHaveNoRow, NEW w \in Workers, WorkFits(w), Work(w)
  PROVE  /\ AtWork(w) /\ worker'[w].pc \in {"idle", "claim"}
              => Terminal' \/ (Release(w) /\ ReleaseClaim(Token(w)))
         /\ worker'[w].pc = "release" => attempts < MaxAttempts /\ UNCHANGED taskVars
         /\ worker'[w].pc \in {"reconcile", "finalize"} => Terminal /\ UNCHANGED taskVars
<1>1. CASE Deliver(w)
  BY <1>1, PlaceIs DEF Deliver, AtWork, At, Steps
<1> QED  BY <1>1, ExecutorPlaces, OperationStays, ClientStays DEF Work

\* The four things a step may do to the claim of the task.
LEMMA ClaimCases ==
  ASSUME CallersInv, WorkedInv, [PipelineNext]_pipelineVars
  PROVE  \/ ClaimKept
         \/ \E w \in Workers : Claim(w)
         \/ \E w \in Workers : Release(w) /\ ReleaseClaim(Token(w))
         \/ Time
<1>1. UNCHANGED taskVars => ClaimKept
  BY DEF taskVars, ClaimKept
<1>2. CASE UNCHANGED pipelineVars
  BY <1>1, <1>2 DEF pipelineVars
<1>3. ASSUME NEW w \in Workers, Executor(w)
      PROVE  \/ ClaimKept
             \/ Claim(w)
             \/ Release(w) /\ ReleaseClaim(Token(w))
  <2>1. ASSUME AtWork(w), PlainCall(Token(w)), ~ReleaseClaim(Token(w)) PROVE ClaimKept
    BY <2>1, CallerHolds, PlainCallKeeps DEF AtWork
  <2>2. CASE ClaimRefused(w)
    <3>1. ClaimExhausted => Terminal'
      BY DEF ClaimExhausted, Finish, FinishWith, Terminal, TerminalStatuses
    <3> QED  BY <1>1, <2>2, <3>1 DEF ClaimRefused, ClaimKept
  <2>3. CASE Return(w) \/ Except(w)
    BY <1>1, <2>3 DEF Return, Except
  <2>4. ASSUME AtWork(w), ReleaseClaim(Token(w)), ~Release(w) PROVE ClaimKept
    <3>1. lease = "live" /\ lease' = "expired" /\ status' = "running"
      BY <2>4 DEF ReleaseClaim, Claimed
    <3> QED
      BY <1>1, <1>3, <2>2, <2>3, <2>4, <3>1
         DEF Executor, Claim, Complete, Reconcile, Finalize, Mark, Handle, Fail, ClaimFresh, ClaimPending,
             NewClaim, CompleteTask, ReconcileCancelled, FinalizeUnused, MarkFailurePending,
             HandleTerminalFailure, FailTask, Finish, FinishWith, ClaimKept, Terminal, TerminalStatuses,
             claimVars
  <2>5. ASSUME AtWork(w), PlainCall(Token(w)), ~Release(w) PROVE ClaimKept
    BY <2>1, <2>4, <2>5
  <2>6. CASE Release(w)
    BY <1>1, <2>6 DEF Release
  <2>7. CASE Complete(w) \/ Reconcile(w) \/ Finalize(w) \/ Handle(w)
    BY <1>1, <2>5, <2>6, <2>7 DEF Complete, Reconcile, Finalize, Handle, At, AtWork, PlainCall
  <2>8. CASE Mark(w) \/ Fail(w)
    <3>1. worker[w].retry \in BOOLEAN
      BY RowTyped DEF CallersInv, PipelineTypeOK
    <3> QED  BY <1>1, <2>5, <2>6, <2>8, <3>1 DEF Mark, Fail, At, AtWork, PlainCall
  <2> QED  BY <1>3, <2>2, <2>3, <2>6, <2>7, <2>8 DEF Executor
<1>4. ASSUME NEW w \in Workers, Operation(w) PROVE ClaimKept
  <2>1. CASE Apply(w)
    BY <2>1, ReceiptKeeps DEF Apply, At, WorkedInv, WorkFits, AtWork
  <2>2. CASE FileOperation(w)
    BY <1>1, <2>2 DEF FileOperation
  <2>3. CASE Begin(w)
    <3>1. Token(w) \in Tokens
      BY <2>3, CallerHolds DEF Begin, At
    <3>2. BeginProcessing(Token(w)) \/ RejectInput(Token(w)) \/ UNCHANGED taskVars
      BY <2>3 DEF Begin
    <3> QED  BY <1>1, <3>2
             DEF BeginProcessing, RejectInput, Finish, FinishWith, ClaimKept, claimVars, Terminal,
                 TerminalStatuses
  <2>4. CASE Rules(w)
    <3>1. (\E valid \in BOOLEAN : ApplyRules(Token(w), valid)) \/ UNCHANGED taskVars
      BY <2>4 DEF Rules
    <3> QED  BY <1>1, <3>1 DEF ApplyRules, Finish, FinishWith, ClaimKept, Terminal, TerminalStatuses
  <2> QED  BY <1>4, <2>1, <2>2, <2>3, <2>4 DEF Operation
<1>5. ASSUME NEW w \in Workers,
             Deliver(w) \/ Client(w) \/ PostFault(w) \/ PollFault(w) \/ AbandonFault(w) \/ Crash(w)
      PROVE  ClaimKept
  BY <1>1, <1>5, ClientKeeps
     DEF Client, Deliver, Post, NoticeCancel, SendCancel, GetReceipt, Abandon, PostFault, PollFault,
         AbandonFault, Crash
<1>6. ASSUME NEW run \in Runs, EndRun(run) PROVE ClaimKept
  BY <1>1, <1>6 DEF EndRun
<1>7. CASE Dispatcher
  BY <1>1, <1>7, OwnerKeeps DEF Dispatcher, DispatchNext, Publish, PublishRaises, DispatcherCrashes
<1>8. CASE Owner
  BY <1>8, OwnerKeeps DEF Owner, OwnerCall
<1> QED  BY <1>2, <1>3, <1>4, <1>5, <1>6, <1>7, <1>8 DEF PipelineNext, Work

\* Without a lease that runs out under a worker there is none that runs out at all.
LEMMA NoTime ==
  ASSUME CallersInv, TaskIsHeld, NoStop, NoStop'
  PROVE  ~Time /\ \A w \in Workers : ~Crash(w)
<1>1. budget \in [Faults -> Nat] /\ {"crashes", "pauses"} \subseteq Faults
  BY DEF CallersInv, Faults
<1>2. ASSUME NEW w \in Workers, Crash(w) PROVE FALSE
  BY <1>1, <1>2 DEF Crash, Spend, NoStop
<1>3. ASSUME Time PROVE FALSE
  <2>1. Working
    BY <1>3 DEF Time, LeaseExpires, TaskIsHeld, Working, AtWork, At
  <2> QED  BY <1>1, <1>3, <2>1 DEF Time, Spend, NoStop
<1> QED  BY <1>2, <1>3

\* A task that is not over does not lose the last one who knows of it.
LEMMA StaysUnquiet ==
  ASSUME CallersInv, ResultIffSucceeded, FilesHaveNoRow, WorkedInv, NoStop, NoStop',
         [PipelineNext]_pipelineVars, ~Terminal, ~Terminal'
  PROVE  ~Quiet'
<1> SUFFICES ASSUME Quiet' PROVE FALSE
  OBVIOUS
<1>1. ~Quiet /\ TaskIsHeld
  BY DEF WorkedInv, TaskIsHeld
<1>2. ASSUME UNCHANGED <<outbox, broker, worker>> PROVE FALSE
  BY <1>1, <1>2 DEF Quiet, At
<1>3. CASE UNCHANGED pipelineVars \/ Owner \/ \E run \in Runs : EndRun(run)
  BY <1>2, <1>3 DEF pipelineVars, dispatchVars, Owner, EndRun
<1>4. CASE Dispatcher
  <2>1. broker \in Nat
    BY DEF CallersInv, PipelineTypeOK
  <2>2. ASSUME NEW accepted \in BOOLEAN, PublishRaises(accepted) PROVE FALSE
    BY <2>2 DEF PublishRaises, Dispatched, Quiet, FailExhausted, Terminal, TerminalStatuses
  <2> QED  BY <1>4, <2>1, <2>2 DEF Dispatcher, DispatchNext, Publish, DispatcherCrashes, PublishFault, Quiet
<1>5. ASSUME NEW w \in Workers,
             Work(w) \/ PostFault(w) \/ PollFault(w) \/ AbandonFault(w),
             \A v \in Workers \ {w} : worker'[v] = worker[v]
      PROVE  FALSE
  <2>1. worker'[w].pc = "idle" /\ \A v \in Workers : worker'[v].pc = "idle"
    BY DEF Quiet, At
  <2>2. Work(w)
    BY <1>5, <2>1, OperationStays
  <2>3. WorkFits(w)
    BY DEF WorkedInv
  <2>4. CASE AtWork(w)
    <3>1. Release(w) /\ ReleaseClaim(Token(w))
      BY <2>1, <2>2, <2>3, <2>4, PlacesFit
    <3>2. Become(w, [Idle EXCEPT !.pc = "claim"])
      BY <3>1 DEF Release, ReleaseClaim
    <3> QED  BY <2>1, <3>2, PlaceIs
  <2>5. CASE ~AtWork(w)
    <3>1. CASE Deliver(w)
      BY <2>1, <3>1, PlaceIs DEF Deliver, Steps
    <3>2. CASE Claim(w)
      <4>1. PICK pc \in {"handle", "begin"} : Become(w, [Idle EXCEPT !.pc = pc, !.tok = claimToken'])
        BY <3>2 DEF Claim
      <4> QED  BY <2>1, <4>1 DEF Become, Idle, CallersInv, PipelineTypeOK
    <3>3. CASE ClaimRefused(w)
      <4>1. ~ClaimExhausted
        BY DEF ClaimExhausted, Finish, FinishWith, Terminal, TerminalStatuses
      <4>2. ~Claimable
        BY <3>3, <4>1 DEF ClaimRefused
      <4>3. status = "running" /\ lease = "live"
        BY <4>2 DEF Claimable, Terminal, TerminalStatuses, CallersInv, PipelineTypeOK, TypeOK
      <4>4. PICK v \in Workers : AtWork(v)
        BY <1>1, <4>3 DEF TaskIsHeld
      <4> QED  BY <1>5, <2>1, <2>5, <4>4 DEF AtWork
    <3>4. ~Operation(w) /\ ~Client(w)
      BY <2>1, OperationStays, ClientStays
    <3>5. ASSUME Executor(w), ~Claim(w), ~ClaimRefused(w) PROVE FALSE
      BY <2>5, <3>5 DEF Executor, AtWork, At, Return, Complete, Except, Reconcile, Finalize, Release,
         Mark, Handle, Fail
    <3> QED  BY <2>2, <3>1, <3>2, <3>3, <3>4, <3>5 DEF Work
  <2> QED  BY <2>4, <2>5
<1>6. ASSUME worker' = worker, NEW w \in Workers,
             Work(w) \/ PostFault(w) \/ PollFault(w) \/ AbandonFault(w)
      PROVE  FALSE
  BY <1>5, <1>6
<1> QED  BY <1>1, <1>3, <1>4, <1>5, <1>6, NoTime, OneWorker DEF PipelineNext

\* A worker keeps its claim under a step that changes no claim.
LEMMA KeepsWork ==
  ASSUME CallersInv, CallersInv', ResultIffSucceeded, FilesHaveNoRow, WorkedInv, NoStop, NoStop',
         [PipelineNext]_pipelineVars, ~Terminal, ~Terminal',
         UNCHANGED <<status, attempts, claims, claimToken, lease>>
  PROVE  WorkedInv'
<1>1. claims \in Nat /\ \A w \in Workers : WorkFits(w)
  BY DEF CallersInv, PipelineTypeOK, TypeOK, WorkedInv
<1>2. ASSUME NEW w \in Workers,
             Work(w) \/ PostFault(w) \/ PollFault(w) \/ AbandonFault(w)
      PROVE  /\ WorkFits(w)'
             /\ AtWork(w)' => AtWork(w) /\ Token(w)' = Token(w)
             /\ AtWork(w) /\ ~AtWork(w)' => lease' # "live"
  <2>1. PICK row : GoesOn(w, row)
    BY <1>1, <1>2, DeliverGoes, ExecutorGoes, OperationGoes, ClientGoes, FaultGoes DEF Work
  <2>2. worker'[w] = row /\ HoldsToken(row, claims) /\ HoldsToken(worker[w], claims)
        /\ row.tok \in {worker[w].tok, NoClaim}
    BY <1>1, <2>1 DEF GoesOn, CallersInv, PipelineTypeOK
  <2>3. AtWork(w)' => AtWork(w) /\ Token(w)' = Token(w)
    BY <2>2 DEF AtWork, Token, HoldsToken, NoClaim
  <2>4. /\ AtWork(w) /\ ~AtWork(w)' => Release(w) /\ ReleaseClaim(Token(w))
        /\ worker'[w].pc = "release" => attempts < MaxAttempts
        /\ worker'[w].pc \notin {"reconcile", "finalize"}
    BY <1>1, <1>2, PlacesFit, OperationStays DEF AtWork
  <2>5. ReleaseClaim(Token(w)) => lease' = "expired"
    BY DEF ReleaseClaim
  <2> QED  BY <1>1, <2>3, <2>4, <2>5 DEF WorkFits, Claimed, Terminal
<1>3. ASSUME NEW w \in Workers, worker'[w] = worker[w]
      PROVE  WorkFits(w)' /\ (AtWork(w)' <=> AtWork(w)) /\ Token(w)' = Token(w)
  BY <1>1, <1>3 DEF WorkFits, Claimed, Terminal, AtWork, Token
<1>4. \A w \in Workers : \/ worker'[w] = worker[w]
                         \/ Work(w) \/ PostFault(w) \/ PollFault(w) \/ AbandonFault(w)
  BY OneWorker, NoTime DEF WorkedInv
<1>5. \A w \in Workers : WorkFits(w)'
  BY <1>2, <1>3, <1>4
<1>6. \A w \in Workers : AtWork(w) /\ lease' = "live" => AtWork(w)' /\ Token(w)' = Token(w)
  BY <1>2, <1>3, <1>4
<1>7. TaskIsHeld'
  <2>1. TaskIsHeld
    BY DEF WorkedInv
  <2> QED  BY <1>6, <2>1, StaysUnquiet DEF TaskIsHeld, Terminal
<1> QED  BY <1>5, <1>7 DEF WorkedInv

\* WorkedInv is inductive as long as there is no fault of its kinds.
LEMMA WorkedStep ==
  ASSUME CallersInv, CallersInv', NewestClaimOnly, ResultIffSucceeded, FilesHaveNoRow, WorkedInv,
         NoStop, NoStop', [PipelineNext]_pipelineVars
  PROVE  WorkedInv'
<1>1. \A w \in Workers : WorkFits(w)
  BY DEF WorkedInv
<1>2. CASE Terminal'
  BY <1>2 DEF WorkedInv, WorkFits, TaskIsHeld, Terminal, TerminalStatuses
<1>3. CASE ~Terminal' /\ ClaimKept
  BY <1>3, KeepsWork DEF ClaimKept, Terminal
<1>4. ASSUME NEW w \in Workers, Claim(w) PROVE WorkedInv'
  <2>1. /\ Claimable /\ status' = "running" /\ lease' = "live"
        /\ worker[w].pc = "claim"
    BY <1>4 DEF Claim, At, ClaimFresh, ClaimPending, NewClaim, NewestClaimOnly
  <2>2. \A v \in Workers : ~AtWork(v)
    BY <1>1, <2>1 DEF WorkFits, Claimed, Claimable, Terminal, TerminalStatuses
  <2>3. PICK pc \in {"handle", "begin"} : Become(w, [Idle EXCEPT !.pc = pc, !.tok = claimToken'])
    BY <1>4 DEF Claim
  <2>4. worker'[w].pc = pc /\ Token(w)' = claimToken' /\ \A v \in Workers \ {w} : worker'[v] = worker[v]
    BY <2>3 DEF Become, Idle, Token, CallersInv, PipelineTypeOK
  <2>5. \A v \in Workers \ {w} : ~AtWork(v)'
    BY <2>2, <2>4 DEF AtWork
  <2> QED  BY <2>1, <2>4, <2>5 DEF WorkedInv, WorkFits, TaskIsHeld, AtWork, Claimed, Quiet, At
<1>5. ASSUME NEW w \in Workers, Release(w), ReleaseClaim(Token(w)) PROVE WorkedInv'
  <2>1. /\ Claimed(Token(w)) /\ lease' = "expired" /\ status' = "running" /\ attempts' = attempts
        /\ Become(w, [Idle EXCEPT !.pc = "claim"])
    BY <1>5 DEF Release, ReleaseClaim, Claimed
  <2>2. worker[w].pc = "release" /\ attempts < MaxAttempts
    BY <1>1, <1>5, <2>1 DEF Release, At, WorkFits, Claimed, Terminal, TerminalStatuses
  <2>3. Token(w) # NoClaim
    BY <2>1 DEF Claimed, NewestClaimOnly
  <2>4. \A v \in Workers \ {w} : ~AtWork(v)
    BY <1>1, <2>1, <2>3 DEF WorkFits, Claimed, Terminal, TerminalStatuses, CallersInv
  <2>5. worker'[w].pc = "claim" /\ \A v \in Workers \ {w} : worker'[v] = worker[v]
    BY <2>1 DEF Become, Idle, CallersInv, PipelineTypeOK
  <2> QED  BY <2>1, <2>2, <2>4, <2>5 DEF WorkedInv, WorkFits, TaskIsHeld, AtWork, Quiet, At
<1> QED  BY <1>2, <1>3, <1>4, <1>5, ClaimCases, NoTime DEF WorkedInv

LEMMA WorkedInit == PipelineInit => WorkedInv
<1> SUFFICES ASSUME PipelineInit PROVE WorkedInv
  OBVIOUS
<1>1. \A w \in Workers : worker[w].pc = "idle"
  BY DEF PipelineInit, Idle
<1> QED  BY <1>1 DEF PipelineInit, TaskInit, OutboxInit, WorkedInv, WorkFits, TaskIsHeld, AtWork, Quiet

\* What TaskService promises to every caller, it promises here.
LEMMA RowsCorrect ==
  PipelineSpec => [](NewestClaimOnly /\ ResultIffSucceeded /\ LedgerFollowsRuns /\ FilesHaveNoRow)
<1>1. TaskInit => FilesHaveNoRow
  BY DEF TaskInit, FilesHaveNoRow
<1>2. FilesHaveNoRow /\ [TaskNext]_taskVars => FilesHaveNoRow'
  BY FilesHaveNoRowStep
<1>3. TaskSpec => []FilesHaveNoRow
  BY <1>1, <1>2, PTL DEF TaskSpec
<1> QED  BY <1>3, UsesTaskServiceCorrect, NewestClaimCorrect, ResultCorrect, LedgerCorrect, PTL
         DEF UsesTaskService

\* As long as no worker stopped and none was overtaken, a task that has not ended is in
\* somebody's hands, and every worker that works for it works under its claim.
THEOREM WorkedCorrect == PipelineSpec => [](NoStop => WorkedInv)
<1>1. PipelineInit => (NoStop => WorkedInv)
  BY WorkedInit
<1>2. /\ CallersInv /\ CallersInv' /\ NewestClaimOnly /\ ResultIffSucceeded /\ FilesHaveNoRow
      /\ (NoStop => WorkedInv) /\ [PipelineNext]_pipelineVars
      => (NoStop => WorkedInv)'
  <2> SUFFICES ASSUME CallersInv, CallersInv', NewestClaimOnly, ResultIffSucceeded, FilesHaveNoRow,
                      NoStop => WorkedInv, [PipelineNext]_pipelineVars, NoStop'
               PROVE  WorkedInv'
    OBVIOUS
  <2> QED  BY StillNoStop, WorkedStep
<1> QED  BY <1>1, <1>2, CallersCorrect, RowsCorrect, PTL DEF PipelineSpec

-------------------------------------------------------------------------------
(* The job of a parse *)

\* The job of a parse that has ended is not held by it any more.
JobFits == kind = "parse" /\ Terminal => resource # "busy"

\* Every way to end the task but a claim without attempts frees the job of a parse.
LEMMA JobFitsStep ==
  ASSUME JobFits, [TaskNext]_taskVars, ~ClaimExhausted
  PROVE  JobFits'
<1> USE DEF JobFits, jobVars
<1>1. CASE UNCHANGED taskVars
  BY <1>1 DEF taskVars, Terminal
<1>2. CASE ClaimTask \/ LeaseExpires
  BY <1>2 DEF ClaimTask, ClaimFresh, ClaimPending, LeaseExpires, Terminal, TerminalStatuses
<1>3. CASE OwnerCall
  BY <1>3 DEF OwnerCall, RequestCancel, StartAgain, LeaveFailedAnalysis, RestoredParse, Terminal
<1>4. CASE FailExhausted
  BY <1>4 DEF FailExhausted
<1>5. ASSUME NEW tok \in Tokens, WorkerCall(tok) PROVE JobFits'
  <2>1. CASE ReleaseClaim(tok) \/ ReconcileCancelled(tok) \/ FinalizeUnused(tok) \/ BeginProcessing(tok)
    BY <2>1 DEF ReleaseClaim, ReconcileCancelled, FinalizeUnused, BeginProcessing, RestoredDraft,
       RestoredParse, Terminal
  <2>2. CASE RejectInput(tok) \/ CompleteTask(tok) \/ HandleTerminalFailure(tok)
    BY <2>2 DEF RejectInput, CompleteTask, HandleTerminalFailure
  <2>3. ASSUME NEW run \in Runs, RegisterRun(tok, run) PROVE JobFits'
    BY <2>3 DEF RegisterRun, Terminal
  <2>4. ASSUME NEW flag \in BOOLEAN,
               ApplyRules(tok, flag) \/ FailTask(tok, flag) \/ MarkFailurePending(tok, flag)
        PROVE  JobFits'
    BY <2>4 DEF ApplyRules, FailTask, MarkFailurePending, Terminal
  <2>5. ASSUME NEW flag \in BOOLEAN, NEW outcome \in ReceiptStatuses,
               \/ ApplyReceipt(tok, outcome, flag)
               \/ ApplyMatchReceipt(tok, outcome, flag)
               \/ ApplySuggestionReceipt(tok, outcome, flag)
        PROVE  JobFits'
    BY <2>5 DEF ApplyReceipt, ApplyMatchReceipt, ApplySuggestionReceipt, PublishResource, FailResource
  <2> QED  BY <1>5, <2>1, <2>2, <2>3, <2>4, <2>5 DEF WorkerCall
<1>6. ASSUME NEW run \in Runs, AcknowledgeCancel(run) PROVE JobFits'
  BY <1>6 DEF AcknowledgeCancel, Terminal
<1> QED  BY <1>1, <1>2, <1>3, <1>4, <1>5, <1>6 DEF TaskNext

\* A claim finds attempts left, for the last attempt ends the task.
LEMMA NeverExhausted ==
  ASSUME CallersInv, TaskIsHeld
  PROVE  ~ClaimExhausted
BY AttemptsAssumption DEF ClaimExhausted, Claimable, AttemptsLeft, TaskIsHeld

\* The job of a parse that nobody works for any more is free or carries its result, unless a
\* worker stopped or was overtaken.
THEOREM JobIsFreeCorrect == PipelineSpec => [](NoStop => JobIsFree)
<1>1. PipelineInit => (NoStop => JobFits)
  BY DEF PipelineInit, TaskInit, JobFits, Terminal, TerminalStatuses
<1>2. /\ CallersInv /\ (NoStop => WorkedInv) /\ (NoStop => JobFits) /\ [PipelineNext]_pipelineVars
      => (NoStop => JobFits)'
  <2> SUFFICES ASSUME CallersInv, NoStop => WorkedInv, NoStop => JobFits, [PipelineNext]_pipelineVars,
                      NoStop'
               PROVE  JobFits'
    OBVIOUS
  <2>1. NoStop /\ ~ClaimExhausted
    BY StillNoStop, NeverExhausted DEF WorkedInv
  <2> QED  BY <2>1, StepUses, JobFitsStep
<1>3. JobFits => JobIsFree
  BY DEF JobFits, JobIsFree, RowIsFree
<1> QED  BY <1>1, <1>2, <1>3, CallersCorrect, WorkedCorrect, PTL DEF PipelineSpec

-------------------------------------------------------------------------------
(* The runs of the service *)

NoLostCancel == NoStop /\ budget.lostCancels = 0

Watches(w, run) == worker[w].run = run /\ worker[w].pc \in {"register", "poll", "abandon"}

\* A worker that told the service to cancel its run was heard, and a run that goes on
\* unasked has a worker that will hear of its end or cancel it.
WatchInv ==
  /\ \A w \in Workers :
       worker[w].sent => worker[w].run \in aiCancel \/ aiRun[worker[w].run] \in ReceiptStatuses
  /\ \A run \in Runs :
       aiRun[run] = "running" => run \in aiCancel \/ \E w \in Workers : Watches(w, run)

\* What a step does to the run of the worker that takes it, and to what it told the service.
KeepsRun(w) == worker'[w].run = worker[w].run /\ worker'[w].sent = worker[w].sent

LEMMA RunIs ==
  ASSUME CallersInv, NEW w \in Workers
  PROVE  /\ \A pc \in Steps : GoTo(w, pc) => KeepsRun(w) /\ worker'[w].pc = pc
         /\ \A pc \in Steps, retry \in BOOLEAN : Raise(w, pc, retry) => KeepsRun(w) /\ worker'[w].pc = pc
         /\ \A run \in Runs : StartRun(w, run) => ~worker'[w].sent
         /\ Leave(w) => ~worker'[w].sent
         /\ Become(w, [Idle EXCEPT !.pc = "claim"]) => ~worker'[w].sent
<1>1. worker \in [Workers -> WorkerStates] /\ worker[w] \in WorkerStates
  BY DEF CallersInv, PipelineTypeOK
<1> USE DEF KeepsRun
<1>2. ASSUME NEW pc \in Steps, GoTo(w, pc) PROVE KeepsRun(w) /\ worker'[w].pc = pc
  BY <1>1, <1>2 DEF GoTo, Become, WorkerStates
<1>3. ASSUME NEW pc \in Steps, NEW retry \in BOOLEAN, Raise(w, pc, retry)
      PROVE  KeepsRun(w) /\ worker'[w].pc = pc
  BY <1>1, <1>3 DEF Raise, Become, WorkerStates
<1>4. ASSUME NEW run \in Runs, StartRun(w, run) PROVE ~worker'[w].sent
  BY <1>1, <1>4 DEF StartRun, Become, WorkerStates
<1>5. Leave(w) => ~worker'[w].sent
  BY <1>1 DEF Leave, Become, Idle
<1>6. Become(w, [Idle EXCEPT !.pc = "claim"]) => ~worker'[w].sent
  BY <1>1 DEF Become, Idle
<1> QED  BY <1>2, <1>3, <1>4, <1>5, <1>6

LEMMA ExecutorKeepsRun ==
  ASSUME CallersInv, NEW w \in Workers, Executor(w) \/ Operation(w) \/ Deliver(w)
  PROVE  KeepsRun(w) \/ ~worker'[w].sent
<1> USE RunIs DEF Steps, Runs
<1>1. CASE Claim(w)
  <2>1. PICK pc \in {"handle", "begin"} : Become(w, [Idle EXCEPT !.pc = pc, !.tok = claimToken'])
    BY <1>1 DEF Claim
  <2> QED  BY <2>1 DEF Become, Idle, CallersInv, PipelineTypeOK
<1>2. CASE ClaimRefused(w) \/ Reconcile(w) \/ Finalize(w) \/ Handle(w) \/ Fail(w) \/ Release(w)
  BY <1>2 DEF ClaimRefused, Reconcile, Finalize, Handle, Fail, Release
<1>3. CASE Return(w) \/ Complete(w) \/ Mark(w) \/ Except(w) \/ Deliver(w)
  BY <1>3 DEF Return, Complete, Mark, Except, Deliver
<1>4. CASE Begin(w)
  BY <1>4 DEF Begin
<1>5. CASE FileOperation(w) \/ Rules(w)
  BY <1>5 DEF FileOperation, Rules
<1>6. CASE Apply(w)
  BY <1>6 DEF Apply
<1> QED  BY <1>1, <1>2, <1>3, <1>4, <1>5, <1>6 DEF Executor, Operation

\* The client stays with its run, and leaves it by a receipt, a cancellation or a lost one.
LEMMA ClientKeepsRun ==
  ASSUME CallersInv, NEW w \in Workers,
         Client(w) \/ PostFault(w) \/ PollFault(w) \/ AbandonFault(w)
  PROVE  /\ worker'[w].run = worker[w].run
         /\ worker'[w].sent = worker[w].sent \/ SendCancel(w)
         /\ worker'[w].pc \in {"register", "poll", "abandon"} \/ GetReceipt(w) \/ Acknowledge(w)
              \/ Abandon(w) \/ AbandonFault(w)
<1>1. worker \in [Workers -> WorkerStates] /\ worker[w] \in WorkerStates
  BY DEF CallersInv, PipelineTypeOK
<1>2. CASE Post(w) \/ Acknowledge(w) \/ Abandon(w)
  BY <1>2, RunIs DEF Post, Acknowledge, Abandon, Steps, KeepsRun
<1>3. CASE Register(w)
  <2>1. Raise(w, "abandon", FALSE) => KeepsRun(w) /\ worker'[w].pc = "abandon"
    BY RunIs DEF Steps
  <2>2. Become(w, [worker[w] EXCEPT !.pc = "poll", !.stop = CancellationRequested])
          => KeepsRun(w) /\ worker'[w].pc = "poll"
    BY <1>1 DEF Become, WorkerStates, KeepsRun
  <2> QED  BY <1>3, <2>1, <2>2 DEF Register, KeepsRun
<1>4. CASE NoticeCancel(w) \/ SendCancel(w)
  BY <1>1, <1>4 DEF NoticeCancel, SendCancel, At, Become, WorkerStates
<1>5. CASE GetReceipt(w)
  <2>1. PICK pc \in {"acknowledge", "apply"} :
          Become(w, [worker[w] EXCEPT !.outcome = aiRun[Run(w)], !.pc = pc])
    BY <1>5 DEF GetReceipt
  <2> QED  BY <1>1, <1>5, <2>1 DEF Become, WorkerStates
<1>6. CASE PostFault(w) \/ PollFault(w) \/ AbandonFault(w)
  BY <1>6, RunIs DEF PostFault, PollFault, AbandonFault, Steps, KeepsRun
<1> QED  BY <1>2, <1>3, <1>4, <1>5, <1>6 DEF Client

\* The steps of the service and of its clients that touch a run.
LEMMA AiChanges ==
  ASSUME CallersInv, [PipelineNext]_pipelineVars, NEW run \in Runs,
         aiRun[run] # "running", aiRun'[run] = "running"
  PROVE  \E w \in Workers : Run(w) = run /\ (Post(w) \/ PostFault(w))
<1>1. Ai!AiTypeOK /\ "running" \notin Ai!EndStatuses
  BY DEF CallersInv, PipelineTypeOK, Ai!EndStatuses
<1>2. ASSUME NEW r \in Runs, Ai!CancelRun(r) \/ Ai!RunEnds(r) \/ UNCHANGED aiVars PROVE FALSE
  BY <1>1, <1>2 DEF Ai!CancelRun, Ai!RunEnds, aiVars, Ai!AiTypeOK
<1>3. ASSUME NEW w \in Workers, Ai!Accept(Run(w)) PROVE Run(w) = run
  BY <1>1, <1>3, RowTyped DEF Ai!Accept, Ai!AiTypeOK, Run, CallersInv, PipelineTypeOK
<1>4. \A w \in Workers : Run(w) \in Runs
  BY RowTyped DEF Run, CallersInv, PipelineTypeOK
<1>5. CASE UNCHANGED pipelineVars \/ Dispatcher \/ Time \/ Owner
  BY <1>2, <1>5 DEF pipelineVars, aiVars, Dispatcher, Time, Owner, Runs
<1>6. ASSUME NEW r \in Runs, EndRun(r) PROVE FALSE
  BY <1>2, <1>6 DEF EndRun
<1>7. ASSUME NEW w \in Workers, Deliver(w) \/ Executor(w) \/ Operation(w) \/ Crash(w) \/ PollFault(w)
                                  \/ AbandonFault(w)
      PROVE  FALSE
  <2>1. UNCHANGED aiVars
    BY <1>7 DEF Executor, Claim, ClaimRefused, Return, Complete, Except, Reconcile, Finalize, Release,
       Mark, Handle, Fail, Operation, Begin, FileOperation, Rules, Apply, Deliver, outsideVars, Crash,
       PollFault, AbandonFault
  <2> QED  BY <1>2, <2>1
<1>8. ASSUME NEW w \in Workers, Client(w), ~Post(w) PROVE FALSE
  <2>1. UNCHANGED aiVars \/ Ai!CancelRun(Run(w))
    BY <1>8 DEF Client, Register, NoticeCancel, SendCancel, GetReceipt, Acknowledge, Abandon, outsideVars
  <2> QED  BY <1>2, <1>4, <2>1
<1>9. ASSUME NEW w \in Workers, Post(w) \/ PostFault(w) PROVE Run(w) = run
  BY <1>2, <1>3, <1>9 DEF Post, PostFault
<1> QED  BY <1>5, <1>6, <1>7, <1>8, <1>9 DEF PipelineNext, Work

\* WatchInv is inductive as long as there is no fault of its kinds.
LEMMA WatchStep ==
  ASSUME CallersInv, RunsInv, WatchInv, NoLostCancel, NoLostCancel', [PipelineNext]_pipelineVars
  PROVE  WatchInv'
<1>1. /\ AiMoves /\ "running" \notin ReceiptStatuses /\ "absent" \notin ReceiptStatuses
      /\ \A w \in Workers : worker[w].run \in Runs
  BY StepAi, RowTyped DEF ReceiptStatuses, CallersInv, PipelineTypeOK
<1>2. budget \in [Faults -> Nat] /\ {"crashes", "lostCancels"} \subseteq Faults
  BY DEF CallersInv, Faults
<1>3. \A w \in Workers : ~Crash(w) /\ ~AbandonFault(w)
  BY <1>2 DEF Crash, AbandonFault, Spend, NoLostCancel, NoStop
<1>4. ASSUME NEW w \in Workers, worker'[w].sent, KeepsRun(w)
      PROVE  worker'[w].run \in aiCancel' \/ aiRun'[worker'[w].run] \in ReceiptStatuses
  BY <1>1, <1>4 DEF KeepsRun, WatchInv, AiMoves
<1>5. ASSUME NEW w \in Workers, SendCancel(w)
      PROVE  worker'[w].run \in aiCancel' \/ aiRun'[worker'[w].run] \in ReceiptStatuses
  <2>1. worker[w].pc = "poll" /\ Ai!CancelRun(worker[w].run) /\ worker'[w].run = worker[w].run
    BY <1>5, ClientKeepsRun DEF SendCancel, At, Run, Client
  <2>2. aiRun[worker[w].run] # "absent"
    BY <2>1 DEF RunsInv, RunFits
  <2> QED  BY <1>1, <2>1, <2>2 DEF Ai!CancelRun, CallersInv, PipelineTypeOK, Ai!AiTypeOK, Ai!EndStatuses,
           ReceiptStatuses
<1>6. ASSUME NEW w \in Workers, worker'[w].sent
      PROVE  worker'[w].run \in aiCancel' \/ aiRun'[worker'[w].run] \in ReceiptStatuses
  <2>1. CASE worker'[w] = worker[w]
    BY <1>4, <1>6, <2>1 DEF KeepsRun
  <2>2. CASE Work(w) \/ PostFault(w) \/ PollFault(w)
    BY <1>4, <1>5, <1>6, <2>2, ExecutorKeepsRun, ClientKeepsRun DEF Work, KeepsRun
  <2> QED  BY <1>3, <2>1, <2>2, OneWorker
<1>7. ASSUME NEW run \in Runs, aiRun'[run] = "running", run \notin aiCancel'
      PROVE  \E w \in Workers : Watches(w, run)'
  <2>1. CASE aiRun[run] # "running"
    <3>1. PICK w \in Workers : Run(w) = run /\ (Post(w) \/ PostFault(w))
      BY <1>7, <2>1, AiChanges
    <3>2. ~GetReceipt(w) /\ ~Acknowledge(w) /\ ~Abandon(w)
      BY <3>1 DEF Post, PostFault, GetReceipt, Acknowledge, Abandon, At
    <3> QED  BY <1>3, <3>1, <3>2, ClientKeepsRun DEF Watches, Run, Client
  <2>2. CASE aiRun[run] = "running"
    <3>1. run \notin aiCancel
      BY <1>1, <1>7 DEF AiMoves
    <3>2. PICK w \in Workers : Watches(w, run)
      BY <2>2, <3>1 DEF WatchInv
    <3>3. CASE worker'[w] = worker[w]
      BY <3>2, <3>3 DEF Watches
    <3>4. CASE Client(w) \/ PostFault(w) \/ PollFault(w)
      <4>1. ~GetReceipt(w) /\ ~Acknowledge(w)
        BY <1>1, <2>2, <3>2 DEF GetReceipt, RunEnded, Run, Acknowledge, At, Watches
      <4>2. ASSUME Abandon(w) PROVE FALSE
        <5>1. ~worker[w].sent
          BY <1>1, <2>2, <3>1, <3>2 DEF WatchInv, Watches
        <5>2. Ai!CancelRun(run)
          BY <3>2, <4>2, <5>1 DEF Abandon, Watches, Run
        <5> QED  BY <1>7, <2>2, <5>2 DEF Ai!CancelRun
      <4> QED  BY <1>3, <3>2, <3>4, <4>1, <4>2, ClientKeepsRun DEF Watches
    <3>5. ~Executor(w) /\ ~Operation(w) /\ ~Deliver(w)
      BY <3>2 DEF Watches, Executor, Claim, ClaimRefused, Return, Complete, Except, Reconcile, Finalize,
         Release, Mark, Handle, Fail, Operation, Begin, FileOperation, Rules, Apply, Deliver, At
    <3> QED  BY <1>3, <3>3, <3>4, <3>5, OneWorker DEF Work
  <2> QED  BY <2>1, <2>2
<1> QED  BY <1>6, <1>7 DEF WatchInv

\* Neither a task nor a run is lost sight of before it has ended, unless a worker stopped, was
\* overtaken, or could not deliver its last word to the service.
THEOREM NothingIsLostCorrect == PipelineSpec => [](NoLostCancel => NothingIsLost)
<1>1. PipelineInit => RunsInv /\ (NoLostCancel => WatchInv)
  <2>1. PipelineInit => WatchInv
    BY DEF PipelineInit, Idle, Ai!AiInit, WatchInv
  <2> QED  BY <2>1, RunsInit
<1>2. CallersInv /\ CallersInv' /\ RunsInv /\ [PipelineNext]_pipelineVars => RunsInv'
  BY RunsStep
<1>3. /\ CallersInv /\ CallersInv' /\ RunsInv /\ (NoLostCancel => WatchInv) /\ [PipelineNext]_pipelineVars
      => (NoLostCancel => WatchInv)'
  <2> SUFFICES ASSUME CallersInv, CallersInv', RunsInv, NoLostCancel => WatchInv,
                      [PipelineNext]_pipelineVars, NoLostCancel'
               PROVE  WatchInv'
    OBVIOUS
  <2>1. NoLostCancel
    <3>1. budget \in [Faults -> Nat] /\ budget' \in [Faults -> Nat] /\ "lostCancels" \in Faults
      BY DEF CallersInv, Faults
    <3>2. budget' = budget \/ \E what \in Faults : Spend(what, Limit[what])
      BY WorkChanges, OthersChange DEF PipelineNext, pipelineVars
    <3>3. budget.lostCancels = 0
      BY <3>1, <3>2 DEF Spend, NoLostCancel
    <3> QED  BY <3>3, StillNoStop DEF NoLostCancel
  <2> QED  BY <2>1, WatchStep
<1>4. WatchInv => NoOrphanRun
  BY DEF WatchInv, NoOrphanRun, Quiet, At, Watches
<1>5. WorkedInv => NothingForgotten
  BY DEF WorkedInv, TaskIsHeld, NothingForgotten
<1>6. NoLostCancel /\ WatchInv /\ (NoStop => WorkedInv) => NothingIsLost
  BY <1>4, <1>5 DEF NothingIsLost, NoLostCancel
<1> QED  BY <1>1, <1>2, <1>3, <1>6, CallersCorrect, WorkedCorrect, PTL DEF PipelineSpec

-------------------------------------------------------------------------------
(* The reservation of a task while a run is started *)

\* The answer of a cancelled analysis is not given up before its run was paid for.
AnalysisHeld ==
  kind = "analysis" /\ status = "cancelled" /\ ledger = "reserved" => resource # "open"

\* An answer is opened by its receipt, which charges, or by the end of a task that failed.
LEMMA AnalysisHeldStep ==
  ASSUME AnalysisHeld, ResultIffSucceeded, [TaskNext]_taskVars
  PROVE  AnalysisHeld'
<1> USE DEF AnalysisHeld, jobVars, ledgerVars
<1>1. CASE UNCHANGED taskVars
  BY <1>1 DEF taskVars
<1>2. CASE ClaimTask \/ LeaseExpires \/ FailExhausted
  BY <1>2 DEF ClaimTask, ClaimExhausted, ClaimFresh, ClaimPending, LeaseExpires, FailExhausted, Finish,
     FinishWith
<1>3. CASE RequestCancel
  BY <1>3 DEF RequestCancel, RestoredDraft, RestoredParse, ResultIffSucceeded
<1>4. CASE StartAgain \/ LeaveFailedAnalysis
  BY <1>4 DEF StartAgain, LeaveFailedAnalysis
<1>5. ASSUME NEW tok \in Tokens, WorkerCall(tok) PROVE AnalysisHeld'
  <2>1. CASE ReleaseClaim(tok) \/ ReconcileCancelled(tok) \/ FinalizeUnused(tok) \/ BeginProcessing(tok)
    BY <2>1 DEF ReleaseClaim, ReconcileCancelled, Reconcilable, FinalizeUnused, BeginProcessing
  <2>2. CASE RejectInput(tok) \/ CompleteTask(tok) \/ HandleTerminalFailure(tok)
    BY <2>2 DEF RejectInput, CompleteTask, HandleTerminalFailure, Finish, FinishWith
  <2>3. ASSUME NEW run \in Runs, RegisterRun(tok, run) PROVE AnalysisHeld'
    BY <2>3 DEF RegisterRun, Bind, ledgerVars
  <2>4. ASSUME NEW flag \in BOOLEAN,
               ApplyRules(tok, flag) \/ FailTask(tok, flag) \/ MarkFailurePending(tok, flag)
        PROVE  AnalysisHeld'
    BY <2>4 DEF ApplyRules, FailTask, MarkFailurePending, Finish, FinishWith
  <2>5. ASSUME NEW flag \in BOOLEAN, NEW outcome \in ReceiptStatuses, ApplyReceipt(tok, outcome, flag)
        PROVE  AnalysisHeld'
    BY <2>5 DEF ApplyReceipt, Consume, Bind, ledgerVars
  <2>6. ASSUME NEW flag \in BOOLEAN, NEW outcome \in ReceiptStatuses,
               ApplyMatchReceipt(tok, outcome, flag) \/ ApplySuggestionReceipt(tok, outcome, flag)
        PROVE  AnalysisHeld'
    BY <2>6 DEF ApplyMatchReceipt, ApplySuggestionReceipt
  <2> QED  BY <1>5, <2>1, <2>2, <2>3, <2>4, <2>5, <2>6 DEF WorkerCall
<1>6. ASSUME NEW run \in Runs, AcknowledgeCancel(run) PROVE AnalysisHeld'
  BY <1>6 DEF AcknowledgeCancel, ledgerVars
<1> QED  BY <1>1, <1>2, <1>3, <1>4, <1>5, <1>6 DEF TaskNext, OwnerCall

LEMMA AnalysisHeldCorrect == PipelineSpec => []AnalysisHeld
<1>1. TaskInit => AnalysisHeld
  BY DEF TaskInit, AnalysisHeld
<1>2. AnalysisHeld /\ ResultIffSucceeded /\ [TaskNext]_taskVars => AnalysisHeld'
  BY AnalysisHeldStep
<1>3. TaskSpec => []AnalysisHeld
  BY <1>1, <1>2, ResultCorrect, PTL DEF TaskSpec
<1> QED  BY <1>3, UsesTaskServiceCorrect, PTL DEF UsesTaskService

\* A charge is never taken back.
LEMMA ConsumedStays ==
  ASSUME ledger = "consumed", [TaskNext]_taskVars
  PROVE  ledger' = "consumed"
<1> USE DEF ReleaseUnused, ledgerVars
<1>1. CASE UNCHANGED taskVars
  BY <1>1 DEF taskVars
<1>2. CASE ClaimTask \/ LeaseExpires \/ FailExhausted
  BY <1>2 DEF ClaimTask, ClaimExhausted, ClaimFresh, ClaimPending, LeaseExpires, FailExhausted
<1>3. CASE OwnerCall
  BY <1>3 DEF OwnerCall, RequestCancel, StartAgain, LeaveFailedAnalysis
<1>4. ASSUME NEW tok \in Tokens, WorkerCall(tok) PROVE ledger' = "consumed"
  <2>1. CASE ReleaseClaim(tok) \/ ReconcileCancelled(tok) \/ FinalizeUnused(tok) \/ BeginProcessing(tok)
    BY <2>1 DEF ReleaseClaim, ReconcileCancelled, FinalizeUnused, Finalizable, BeginProcessing
  <2>2. CASE RejectInput(tok) \/ CompleteTask(tok) \/ HandleTerminalFailure(tok)
    BY <2>2 DEF RejectInput, CompleteTask, HandleTerminalFailure
  <2>3. ASSUME NEW run \in Runs, RegisterRun(tok, run) PROVE ledger' = "consumed"
    BY <2>3 DEF RegisterRun, Bind
  <2>4. ASSUME NEW flag \in BOOLEAN,
               ApplyRules(tok, flag) \/ FailTask(tok, flag) \/ MarkFailurePending(tok, flag)
        PROVE  ledger' = "consumed"
    BY <2>4 DEF ApplyRules, FailTask, MarkFailurePending
  <2>5. ASSUME NEW flag \in BOOLEAN, NEW outcome \in ReceiptStatuses,
               \/ ApplyReceipt(tok, outcome, flag)
               \/ ApplyMatchReceipt(tok, outcome, flag)
               \/ ApplySuggestionReceipt(tok, outcome, flag)
        PROVE  ledger' = "consumed"
    BY <2>5 DEF ApplyReceipt, ApplyMatchReceipt, ApplySuggestionReceipt, Consume, Bind
  <2> QED  BY <1>4, <2>1, <2>2, <2>3, <2>4, <2>5 DEF WorkerCall
<1>5. ASSUME NEW run \in Runs, AcknowledgeCancel(run) PROVE ledger' = "consumed"
  BY <1>5 DEF AcknowledgeCancel
<1> QED  BY <1>1, <1>2, <1>3, <1>4, <1>5 DEF TaskNext

NoFault == NoStop /\ budget.aiFaults = 0 /\ outbox.state # "exhausted"

\* A worker that starts a run does it for a task that is charged already, or it watches for a
\* cancellation and holds the reservation: by the claim, and against the owner by the stage.
HoldsReservation(w) ==
  /\ ledger = "reserved" /\ claimToken = Token(w)
  /\ \/ status = "running" /\ lease = "live" /\ (kind = "draft" => stage = "draft_processing")
     \/ status = "cancelled"

Starts(w) == metered /\ (ledger = "consumed" \/ (worker[w].watching /\ HoldsReservation(w)))

\* A run is asked for under a reservation that nobody can give back, and is charged before
\* the worker that asked for it turns to anything else.
ChargeInv ==
  /\ \A w \in Workers : worker[w].pc \in {"post", "register"} => Starts(w)
  /\ \A w \in Workers :
       worker[w].pc \in {"poll", "acknowledge", "apply", "abandon"} => ledger = "consumed"
  /\ \A run \in Runs : aiRun[run] # "absent" =>
       ledger = "consumed" \/ \E w \in Workers : worker[w].pc = "register" /\ worker[w].run = run

\* No transaction of another worker, and none of the owner, gives the reservation back.
LEMMA ReservationKept ==
  ASSUME CallersInv, LedgerFollowsRuns, ResultIffSucceeded, AnalysisHeld, TaskIsHeld, ChargeInv,
         NoFault, NoFault', [PipelineNext]_pipelineVars,
         NEW w \in Workers, worker[w].pc \in {"post", "register"}, HoldsReservation(w), metered,
         worker'[w] = worker[w] \/ Post(w)
  PROVE  HoldsReservation(w)'
<1>1. Token(w)' = Token(w)
  <2>1. CASE worker'[w] = worker[w]
    BY <2>1 DEF Token
  <2>2. CASE Post(w)
    BY <2>2 DEF Post, GoTo, Become, Token, CallersInv, PipelineTypeOK, WorkerStates
  <2> QED  BY <2>1, <2>2
<1>2. ASSUME UNCHANGED taskVars PROVE HoldsReservation(w)'
  BY <1>1, <1>2 DEF HoldsReservation, taskVars
<1>3. CASE UNCHANGED pipelineVars \/ \E run \in Runs : EndRun(run)
  BY <1>2, <1>3 DEF pipelineVars, EndRun
<1>4. CASE Dispatcher
  <2>1. ASSUME NEW accepted \in BOOLEAN, PublishRaises(accepted) PROVE UNCHANGED taskVars
    BY <2>1 DEF PublishRaises, Dispatched, NoFault
  <2> QED  BY <1>2, <1>4, <2>1 DEF Dispatcher, DispatchNext, Publish, DispatcherCrashes
<1>5. CASE Owner
  <2>1. CASE RequestCancel
    BY <1>1, <2>1 DEF RequestCancel, HoldsReservation, UnstartedDraft, FinishWith, claimVars, Terminal,
       TerminalStatuses
  <2>2. CASE StartAgain
    BY <1>1, <2>2 DEF StartAgain, HoldsReservation, claimVars, ledgerVars, jobVars
  <2>3. CASE LeaveFailedAnalysis
    BY <2>3 DEF LeaveFailedAnalysis, HoldsReservation, AnalysisHeld
  <2> QED  BY <1>5, <2>1, <2>2, <2>3 DEF Owner
<1>6. ~Time /\ \A v \in Workers : ~Crash(v)
  BY NoTime DEF NoFault
<1>7. ASSUME NEW v \in Workers,
             Work(v) \/ PostFault(v) \/ PollFault(v) \/ AbandonFault(v)
      PROVE  HoldsReservation(w)'
  <2>1. ~ClaimTask
    BY DEF ClaimTask, ClaimExhausted, ClaimFresh, ClaimPending, Claimable, HoldsReservation
  <2>2. ~Apply(v) /\ ~Acknowledge(v)
    BY DEF ChargeInv, HoldsReservation, Apply, Acknowledge, At
  <2>3. CASE v = w
    <3>1. CASE worker[w].pc = "register"
      <4>1. worker[w].pc \in Steps /\ worker'[w].pc = "register"
        BY <3>1 DEF Post, At, Steps
      <4>2. ~Executor(w) /\ ~Operation(w) /\ ~Deliver(w)
        BY <3>1 DEF Executor, Claim, ClaimRefused, Return, Complete, Except, Reconcile, Finalize, Release,
           Mark, Handle, Fail, Operation, Begin, FileOperation, Rules, Apply, Deliver, At
      <4>3. ~PostFault(w) /\ ~PollFault(w) /\ ~AbandonFault(w)
        BY <3>1 DEF PostFault, PollFault, AbandonFault, At
      <4>4. ~Register(w)
        <5>1. Raise(w, "abandon", FALSE) => worker'[w].pc = "abandon"
          BY PlaceIs DEF Steps
        <5>2. Become(w, [worker[w] EXCEPT !.pc = "poll", !.stop = CancellationRequested])
                => worker'[w].pc = "poll"
          BY DEF Become, WorkerStates, CallersInv, PipelineTypeOK
        <5> QED  BY <4>1, <5>1, <5>2 DEF Register
      <4>5. ~Post(w) /\ ~NoticeCancel(w) /\ ~SendCancel(w) /\ ~GetReceipt(w) /\ ~Abandon(w)
        BY <3>1 DEF Post, NoticeCancel, SendCancel, GetReceipt, Abandon, At
      <4> QED  BY <1>7, <2>2, <2>3, <4>2, <4>3, <4>4, <4>5 DEF Work, Client
    <3>2. CASE worker[w].pc = "post"
      <4>1. ~Executor(w) /\ ~Operation(w) /\ ~Deliver(w) /\ ~Register(w)
        BY <3>2 DEF Executor, Claim, ClaimRefused, Return, Complete, Except, Reconcile, Finalize, Release,
           Mark, Handle, Fail, Operation, Begin, FileOperation, Rules, Apply, Deliver, At, Register
      <4>2. UNCHANGED taskVars
        BY <1>7, <2>2, <2>3, <4>1 DEF Work, Client, Post, NoticeCancel, SendCancel, GetReceipt, Abandon,
           PostFault, PollFault, AbandonFault
      <4> QED  BY <1>2, <4>2
    <3> QED  BY <3>1, <3>2
  <2>4. CASE v # w
    <3>1. Token(w) # NoClaim /\ Token(v) # claimToken
      BY <2>4 DEF CallersInv, HoldsToken, Token, NoClaim, HoldsReservation
    <3>2. ASSUME PlainCall(Token(v)) PROVE FALSE
      BY <3>1, <3>2 DEF PlainCall, ReleaseClaim, ReconcileCancelled, Reconcilable, FinalizeUnused, Finalizable,
         BeginProcessing, RejectInput, CompleteTask, HandleTerminalFailure, ApplyRules, FailTask,
         MarkFailurePending, Claimed
    <3>3. Register(v) => UNCHANGED taskVars
      BY <3>1 DEF Register, RegisterRun, Claimed
    <3> QED  BY <1>2, <1>7, <2>1, <2>2, <3>2, <3>3, WorkUses DEF PlainCallOf
  <2> QED  BY <2>3, <2>4
<1> QED  BY <1>3, <1>4, <1>5, <1>6, <1>7 DEF PipelineNext

\* How a worker comes to start a run, and how it gets beyond that.
LEMMA StartPlaces ==
  ASSUME CallersInv, NEW w \in Workers, Work(w) \/ AbandonFault(w)
  PROVE  /\ worker'[w].pc = "post" =>
              \/ Begin(w) /\ metered /\ StartRun(w, "first")
                   /\ IF MarksStage THEN BeginProcessing(Token(w)) ELSE Claimed(Token(w)) /\ UNCHANGED taskVars
              \/ Apply(w) /\ metered /\ ledger' = "consumed"
         /\ worker'[w].pc = "register" =>
              Post(w) /\ worker[w].watching /\ worker'[w].watching /\ Token(w)' = Token(w)
         /\ worker'[w].pc \in {"poll", "acknowledge", "apply", "abandon"} =>
              worker[w].pc \in {"poll", "acknowledge"} \/ Register(w) \/ (Post(w) /\ ~worker[w].watching)
<1>1. worker \in [Workers -> WorkerStates] /\ worker[w] \in WorkerStates
  BY DEF CallersInv, PipelineTypeOK
<1>2. CASE Claim(w)
  <2>1. PICK pc \in {"handle", "begin"} : Become(w, [Idle EXCEPT !.pc = pc, !.tok = claimToken'])
    BY <1>2 DEF Claim
  <2>2. worker'[w].pc = pc
    BY <1>1, <2>1 DEF Become, Idle
  <2> QED  BY <2>2
<1>3. CASE Executor(w) /\ ~Claim(w)
  <2>1. worker'[w].pc \in {"idle", "claim", "finalize", "raised", "reconcile", "release", "fail", "mark",
                           "handle"}
    BY <1>3, PlaceIs DEF Executor, ClaimRefused, Reconcile, Finalize, Handle, Fail, Release, Return,
       Complete, Mark, Except, Steps
  <2> QED  BY <2>1
<1>4. CASE Begin(w)
  <2>1. ASSUME GoTo(w, "rules") \/ GoTo(w, "returned") \/ Raise(w, "raised", FALSE)
        PROVE  worker'[w].pc \in {"rules", "returned", "raised"}
    BY <2>1, PlaceIs DEF Steps
  <2>2. StartRun(w, "first") => worker'[w].pc = "post"
    BY PlaceIs DEF Runs
  <2>3. worker'[w].pc \in {"post", "rules", "returned", "raised"}
    BY <1>4, <2>1, <2>2 DEF Begin
  <2>4. worker'[w].pc = "post" => metered /\ StartRun(w, "first")
          /\ IF MarksStage THEN BeginProcessing(Token(w)) ELSE Claimed(Token(w)) /\ UNCHANGED taskVars
    BY <1>4, <2>1 DEF Begin
  <2> QED  BY <1>4, <2>3, <2>4
<1>5. CASE FileOperation(w) \/ Rules(w) \/ Deliver(w)
  <2>1. worker'[w].pc \in {"claim", "returned", "raised"}
    BY <1>5, PlaceIs DEF FileOperation, Rules, Deliver, Steps
  <2> QED  BY <2>1
<1>6. CASE Apply(w)
  <2>1. ASSUME GoTo(w, "returned") \/ Raise(w, "raised", FALSE)
        PROVE  worker'[w].pc \in {"returned", "raised"}
    BY <2>1, PlaceIs DEF Steps
  <2>2. StartRun(w, "second") => worker'[w].pc = "post"
    BY PlaceIs DEF Runs
  <2>3. \/ worker'[w].pc \in {"returned", "raised"}
        \/ /\ worker'[w].pc = "post"
           /\ \E valid \in BOOLEAN : ApplyMatchReceipt(Token(w), worker[w].outcome, valid)
    BY <1>6, <2>1, <2>2 DEF Apply
  <2>4. ASSUME NEW valid \in BOOLEAN, ApplyMatchReceipt(Token(w), worker[w].outcome, valid)
        PROVE  metered /\ ledger' = "consumed"
    BY <2>4 DEF ApplyMatchReceipt, StoreReceipt, Consume, Bind, ledgerVars
  <2> QED  BY <1>6, <2>3, <2>4
<1>7. CASE Post(w)
  <2>1. PICK pc \in {"register", "poll"} : GoTo(w, pc) /\ (pc = "register" <=> worker[w].watching)
    BY <1>1, <1>7 DEF Post, WorkerStates
  <2>2. worker'[w].pc = pc /\ worker'[w].watching = worker[w].watching /\ Token(w)' = Token(w)
    BY <1>1, <2>1 DEF GoTo, Become, WorkerStates, Token
  <2> QED  BY <1>7, <2>1, <2>2
<1>8. CASE Register(w)
  <2>1. Raise(w, "abandon", FALSE) => worker'[w].pc = "abandon"
    BY PlaceIs DEF Steps
  <2>2. Become(w, [worker[w] EXCEPT !.pc = "poll", !.stop = CancellationRequested])
          => worker'[w].pc = "poll"
    BY <1>1 DEF Become, WorkerStates
  <2> QED  BY <1>8, <2>1, <2>2 DEF Register
<1>9. CASE NoticeCancel(w) \/ SendCancel(w)
  <2>1. worker'[w].pc = "poll" /\ worker[w].pc = "poll"
    BY <1>1, <1>9 DEF NoticeCancel, SendCancel, At, Become, WorkerStates
  <2> QED  BY <2>1
<1>10. CASE GetReceipt(w)
  <2>1. PICK pc \in {"acknowledge", "apply"} :
          Become(w, [worker[w] EXCEPT !.outcome = aiRun[Run(w)], !.pc = pc])
    BY <1>10 DEF GetReceipt
  <2>2. worker'[w].pc = pc /\ worker[w].pc = "poll"
    BY <1>1, <1>10, <2>1 DEF GetReceipt, At, Become, WorkerStates
  <2> QED  BY <2>2
<1>11. CASE Acknowledge(w) \/ Abandon(w) \/ AbandonFault(w)
  <2>1. worker'[w].pc = "raised" \/ (worker'[w].pc = "apply" /\ worker[w].pc = "acknowledge")
    BY <1>11, PlaceIs DEF Acknowledge, Abandon, AbandonFault, Steps, At
  <2> QED  BY <2>1
<1> QED  BY <1>2, <1>3, <1>4, <1>5, <1>6, <1>7, <1>8, <1>9, <1>10, <1>11 DEF Work, Operation, Client

\* An operation that begins holds the reservation, or the task is charged already.
LEMMA BeginStarts ==
  ASSUME CallersInv, LedgerFollowsRuns, NEW w \in Workers, metered, StartRun(w, "first"),
         IF MarksStage THEN BeginProcessing(Token(w)) ELSE Claimed(Token(w)) /\ UNCHANGED taskVars
  PROVE  Starts(w)'
<1>1. worker[w] \in WorkerStates /\ worker \in [Workers -> WorkerStates]
  BY DEF CallersInv, PipelineTypeOK
<1>2. Token(w)' = Token(w)
  BY <1>1 DEF StartRun, Become, WorkerStates, Token
<1>3. worker'[w].watching = (activeRun \in {NoRun, "first"} \/ "first" = "second")
  BY <1>1 DEF StartRun, Become, WorkerStates
<1>4. /\ Claimed(Token(w)) /\ ledger' = ledger /\ metered' = metered /\ kind' = kind
      /\ UNCHANGED <<status, claimToken, lease>>
      /\ kind = "draft" => stage' = "draft_processing"
  BY DEF MarksStage, BeginProcessing, taskVars, claimVars, ledgerVars, jobVars
<1>5. ledger \in {"reserved", "consumed"} /\ (ledger = "reserved" => activeRun = NoRun)
  BY <1>4 DEF LedgerFollowsRuns, Claimed, Terminal, TerminalStatuses, CallersInv, PipelineTypeOK, TypeOK
<1> QED  BY <1>2, <1>3, <1>4, <1>5 DEF Starts, HoldsReservation, Claimed

\* A registration charges the task, or finds it charged.
LEMMA RegisterCharges ==
  ASSUME CallersInv, LedgerFollowsRuns, NEW w \in Workers, Starts(w), Register(w)
  PROVE  ledger' = "consumed"
<1>1. CASE RegisterRun(Token(w), Run(w))
  BY <1>1 DEF RegisterRun, Bind, ledgerVars
<1>2. CASE UNCHANGED taskVars /\ activeRun # NoRun
  BY <1>2 DEF LedgerFollowsRuns, taskVars
<1>3. CASE UNCHANGED taskVars /\ ~Claimed(Token(w)) /\ ~(CancellationRequested /\ claimToken = Token(w))
  BY <1>3 DEF Starts, HoldsReservation, Claimed, CancellationRequested, taskVars
<1>4. Run(w) # NoRun
  BY RowTyped DEF CallersInv, PipelineTypeOK, Run, Runs, NoRun
<1> QED  BY <1>1, <1>2, <1>3, <1>4 DEF Register

\* ChargeInv is inductive as long as there is no fault of its kinds.
LEMMA ChargeStep ==
  ASSUME CallersInv, CallersInv', LedgerFollowsRuns, ResultIffSucceeded, AnalysisHeld, TaskIsHeld, ChargeInv,
         NoFault, NoFault', [PipelineNext]_pipelineVars
  PROVE  ChargeInv'
<1>1. metered' = metered /\ (ledger = "consumed" => ledger' = "consumed")
  BY StepUses, TaskStepGrows, ConsumedStays DEF TaskGrows
<1>2. \A w \in Workers : ~Crash(w) /\ ~PostFault(w) /\ ~PollFault(w)
  <2>1. budget \in [Faults -> Nat] /\ "aiFaults" \in Faults
    BY DEF CallersInv, Faults
  <2>2. \A w \in Workers : ~Crash(w)
    BY NoTime DEF NoFault
  <2>3. budget.aiFaults = 0 /\ budget'.aiFaults = 0
    BY DEF NoFault
  <2>4. ~Spend("aiFaults", MaxAiFaults)
    BY <2>1, <2>3 DEF Spend
  <2> QED  BY <2>2, <2>4 DEF PostFault, PollFault
<1>3. ASSUME NEW w \in Workers, worker'[w] = worker[w] \/ Work(w) \/ AbandonFault(w),
             worker'[w].pc \in {"post", "register"}
      PROVE  Starts(w)'
  <2>1. ASSUME worker[w].pc \in {"post", "register"}, worker'[w] = worker[w] \/ Post(w),
               worker'[w].watching = worker[w].watching
        PROVE  Starts(w)'
    BY <1>1, <2>1, ReservationKept DEF ChargeInv, Starts
  <2>2. CASE worker'[w] = worker[w]
    BY <1>3, <2>1, <2>2
  <2>3. CASE worker'[w].pc = "register" /\ (Work(w) \/ AbandonFault(w))
    <3>1. Post(w) /\ worker[w].watching /\ worker'[w].watching
      BY <2>3, StartPlaces
    <3>2. worker'[w].watching = worker[w].watching
      BY <3>1, RowTyped DEF CallersInv, PipelineTypeOK
    <3> QED  BY <2>1, <3>1, <3>2 DEF Post, At
  <2>4. CASE worker'[w].pc = "post" /\ (Work(w) \/ AbandonFault(w))
    <3>1. CASE Apply(w) /\ metered /\ ledger' = "consumed"
      BY <1>1, <3>1 DEF Starts
    <3> QED  BY <2>4, <3>1, StartPlaces, BeginStarts
  <2> QED  BY <1>3, <2>2, <2>3, <2>4
<1>4. ASSUME NEW w \in Workers, worker'[w] = worker[w] \/ Work(w) \/ AbandonFault(w),
             worker'[w].pc \in {"poll", "acknowledge", "apply", "abandon"}
      PROVE  ledger' = "consumed"
  <2>1. CASE worker[w].pc \in {"poll", "acknowledge", "apply", "abandon"}
    BY <1>1, <2>1 DEF ChargeInv
  <2>2. CASE Register(w)
    BY <2>2, RegisterCharges DEF Register, At, ChargeInv
  <2>3. CASE Post(w) /\ ~worker[w].watching
    BY <1>1, <2>3 DEF Post, At, ChargeInv, Starts
  <2> QED  BY <1>4, <2>1, <2>2, <2>3, StartPlaces
<1>5. \A w \in Workers : worker'[w] = worker[w] \/ Work(w) \/ AbandonFault(w)
  BY <1>2, OneWorker
<1>6. ASSUME NEW run \in Runs, aiRun'[run] # "absent", ledger' # "consumed"
      PROVE  \E w \in Workers : worker'[w].pc = "register" /\ worker'[w].run = run
  <2>1. CASE aiRun[run] = "absent"
    <3>1. aiRun'[run] = "running" /\ aiRun[run] # "running"
      BY <1>6, <2>1, StepAi DEF AiMoves
    <3>2. PICK w \in Workers : Run(w) = run /\ Post(w)
      BY <1>2, <3>1, AiChanges
    <3>3. worker[w].watching
      BY <1>1, <1>6, <3>2 DEF Post, At, ChargeInv, Starts
    <3>4. GoTo(w, "register")
      BY <3>2, <3>3 DEF Post
    <3> QED  BY <3>2, <3>4, RunIs DEF Steps, KeepsRun, Run
  <2>2. CASE aiRun[run] # "absent"
    <3>1. PICK w \in Workers : worker[w].pc = "register" /\ worker[w].run = run
      BY <1>1, <1>6, <2>2 DEF ChargeInv
    <3>2. CASE worker'[w] = worker[w]
      BY <3>1, <3>2
    <3>3. ASSUME Work(w) \/ AbandonFault(w) PROVE FALSE
      <4>1. ~Executor(w) /\ ~Operation(w) /\ ~Deliver(w)
        BY <3>1 DEF Executor, Claim, ClaimRefused, Return, Complete, Except, Reconcile, Finalize, Release,
           Mark, Handle, Fail, Operation, Begin, FileOperation, Rules, Apply, Deliver, At
      <4>2. ~Post(w) /\ ~NoticeCancel(w) /\ ~SendCancel(w) /\ ~GetReceipt(w) /\ ~Acknowledge(w) /\ ~Abandon(w)
              /\ ~AbandonFault(w)
        BY <3>1 DEF Post, NoticeCancel, SendCancel, GetReceipt, Acknowledge, Abandon, AbandonFault, At
      <4>3. Register(w)
        BY <3>3, <4>1, <4>2 DEF Work, Client
      <4> QED  BY <1>6, <3>1, <4>3, RegisterCharges DEF ChargeInv
    <3> QED  BY <1>5, <3>2, <3>3
  <2> QED  BY <2>1, <2>2
<1> QED  BY <1>3, <1>4, <1>5, <1>6 DEF ChargeInv

LEMMA StillNoFault ==
  ASSUME CallersInv, [PipelineNext]_pipelineVars, NoFault'
  PROVE  NoFault
<1>1. budget \in [Faults -> Nat] /\ budget' \in [Faults -> Nat] /\ "aiFaults" \in Faults
  <2>1. budget' = budget \/ \E what \in Faults : Spend(what, Limit[what])
    BY WorkChanges, OthersChange DEF PipelineNext, pipelineVars
  <2> QED  BY <2>1 DEF CallersInv, Faults, Spend
<1>2. budget.aiFaults = 0
  <2>1. budget' = budget \/ \E what \in Faults : Spend(what, Limit[what])
    BY WorkChanges, OthersChange DEF PipelineNext, pipelineVars
  <2> QED  BY <1>1, <2>1 DEF Spend, NoFault
<1>3. outbox.state # "exhausted"
  <2>1. CASE outbox' = outbox
    BY <2>1 DEF NoFault
  <2>2. CASE Dispatcher
    BY <2>2 DEF Dispatcher, DispatchNext, Publish, PublishRaises, PublishFault, DispatcherCrashes, NoFault
  <2>3. CASE (\E run \in Runs : EndRun(run)) \/ Time \/ Owner
    BY <2>3 DEF EndRun, Time, Owner, dispatchVars, NoFault
  <2> QED  BY <2>1, <2>2, <2>3, WorkChanges DEF PipelineNext, pipelineVars, dispatchVars
<1> QED  BY <1>2, <1>3, StillNoStop DEF NoFault

\* A reservation that was given back paid for nothing: the service never accepted a run of the
\* task, unless a call of the service failed, a worker stopped or was overtaken, or the broker
\* took messages that it refused.
THEOREM UnusedUnlessFaultCorrect == PipelineSpec => []UnusedUnlessFault
<1>1. PipelineInit => ChargeInv
  BY DEF PipelineInit, Idle, Ai!AiInit, ChargeInv
<1>2. /\ CallersInv /\ CallersInv' /\ LedgerFollowsRuns /\ ResultIffSucceeded /\ AnalysisHeld
      /\ (NoStop => WorkedInv) /\ (NoFault => ChargeInv) /\ [PipelineNext]_pipelineVars
      => (NoFault => ChargeInv)'
  <2> SUFFICES ASSUME CallersInv, CallersInv', LedgerFollowsRuns, ResultIffSucceeded, AnalysisHeld,
                      NoStop => WorkedInv, NoFault => ChargeInv, [PipelineNext]_pipelineVars, NoFault'
               PROVE  ChargeInv'
    OBVIOUS
  <2>1. NoFault /\ TaskIsHeld
    BY StillNoFault DEF NoFault, WorkedInv
  <2> QED  BY <2>1, ChargeStep
<1>3. CallersInv /\ (NoFault => ChargeInv) => UnusedUnlessFault
  <2> SUFFICES ASSUME CallersInv, NoFault => ChargeInv,
                      budget.aiFaults + budget.crashes + budget.pauses = 0, outbox.state # "exhausted",
                      ledger = "released"
               PROVE  \A run \in Runs : aiRun[run] = "absent"
    BY DEF UnusedUnlessFault, GivenBackMeansUnused
  <2>1. budget \in [Faults -> Nat] /\ {"aiFaults", "crashes", "pauses"} \subseteq Faults
    BY DEF CallersInv, Faults
  <2>2. budget.aiFaults \in Nat /\ budget.crashes \in Nat /\ budget.pauses \in Nat
    BY <2>1
  <2>3. NoFault
    BY <2>2 DEF NoFault, NoStop
  <2> QED  BY <2>3 DEF ChargeInv, Starts, HoldsReservation
<1> QED  BY <1>1, <1>2, <1>3, CallersCorrect, RowsCorrect, WorkedCorrect, AnalysisHeldCorrect, PTL
         DEF PipelineSpec

-------------------------------------------------------------------------------
(* The parts put together *)

\* The closed system keeps the contract of a task: what is published was charged, what is
\* given back was not, and each is decided once.
THEOREM PipelineKeepsContract == PipelineSpec => KeepsContract
BY UsesTaskServiceCorrect, ImplementsContract, PTL DEF UsesTaskService

\* The clients use the service as AiService describes it, which is what the store of the runs
\* implements (ServesClientCorrect): a run is accepted once, cancelled or not, and ends once.
THEOREM UsesAiServiceCorrect == PipelineSpec => Ai!AiSpec
<1>1. PipelineInit => Ai!AiInit
  BY DEF PipelineInit
<1>2. CallersInv /\ [PipelineNext]_pipelineVars => [Ai!AiNext]_<<aiRun, aiCancel>>
  <2> SUFFICES ASSUME CallersInv, [PipelineNext]_pipelineVars
               PROVE  Ai!AiNext \/ UNCHANGED aiVars
    BY DEF aiVars
  <2>1. CASE UNCHANGED pipelineVars
    BY <2>1 DEF pipelineVars, aiVars
  <2> QED  BY <2>1, WorkChanges, OthersChange DEF PipelineNext, Ai!AiNext
<1> QED  BY <1>1, <1>2, CallersCorrect, PTL DEF PipelineSpec, Ai!AiSpec, Ai!aiVars

===============================================================================
