----------------------------- MODULE TaskService ------------------------------
(***************************************************************************)
(* TaskService as an open system: the rows of ONE task (task, reservation, *)
(* outbox payload, event log, the business row it works for) and every     *)
(* transaction that writes them, called in any order, with any claim       *)
(* token that was ever issued.  Each action is one database transaction,   *)
(* which holds the lock of the task row, so transactions of one task are   *)
(* serialized and no transaction but admission reads another task.         *)
(* A call that raises or returns early rolls back: it is no step.          *)
(*                                                                         *)
(* kind     what the task does; the four AI kinds have a business row      *)
(* metered  usage_type = "ai_task": the task holds an AI reservation and   *)
(*          runs a model; otherwise the kind runs on deterministic rules   *)
(***************************************************************************)
EXTENDS Naturals, Sequences, FiniteSets, TaskStates

CONSTANTS
  Kinds,        \* the kinds of task considered, a subset of AllKinds
  MaxAttempts,  \* Task.max_attempts
  MaxClaims     \* bound on the number of claim tokens issued

AllKinds == {"draft", "parse", "analysis", "match", "file"}

ASSUME KindsAssumption    == Kinds \subseteq AllKinds
ASSUME AttemptsAssumption == MaxAttempts \in Nat \ {0}
ASSUME ClaimsAssumption   == MaxClaims \in Nat

VARIABLES
  kind, metered,
  status, stage,     \* Task.status, Task.stage
  attempts,          \* Task.attempts
  claims,            \* how many claim tokens were issued; the last is number claims
  claimToken,        \* Task.claim_token
  lease,             \* Task.claim_lease_expires_at against the clock
  activeRun,         \* Task.active_ai_run_id
  acked,             \* Task.ai_cancel_acknowledged_at is set
  ledger, billedRun, \* UsageLedger.state and UsageLedger.ai_run_id
  audited,           \* the runs whose receipt is stored as an AiRun row
  resource,          \* the business row, as far as this task is concerned
  snapshot,          \* the outbox payload still holds the input snapshot
  events             \* the stages of TaskEvent, in the order of seq

jobVars    == <<kind, metered>>
claimVars  == <<claimToken, lease>>
ledgerVars == <<ledger, billedRun>>
taskVars   == <<kind, metered, status, stage, attempts, claims, claimToken, lease,
                activeRun, acked, ledger, billedRun, audited, resource, snapshot, events>>

-------------------------------------------------------------------------------
(* Values *)

NoClaim == 0
NoRun   == "no run"

\* A run id is a hash of task, workflow stage and input, so one task has one id
\* per workflow: a match runs two workflows, the other kinds one.
Runs == {"first", "second"}
RunsOf(k) == IF k = "match" THEN Runs ELSE {"first"}

ReceiptStatuses == {"succeeded", "failed", "cancelled"}
PendingStages   == {"pending_retryable", "pending_permanent"}
WorkStages      == {"running", "draft_processing", "parse_processing", "match"}
Stages          == {"queued"} \union WorkStages \union PendingStages \union TerminalStatuses
EventStages     == {"queued", "running", "match"} \union TerminalStatuses

\* busy: held by this task; open: free to be worked on again; done: carries the
\* result of this task; superseded: handed to a newer task; none: not modelled.
ResourceStates == {"busy", "open", "done", "superseded", "none"}

Terminal == status \in TerminalStatuses

\* cancellation_requested is set only by the transaction that cancels the task.
CancellationRequested == status = "cancelled"

\* _claimed_task: running under this very token with a lease still in the future.
Claimed(tok) == status = "running" /\ claimToken = tok /\ lease = "live"

\* The business row still names this task (the graph checks of the operations).
Linked == resource # "superseded"

\* Fault: a draft counts as unstarted until its run is registered.
UnstartedUntilRegistered == kind = "draft" /\ activeRun = NoRun

\* _is_unstarted_intake_draft
UnstartedDraft ==
  /\ kind = "draft"
  /\ activeRun = NoRun
  /\ \/ status = "queued" /\ claimToken = NoClaim
     \/ status = "running" /\ stage = "running"

\* Fault: the state of the reservation is not compared.
ReleaseAnyState(run) == IF metered /\ run = NoRun THEN "released" ELSE ledger

\* _release_unused_ai_reservation_in_session, given the active run it reads.
ReleaseUnused(run) ==
  IF metered /\ run = NoRun /\ ledger = "reserved" THEN "released" ELSE ledger

\* _restore_cancelled_intake_draft, then _restore_cancelled_job_parse.
RestoredDraft == IF kind = "draft" /\ resource = "busy" THEN "open" ELSE resource
\* Fault of the latter: the job is left to the worker.
UnrestoredParse(r) == r
RestoredParse(r) == IF kind = "parse" /\ r = "busy" THEN "open" ELSE r

\* settle_ai_run_in_session, as the receipt transactions meet it: a cancelled
\* task keeps its run, so that the receipt of that run is still recognised.
Settled(run) == IF status = "running" /\ activeRun = run THEN NoRun ELSE activeRun

\* Fault: every task that may be tried again keeps it.
KeepsSnapshotUnlessDone(st) == st # "succeeded"

\* Which terminal statuses leave the input snapshot in the outbox payload.
KeepsSnapshot(st) ==
  CASE kind \in {"draft", "parse"} -> st = "cancelled" /\ stage = "draft_processing"
    [] kind = "analysis"           -> st # "succeeded"
    [] OTHER                       -> FALSE

\* _finish: the terminal write, with its event and the scrubbing of the payload.
FinishWith(st, dropClaim) ==
  /\ CanTransition(status, st)
  /\ status' = st
  /\ stage' = st
  /\ IF dropClaim THEN claimToken' = NoClaim /\ lease' = "none" ELSE UNCHANGED claimVars
  /\ snapshot' = (snapshot /\ KeepsSnapshot(st))
  /\ events' = Append(events, st)

\* Fault: the claim is left to its lease.
FinishUnderClaim(st) == FinishWith(st, FALSE)

\* A cancelled AI task keeps its claim, for the worker that has to settle its run.
Finish(st) == FinishWith(st, st # "cancelled" \/ ~metered)

-------------------------------------------------------------------------------
(* Creation: create_task_in_session and the request that called it *)

TaskInit ==
  /\ kind \in Kinds
  /\ metered \in BOOLEAN
  /\ kind = "analysis" => metered
  /\ kind = "file" => ~metered
  /\ status = "queued"
  /\ stage = "queued"
  /\ attempts = 0
  /\ claims = 0
  /\ claimToken = NoClaim
  /\ lease = "none"
  /\ activeRun = NoRun
  /\ acked = FALSE
  /\ ledger = IF metered THEN "reserved" ELSE "none"
  /\ billedRun = NoRun
  /\ audited = {}
  /\ resource = IF kind = "file" THEN "none" ELSE "busy"
  /\ snapshot = (kind \in {"draft", "parse", "analysis"})
  /\ events = <<"queued">>

-------------------------------------------------------------------------------
(* Claiming *)

\* Fault: only the lease is looked at.
Unleased == lease # "live"

Claimable == status = "queued" \/ (status = "running" /\ lease # "live")

AttemptsLeft == attempts < MaxAttempts

\* A claim under a new token.
NewClaim ==
  /\ claims < MaxClaims
  /\ claims' = claims + 1
  /\ claimToken' = claims + 1
  /\ lease' = "live"

\* claim_task, no attempt left: the claim itself fails the task.
ClaimExhausted ==
  /\ Claimable
  /\ stage \notin PendingStages
  /\ ~AttemptsLeft
  /\ Finish("failed")
  /\ UNCHANGED <<jobVars, attempts, claims, activeRun, acked, ledgerVars, audited, resource>>

\* claim_task, a new attempt under a new token.
ClaimFresh ==
  /\ Claimable
  /\ stage \notin PendingStages
  /\ AttemptsLeft
  /\ NewClaim
  /\ status' = "running"
  /\ stage' = "running"
  /\ attempts' = attempts + 1
  /\ events' = Append(events, "running")
  /\ UNCHANGED <<jobVars, activeRun, acked, ledgerVars, audited, resource, snapshot>>

\* Fault: the pending failure is logged as another attempt.
ClaimPendingLogged ==
  /\ Claimable
  /\ stage \in PendingStages
  /\ NewClaim
  /\ events' = Append(events, "running")
  /\ UNCHANGED <<jobVars, status, stage, attempts, activeRun, acked, ledgerVars, audited,
                 resource, snapshot>>

\* claim_task, a failure is pending: a new token to finish it, but no new attempt.
ClaimPending ==
  /\ Claimable
  /\ stage \in PendingStages
  /\ NewClaim
  /\ UNCHANGED <<jobVars, status, stage, attempts, activeRun, acked, ledgerVars, audited,
                 resource, snapshot, events>>

\* The clock passes claim_lease_expires_at of a running task.
LeaseExpires ==
  /\ status = "running"
  /\ lease = "live"
  /\ lease' = "expired"
  /\ UNCHANGED <<jobVars, status, stage, attempts, claims, claimToken, activeRun, acked,
                 ledgerVars, audited, resource, snapshot, events>>

\* release_claim_for_retry: the lease ends now, the token stays.
ReleaseClaim(tok) ==
  /\ Claimed(tok)
  /\ lease' = "expired"
  /\ UNCHANGED <<jobVars, status, stage, attempts, claims, claimToken, activeRun, acked,
                 ledgerVars, audited, resource, snapshot, events>>

-------------------------------------------------------------------------------
(* Cancellation by the owner *)

\* request_cancel and request_cancel_idempotent on a task that is not terminal.
RequestCancel ==
  /\ ~Terminal
  /\ stage \notin PendingStages
  /\ LET fresh == status = "queued" /\ claimToken = NoClaim
         early == fresh \/ UnstartedDraft
     IN  /\ ledger' = IF early THEN ReleaseUnused(activeRun) ELSE ledger
         /\ resource' = RestoredParse(IF early THEN RestoredDraft ELSE resource)
  /\ FinishWith("cancelled", ~metered \/ UnstartedDraft)
  /\ UNCHANGED <<jobVars, attempts, claims, activeRun, acked, billedRun, audited>>

\* reconcile_cancelled_operation_error
Reconcilable(tok) == status = "cancelled" /\ claimToken = tok /\ kind \in {"draft", "parse"}

ReconcileCancelled(tok) ==
  /\ Reconcilable(tok)
  /\ ledger' = ReleaseUnused(activeRun)
  /\ resource' = RestoredParse(RestoredDraft)
  /\ snapshot' = FALSE
  /\ activeRun' = NoRun
  /\ claimToken' = NoClaim
  /\ lease' = "none"
  /\ UNCHANGED <<jobVars, status, stage, attempts, claims, acked, billedRun, audited, events>>

\* finalize_unused_ai_reservation, when there is something to release.
Finalizable(tok) ==
  /\ status \in {"cancelled", "failed"}
  /\ claimToken = tok
  /\ activeRun = NoRun
  /\ ReleaseUnused(activeRun) # ledger

FinalizeUnused(tok) ==
  /\ Finalizable(tok)
  /\ ledger' = "released"
  /\ claimToken' = NoClaim
  /\ lease' = "none"
  /\ UNCHANGED <<jobVars, status, stage, attempts, claims, activeRun, acked, billedRun,
                 audited, resource, snapshot, events>>

-------------------------------------------------------------------------------
(* Binding an AI run to the task *)

\* Fault: the reservation is checked but not written.
BindUnwritten(run) == ledger \in {"reserved", "consumed"} /\ UNCHANGED ledgerVars

\* _bind_ai_reservation_in_session: a released reservation raises.
Bind(run) ==
  \/ /\ ledger = "reserved"
     /\ ledger' = "consumed"
     /\ billedRun' = run
  \/ /\ ledger = "consumed"
     /\ UNCHANGED ledgerVars

\* _consume_ai_reservation_in_session: only the run that was billed first.
Consume(run) == Bind(run) /\ (ledger = "consumed" => billedRun = run)

\* The suggestions workflow starts after the match receipt was stored.
Started(run) == run = "second" => "first" \in audited

\* register_ai_run with no active run; it also binds a run that Pi accepted just
\* before the cancellation, which the caller then goes on to cancel.
RegisterRun(tok, run) ==
  /\ metered
  /\ run \in RunsOf(kind)
  /\ Started(run)
  /\ activeRun = NoRun
  /\ Claimed(tok) \/ (CancellationRequested /\ claimToken = tok)
  /\ activeRun' = run
  /\ acked' = (acked /\ CancellationRequested)
  /\ Bind(run)
  /\ UNCHANGED <<jobVars, status, stage, attempts, claims, claimVars, audited, resource,
                 snapshot, events>>

\* settle_ai_run, called by the client on a cancelled receipt: it names the run,
\* not the claim, and ends the claim of a cancelled task.
AcknowledgeCancel(run) ==
  /\ activeRun = run
  /\ \/ /\ status = "running"
        /\ activeRun' = NoRun
        /\ UNCHANGED <<acked, claimVars>>
     \/ /\ status = "cancelled"
        /\ acked' = TRUE
        /\ claimToken' = NoClaim
        /\ lease' = "none"
        /\ UNCHANGED activeRun
  /\ UNCHANGED <<jobVars, status, stage, attempts, claims, ledgerVars, audited, resource,
                 snapshot, events>>

-------------------------------------------------------------------------------
(* The business transactions of the operations *)

\* The first transaction of process_draft and process_parse marks the stage.
BeginProcessing(tok) ==
  /\ Claimed(tok)
  /\ Linked
  /\ \/ kind = "draft" /\ metered /\ stage' = "draft_processing"
     \/ kind = "parse" /\ stage' = "parse_processing"
  /\ UNCHANGED <<jobVars, status, attempts, claims, claimVars, activeRun, acked, ledgerVars,
                 audited, resource, snapshot, events>>

\* process_parse and process_match find their input changed before any run.
RejectInput(tok) ==
  /\ Claimed(tok)
  /\ Linked
  /\ kind \in {"parse", "match"}
  /\ activeRun' = IF kind = "parse" THEN NoRun ELSE activeRun
  /\ ledger' = ReleaseUnused(activeRun')
  /\ resource' = "open"
  /\ Finish("failed")
  /\ UNCHANGED <<jobVars, attempts, claims, acked, billedRun, audited>>

\* The rule-based result, or its rejection, of a task without a reservation.
ApplyRules(tok, valid) ==
  /\ Claimed(tok)
  /\ Linked
  /\ ~metered
  /\ kind \in {"draft", "parse", "match"}
  /\ resource' = IF valid THEN "done" ELSE "open"
  /\ Finish(IF valid THEN "succeeded" ELSE "failed")
  /\ UNCHANGED <<jobVars, attempts, claims, activeRun, acked, ledgerVars, audited>>

\* ai_receipt_task_in_session: the claim token fences a running task (its lease is
\* not looked at); a cancelled task takes only its own acknowledged cancelled run.
ReceiptAccepted(tok, run, outcome) ==
  \/ status = "running" /\ claimToken = tok
  \/ /\ outcome = "cancelled"
     /\ CancellationRequested
     /\ activeRun = run
     /\ claimToken = NoClaim
     /\ acked

\* The receipt is stored and its run settled.
StoreReceipt(tok, run, outcome) ==
  /\ metered
  /\ Linked
  /\ Started(run)
  /\ ReceiptAccepted(tok, run, outcome)
  /\ audited' = audited \union {run}
  /\ activeRun' = Settled(run)

\* The failing end of a receipt transaction: the business row is freed, and the
\* task fails unless it is cancelled already.
FailResource ==
  /\ resource' = "open"
  /\ IF status = "cancelled"
     THEN /\ snapshot' = (snapshot /\ kind # "draft")
          /\ UNCHANGED <<status, stage, claimVars, events>>
     ELSE Finish("failed")

\* Fault: the content is looked at, the status of the receipt is not.
UsableContent(outcome, valid) == valid

\* A result that is published: its run succeeded and its content passes the checks.
Usable(outcome, valid) == outcome = "succeeded" /\ valid

PublishResource ==
  /\ resource' = "done"
  /\ Finish("succeeded")

\* The second transaction of process_draft, process_parse, process_answer_analysis.
\* A draft re-reads its snapshot; an analysis result that is no analysis raises.
ApplyReceipt(tok, outcome, valid) ==
  /\ kind \in {"draft", "parse", "analysis"}
  /\ kind = "draft" => snapshot
  /\ kind = "analysis" => valid
  /\ StoreReceipt(tok, "first", outcome)
  /\ Consume("first")
  /\ IF Usable(outcome, valid) THEN PublishResource ELSE FailResource
  /\ UNCHANGED <<jobVars, attempts, claims, acked>>

\* process_match stores the match receipt and goes on, with a renewed lease.  It is
\* called once under a claim, before anything else was reported under that claim.
ApplyMatchReceipt(tok, outcome, valid) ==
  /\ kind = "match"
  /\ stage \in {"running", "cancelled"}
  /\ StoreReceipt(tok, "first", outcome)
  /\ Consume("first")
  /\ IF Usable(outcome, valid)
     THEN /\ stage' = "match"
          /\ lease' = "live"
          /\ events' = Append(events, "match")
          /\ UNCHANGED <<status, claimToken, resource, snapshot>>
     ELSE FailResource
  /\ UNCHANGED <<jobVars, attempts, claims, acked>>

\* process_match stores the suggestions receipt and publishes both results.
ApplySuggestionReceipt(tok, outcome, valid) ==
  /\ kind = "match"
  /\ StoreReceipt(tok, "second", outcome)
  /\ IF Usable(outcome, valid) THEN PublishResource ELSE FailResource
  /\ UNCHANGED <<jobVars, attempts, claims, acked, ledgerVars>>

-------------------------------------------------------------------------------
(* How the executor ends an attempt *)

\* complete_task and fail_task: operations that do not finish the task themselves.
CompleteTask(tok) ==
  /\ kind = "file"
  /\ Claimed(tok)
  /\ ledger' = ReleaseUnused(activeRun)
  /\ Finish("succeeded")
  /\ UNCHANGED <<jobVars, attempts, claims, activeRun, acked, billedRun, audited, resource>>

FailTask(tok, retryable) ==
  /\ kind = "file"
  /\ Claimed(tok)
  /\ ledger' = IF retryable THEN ledger ELSE ReleaseUnused(activeRun)
  /\ Finish("failed")
  /\ UNCHANGED <<jobVars, attempts, claims, activeRun, acked, billedRun, audited, resource>>

\* mark_terminal_failure_pending: from here on the task can only fail.
MarkFailurePending(tok, retryable) ==
  /\ kind # "file"
  /\ Claimed(tok)
  /\ stage \notin PendingStages
  /\ stage' = IF retryable THEN "pending_retryable" ELSE "pending_permanent"
  /\ UNCHANGED <<jobVars, status, attempts, claims, claimVars, activeRun, acked, ledgerVars,
                 audited, resource, snapshot, events>>

\* fail_draft, fail_parse, fail_match, fail_answer_analysis: only the analysis keeps
\* the reservation after a retryable failure; parse and match settle the active run.
HandleTerminalFailure(tok) ==
  /\ kind # "file"
  /\ Claimed(tok)
  /\ Linked
  /\ stage \in PendingStages
  /\ activeRun' = IF kind \in {"parse", "match"} THEN NoRun ELSE activeRun
  /\ ledger' = IF kind = "analysis" /\ stage = "pending_retryable"
               THEN ledger ELSE ReleaseUnused(activeRun')
  /\ resource' = "open"
  /\ Finish("failed")
  /\ UNCHANGED <<jobVars, attempts, claims, acked, billedRun, audited>>

-------------------------------------------------------------------------------
(* Writers of the task row outside the worker *)

\* OutboxDispatcher._fail_exhausted_task; a match analysis is not touched.
FailExhausted ==
  /\ ~Terminal
  /\ status' = "failed"
  /\ stage' = "failed"
  /\ claimToken' = NoClaim
  /\ lease' = "none"
  /\ ledger' = ReleaseUnused(activeRun)
  /\ resource' = IF kind # "match" /\ resource = "busy" THEN "open" ELSE resource
  /\ snapshot' = (snapshot /\ kind \notin {"draft", "parse"})
  /\ events' = Append(events, "failed")
  /\ UNCHANGED <<jobVars, attempts, claims, activeRun, acked, billedRun, audited>>

Restartable ==
  \/ kind = "draft" /\ resource = "open"
  \/ kind = "parse" /\ (resource = "open" \/ (resource = "busy" /\ Terminal))

\* queue_draft on an active session, parse on a job whose task is not live: the
\* business row is handed to a new task.
StartAgain ==
  /\ Restartable
  /\ resource' = "superseded"
  /\ UNCHANGED <<jobVars, status, stage, attempts, claims, claimVars, activeRun, acked,
                 ledgerVars, audited, snapshot, events>>

\* retry_analysis and continue_analysis: the failed answer moves on, the old
\* reservation is given back and the old snapshot dropped.
LeaveFailedAnalysis ==
  /\ kind = "analysis"
  /\ resource = "open"
  /\ status \in {"failed", "cancelled"}
  /\ ledger' = IF ledger = "reserved" THEN "released" ELSE ledger
  /\ snapshot' = FALSE
  /\ resource' = "superseded"
  /\ UNCHANGED <<jobVars, status, stage, attempts, claims, claimVars, activeRun, acked,
                 billedRun, audited, events>>

-------------------------------------------------------------------------------
(* The open system: any caller, any token ever issued, any outcome *)

Tokens == 1..claims

ClaimTask == ClaimExhausted \/ ClaimFresh \/ ClaimPending

WorkerCall(tok) ==
  \/ ReleaseClaim(tok)
  \/ ReconcileCancelled(tok)
  \/ FinalizeUnused(tok)
  \/ BeginProcessing(tok)
  \/ RejectInput(tok)
  \/ CompleteTask(tok)
  \/ HandleTerminalFailure(tok)
  \/ \E run \in Runs : RegisterRun(tok, run)
  \/ \E flag \in BOOLEAN :
       \/ ApplyRules(tok, flag)
       \/ FailTask(tok, flag)
       \/ MarkFailurePending(tok, flag)
       \/ \E outcome \in ReceiptStatuses :
            \/ ApplyReceipt(tok, outcome, flag)
            \/ ApplyMatchReceipt(tok, outcome, flag)
            \/ ApplySuggestionReceipt(tok, outcome, flag)

OwnerCall == RequestCancel \/ StartAgain \/ LeaveFailedAnalysis

TaskNext ==
  \/ ClaimTask
  \/ LeaseExpires
  \/ OwnerCall
  \/ FailExhausted
  \/ \E tok \in Tokens : WorkerCall(tok)
  \/ \E run \in Runs : AcknowledgeCancel(run)

TaskSpec == TaskInit /\ [][TaskNext]_taskVars

-------------------------------------------------------------------------------
(* Correctness *)

TypeOK ==
  /\ kind \in AllKinds
  /\ metered \in BOOLEAN
  /\ status \in {"queued", "running"} \union TerminalStatuses
  /\ stage \in Stages
  /\ attempts \in 0..MaxAttempts
  /\ claims \in 0..MaxClaims
  /\ claimToken \in 0..claims
  /\ lease \in {"none", "live", "expired"}
  /\ activeRun \in Runs \union {NoRun}
  /\ acked \in BOOLEAN
  /\ ledger \in {"none", "reserved", "consumed", "released"}
  /\ billedRun \in Runs \union {NoRun}
  /\ audited \subseteq Runs
  /\ resource \in ResourceStates
  /\ snapshot \in BOOLEAN
  /\ events \in Seq(EventStages)

\* A task that may still run holds a reservation that is not given back, and a
\* reservation is consumed exactly when a run is billed to it: neither an active
\* run nor a stored receipt is ever without its charge (usage ledger, Task row and
\* AiRun rows agree).
LedgerFollowsRuns ==
  /\ ledger = "none" <=> ~metered
  /\ ledger = "consumed" <=> billedRun # NoRun
  /\ activeRun # NoRun \/ audited # {} => ledger = "consumed"
  /\ ledger = "released" => Terminal

\* Only the newest claim is ever accepted: the token in the row is that of the
\* last claim or none, none before the first claim, and there is one whenever
\* the task is running, which it is as long as a failure is pending.
NewestClaimOnly ==
  /\ claimToken \in {NoClaim, claims}
  /\ status = "queued" => claims = 0
  /\ status = "running" => claimToken # NoClaim
  /\ stage \in PendingStages => status = "running"
  /\ claimToken = NoClaim <=> lease = "none"
  /\ claimToken # NoClaim /\ Terminal => metered /\ status = "cancelled"

\* The row a task works on stays in its hands as long as the task may still write
\* it, and carries its result exactly when the task succeeded: a cancellation that
\* committed first leaves nothing behind.
ResultIffSucceeded ==
  kind # "file" =>
    /\ ~Terminal => resource = "busy"
    /\ status = "succeeded" <=> resource = "done"

\* The event log a client replays tells the story of the row: it starts with
\* queued, has one running event for each attempt, and ends with the terminal
\* status, which occurs nowhere before.
EventLogTellsTheRow ==
  /\ events # <<>> /\ events[1] = "queued"
  /\ Cardinality({i \in DOMAIN events : events[i] = "running"}) = attempts
  /\ \A i \in DOMAIN events : events[i] \in TerminalStatuses => i = Len(events)
  /\ Terminal => events[Len(events)] = status

\* The resume or job text copied into the outbox payload does not outlive the task,
\* except for a draft cancelled in the middle of its work, whose receipt still needs
\* it, and for an answer analysis that did not succeed, until the answer moves on.
SnapshotScrubbed ==
  Terminal /\ snapshot =>
    \/ kind = "draft" /\ status = "cancelled"
    \/ kind = "analysis" /\ status # "succeeded" /\ resource # "superseded"

\* What the rows of an ended task hold is told by how it ended: its result, and nothing
\* of the text that was copied for it.
RowTellsOutcome == TypeOK /\ ResultIffSucceeded /\ SnapshotScrubbed

\* No step leaves a terminal status, adds to the log of an ended task or takes
\* back what was logged.
EndsOnce ==
  [][/\ Terminal => status' = status /\ events' = events
     /\ Len(events) <= Len(events') /\ SubSeq(events', 1, Len(events)) = events]_taskVars

\* A business row that was handed to a newer task is not written by this one, and
\* a finished result is not taken away by a late receipt, failure or cancellation.
ResultIsFinal ==
  [][(resource \in {"done", "superseded"}) => (resource' = resource)]_taskVars

\* An end is an end, of the task and of the row it worked on, whatever receipts,
\* failures, cancellations and deliveries are still on their way.
EndsForGood == EndsOnce /\ ResultIsFinal

\* TaskService implements the contract.
Contract == INSTANCE TaskContract WITH
  phase     <- status,
  charge    <- ledger,
  published <- IF kind = "file" THEN status = "succeeded" ELSE resource = "done"

KeepsContract == Contract!ContractSpec

===============================================================================
