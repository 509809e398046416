--------------------------- MODULE TaskServiceProofs --------------------------
(***************************************************************************)
(* What holds of TaskService for every set of kinds, every number of       *)
(* attempts and of claims, and every order of calls.                       *)
(***************************************************************************)
EXTENDS TaskService, FiniteSetTheorems, TLAPS

-------------------------------------------------------------------------------
(* The terminal write *)

\* Every action that ends the task does it in a task that has not ended, and what it
\* leaves in the row follows from the status it writes.
LEMMA FinishEffect ==
  ASSUME TypeOK,
         NEW st \in TerminalStatuses, NEW dropClaim \in BOOLEAN,
         FinishWith(st, dropClaim)
  PROVE  /\ ~Terminal
         /\ status' = st
         /\ stage' = st
         /\ (claimToken' = NoClaim /\ lease' = "none") \/ UNCHANGED claimVars
         /\ dropClaim => claimToken' = NoClaim /\ lease' = "none"
         /\ snapshot' \in BOOLEAN
         /\ snapshot' => snapshot /\ KeepsSnapshot(st)
         /\ events' = Append(events, st)
         /\ events' \in Seq(EventStages)
<1>1. ~Terminal
  BY DEF FinishWith, CanTransition, Terminal
<1>2. status' = st /\ stage' = st
  BY DEF FinishWith
<1>3. /\ (claimToken' = NoClaim /\ lease' = "none") \/ UNCHANGED claimVars
      /\ dropClaim => claimToken' = NoClaim /\ lease' = "none"
  BY DEF FinishWith
<1>4. snapshot' = (snapshot /\ KeepsSnapshot(st))
  BY DEF FinishWith
<1>5. snapshot' \in BOOLEAN
  BY <1>4
<1>6. snapshot' => snapshot /\ KeepsSnapshot(st)
  BY <1>4
<1>7. events' = Append(events, st) /\ st \in EventStages /\ events \in Seq(EventStages)
  BY DEF FinishWith, TypeOK, EventStages
<1>8. events' \in Seq(EventStages)
  BY <1>7
<1> QED  BY <1>1, <1>2, <1>3, <1>5, <1>6, <1>7, <1>8

-------------------------------------------------------------------------------
(* Typing *)

LEMMA FinishType ==
  ASSUME TypeOK,
         NEW st \in TerminalStatuses, NEW dropClaim \in BOOLEAN,
         FinishWith(st, dropClaim)
  PROVE  /\ status' \in {"queued", "running"} \union TerminalStatuses
         /\ stage' \in Stages
         /\ claimToken' \in 0..claims
         /\ lease' \in {"none", "live", "expired"}
         /\ snapshot' \in BOOLEAN
         /\ events' \in Seq(EventStages)
<1>1. status' = st /\ stage' = st
  BY FinishEffect
<1>2. (claimToken' = 0 /\ lease' = "none") \/ UNCHANGED <<claimToken, lease>>
  BY FinishEffect DEF claimVars, NoClaim
<1>3. claimToken' \in 0..claims /\ lease' \in {"none", "live", "expired"}
  BY <1>2 DEF TypeOK
<1>4. snapshot' \in BOOLEAN /\ events' \in Seq(EventStages)
  BY FinishEffect
<1> QED  BY <1>1, <1>3, <1>4 DEF Stages

LEMMA TypeInit == TaskInit => TypeOK
<1>1. TaskInit => events \in Seq(EventStages)
  BY DEF TaskInit, EventStages
<1>2. TaskInit => claimToken \in 0..claims /\ attempts \in 0..MaxAttempts /\ claims \in 0..MaxClaims
  BY AttemptsAssumption, ClaimsAssumption DEF TaskInit, NoClaim
<1>3. TaskInit => kind \in AllKinds
  BY KindsAssumption DEF TaskInit
<1>4. TaskInit => snapshot \in BOOLEAN /\ metered \in BOOLEAN /\ acked \in BOOLEAN
  <2> SUFFICES ASSUME TaskInit PROVE snapshot \in BOOLEAN /\ metered \in BOOLEAN /\ acked \in BOOLEAN
    OBVIOUS
  <2>1. snapshot = (kind \in {"draft", "parse", "analysis"})
    BY DEF TaskInit
  <2>2. (kind \in {"draft", "parse", "analysis"}) \in BOOLEAN
    OBVIOUS
  <2>3. metered \in BOOLEAN /\ acked \in BOOLEAN
    BY DEF TaskInit
  <2> QED
    BY <2>1, <2>2, <2>3
<1>5. TaskInit => /\ status \in {"queued", "running"} \union TerminalStatuses
                  /\ stage \in Stages
                  /\ lease \in {"none", "live", "expired"}
                  /\ ledger \in {"none", "reserved", "consumed", "released"}
                  /\ resource \in ResourceStates
  BY DEF TaskInit, Stages, ResourceStates
<1>6. TaskInit => /\ activeRun \in Runs \union {NoRun}
                  /\ billedRun \in Runs \union {NoRun}
                  /\ audited \subseteq Runs
  BY DEF TaskInit
<1> QED
  BY <1>1, <1>2, <1>3, <1>4, <1>5, <1>6 DEF TypeOK

LEMMA ClaimType == TypeOK /\ ClaimTask => TypeOK'
<1> SUFFICES ASSUME TypeOK, ClaimTask PROVE TypeOK'
  OBVIOUS
<1> USE AttemptsAssumption, ClaimsAssumption
<1>1. CASE ClaimExhausted
  <2>1. FinishWith("failed", TRUE)
    BY <1>1 DEF ClaimExhausted, Finish
  <2> QED
    BY <1>1, <2>1, FinishType DEF ClaimExhausted, TypeOK, jobVars, ledgerVars, TerminalStatuses
<1>2. CASE ClaimFresh
  BY <1>2 DEF ClaimFresh, NewClaim, AttemptsLeft, TypeOK, jobVars, ledgerVars, Stages, WorkStages, EventStages
<1>3. CASE ClaimPending
  BY <1>3 DEF ClaimPending, NewClaim, TypeOK, jobVars, ledgerVars
<1> QED  BY <1>1, <1>2, <1>3 DEF ClaimTask

LEMMA OwnerType == TypeOK /\ (OwnerCall \/ FailExhausted \/ LeaseExpires) => TypeOK'
<1> SUFFICES ASSUME TypeOK, OwnerCall \/ FailExhausted \/ LeaseExpires PROVE TypeOK'
  OBVIOUS
<1>1. CASE RequestCancel
  <2>1. PICK dropClaim \in BOOLEAN : FinishWith("cancelled", dropClaim)
    <3>1. (~metered \/ UnstartedDraft) \in BOOLEAN
      OBVIOUS
    <3> QED  BY <1>1, <3>1 DEF RequestCancel
  <2>2. ledger' \in {"none", "reserved", "consumed", "released"}
    BY <1>1 DEF RequestCancel, ReleaseUnused, TypeOK
  <2>3. resource' \in ResourceStates
    BY <1>1 DEF RequestCancel, RestoredDraft, RestoredParse, TypeOK, ResourceStates
  <2>4. UNCHANGED <<kind, metered, attempts, claims, activeRun, acked, billedRun, audited>>
    BY <1>1 DEF RequestCancel, jobVars
  <2> QED
    BY <2>1, <2>2, <2>3, <2>4, FinishType DEF TypeOK, TerminalStatuses
<1>2. CASE StartAgain
  BY <1>2 DEF StartAgain, TypeOK, jobVars, claimVars, ledgerVars, ResourceStates
<1>3. CASE LeaveFailedAnalysis
  BY <1>3 DEF LeaveFailedAnalysis, TypeOK, jobVars, claimVars, ResourceStates
<1>4. CASE FailExhausted
  <2>1. snapshot' \in BOOLEAN
    <3>1. snapshot' = (snapshot /\ kind \notin {"draft", "parse"})
      BY <1>4 DEF FailExhausted
    <3> QED  BY <3>1
  <2>2. events' \in Seq(EventStages)
    BY <1>4 DEF FailExhausted, TypeOK, EventStages, TerminalStatuses
  <2>3. ledger' \in {"none", "reserved", "consumed", "released"}
    BY <1>4 DEF FailExhausted, ReleaseUnused, TypeOK
  <2>4. resource' \in ResourceStates
    BY <1>4 DEF FailExhausted, TypeOK, ResourceStates
  <2>5. /\ status' = "failed" /\ stage' = "failed"
        /\ claimToken' = 0 /\ lease' = "none"
        /\ UNCHANGED <<kind, metered, attempts, claims, activeRun, acked, billedRun, audited>>
    BY <1>4 DEF FailExhausted, jobVars, NoClaim
  <2> QED
    BY <2>1, <2>2, <2>3, <2>4, <2>5 DEF TypeOK, TerminalStatuses, Stages
<1>5. CASE LeaseExpires
  BY <1>5 DEF LeaseExpires, TypeOK, jobVars, ledgerVars
<1> QED  BY <1>1, <1>2, <1>3, <1>4, <1>5 DEF OwnerCall

\* The two ends of a receipt transaction.
LEMMA ResourceType ==
  ASSUME TypeOK, FailResource \/ PublishResource
  PROVE  /\ status' \in {"queued", "running"} \union TerminalStatuses
         /\ stage' \in Stages
         /\ claimToken' \in 0..claims
         /\ lease' \in {"none", "live", "expired"}
         /\ resource' \in ResourceStates
         /\ snapshot' \in BOOLEAN
         /\ events' \in Seq(EventStages)
<1>1. CASE FailResource /\ status = "cancelled"
  <2>1. snapshot' = (snapshot /\ kind # "draft")
    BY <1>1 DEF FailResource
  <2>2. snapshot' \in BOOLEAN
    BY <2>1
  <2> QED
    BY <1>1, <2>2 DEF FailResource, TypeOK, claimVars, ResourceStates
<1>2. CASE (FailResource /\ status # "cancelled") \/ PublishResource
  <2>1. PICK st \in {"failed", "succeeded"} : FinishWith(st, TRUE)
    BY <1>2 DEF FailResource, PublishResource, Finish
  <2>2. st \in TerminalStatuses
    BY DEF TerminalStatuses
  <2>3. resource' \in ResourceStates
    BY <1>2 DEF FailResource, PublishResource, ResourceStates
  <2> QED
    BY <2>1, <2>2, <2>3, FinishType
<1> QED  BY <1>1, <1>2

LEMMA ReceiptType ==
  ASSUME TypeOK, NEW tok \in Tokens, NEW outcome \in ReceiptStatuses, NEW valid \in BOOLEAN,
         \/ ApplyReceipt(tok, outcome, valid)
         \/ ApplyMatchReceipt(tok, outcome, valid)
         \/ ApplySuggestionReceipt(tok, outcome, valid)
  PROVE  TypeOK'
<1>1. CASE ApplyReceipt(tok, outcome, valid)
  <2>1. FailResource \/ PublishResource
    BY <1>1 DEF ApplyReceipt
  <2>2. /\ activeRun' \in Runs \union {NoRun}
        /\ audited' \subseteq Runs
    BY <1>1 DEF ApplyReceipt, StoreReceipt, Settled, TypeOK, Runs
  <2>3. /\ ledger' \in {"none", "reserved", "consumed", "released"}
        /\ billedRun' \in Runs \union {NoRun}
    BY <1>1 DEF ApplyReceipt, Consume, Bind, ledgerVars, TypeOK, Runs
  <2>4. UNCHANGED <<kind, metered, attempts, claims, acked>>
    BY <1>1 DEF ApplyReceipt, jobVars
  <2> QED
    BY <2>1, <2>2, <2>3, <2>4, ResourceType DEF TypeOK
<1>2. CASE ApplyMatchReceipt(tok, outcome, valid)
  <2>1. /\ activeRun' \in Runs \union {NoRun}
        /\ audited' \subseteq Runs
    BY <1>2 DEF ApplyMatchReceipt, StoreReceipt, Settled, TypeOK, Runs
  <2>2. /\ ledger' \in {"none", "reserved", "consumed", "released"}
        /\ billedRun' \in Runs \union {NoRun}
    BY <1>2 DEF ApplyMatchReceipt, Consume, Bind, ledgerVars, TypeOK, Runs
  <2>3. UNCHANGED <<kind, metered, attempts, claims, acked>>
    BY <1>2 DEF ApplyMatchReceipt, jobVars
  <2>4. CASE FailResource
    BY <2>1, <2>2, <2>3, <2>4, ResourceType DEF TypeOK
  <2>5. CASE Usable(outcome, valid)
    BY <1>2, <2>1, <2>2, <2>3, <2>5 DEF ApplyMatchReceipt, TypeOK, Stages, WorkStages, EventStages
  <2> QED  BY <1>2, <2>4, <2>5 DEF ApplyMatchReceipt
<1>3. CASE ApplySuggestionReceipt(tok, outcome, valid)
  <2>1. FailResource \/ PublishResource
    BY <1>3 DEF ApplySuggestionReceipt
  <2>2. /\ activeRun' \in Runs \union {NoRun}
        /\ audited' \subseteq Runs
    BY <1>3 DEF ApplySuggestionReceipt, StoreReceipt, Settled, TypeOK, Runs
  <2>3. UNCHANGED <<kind, metered, attempts, claims, acked, ledger, billedRun>>
    BY <1>3 DEF ApplySuggestionReceipt, jobVars, ledgerVars
  <2> QED
    BY <2>1, <2>2, <2>3, ResourceType DEF TypeOK
<1> QED  BY <1>1, <1>2, <1>3

\* The calls of the worker that end the task, other than by a receipt.
LEMMA EndingType ==
  ASSUME TypeOK, NEW tok \in Tokens, NEW flag \in BOOLEAN,
         RejectInput(tok) \/ ApplyRules(tok, flag) \/ CompleteTask(tok)
           \/ FailTask(tok, flag) \/ HandleTerminalFailure(tok)
  PROVE  TypeOK'
<1>1. PICK st \in {"failed", "succeeded"} : FinishWith(st, TRUE)
  BY DEF RejectInput, ApplyRules, CompleteTask, FailTask, HandleTerminalFailure, Finish
<1>2. st \in TerminalStatuses
  BY DEF TerminalStatuses
<1>3. UNCHANGED <<kind, metered, attempts, claims, acked, billedRun, audited>>
  BY DEF RejectInput, ApplyRules, CompleteTask, FailTask, HandleTerminalFailure, jobVars, ledgerVars
<1>4. activeRun' \in Runs \union {NoRun}
  BY DEF RejectInput, ApplyRules, CompleteTask, FailTask, HandleTerminalFailure, TypeOK
<1>5. ledger' \in {"none", "reserved", "consumed", "released"}
  BY DEF RejectInput, ApplyRules, CompleteTask, FailTask, HandleTerminalFailure, TypeOK,
     ReleaseUnused, ledgerVars
<1>6. resource' \in ResourceStates
  BY DEF RejectInput, ApplyRules, CompleteTask, FailTask, HandleTerminalFailure, TypeOK,
     ResourceStates
<1> QED
  <2>1. /\ status' \in {"queued", "running"} \union TerminalStatuses
        /\ stage' \in Stages
        /\ claimToken' \in 0..claims
        /\ lease' \in {"none", "live", "expired"}
        /\ snapshot' \in BOOLEAN
        /\ events' \in Seq(EventStages)
    BY <1>1, <1>2, FinishType
  <2> QED
    BY <2>1, <1>3, <1>4, <1>5, <1>6 DEF TypeOK

LEMMA WorkerType == \A tok \in Tokens : TypeOK /\ WorkerCall(tok) => TypeOK'
<1> SUFFICES ASSUME TypeOK, NEW tok \in Tokens, WorkerCall(tok) PROVE TypeOK'
  OBVIOUS
<1>1. CASE ReleaseClaim(tok)
  BY <1>1 DEF ReleaseClaim, TypeOK, jobVars, ledgerVars
<1>2. CASE ReconcileCancelled(tok)
  <2>1. ledger' \in {"none", "reserved", "consumed", "released"}
    BY <1>2 DEF ReconcileCancelled, ReleaseUnused, TypeOK
  <2>2. resource' \in ResourceStates
    BY <1>2 DEF ReconcileCancelled, RestoredDraft, RestoredParse, TypeOK, ResourceStates
  <2>3. /\ UNCHANGED <<kind, metered, status, stage, attempts, claims, acked, billedRun,
                       audited, events>>
        /\ snapshot' = FALSE /\ activeRun' = NoRun /\ claimToken' = 0 /\ lease' = "none"
    BY <1>2 DEF ReconcileCancelled, jobVars, NoClaim
  <2>4. claimToken' \in 0..claims' /\ claims' \in 0..MaxClaims /\ attempts' \in 0..MaxAttempts
    BY <2>3 DEF TypeOK
  <2>5. activeRun' \in Runs \union {NoRun} /\ billedRun' \in Runs \union {NoRun} /\ audited' \subseteq Runs
    BY <2>3 DEF TypeOK
  <2>6. /\ kind' \in AllKinds
        /\ status' \in {"queued", "running"} \union TerminalStatuses
        /\ stage' \in Stages
        /\ lease' \in {"none", "live", "expired"}
        /\ events' \in Seq(EventStages)
    BY <2>3 DEF TypeOK
  <2>7. metered' \in BOOLEAN /\ acked' \in BOOLEAN /\ snapshot' \in BOOLEAN
    BY <2>3 DEF TypeOK
  <2> QED
    BY <2>1, <2>2, <2>4, <2>5, <2>6, <2>7 DEF TypeOK
<1>3. CASE FinalizeUnused(tok)
  BY <1>3 DEF FinalizeUnused, TypeOK, jobVars, NoClaim
<1>4. CASE BeginProcessing(tok)
  BY <1>4 DEF BeginProcessing, TypeOK, jobVars, claimVars, ledgerVars, Stages, WorkStages
<1>5. CASE RejectInput(tok) \/ CompleteTask(tok) \/ HandleTerminalFailure(tok)
  BY <1>5, EndingType
<1>6. ASSUME NEW run \in Runs, RegisterRun(tok, run) PROVE TypeOK'
  <2>1. acked' \in BOOLEAN
    <3>1. acked' = (acked /\ CancellationRequested)
      BY <1>6 DEF RegisterRun
    <3> QED  BY <3>1
  <2>2. /\ ledger' \in {"none", "reserved", "consumed", "released"}
        /\ billedRun' \in Runs \union {NoRun}
    BY <1>6 DEF RegisterRun, Bind, ledgerVars, TypeOK
  <2> QED
    BY <1>6, <2>1, <2>2 DEF RegisterRun, TypeOK, jobVars, claimVars
<1>7. ASSUME NEW flag \in BOOLEAN, ApplyRules(tok, flag) \/ FailTask(tok, flag) PROVE TypeOK'
  BY <1>7, EndingType
<1>8. ASSUME NEW flag \in BOOLEAN, MarkFailurePending(tok, flag) PROVE TypeOK'
  BY <1>8 DEF MarkFailurePending, TypeOK, jobVars, claimVars, ledgerVars, Stages, PendingStages
<1>9. ASSUME NEW flag \in BOOLEAN, NEW outcome \in ReceiptStatuses,
             \/ ApplyReceipt(tok, outcome, flag)
             \/ ApplyMatchReceipt(tok, outcome, flag)
             \/ ApplySuggestionReceipt(tok, outcome, flag)
      PROVE  TypeOK'
  BY <1>9, ReceiptType
<1> QED  BY <1>1, <1>2, <1>3, <1>4, <1>5, <1>6, <1>7, <1>8, <1>9 DEF WorkerCall

LEMMA TypeStep == TypeOK /\ [TaskNext]_taskVars => TypeOK'
<1> SUFFICES ASSUME TypeOK, [TaskNext]_taskVars PROVE TypeOK'
  OBVIOUS
<1>1. CASE UNCHANGED taskVars
  BY <1>1 DEF taskVars, TypeOK
<1>2. CASE ClaimTask
  BY <1>2, ClaimType
<1>3. CASE OwnerCall \/ FailExhausted \/ LeaseExpires
  BY <1>3, OwnerType
<1>4. ASSUME NEW tok \in Tokens, WorkerCall(tok) PROVE TypeOK'
  BY <1>4, WorkerType
<1>5. ASSUME NEW run \in Runs, AcknowledgeCancel(run) PROVE TypeOK'
  <2>1. CASE status = "running"
    BY <1>5, <2>1 DEF AcknowledgeCancel, TypeOK, jobVars, claimVars, ledgerVars
  <2>2. CASE status = "cancelled"
    BY <1>5, <2>2 DEF AcknowledgeCancel, TypeOK, jobVars, ledgerVars, NoClaim
  <2> QED  BY <1>5, <2>1, <2>2 DEF AcknowledgeCancel
<1> QED  BY <1>1, <1>2, <1>3, <1>4, <1>5 DEF TaskNext

\* Every reachable row of every task is well typed: in particular no attempt and no
\* claim token beyond the ones claim_task may hand out (tasks/service.py, claim_task).
THEOREM TypeCorrect == TaskSpec => []TypeOK
<1>1. TypeOK /\ [TaskNext]_taskVars => TypeOK'
  BY TypeStep
<1> QED  BY TypeInit, <1>1, PTL DEF TaskSpec

-------------------------------------------------------------------------------
(* The reservation *)

LEMMA LedgerInit == TaskInit => LedgerFollowsRuns
BY DEF TaskInit, LedgerFollowsRuns, Terminal, TerminalStatuses

\* A reservation is given back, if at all, by a transaction that finds or leaves the
\* task terminal and, as it looks at the active run, only when no run was billed.
LEMMA ReleaseKeepsLedger ==
  ASSUME LedgerFollowsRuns,
         ledger' \in {ledger, ReleaseUnused(activeRun), ReleaseUnused(activeRun')},
         activeRun' \in {activeRun, NoRun},
         Terminal',
         UNCHANGED <<metered, billedRun, audited>>
  PROVE  LedgerFollowsRuns'
BY DEF LedgerFollowsRuns, ReleaseUnused

LEMMA EndIsTerminal ==
  ASSUME NEW st \in TerminalStatuses, NEW dropClaim \in BOOLEAN, FinishWith(st, dropClaim)
  PROVE  Terminal' /\ ~Terminal
BY DEF FinishWith, CanTransition, Terminal

LEMMA LedgerStep == TypeOK /\ LedgerFollowsRuns /\ [TaskNext]_taskVars => LedgerFollowsRuns'
<1> SUFFICES ASSUME TypeOK, LedgerFollowsRuns, [TaskNext]_taskVars PROVE LedgerFollowsRuns'
  OBVIOUS
<1> USE DEF TerminalStatuses
<1>1. ASSUME Terminal' \/ (~Terminal /\ ~Terminal'),
             UNCHANGED <<metered, activeRun, ledger, billedRun, audited>>
      PROVE  LedgerFollowsRuns'
  BY <1>1 DEF LedgerFollowsRuns
<1>2. CASE UNCHANGED taskVars
  BY <1>1, <1>2 DEF taskVars, Terminal
<1>3. CASE ClaimTask
  <2>1. CASE ClaimExhausted
    <3>1. FinishWith("failed", TRUE)
      BY <2>1 DEF ClaimExhausted, Finish
    <3> QED  BY <1>1, <2>1, <3>1, EndIsTerminal DEF ClaimExhausted, jobVars, ledgerVars
  <2>2. CASE ClaimFresh
    BY <1>1, <2>2 DEF ClaimFresh, Claimable, Terminal, jobVars, ledgerVars
  <2>3. CASE ClaimPending
    BY <1>1, <2>3 DEF ClaimPending, Claimable, Terminal, jobVars, ledgerVars
  <2> QED  BY <1>3, <2>1, <2>2, <2>3 DEF ClaimTask
<1>4. CASE LeaseExpires
  BY <1>1, <1>4 DEF LeaseExpires, Terminal, jobVars, ledgerVars
<1>5. CASE RequestCancel
  <2>1. PICK dropClaim \in BOOLEAN : FinishWith("cancelled", dropClaim)
    <3>1. (~metered \/ UnstartedDraft) \in BOOLEAN
      OBVIOUS
    <3> QED  BY <1>5, <3>1 DEF RequestCancel
  <2>2. Terminal'
    BY <2>1, EndIsTerminal
  <2> QED  BY <1>5, <2>2, ReleaseKeepsLedger DEF RequestCancel, jobVars
<1>6. CASE StartAgain
  BY <1>1, <1>6 DEF StartAgain, Terminal, jobVars, ledgerVars
<1>7. CASE LeaveFailedAnalysis
  BY <1>7 DEF LeaveFailedAnalysis, LedgerFollowsRuns, Terminal, jobVars
<1>8. CASE FailExhausted
  BY <1>8, ReleaseKeepsLedger DEF FailExhausted, Terminal, jobVars
<1>9. ASSUME NEW run \in Runs, AcknowledgeCancel(run) PROVE LedgerFollowsRuns'
  BY <1>9 DEF AcknowledgeCancel, LedgerFollowsRuns, Terminal, jobVars, ledgerVars
<1>10. ASSUME NEW tok \in Tokens, WorkerCall(tok) PROVE LedgerFollowsRuns'
  <2>1. CASE ReleaseClaim(tok) \/ BeginProcessing(tok)
    BY <1>1, <2>1 DEF ReleaseClaim, BeginProcessing, Terminal, jobVars, ledgerVars
  <2>2. CASE ReconcileCancelled(tok)
    <3>1. Terminal'
      BY <2>2 DEF ReconcileCancelled, Reconcilable, Terminal
    <3> QED  BY <2>2, <3>1, ReleaseKeepsLedger DEF ReconcileCancelled, jobVars
  <2>3. CASE FinalizeUnused(tok)
    BY <2>3, ReleaseKeepsLedger
    DEF FinalizeUnused, Finalizable, ReleaseUnused, Terminal, jobVars
  <2>4. ASSUME NEW flag \in BOOLEAN,
               RejectInput(tok) \/ ApplyRules(tok, flag) \/ CompleteTask(tok)
                 \/ FailTask(tok, flag) \/ HandleTerminalFailure(tok)
        PROVE  LedgerFollowsRuns'
    <3>1. PICK st \in {"failed", "succeeded"} : FinishWith(st, TRUE)
      BY <2>4 DEF RejectInput, ApplyRules, CompleteTask, FailTask, HandleTerminalFailure, Finish
    <3>2. Terminal'
      BY <3>1, EndIsTerminal
    <3>3. /\ ledger' \in {ledger, ReleaseUnused(activeRun), ReleaseUnused(activeRun')}
          /\ activeRun' \in {activeRun, NoRun}
          /\ UNCHANGED <<metered, billedRun, audited>>
      BY <2>4 DEF RejectInput, ApplyRules, CompleteTask, FailTask, HandleTerminalFailure, jobVars,
         ledgerVars
    <3> QED  BY <3>2, <3>3, ReleaseKeepsLedger
  <2>5. ASSUME NEW flag \in BOOLEAN, MarkFailurePending(tok, flag) PROVE LedgerFollowsRuns'
    BY <1>1, <2>5 DEF MarkFailurePending, Claimed, Terminal, jobVars, ledgerVars
  <2>6. ASSUME NEW run \in Runs, RegisterRun(tok, run) PROVE LedgerFollowsRuns'
    BY <2>6 DEF RegisterRun, Bind, LedgerFollowsRuns, Terminal, jobVars, ledgerVars, Runs, NoRun
  <2>7. ASSUME NEW flag \in BOOLEAN, NEW outcome \in ReceiptStatuses,
               \/ ApplyReceipt(tok, outcome, flag)
               \/ ApplyMatchReceipt(tok, outcome, flag)
               \/ ApplySuggestionReceipt(tok, outcome, flag)
        PROVE  LedgerFollowsRuns'
    <3>1. metered /\ metered' = metered
      BY <2>7 DEF ApplyReceipt, ApplyMatchReceipt, ApplySuggestionReceipt, StoreReceipt, jobVars
    <3>2. ledger' = "consumed" /\ billedRun' # NoRun
      <4>1. CASE ApplySuggestionReceipt(tok, outcome, flag)
        <5>1. "first" \in audited
          BY <4>1 DEF ApplySuggestionReceipt, StoreReceipt, Started
        <5>2. ledger = "consumed" /\ billedRun # NoRun
          BY <5>1 DEF LedgerFollowsRuns
        <5> QED  BY <4>1, <5>2 DEF ApplySuggestionReceipt, ledgerVars
      <4>2. CASE Consume("first")
        BY <4>2 DEF Consume, Bind, ledgerVars, LedgerFollowsRuns, NoRun
      <4> QED  BY <2>7, <4>1, <4>2 DEF ApplyReceipt, ApplyMatchReceipt
    <3> QED  BY <3>1, <3>2 DEF LedgerFollowsRuns
  <2> QED  BY <1>10, <2>1, <2>2, <2>3, <2>4, <2>5, <2>6, <2>7 DEF WorkerCall
<1> QED
  BY <1>2, <1>3, <1>4, <1>5, <1>6, <1>7, <1>8, <1>9, <1>10 DEF TaskNext, OwnerCall

\* The usage ledger, the task row and the stored receipts agree in every reachable
\* state: no active run and no receipt without its charge, and nothing given back
\* while the task may still run (tasks/service.py, the reservation helpers).
THEOREM LedgerCorrect == TaskSpec => []LedgerFollowsRuns
<1>1. TypeOK /\ LedgerFollowsRuns /\ [TaskNext]_taskVars => LedgerFollowsRuns'
  BY LedgerStep
<1> QED  BY LedgerInit, TypeCorrect, <1>1, PTL DEF TaskSpec

-------------------------------------------------------------------------------
(* The claim *)

LEMMA ClaimInit == TaskInit => NewestClaimOnly
BY DEF TaskInit, NewestClaimOnly, NoClaim, Terminal, TerminalStatuses, PendingStages

LEMMA ClaimDropped ==
  ASSUME Terminal', claimToken' = NoClaim, lease' = "none", stage' \notin PendingStages
  PROVE  NewestClaimOnly'
BY DEF NewestClaimOnly, Terminal, TerminalStatuses

LEMMA ClaimStep == TypeOK /\ NewestClaimOnly /\ [TaskNext]_taskVars => NewestClaimOnly'
<1> SUFFICES ASSUME TypeOK, NewestClaimOnly, [TaskNext]_taskVars PROVE NewestClaimOnly'
  OBVIOUS
<1> USE DEF TerminalStatuses, PendingStages
<1>1. ASSUME UNCHANGED <<metered, status, claims, claimToken, lease>>,
             stage' = stage \/ stage' \notin PendingStages \/ status = "running"
      PROVE  NewestClaimOnly'
  BY <1>1 DEF NewestClaimOnly, Terminal
<1>2. CASE UNCHANGED taskVars
  BY <1>1, <1>2 DEF taskVars
<1>3. CASE ClaimTask
  <2>1. CASE ClaimExhausted
    <3>1. FinishWith("failed", TRUE)
      BY <2>1 DEF ClaimExhausted, Finish
    <3> QED  BY <3>1, EndIsTerminal, ClaimDropped DEF FinishWith
  <2>2. CASE ClaimFresh
    <3>1. /\ status' = "running" /\ stage' = "running"
          /\ claims' = claims + 1 /\ claimToken' = claims + 1 /\ lease' = "live"
      BY <2>2 DEF ClaimFresh, NewClaim
    <3> QED  BY <3>1 DEF NewestClaimOnly, NoClaim, Terminal, TypeOK
  <2>3. CASE ClaimPending
    <3>1. /\ status' = status /\ claims' = claims + 1 /\ claimToken' = claims + 1 /\ lease' = "live"
          /\ ~Terminal
      BY <2>3 DEF ClaimPending, NewClaim, Claimable, Terminal
    <3>2. status = "running"
      BY <2>3 DEF ClaimPending, NewestClaimOnly
    <3> QED  BY <3>1, <3>2 DEF NewestClaimOnly, NoClaim, Terminal, TypeOK
  <2> QED  BY <1>3, <2>1, <2>2, <2>3 DEF ClaimTask
<1>4. CASE LeaseExpires
  BY <1>4 DEF LeaseExpires, NewestClaimOnly, Terminal, jobVars
<1>5. CASE RequestCancel
  <2>1. PICK dropClaim \in BOOLEAN :
          FinishWith("cancelled", dropClaim) /\ (~metered => dropClaim)
    <3>1. (~metered \/ UnstartedDraft) \in BOOLEAN
      OBVIOUS
    <3> QED  BY <1>5, <3>1 DEF RequestCancel
  <2>2. /\ Terminal' /\ status' = "cancelled" /\ stage' = "cancelled"
        /\ UNCHANGED <<metered, claims>>
    BY <1>5, <2>1 DEF RequestCancel, FinishWith, Terminal, jobVars
  <2>3. CASE dropClaim
    BY <2>1, <2>2, <2>3, ClaimDropped DEF FinishWith
  <2>4. CASE ~dropClaim
    <3>1. UNCHANGED <<claimToken, lease>> /\ metered
      BY <2>1, <2>4 DEF FinishWith, claimVars
    <3> QED  BY <2>2, <3>1 DEF NewestClaimOnly, Terminal
  <2> QED  BY <2>3, <2>4
<1>6. CASE StartAgain \/ LeaveFailedAnalysis
  BY <1>1, <1>6 DEF StartAgain, LeaveFailedAnalysis, jobVars, claimVars
<1>7. CASE FailExhausted
  BY <1>7, ClaimDropped DEF FailExhausted, Terminal
<1>8. ASSUME NEW run \in Runs, AcknowledgeCancel(run) PROVE NewestClaimOnly'
  <2>1. CASE status = "running"
    BY <1>1, <1>8, <2>1 DEF AcknowledgeCancel, jobVars, claimVars
  <2>2. CASE status = "cancelled"
    BY <1>8, <2>2, ClaimDropped DEF AcknowledgeCancel, Terminal, NewestClaimOnly
  <2> QED  BY <1>8, <2>1, <2>2 DEF AcknowledgeCancel
<1>9. ASSUME NEW tok \in Tokens, WorkerCall(tok) PROVE NewestClaimOnly'
  <2>1. CASE ReleaseClaim(tok)
    BY <2>1 DEF ReleaseClaim, Claimed, NewestClaimOnly, Terminal, NoClaim, Tokens, jobVars
  <2>2. CASE ReconcileCancelled(tok) \/ FinalizeUnused(tok)
    <3>1. /\ Terminal /\ status # "running"
          /\ UNCHANGED <<status, stage>> /\ claimToken' = NoClaim /\ lease' = "none"
      BY <2>2 DEF ReconcileCancelled, Reconcilable, FinalizeUnused, Finalizable, Terminal
    <3> QED  BY <3>1, ClaimDropped DEF NewestClaimOnly, Terminal
  <2>3. CASE BeginProcessing(tok)
    BY <1>1, <2>3 DEF BeginProcessing, Claimed, jobVars, claimVars
  <2>4. ASSUME NEW flag \in BOOLEAN, MarkFailurePending(tok, flag) PROVE NewestClaimOnly'
    BY <1>1, <2>4 DEF MarkFailurePending, Claimed, jobVars, claimVars
  <2>5. ASSUME NEW flag \in BOOLEAN,
               RejectInput(tok) \/ ApplyRules(tok, flag) \/ CompleteTask(tok)
                 \/ FailTask(tok, flag) \/ HandleTerminalFailure(tok)
        PROVE  NewestClaimOnly'
    <3>1. PICK st \in {"failed", "succeeded"} : FinishWith(st, TRUE)
      BY <2>5 DEF RejectInput, ApplyRules, CompleteTask, FailTask, HandleTerminalFailure, Finish
    <3> QED  BY <3>1, ClaimDropped, EndIsTerminal DEF FinishWith
  <2>6. ASSUME NEW flag \in BOOLEAN, NEW outcome \in ReceiptStatuses,
               \/ ApplyReceipt(tok, outcome, flag)
               \/ ApplyMatchReceipt(tok, outcome, flag)
               \/ ApplySuggestionReceipt(tok, outcome, flag)
        PROVE  NewestClaimOnly'
    <3>1. UNCHANGED <<metered, claims>>
      BY <2>6 DEF ApplyReceipt, ApplyMatchReceipt, ApplySuggestionReceipt, jobVars
    <3>2. CASE FailResource /\ status = "cancelled"
      BY <1>1, <3>1, <3>2 DEF FailResource, claimVars
    <3>3. CASE (FailResource /\ status # "cancelled") \/ PublishResource
      <4>1. PICK st \in {"failed", "succeeded"} : FinishWith(st, TRUE)
        BY <3>3 DEF FailResource, PublishResource, Finish
      <4> QED  BY <4>1, ClaimDropped, EndIsTerminal DEF FinishWith
    <3>4. CASE ApplyMatchReceipt(tok, outcome, flag) /\ Usable(outcome, flag)
      <4>1. status = "running" /\ claimToken = tok
        BY <3>4 DEF ApplyMatchReceipt, StoreReceipt, ReceiptAccepted, Usable
      <4>2. status' = status /\ stage' = "match" /\ claimToken' = claimToken /\ lease' = "live"
        BY <3>4 DEF ApplyMatchReceipt
      <4> QED  BY <3>1, <4>1, <4>2 DEF NewestClaimOnly, Terminal, NoClaim, Tokens, TypeOK
    <3> QED
      BY <2>6, <3>2, <3>3, <3>4 DEF ApplyReceipt, ApplyMatchReceipt, ApplySuggestionReceipt
  <2>7. ASSUME NEW run \in Runs, RegisterRun(tok, run) PROVE NewestClaimOnly'
    BY <1>1, <2>7 DEF RegisterRun, jobVars, claimVars
  <2> QED  BY <1>9, <2>1, <2>2, <2>3, <2>4, <2>5, <2>6, <2>7 DEF WorkerCall
<1> QED
  BY <1>2, <1>3, <1>4, <1>5, <1>6, <1>7, <1>8, <1>9 DEF TaskNext, OwnerCall

\* A worker that lost its claim cannot write the task row: the only token the row can
\* hold is that of the newest claim, for every number of workers and of claims
\* (tasks/service.py, claim_task and _claimed_task).
THEOREM NewestClaimCorrect == TaskSpec => []NewestClaimOnly
<1>1. TypeOK /\ NewestClaimOnly /\ [TaskNext]_taskVars => NewestClaimOnly'
  BY ClaimStep
<1> QED  BY ClaimInit, TypeCorrect, <1>1, PTL DEF TaskSpec

-------------------------------------------------------------------------------
(* The result *)

LEMMA ResultInit == TaskInit => ResultIffSucceeded
BY DEF TaskInit, ResultIffSucceeded

\* The ways a step may move the business row and the status without breaking the tie
\* between them.
LEMMA ResultKept ==
  ASSUME TypeOK, ResultIffSucceeded, kind' = kind,
         \/ status' = status /\ resource' = resource
         \/ /\ ~Terminal /\ ~Terminal'
            /\ resource' = resource
         \/ /\ ~Terminal /\ status' \in {"failed", "cancelled"}
            /\ resource' \in {resource, "open"}
         \/ ~Terminal /\ status' = "succeeded" /\ resource' = "done"
         \/ /\ status \in {"failed", "cancelled"} /\ status' = status
            /\ resource' \in {"open", "superseded", resource}
  PROVE  ResultIffSucceeded'
BY DEF ResultIffSucceeded, Terminal, TerminalStatuses, TypeOK

LEMMA ResultStep ==
  TypeOK /\ ResultIffSucceeded /\ [TaskNext]_taskVars
    => /\ ResultIffSucceeded'
       /\ (resource \in {"done", "superseded"}) => (resource' = resource)
<1> DEFINE Goal == /\ ResultIffSucceeded'
                   /\ (resource \in {"done", "superseded"}) => (resource' = resource)
<1> SUFFICES ASSUME TypeOK, ResultIffSucceeded, [TaskNext]_taskVars PROVE Goal
  OBVIOUS
<1> USE DEF TerminalStatuses
<1>1. ASSUME kind' = kind, resource' = resource, status' = status \/ (~Terminal /\ ~Terminal')
      PROVE  Goal
  BY <1>1, ResultKept
<1>2. CASE UNCHANGED taskVars
  BY <1>1, <1>2 DEF taskVars
<1>3. CASE ClaimTask
  <2>1. CASE ClaimExhausted
    <3>1. status' = "failed" /\ ~Terminal
      BY <2>1 DEF ClaimExhausted, Finish, FinishWith, CanTransition, Terminal
    <3> QED  BY <2>1, <3>1, ResultKept DEF ClaimExhausted, jobVars
  <2>2. CASE ClaimFresh \/ ClaimPending
    <3>1. ~Terminal /\ ~Terminal'
      BY <2>2 DEF ClaimFresh, ClaimPending, Claimable, Terminal
    <3> QED  BY <1>1, <2>2, <3>1 DEF ClaimFresh, ClaimPending, jobVars
  <2> QED  BY <1>3, <2>1, <2>2 DEF ClaimTask
<1>4. CASE LeaseExpires
  BY <1>1, <1>4 DEF LeaseExpires, jobVars
<1>5. CASE RequestCancel
  <2>1. /\ status' = "cancelled" /\ ~Terminal /\ kind' = kind
        /\ resource' \in {resource, "open"}
        /\ resource # "busy" => resource' = resource
    BY <1>5 DEF RequestCancel, FinishWith, RestoredDraft, RestoredParse, jobVars
  <2> QED  BY <2>1, ResultKept
<1>6. CASE StartAgain
  <2>1. resource \in {"open", "busy"} /\ kind # "file"
    BY <1>6 DEF StartAgain, Restartable
  <2>2. status \in {"failed", "cancelled"}
    <3>1. status # "succeeded"
      BY <2>1 DEF ResultIffSucceeded
    <3>2. Terminal
      BY <1>6, <2>1 DEF StartAgain, Restartable, ResultIffSucceeded
    <3> QED  BY <3>1, <3>2 DEF Terminal
  <2> QED  BY <1>6, <2>1, <2>2, ResultKept DEF StartAgain, jobVars
<1>7. CASE LeaveFailedAnalysis
  BY <1>7, ResultKept DEF LeaveFailedAnalysis, jobVars
<1>8. CASE FailExhausted
  BY <1>8, ResultKept DEF FailExhausted, jobVars
<1>9. ASSUME NEW run \in Runs, AcknowledgeCancel(run) PROVE Goal
  BY <1>1, <1>9 DEF AcknowledgeCancel, jobVars
<1>10. ASSUME NEW tok \in Tokens, WorkerCall(tok) PROVE Goal
  <2>1. ASSUME NEW run \in Runs, NEW flag \in BOOLEAN,
               ReleaseClaim(tok) \/ BeginProcessing(tok) \/ FinalizeUnused(tok)
                 \/ RegisterRun(tok, run) \/ MarkFailurePending(tok, flag)
        PROVE  Goal
    BY <1>1, <2>1
    DEF ReleaseClaim, BeginProcessing, FinalizeUnused, RegisterRun, MarkFailurePending, jobVars
  <2>2. CASE ReconcileCancelled(tok)
    <3>1. /\ status' = status /\ status = "cancelled" /\ kind' = kind
          /\ resource' \in {resource, "open"}
          /\ resource # "busy" => resource' = resource
      BY <2>2 DEF ReconcileCancelled, Reconcilable, RestoredDraft, RestoredParse, jobVars
    <3> QED  BY <3>1, ResultKept
  <2>3. ASSUME NEW flag \in BOOLEAN, CompleteTask(tok) \/ FailTask(tok, flag) PROVE Goal
    BY <2>3 DEF CompleteTask, FailTask, ResultIffSucceeded, jobVars
  <2>4. ASSUME NEW flag \in BOOLEAN,
               RejectInput(tok) \/ ApplyRules(tok, flag) \/ HandleTerminalFailure(tok)
        PROVE  Goal
    <3>1. /\ ~Terminal /\ kind' = kind /\ kind # "file"
          /\ \/ status' = "succeeded" /\ resource' = "done"
             \/ status' = "failed" /\ resource' = "open"
      BY <2>4 DEF RejectInput, ApplyRules, HandleTerminalFailure, Finish, FinishWith,
         CanTransition, Terminal, jobVars
    <3> QED  BY <3>1, ResultKept DEF ResultIffSucceeded
  <2>5. ASSUME NEW flag \in BOOLEAN, NEW outcome \in ReceiptStatuses,
               \/ ApplyReceipt(tok, outcome, flag)
               \/ ApplyMatchReceipt(tok, outcome, flag)
               \/ ApplySuggestionReceipt(tok, outcome, flag)
        PROVE  Goal
    <3>1. /\ kind' = kind /\ kind # "file" /\ resource # "superseded"
          /\ status \in {"running", "cancelled"}
      BY <2>5 DEF ApplyReceipt, ApplyMatchReceipt, ApplySuggestionReceipt, StoreReceipt, Linked,
         ReceiptAccepted, CancellationRequested, jobVars
    <3>2. resource # "done"
      BY <3>1 DEF ResultIffSucceeded
    <3>3. CASE FailResource /\ status = "cancelled"
      BY <3>1, <3>2, <3>3, ResultKept DEF FailResource
    <3>4. CASE (FailResource /\ status # "cancelled") \/ PublishResource
      BY <3>1, <3>2, <3>4, ResultKept
      DEF FailResource, PublishResource, Finish, FinishWith, CanTransition, Terminal
    <3>5. CASE ApplyMatchReceipt(tok, outcome, flag) /\ Usable(outcome, flag)
      BY <1>1, <3>1, <3>5 DEF ApplyMatchReceipt
    <3> QED
      BY <2>5, <3>3, <3>4, <3>5 DEF ApplyReceipt, ApplyMatchReceipt, ApplySuggestionReceipt
  <2>6. \E run \in Runs : TRUE
    BY DEF Runs
  <2> QED  BY <1>10, <2>1, <2>2, <2>3, <2>4, <2>5, <2>6 DEF WorkerCall
<1> QED
  BY <1>2, <1>3, <1>4, <1>5, <1>6, <1>7, <1>8, <1>9, <1>10 DEF TaskNext, OwnerCall

\* A cancellation and a result exclude each other whatever order they arrive in: the
\* business row carries the result of exactly the tasks that succeeded, and no other
\* writer takes it while the task may still write it.
THEOREM ResultCorrect == TaskSpec => []ResultIffSucceeded
<1>1. TypeOK /\ ResultIffSucceeded /\ [TaskNext]_taskVars => ResultIffSucceeded'
  BY ResultStep
<1> QED  BY ResultInit, TypeCorrect, <1>1, PTL DEF TaskSpec

\* A late receipt, failure or cancellation neither takes back a published result nor
\* writes a row that was handed to a newer task.
THEOREM ResultFinal == TaskSpec => ResultIsFinal
<1>1. TypeOK /\ ResultIffSucceeded /\ [TaskNext]_taskVars
        => [(resource \in {"done", "superseded"}) => (resource' = resource)]_taskVars
  BY ResultStep
<1> QED  BY TypeCorrect, ResultCorrect, <1>1, PTL DEF TaskSpec, ResultIsFinal

-------------------------------------------------------------------------------
(* The contract *)

\* Which kinds hold a reservation is decided at admission.
Admitted == (kind = "file" => ~metered) /\ (kind = "analysis" => metered)

LEMMA AdmittedStep == Admitted /\ [TaskNext]_taskVars => Admitted'
<1> SUFFICES ASSUME [TaskNext]_taskVars PROVE UNCHANGED <<kind, metered>>
  BY DEF Admitted
<1>1. CASE UNCHANGED taskVars
  BY <1>1 DEF taskVars
<1>2. CASE ClaimTask \/ LeaseExpires \/ OwnerCall \/ FailExhausted
  BY <1>2 DEF ClaimTask, ClaimExhausted, ClaimFresh, ClaimPending, LeaseExpires, OwnerCall,
     RequestCancel, StartAgain, LeaveFailedAnalysis, FailExhausted, jobVars
<1>3. ASSUME NEW run \in Runs, AcknowledgeCancel(run) PROVE UNCHANGED <<kind, metered>>
  BY <1>3 DEF AcknowledgeCancel, jobVars
<1>4. ASSUME NEW tok \in Tokens, WorkerCall(tok) PROVE UNCHANGED <<kind, metered>>
  BY <1>4 DEF WorkerCall, ReleaseClaim, ReconcileCancelled, FinalizeUnused, BeginProcessing,
     RejectInput, CompleteTask, HandleTerminalFailure, RegisterRun, ApplyRules, FailTask,
     MarkFailurePending, ApplyReceipt, ApplyMatchReceipt, ApplySuggestionReceipt, jobVars
<1> QED  BY <1>1, <1>2, <1>3, <1>4 DEF TaskNext

\* What a step may do to the status and to the reservation.
Moves ==
  \/ UNCHANGED <<status, ledger>>
  \/ status = "queued" /\ status' = "running" /\ ledger' = ledger
  \/ status # "queued" /\ status' = status /\ ledger = "reserved" /\ ledger' = "consumed"
  \/ Terminal /\ status' = status /\ ledger = "reserved" /\ ledger' = "released"
  \/ /\ status = "running" /\ status' = "succeeded"
     /\ ledger' = IF ledger = "reserved" THEN "consumed" ELSE ledger
  \/ /\ ~Terminal /\ status' \in {"failed", "cancelled"}
     /\ \/ ledger' = ledger
        \/ ledger = "reserved" /\ ledger' \in {"consumed", "released"}

LEMMA MoveStep ==
  TypeOK /\ NewestClaimOnly /\ LedgerFollowsRuns /\ Admitted /\ [TaskNext]_taskVars => Moves
<1> SUFFICES ASSUME TypeOK, NewestClaimOnly, LedgerFollowsRuns, Admitted, [TaskNext]_taskVars
             PROVE  Moves
  OBVIOUS
<1> USE DEF TerminalStatuses
<1>1. CASE UNCHANGED taskVars
  BY <1>1 DEF taskVars, Moves
<1>2. CASE ClaimTask
  <2>1. CASE ClaimExhausted
    BY <2>1 DEF ClaimExhausted, Finish, FinishWith, CanTransition, Terminal, ledgerVars, Moves
  <2>2. CASE ClaimFresh \/ ClaimPending
    BY <2>2 DEF ClaimFresh, ClaimPending, Claimable, ledgerVars, Moves
  <2> QED  BY <1>2, <2>1, <2>2 DEF ClaimTask
<1>3. CASE LeaseExpires \/ StartAgain
  BY <1>3 DEF LeaseExpires, StartAgain, ledgerVars, Moves
<1>4. CASE RequestCancel
  BY <1>4 DEF RequestCancel, FinishWith, CanTransition, ReleaseUnused, Terminal, Moves
<1>5. CASE LeaveFailedAnalysis
  BY <1>5 DEF LeaveFailedAnalysis, Terminal, Moves
<1>6. CASE FailExhausted
  BY <1>6 DEF FailExhausted, ReleaseUnused, Moves
<1>7. ASSUME NEW run \in Runs, AcknowledgeCancel(run) PROVE Moves
  BY <1>7 DEF AcknowledgeCancel, ledgerVars, Moves
<1>8. ASSUME NEW tok \in Tokens, WorkerCall(tok) PROVE Moves
  <2>1. CASE ReleaseClaim(tok) \/ BeginProcessing(tok)
    BY <2>1 DEF ReleaseClaim, BeginProcessing, ledgerVars, Moves
  <2>2. CASE ReconcileCancelled(tok) \/ FinalizeUnused(tok)
    BY <2>2 DEF ReconcileCancelled, Reconcilable, FinalizeUnused, Finalizable, ReleaseUnused,
       Terminal, Moves
  <2>3. ASSUME NEW run \in Runs, RegisterRun(tok, run) PROVE Moves
    <3>1. status # "queued" /\ status' = status
      BY <2>3 DEF RegisterRun, Claimed, CancellationRequested
    <3>2. UNCHANGED ledger \/ (ledger = "reserved" /\ ledger' = "consumed")
      BY <2>3 DEF RegisterRun, Bind, ledgerVars
    <3> QED  BY <3>1, <3>2 DEF Moves
  <2>4. ASSUME NEW flag \in BOOLEAN, MarkFailurePending(tok, flag) PROVE Moves
    BY <2>4 DEF MarkFailurePending, ledgerVars, Moves
  <2>5. ASSUME NEW flag \in BOOLEAN,
               RejectInput(tok) \/ FailTask(tok, flag) \/ HandleTerminalFailure(tok)
        PROVE  Moves
    <3>1. ~Terminal /\ status' = "failed"
      BY <2>5 DEF RejectInput, FailTask, HandleTerminalFailure, Finish, FinishWith, CanTransition,
         Terminal
    <3>2. ledger' \in {ledger, ReleaseUnused(activeRun), ReleaseUnused(activeRun')}
      BY <2>5 DEF RejectInput, FailTask, HandleTerminalFailure
    <3> QED  BY <3>1, <3>2 DEF ReleaseUnused, Moves
  <2>6. ASSUME NEW flag \in BOOLEAN, CompleteTask(tok) \/ ApplyRules(tok, flag) PROVE Moves
    <3>1. ~metered /\ ledger' = ledger
      BY <2>6 DEF CompleteTask, ApplyRules, Admitted, ReleaseUnused, ledgerVars
    <3>2. ledger # "reserved"
      BY <3>1 DEF LedgerFollowsRuns
    <3>3. status = "running" /\ status' \in {"succeeded", "failed"}
      BY <2>6 DEF CompleteTask, ApplyRules, Claimed, Finish, FinishWith
    <3> QED  BY <3>1, <3>2, <3>3 DEF Moves, Terminal
  <2>7. ASSUME NEW flag \in BOOLEAN, NEW outcome \in ReceiptStatuses,
               \/ ApplyReceipt(tok, outcome, flag)
               \/ ApplyMatchReceipt(tok, outcome, flag)
               \/ ApplySuggestionReceipt(tok, outcome, flag)
        PROVE  Moves
    <3>1. status \in {"running", "cancelled"}
      BY <2>7 DEF ApplyReceipt, ApplyMatchReceipt, ApplySuggestionReceipt, StoreReceipt,
         ReceiptAccepted, CancellationRequested
    <3>2. \/ status' = status
          \/ status = "running" /\ status' \in {"succeeded", "failed"}
      BY <2>7, <3>1 DEF ApplyReceipt, ApplyMatchReceipt, ApplySuggestionReceipt, FailResource,
         PublishResource, Finish, FinishWith, CanTransition
    <3>3. ledger' = IF ledger = "reserved" THEN "consumed" ELSE ledger
      <4>1. CASE ApplySuggestionReceipt(tok, outcome, flag)
        <5>1. "first" \in audited
          BY <4>1 DEF ApplySuggestionReceipt, StoreReceipt, Started
        <5> QED  BY <4>1, <5>1 DEF ApplySuggestionReceipt, LedgerFollowsRuns, ledgerVars
      <4>2. CASE Consume("first")
        BY <4>2 DEF Consume, Bind, ledgerVars
      <4> QED  BY <2>7, <4>1, <4>2 DEF ApplyReceipt, ApplyMatchReceipt
    <3> QED  BY <3>1, <3>2, <3>3 DEF Moves, Terminal
  <2> QED  BY <1>8, <2>1, <2>2, <2>3, <2>4, <2>5, <2>6, <2>7 DEF WorkerCall
<1> QED  BY <1>1, <1>2, <1>3, <1>4, <1>5, <1>6, <1>7, <1>8 DEF TaskNext, OwnerCall

\* A result is published exactly when the task succeeded.
LEMMA PublishedIffSucceeded ==
  ASSUME TypeOK, ResultIffSucceeded
  PROVE  (IF kind = "file" THEN status = "succeeded" ELSE resource = "done")
           = (status = "succeeded")
BY DEF ResultIffSucceeded

LEMMA ContractInitially == TaskInit => Contract!ContractInit
BY DEF TaskInit, Contract!ContractInit

LEMMA ContractStep ==
  ASSUME TypeOK, TypeOK', NewestClaimOnly, LedgerFollowsRuns, Admitted, ResultIffSucceeded,
         ResultIffSucceeded', [TaskNext]_taskVars
  PROVE  [Contract!ContractNext]_(Contract!contractVars)
<1> DEFINE pub == IF kind = "file" THEN status = "succeeded" ELSE resource = "done"
<1>1. pub = (status = "succeeded") /\ pub' = (status' = "succeeded")
  BY PublishedIffSucceeded DEF TypeOK, ResultIffSucceeded
<1>2. Moves
  BY MoveStep
<1>3. ledger = "released" => Terminal
  BY DEF LedgerFollowsRuns
<1>4. CASE UNCHANGED <<status, ledger>>
  <2>1. pub' = pub
    BY <1>1, <1>4
  <2> QED  BY <1>4, <2>1 DEF Contract!contractVars
<1>5. CASE /\ UNCHANGED status
           /\ ledger = "reserved"
           /\ \/ status # "queued" /\ ledger' = "consumed"
              \/ Terminal /\ ledger' = "released"
  <2>1. pub' = pub
    BY <1>1, <1>5
  <2> QED
    BY <1>5, <2>1 DEF Terminal, TerminalStatuses, Contract!TerminalStatuses, Contract!ContractNext,
       Contract!Spend, Contract!GiveBack
<1>6. CASE status = "queued" /\ status' = "running" /\ ledger' = ledger
  <2>1. pub' = pub
    BY <1>1, <1>6
  <2> QED  BY <1>6, <2>1 DEF Contract!ContractNext, Contract!Start
<1>7. CASE /\ status = "running" /\ status' = "succeeded"
           /\ ledger' = IF ledger = "reserved" THEN "consumed" ELSE ledger
  <2>1. pub' = TRUE
    BY <1>1, <1>7
  <2>2. ledger # "released"
    BY <1>3, <1>7 DEF Terminal, TerminalStatuses
  <2> QED  BY <1>7, <2>1, <2>2 DEF Contract!ContractNext, Contract!Succeed
<1>8. CASE /\ ~Terminal /\ status' \in {"failed", "cancelled"}
           /\ \/ ledger' = ledger
              \/ ledger = "reserved" /\ ledger' \in {"consumed", "released"}
  <2>1. pub' = pub
    BY <1>1, <1>8 DEF Terminal, TerminalStatuses
  <2>2. status \notin Contract!TerminalStatuses
    BY <1>8 DEF Terminal, TerminalStatuses, Contract!TerminalStatuses
  <2>3. ledger' = ledger \/ (ledger = "reserved" /\ ledger' \in {"consumed", "released"})
    BY <1>8
  <2> QED  BY <1>8, <2>1, <2>2, <2>3 DEF Contract!ContractNext, Contract!Stop
<1> QED  BY <1>2, <1>4, <1>5, <1>6, <1>7, <1>8 DEF Moves

\* Whatever the order of the calls, the crashes and the claims, the rows of a task keep
\* the contract its creator relies on: the open system implements TaskContract.
THEOREM ImplementsContract == TaskSpec => KeepsContract
<1>1. TaskInit => Contract!ContractInit
  BY ContractInitially
<1>2. TaskInit => Admitted
  BY DEF TaskInit, Admitted
<1>3. TaskSpec => []Admitted
  BY <1>2, AdmittedStep, PTL DEF TaskSpec
<1>4. /\ TypeOK /\ TypeOK' /\ NewestClaimOnly /\ LedgerFollowsRuns /\ Admitted
      /\ ResultIffSucceeded /\ ResultIffSucceeded' /\ [TaskNext]_taskVars
      => [Contract!ContractNext]_(Contract!contractVars)
  BY ContractStep
<1> QED
  BY <1>1, <1>3, <1>4, TypeCorrect, NewestClaimCorrect, LedgerCorrect, ResultCorrect, PTL
  DEF TaskSpec, KeepsContract, Contract!ContractSpec

-------------------------------------------------------------------------------
(* The event log *)

\* What a step does to the log: nothing, or one event of a task that has not ended, the end
\* of the task, a new attempt, or the first result of a match.
Logged ==
  \/ events' = events /\ attempts' = attempts /\ status' = status
  \/ /\ ~Terminal
     /\ \/ \E st \in TerminalStatuses :
             events' = Append(events, st) /\ attempts' = attempts /\ status' = st
        \/ events' = Append(events, "running") /\ attempts' = attempts + 1 /\ status' = "running"
        \/ events' = Append(events, "match") /\ attempts' = attempts /\ status' = status

LEMMA LogStep ==
  ASSUME TypeOK, [TaskNext]_taskVars
  PROVE  Logged
<1>1. ASSUME NEW st \in TerminalStatuses, NEW dropClaim \in BOOLEAN, FinishWith(st, dropClaim),
             attempts' = attempts
      PROVE  Logged
  BY <1>1 DEF FinishWith, CanTransition, Terminal, Logged
<1>2. ASSUME NEW st \in TerminalStatuses, Finish(st), attempts' = attempts PROVE Logged
  <2>1. (st # "cancelled" \/ ~metered) \in BOOLEAN
    OBVIOUS
  <2> QED  BY <1>1, <1>2, <2>1 DEF Finish
<1>3. {"succeeded", "failed", "cancelled"} = TerminalStatuses
  BY DEF TerminalStatuses
<1>4. CASE UNCHANGED taskVars
  BY <1>4 DEF taskVars, Logged
<1>5. CASE ClaimTask
  <2>1. CASE ClaimExhausted
    BY <2>1, <1>2, <1>3 DEF ClaimExhausted
  <2>2. CASE ClaimFresh
    BY <2>2 DEF ClaimFresh, Claimable, Terminal, TerminalStatuses, Logged
  <2>3. CASE ClaimPending
    BY <2>3 DEF ClaimPending, Logged
  <2> QED  BY <1>5, <2>1, <2>2, <2>3 DEF ClaimTask
<1>6. CASE RequestCancel
  <2>1. (~metered \/ UnstartedDraft) \in BOOLEAN
    OBVIOUS
  <2> QED  BY <1>1, <1>3, <1>6, <2>1 DEF RequestCancel
<1>7. CASE LeaseExpires \/ StartAgain \/ LeaveFailedAnalysis
  BY <1>7 DEF LeaseExpires, StartAgain, LeaveFailedAnalysis, Logged
<1>8. CASE FailExhausted
  BY <1>8 DEF FailExhausted, TerminalStatuses, Logged
<1>9. ASSUME NEW run \in Runs, AcknowledgeCancel(run) PROVE Logged
  BY <1>9 DEF AcknowledgeCancel, Logged
<1>10. ASSUME NEW tok \in Tokens, WorkerCall(tok) PROVE Logged
  <2>1. CASE ReleaseClaim(tok) \/ ReconcileCancelled(tok) \/ FinalizeUnused(tok) \/ BeginProcessing(tok)
    BY <2>1 DEF ReleaseClaim, ReconcileCancelled, FinalizeUnused, BeginProcessing, Logged
  <2>2. ASSUME NEW run \in Runs, RegisterRun(tok, run) PROVE Logged
    BY <2>2 DEF RegisterRun, Logged
  <2>3. ASSUME NEW flag \in BOOLEAN, MarkFailurePending(tok, flag) PROVE Logged
    BY <2>3 DEF MarkFailurePending, Logged
  <2>4. ASSUME NEW flag \in BOOLEAN,
               RejectInput(tok) \/ ApplyRules(tok, flag) \/ CompleteTask(tok)
                 \/ FailTask(tok, flag) \/ HandleTerminalFailure(tok)
        PROVE  Logged
    BY <1>2, <1>3, <2>4 DEF RejectInput, ApplyRules, CompleteTask, FailTask, HandleTerminalFailure
  <2>5. ASSUME NEW flag \in BOOLEAN, NEW outcome \in ReceiptStatuses,
               \/ ApplyReceipt(tok, outcome, flag)
               \/ ApplyMatchReceipt(tok, outcome, flag)
               \/ ApplySuggestionReceipt(tok, outcome, flag)
        PROVE  Logged
    <3>0. attempts' = attempts
      BY <2>5 DEF ApplyReceipt, ApplyMatchReceipt, ApplySuggestionReceipt
    <3>1. CASE FailResource \/ PublishResource
      BY <1>2, <1>3, <3>0, <3>1 DEF FailResource, PublishResource, Logged
    <3>2. CASE ApplyMatchReceipt(tok, outcome, flag) /\ Usable(outcome, flag)
      <4>1. status = "running"
        BY <3>2 DEF ApplyMatchReceipt, StoreReceipt, ReceiptAccepted, Usable
      <4> QED  BY <3>2, <4>1 DEF ApplyMatchReceipt, Terminal, TerminalStatuses, Logged
    <3> QED
      BY <2>5, <3>1, <3>2 DEF ApplyReceipt, ApplyMatchReceipt, ApplySuggestionReceipt
  <2> QED  BY <1>10, <2>1, <2>2, <2>3, <2>4, <2>5 DEF WorkerCall
<1> QED  BY <1>4, <1>5, <1>6, <1>7, <1>8, <1>9, <1>10 DEF TaskNext, OwnerCall

\* No call ends a task twice, revives it or rewrites its event log: a client that
\* replays the log from any sequence number sees the same story.
THEOREM EndsOnceCorrect == TaskSpec => EndsOnce
<1> DEFINE Step == /\ Terminal => status' = status /\ events' = events
                   /\ Len(events) <= Len(events')
                   /\ SubSeq(events', 1, Len(events)) = events
<1>1. ASSUME TypeOK, NewestClaimOnly, LedgerFollowsRuns, Admitted, [TaskNext]_taskVars
      PROVE  Step
  <2>1. Moves
    BY <1>1, MoveStep
  <2>2. Terminal => status' = status
    BY <2>1 DEF Moves, Terminal, TerminalStatuses
  <2>3. events \in Seq(EventStages)
    BY <1>1 DEF TypeOK
  <2>4. CASE events' = events
    BY <2>2, <2>3, <2>4
  <2>5. CASE ~Terminal /\ \E e \in EventStages : events' = Append(events, e)
    BY <2>3, <2>5
  <2>6. events' = events \/ (~Terminal /\ \E e \in EventStages : events' = Append(events, e))
    BY <1>1, LogStep DEF Logged, EventStages
  <2> QED  BY <2>4, <2>5, <2>6
<1>2. TaskInit => Admitted
  BY DEF TaskInit, Admitted
<1>3. TaskSpec => []Admitted
  BY <1>2, AdmittedStep, PTL DEF TaskSpec
<1>4. TypeOK /\ NewestClaimOnly /\ LedgerFollowsRuns /\ Admitted /\ [TaskNext]_taskVars
        => [Step]_taskVars
  BY <1>1
<1> QED
  BY <1>3, <1>4, TypeCorrect, NewestClaimCorrect, LedgerCorrect, PTL DEF TaskSpec, EndsOnce

\* The log of a task that has not ended holds no end.
LogInv ==
  /\ EventLogTellsTheRow
  /\ ~Terminal => \A i \in DOMAIN events : events[i] \notin TerminalStatuses

RunningAt(log) == {i \in DOMAIN log : log[i] = "running"}

\* Appending an event adds its place to the running ones exactly if it is one.
LEMMA RunningCounted ==
  ASSUME NEW log \in Seq(EventStages), NEW e \in EventStages
  PROVE  Cardinality(RunningAt(Append(log, e)))
           = Cardinality(RunningAt(log)) + (IF e = "running" THEN 1 ELSE 0)
<1>1. Len(log) \in Nat /\ DOMAIN log = 1..Len(log)
  OBVIOUS
<1>2. IsFiniteSet(RunningAt(log)) /\ Cardinality(RunningAt(log)) \in Nat
  <2>1. RunningAt(log) \in SUBSET (1..Len(log))
    BY <1>1 DEF RunningAt
  <2>2. IsFiniteSet(1..Len(log))
    BY <1>1, FS_Interval
  <2>3. IsFiniteSet(RunningAt(log))
    BY <2>1, <2>2, FS_Subset
  <2> QED
    BY <2>3, FS_CardinalityType
<1>3. /\ DOMAIN Append(log, e) = 1..(Len(log) + 1) /\ Append(log, e)[Len(log) + 1] = e
      /\ \A i \in 1..Len(log) : Append(log, e)[i] = log[i]
  OBVIOUS
<1>4. Len(log) + 1 \notin RunningAt(log)
  BY <1>1 DEF RunningAt
<1>5. 1..(Len(log) + 1) = (1..Len(log)) \cup {Len(log) + 1}
  BY <1>1
<1>6. CASE e = "running"
  <2>1. RunningAt(Append(log, e)) = RunningAt(log) \cup {Len(log) + 1}
    BY <1>1, <1>3, <1>5, <1>6 DEF RunningAt
  <2> QED
    BY <1>2, <1>4, <1>6, <2>1, FS_AddElement
<1>7. CASE e # "running"
  <2>1. RunningAt(Append(log, e)) = RunningAt(log)
    BY <1>1, <1>3, <1>5, <1>7 DEF RunningAt
  <2> QED
    BY <1>2, <1>7, <2>1
<1> QED
  BY <1>6, <1>7

LEMMA LogInvStep ==
  ASSUME TypeOK, TypeOK', LogInv, [TaskNext]_taskVars
  PROVE  LogInv'
<1>1. Logged
  BY LogStep
<1>2. events \in Seq(EventStages) /\ attempts \in Nat /\ Cardinality(RunningAt(events)) = attempts
  BY AttemptsAssumption DEF TypeOK, LogInv, EventLogTellsTheRow, RunningAt
<1>3. CASE events' = events /\ attempts' = attempts /\ status' = status
  BY <1>3 DEF LogInv, EventLogTellsTheRow, Terminal
<1>4. ASSUME NEW e \in EventStages, ~Terminal, events' = Append(events, e),
             attempts' = attempts + (IF e = "running" THEN 1 ELSE 0),
             IF e \in TerminalStatuses THEN status' = e ELSE status' \notin TerminalStatuses
      PROVE  LogInv'
  <2>1. /\ Len(events) \in Nat /\ DOMAIN events = 1..Len(events) /\ Len(events') = Len(events) + 1
        /\ DOMAIN events' = 1..(Len(events) + 1) /\ events'[Len(events) + 1] = e
        /\ \A i \in 1..Len(events) : events'[i] = events[i]
    BY <1>2, <1>4
  <2>2. events # <<>> /\ 1 \in 1..Len(events) /\ events[1] = "queued"
    BY <1>2, <2>1 DEF LogInv, EventLogTellsTheRow
  <2>3. events' # <<>> /\ events'[1] = "queued"
    BY <2>1, <2>2
  <2>4. Cardinality(RunningAt(events')) = attempts'
    BY <1>2, <1>4, RunningCounted
  <2>5. \A i \in 1..(Len(events) + 1) : i \in 1..Len(events) \/ i = Len(events) + 1
    BY <2>1
  <2>6. \A i \in 1..Len(events) : events[i] \notin TerminalStatuses
    BY <1>4, <2>1 DEF LogInv
  <2>7. \A i \in DOMAIN events' : events'[i] \in TerminalStatuses => i = Len(events')
    BY <2>1, <2>5, <2>6
  <2>8. Terminal' => events'[Len(events')] = status'
    BY <1>4, <2>1 DEF Terminal
  <2>9. ~Terminal' => \A i \in DOMAIN events' : events'[i] \notin TerminalStatuses
    BY <1>4, <2>1, <2>5, <2>6 DEF Terminal
  <2> QED
    BY <2>3, <2>4, <2>7, <2>8, <2>9 DEF LogInv, EventLogTellsTheRow, RunningAt
<1>5. CASE ~Terminal /\ \E st \in TerminalStatuses :
             events' = Append(events, st) /\ attempts' = attempts /\ status' = st
  BY <1>2, <1>4, <1>5 DEF EventStages, TerminalStatuses
<1>6. CASE ~Terminal /\ events' = Append(events, "running") /\ attempts' = attempts + 1 /\ status' = "running"
  BY <1>2, <1>4, <1>6 DEF EventStages, TerminalStatuses
<1>7. CASE ~Terminal /\ events' = Append(events, "match") /\ attempts' = attempts /\ status' = status
  BY <1>2, <1>4, <1>7 DEF EventStages, TerminalStatuses, Terminal
<1> QED
  BY <1>1, <1>3, <1>5, <1>6, <1>7 DEF Logged

\* The event log a client replays tells the story of the row: one running event for each
\* attempt, and the end of the task last and only once.
THEOREM EventLogCorrect == TaskSpec => []EventLogTellsTheRow
<1>1. TaskInit => LogInv
  <2>1. SUFFICES ASSUME TaskInit
                 PROVE  LogInv
    OBVIOUS
  <2>2. events = <<"queued">> /\ attempts = 0 /\ status = "queued"
    BY <2>1 DEF TaskInit
  <2>3. DOMAIN events = {1} /\ events[1] = "queued" /\ events # <<>>
    BY <2>2
  <2>4. {i \in DOMAIN events : events[i] = "running"} = {}
    BY <2>3
  <2>5. Cardinality({i \in DOMAIN events : events[i] = "running"}) = attempts
    BY <2>2, <2>4, FS_EmptySet
  <2> QED
    BY <2>2, <2>3, <2>5 DEF LogInv, EventLogTellsTheRow, Terminal, TerminalStatuses
<1>2. TypeOK /\ TypeOK' /\ LogInv /\ [TaskNext]_taskVars => LogInv'
  BY LogInvStep
<1>3. LogInv => EventLogTellsTheRow
  BY DEF LogInv
<1> QED
  BY <1>1, <1>2, <1>3, TypeCorrect, PTL DEF TaskSpec

-------------------------------------------------------------------------------
(* The input snapshot *)

\* Only a draft is ever marked draft_processing, the stage that keeps a snapshot.
DraftStage == stage = "draft_processing" => kind = "draft"

LEMMA DraftStageStep ==
  ASSUME DraftStage, [TaskNext]_taskVars
  PROVE  DraftStage'
<1> USE DEF TerminalStatuses, PendingStages
<1>1. ASSUME kind' = kind, stage' \in {stage, "queued", "running", "parse_processing", "match"}
                                        \union PendingStages \union TerminalStatuses
      PROVE  DraftStage'
  BY <1>1 DEF DraftStage
<1>2. ASSUME NEW st \in TerminalStatuses, NEW dropClaim \in BOOLEAN, FinishWith(st, dropClaim),
             kind' = kind
      PROVE  DraftStage'
  BY <1>1, <1>2 DEF FinishWith
<1>3. CASE UNCHANGED taskVars
  BY <1>1, <1>3 DEF taskVars
<1>4. CASE ClaimTask \/ LeaseExpires \/ FailExhausted
  BY <1>1, <1>4 DEF ClaimTask, ClaimExhausted, ClaimFresh, ClaimPending, LeaseExpires,
                    FailExhausted, Finish, FinishWith, jobVars
<1>5. CASE OwnerCall
  BY <1>1, <1>5 DEF OwnerCall, RequestCancel, StartAgain, LeaveFailedAnalysis, FinishWith, jobVars
<1>6. ASSUME NEW run \in Runs, AcknowledgeCancel(run) PROVE DraftStage'
  BY <1>1, <1>6 DEF AcknowledgeCancel, jobVars
<1>7. ASSUME NEW tok \in Tokens, WorkerCall(tok) PROVE DraftStage'
  <2>1. CASE ReleaseClaim(tok) \/ ReconcileCancelled(tok) \/ FinalizeUnused(tok)
               \/ (\E run \in Runs : RegisterRun(tok, run))
    BY <1>1, <2>1 DEF ReleaseClaim, ReconcileCancelled, FinalizeUnused, RegisterRun, jobVars
  <2>2. CASE BeginProcessing(tok)
    BY <2>2 DEF BeginProcessing, DraftStage, jobVars
  <2>3. ASSUME NEW flag \in BOOLEAN, MarkFailurePending(tok, flag) PROVE DraftStage'
    BY <1>1, <2>3 DEF MarkFailurePending, jobVars
  <2>4. ASSUME NEW flag \in BOOLEAN,
               RejectInput(tok) \/ ApplyRules(tok, flag) \/ CompleteTask(tok)
                 \/ FailTask(tok, flag) \/ HandleTerminalFailure(tok)
        PROVE  DraftStage'
    BY <1>1, <2>4 DEF RejectInput, ApplyRules, CompleteTask, FailTask, HandleTerminalFailure,
                      Finish, FinishWith, jobVars
  <2>5. ASSUME NEW flag \in BOOLEAN, NEW outcome \in ReceiptStatuses,
               \/ ApplyReceipt(tok, outcome, flag)
               \/ ApplyMatchReceipt(tok, outcome, flag)
               \/ ApplySuggestionReceipt(tok, outcome, flag)
        PROVE  DraftStage'
    BY <1>1, <2>5 DEF ApplyReceipt, ApplyMatchReceipt, ApplySuggestionReceipt, FailResource,
                      PublishResource, Finish, FinishWith, jobVars
  <2> QED  BY <1>7, <2>1, <2>2, <2>3, <2>4, <2>5 DEF WorkerCall
<1> QED
  BY <1>3, <1>4, <1>5, <1>6, <1>7 DEF TaskNext

SnapshotInv ==
  /\ SnapshotScrubbed
  /\ snapshot => kind \in {"draft", "parse", "analysis"}

\* A step that ends the task while the snapshot is kept only for the kinds and
\* statuses KeepsSnapshot names.
LEMMA SnapshotAtEnd ==
  ASSUME SnapshotInv, DraftStage, ResultIffSucceeded, ~Terminal, kind' = kind,
         resource' \in {resource, "open", "done"},
         NEW st \in TerminalStatuses, NEW dropClaim \in BOOLEAN, FinishWith(st, dropClaim)
  PROVE  SnapshotInv'
<1>1. snapshot' => snapshot /\ KeepsSnapshot(st)
  <2>1. snapshot' = (snapshot /\ KeepsSnapshot(st))
    BY DEF FinishWith
  <2> QED  BY <2>1
<1>2. status' = st
  BY DEF FinishWith
<1>3. kind \in {"draft", "parse", "analysis"} => resource' # "superseded"
  BY DEF ResultIffSucceeded
<1> QED
  BY <1>1, <1>2, <1>3 DEF SnapshotInv, SnapshotScrubbed, KeepsSnapshot, DraftStage, Terminal

LEMMA SnapshotStep ==
  ASSUME TypeOK, ResultIffSucceeded, DraftStage, SnapshotInv, [TaskNext]_taskVars
  PROVE  SnapshotInv'
<1> USE DEF TerminalStatuses
<1>1. ASSUME UNCHANGED <<kind, snapshot, resource>>, status' = status \/ ~Terminal'
      PROVE  SnapshotInv'
  BY <1>1 DEF SnapshotInv, SnapshotScrubbed, Terminal
<1>2. ASSUME snapshot' = FALSE PROVE SnapshotInv'
  BY <1>2 DEF SnapshotInv, SnapshotScrubbed
<1>3. ASSUME NEW st \in TerminalStatuses, NEW dropClaim \in BOOLEAN, FinishWith(st, dropClaim),
             kind' = kind, resource' \in {resource, "open", "done"}
      PROVE  SnapshotInv'
  BY <1>3, SnapshotAtEnd, EndIsTerminal
<1>4. CASE UNCHANGED taskVars
  BY <1>1, <1>4 DEF taskVars
<1>5. CASE ClaimTask
  <2>1. CASE ClaimExhausted
    <3>1. FinishWith("failed", TRUE)
      BY <2>1 DEF ClaimExhausted, Finish
    <3> QED  BY <1>3, <2>1, <3>1 DEF ClaimExhausted, jobVars
  <2>2. CASE ClaimFresh \/ ClaimPending
    BY <1>1, <2>2 DEF ClaimFresh, ClaimPending, Claimable, Terminal, jobVars
  <2> QED  BY <1>5, <2>1, <2>2 DEF ClaimTask
<1>6. CASE LeaseExpires
  BY <1>1, <1>6 DEF LeaseExpires, jobVars
<1>7. CASE RequestCancel
  <2>1. PICK dropClaim \in BOOLEAN : FinishWith("cancelled", dropClaim)
    <3>1. (~metered \/ UnstartedDraft) \in BOOLEAN
      OBVIOUS
    <3> QED  BY <1>7, <3>1 DEF RequestCancel
  <2>2. resource' \in {resource, "open", "done"} /\ kind' = kind
    BY <1>7 DEF RequestCancel, RestoredDraft, RestoredParse, jobVars
  <2> QED  BY <1>3, <2>1, <2>2
<1>8. CASE StartAgain
  <2>1. UNCHANGED <<kind, status, snapshot>> /\ kind # "analysis"
    BY <1>8 DEF StartAgain, Restartable, jobVars
  <2> QED  BY <2>1 DEF SnapshotInv, SnapshotScrubbed, Terminal
<1>9. CASE LeaveFailedAnalysis
  BY <1>2, <1>9 DEF LeaveFailedAnalysis
<1>10. CASE FailExhausted
  <2>1. snapshot' = (snapshot /\ kind \notin {"draft", "parse"})
    BY <1>10 DEF FailExhausted
  <2>2. snapshot' => kind = "analysis"
    BY <2>1 DEF SnapshotInv
  <2>3. kind' = kind /\ status' = "failed" /\ (kind = "analysis" => resource' # "superseded")
    BY <1>10 DEF FailExhausted, ResultIffSucceeded, jobVars
  <2> QED  BY <2>2, <2>3 DEF SnapshotInv, SnapshotScrubbed
<1>11. ASSUME NEW run \in Runs, AcknowledgeCancel(run) PROVE SnapshotInv'
  BY <1>1, <1>11 DEF AcknowledgeCancel, jobVars
<1>12. ASSUME NEW tok \in Tokens, WorkerCall(tok) PROVE SnapshotInv'
  <2>1. CASE ReleaseClaim(tok) \/ FinalizeUnused(tok) \/ BeginProcessing(tok)
    BY <1>1, <2>1 DEF ReleaseClaim, FinalizeUnused, BeginProcessing, jobVars
  <2>2. CASE ReconcileCancelled(tok)
    BY <1>2, <2>2 DEF ReconcileCancelled
  <2>3. ASSUME NEW run \in Runs, RegisterRun(tok, run) PROVE SnapshotInv'
    BY <1>1, <2>3 DEF RegisterRun, jobVars
  <2>4. ASSUME NEW flag \in BOOLEAN, MarkFailurePending(tok, flag) PROVE SnapshotInv'
    BY <1>1, <2>4 DEF MarkFailurePending, jobVars
  <2>5. ASSUME NEW flag \in BOOLEAN,
               RejectInput(tok) \/ ApplyRules(tok, flag) \/ CompleteTask(tok)
                 \/ FailTask(tok, flag) \/ HandleTerminalFailure(tok)
        PROVE  SnapshotInv'
    <3>1. PICK st \in {"failed", "succeeded"} : FinishWith(st, TRUE)
      BY <2>5 DEF RejectInput, ApplyRules, CompleteTask, FailTask, HandleTerminalFailure, Finish
    <3>2. kind' = kind /\ resource' \in {resource, "open", "done"}
      BY <2>5 DEF RejectInput, ApplyRules, CompleteTask, FailTask, HandleTerminalFailure, jobVars
    <3> QED  BY <1>3, <3>1, <3>2
  <2>6. ASSUME NEW flag \in BOOLEAN, NEW outcome \in ReceiptStatuses,
               \/ ApplyReceipt(tok, outcome, flag)
               \/ ApplyMatchReceipt(tok, outcome, flag)
               \/ ApplySuggestionReceipt(tok, outcome, flag)
        PROVE  SnapshotInv'
    <3>1. kind' = kind
      BY <2>6 DEF ApplyReceipt, ApplyMatchReceipt, ApplySuggestionReceipt, jobVars
    <3>2. CASE FailResource /\ status = "cancelled"
      <4>1. snapshot' = (snapshot /\ kind # "draft")
        BY <3>2 DEF FailResource
      <4>2. snapshot' => snapshot
        BY <4>1
      <4>3. status' = status /\ resource' = "open"
        BY <3>2 DEF FailResource
      <4> QED  BY <3>1, <3>2, <4>2, <4>3 DEF SnapshotInv, SnapshotScrubbed, Terminal
    <3>3. CASE (FailResource /\ status # "cancelled") \/ PublishResource
      <4>1. PICK st \in {"failed", "succeeded"} : FinishWith(st, TRUE)
        BY <3>3 DEF FailResource, PublishResource, Finish
      <4>2. resource' \in {resource, "open", "done"}
        BY <3>3 DEF FailResource, PublishResource
      <4> QED  BY <1>3, <3>1, <4>1, <4>2
    <3>4. CASE ApplyMatchReceipt(tok, outcome, flag) /\ Usable(outcome, flag)
      BY <1>1, <3>1, <3>4 DEF ApplyMatchReceipt
    <3> QED
      BY <2>6, <3>2, <3>3, <3>4 DEF ApplyReceipt, ApplyMatchReceipt, ApplySuggestionReceipt
  <2> QED  BY <1>12, <2>1, <2>2, <2>3, <2>4, <2>5, <2>6 DEF WorkerCall
<1> QED
  BY <1>4, <1>5, <1>6, <1>7, <1>8, <1>9, <1>10, <1>11, <1>12 DEF TaskNext, OwnerCall

\* The personal text copied into the outbox payload is gone when the task is over,
\* but for the cases the property names (tasks/service.py, _finish).
THEOREM SnapshotCorrect == TaskSpec => []SnapshotScrubbed
<1>1. TaskInit => SnapshotInv
  <2> SUFFICES ASSUME TaskInit PROVE SnapshotInv
    OBVIOUS
  <2>1. ~Terminal
    BY DEF TaskInit, Terminal, TerminalStatuses
  <2>2. snapshot = (kind \in {"draft", "parse", "analysis"})
    BY DEF TaskInit
  <2>3. snapshot => kind \in {"draft", "parse", "analysis"}
    BY <2>2
  <2> QED  BY <2>1, <2>3 DEF SnapshotInv, SnapshotScrubbed
<1>2. TypeOK /\ ResultIffSucceeded /\ DraftStage /\ SnapshotInv /\ [TaskNext]_taskVars
        => SnapshotInv'
  BY SnapshotStep
<1>3. SnapshotInv => SnapshotScrubbed
  BY DEF SnapshotInv
<1>4. TaskInit => DraftStage
  BY DEF TaskInit, DraftStage
<1>5. DraftStage /\ [TaskNext]_taskVars => DraftStage'
  BY DraftStageStep
<1> QED  BY <1>1, <1>2, <1>3, <1>4, <1>5, TypeCorrect, ResultCorrect, PTL DEF TaskSpec

\* What the rows of an ended task hold is told by how it ended (tasks/service.py: finish,
\* apply_ai_receipt, _scrub_outbox_snapshot).
THEOREM OutcomeCorrect == TaskSpec => []RowTellsOutcome
<1>1. TypeOK /\ ResultIffSucceeded /\ SnapshotScrubbed => RowTellsOutcome
  BY DEF RowTellsOutcome
<1> QED  BY <1>1, TypeCorrect, ResultCorrect, SnapshotCorrect, PTL

\* An ended task, its log and the row it worked on stay as they are.
THEOREM EndsForGoodCorrect == TaskSpec => EndsForGood
  BY EndsOnceCorrect, ResultFinal DEF EndsForGood


===============================================================================
