------------------------------- MODULE Matching -------------------------------
(***************************************************************************)
(* Match analyses of one resume against one parsed job                     *)
(* (matching/service.py, jobs/service.py, the admission of AI tasks in     *)
(* tasks/service.py).  An analysis is requested for a version of the       *)
(* resume, waits for a worker, runs two workflows that take minutes and    *)
(* publishes what they found; meanwhile the owner edits the requirements,  *)
(* the facts and the resume, cancels, or asks again, and a worker that     *)
(* lost its claim goes on.  Each action is one transaction; requests of    *)
(* the owner are serialized on the row of the user (Idempotency), the      *)
(* admissions of all owners on one advisory lock.                          *)
(*                                                                         *)
(* The task of an analysis is the row TaskService describes, reduced to    *)
(* its claim, its end, its run and its reservation.                        *)
(***************************************************************************)
EXTENDS Naturals, Sequences, FiniteSets, TaskStates

CONSTANTS
  Reqs,                 \* the requirements the job was parsed into
  Facts, Values,        \* the owner's facts and the values they may have
  PerDay, Concurrent,   \* AI_TASKS_PER_DAY, AI_TASKS_CONCURRENT
  MaxAnalyses, MaxClaims, MaxVersions,   \* bounds on rows and on claims of a task
  MaxDisturbances       \* bound on edits, expired leases and midnights together

ASSUME LimitsAssumption == {PerDay, Concurrent} \subseteq Nat \ {0}
ASSUME SizesAssumption  ==
  {MaxAnalyses, MaxClaims, MaxVersions, MaxDisturbances} \subseteq Nat /\ MaxVersions > 0

VARIABLES
  confirmed,   \* the requirements with JdRequirement.confirmed
  facts,       \* Fact rows: [value, confirmed]; every fact has a source
  base,        \* the versions of the base resume, each the set of its <<fact, value>> links
  target,      \* the versions of the job's targeted resume, none before the first analysis
  tasks,       \* their tasks, [metered, status, claim, claims, lease, run, ledger, today, by]
  analyses,    \* MatchAnalysis rows, [task, version, mode, input, status, shown]
  work,        \* work[<<a, c>>]: where the worker that made claim c of analysis a is
  disturbances

inputVars == <<confirmed, facts, base, target>>
vars      == <<confirmed, facts, base, target, tasks, analyses, work, disturbances>>

Steps == {"none", "context", "changed", "rules", "match", "matched", "replayed",
          "matchCancelled", "suggest", "suggested", "suggestCancelled"}
Runs  == {"match", "suggest"}
Modes == {"model", "rule_fallback"}

Versions == {"base", "target"} \X (1..MaxVersions)

\* MatchAnalysis: input stands for the hash of what _match_payload makes.
AnalysisRow ==
  [task : 1..MaxAnalyses, version : Versions, mode : Modes,
   input : [version : Versions, requirements : SUBSET Reqs, evidence : SUBSET (Facts \X Values)],
   status : {"queued", "processing", "succeeded", "failed"}, shown : BOOLEAN]

\* Task, with the state of its UsageLedger row; run is active_ai_run_id, by is who ended
\* it.  A cancelled task with a run has claim 0 only once its cancel is acknowledged.
TaskRow ==
  [metered : BOOLEAN, status : Statuses, claim : 0..MaxClaims, claims : 0..MaxClaims,
   lease : {"none", "live", "expired"}, run : Runs \cup {"none"},
   ledger : {"none", "reserved", "consumed", "released"}, today : BOOLEAN,
   by : {"nobody", "owner", "dispatcher", "claim", "operation"}]

-------------------------------------------------------------------------------
(* What an analysis is made from *)

Links(version) == IF version[1] = "base" THEN base[version[2]] ELSE target[version[2]]

\* _evidence_projection: the links of a version whose fact is still what was linked.
Evidence(version) ==
  {l \in Links(version) : facts[l[1]] = [value |-> l[2], confirmed |-> TRUE]}

\* _match_payload, of which _workflow_input_hash is a hash.
Payload(version) ==
  [version |-> version, requirements |-> confirmed, evidence |-> Evidence(version)]

ConfirmedFacts == {<<f, facts[f].value>> : f \in {g \in Facts : facts[g].confirmed}}

Disturb == disturbances < MaxDisturbances /\ disturbances' = disturbances + 1

Edit == Disturb /\ UNCHANGED <<tasks, analyses, work>>

\* update_requirement: the owner confirms a requirement or takes that back.
UpdateRequirement(r) ==
  /\ Edit
  /\ confirmed' = IF r \in confirmed THEN confirmed \ {r} ELSE confirmed \cup {r}
  /\ UNCHANGED <<facts, base, target>>

\* update_fact with another value, and set_status (ResumeVersions).
ChangeFact(f) ==
  /\ Edit
  /\ \/ \E value \in Values \ {facts[f].value} :
          facts' = [facts EXCEPT ![f] = [value |-> value, confirmed |-> FALSE]]
     \/ facts' = [facts EXCEPT ![f].confirmed = ~@]
  /\ UNCHANGED <<confirmed, base, target>>

\* A new version of either resume, linked to facts that are confirmed now (ResumeVersions).
SaveVersion ==
  /\ Edit
  /\ \/ Len(base) < MaxVersions /\ base' = Append(base, ConfirmedFacts) /\ UNCHANGED target
     \/ Len(target) \in 1..(MaxVersions - 1)
        /\ target' = Append(target, ConfirmedFacts) /\ UNCHANGED base
  /\ UNCHANGED <<confirmed, facts>>

-------------------------------------------------------------------------------
(* Admission *)

\* Fault: a reservation that no run has consumed does not count.
ConsumedOnly == {"consumed"}

\* The states of a ledger row that count against the day.
Charged == {"reserved", "consumed"}

ChargedToday(ts) ==
  {i \in DOMAIN ts : ts[i].metered /\ ts[i].today /\ ts[i].ledger \in {"reserved", "consumed"}}
Live(ts) == {i \in DOMAIN ts : ts[i].metered /\ ts[i].status \notin TerminalStatuses}

\* evaluate_admission_usage.  Every caller admits a task at cost 0, so the global cost,
\* which is the sum of these, never reaches a limit.
WithinLimits(daily, running) == daily < PerDay /\ running < Concurrent

\* _admit_usage
Admitted ==
  WithinLimits(Cardinality({i \in DOMAIN tasks : tasks[i].metered /\ tasks[i].today
                                                   /\ tasks[i].ledger \in Charged}),
               Cardinality(Live(tasks)))

NewTask(metered) ==
  [metered |-> metered, status |-> "queued", claim |-> 0, claims |-> 0,
   lease |-> "none", run |-> "none", ledger |-> IF metered THEN "reserved" ELSE "none", today |-> TRUE,
   by |-> "nobody"]

\* Midnight: the ledger rows of the day before count no longer.
NewDay ==
  /\ Disturb
  /\ tasks' = [i \in DOMAIN tasks |-> [tasks[i] EXCEPT !.today = FALSE]]
  /\ UNCHANGED <<inputVars, analyses, work>>

-------------------------------------------------------------------------------
(* create *)

\* _canonical_targeted_resume: the one targeted resume of this base resume and job.
CanonicalTarget == IF target = <<>> THEN {} ELSE {<<"target", Len(target)>>}

\* _target_version: a version of the targeted resume stands for itself; a base version
\* for the head of the targeted resume, which the first analysis seeds from it.
TargetVersion(source) ==
  CASE source[1] = "target" -> [version |-> source, target |-> target]
    [] source[1] = "base" /\ CanonicalTarget # {} ->
         [version |-> CHOOSE v \in CanonicalTarget : TRUE, target |-> target]
    [] OTHER -> [version |-> <<"target", 1>>, target |-> <<base[source[2]]>>]

\* create: RESOURCE_NOT_FOUND, JOB_REQUIREMENTS_NOT_CONFIRMED and the admission refuse.
Create(source, mode) ==
  /\ Len(analyses) < MaxAnalyses
  /\ confirmed # {}
  /\ mode = "model" => Admitted
  /\ UNCHANGED <<confirmed, facts, base, work, disturbances>>
  /\ tasks' = Append(tasks, NewTask(mode = "model"))
  /\ \E chosen \in {TargetVersion(source)} :
       /\ target' = chosen.target
       /\ analyses' = Append(analyses,
            [task |-> Len(tasks) + 1, version |-> chosen.version, mode |-> mode,
             input |-> Payload(chosen.version)', status |-> "queued", shown |-> FALSE])

-------------------------------------------------------------------------------
(* The task of an analysis *)

Task(a)        == tasks[analyses[a].task]
At(a, c, step) == work[<<a, c>>] = step
Step(a, c, step) == work' = [work EXCEPT ![<<a, c>>] = step]

\* The claim this worker made is the one the row has, and its lease runs.
Claimed(a, c) == Task(a).status = "running" /\ Task(a).claim = c /\ Task(a).lease = "live"

SetTask(a, row) == tasks' = [tasks EXCEPT ![analyses[a].task] = row]

\* The end of a task; a reservation no run has used is released where the code says so.
Ended(task, status, by, release) ==
  [task EXCEPT
     !.status = status, !.by = by,
     !.claim = IF status = "cancelled" /\ task.metered THEN @ ELSE 0,
     !.lease = IF status = "cancelled" /\ task.metered THEN @ ELSE "none",
     !.ledger = IF release /\ @ = "reserved" THEN "released" ELSE @]

\* settle_ai_run_in_session, of a running task.
Settled(task, run) == [task EXCEPT !.run = IF @ = run THEN "none" ELSE @]

Claimable(a) == Task(a).status = "queued" \/ (Task(a).status = "running" /\ Task(a).lease # "live")

Claim(a) ==
  /\ Claimable(a)
  /\ \/ /\ Task(a).claims < MaxClaims
        /\ LET c == Task(a).claims + 1 IN
           /\ SetTask(a, [Task(a) EXCEPT !.status = "running", !.claim = c, !.claims = c,
                                         !.lease = "live"])
           /\ Step(a, c, "context")
     \/ /\ Task(a).claims = MaxClaims
        /\ SetTask(a, Ended(Task(a), "failed", "claim", FALSE))
        /\ UNCHANGED work
  /\ UNCHANGED <<inputVars, analyses, disturbances>>

LeaseExpires(a) ==
  /\ Task(a).status = "running" /\ Task(a).lease = "live"
  /\ Disturb
  /\ SetTask(a, [Task(a) EXCEPT !.lease = "expired"])
  /\ UNCHANGED <<inputVars, analyses, work>>

\* request_cancel knows nothing of the analysis.
Cancel(a) ==
  /\ Task(a).status \notin TerminalStatuses
  /\ SetTask(a, Ended(Task(a), "cancelled", "owner", Task(a).claims = 0))
  /\ UNCHANGED <<inputVars, analyses, work, disturbances>>

\* _fail_exhausted_task, which frees the analysis of an answer but not that of a match.
OutboxExhausted(a) ==
  /\ Task(a).status \notin TerminalStatuses
  /\ SetTask(a, Ended(Task(a), "failed", "dispatcher", TRUE))
  /\ UNCHANGED <<inputVars, analyses, work, disturbances>>

-------------------------------------------------------------------------------
(* process_match *)

SetAnalysis(a, status, shown) ==
  analyses' = [analyses EXCEPT ![a].status = status, ![a].shown = shown]

\* _processing_context: RESOURCE_NOT_FOUND, JOB_REQUIREMENTS_NOT_CONFIRMED
ContextReady(a) == analyses[a].version[2] \in DOMAIN target /\ confirmed # {}

\* The check of the claim, and the comparison of the input.  A task that has the run of
\* the suggestions posts the match again without registering it.
ReadContext(a, c) ==
  /\ At(a, c, "context")
  /\ Claimed(a, c) /\ ContextReady(a)
  /\ \/ /\ Payload(analyses[a].version) # analyses[a].input
        /\ Step(a, c, "changed")
     \/ /\ Payload(analyses[a].version) = analyses[a].input
        /\ \/ analyses[a].mode = "rule_fallback" /\ Step(a, c, "rules")
           \/ /\ analyses[a].mode = "model"
              /\ Step(a, c, IF Task(a).run = "suggest" THEN "replayed" ELSE "match")
           \/ analyses[a].mode = "model" /\ Step(a, c, "changed")   \* no AI client here
  /\ UNCHANGED <<inputVars, tasks, analyses, disturbances>>

\* _delete_public_rows, and the status: what was stored of it is shown no more.
FailAnalysis(a) == SetAnalysis(a, "failed", FALSE)

\* _fail_without_receipt
RejectInput(a, c) ==
  /\ At(a, c, "changed")
  /\ Claimed(a, c)
  /\ FailAnalysis(a)
  /\ SetTask(a, Ended(Task(a), "failed", "operation", TRUE))
  /\ Step(a, c, "none")
  /\ UNCHANGED <<inputVars, disturbances>>

\* _fail_in_session: the public rows go, and the task, given as it is by then, fails
\* unless it is cancelled.
FailInSession(a, task) ==
  /\ FailAnalysis(a)
  /\ IF task.status = "cancelled"
     THEN UNCHANGED tasks
     ELSE SetTask(a, Ended(task, "failed", "operation", FALSE))

\* Fault: what was read before the runs is published.
NotLookedAtAgain(a) == TRUE

\* _locked_publication_state: the rows are locked and hashed again.
StillCurrent(a) ==
  confirmed # {} /\ Payload(analyses[a].version) = analyses[a].input

\* Fault: the result is published, the end of the task left to the executor.
PublishAlone(a, task) == SetAnalysis(a, "succeeded", TRUE) /\ UNCHANGED tasks

\* _publish_in_session, with the end of the task in the same transaction.
PublishRows(a, task) ==
  /\ SetAnalysis(a, "succeeded", TRUE)
  /\ SetTask(a, Ended(task, "succeeded", "operation", FALSE))

PublishOrFail(a, task) ==
  IF StillCurrent(a) THEN PublishRows(a, task) ELSE FailInSession(a, task)

ApplyRules(a, c) ==
  /\ At(a, c, "rules")
  /\ Claimed(a, c)
  /\ PublishOrFail(a, Task(a))
  /\ Step(a, c, "none")
  /\ UNCHANGED <<inputVars, disturbances>>

\* register_ai_run, for a run that was posted: it consumes the reservation.  A cancelled
\* task still takes the run of its last worker, which then goes on to cancel it.
StartRun(a, c) ==
  /\ \E run \in Runs :
       /\ At(a, c, run)
       /\ Task(a).run \in {"none", run}
       /\ SetTask(a, [Task(a) EXCEPT !.run = run, !.ledger = "consumed"])
       /\ Step(a, c, IF run = "match" THEN "matched" ELSE "suggested")
  /\ Claimed(a, c) \/ (Task(a).status = "cancelled" /\ Task(a).claim = c)
  /\ Task(a).ledger # "released"
  /\ UNCHANGED <<inputVars, analyses, disturbances>>

\* Fault: a receipt is taken whoever holds the claim.
AnyClaim(a, c) == Task(a).status = "running"

\* ai_receipt_task_in_session: of a running task, the claim but not the lease.
ReceiptTaken(a, c) == Task(a).status = "running" /\ Task(a).claim = c

\* The match receipt: stored, and the lease renewed for the suggestions.
ApplyMatches(a, c, usable) ==
  /\ At(a, c, "matched") \/ At(a, c, "replayed")
  /\ ReceiptTaken(a, c)
  /\ IF usable
     THEN /\ SetAnalysis(a, "processing", FALSE)
          /\ SetTask(a, [Settled(Task(a), "match") EXCEPT !.lease = "live"])
          /\ Step(a, c, "suggest")
     ELSE FailInSession(a, Settled(Task(a), "match")) /\ Step(a, c, "none")
  /\ UNCHANGED <<inputVars, disturbances>>

\* The suggestions receipt: both results are published, or neither.
ApplySuggestions(a, c, usable) ==
  /\ At(a, c, "suggested")
  /\ ReceiptTaken(a, c)
  /\ IF usable THEN PublishOrFail(a, Settled(Task(a), "suggest"))
              ELSE FailInSession(a, Settled(Task(a), "suggest"))
  /\ Step(a, c, "none")
  /\ UNCHANGED <<inputVars, disturbances>>

\* settle_ai_run: it names the run and not the claim, so that whichever worker sees the
\* run cancelled first ends the claim of a cancelled task.
Acknowledged(task) ==
  CASE task.status = "running"   -> [task EXCEPT !.run = "none"]
    [] task.status = "cancelled" -> [task EXCEPT !.claim = 0, !.lease = "none"]
    [] OTHER                     -> task

\* The client sees the run cancelled and acknowledges that, unless it never registered
\* the run; an acknowledgement that fails is passed over.
SeeCancelled(a, c) ==
  /\ \/ /\ At(a, c, "replayed") /\ Step(a, c, "matchCancelled") /\ UNCHANGED tasks
     \/ \E run \in Runs :
          /\ At(a, c, IF run = "match" THEN "matched" ELSE "suggested")
          /\ Step(a, c, IF run = "match" THEN "matchCancelled" ELSE "suggestCancelled")
          /\ \/ Task(a).run = run /\ SetTask(a, Acknowledged(Task(a)))
             \/ UNCHANGED tasks
  /\ UNCHANGED <<inputVars, analyses, disturbances>>

\* ai_receipt_task_in_session, of a cancelled receipt: any worker's, once the cancel of
\* its run is acknowledged.
CancelledTaken(a, c, run) ==
  \/ ReceiptTaken(a, c)
  \/ Task(a).status = "cancelled" /\ Task(a).claim = 0 /\ Task(a).run = run

\* The receipt of a cancelled run: the analysis fails, and with it a task that goes on.
ApplyCancelled(a, c) ==
  /\ \E run \in Runs :
       /\ At(a, c, IF run = "match" THEN "matchCancelled" ELSE "suggestCancelled")
       /\ CancelledTaken(a, c, run)
       /\ FailInSession(a, Settled(Task(a), run))
  /\ Step(a, c, "none")
  /\ UNCHANGED <<inputVars, disturbances>>

\* fail_match, for an error of any of the steps that is not tried again; the run that the
\* task has is settled first.
FailMatch(a, c) ==
  /\ work[<<a, c>>] # "none"
  /\ Claimed(a, c)
  /\ FailAnalysis(a)
  /\ SetTask(a, Ended(Settled(Task(a), Task(a).run), "failed", "operation", TRUE))
  /\ Step(a, c, "none")
  /\ UNCHANGED <<inputVars, disturbances>>

\* An error that is tried again, while attempts are left, ends the lease; a worker without
\* the claim only leaves.
LeaveWork(a, c) ==
  /\ work[<<a, c>>] # "none"
  /\ Step(a, c, "none")
  /\ \/ /\ Claimed(a, c) /\ Task(a).claims < MaxClaims
        /\ SetTask(a, [Task(a) EXCEPT !.lease = "expired"])
     \/ ~Claimed(a, c) /\ UNCHANGED tasks
  /\ UNCHANGED <<inputVars, analyses, disturbances>>

Process(a, c) ==
  \/ ReadContext(a, c) \/ RejectInput(a, c) \/ ApplyRules(a, c) \/ StartRun(a, c)
  \/ \E usable \in BOOLEAN : ApplyMatches(a, c, usable) \/ ApplySuggestions(a, c, usable)
  \/ SeeCancelled(a, c) \/ ApplyCancelled(a, c) \/ FailMatch(a, c) \/ LeaveWork(a, c)

-------------------------------------------------------------------------------
MatchingInit ==
  /\ confirmed \in SUBSET Reqs
  /\ \E v \in Values : facts = [f \in Facts |-> [value |-> v, confirmed |-> TRUE]]
  /\ base = <<ConfirmedFacts>>
  /\ target = <<>>
  /\ tasks = <<>>
  /\ analyses = <<>>
  /\ work = [p \in (1..MaxAnalyses) \X (1..MaxClaims) |-> "none"]
  /\ disturbances = 0

MatchingNext ==
  \/ \E r \in Reqs : UpdateRequirement(r)
  \/ \E f \in Facts : ChangeFact(f)
  \/ SaveVersion
  \/ NewDay
  \/ \E mode \in Modes :
       \/ \E i \in DOMAIN base : Create(<<"base", i>>, mode)
       \/ \E i \in DOMAIN target : Create(<<"target", i>>, mode)
  \/ \E a \in DOMAIN analyses :
       \/ Claim(a) \/ LeaseExpires(a) \/ Cancel(a) \/ OutboxExhausted(a)
       \/ \E c \in 1..MaxClaims : Process(a, c)

MatchingSpec == MatchingInit /\ [][MatchingNext]_vars

-------------------------------------------------------------------------------
(* Properties *)

\* The rows have their types (db/models.py: MatchAnalysis, Task, UsageLedger).
MatchingTypeOK ==
  /\ confirmed \subseteq Reqs
  /\ facts \in [Facts -> [value : Values, confirmed : BOOLEAN]]
  /\ tasks \in Seq(TaskRow)
  /\ analyses \in Seq(AnalysisRow)
  /\ work \in [(1..MaxAnalyses) \X (1..MaxClaims) -> Steps]

\* An analysis and its task end together, whichever worker ends them: what is shown
\* belongs to a task that succeeded, no failed analysis shows anything, and no worker
\* ends an analysis of a task that goes on.
AnalysisTellsTask ==
  \A a \in DOMAIN analyses :
    /\ analyses[a].shown <=> analyses[a].status = "succeeded"
    /\ Task(a).status = "succeeded" <=> analyses[a].status = "succeeded"
    /\ analyses[a].status = "failed" => Task(a).status \in {"failed", "cancelled"}

\* An analysis is left waiting by its task in three ways only: the owner cancelled, the
\* dispatcher gave up, or the last claim was used up (workers/dispatcher.py:186).
LeftWaiting ==
  \A a \in DOMAIN analyses :
    Task(a).status \in TerminalStatuses /\ analyses[a].status \in {"queued", "processing"}
      => Task(a).by \in {"owner", "dispatcher", "claim"}

\* Nothing is published that rests on a requirement or a fact the owner has changed
\* since, however long the runs took (matching/service.py:1075).
PublishedIfCurrent ==
  [][\A a \in DOMAIN analyses :
       ~analyses[a].shown /\ analyses'[a].shown =>
         Payload(analyses[a].version) = analyses[a].input]_vars

\* An analysis is settled by one worker at a time, which holds the claim of its task.  The
\* exception is a cancelled task whose run was acknowledged, by whichever worker saw that
\* first: one that was overtaken may then record the analysis as failed, but never
\* publish it (tasks/service.py:950).
OnlyTheHolderPublishes ==
  [][\A a \in DOMAIN analyses :
       analyses'[a].status # analyses[a].status =>
         \E c \in 1..MaxClaims :
           /\ work[<<a, c>>] # "none"
           /\ \A d \in (1..MaxClaims) \ {c} : work'[<<a, d>>] = work[<<a, d>>]
           /\ \/ Task(a).claim = c
              \/ /\ Task(a).status = "cancelled" /\ Task(a).claim = 0 /\ Task(a).run # "none"
                 /\ analyses'[a].status = "failed"]_vars

\* An analysis never offers changes to the base resume: all that is analysed is a version
\* of the targeted resume, which the first one of a job copied from the base (FLOW-11).
BaseIsLeftAlone ==
  /\ \A a \in DOMAIN analyses : analyses[a].version \in {"target"} \X DOMAIN target
  /\ target # <<>> => target[1] \in {base[i] : i \in DOMAIN base}

\* The rows of an analysis, of its task and of the resume it is made for agree.
AnalysesConsistent ==
  /\ MatchingTypeOK
  /\ AnalysisTellsTask
  /\ LeftWaiting
  /\ BaseIsLeftAlone

\* The limits hold for the owner at any moment, however their reservations end (07-fastapi-business-backend.md, section 9).
LimitsHold ==
  /\ Cardinality(ChargedToday(tasks)) <= PerDay
  /\ Cardinality(Live(tasks)) <= Concurrent
==============================================================================
