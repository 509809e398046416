# A verification development for ai-Resume-optimization

TLA+ models of the resume assistant in this repository, the TLC configurations
that check them on small instances, and theorems about them checked by TLAPS.
Paths below are relative to `src/`. `PROJECT.json` ties every definition to the
lines it translates, every property to a run, a mutant and a hazard.

## The system

A FastAPI application keeps resumes, jobs, interviews ("intake"), analyses and
suggestions in PostgreSQL. Anything slow is a **task**: a row created in the
transaction of the request, with a reservation against the user's AI allowance
and an outbox row. A dispatcher publishes the outbox row to Celery over Redis;
a worker claims the task under a lease, runs the operation for its type, and the
operation asks a second service, **Pi** (TypeScript, Fastify), to execute one or
two model runs. Pi keeps its runs in Redis so that several instances can serve
them. The web editor and the mini program talk to the API only.

| component | state it keeps | operations | hard about it |
|---|---|---|---|
| task service `modules/tasks/service.py`, `state.py` | Task row: status, stage, attempts, claim token, lease, active run; usage reservation; event log; input snapshot in the outbox payload | create, claim, release, cancel, register and settle runs, receipts, finish, fail | leases that run out under a working worker, cancellation between any two transactions, three rows that must agree |
| outbox dispatcher `workers/dispatcher.py` | outbox row: state, attempts, next try | publish, back off, exhaust | publishing is not atomic with the commit |
| executor `workers/execution.py`, `pipeline.py`, `celery_app.py` | none but the coroutine | one attempt, its retry, its end | acts on a row read in an earlier transaction; early acknowledgement |
| AI client `integrations/ai_client.py` | the run it waits for | post, register, poll, cancel, acknowledge, give up | lost replies, two workers that share a run id |
| intake `modules/intake` | session (status, question, generation task), answers, fact candidates | start, answer, analyse, retry, continue, decide, draft | tasks that end late against a session that moved on |
| jobs and matching `modules/jobs`, `modules/matching` | job and requirements; analysis, match items, suggestions, targeted resume | confirm, request, match, suggest, publish | minutes between what was read and what is published; a claim that was lost; limits that are counted |
| Pi run server `packages/ai/src/server` | run records in Redis with owner, lease and cancel mark; abort controllers in memory | create, mark, heartbeat, cancel, complete, expire | an owner that stalls or dies, lost notifications, replies lost after the script ran |
| Pi workflows `packages/ai/src/workflows` | one run: turn, token and cost budget, attempts | attempt, correct, fall back, time out | deadline against attempts, budget at its limit |
| usage, idempotency | reservations per day, request records | admit, consume, release; claim, replay, expire | limits at their boundary, requests repeated after their record expired |
| resumes, facts, suggestions | version chain and head, evidence links, facts, decisions | save, restore, confirm, decide, revert | stale base versions, texts and facts that changed since |
| imports, exports, privacy, storage | file, import and export rows; stored objects; the account | upload, confirm, process, delete, clean up, export, erase | row and object are written apart, by processes that overlap and die |
| auth and users | users, aliases, identities, codes, sessions | log in, register, refresh, log out, bind, merge, delete | a request is several transactions and acts on rows read in earlier ones |
| web editor `app/web/features/editor` | draft, dirty flag, known version | edit, auto save, merge, undo | content that changes while it is saved |

What makes the system correct:

* a task ends once, and its event log tells the same story as its row; only the
  newest claim can write; the reservation is charged exactly when a run was
  bound, and given back only when the task is over;
* the business row carries the result exactly when the task succeeded, and the
  result is the result of runs that succeeded;
* a run is executed by one instance, ends once with a receipt, keeps to its
  budget, and does not succeed after its cancellation was accepted;
* every task ends, every worker comes back, every run ends, and what an ended
  task worked on is free again;
* a resume only shows what its owner confirmed: evidence is never made up, no
  save is lost, no request takes effect twice;
* an interview has one open session, asks no question twice, leaves no finding
  undecided and yields one resume, from facts that are still confirmed;
* an analysis publishes only what is still current, by the holder of the claim,
  within the owner's limits;
* an account is entered by its owner alone and never after its deletion was
  accepted; a token stays the token of one account, through merges and refreshes;
* a stored object and its row agree, whatever process dies or comes late.

`PROJECT.json` lists the hazards at the lines where they bite; those no property
covers carry a note with the reason.

## The modules

```
TaskStates --- TaskContract (abstract)
  |  |              ^ KeepsContract
  | TaskService ----+
  |  |
  | OutboxDispatcher
  |  |            ^ UsesTaskService (TaskSpec)
  | TaskPipeline -+-- AiService (abstract) <-- ServesClient -- AiRunStore
  |  |
  |  MCTaskPipeline              RunWorkflow
  |
  +-- Matching --- MCMatching        Idempotency --- ResumeVersions --- Suggestions --- MCSuggestions
  +-- Intake ----- MCIntake          Accounts --- MCAccounts
                                     Files ------ MCFiles
```

* **TaskStates**: `CanTransition`, from `tasks/state.py`.
* **TaskContract**: what a task promises to whoever created it: one end, a
  result exactly on success, one charge or one refund. No claims, no runs.
* **TaskService**: the rows of *one* task as an open system. Every action is one
  transaction of `tasks/service.py`, or of the intake, jobs or matching service
  where it calls the task service; the transaction holds the lock of the task
  row, hence one step. A call that raises rolls back, hence no step. Any token
  ever issued may be used, in any order, with any outcome: the model does not
  rely on who calls. `resource` is the business row as far as this task is
  concerned (session, job, answer or analysis): busy, open, done, superseded.
* **OutboxDispatcher**: the outbox row and the broker queue. The fault actions
  are a publisher that raises though the broker took the message, and a
  dispatcher that stops between publishing and committing.
* **AiService**: Pi as its client sees it, three actions.
* **TaskPipeline**: the closed system. Each worker is a program counter over
  `TaskExecutor.execute`, the operations and `InternalAiClient._execute`; every
  call to the task service is a step of its own. A refused call is an
  exception, and goes where the executor's `except` clauses send it. Owner,
  dispatcher, clock and Pi interleave with the workers.
* **AiRunStore**: the Pi run server: each Lua script of `redis-run-store.ts` is
  a function from record to record, each handler or timer of `app.ts` an action.
* **RunWorkflow**: one run inside Pi: `run-workflow.ts` over `run-budget.ts` and
  `pi-runtime.ts`. The function runs to completion between two awaits and awaits
  only the model, so an action is the stretch from one await, or one turn of the
  loop, to the next; signals and timers fire while a call is out. A call reports
  its tokens and cost when it ends, never more than once. The checks of the input
  that end a run before its first call are left out: they touch neither budget
  nor signals. AiRunStore runs this function as "the workflow returns".
* **Idempotency**: the request records as operators on a set: `claim`,
  `complete`, expiry. A claim locks the row of the canonical user, so the keyed
  requests of one owner are serial; a request that fails rolls its claim back.
* **ResumeVersions**: the facts of one owner and the history of one resume,
  written by devices that each hold a version they read earlier (`shown` is what
  a device may hold). A save, a restore and a change of a fact are one action
  each. A text is a model value with a length; which text is supported by which
  value (`quality.py`) is a constant relation.
* **Suggestions** adds the suggestions of an analysis and the decisions on them.
  `Decide` is the whole of `SuggestionService.decide`: the checks of status,
  text and facts, the new version with copied and new evidence links, and the
  status, under one idempotency record. A claim of a suggestion may end before
  the text does, by its punctuation (`ClaimEnd`).
* **Matching**: several analyses of one job, each with its task (the row of
  TaskService reduced to claim, lease, end and reservation) and with one worker
  per claim that stays where it was after its claim is lost. `Payload` is what
  `_match_payload` hashes; publication compares it again. Admission counts the
  reservations of the day and the tasks that live. A receipt is taken by claim
  (`ReceiptTaken`), but that of a cancelled run by run: whoever sees it first
  acknowledges it, which ends the claim (`SeeCancelled`), and any worker may then
  record the analysis as failed (`CancelledTaken`). The run a task has is `run`; a
  worker that finds the run of the suggestions there posts the match again without
  registering it (`replayed`).
* **Intake**: sessions, answers, candidates, decisions and drafts of one owner.
  The tasks of analysis and draft are reduced to their status: TaskService shows
  that only the newest claim is let in. A candidate is identified by session,
  answer and range, which is how the code derives its id. How a text is found to
  contain candidates is left open (`Findings`).
* **Accounts**: no request of these modules is one transaction, so each is a
  process that keeps what it read (`requests[r].user` is the row as read, and
  `SaveUser` writes every column of it back). A merge is an alias, in two steps:
  `merge_users` reads the canonical target without a lock (`ReadTarget`) and then
  writes under the lock of the account that is merged (`Merge`). A logout, alone or
  as a part of a refresh, finds the session and saves it in two transactions
  (`ReadSession`, `SaveSession`), the second of which writes the owner it found; a
  deletion reads the ids of the account before it locks a row (`ReadOwners`,
  `AcceptDeletion`). Logins by address look for `users.email`, as the code does for
  `email_lookup_hash`; `identities` only decides the login with WeChat, and what an
  insert or a binding of an address may do. `Canonical` is
  the account at the end of the aliases, as `db/ownership.py` finds it; `EndOf`
  states that end by closed sets of accounts, where the code loops. What the
  foreign keys and `ON DELETE` refuse or drop once the row of an account is gone
  is in `Exists`.
* **Files**: rows of files, imports and exports against stored objects. Each
  step of a process is one transaction or one call to the store; `Die` ends a
  process between two of them, and its task is delivered again. The deletion of
  the account runs as one of these processes. A signed URL works until it expires,
  whatever became of the row and of the account (`urls`); `confirm_upload` is four
  steps, with the row, the object and the removal of a wrong object apart; the
  worker that exports the data looks at nothing but its own file.
* **TaskServiceProofs**, **MatchingProofs**, **IntakeProofs**,
  **SuggestionsProofs** (with ResumeVersions), **AccountsProofs**,
  **FilesProofs**: the theorems about the module each is named after, which it
  extends. **PiServerProofs** has those about RunWorkflow and AiRunStore,
  **TaskPipelineProofs**, which extends TaskServiceProofs, those about the closed
  system.

Operators marked `Fault:` are plausible bugs of the definition below them. No
specification uses them; they are the mutants listed in `PROJECT.json`, and each
property is violated when its mutant replaces the definition.

Abstractions to know when reading: a claim token is the number of the claim
(tokens are random in the code, so never equal); a lease is live or expired; a
run id is "first" or "second", because the code derives it from task, workflow
and input and so one task always asks for the same run; error codes are reduced
to whether `should_retry` accepts them; the content of a receipt is usable or
not; progress percentages and back-off delays are left out. A version number, a
fact, a file key is a number or a model value. Variables named in a comment as
history (`shown`, `vouched`, `unsettled`, `overwritten`, `crossed`) are read by
properties, or stand for what a device remembers; no row holds them.

## The runs

| run | module | distinct states | shows |
|---|---|---|---|
| TaskService | TaskService | 1,220 | the row invariants and action properties for any caller, and that the row keeps TaskContract |
| PipelineSafety | MCTaskPipeline | 286,953 | billing, receipts and acknowledgements follow the runs under one crash, one pause, one AI fault, one lost cancellation, one broker fault and one cancellation; every step is a step of TaskService |
| PipelineProgress | MCTaskPipeline | 114,739 | without stopped workers every task ends, every worker comes back, no run is left running unasked, a job is free again |
| RunStore | AiRunStore | 2,600 | one execution and one receipt per run, the refinement of AiService, work stops after a cancellation, runs end |
| RunWorkflow | RunWorkflow | 14,672 | turns, tokens and cost stay within their limits, a signalled run does not succeed, no run fails before its fallback, every run ends |
| Suggestions | MCSuggestions | 470,567 | no update lost, no request effective twice, evidence stands, decisions do what the history says |
| Matching | MCMatching | 2,264,281 | analyses and tasks agree, limits hold, only current results and only the holder of the claim publish |
| Intake | MCIntake | 1,150,673 | one open session, questions in order, facts only by decision, drafts only from facts that stand |
| Accounts | MCAccounts | 746,481 | accounts, aliases and identities agree, nobody enters a deleted account, passwords last, tokens stay with their account |
| Files | MCFiles | 3,171,025 | rows and objects agree, imports settle, the resumes exported from a deleted account are gone (exports of its data are not covered), deletion only when due |
| RevertOverwrites | MCSuggestions | violated | a disagreement, see below |
| DeletionCompletes | MCFiles | violated | a disagreement, see below |

A property that a run checks may be a conjunction of named parts; each part has
a comment of its own in the module:

| property | its parts |
|---|---|
| `RowTellsOutcome` | `TypeOK`, `ResultIffSucceeded`, `SnapshotScrubbed` |
| `EndsForGood` | `EndsOnce`, `ResultIsFinal` |
| `RunsAgree` | `PipelineTypeOK`, `BilledRunsExist`, `ResultsComeFromRuns`, `AcknowledgedIsCancelled` |
| `NothingIsLost` | `NothingForgotten`, `NoOrphanRun` |
| `WorkFinishes` | `TaskEnds`, `WorkersComeBack` |
| `StoreConsistent` | `StoreTypeOK`, `ReceiptWhenEnded` |
| `RunsStop` | `WorkStops`, `RunsEnd` |
| `WithinBudget` | `RunTypeOK`, `TurnsSuffice`, `SpendsWithinLimits` |
| `EvidenceStands` | `EvidenceWasConfirmed`, `EvidenceCoversText` |
| `DecisionsStand` | `SuggestionsTypeOK`, `HistoryTellsDecisions`, `DecisionsReplaceOriginals` |
| `AnalysesConsistent` | `MatchingTypeOK`, `AnalysisTellsTask`, `LeftWaiting`, `BaseIsLeftAlone` |
| `SessionsConsistent` | `IntakeTypeOK`, `OneOpenSession`, `OneResumePerSession` |
| `QuestionsInOrder` | `OnlyTheLatestIsUnsettled`, `PendingCanBeDecided`, `NeverAskedAgain` |
| `AccountsConsistent` | `AccountsTypeOK`, `WeChatLeadsHome`, `AliasesResolve` |
| `FilesConsistent` | `FilesTypeOK`, `OneResumePerImport`, `ObjectsAreThere` |

### Bounds

`MaxAttempts` = 2 distinguishes the first from the last attempt, which
is all the code compares; four claims in the pipeline cover two attempts, a takeover and a
pending failure; TaskService takes three, since there two claims after the first
may come in any state of the row; two workers are what a takeover needs, and a third could only
repeat the part of the one that lost its claim; two instances are what an owner
and a reader need. Each kind of fault happens once or twice: a fault leads back
to the states a first attempt starts from, and what the second does differs
only by the attempt count. The runs of one pool of instances share nothing but
the process, so RunStore takes one run and spends its faults on it.
`MaxDispatchAttempts` is 3 in the code (`workers/dispatcher.py:30`); 1 and 2 put the
exhausting publish before and after a successful one. In RunWorkflow four turns and one retry are
the values of the code; tokens and cost are counted in units, with limits of 4
and 3, and a call may report 0, 1 or 4: nothing, a part of the limit, or more
than all of it, as a provider that is not held to `max_tokens` would. A run makes
at most four calls, so the counters need no bound.

Suggestions: one fact with two values, two bullets, four texts and two device
contents that differ in order and in one text; three versions are a base, a
change and what acts on either, and one suggestion can be decided and reverted
between them; one record expires. RevertOverwrites needs a fourth version.
Matching: `PerDay` and `Concurrent` are 20 and 2 in the code, 1 and 1 here, so that
a second analysis meets both limits; two analyses, two claims each, two versions
of either resume and two disturbances (an edit, an expired lease, a midnight).
Intake: two sessions are a restart; two answers and two ranges reach every kind
of step of the chain, since what follows a question depends on that question and
the kind of answer; two drafts are a failed one and its repetition; two
disturbances are a task that fails and a fact that changes. Accounts: two users,
two addresses and one WeChat subject are what a merge needs, two requests at a
time are an overlap, two sessions a token and the one that replaces it; five
requests in all are two logins, a binding that merges, and a refresh, logout or
deletion across it, with one more after them. Files:
one upload, one export and one export of data, whose paths are different code,
and two processes that overlap; four runs or deaths of processes.

Counters of faults are in `budget`, `faults`, `disturbances`, `expiries`, `served`
and `runs`, and only guards of the actions they bound read them.
`CHECK_DEADLOCK FALSE`: a task that ended and whose workers are idle has nothing
left to do, nor has a store whose runs ended; and a state of the other modules at its
bounds has no successor.

### Fairness

*Publish* is weakly fair because `drain_forever` polls forever;
*Work(w)* because a process that is not stopped runs its coroutine; *EndRun*
because every workflow has a deadline. No fault, no cancellation and no restart
is fair. PipelineProgress allows no crash, since a stopped worker does forget
its task (early acknowledgement, see below). In AiRunStore the steps of the
function behind `POST`, the cancellation poll and the clock are fair; a workflow
is assumed to return only once it is aborted, so that `WorkStops` rests on the
abort. `RunsEnd` is stated under the extra premise `DeadlinesAndReaders`
(deadlines, and a client that polls): without a reader nothing expires a run
whose owner is gone. In RunWorkflow the function itself is fair (*Before*,
*After*), so are the clock and the deadline timer, and a call returns once its
combined signal fired (`Signal /\ CallEnds`): every call of the runtime is given
it. A provider may otherwise never answer, and the timeout of a route may never
fire, so `RunEnds` rests on the deadline alone. `FilesFairSpec`, used by
DeletionCompletes only, makes the steps of each process fair, and with them the
redelivery of the deletion until it succeeds. That is more than the code
promises, and the property fails all the same. With `FindCandidates` taken out of
the next-state relation the same property holds.

## Disagreements found

Each is a violation run; `PROJECT.json` "findings" quotes both sides.

* *RevertOverwrites*: `decide` compares the text it replaces with the original of
  the suggestion, but not for a revert: what another device saved since the
  acceptance is replaced, though the acceptance document allows no silent
  overwriting.
* *DeletionCompletes*: `delete_account` deletes the rows of an owner but those of
  `fact_candidates`, whose foreign keys refuse the transaction: after the objects
  were deleted, the account stays in `pending_deletion` for ever.

## Behaviour to know of

What the models allow because the code does, without a line of the repository
that says otherwise, or where a property is stated around it:

* Tasks. A message is acknowledged before the work, so the task of a worker that
  stops is not delivered again, against the architecture document. A run accepted
  by Pi whose reply was lost is not charged. A draft whose attempts were all lost
  to stopped workers, or that was cancelled after it was posted, may leave its
  session in `drafting`; a cancelled analysis may leave its answer `queued`. The
  receipt of a cancelled parse that was charged belongs to no job and is dropped.
  A run whose deadline fires during a call ends cancelled, not failed.
* Matching. A cancelled task, an exhausted outbox row and a claim used up leave
  the analysis queued or processing (`LeftWaiting` names the three). Every caller
  admits its task at cost 0, so the limit of 100 CNY a day never bites. Once the
  targeted resume exists, newer versions of the base resume are not taken up. A
  worker that was overtaken may acknowledge the cancelled run it shares with its
  successor and fail the analysis of the cancelled task, which no longer waits for
  the successor then.
* Intake. `continue_analysis` also works on a session that was given up.
* Resumes. A repeated `update_requirement` is looked up under the canonical owner
  only. A suggestion whose text ends in punctuation its claims do not cover
  leaves a version that the next quality check reports (`RestsOn` names it).
* Accounts. `bind_email` saves the row it read: a deletion accepted in between is
  undone, or a password set in between is lost (`overwritten`; `PasswordsKept`
  and `NobodyEntersDeleted` are stated around it). A merge moves identities,
  consents and sessions, but not the address: it stays in the row of the merged
  account, which every login by address finds and refuses. `WeChatLeadsHome`
  therefore speaks of the WeChat subject only. A logout or refresh that read its
  session before a merge writes the old owner back: the session is revoked all the
  same, and the old owner stands for the new one (`TokensKeepTheirAccount`). A
  binding that crosses a merge leaves its identity with the merged account, and two
  opposite merges at once make a circle of aliases (`crossed`). A deletion requested from an account that is
  merged meanwhile takes the account it was merged into, which is what
  `delete_account` finds under the session. Binding another address leaves the identity of
  the old one. One code may open two sessions if it is used twice at once. A
  binding whose second transaction is refused is left half done.
* Files. An export or import whose task failed or was cancelled stays `queued`.
  An upload with a URL that is still valid after the account was deleted leaves an
  object without a row. `confirm_upload` deletes whatever is stored by the time it
  refuses, also what was uploaded and confirmed meanwhile. An export of data whose
  transaction fails deletes its object although the row of an earlier attempt
  may refer to it.
  `process_import` and `process_export` do not look at the claim of their task.
  A file confirmed while the cleanup deletes its object has none; an object
  uploaded again after confirmation is parsed unchecked. An object stored while
  the account is being deleted, or by a worker that dies, is nobody's
  (`unsettled`). An export of data that runs late inserts a row for a deleted
  account. Nothing in the application calls `cleanup_expired_files`.
* Privacy. The rate limit of data exports is counted and saved in two
  transactions; the replay of a request ignores `expires_at`.

## The proofs

Every invariant and every action property that a passing run checks is proved for
every value of the constants, and so are the three refinements. No theorem assumes
fairness, and none a bound: the bounds of the models are constants of which nothing
is known but their type. Three properties of the pipeline are true only until the
first fault of some kind; their theorems say so with a predicate on the faults that
have happened (`NoStop`, `NoLostCancel`, and the premise of `UnusedUnlessFault`),
where the run sets the bound to 0. What is
assumed are the named assumptions of the modules. They say what the code's
configuration and schema give (limits are positive, one key of the store is not
two files, an address is not the WeChat subject, evidence only vouches for a
text it supports), or that a model value is not a row.

Each proof module has the same layout: the inductive invariant in named parts, lemmas
on what single rows or operators do (*Effect*, *Is*), one lemma for each action or
kind of action, the step of the invariant, and the temporal theorems, which
combine these with PTL. The invariants of TaskService, RunWorkflow and TaskPipeline
are proved in layers, each under those before it; the others need their parts at once.

`TaskServiceProofs`, for every `Kinds`, `MaxAttempts` and `MaxClaims`:

* `TypeCorrect`: `TypeOK` is inductive as it stands.
* `NewestClaimCorrect`: inductive given `TypeOK`. The token in the row is the
  last one or none; that is what makes comparing tokens a fence.
* `LedgerCorrect`: inductive given `TypeOK`. It rests on `Bind` and
  `ReleaseUnused` both reading the state of the reservation in the transaction
  that writes it.
* `ResultCorrect`, `ResultFinal`: the result is published only under a status
  that allows it, and nothing writes a row that is not busy.
* `SnapshotCorrect`: strengthened by `SnapshotInv` (only three kinds ever have a
  snapshot) and `DraftStage` (only a draft is marked `draft_processing`, the one
  stage whose cancellation keeps it).
* `EventLogCorrect`: strengthened by `LogInv`, that the log of a task that has not
  ended holds no end. `Logged` reduces every transaction to the three events it
  may append; `RunningCounted` counts.
* `EndsOnceCorrect`, `ImplementsContract`: action by action. `Admitted` says
  that a terminal row with a result was charged, and `Moves` what each
  transaction does to status, charge and result; the step of the contract
  follows from the two.
* `OutcomeCorrect` and `EndsForGoodCorrect` put these together into the
  properties the run checks, `RowTellsOutcome` and `EndsForGood`.

`TaskPipelineProofs`, for any number of workers, attempts, claims, publishes and faults:

* `CallersCorrect`: `CallersInv` says that workers past their claim hold tokens that
  were issued, no two the same one. `GoesOn` is what any step does to the worker that
  takes it, `WorkChanges` and `OthersChange` what it does to the rest.
  `UsesTaskServiceCorrect` follows, because each call of a worker is an action of
  TaskService under such a token; with it every theorem of TaskServiceProofs holds
  of the pipeline, `PipelineKeepsContract` among them. `UsesAiServiceCorrect` is the
  same for AiService, so that `ServesClientCorrect` meets it from the other side.
* `RunsAgreeCorrect`: strengthened by `RunsInv`. A worker may rely on the run it
  executes (`RunFits`): it exists once it was asked for, its end is what the worker
  read, and the second run of a match follows a first that succeeded. An
  acknowledged cancellation ended the claim and keeps its run (`AckedIsOver`). The
  transactions that name no run are one case (`PlainStep`); registration, receipt and
  acknowledgement are the three that count.
* `WorkedCorrect`, until a worker stops or is overtaken: a worker works under the
  live claim or the task is over (`WorkFits`), a live claim has its worker, a lease
  that ended left an attempt, and a task that is not over has a message, a pending
  outbox row or a worker (`TaskIsHeld`). `ClaimCases` gives the four things a step
  may do to the claim. `JobIsFreeCorrect` rests on it, because the one way to end a
  parse that leaves its job behind is a claim without attempts (`NeverExhausted`).
* `NothingIsLostCorrect`: strengthened by `WatchInv`, that a run which goes on
  unasked has a worker that registers it, polls it or is about to cancel it, and that
  a worker which told the service was heard.
* `UnusedUnlessFaultCorrect`: strengthened by `ChargeInv`. A worker that asks for a run
  holds the reservation (`HoldsReservation`): its claim keeps every other worker
  away, also after a cancellation, which leaves the token; a draft is marked as
  processing, so that the cancellation does not give the reservation back; and the
  answer of a cancelled analysis is not open to be left (`AnalysisHeld`).
  `ReservationKept` goes through everybody who might give it back.

`PiServerProofs`, about RunWorkflow, for every limit, route and usage:

* `RunTypeCorrect`, in three parts that do not depend on each other
  (`ControlOK`, `CountersOK`, `FlagsOK`); a turn is used only below the limit,
  which bounds the counter for any limit.
* `TurnsSufficeCorrect`, `SpendingCorrect`, `SignalCorrect` and
  `FallbackCorrect`, together as `RunInv`, which adds what is true between two
  calls: `EndedHasOutcome`; `PlanAccountsForTurns`, that each turn beyond the
  first is a correction, a retry or a fallback, each at most once, which is why
  four turns are enough; and `ValidWithinLimits`, that an answer is valid only if
  the calls so far kept the limits. The last is needed because
  the timeout of a route hides an overspent call: the next check is then the
  one before the following call.
* `BudgetCorrect` puts the first three together into `WithinBudget`.

`PiServerProofs`, about AiRunStore, for every set of instances and runs, any number of
crashes and lost store calls:

* `Moves` says what a Lua script may do to a record: create it, go on with a live
  one, end it with a receipt; a record that ended is left alone, and a
  cancelled one does not succeed. Each script is shown to be a move.
* `StoreCorrect`: `StoreInv` adds to the types that a live record has an owner
  and a record is cancelled only after it was created (`RecordFits`), and that a
  job in memory belongs to the owner of its run, on an instance that is up, and
  holds an end when it is about to store one (`JobFits`). `OneExecutionCorrect`
  needs the second, for a `POST` that is repeated elsewhere; `ReceiptsCorrect` the
  first.
* `ServesClientCorrect`: the store implements AiService. A move is a step of the
  service or a stutter, because a record shown to the client is its status with
  queued and running not told apart.

`MatchingProofs`, for every set of facts and requirements, every limit and any number
of analyses, claims and versions:

* `RowsCorrect`: `RowsInv` says that analysis and task of a pair agree (`Agree`,
  which is `AnalysisTellsTask` and `LeftWaiting` of one pair, and the same for
  every worker), that the two tables and the versions have the sizes they should
  (`RowsFit`), and that a metered task has a reservation (`MeteredReserved`).
* `AnalysesCorrect` follows, with `BaseIsLeftAlone`, which every step keeps
  because only a targeted resume is offered suggestions.
* `LimitsCorrect` is the reason for `MeteredReserved`: without it `StartRun` could
  add a reservation to those of the day. Given it, no step but `Create` enlarges the
  two sets that are counted, and `Create` counts first.
* `PublicationCorrect` and `HolderCorrect` are read off the actions, since the
  comparison of claim and payload is in the transaction that publishes. The second
  has the one exception the code makes: the status of a cancelled task whose run
  was acknowledged, its claim ended, may be changed by a worker that holds nothing,
  and then only to failed.

`IntakeProofs`, for any number of sessions, answers, ranges and drafts:

* `IntakeCorrect`: `SessionsInv` says that the key that is unique in the table is
  held by the sessions that are open, that a session with a draft on its way is
  `drafting`, and that it has a resume exactly when its draft succeeded.
* `QuestionsInv` is what keeps the order: an answer whose task lives is queued or
  running (so a late task finds it so), candidates come from an answer whose task
  succeeded, while a question waits every answer before it is settled, and the
  answers are to questions of rising `Rank`. The rank is the place in the
  chain of questions; that every way on raises it is `NextIsLater`.
* `SessionsCorrect`, `QuestionsCorrect` and `FactsCorrect` follow from it;
  `DraftsCorrect` needs `DraftsFit` (the facts of a draft are two at least, of
  its own session), because the draft was queued in an earlier transaction.

`SuggestionsProofs`, about Suggestions and ResumeVersions, for any number of
devices, texts, facts and versions:

* `SuggestionsCorrect`: `HistoryInv`, that version `v` has parent `v - 1` and the
  head is the last version and its number the count, gives `NoUpdateIsLost`.
* `RequestsInv`, that the request of a version names the base it was built on or
  the decision it is, gives `RequestsTakeEffectOnce` also for a record that
  expired: a base is used up by the version built on it, and by `DecisionsInv` a
  suggestion has one decision and one revert at most.
* `DecisionsInv` says which versions a status stands for (`DecidedAs`), which
  gives `DecisionsCorrect`.
* `EvidenceCorrect`: a confirmed value was vouched for (`FactsInv`), copied links
  hold in the new version (`EvidencePassedOn`), and a replaced text is the one its
  suggestion was made for (`OriginalReplaced`).

`AccountsProofs`, for every finite set of accounts, any addresses and any number of
requests served at once:

* `AccountsCorrect`: `AccountsInv` has a part for each table, and `RequestFits` for
  each request: what of the rows it read in an earlier transaction is still so.
  A request that is about to merge relies on its target having no alias, one
  that saves a row on its account not being merged; `crossed` is where the code lets
  this fail, and the invariant claims nothing then.
* `Leads` and `EndOf` speak of closed sets of accounts, so that `MergeKeepsEnds`
  (one more alias, from an account without one to another end, leaves every
  account one end) and `DeletionKeepsEnds` (all aliases that lead to one end are
  dropped together) need no induction. `OneEnd` makes `Canonical` a function.
* `ConsistentCorrect` follows, and claims of addresses no more than that each is
  of one account; `DeletedCorrect` from `DeletionsFit` (an account
  whose deletion was accepted is active only if a row was saved over it);
  `PasswordsCorrect` is proved step by step, from `UsersFit`.
* `TokensCorrect`: `TokensInv` adds to the property that aliases and accepted
  deletions are of accounts that exist (`RowsExist`) and that a request which serves
  a token serves that of a session (`TokensFit`). The property is inductive with
  these, because it speaks of the ends of aliases: a merge moves the end of the
  source's accounts to the target's (`EndsMove`), which is the end of both for
  sessions that were moved and for a logout that moves one back; a deletion takes
  all accounts with one end, leaves one row, and the rest keep theirs (`EndsStay`).

`FilesProofs`, for any files and contents and any number of processes:

* `FilesCorrect`: `FilesInv` says for each process what it may rely on between two
  transactions (`ProcFits`): an export has its row until the account is deleted, a
  checked upload its object, and the deletion finds settled whatever it did not
  list. `OneDeletion`, `RowsAreGone` and `ExportsAreAccounted` are what erasure
  needs: the object of an export belongs to its row or to a process that will
  take it back.
* `Keeps` names what of this a step leaves alone, and `StepIs` that a step of one
  process changes no other. The actions then have a lemma each.
* `ObjectsCorrect`, `ErasureCorrect`; `ImportsSettleCorrect` and
  `DeletedWhenDueCorrect` are action properties.

Only model-checked:

* `WorkFinishes`, `RunsStop`, `RunEnds`: liveness under fairness is out of the
  prover's reach.
* The two disagreements, which are counterexamples.

## Not modelled

* Row locks within a transaction and their order; transactions are steps.
* The 24 hours after which Redis drops a run; a `POST` delayed beyond the
  cancellation of the same run.
* Refusals because the AI client is not configured (except for a match), or
  because a stored snapshot is corrupt: they take the path of an error that is
  not retried.
* What texts mean: the heuristics that read answers, requirements and resumes
  (`intake/service.py` from `_main_assertion_kind` on, `quality.py`,
  `parsers.py`, the evidence rules of Pi). They are pure functions over natural
  language; where one decides what happens next its verdict is a nondeterministic
  choice or a constant relation.
* Rate limits and attempts of logins and codes, consents and the age of sessions:
  they only refuse requests.
* More than one import per upload (the code allows several under different
  idempotency keys): a second import shares nothing with the first but the object
  it reads.
* The web editor, the pages and the mini program: the server side of what they
  save is ResumeVersions; their own state is in the browser.
* Everything else listed as `not_modelled` in `PROJECT.json` "components", with
  the reason there.

## Plan

Done: the modules above, their runs, and the theorems of the eight proof modules. What
is left:

1. The order of the two row locks of the dispatcher and a worker that ends a task,
   which the models hide in a step: a module of its own, with two processes and two
   locks, and the absence of a deadlock as an invariant.
2. Lemmas shared by the proof modules (what an update of one row does to the rows of
   the others), where they are repeated.
