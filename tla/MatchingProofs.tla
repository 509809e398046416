---------------------------- MODULE MatchingProofs ----------------------------
(***************************************************************************)
(* What holds of Matching for every set of requirements, facts and values, *)
(* every limit and every number of analyses, claims and versions.  A step  *)
(* touches the rows of one analysis or creates one, so the proof has two   *)
(* parts: what each action does to the two rows of an analysis (the lemmas *)
(* ...Effect), and what follows for the invariant.                         *)
(***************************************************************************)
EXTENDS Matching, FiniteSetTheorems, SequenceTheorems, TLAPS

-------------------------------------------------------------------------------
(* The inductive invariant *)

Contents == SUBSET (Facts \X Values)

\* The two resumes, and that analyses and tasks are created in pairs.
RowsFit ==
  /\ base \in Seq(Contents) /\ Len(base) \in 1..MaxVersions
  /\ target \in Seq(Contents) /\ Len(target) <= MaxVersions
  /\ Len(tasks) = Len(analyses) /\ Len(analyses) <= MaxAnalyses
  /\ \A a \in DOMAIN analyses : analyses[a].task = a

\* What the rows of one analysis and its task have in common: AnalysisTellsTask and
\* LeftWaiting, of a single pair.
Agree(task, row) ==
  /\ row.shown <=> row.status = "succeeded"
  /\ task.status = "succeeded" <=> row.status = "succeeded"
  /\ row.status = "failed" => task.status \in {"failed", "cancelled"}
  /\ task.status \in TerminalStatuses /\ row.status \in {"queued", "processing"}
       => task.by \in {"owner", "dispatcher", "claim"}

\* A metered task has a ledger row from its admission on: StartRun, which consumes the
\* reservation, adds no task to those that are counted.
MeteredReserved == \A i \in DOMAIN tasks : tasks[i].metered => tasks[i].ledger # "none"

RowsInv ==
  /\ MatchingTypeOK
  /\ RowsFit
  /\ \A a \in DOMAIN analyses : Agree(tasks[a], analyses[a])
  /\ MeteredReserved

-------------------------------------------------------------------------------
(* Rows *)

LEMMA StatusesAre ==
  Statuses = {"succeeded", "failed", "cancelled", "queued", "running", "waiting_for_user"}
BY DEF Statuses, TerminalStatuses, Transitions

\* The rows of an analysis are at the same place in their tables.
LEMMA RowsOf ==
  ASSUME RowsInv, NEW a \in DOMAIN analyses
  PROVE  /\ a \in 1..Len(analyses) /\ a \in DOMAIN tasks
         /\ analyses[a].task = a /\ Task(a) = tasks[a]
         /\ tasks[a] \in TaskRow /\ analyses[a] \in AnalysisRow
         /\ Agree(tasks[a], analyses[a])
<1>1. tasks \in Seq(TaskRow) /\ analyses \in Seq(AnalysisRow) /\ Len(tasks) = Len(analyses)
  BY DEF RowsInv, RowsFit, MatchingTypeOK
<1>2. DOMAIN tasks = 1..Len(tasks) /\ DOMAIN analyses = 1..Len(analyses)
  BY <1>1, LenProperties
<1>3. a \in 1..Len(analyses) /\ a \in 1..Len(tasks)
  BY <1>1, <1>2
<1>4. tasks[a] \in TaskRow /\ analyses[a] \in AnalysisRow
  BY <1>1, <1>3, ElementOfSeq
<1>5. analyses[a].task = a /\ Agree(tasks[a], analyses[a])
  BY DEF RowsInv, RowsFit
<1> QED  BY <1>2, <1>3, <1>4, <1>5 DEF Task

\* What a step may do to the row of a task: it stays of the owner and of its day, it ends
\* once, and a reservation is consumed or released, never taken back or renewed.
TaskMoves(old, new) ==
  /\ new.metered = old.metered
  /\ new.today => old.today
  /\ old.ledger = "released" => new.ledger = "released"
  /\ old.ledger # "none" => new.ledger # "none"
  /\ old.status \in TerminalStatuses => new.status = old.status

\* The request an analysis was created for.
SameRequest(old, new) ==
  /\ new.task = old.task /\ new.version = old.version
  /\ new.mode = old.mode /\ new.input = old.input

\* A step of the task of analysis a, and a step of its row.
TaskStep(a) ==
  /\ tasks' \in Seq(TaskRow) /\ Len(tasks') = Len(tasks)
  /\ \A b \in DOMAIN tasks \ {a} : tasks'[b] = tasks[b]
  /\ TaskMoves(tasks[a], tasks'[a])

AnalysisStep(a) ==
  /\ analyses' \in Seq(AnalysisRow) /\ Len(analyses') = Len(analyses)
  /\ \A b \in DOMAIN analyses \ {a} : analyses'[b] = analyses[b]
  /\ SameRequest(analyses[a], analyses'[a])

LEMMA TaskUnchanged ==
  ASSUME RowsInv, NEW a \in DOMAIN analyses, UNCHANGED tasks
  PROVE  TaskStep(a) /\ tasks'[a] = tasks[a]
BY DEF RowsInv, MatchingTypeOK, TaskStep, TaskMoves

LEMMA SetTaskEffect ==
  ASSUME RowsInv, NEW a \in DOMAIN analyses, NEW row \in TaskRow,
         SetTask(a, row), TaskMoves(tasks[a], row)
  PROVE  TaskStep(a) /\ tasks'[a] = row
<1>1. tasks \in Seq(TaskRow) /\ a \in 1..Len(tasks) /\ DOMAIN tasks = 1..Len(tasks)
  BY RowsOf, LenProperties DEF RowsInv, MatchingTypeOK
<1>2. tasks' = [tasks EXCEPT ![a] = row]
  BY RowsOf DEF SetTask
<1>3. /\ tasks' \in Seq(TaskRow) /\ Len(tasks') = Len(tasks)
      /\ \A b \in 1..Len(tasks) : tasks'[b] = IF b = a THEN row ELSE tasks[b]
  BY <1>1, <1>2, ExceptSeq
<1> QED  BY <1>1, <1>3 DEF TaskStep

LEMMA AnalysisUnchanged ==
  ASSUME RowsInv, NEW a \in DOMAIN analyses, UNCHANGED analyses
  PROVE  AnalysisStep(a) /\ analyses'[a] = analyses[a]
BY DEF RowsInv, MatchingTypeOK, AnalysisStep, SameRequest

LEMMA SetAnalysisEffect ==
  ASSUME RowsInv, NEW a \in DOMAIN analyses,
         NEW status \in {"queued", "processing", "succeeded", "failed"}, NEW shown \in BOOLEAN,
         SetAnalysis(a, status, shown)
  PROVE  /\ AnalysisStep(a)
         /\ analyses'[a].status = status /\ analyses'[a].shown = shown
<1> DEFINE row == [analyses[a] EXCEPT !.status = status, !.shown = shown]
<1>1. /\ analyses \in Seq(AnalysisRow) /\ a \in 1..Len(analyses)
      /\ DOMAIN analyses = 1..Len(analyses)
  BY RowsOf, LenProperties DEF RowsInv, MatchingTypeOK
<1>2. analyses[a] \in AnalysisRow
  BY RowsOf
<1>3. row \in AnalysisRow /\ row.status = status /\ row.shown = shown
  BY <1>2 DEF AnalysisRow
<1>4. SameRequest(analyses[a], row)
  BY <1>2 DEF AnalysisRow, SameRequest
<1>5. analyses' = [analyses EXCEPT ![a] = row]
  BY <1>1, <1>2 DEF SetAnalysis, AnalysisRow
<1> HIDE DEF row
<1>6. /\ analyses' \in Seq(AnalysisRow) /\ Len(analyses') = Len(analyses)
      /\ \A b \in 1..Len(analyses) : analyses'[b] = IF b = a THEN row ELSE analyses[b]
  BY <1>1, <1>3, <1>5, ExceptSeq
<1> QED  BY <1>1, <1>3, <1>4, <1>6 DEF AnalysisStep

-------------------------------------------------------------------------------
(* What each action does to the rows of an analysis *)

\* What the rows of analysis a may become, and who may make them so.
RowStep(a) ==
  /\ TaskStep(a)
  /\ AnalysisStep(a)
  /\ Agree(tasks'[a], analyses'[a])

\* A row that differs from the row of a task in its lease and its run at most.
Alike(old, new) ==
  /\ new \in TaskRow
  /\ new.metered = old.metered /\ new.today = old.today /\ new.ledger = old.ledger
  /\ new.status = old.status

\* Settling a run changes nothing else of a task.
LEMMA SettledAlike ==
  ASSUME NEW task \in TaskRow, NEW run
  PROVE  Alike(task, task) /\ Alike(task, Settled(task, run))
BY DEF Alike, Settled, TaskRow, Runs

\* The end of a task that has not ended.
LEMMA EndedEffect ==
  ASSUME RowsInv, NEW a \in DOMAIN analyses, tasks[a].status \notin TerminalStatuses,
         NEW task, Alike(tasks[a], task), NEW status \in TerminalStatuses,
         NEW by \in {"owner", "dispatcher", "claim", "operation"}, NEW release \in BOOLEAN
  PROVE  /\ Ended(task, status, by, release) \in TaskRow
         /\ Ended(task, status, by, release).status = status
         /\ Ended(task, status, by, release).by = by
         /\ TaskMoves(tasks[a], Ended(task, status, by, release))
<1>1. /\ task \in TaskRow /\ tasks[a] \in TaskRow
      /\ task.metered = tasks[a].metered /\ task.today = tasks[a].today
      /\ task.ledger = tasks[a].ledger
  BY RowsOf DEF Alike
<1>2. status \in Statuses
  BY StatusesAre DEF TerminalStatuses
<1> DEFINE row == Ended(task, status, by, release)
<1>3. PICK claim \in {task.claim, 0}, lease \in {task.lease, "none"},
           ledger \in {task.ledger, "released"} :
        /\ row = [task EXCEPT !.status = status, !.by = by, !.claim = claim, !.lease = lease,
                              !.ledger = ledger]
        /\ ledger = "released" \/ ledger = task.ledger
        /\ ledger = "released" => task.ledger # "none"
  BY <1>1 DEF Ended, TaskRow
<1>4. row = [metered |-> task.metered, status |-> status, claim |-> claim,
             claims |-> task.claims, lease |-> lease, run |-> task.run, ledger |-> ledger,
             today |-> task.today, by |-> by]
  BY <1>1, <1>3 DEF TaskRow
<1>5. row \in TaskRow
  BY <1>1, <1>2, <1>4, SizesAssumption DEF TaskRow
<1> QED  BY <1>1, <1>3, <1>4, <1>5 DEF TaskMoves

LEMMA EndTask ==
  ASSUME RowsInv, NEW a \in DOMAIN analyses, tasks[a].status \notin TerminalStatuses,
         NEW task, Alike(tasks[a], task), NEW status \in TerminalStatuses,
         NEW by \in {"owner", "dispatcher", "claim", "operation"}, NEW release \in BOOLEAN,
         SetTask(a, Ended(task, status, by, release))
  PROVE  TaskStep(a) /\ tasks'[a].status = status /\ tasks'[a].by = by
<1> DEFINE row == Ended(task, status, by, release)
<1>1. row \in TaskRow /\ row.status = status /\ row.by = by /\ TaskMoves(tasks[a], row)
  BY EndedEffect
<1>2. SetTask(a, row)
  OBVIOUS
<1> HIDE DEF row
<1> QED  BY <1>1, <1>2, SetTaskEffect

\* The task's own steps leave the analysis alone.
LEMMA OwnStepEffect ==
  ASSUME RowsInv, NEW a \in DOMAIN analyses,
         Claim(a) \/ LeaseExpires(a) \/ Cancel(a) \/ OutboxExhausted(a)
  PROVE  RowStep(a) /\ UNCHANGED <<inputVars, analyses>>
<1>1. /\ Task(a) = tasks[a] /\ tasks[a] \in TaskRow
      /\ analyses[a] \in AnalysisRow /\ Agree(tasks[a], analyses[a])
  BY RowsOf
<1>0. Alike(tasks[a], Task(a))
  BY <1>1, SettledAlike
<1>2. UNCHANGED <<inputVars, analyses>>
  BY DEF Claim, LeaseExpires, Cancel, OutboxExhausted
<1>3. AnalysisStep(a) /\ analyses'[a] = analyses[a]
  BY <1>2, AnalysisUnchanged
<1>4. ASSUME NEW row \in TaskRow, SetTask(a, row), TaskMoves(tasks[a], row),
             Agree(row, analyses[a])
      PROVE  RowStep(a)
  BY <1>3, <1>4, SetTaskEffect DEF RowStep
<1>5. ASSUME TaskStep(a), tasks[a].status \notin TerminalStatuses,
             tasks'[a].status \in {"failed", "cancelled"},
             tasks'[a].by \in {"owner", "dispatcher", "claim"}
      PROVE  RowStep(a)
  BY <1>1, <1>3, <1>5 DEF RowStep, Agree, TerminalStatuses
<1>6. CASE Claim(a) /\ Task(a).claims < MaxClaims
  <2>1. Claimable(a) /\ tasks[a].claims + 1 \in 0..MaxClaims
    BY <1>1, <1>6, SizesAssumption DEF Claim, TaskRow
  <2> DEFINE c   == Task(a).claims + 1
             row == [Task(a) EXCEPT !.status = "running", !.claim = c, !.claims = c,
                                    !.lease = "live"]
  <2>2. SetTask(a, row)
    <3>1. Task(a).claims # MaxClaims
      BY <1>1, <1>6, SizesAssumption DEF TaskRow
    <3> QED  BY <1>6, <3>1 DEF Claim
  <2>3. row \in TaskRow
    BY <1>1, <2>1, StatusesAre DEF TaskRow
  <2>4. TaskMoves(tasks[a], row)
    BY <1>1, <2>1 DEF TaskMoves, Claimable, TerminalStatuses, TaskRow
  <2>5. Agree(row, analyses[a])
    <3>1. row.status = "running" /\ tasks[a].status \in {"queued", "running"}
      BY <1>1, <2>1 DEF Claimable, TaskRow
    <3> QED  BY <1>1, <3>1 DEF Agree, TerminalStatuses
  <2> HIDE DEF row
  <2> QED  BY <1>2, <1>4, <2>2, <2>3, <2>4, <2>5
<1>7. CASE Claim(a) /\ Task(a).claims = MaxClaims
  <2>1. SetTask(a, Ended(Task(a), "failed", "claim", FALSE)) /\ Claimable(a)
    <3>1. ~(Task(a).claims < MaxClaims)
      BY <1>7, SizesAssumption
    <3> QED  BY <1>7, <3>1 DEF Claim
  <2>2. tasks[a].status \notin TerminalStatuses
    BY <1>1, <2>1 DEF Claimable, TerminalStatuses
  <2>3. TaskStep(a) /\ tasks'[a].status = "failed" /\ tasks'[a].by = "claim"
    BY <1>0, <2>1, <2>2, EndTask DEF TerminalStatuses
  <2> QED  BY <1>2, <1>5, <2>2, <2>3
<1>8. CASE LeaseExpires(a)
  <2> DEFINE row == [Task(a) EXCEPT !.lease = "expired"]
  <2>1. SetTask(a, row)
    BY <1>8 DEF LeaseExpires
  <2>2. row \in TaskRow /\ TaskMoves(tasks[a], row) /\ Agree(row, analyses[a])
    BY <1>1 DEF TaskRow, TaskMoves, Agree
  <2> HIDE DEF row
  <2> QED  BY <1>2, <1>4, <2>1, <2>2
<1>9. CASE Cancel(a)
  <2>1. /\ tasks[a].status \notin TerminalStatuses
        /\ SetTask(a, Ended(Task(a), "cancelled", "owner", Task(a).claims = 0))
    BY <1>1, <1>9 DEF Cancel
  <2>2. (Task(a).claims = 0) \in BOOLEAN
    OBVIOUS
  <2>3. TaskStep(a) /\ tasks'[a].status = "cancelled" /\ tasks'[a].by = "owner"
    BY <1>0, <2>1, <2>2, EndTask DEF TerminalStatuses
  <2> QED  BY <1>2, <1>5, <2>1, <2>3
<1>10. CASE OutboxExhausted(a)
  <2>1. /\ tasks[a].status \notin TerminalStatuses
        /\ SetTask(a, Ended(Task(a), "failed", "dispatcher", TRUE))
    BY <1>1, <1>10 DEF OutboxExhausted, TerminalStatuses
  <2>2. TaskStep(a) /\ tasks'[a].status = "failed" /\ tasks'[a].by = "dispatcher"
    BY <1>0, <2>1, EndTask DEF TerminalStatuses
  <2> QED  BY <1>2, <1>5, <2>1, <2>2
<1>11. Claim(a) => Task(a).claims < MaxClaims \/ Task(a).claims = MaxClaims
  BY DEF Claim
<1> QED  BY <1>2, <1>6, <1>7, <1>8, <1>9, <1>10, <1>11

\* FailAnalysis with the end of the task that goes with it.
LEMMA FailEffect ==
  ASSUME RowsInv, NEW a \in DOMAIN analyses, FailAnalysis(a),
         NEW task, Alike(tasks[a], task), NEW release \in BOOLEAN,
         tasks[a].status \notin TerminalStatuses,
         SetTask(a, Ended(task, "failed", "operation", release))
  PROVE  RowStep(a)
<1>1. AnalysisStep(a) /\ analyses'[a].status = "failed" /\ analyses'[a].shown = FALSE
  BY SetAnalysisEffect DEF FailAnalysis
<1>2. "failed" \in TerminalStatuses
  BY DEF TerminalStatuses
<1>3. TaskStep(a) /\ tasks'[a].status = "failed"
  BY <1>2, EndTask
<1> QED  BY <1>1, <1>3 DEF RowStep, Agree

\* The end of a workflow: it publishes, or it fails; of a cancelled task, it fails.
LEMMA PublishEffect ==
  ASSUME RowsInv, NEW a \in DOMAIN analyses, NEW task, Alike(tasks[a], task),
         \/ tasks[a].status = "running" /\ PublishOrFail(a, task)
         \/ tasks[a].status \in {"running", "cancelled"} /\ FailInSession(a, task)
  PROVE  /\ RowStep(a)
         /\ analyses'[a].shown => StillCurrent(a)
         /\ tasks[a].status = "cancelled" => analyses'[a].status = "failed"
<1>1. /\ task.status = tasks[a].status
      /\ tasks[a].status = "running" => tasks[a].status \notin TerminalStatuses
  BY DEF Alike, TerminalStatuses
<1>2. CASE FailInSession(a, task) /\ tasks[a].status = "running"
  <2>1. FailAnalysis(a) /\ SetTask(a, Ended(task, "failed", "operation", FALSE))
    BY <1>1, <1>2 DEF FailInSession
  <2>2. RowStep(a)
    BY <1>1, <1>2, <2>1, FailEffect
  <2>3. analyses'[a].shown = FALSE
    BY <2>1, SetAnalysisEffect DEF FailAnalysis
  <2> QED  BY <1>2, <2>2, <2>3
<1>3. CASE FailInSession(a, task) /\ tasks[a].status = "cancelled"
  <2>1. AnalysisStep(a) /\ analyses'[a].status = "failed" /\ analyses'[a].shown = FALSE
    BY <1>3, SetAnalysisEffect DEF FailInSession, FailAnalysis
  <2>2. TaskStep(a) /\ tasks'[a] = tasks[a]
    BY <1>1, <1>3, TaskUnchanged DEF FailInSession
  <2> QED  BY <1>3, <2>1, <2>2 DEF RowStep, Agree
<1>4. CASE PublishRows(a, task) /\ StillCurrent(a) /\ tasks[a].status = "running"
  <2>1. AnalysisStep(a) /\ analyses'[a].status = "succeeded" /\ analyses'[a].shown = TRUE
    BY <1>4, SetAnalysisEffect DEF PublishRows
  <2>2. "succeeded" \in TerminalStatuses
    BY DEF TerminalStatuses
  <2>3. TaskStep(a) /\ tasks'[a].status = "succeeded"
    BY <1>1, <1>4, <2>2, EndTask DEF PublishRows
  <2> QED  BY <1>4, <2>1, <2>3 DEF RowStep, Agree
<1> QED  BY <1>2, <1>3, <1>4 DEF PublishOrFail

\* A worker that may settle an analysis: its claim is the one in the row, or the task was
\* cancelled and its run acknowledged, and then the analysis only fails.
MaySettle(a, c) ==
  \/ tasks[a].claim = c
  \/ /\ tasks[a].status = "cancelled" /\ tasks[a].claim = 0 /\ tasks[a].run # "none"
     /\ analyses'[a].status = "failed"

\* A step of a worker: it moves only itself, leaves what the owner writes alone, settles
\* the analysis only if it may, and shows only what is current.
WorkerStep(a, c) ==
  /\ work[<<a, c>>] # "none"
  /\ \E step \in Steps : Step(a, c, step)
  /\ UNCHANGED inputVars
  /\ analyses'[a].status # analyses[a].status => MaySettle(a, c)
  /\ analyses'[a].shown => analyses[a].shown \/ StillCurrent(a)

LEMMA ProcessEffect ==
  ASSUME RowsInv, NEW a \in DOMAIN analyses, NEW c \in 1..MaxClaims, Process(a, c)
  PROVE  RowStep(a) /\ WorkerStep(a, c)
<1>1. /\ Task(a) = tasks[a] /\ tasks[a] \in TaskRow
      /\ analyses[a] \in AnalysisRow /\ Agree(tasks[a], analyses[a])
  BY RowsOf
<1>0. \A run : Alike(tasks[a], Task(a)) /\ Alike(tasks[a], Settled(Task(a), run))
  BY <1>1, SettledAlike
<1>2. Claimed(a, c) => tasks[a].status = "running" /\ tasks[a].claim = c
  BY <1>1 DEF Claimed
<1>3. "running" \notin TerminalStatuses
  BY DEF TerminalStatuses
<1>4. ASSUME UNCHANGED analyses, NEW row \in TaskRow, SetTask(a, row),
             TaskMoves(tasks[a], row), Agree(row, analyses[a])
      PROVE  RowStep(a)
  BY <1>4, AnalysisUnchanged, SetTaskEffect DEF RowStep
<1>5. ASSUME work[<<a, c>>] # "none", NEW step \in Steps, Step(a, c, step),
             UNCHANGED <<inputVars, analyses>>
      PROVE  WorkerStep(a, c)
  BY <1>5 DEF WorkerStep
<1>6. CASE ReadContext(a, c)
  <2>1. RowStep(a)
    BY <1>1, <1>6, TaskUnchanged, AnalysisUnchanged DEF ReadContext, RowStep
  <2>2. PICK step \in {"changed", "rules", "match", "replayed"} : Step(a, c, step)
    BY <1>6 DEF ReadContext
  <2>3. step \in Steps /\ work[<<a, c>>] # "none"
    BY <1>6 DEF ReadContext, At, Steps
  <2> QED  BY <1>5, <1>6, <2>1, <2>2, <2>3 DEF ReadContext
<1>7. CASE RejectInput(a, c) \/ FailMatch(a, c)
  <2>1. PICK task :
          /\ Alike(tasks[a], task)
          /\ FailAnalysis(a) /\ SetTask(a, Ended(task, "failed", "operation", TRUE))
          /\ Claimed(a, c) /\ Step(a, c, "none") /\ UNCHANGED inputVars
          /\ work[<<a, c>>] # "none"
    BY <1>0, <1>7 DEF RejectInput, FailMatch, At
  <2>2. RowStep(a)
    BY <1>2, <1>3, <2>1, FailEffect
  <2>3. analyses'[a].shown = FALSE
    BY <2>1, SetAnalysisEffect DEF FailAnalysis
  <2> QED  BY <1>2, <2>1, <2>2, <2>3 DEF WorkerStep, MaySettle, Steps
<1>8. CASE ApplyRules(a, c)
  <2>1. /\ PublishOrFail(a, Task(a)) /\ Claimed(a, c) /\ Step(a, c, "none")
        /\ UNCHANGED inputVars /\ work[<<a, c>>] # "none"
    BY <1>8 DEF ApplyRules, At
  <2> QED  BY <1>0, <1>2, <2>1, PublishEffect DEF WorkerStep, MaySettle, Steps
<1>9. CASE StartRun(a, c)
  <2>1. PICK run \in Runs :
          /\ SetTask(a, [Task(a) EXCEPT !.run = run, !.ledger = "consumed"])
          /\ UNCHANGED <<inputVars, analyses>>
          /\ tasks[a].ledger # "released" /\ work[<<a, c>>] # "none"
          /\ \E step \in Steps : Step(a, c, step)
    BY <1>1, <1>9 DEF StartRun, At, Runs, Steps
  <2> DEFINE row == [Task(a) EXCEPT !.run = run, !.ledger = "consumed"]
  <2>2. row \in TaskRow /\ TaskMoves(tasks[a], row) /\ Agree(row, analyses[a])
    BY <1>1, <2>1 DEF TaskRow, TaskMoves, Agree
  <2>3. SetTask(a, row)
    BY <2>1
  <2>4. RowStep(a)
    <3> HIDE DEF row
    <3> QED  BY <1>4, <2>1, <2>2, <2>3
  <2> QED  BY <1>5, <2>1, <2>4
<1>10. ASSUME NEW usable \in BOOLEAN, ApplyMatches(a, c, usable)
       PROVE  RowStep(a) /\ WorkerStep(a, c)
  <2>1. /\ tasks[a].status = "running" /\ tasks[a].claim = c
        /\ UNCHANGED inputVars /\ work[<<a, c>>] # "none"
    BY <1>1, <1>10 DEF ApplyMatches, ReceiptTaken, At
  <2>2. CASE usable
    <3> DEFINE task == Settled(Task(a), "match")
               row  == [task EXCEPT !.lease = "live"]
    <3>1. SetAnalysis(a, "processing", FALSE) /\ SetTask(a, row) /\ Step(a, c, "suggest")
      BY <1>10, <2>2 DEF ApplyMatches
    <3>2. row \in TaskRow /\ TaskMoves(tasks[a], row) /\ row.status = "running"
      <4>1. Alike(tasks[a], task)
        BY <1>0
      <4> HIDE DEF task
      <4> QED  BY <2>1, <4>1 DEF Alike, TaskRow, TaskMoves
    <3>3. TaskStep(a) /\ tasks'[a] = row
      <4> HIDE DEF row
      <4> QED  BY <3>1, <3>2, SetTaskEffect
    <3>4. AnalysisStep(a) /\ analyses'[a].status = "processing" /\ analyses'[a].shown = FALSE
      BY <3>1, SetAnalysisEffect
    <3>5. RowStep(a)
      <4> HIDE DEF row
      <4> QED  BY <1>3, <3>2, <3>3, <3>4 DEF RowStep, Agree
    <3> QED  BY <2>1, <3>1, <3>4, <3>5 DEF WorkerStep, MaySettle, Steps
  <2>3. CASE ~usable
    <3>1. FailInSession(a, Settled(Task(a), "match")) /\ Step(a, c, "none")
      BY <1>10, <2>3 DEF ApplyMatches
    <3> QED  BY <1>0, <2>1, <3>1, PublishEffect DEF WorkerStep, MaySettle, Steps
  <2> QED  BY <2>2, <2>3
<1>11. ASSUME NEW usable \in BOOLEAN, ApplySuggestions(a, c, usable)
       PROVE  RowStep(a) /\ WorkerStep(a, c)
  <2>1. /\ tasks[a].status = "running" /\ tasks[a].claim = c
        /\ \/ PublishOrFail(a, Settled(Task(a), "suggest"))
           \/ FailInSession(a, Settled(Task(a), "suggest"))
        /\ Step(a, c, "none") /\ UNCHANGED inputVars /\ work[<<a, c>>] # "none"
    BY <1>1, <1>11 DEF ApplySuggestions, ReceiptTaken, At
  <2> QED  BY <1>0, <2>1, PublishEffect DEF WorkerStep, MaySettle, Steps
<1>12. CASE SeeCancelled(a, c)
  <2>1. /\ work[<<a, c>>] # "none" /\ \E step \in Steps : Step(a, c, step)
        /\ UNCHANGED <<inputVars, analyses>>
        /\ UNCHANGED tasks \/ SetTask(a, Acknowledged(Task(a)))
    BY <1>12 DEF SeeCancelled, At, Runs, Steps
  <2>2. WorkerStep(a, c)
    BY <1>5, <2>1
  <2>3. CASE UNCHANGED tasks
    BY <1>1, <2>1, <2>2, <2>3, TaskUnchanged, AnalysisUnchanged DEF RowStep
  <2>4. CASE SetTask(a, Acknowledged(Task(a)))
    <3> DEFINE row == Acknowledged(Task(a))
    <3>1. row \in TaskRow /\ TaskMoves(tasks[a], row) /\ Agree(row, analyses[a])
      <4>1. 0 \in 0..MaxClaims
        BY SizesAssumption
      <4>2. \/ row = [tasks[a] EXCEPT !.run = "none"]
            \/ row = [tasks[a] EXCEPT !.claim = 0, !.lease = "none"]
            \/ row = tasks[a]
        BY <1>1 DEF Acknowledged
      <4>3. row \in TaskRow
        BY <1>1, <4>1, <4>2 DEF TaskRow
      <4>4. /\ TaskMoves(tasks[a], row)
            /\ row.status = tasks[a].status /\ row.by = tasks[a].by
        BY <1>1, <4>2 DEF TaskRow, TaskMoves
      <4> HIDE DEF row
      <4> QED  BY <1>1, <4>3, <4>4 DEF Agree
    <3>2. SetTask(a, row)
      BY <2>4
    <3> HIDE DEF row
    <3> QED  BY <1>4, <2>1, <2>2, <3>1, <3>2
  <2> QED  BY <2>1, <2>3, <2>4
<1>13. CASE ApplyCancelled(a, c)
  <2>1. PICK run \in Runs :
          /\ CancelledTaken(a, c, run) /\ FailInSession(a, Settled(Task(a), run))
          /\ Step(a, c, "none") /\ UNCHANGED inputVars /\ work[<<a, c>>] # "none"
    BY <1>13 DEF ApplyCancelled, At
  <2>2. \/ tasks[a].status = "running" /\ tasks[a].claim = c
        \/ tasks[a].status = "cancelled" /\ tasks[a].claim = 0 /\ tasks[a].run # "none"
    BY <1>1, <2>1 DEF CancelledTaken, ReceiptTaken, Runs
  <2>3. /\ RowStep(a)
        /\ analyses'[a].shown => StillCurrent(a)
        /\ tasks[a].status = "cancelled" => analyses'[a].status = "failed"
    <3> DEFINE task == Settled(Task(a), run)
    <3>1. Alike(tasks[a], task) /\ FailInSession(a, task)
      BY <1>0, <2>1
    <3>2. tasks[a].status \in {"running", "cancelled"}
      BY <2>2
    <3> HIDE DEF task
    <3> QED  BY <3>1, <3>2, PublishEffect
  <2>4. MaySettle(a, c)
    BY <2>2, <2>3 DEF MaySettle
  <2>5. "none" \in Steps
    BY DEF Steps
  <2> QED  BY <2>1, <2>3, <2>4, <2>5 DEF WorkerStep
<1>14. CASE LeaveWork(a, c)
  <2>1. /\ work[<<a, c>>] # "none" /\ Step(a, c, "none")
        /\ UNCHANGED <<inputVars, analyses>>
    BY <1>14 DEF LeaveWork
  <2>2. WorkerStep(a, c)
    BY <1>5, <2>1 DEF Steps
  <2>3. CASE SetTask(a, [Task(a) EXCEPT !.lease = "expired"])
    <3> DEFINE row == [Task(a) EXCEPT !.lease = "expired"]
    <3>1. row \in TaskRow /\ TaskMoves(tasks[a], row) /\ Agree(row, analyses[a])
      BY <1>1 DEF TaskRow, TaskMoves, Agree
    <3>2. SetTask(a, row)
      BY <2>3
    <3> HIDE DEF row
    <3> QED  BY <1>4, <2>1, <2>2, <3>1, <3>2
  <2>4. CASE UNCHANGED tasks
    BY <1>1, <2>1, <2>2, <2>4, TaskUnchanged, AnalysisUnchanged DEF RowStep
  <2> QED  BY <1>14, <2>3, <2>4 DEF LeaveWork
<1> QED
  BY <1>6, <1>7, <1>8, <1>9, <1>10, <1>11, <1>12, <1>13, <1>14 DEF Process

-------------------------------------------------------------------------------
(* The invariant of the rows *)

WorkType == [(1..MaxAnalyses) \X (1..MaxClaims) -> Steps]

LEMMA RowsInit == MatchingInit => RowsInv
<1> SUFFICES ASSUME MatchingInit PROVE RowsInv
  OBVIOUS
<1>1. facts \in [Facts -> [value : Values, confirmed : BOOLEAN]] /\ confirmed \subseteq Reqs
  BY DEF MatchingInit
<1>2. ConfirmedFacts \in Contents
  BY <1>1 DEF ConfirmedFacts, Contents
<1>3. base \in Seq(Contents) /\ Len(base) = 1
  BY <1>2 DEF MatchingInit
<1>4. /\ target \in Seq(Contents) /\ Len(target) = 0
      /\ tasks \in Seq(TaskRow) /\ Len(tasks) = 0 /\ DOMAIN tasks = {}
      /\ analyses \in Seq(AnalysisRow) /\ Len(analyses) = 0 /\ DOMAIN analyses = {}
  BY DEF MatchingInit
<1>5. work \in WorkType
  BY DEF MatchingInit, WorkType, Steps
<1> QED
  BY <1>1, <1>3, <1>4, <1>5, SizesAssumption
  DEF RowsInv, MatchingTypeOK, RowsFit, MeteredReserved, WorkType

\* A step of the rows of one analysis keeps the invariant.
LEMMA RowStepInv ==
  ASSUME RowsInv, NEW a \in DOMAIN analyses, RowStep(a), UNCHANGED inputVars, work' \in WorkType
  PROVE  RowsInv'
<1>1. /\ tasks' \in Seq(TaskRow) /\ Len(tasks') = Len(tasks)
      /\ analyses' \in Seq(AnalysisRow) /\ Len(analyses') = Len(analyses)
      /\ DOMAIN tasks' = DOMAIN tasks /\ DOMAIN analyses' = DOMAIN analyses
      /\ DOMAIN tasks = DOMAIN analyses
  BY LenProperties DEF RowStep, TaskStep, AnalysisStep, RowsInv, RowsFit, MatchingTypeOK
<1>2. MatchingTypeOK'
  BY <1>1 DEF RowsInv, MatchingTypeOK, inputVars, WorkType
<1>3. ASSUME NEW b \in DOMAIN analyses
      PROVE  /\ analyses'[b].task = b
             /\ Agree(tasks'[b], analyses'[b])
             /\ tasks'[b].metered => tasks'[b].ledger # "none"
  <2>1. /\ analyses[b].task = b /\ Agree(tasks[b], analyses[b])
        /\ tasks[b].metered => tasks[b].ledger # "none"
    BY <1>1 DEF RowsInv, RowsFit, MeteredReserved
  <2>2. CASE b = a
    BY <2>1, <2>2 DEF RowStep, TaskStep, AnalysisStep, TaskMoves, SameRequest
  <2>3. CASE b # a
    BY <1>1, <2>1, <2>3 DEF RowStep, TaskStep, AnalysisStep
  <2> QED  BY <2>2, <2>3
<1>4. RowsFit'
  BY <1>1, <1>3 DEF RowsInv, RowsFit, inputVars
<1> QED  BY <1>1, <1>2, <1>3, <1>4 DEF RowsInv, MeteredReserved

\* What the owner writes besides: no row is touched.
LEMMA EditInv ==
  ASSUME RowsInv,
         \/ \E r \in Reqs : UpdateRequirement(r)
         \/ \E f \in Facts : ChangeFact(f)
         \/ SaveVersion
  PROVE  /\ RowsInv'
         /\ UNCHANGED <<tasks, analyses, work>>
         /\ Len(base') >= Len(base) /\ \A i \in DOMAIN base : base'[i] = base[i]
         /\ Len(target') >= Len(target) /\ \A i \in DOMAIN target : target'[i] = target[i]
         /\ target = <<>> => target' = <<>>
<1>1. UNCHANGED <<tasks, analyses, work>>
  BY DEF UpdateRequirement, ChangeFact, SaveVersion, Edit
<1>2. /\ confirmed \subseteq Reqs /\ facts \in [Facts -> [value : Values, confirmed : BOOLEAN]]
      /\ base \in Seq(Contents) /\ Len(base) \in 1..MaxVersions
      /\ target \in Seq(Contents) /\ Len(target) <= MaxVersions
      /\ DOMAIN base = 1..Len(base) /\ DOMAIN target = 1..Len(target)
      /\ Len(base) \in Nat /\ Len(target) \in Nat
  BY LenProperties DEF RowsInv, RowsFit, MatchingTypeOK
<1>3. confirmed' \subseteq Reqs
  BY <1>2 DEF UpdateRequirement, ChangeFact, SaveVersion
<1>4. facts' \in [Facts -> [value : Values, confirmed : BOOLEAN]]
  <2>1. ASSUME NEW f \in Facts, NEW value \in Values,
               facts' = [facts EXCEPT ![f] = [value |-> value, confirmed |-> FALSE]]
        PROVE  facts' \in [Facts -> [value : Values, confirmed : BOOLEAN]]
    BY <1>2, <2>1
  <2>2. ASSUME NEW f \in Facts, facts' = [facts EXCEPT ![f].confirmed = ~@]
        PROVE  facts' \in [Facts -> [value : Values, confirmed : BOOLEAN]]
    BY <1>2, <2>2
  <2> QED  BY <1>2, <2>1, <2>2 DEF UpdateRequirement, ChangeFact, SaveVersion
<1>5. ConfirmedFacts \in Contents
  BY <1>2 DEF ConfirmedFacts, Contents
<1>6. CASE UNCHANGED <<base, target>>
  BY <1>1, <1>2, <1>3, <1>4, <1>6 DEF RowsInv, RowsFit, MatchingTypeOK, MeteredReserved
<1>7. CASE /\ Len(base) < MaxVersions /\ base' = Append(base, ConfirmedFacts) /\ UNCHANGED target
  <2>1. /\ base' \in Seq(Contents) /\ Len(base') = Len(base) + 1
        /\ \A i \in 1..Len(base) : base'[i] = base[i]
    BY <1>2, <1>5, <1>7, AppendProperties
  <2>2. Len(base') \in 1..MaxVersions
    BY <1>2, <1>7, <2>1, SizesAssumption
  <2> QED
    BY <1>1, <1>2, <1>3, <1>4, <1>7, <2>1, <2>2
    DEF RowsInv, RowsFit, MatchingTypeOK, MeteredReserved
<1>8. CASE /\ Len(target) \in 1..(MaxVersions - 1)
           /\ target' = Append(target, ConfirmedFacts) /\ UNCHANGED base
  <2>1. /\ target' \in Seq(Contents) /\ Len(target') = Len(target) + 1
        /\ \A i \in 1..Len(target) : target'[i] = target[i]
    BY <1>2, <1>5, <1>8, AppendProperties
  <2>2. Len(target') <= MaxVersions /\ target # <<>>
    BY <1>2, <1>8, <2>1, SizesAssumption
  <2> QED
    BY <1>1, <1>2, <1>3, <1>4, <1>8, <2>1, <2>2
    DEF RowsInv, RowsFit, MatchingTypeOK, MeteredReserved
<1> QED  BY <1>6, <1>7, <1>8 DEF UpdateRequirement, ChangeFact, SaveVersion

\* Midnight writes one column of every task.
LEMMA NewDayInv ==
  ASSUME RowsInv, NewDay
  PROVE  /\ RowsInv'
         /\ Len(tasks') = Len(tasks)
         /\ \A i \in DOMAIN tasks : TaskMoves(tasks[i], tasks'[i])
<1>1. /\ tasks \in Seq(TaskRow) /\ DOMAIN tasks = 1..Len(tasks) /\ Len(tasks) \in Nat
      /\ \A i \in 1..Len(tasks) : tasks[i] \in TaskRow
  BY LenProperties, ElementOfSeq DEF RowsInv, MatchingTypeOK
<1>2. \A i \in 1..Len(tasks) :
        /\ tasks'[i] \in TaskRow /\ TaskMoves(tasks[i], tasks'[i])
        /\ tasks'[i].status = tasks[i].status /\ tasks'[i].by = tasks[i].by
  BY <1>1 DEF NewDay, TaskRow, TaskMoves
<1>3. tasks' \in Seq(TaskRow) /\ Len(tasks') = Len(tasks) /\ DOMAIN tasks' = DOMAIN tasks
  <2>1. tasks' \in [1..Len(tasks) -> TaskRow]
    BY <1>1, <1>2 DEF NewDay
  <2>2. tasks' \in Seq(TaskRow)
    BY <1>1, <2>1, SeqDef
  <2> QED  BY <1>1, <2>1, <2>2, LenProperties
<1>4. UNCHANGED <<inputVars, analyses, work>>
  BY DEF NewDay
<1>5. MatchingTypeOK'
  BY <1>3, <1>4 DEF RowsInv, MatchingTypeOK, inputVars
<1>6. RowsFit'
  BY <1>3, <1>4 DEF RowsInv, RowsFit, inputVars
<1>7. \A a \in DOMAIN analyses : Agree(tasks'[a], analyses[a])
  BY <1>1, <1>2, RowsOf DEF Agree
<1> QED  BY <1>1, <1>2, <1>3, <1>4, <1>5, <1>6, <1>7 DEF RowsInv, MeteredReserved, TaskMoves

-------------------------------------------------------------------------------
(* A new analysis *)

Sources == ({"base"} \X DOMAIN base) \cup ({"target"} \X DOMAIN target)

\* An analysis is made of a version of the targeted resume, which is there or copied.
LEMMA TargetVersionIs ==
  ASSUME RowsInv, NEW source \in Sources, NEW chosen, chosen = TargetVersion(source)
  PROVE  /\ chosen.target \in Seq(Contents) /\ Len(chosen.target) \in 1..MaxVersions
         /\ chosen.version \in {"target"} \X DOMAIN chosen.target
         /\ target # <<>> => chosen.target = target
         /\ target = <<>> => \E i \in DOMAIN base : chosen.target = <<base[i]>>
<1>1. /\ base \in Seq(Contents) /\ DOMAIN base = 1..Len(base)
      /\ target \in Seq(Contents) /\ DOMAIN target = 1..Len(target)
      /\ Len(target) \in Nat /\ Len(target) <= MaxVersions
  BY LenProperties DEF RowsInv, RowsFit
<1>2. target # <<>> => Len(target) \in 1..MaxVersions
  BY <1>1, EmptySeq
<1>3. CASE source[1] = "target"
  <2>1. chosen = [version |-> source, target |-> target]
    BY <1>3 DEF TargetVersion
  <2>2. source \in {"target"} \X DOMAIN target
    BY <1>3 DEF Sources
  <2> QED  BY <1>1, <1>2, <2>1, <2>2
<1>4. CASE source[1] = "base" /\ target # <<>>
  <2>1. CanonicalTarget = {<<"target", Len(target)>>}
    BY <1>4 DEF CanonicalTarget
  <2>2. chosen = [version |-> CHOOSE v \in CanonicalTarget : TRUE, target |-> target]
    BY <1>4, <2>1 DEF TargetVersion
  <2>3. chosen.version = <<"target", Len(target)>> /\ chosen.target = target
    BY <2>1, <2>2
  <2> QED  BY <1>1, <1>2, <1>4, <2>3
<1>5. CASE source[1] = "base" /\ target = <<>>
  <2>1. source[2] \in DOMAIN base
    BY <1>5 DEF Sources
  <2>2. chosen = [version |-> <<"target", 1>>, target |-> <<base[source[2]]>>]
    BY <1>5 DEF TargetVersion, CanonicalTarget
  <2>3. base[source[2]] \in Contents
    BY <1>1, <2>1, ElementOfSeq
  <2>4. <<base[source[2]]>> \in Seq(Contents) /\ Len(<<base[source[2]]>>) = 1
    BY <2>3
  <2>5. DOMAIN <<base[source[2]]>> = 1..1
    BY <2>4, LenProperties
  <2> QED  BY <1>5, <2>1, <2>2, <2>4, <2>5, SizesAssumption
<1> QED  BY <1>3, <1>4, <1>5 DEF Sources

LEMMA CreateEffect ==
  ASSUME RowsInv, NEW source \in Sources, NEW mode \in Modes, Create(source, mode)
  PROVE  /\ RowsInv'
         /\ UNCHANGED <<base, work>>
         /\ Len(tasks') = Len(tasks) + 1
         /\ \A i \in DOMAIN tasks : tasks'[i] = tasks[i]
         /\ tasks'[Len(tasks) + 1].metered => mode = "model"
         /\ Len(analyses') = Len(analyses) + 1
         /\ \A a \in DOMAIN analyses : analyses'[a] = analyses[a]
         /\ analyses'[Len(analyses) + 1].version \in {"target"} \X DOMAIN target'
         /\ target # <<>> => target' = target
         /\ target = <<>> => \E i \in DOMAIN base : target' = <<base[i]>>
<1>1. PICK chosen :
        /\ chosen = TargetVersion(source)
        /\ target' = chosen.target
        /\ analyses' = Append(analyses,
             [task |-> Len(tasks) + 1, version |-> chosen.version, mode |-> mode,
              input |-> Payload(chosen.version)', status |-> "queued", shown |-> FALSE])
  BY DEF Create
<1> DEFINE n    == Len(tasks) + 1
           task == NewTask(mode = "model")
           row  == [task |-> n, version |-> chosen.version, mode |-> mode,
                    input |-> Payload(chosen.version)', status |-> "queued", shown |-> FALSE]
<1>2. /\ tasks \in Seq(TaskRow) /\ analyses \in Seq(AnalysisRow)
      /\ Len(tasks) \in Nat /\ Len(analyses) = Len(tasks)
      /\ DOMAIN tasks = 1..Len(tasks) /\ DOMAIN analyses = 1..Len(analyses)
  BY LenProperties DEF RowsInv, RowsFit, MatchingTypeOK
<1>3. /\ target' \in Seq(Contents) /\ Len(target') \in 1..MaxVersions
      /\ DOMAIN target' = 1..Len(target')
      /\ chosen.version \in {"target"} \X DOMAIN target'
      /\ target # <<>> => target' = target
      /\ target = <<>> => \E i \in DOMAIN base : target' = <<base[i]>>
  BY <1>1, TargetVersionIs, LenProperties
<1>4. n \in 1..MaxAnalyses /\ UNCHANGED <<confirmed, facts, base, work>>
  BY <1>2, SizesAssumption DEF Create
<1>5. chosen.version \in Versions
  BY <1>3, SizesAssumption DEF Versions
<1>6. /\ task \in TaskRow
      /\ task.metered => mode = "model" /\ task.ledger # "none"
  <2>1. (mode = "model") \in BOOLEAN /\ 0 \in 0..MaxClaims
    BY SizesAssumption
  <2>2. ASSUME NEW m \in BOOLEAN
        PROVE  /\ NewTask(m) \in TaskRow /\ NewTask(m).metered = m
               /\ m => NewTask(m).ledger # "none"
    BY <2>1, StatusesAre DEF NewTask, TaskRow
  <2> QED  BY <2>1, <2>2
<1>7. Payload(chosen.version)' \in
        [version : Versions, requirements : SUBSET Reqs, evidence : SUBSET (Facts \X Values)]
  <2>1. chosen.version[1] = "target" /\ chosen.version[2] \in DOMAIN target'
    BY <1>3
  <2>2. Links(chosen.version)' = target'[chosen.version[2]]
    BY <2>1 DEF Links
  <2>3. target'[chosen.version[2]] \in Contents
    BY <1>3, <2>1, ElementOfSeq
  <2>4. Evidence(chosen.version)' \subseteq Links(chosen.version)'
    BY DEF Evidence
  <2>5. confirmed' \subseteq Reqs
    BY <1>4 DEF RowsInv, MatchingTypeOK
  <2> QED  BY <1>5, <2>2, <2>3, <2>4, <2>5 DEF Payload, Contents
<1>8. row \in AnalysisRow
  BY <1>4, <1>5, <1>7 DEF AnalysisRow, Modes
<1>9. Agree(task, row)
  BY <1>6 DEF Agree, NewTask, TerminalStatuses
<1> HIDE DEF task, row
<1>10. /\ tasks' \in Seq(TaskRow) /\ Len(tasks') = n
       /\ \A i \in 1..Len(tasks) : tasks'[i] = tasks[i]
       /\ tasks'[n] = task
  <2>1. tasks' = Append(tasks, task)
    BY DEF Create, task
  <2> QED  BY <1>2, <1>6, <2>1, AppendProperties
<1>11. /\ analyses' \in Seq(AnalysisRow) /\ Len(analyses') = n
       /\ \A a \in 1..Len(analyses) : analyses'[a] = analyses[a]
       /\ analyses'[n] = row
  <2>1. analyses' = Append(analyses, row)
    BY <1>1 DEF row
  <2> QED  BY <1>2, <1>8, <2>1, AppendProperties
<1>12. DOMAIN tasks' = 1..n /\ DOMAIN analyses' = 1..n
  BY <1>10, <1>11, LenProperties
<1>13. row.task = n /\ row.version = chosen.version
  BY DEF row
<1>14. MatchingTypeOK'
  BY <1>4, <1>10, <1>11 DEF RowsInv, MatchingTypeOK
<1>15. ASSUME NEW a \in 1..n
       PROVE  /\ analyses'[a].task = a /\ Agree(tasks'[a], analyses'[a])
              /\ tasks'[a].metered => tasks'[a].ledger # "none"
  <2>1. CASE a = n
    BY <1>6, <1>9, <1>10, <1>11, <1>13, <2>1
  <2>2. CASE a # n
    <3>1. a \in DOMAIN tasks /\ a \in DOMAIN analyses
      BY <1>2, <2>2
    <3> QED  BY <1>2, <1>10, <1>11, <3>1 DEF RowsInv, RowsFit, MeteredReserved
  <2> QED  BY <2>1, <2>2
<1>16. RowsFit'
  BY <1>3, <1>4, <1>10, <1>11, <1>12, <1>15 DEF RowsInv, RowsFit
<1> QED
  BY <1>2, <1>3, <1>4, <1>6, <1>10, <1>11, <1>12, <1>13, <1>14, <1>15, <1>16
  DEF RowsInv, MeteredReserved

-------------------------------------------------------------------------------
(* The steps of the specification *)

\* Every step is an edit, midnight, a new analysis, or a step of the rows of one analysis.
LEMMA StepCases ==
  ASSUME MatchingNext
  PROVE  \/ (\E r \in Reqs : UpdateRequirement(r)) \/ (\E f \in Facts : ChangeFact(f)) \/ SaveVersion
         \/ NewDay
         \/ \E source \in Sources, mode \in Modes : Create(source, mode)
         \/ \E a \in DOMAIN analyses :
              Claim(a) \/ LeaseExpires(a) \/ Cancel(a) \/ OutboxExhausted(a)
         \/ \E a \in DOMAIN analyses, c \in 1..MaxClaims : Process(a, c)
<1>1. ASSUME NEW mode \in Modes, NEW i \in DOMAIN base, Create(<<"base", i>>, mode)
      PROVE  \E source \in Sources : Create(source, mode)
  BY <1>1 DEF Sources
<1>2. ASSUME NEW mode \in Modes, NEW i \in DOMAIN target, Create(<<"target", i>>, mode)
      PROVE  \E source \in Sources : Create(source, mode)
  BY <1>2 DEF Sources
<1> QED  BY <1>1, <1>2 DEF MatchingNext

\* A worker is always at a step that exists.
LEMMA WorkTyped ==
  ASSUME RowsInv, NEW a \in DOMAIN analyses,
         \/ Claim(a) \/ LeaseExpires(a) \/ Cancel(a) \/ OutboxExhausted(a)
         \/ \E c \in 1..MaxClaims : WorkerStep(a, c)
  PROVE  work' \in WorkType
<1>1. work \in WorkType /\ Task(a) \in TaskRow
  BY RowsOf DEF RowsInv, MatchingTypeOK, WorkType
<1>2. ASSUME NEW c, NEW step \in Steps, Step(a, c, step)
      PROVE  work' \in WorkType
  BY <1>1, <1>2 DEF Step, WorkType
<1>3. CASE Claim(a)
  <2>1. "context" \in Steps
    BY DEF Steps
  <2> QED  BY <1>1, <1>2, <1>3, <2>1 DEF Claim
<1>4. CASE LeaseExpires(a) \/ Cancel(a) \/ OutboxExhausted(a)
  BY <1>1, <1>4 DEF LeaseExpires, Cancel, OutboxExhausted
<1>5. CASE \E c \in 1..MaxClaims : WorkerStep(a, c)
  BY <1>2, <1>5 DEF WorkerStep
<1> QED  BY <1>3, <1>4, <1>5

LEMMA RowsStep == RowsInv /\ [MatchingNext]_vars => RowsInv'
<1> SUFFICES ASSUME RowsInv, [MatchingNext]_vars PROVE RowsInv'
  OBVIOUS
<1>1. CASE UNCHANGED vars
  BY <1>1 DEF vars, RowsInv, MatchingTypeOK, RowsFit, MeteredReserved
<1>2. CASE MatchingNext
  <2>1. ASSUME NEW a \in DOMAIN analyses,
               Claim(a) \/ LeaseExpires(a) \/ Cancel(a) \/ OutboxExhausted(a)
        PROVE  RowsInv'
    <3>1. RowStep(a) /\ UNCHANGED inputVars
      BY <2>1, OwnStepEffect
    <3>2. work' \in WorkType
      BY <2>1, WorkTyped
    <3> QED  BY <3>1, <3>2, RowStepInv
  <2>2. ASSUME NEW a \in DOMAIN analyses, NEW c \in 1..MaxClaims, Process(a, c)
        PROVE  RowsInv'
    <3>1. RowStep(a) /\ WorkerStep(a, c)
      BY <2>2, ProcessEffect
    <3>2. UNCHANGED inputVars /\ work' \in WorkType
      BY <3>1, WorkTyped DEF WorkerStep
    <3> QED  BY <3>1, <3>2, RowStepInv
  <2> QED  BY <1>2, <2>1, <2>2, StepCases, EditInv, NewDayInv, CreateEffect
<1> QED  BY <1>1, <1>2

\* The rows keep their types, and each analysis agrees with its task, in every behaviour
\* and for every size of the tables (db/models.py, matching/service.py).
THEOREM RowsCorrect == MatchingSpec => []RowsInv
<1> QED  BY RowsInit, RowsStep, PTL DEF MatchingSpec

-------------------------------------------------------------------------------
(* The base resume *)

LEMMA BaseStep == RowsInv /\ BaseIsLeftAlone /\ [MatchingNext]_vars => BaseIsLeftAlone'
<1> SUFFICES ASSUME RowsInv, BaseIsLeftAlone, [MatchingNext]_vars PROVE BaseIsLeftAlone'
  OBVIOUS
<1>1. /\ base \in Seq(Contents) /\ Len(base) \in Nat \ {0} /\ DOMAIN base = 1..Len(base)
      /\ target \in Seq(Contents) /\ Len(target) \in Nat /\ DOMAIN target = 1..Len(target)
      /\ target # <<>> => Len(target) \in Nat \ {0}
      /\ analyses \in Seq(AnalysisRow) /\ DOMAIN analyses = 1..Len(analyses)
      /\ Len(analyses) \in Nat
  BY LenProperties, EmptySeq, SizesAssumption DEF RowsInv, RowsFit, MatchingTypeOK
<1>2. CASE UNCHANGED vars
  BY <1>2 DEF vars, BaseIsLeftAlone
<1>3. CASE (\E r \in Reqs : UpdateRequirement(r)) \/ (\E f \in Facts : ChangeFact(f)) \/ SaveVersion
  <2>1. /\ RowsInv' /\ UNCHANGED analyses
        /\ Len(base') >= Len(base) /\ \A i \in DOMAIN base : base'[i] = base[i]
        /\ Len(target') >= Len(target) /\ \A i \in DOMAIN target : target'[i] = target[i]
        /\ target = <<>> => target' = <<>>
    BY <1>3, EditInv
  <2>2. DOMAIN base' = 1..Len(base') /\ DOMAIN target' = 1..Len(target')
        /\ Len(base') \in Nat /\ Len(target') \in Nat
    BY <2>1, LenProperties DEF RowsInv, RowsFit
  <2>3. DOMAIN base \subseteq DOMAIN base' /\ DOMAIN target \subseteq DOMAIN target'
    BY <1>1, <2>1, <2>2
  <2>4. target' # <<>> => target'[1] \in {base'[i] : i \in DOMAIN base'}
    BY <1>1, <2>1, <2>3 DEF BaseIsLeftAlone
  <2> QED  BY <2>1, <2>3, <2>4 DEF BaseIsLeftAlone
<1>4. CASE NewDay
  BY <1>4 DEF NewDay, inputVars, BaseIsLeftAlone
<1>5. ASSUME NEW source \in Sources, NEW mode \in Modes, Create(source, mode)
      PROVE  BaseIsLeftAlone'
  <2>1. /\ RowsInv' /\ UNCHANGED base
        /\ Len(analyses') = Len(analyses) + 1
        /\ \A a \in DOMAIN analyses : analyses'[a] = analyses[a]
        /\ analyses'[Len(analyses) + 1].version \in {"target"} \X DOMAIN target'
        /\ target # <<>> => target' = target
        /\ target = <<>> => \E i \in DOMAIN base : target' = <<base[i]>>
    BY <1>5, CreateEffect
  <2>2. DOMAIN analyses' = 1..(Len(analyses) + 1)
    BY <2>1, LenProperties DEF RowsInv, MatchingTypeOK
  <2>3. target' # <<>> => target'[1] \in {base'[i] : i \in DOMAIN base'}
    BY <2>1 DEF BaseIsLeftAlone
  <2>4. target = <<>> => DOMAIN analyses = {}
    BY <1>1 DEF BaseIsLeftAlone
  <2>5. \A a \in DOMAIN analyses : analyses[a].version \in {"target"} \X DOMAIN target'
    BY <2>1, <2>4 DEF BaseIsLeftAlone
  <2> QED  BY <1>1, <2>1, <2>2, <2>3, <2>5 DEF BaseIsLeftAlone
<1>6. ASSUME NEW a \in DOMAIN analyses, RowStep(a), UNCHANGED inputVars
      PROVE  BaseIsLeftAlone'
  <2>1. DOMAIN analyses' = DOMAIN analyses
    BY <1>1, <1>6, LenProperties DEF RowStep, AnalysisStep
  <2>2. \A b \in DOMAIN analyses : analyses'[b].version = analyses[b].version
    BY <1>6 DEF RowStep, AnalysisStep, SameRequest
  <2> QED  BY <1>6, <2>1, <2>2 DEF inputVars, BaseIsLeftAlone
<1>7. CASE MatchingNext
  <2>1. ASSUME NEW a \in DOMAIN analyses,
               \/ Claim(a) \/ LeaseExpires(a) \/ Cancel(a) \/ OutboxExhausted(a)
               \/ \E c \in 1..MaxClaims : Process(a, c)
        PROVE  RowStep(a) /\ UNCHANGED inputVars
    BY <2>1, OwnStepEffect, ProcessEffect DEF WorkerStep
  <2> QED  BY <1>3, <1>4, <1>5, <1>6, <1>7, <2>1, StepCases
<1> QED  BY <1>2, <1>7

\* The rows of an analysis, of its task and of the resume it is made for agree, whoever
\* ends them and in whatever order (matching/service.py, workers/dispatcher.py:186).
THEOREM AnalysesCorrect == MatchingSpec => []AnalysesConsistent
<1>1. MatchingInit => BaseIsLeftAlone
  BY DEF MatchingInit, BaseIsLeftAlone
<1>2. MatchingSpec => []BaseIsLeftAlone
  BY <1>1, BaseStep, RowsCorrect, PTL DEF MatchingSpec
<1>3. RowsInv /\ BaseIsLeftAlone => AnalysesConsistent
  <2> SUFFICES ASSUME RowsInv, BaseIsLeftAlone PROVE AnalysesConsistent
    OBVIOUS
  <2>1. \A a \in DOMAIN analyses : Task(a) = tasks[a] /\ Agree(tasks[a], analyses[a])
    BY RowsOf
  <2>2. AnalysisTellsTask /\ LeftWaiting
    BY <2>1 DEF AnalysisTellsTask, LeftWaiting, Agree
  <2> QED  BY <2>2 DEF RowsInv, AnalysesConsistent
<1> QED  BY <1>2, <1>3, RowsCorrect, PTL

-------------------------------------------------------------------------------
(* The limits *)

\* The tasks of a table are finitely many, and so are those that are counted.
LEMMA CountsFinite ==
  ASSUME RowsInv
  PROVE  /\ IsFiniteSet(ChargedToday(tasks)) /\ Cardinality(ChargedToday(tasks)) \in Nat
         /\ IsFiniteSet(Live(tasks)) /\ Cardinality(Live(tasks)) \in Nat
<1>1. DOMAIN tasks = 1..Len(tasks) /\ Len(tasks) \in Nat
  BY LenProperties DEF RowsInv, MatchingTypeOK
<1>2. IsFiniteSet(DOMAIN tasks)
  BY <1>1, FS_Interval
<1>3. ChargedToday(tasks) \subseteq DOMAIN tasks /\ Live(tasks) \subseteq DOMAIN tasks
  BY DEF ChargedToday, Live
<1> QED  BY <1>2, <1>3, FS_Subset, FS_CardinalityType

\* A step that creates no task adds none to those that are counted.
LEMMA MovesKeepLimits ==
  ASSUME RowsInv, RowsInv', LimitsHold,
         Len(tasks') = Len(tasks), \A i \in DOMAIN tasks : TaskMoves(tasks[i], tasks'[i])
  PROVE  LimitsHold'
<1>1. DOMAIN tasks' = DOMAIN tasks
  BY LenProperties DEF RowsInv, MatchingTypeOK
<1>2. ChargedToday(tasks') \subseteq ChargedToday(tasks)
  <2>1. \A i \in DOMAIN tasks : tasks[i].ledger \in {"none", "reserved", "consumed", "released"}
    <3>1. \A i \in DOMAIN tasks : tasks[i] \in TaskRow
      BY LenProperties, ElementOfSeq DEF RowsInv, MatchingTypeOK
    <3> QED  BY <3>1 DEF TaskRow
  <2>2. \A i \in DOMAIN tasks : tasks[i].metered => tasks[i].ledger # "none"
    BY DEF RowsInv, MeteredReserved
  <2> QED  BY <1>1, <2>1, <2>2 DEF ChargedToday, TaskMoves
<1>3. Live(tasks') \subseteq Live(tasks)
  BY <1>1 DEF Live, TaskMoves
<1>4. /\ Cardinality(ChargedToday(tasks')) <= Cardinality(ChargedToday(tasks))
      /\ Cardinality(Live(tasks')) <= Cardinality(Live(tasks))
      /\ Cardinality(ChargedToday(tasks')) \in Nat /\ Cardinality(Live(tasks')) \in Nat
  BY <1>2, <1>3, CountsFinite, FS_Subset, FS_CardinalityType
<1> QED  BY <1>4, CountsFinite, LimitsAssumption DEF LimitsHold

\* A new task is admitted below both limits, or not metered, and adds one to each count.
LEMMA CreateKeepsLimits ==
  ASSUME RowsInv, LimitsHold,
         NEW source \in Sources, NEW mode \in Modes, Create(source, mode)
  PROVE  LimitsHold'
<1> DEFINE n == Len(tasks) + 1
<1>1. /\ Len(tasks') = n /\ RowsInv'
      /\ \A i \in DOMAIN tasks : tasks'[i] = tasks[i]
      /\ tasks'[n].metered => mode = "model"
  BY CreateEffect
<1>2. DOMAIN tasks = 1..Len(tasks) /\ DOMAIN tasks' = 1..n /\ Len(tasks) \in Nat
  BY <1>1, LenProperties DEF RowsInv, MatchingTypeOK
<1>3. DOMAIN tasks' = DOMAIN tasks \cup {n}
  BY <1>2
<1>4. CASE mode = "model"
  <2>1. Cardinality(ChargedToday(tasks)) < PerDay /\ Cardinality(Live(tasks)) < Concurrent
    BY <1>4 DEF Create, Admitted, WithinLimits, Charged, ChargedToday
  <2>2. /\ ChargedToday(tasks') \subseteq ChargedToday(tasks) \cup {n}
        /\ Live(tasks') \subseteq Live(tasks) \cup {n}
    BY <1>1, <1>3 DEF ChargedToday, Live
  <2>3. /\ IsFiniteSet(ChargedToday(tasks) \cup {n}) /\ IsFiniteSet(Live(tasks) \cup {n})
        /\ Cardinality(ChargedToday(tasks) \cup {n}) <= Cardinality(ChargedToday(tasks)) + 1
        /\ Cardinality(Live(tasks) \cup {n}) <= Cardinality(Live(tasks)) + 1
    <3>1. ASSUME NEW S, IsFiniteSet(S), Cardinality(S) \in Nat
          PROVE  IsFiniteSet(S \cup {n}) /\ Cardinality(S \cup {n}) <= Cardinality(S) + 1
      <4>1. /\ IsFiniteSet(S \cup {n})
            /\ Cardinality(S \cup {n}) = IF n \in S THEN Cardinality(S) ELSE Cardinality(S) + 1
        BY <3>1, FS_AddElement, Zenon
      <4> QED  BY <3>1, <4>1
    <3> QED  BY <3>1, CountsFinite
  <2>4. /\ Cardinality(ChargedToday(tasks')) <= Cardinality(ChargedToday(tasks) \cup {n})
        /\ Cardinality(Live(tasks')) <= Cardinality(Live(tasks) \cup {n})
        /\ Cardinality(ChargedToday(tasks')) \in Nat /\ Cardinality(Live(tasks')) \in Nat
        /\ Cardinality(ChargedToday(tasks) \cup {n}) \in Nat
        /\ Cardinality(Live(tasks) \cup {n}) \in Nat
    BY <2>2, <2>3, FS_Subset, FS_CardinalityType
  <2> QED  BY <2>1, <2>3, <2>4, CountsFinite, LimitsAssumption DEF LimitsHold
<1>5. CASE mode # "model"
  <2>1. ChargedToday(tasks') = ChargedToday(tasks) /\ Live(tasks') = Live(tasks)
    BY <1>1, <1>2, <1>3, <1>5 DEF ChargedToday, Live
  <2> QED  BY <2>1 DEF LimitsHold
<1> QED  BY <1>4, <1>5

LEMMA LimitsStep == RowsInv /\ RowsInv' /\ LimitsHold /\ [MatchingNext]_vars => LimitsHold'
<1> SUFFICES ASSUME RowsInv, RowsInv', LimitsHold, [MatchingNext]_vars PROVE LimitsHold'
  OBVIOUS
<1>1. CASE UNCHANGED tasks
  BY <1>1 DEF LimitsHold
<1>2. ASSUME NEW a \in DOMAIN analyses, RowStep(a)
      PROVE  LimitsHold'
  <2>1. \A i \in DOMAIN tasks : TaskMoves(tasks[i], tasks'[i])
    BY <1>2 DEF RowStep, TaskStep, TaskMoves
  <2> QED  BY <1>2, <2>1, MovesKeepLimits DEF RowStep, TaskStep
<1>3. CASE NewDay
  BY <1>3, NewDayInv, MovesKeepLimits
<1>4. CASE (\E r \in Reqs : UpdateRequirement(r)) \/ (\E f \in Facts : ChangeFact(f)) \/ SaveVersion
  BY <1>1, <1>4, EditInv
<1> QED
  BY <1>1, <1>2, <1>3, <1>4, StepCases, OwnStepEffect, ProcessEffect, CreateKeepsLimits DEF vars

\* The AI tasks of an owner stay within both limits at any moment and for any limits,
\* however many analyses are admitted, repeated, cancelled or lost (usage/service.py).
THEOREM LimitsCorrect == MatchingSpec => []LimitsHold
<1>1. MatchingInit => LimitsHold
  <2> SUFFICES ASSUME MatchingInit PROVE LimitsHold
    OBVIOUS
  <2>1. ChargedToday(tasks) = {} /\ Live(tasks) = {}
    BY DEF MatchingInit, ChargedToday, Live
  <2> QED  BY <2>1, FS_EmptySet, LimitsAssumption DEF LimitsHold
<1> QED  BY <1>1, LimitsStep, RowsCorrect, PTL DEF MatchingSpec

-------------------------------------------------------------------------------
(* Publication *)

\* Nothing is published unless requirements, evidence and version are, in the transaction
\* that publishes it, what the analysis was requested for (matching/service.py:1075).
THEOREM PublicationCorrect == MatchingSpec => PublishedIfCurrent
<1>1. ASSUME RowsInv, [MatchingNext]_vars, NEW a \in DOMAIN analyses,
             ~analyses[a].shown, analyses'[a].shown
      PROVE  Payload(analyses[a].version) = analyses[a].input
  <2>1. CASE UNCHANGED analyses
    BY <1>1, <2>1
  <2>2. ASSUME NEW b \in DOMAIN analyses, NEW c \in 1..MaxClaims, Process(b, c)
        PROVE  Payload(analyses[a].version) = analyses[a].input
    <3>1. RowStep(b) /\ WorkerStep(b, c)
      BY <1>1, <2>2, ProcessEffect
    <3>2. a = b
      BY <1>1, <3>1 DEF RowStep, AnalysisStep
    <3> QED  BY <1>1, <3>1, <3>2 DEF WorkerStep, StillCurrent
  <2>3. ASSUME NEW source \in Sources, NEW mode \in Modes, Create(source, mode)
        PROVE  analyses'[a] = analyses[a]
    BY <1>1, <2>3, CreateEffect
  <2> QED
    BY <1>1, <2>1, <2>2, <2>3, StepCases, EditInv, OwnStepEffect DEF vars, NewDay
<1>2. RowsInv /\ [MatchingNext]_vars =>
        \A a \in DOMAIN analyses :
          ~analyses[a].shown /\ analyses'[a].shown => Payload(analyses[a].version) = analyses[a].input
  BY <1>1
<1> QED  BY <1>2, RowsCorrect, PTL DEF MatchingSpec, PublishedIfCurrent

\* A worker settles an analysis only while it holds the claim in the row of the task; one
\* that was overtaken may record the analysis of a cancelled task as failed, after the
\* cancelled run was acknowledged, and nothing else (tasks/service.py:950).
THEOREM HolderCorrect == MatchingSpec => OnlyTheHolderPublishes
<1> DEFINE SettledBy(a, c) ==
             /\ work[<<a, c>>] # "none"
             /\ \A d \in (1..MaxClaims) \ {c} : work'[<<a, d>>] = work[<<a, d>>]
             /\ \/ Task(a).claim = c
                \/ /\ Task(a).status = "cancelled" /\ Task(a).claim = 0 /\ Task(a).run # "none"
                   /\ analyses'[a].status = "failed"
<1>1. ASSUME RowsInv, [MatchingNext]_vars, NEW a \in DOMAIN analyses,
             analyses'[a].status # analyses[a].status
      PROVE  \E c \in 1..MaxClaims : SettledBy(a, c)
  <2>1. CASE UNCHANGED analyses
    BY <1>1, <2>1
  <2>2. ASSUME NEW b \in DOMAIN analyses, NEW c \in 1..MaxClaims, Process(b, c)
        PROVE  SettledBy(a, c)
    <3>1. RowStep(b) /\ WorkerStep(b, c)
      BY <1>1, <2>2, ProcessEffect
    <3>2. a = b
      BY <1>1, <3>1 DEF RowStep, AnalysisStep
    <3>3. Task(a) = tasks[a]
      BY <1>1, RowsOf
    <3>4. PICK step : Step(a, c, step)
      BY <3>1, <3>2 DEF WorkerStep
    <3>5. a \in 1..MaxAnalyses
      BY <1>1, RowsOf, SizesAssumption, LenProperties DEF RowsInv, RowsFit, MatchingTypeOK
    <3>6. \A d \in (1..MaxClaims) \ {c} : work'[<<a, d>>] = work[<<a, d>>]
      BY <1>1, <3>4, <3>5 DEF Step, RowsInv, MatchingTypeOK
    <3> QED  BY <1>1, <3>1, <3>2, <3>3, <3>6 DEF WorkerStep, MaySettle
  <2>3. ASSUME NEW source \in Sources, NEW mode \in Modes, Create(source, mode)
        PROVE  analyses'[a] = analyses[a]
    BY <1>1, <2>3, CreateEffect
  <2> QED
    BY <1>1, <2>1, <2>2, <2>3, StepCases, EditInv, OwnStepEffect DEF vars, NewDay
<1>2. RowsInv /\ [MatchingNext]_vars =>
        \A a \in DOMAIN analyses :
          analyses'[a].status # analyses[a].status => \E c \in 1..MaxClaims : SettledBy(a, c)
  BY <1>1
<1> QED  BY <1>2, RowsCorrect, PTL DEF MatchingSpec, OnlyTheHolderPublishes
===============================================================================
