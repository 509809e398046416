-------------------------------- MODULE Intake --------------------------------
(***************************************************************************)
(* The guided intake of one owner (intake/service.py): sessions of         *)
(* questions and answers, the analysis of each answer by a model, the fact *)
(* candidates it finds, the owner's decisions on them, and the draft of a  *)
(* base resume from the facts that were confirmed.                         *)
(*                                                                         *)
(* Each action is one transaction.  A request of the owner names the       *)
(* version of the session it was made for and is refused, which is no      *)
(* step, when that is not the current one; repeated requests are answered  *)
(* from their record (Idempotency).  The analysis and the draft run in     *)
(* tasks (TaskService), here reduced to their status: the worker that      *)
(* holds the claim is the only one whose transaction is accepted.          *)
(***************************************************************************)
EXTENDS Naturals, Sequences, FiniteSets, Functions, TaskStates

CONSTANTS
  Spans,          \* the ranges of an answer a candidate may be made from
  Roles,          \* the role questions an answered probe may lead to
  None,
  MaxSessions, MaxAnswers, MaxDrafts, MaxDisturbances   \* bounds

Chain  == <<"course_probe", "work_probe", "community_probe", "project_probe",
            "skill_probe", "achievement_probe", "experience_next">>
Detail == <<"experience_challenge", "experience_action", "experience_collaboration",
            "experience_result", "experience_learning", "experience_next">>

ASSUME RolesAssumption  == Roles \subseteq {"course_role", "work_role", "community_role", "project_role"}
ASSUME IntakeAssumption == {MaxSessions, MaxAnswers, MaxDrafts, MaxDisturbances} \subseteq Nat

VARIABLES
  sessions,   \* IntakeSession rows: [status, key, question, draft, resume]
  answers,    \* answers[s]: its IntakeAnswer rows: [question, state, analysis, task, snapshot]
  candidates, \* FactCandidate rows: <<s, i, span>> -> [status, mode] or None
  facts,      \* the Fact rows made from them: [value, confirmed] or None
  disturbances  \* how many tasks failed or were cancelled, and facts were changed elsewhere

intakeVars == <<sessions, answers, candidates, facts, disturbances>>

Ids == (1..MaxSessions) \X (1..MaxAnswers) \X Spans

\* Analyses that are on their way, or wait for the owner.
Busy == {"queued", "running", "waiting_for_confirmation"}

Questions == {"experience_radar"} \cup Range(Chain) \cup Range(Detail) \cup Roles

Values == {"decided", "changed"}

\* IntakeSession: key is active_owner_key, draft what generation_task_id leads to, resumes
\* counts the resumes the session was completed into.
DraftRow == [mode : {"model", "rule_fallback"}, task : Statuses, facts : SUBSET (Ids \X Values)]

SessionRow ==
  [status : {"active", "drafting", "completed", "abandoned"}, key : BOOLEAN,
   question : Questions \cup {None}, drafts : 0..MaxDrafts, resumes : 0..1,
   draft : {None} \cup DraftRow]

AnswerRow ==
  [question : Questions, state : {"answered", "skipped"}, role : Roles,
   analysis : Busy \cup {"idle", "completed", "failed"}, task : Statuses \cup {None},
   snapshot : BOOLEAN]

\* What an answer may be found to hold: ranges of it, each with what may be decided on it
\* (_validated_candidates, _candidate_decision_mode).
DecisionModes == {"accept_or_edit", "edit_only"}
Findings      == UNION {[spans -> DecisionModes] : spans \in SUBSET Spans}

CandidateRow == [status : {"pending", "accepted", "edited", "rejected"}, mode : DecisionModes]

FactRow == [value : Values, confirmed : BOOLEAN]

ASSUME NoneAssumption == None \notin Questions \cup Statuses \cup CandidateRow \cup FactRow \cup DraftRow

-------------------------------------------------------------------------------
(* Questions *)

IndexIn(seq, question) == {k \in DOMAIN seq : seq[k] = question}

\* _next_question and _role_question; None after the last one.
NextQuestion(question, state, role) ==
  CASE question = "experience_radar" -> IF state = "answered" THEN role ELSE Chain[1]
    [] IndexIn(Chain, question) \ {7} # {} ->
         IF state = "answered" THEN role
         ELSE Chain[1 + CHOOSE k \in IndexIn(Chain, question) : TRUE]
    [] question \in {"course_role", "work_role", "community_role", "project_role"} -> Detail[1]
    [] IndexIn(Detail, question) \ {6} # {} ->
         Detail[1 + CHOOSE k \in IndexIn(Detail, question) : TRUE]
    [] OTHER -> None

-------------------------------------------------------------------------------
Open(s)   == sessions[s].status \in {"active", "drafting"}
Last(s)   == Len(answers[s])
Given     == UNION {{s} \X DOMAIN answers[s] : s \in DOMAIN sessions}
Latest(s) == {i \in DOMAIN answers[s] :        \* _latest_analysis_answer
                /\ answers[s][i].state = "answered"
                /\ \A j \in DOMAIN answers[s] : answers[s][j].state = "answered" => j <= i}

CandidatesOf(s, i) == {id \in Ids : id[1] = s /\ id[2] = i /\ candidates[id] # None}
PendingOf(s, i)    == {id \in CandidatesOf(s, i) : candidates[id].status = "pending"}
PendingIn(s)       == UNION {PendingOf(s, i) : i \in DOMAIN answers[s]}

\* row.fact_ids are the facts made from the candidates of the session.
FactsOf(s)  == {id \in Ids : id[1] = s /\ facts[id] # None}
ReadyFacts(s) == {<<id, facts[id].value>> : id \in {f \in FactsOf(s) : facts[f].confirmed}}

SetSession(s, row)   == sessions' = [sessions EXCEPT ![s] = row]
SetAnswer(s, i, row) == answers' = [answers EXCEPT ![s][i] = row]

\* A task that fails or is cancelled, or a fact that is changed: MaxDisturbances times.
Disturbed ==
  /\ disturbances < MaxDisturbances
  /\ disturbances' = disturbances + 1

\* _clear_analysis_snapshot
WithoutSnapshot(row) == [row EXCEPT !.snapshot = FALSE]

\* _analysis_next_question: the question by rule; the model may only word it.
QuestionAfter(row) == NextQuestion(row.question, "answered", row.role)

NewSession ==
  [status |-> "active", key |-> TRUE, question |-> "experience_radar",
   draft |-> None, drafts |-> 0, resumes |-> 0]

-------------------------------------------------------------------------------
(* start *)

\* INTAKE_DRAFT_IN_PROGRESS, INTAKE_ANALYSIS_IN_PROGRESS
Restartable(s) ==
  /\ sessions[s].status = "active"
  /\ \A i \in DOMAIN answers[s] : answers[s][i].analysis \notin Busy

\* The session with active_owner_key, if there is one, is given up for a new one; the
\* snapshots its failed analyses could be tried again with are cleared.
Start ==
  LET open == {s \in DOMAIN sessions : sessions[s].key /\ Open(s)} IN
  /\ Len(sessions) < MaxSessions
  /\ \A s \in open : Restartable(s)
  /\ sessions' = Append(
       [s \in DOMAIN sessions |->
          IF s \in open THEN [sessions[s] EXCEPT !.status = "abandoned", !.key = FALSE]
                        ELSE sessions[s]], NewSession)
  /\ answers' = Append(
       [s \in DOMAIN sessions |->
          IF s \in open
          THEN [i \in DOMAIN answers[s] |->
                  IF answers[s][i].analysis = "failed"
                  THEN WithoutSnapshot(answers[s][i]) ELSE answers[s][i]]
          ELSE answers[s]], <<>>)
  /\ UNCHANGED <<candidates, facts, disturbances>>

-------------------------------------------------------------------------------
(* answer *)

\* INTAKE_FACT_REVIEW_REQUIRED
Reviewed(s) == PendingIn(s) = {}

\* A skipped answer, like a negative one, leads on; an answer waits for its analysis.
Answer(s, state, role) ==
  /\ sessions[s].status = "active"
  /\ Cardinality(Given) < MaxAnswers
  /\ Reviewed(s)
  /\ sessions[s].question # None
  /\ LET answered == state = "answered" IN
     /\ answers' = [answers EXCEPT ![s] = Append(@,
          [question |-> sessions[s].question, state |-> state, role |-> role,
           analysis |-> IF answered THEN "queued" ELSE "idle",
           task |-> IF answered THEN "queued" ELSE None, snapshot |-> answered])]
     /\ SetSession(s, [sessions[s] EXCEPT !.question =
          IF answered THEN None ELSE NextQuestion(@, state, role)])
  /\ UNCHANGED <<candidates, facts, disturbances>>

-------------------------------------------------------------------------------
(* The analysis of an answer *)

\* _require_analysis_graph and _require_saved_answer_input, for the answer of a task.
AnalysisGraph(s, i) == sessions[s].status = "active" /\ answers[s][i].state = "answered"

\* _validated_analysis_snapshot: the snapshot in the outbox row, made for this very answer.
SnapshotStands(row) == row.snapshot

\* The first transaction of process_answer_analysis.
BeginAnalysis(s, i) ==
  LET row == answers[s][i] IN
  /\ row.task \in {"queued", "running"}
  /\ AnalysisGraph(s, i)
  /\ SnapshotStands(row)
  /\ SetAnswer(s, i, [row EXCEPT !.task = "running", !.analysis = "running"])
  /\ UNCHANGED <<sessions, candidates, facts, disturbances>>

\* Its second transaction, with the candidates _validated_candidates lets through and
\* the way each may be decided.
AnalysisSucceeds(s, i, found) ==
  LET row == answers[s][i] IN
  /\ row.task = "running" /\ row.analysis = "running"
  /\ AnalysisGraph(s, i)
  /\ candidates' = [id \in Ids |->
       IF id[1] = s /\ id[2] = i /\ id[3] \in DOMAIN found /\ candidates[id] = None
       THEN [status |-> "pending", mode |-> found[id[3]]] ELSE candidates[id]]
  /\ SetSession(s, [sessions[s] EXCEPT !.question = QuestionAfter(row)])
  /\ SetAnswer(s, i, [WithoutSnapshot(row) EXCEPT
       !.task = "succeeded",
       !.analysis = IF DOMAIN found = {} THEN "completed" ELSE "waiting_for_confirmation"])
  /\ UNCHANGED <<facts, disturbances>>

\* A receipt that is no success, fail_answer_analysis, or the end of its outbox row.
AnalysisFails(s, i) ==
  LET row == answers[s][i] IN
  /\ Disturbed
  /\ row.task \in {"queued", "running"}
  /\ sessions[s].status = "active"
  /\ SetAnswer(s, i, [row EXCEPT !.task = "failed", !.analysis = "failed"])
  /\ UNCHANGED <<sessions, candidates, facts>>

\* The task ends without the answer: the owner cancels it, or its last claim is used up.
AnalysisTaskEnds(s, i) ==
  /\ answers[s][i].task \in {"queued", "running"}
  /\ \E status \in {"cancelled", "failed"} :
       SetAnswer(s, i, [answers[s][i] EXCEPT !.task = status])
  /\ Disturbed
  /\ UNCHANGED <<sessions, candidates, facts>>

\* The receipt of the cancelled run, if the run was cancelled in time.
AnalysisCancelled(s, i) ==
  /\ answers[s][i].task = "cancelled" /\ answers[s][i].analysis = "running"
  /\ sessions[s].status = "active"
  /\ SetAnswer(s, i, [answers[s][i] EXCEPT !.analysis = "failed"])
  /\ UNCHANGED <<sessions, candidates, facts, disturbances>>

\* retry_analysis: only of the latest answer, and with the snapshot it still has.
RetryAnalysis(s) ==
  \E i \in Latest(s) :
    LET row == answers[s][i] IN
    /\ row.analysis = "failed" /\ row.task \in {"failed", "cancelled"}
    /\ SnapshotStands(row)
    /\ SetAnswer(s, i, [row EXCEPT !.task = "queued", !.analysis = "queued"])
    /\ SetSession(s, [sessions[s] EXCEPT !.question = None])
    /\ UNCHANGED <<candidates, facts, disturbances>>

\* Fault: the answer keeps its failed analysis.
ContinueFailed(s) ==
  \E i \in Latest(s) :
    LET row == answers[s][i] IN
    /\ row.analysis = "failed" /\ row.task \in {"failed", "cancelled"}
    /\ SetSession(s, [sessions[s] EXCEPT !.question = QuestionAfter(row)])
    /\ UNCHANGED <<answers, candidates, facts, disturbances>>

\* continue_analysis: the next question by rule.  The session may be abandoned.
ContinueAnalysis(s) ==
  \E i \in Latest(s) :
    LET row == answers[s][i] IN
    /\ row.analysis = "failed" /\ row.task \in {"failed", "cancelled"}
    /\ SetAnswer(s, i, [WithoutSnapshot(row) EXCEPT !.analysis = "completed"])
    /\ SetSession(s, [sessions[s] EXCEPT !.question = QuestionAfter(row)])
    /\ UNCHANGED <<candidates, facts, disturbances>>

-------------------------------------------------------------------------------
(* decide_candidate *)

Decisions == [accept |-> "accepted", edit |-> "edited", reject |-> "rejected"]

\* FACT_CANDIDATE_ALREADY_DECIDED
Undecided(id) == candidates[id].status = "pending"

LastPending(id) == PendingOf(id[1], id[2]) = {id}

\* Fault: the mode of the candidate is not looked at.
AnyDecision(id, decision) == TRUE

\* FACT_CANDIDATE_DECISION_NOT_ALLOWED
Allowed(id, decision) == decision = "accept" => candidates[id].mode = "accept_or_edit"

\* The last decision on an answer completes its analysis; an accepted or edited
\* candidate becomes a confirmed fact, with a source, in the same transaction.
Decide(id, decision) ==
  LET s == id[1]
      i == id[2]
  IN
  /\ candidates[id] # None
  /\ sessions[s].status = "active"
  /\ Undecided(id)
  /\ Allowed(id, decision)
  /\ answers[s][i].analysis = "waiting_for_confirmation"
  /\ candidates' = [candidates EXCEPT ![id].status = Decisions[decision]]
  /\ facts' = IF decision = "reject" THEN facts
              ELSE [facts EXCEPT ![id] = [value |-> "decided", confirmed |-> TRUE]]
  /\ answers' = IF LastPending(id)
                THEN [answers EXCEPT ![s][i].analysis = "completed"] ELSE answers
  /\ UNCHANGED <<sessions, disturbances>>

\* update_fact with another value, or set_status, on any page (ResumeVersions).
ChangeFact(id) ==
  /\ facts[id] # None
  /\ Disturbed
  /\ \/ facts' = [facts EXCEPT ![id] = [value |-> "changed", confirmed |-> FALSE]]
     \/ facts' = [facts EXCEPT ![id].confirmed = ~@]
  /\ UNCHANGED <<sessions, answers, candidates>>

-------------------------------------------------------------------------------
(* The draft *)

\* INTAKE_FACT_REVIEW_REQUIRED and INTAKE_ANALYSIS_NOT_READY
ReadyForDraft(s) ==
  /\ PendingIn(s) = {}
  /\ \A i \in Latest(s) : answers[s][i].analysis \notin Busy \cup {"failed"}

\* _failed_model_draft_exists
FailedModelDraft(s) ==
  LET draft == sessions[s].draft IN
  draft # None /\ draft.mode = "model" /\ draft.task \in {"failed", "cancelled"}

\* _build_draft_snapshot: the facts with the values they have now.
DraftSnapshot(s, mode) == [mode |-> mode, task |-> "queued", facts |-> ReadyFacts(s)]

\* queue_draft: by rules only after a draft by the model failed, unless there is no model.
QueueDraft(s, mode) ==
  LET row == sessions[s] IN
  /\ row.status = "active"
  /\ row.drafts < MaxDrafts
  /\ ReadyForDraft(s)
  /\ Cardinality(ReadyFacts(s)) >= 2
  /\ mode = "rule_fallback" => FailedModelDraft(s)
  /\ SetSession(s, [row EXCEPT !.status = "drafting", !.drafts = @ + 1,
                               !.draft = DraftSnapshot(s, mode)])
  /\ UNCHANGED <<answers, candidates, facts, disturbances>>

Drafting(s, task) == sessions[s].draft # None /\ sessions[s].draft.task = task

\* Fault: the facts are taken as they were when the draft was queued.
FactsAsQueued(s) == TRUE

\* _draft_facts_match: the facts of the snapshot are locked and compared.
FactsMatch(s) ==
  \A pair \in sessions[s].draft.facts : facts[pair[1]] = [value |-> pair[2], confirmed |-> TRUE]

EndDraft(s, task, status) ==
  SetSession(s, [sessions[s] EXCEPT !.draft.task = task, !.status = status])

\* _persist_draft: a base resume with one version, and the end of session and task.
PersistDraft(s) ==
  SetSession(s, [sessions[s] EXCEPT
    !.draft.task = "succeeded", !.status = "completed", !.key = FALSE, !.question = None,
    !.resumes = @ + 1])

\* The first transaction of process_draft.
BeginDraft(s) ==
  /\ Drafting(s, "queued")
  /\ sessions[s].draft.mode = "model"
  /\ SetSession(s, [sessions[s] EXCEPT !.draft.task = "running"])
  /\ UNCHANGED <<answers, candidates, facts, disturbances>>

\* _fallback_draft makes one claim of each fact, in its own words; of the claims of
\* _model_draft the fact policy may leave none.
Supported(mode) == IF mode = "rule_fallback" THEN {TRUE} ELSE BOOLEAN

\* The draft by rules, or the receipt of the model: supported says whether any claim of
\* the result stands.
ApplyDraft(s, supported) ==
  /\ sessions[s].draft # None
  /\ supported \in Supported(sessions[s].draft.mode)
  /\ Drafting(s, IF sessions[s].draft.mode = "model" THEN "running" ELSE "queued")
  /\ IF supported /\ FactsMatch(s) THEN PersistDraft(s) ELSE EndDraft(s, "failed", "active")
  /\ UNCHANGED <<answers, candidates, facts, disturbances>>

\* fail_draft or the exhausted outbox; or the last claim is used up, which leaves the session.
DraftFails(s) ==
  /\ Drafting(s, "queued") \/ Drafting(s, "running")
  /\ EndDraft(s, "failed", "active") \/ EndDraft(s, "failed", sessions[s].status)
  /\ Disturbed
  /\ UNCHANGED <<answers, candidates, facts>>

\* request_cancel: a draft that has not begun frees its session; one that has leaves it
\* to the worker.
CancelDraft(s) ==
  /\ \/ Drafting(s, "queued") /\ EndDraft(s, "cancelled", "active")
     \/ Drafting(s, "running") /\ EndDraft(s, "cancelled", sessions[s].status)
  /\ Disturbed
  /\ UNCHANGED <<answers, candidates, facts>>

\* Fault: the session is made active whatever it has become.
AnySession(s) == TRUE

\* The session still waits for this draft (_restore_cancelled_intake_draft).
StillDrafting(s) == sessions[s].status = "drafting"

\* The worker of a cancelled draft: the receipt of its run, or its error.
DraftCancelled(s) ==
  /\ Drafting(s, "cancelled")
  /\ StillDrafting(s)
  /\ EndDraft(s, "cancelled", "active")
  /\ UNCHANGED <<answers, candidates, facts, disturbances>>

-------------------------------------------------------------------------------
IntakeInit ==
  /\ sessions = <<>>
  /\ answers = <<>>
  /\ candidates = [id \in Ids |-> None]
  /\ facts = [id \in Ids |-> None]
  /\ disturbances = 0

IntakeNext ==
  \/ Start
  \/ \E s \in DOMAIN sessions :
       \/ \E state \in {"answered", "skipped"}, role \in Roles : Answer(s, state, role)
       \/ \E i \in DOMAIN answers[s] :
            \/ BeginAnalysis(s, i) \/ AnalysisFails(s, i)
            \/ AnalysisTaskEnds(s, i) \/ AnalysisCancelled(s, i)
            \/ \E found \in Findings : AnalysisSucceeds(s, i, found)
       \/ RetryAnalysis(s) \/ ContinueAnalysis(s)
       \/ \E mode \in {"model", "rule_fallback"} : QueueDraft(s, mode)
       \/ BeginDraft(s) \/ DraftFails(s) \/ CancelDraft(s) \/ DraftCancelled(s)
       \/ \E supported \in BOOLEAN : ApplyDraft(s, supported)
  \/ \E id \in Ids :
       \/ \E decision \in DOMAIN Decisions : Decide(id, decision)
       \/ ChangeFact(id)

IntakeSpec == IntakeInit /\ [][IntakeNext]_intakeVars

-------------------------------------------------------------------------------
(* Properties *)

\* The rows have their types (db/models.py: IntakeSession, IntakeAnswer, FactCandidate).
IntakeTypeOK ==
  /\ sessions \in Seq(SessionRow)
  /\ answers \in Seq(Seq(AnswerRow)) /\ DOMAIN answers = DOMAIN sessions
  /\ candidates \in [Ids -> CandidateRow \cup {None}]
  /\ facts \in [Ids -> FactRow \cup {None}]

\* An owner has one open session at most, and it is the one that holds the key: no draft
\* that ends late, and no cancelled one, brings another session back.
OneOpenSession ==
  /\ \A s \in DOMAIN sessions : sessions[s].key <=> Open(s)
  /\ \A s, t \in DOMAIN sessions : Open(s) /\ Open(t) => s = t

\* While a session is open, only its latest answer may have an analysis that is not
\* settled, which is all that answer, queue_draft, retry and continue look at
\* (intake/service.py:1449).
OnlyTheLatestIsUnsettled ==
  \A s \in DOMAIN sessions :
    Open(s) => \A i \in DOMAIN answers[s] :
      answers[s][i].analysis \in Busy \cup {"failed"} => i = Last(s)

\* A candidate that waits for a decision can be decided, and an answer that waits for
\* decisions has such a candidate: neither is left behind by drafts and restarts.
PendingCanBeDecided ==
  \A s \in DOMAIN sessions : \A i \in DOMAIN answers[s] :
    PendingOf(s, i) # {} <=> answers[s][i].analysis = "waiting_for_confirmation"

\* A fact exists only if the owner accepted or edited the candidate it comes from, and a
\* candidate never becomes two facts (11-acceptance-and-evidence.md, FILE-04).
FactsAreDecided ==
  \A id \in Ids :
    /\ facts[id] # None <=>
         candidates[id] # None /\ candidates[id].status \in {"accepted", "edited"}
    /\ candidates[id] # None /\ candidates[id].mode = "edit_only" =>
         candidates[id].status # "accepted"

\* A session yields one resume at most, and exactly when it is completed, although its
\* draft may be queued again, cancelled, retried and written late.
OneResumePerSession ==
  \A s \in DOMAIN sessions :
    /\ sessions[s].resumes = IF sessions[s].status = "completed" THEN 1 ELSE 0
    /\ sessions[s].resumes = 1 <=> Drafting(s, "succeeded")

\* A resume is only made from facts that are confirmed, with the value that was drafted
\* from, when it is made (intake/service.py:1942).
DraftsRestOnFacts ==
  [][\A s \in DOMAIN sessions :
       sessions'[s].resumes > sessions[s].resumes =>
         /\ Cardinality(sessions[s].draft.facts) >= 2
         /\ sessions[s].draft.facts \subseteq ReadyFacts(s)]_intakeVars

\* No question of a session is asked a second time, through skips, failed analyses,
\* retries and continuations.
NeverAskedAgain ==
  \A s \in DOMAIN sessions :
    sessions[s].question # None =>
      \A i \in DOMAIN answers[s] : answers[s][i].question # sessions[s].question

\* The session an owner works on is the only one, and leads to one resume.
SessionsConsistent == IntakeTypeOK /\ OneOpenSession /\ OneResumePerSession

\* Questions come one at a time: the next only when the last one is settled, and never
\* the same again.
QuestionsInOrder == OnlyTheLatestIsUnsettled /\ PendingCanBeDecided /\ NeverAskedAgain
==============================================================================
