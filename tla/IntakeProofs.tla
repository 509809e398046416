----------------------------- MODULE IntakeProofs -----------------------------
(***************************************************************************)
(* Proofs about Intake.  The invariants the runs check are strengthened to *)
(* IntakeInv: how far the analysis of an answer may be from its task, what *)
(* a question that waits says of the answers before it, and what a draft   *)
(* that is on its way says of its session.  One lemma per action says what *)
(* it does to single rows (Effect), in the few ways the rest needs to tell *)
(* apart: a draft moves, an answer moves, the question of a session is set.*)
(***************************************************************************)
EXTENDS Intake, FiniteSetTheorems, SequenceTheorems, TLAPS

(* The inductive invariant *)

Unsettled == Busy \cup {"failed"}

\* Where a question stands in the interview: every step leads to a later one.
Rank == [experience_radar |-> 0,
         course_probe |-> 1, work_probe |-> 2, community_probe |-> 3, project_probe |-> 4,
         skill_probe |-> 5, achievement_probe |-> 6,
         course_role |-> 7, work_role |-> 7, community_role |-> 7, project_role |-> 7,
         experience_challenge |-> 8, experience_action |-> 9, experience_collaboration |-> 10,
         experience_result |-> 11, experience_learning |-> 12, experience_next |-> 13]

Typed ==
  /\ IntakeTypeOK
  /\ Len(sessions) <= MaxSessions
  /\ \A s \in DOMAIN sessions : Last(s) <= MaxAnswers

\* A session waits as long as its draft is on its way.
SessionFits(row) ==
  /\ row.key <=> row.status \in {"active", "drafting"}
  /\ row.resumes = IF row.status = "completed" THEN 1 ELSE 0
  /\ row.status = "completed" <=> row.draft # None /\ row.draft.task = "succeeded"
  /\ row.draft # None /\ row.draft.task \in {"queued", "running"} => row.status = "drafting"

SessionsInv ==
  /\ \A s \in DOMAIN sessions : SessionFits(sessions[s])
  /\ \A s, t \in DOMAIN sessions : Open(s) /\ Open(t) => s = t

\* What an answer has in common with its task.
AnswerFits(row) ==
  /\ row.task \in {"queued", "running"} => row.analysis \in {"queued", "running"}
  /\ row.analysis = "waiting_for_confirmation" => row.task = "succeeded"
  /\ row.task = "succeeded" => row.analysis \in {"waiting_for_confirmation", "completed"}

\* Candidates are found by an analysis that succeeded.
CandidatesFit ==
  \A id \in Ids : candidates[id] # None =>
    /\ id[1] \in DOMAIN sessions
    /\ id[2] \in DOMAIN answers[id[1]]
    /\ answers[id[1]][id[2]].task = "succeeded"

\* While a question waits for an answer, the answers before it are settled, and all of
\* them were to earlier questions.
QuestionsFit(s) ==
  /\ \A i \in DOMAIN answers[s] :
       /\ AnswerFits(answers[s][i])
       /\ answers[s][i].analysis \in Unsettled => i = Last(s)
       /\ sessions[s].question # None =>
            /\ answers[s][i].analysis \notin {"queued", "running", "failed"}
            /\ Rank[answers[s][i].question] < Rank[sessions[s].question]
  /\ \A i, j \in DOMAIN answers[s] :
       i < j => Rank[answers[s][i].question] < Rank[answers[s][j].question]

QuestionsInv ==
  /\ CandidatesFit
  /\ \A s \in DOMAIN sessions : QuestionsFit(s)
  /\ PendingCanBeDecided

\* A draft is queued from two facts of its session at least.
DraftFits(s, draft) ==
  Cardinality(draft.facts) >= 2 /\ \A pair \in draft.facts : pair[1][1] = s

DraftsFit ==
  \A s \in DOMAIN sessions :
    sessions[s].draft # None => DraftFits(s, sessions[s].draft)

IntakeInv == Typed /\ SessionsInv /\ QuestionsInv /\ FactsAreDecided /\ DraftsFit

-------------------------------------------------------------------------------
(* Questions *)

RoleNames == {"course_role", "work_role", "community_role", "project_role"}

\* The questions of the two chains and of the roles, by name.
LEMMA QuestionsAre ==
  /\ Questions = {"experience_radar", "course_probe", "work_probe", "community_probe",
                  "project_probe", "skill_probe", "achievement_probe", "experience_next",
                  "experience_challenge", "experience_action", "experience_collaboration",
                  "experience_result", "experience_learning"} \cup Roles
  /\ Roles \subseteq RoleNames
  /\ None \notin Questions
  /\ \A q \in Questions : Rank[q] \in Nat
<1>1. /\ Roles \subseteq RoleNames
      /\ None \notin Questions
  BY RolesAssumption, NoneAssumption DEF RoleNames
<1>2. Range(Chain) = {"course_probe", "work_probe", "community_probe", "project_probe",
                      "skill_probe", "achievement_probe", "experience_next"}
  <2>1. DOMAIN Chain = {1, 2, 3, 4, 5, 6, 7}
    BY DEF Chain
  <2>2. Range(Chain) = {Chain[k] : k \in {1, 2, 3, 4, 5, 6, 7}}
    BY <2>1 DEF Range
  <2> QED
    BY <2>2 DEF Chain
<1>3. Range(Detail) = {"experience_challenge", "experience_action", "experience_collaboration",
                       "experience_result", "experience_learning", "experience_next"}
  <2>1. DOMAIN Detail = {1, 2, 3, 4, 5, 6}
    BY DEF Detail
  <2>2. Range(Detail) = {Detail[k] : k \in {1, 2, 3, 4, 5, 6}}
    BY <2>1 DEF Range
  <2> QED
    BY <2>2 DEF Detail
<1>4. Questions = {"experience_radar", "course_probe", "work_probe", "community_probe",
                  "project_probe", "skill_probe", "achievement_probe", "experience_next",
                  "experience_challenge", "experience_action", "experience_collaboration",
                  "experience_result", "experience_learning"} \cup Roles
  BY <1>2, <1>3 DEF Questions
<1>5. \A q \in Questions : Rank[q] \in Nat
  BY <1>1, <1>4 DEF Rank, RoleNames
<1> QED
  BY <1>1, <1>4, <1>5

\* A question is in a chain at one place, if it is in it at all.
LEMMA PlacesInChains ==
  /\ \A k \in 1..7 : IndexIn(Chain, Chain[k]) = {k}
  /\ \A k \in 1..6 : IndexIn(Detail, Detail[k]) = {k}
  /\ \A q \in {"experience_radar"} \cup RoleNames : IndexIn(Chain, q) = {} /\ IndexIn(Detail, q) = {}
  /\ \A k \in 1..5 : IndexIn(Chain, Detail[k]) = {}
  /\ \A k \in 1..6 : IndexIn(Detail, Chain[k]) = {}
<1>1. DOMAIN Chain = {1, 2, 3, 4, 5, 6, 7} /\ DOMAIN Detail = {1, 2, 3, 4, 5, 6}
  BY DEF Chain, Detail
<1>2. 1..7 = {1, 2, 3, 4, 5, 6, 7} /\ 1..6 = {1, 2, 3, 4, 5, 6} /\ 1..5 = {1, 2, 3, 4, 5}
  OBVIOUS
<1>3. \A k \in 1..7 : IndexIn(Chain, Chain[k]) = {k}
  BY <1>1, <1>2 DEF IndexIn, Chain
<1>4. \A k \in 1..6 : IndexIn(Detail, Detail[k]) = {k}
  BY <1>1, <1>2 DEF IndexIn, Detail
<1>5. \A q \in {"experience_radar"} \cup RoleNames : IndexIn(Chain, q) = {} /\ IndexIn(Detail, q) = {}
  BY <1>1 DEF IndexIn, Chain, Detail, RoleNames
<1>6. \A k \in 1..5 : IndexIn(Chain, Detail[k]) = {}
  BY <1>1, <1>2 DEF IndexIn, Chain, Detail
<1>7. \A k \in 1..6 : IndexIn(Detail, Chain[k]) = {}
  BY <1>1, <1>2 DEF IndexIn, Chain, Detail
<1> QED
  BY <1>3, <1>4, <1>5, <1>6, <1>7

\* The next question is a later one: the interview comes to an end and never back.
LEMMA NextIsLater ==
  ASSUME NEW q \in Questions, NEW state, NEW role \in Roles
  PROVE  /\ NextQuestion(q, state, role) \in Questions \cup {None}
         /\ NextQuestion(q, state, role) # None =>
              Rank[q] < Rank[NextQuestion(q, state, role)]
<1> DEFINE next == NextQuestion(q, state, role)
<1>1. role \in Questions /\ Rank[role] = 7
  BY QuestionsAre DEF RoleNames, Rank
<1>2. CASE q = "experience_radar"
  <2>1. next = IF state = "answered" THEN role ELSE Chain[1]
    BY <1>2, PlacesInChains DEF NextQuestion
  <2> QED
    BY <2>1, <1>1, <1>2, QuestionsAre DEF Chain, Rank
<1>3. CASE \E k \in 1..6 : q = Chain[k]
  <2>1. PICK k \in 1..6 : q = Chain[k]
    BY <1>3
  <2>2. IndexIn(Chain, q) = {k} /\ IndexIn(Detail, q) = {} /\ k # 7
    BY <2>1, PlacesInChains
  <2>3. q \notin {"experience_radar"} \cup RoleNames
    BY <2>1 DEF Chain, RoleNames
  <2>4. next = IF state = "answered" THEN role ELSE Chain[1 + k]
    BY <2>2, <2>3 DEF NextQuestion, RoleNames
  <2> QED
    BY <2>1, <2>4, <1>1, QuestionsAre DEF Chain, Rank
<1>4. CASE q \in RoleNames
  <2>1. next = Detail[1]
    BY <1>4, PlacesInChains DEF NextQuestion, RoleNames
  <2> QED
    BY <2>1, <1>4, QuestionsAre DEF Detail, Rank, RoleNames
<1>5. CASE \E k \in 1..5 : q = Detail[k]
  <2>1. PICK k \in 1..5 : q = Detail[k]
    BY <1>5
  <2>2. IndexIn(Chain, q) = {} /\ IndexIn(Detail, q) = {k} /\ k # 6
    BY <2>1, PlacesInChains
  <2>3. q \notin {"experience_radar"} \cup RoleNames
    BY <2>1 DEF Detail, RoleNames
  <2>4. next = Detail[1 + k]
    BY <2>2, <2>3 DEF NextQuestion, RoleNames
  <2> QED
    BY <2>1, <2>4, QuestionsAre DEF Detail, Rank
<1>6. CASE q = "experience_next"
  <2>1. IndexIn(Chain, q) = {7} /\ IndexIn(Detail, q) = {6}
    BY <1>6, PlacesInChains DEF Chain, Detail
  <2>2. next = None
    BY <1>6, <2>1 DEF NextQuestion
  <2> QED
    BY <2>2
<1>7. \/ q = "experience_radar" \/ q \in RoleNames \/ q = "experience_next"
      \/ \E k \in 1..6 : q = Chain[k]
      \/ \E k \in 1..5 : q = Detail[k]
  <2>1. /\ Chain[1] = "course_probe" /\ Chain[2] = "work_probe" /\ Chain[3] = "community_probe"
        /\ Chain[4] = "project_probe" /\ Chain[5] = "skill_probe"
        /\ Chain[6] = "achievement_probe"
    BY DEF Chain
  <2>2. /\ Detail[1] = "experience_challenge" /\ Detail[2] = "experience_action"
        /\ Detail[3] = "experience_collaboration" /\ Detail[4] = "experience_result"
        /\ Detail[5] = "experience_learning"
    BY DEF Detail
  <2>3. {1, 2, 3, 4, 5, 6} = 1..6 /\ {1, 2, 3, 4, 5} = 1..5
    OBVIOUS
  <2> QED
    BY <2>1, <2>2, <2>3, QuestionsAre
<1> QED
  BY <1>2, <1>3, <1>4, <1>5, <1>6, <1>7

-------------------------------------------------------------------------------
(* Rows *)

LEMMA StatusesAre ==
  Statuses = {"queued", "running", "waiting_for_user", "succeeded", "failed", "cancelled"}
<1>1. DOMAIN Transitions = {"queued", "running", "waiting_for_user"}
  BY DEF Transitions
<1> QED
  BY <1>1 DEF Statuses, TerminalStatuses

LEMMA LenDomain ==
  ASSUME NEW S, NEW seq \in Seq(S), NEW n \in Nat, DOMAIN seq = 1..n
  PROVE  Len(seq) = n
BY LenProperties

LEMMA FunctionIsSeq ==
  ASSUME NEW S, NEW n \in Nat, NEW f \in [1..n -> S]
  PROVE  f \in Seq(S)
BY SeqDef

LEMMA BoundsAreNat ==
  MaxSessions \in Nat /\ MaxAnswers \in Nat /\ MaxDrafts \in Nat /\ MaxDisturbances \in Nat
BY IntakeAssumption

\* What the types say of single rows.
LEMMA RowsOf ==
  ASSUME Typed
  PROVE  /\ Len(sessions) \in Nat /\ DOMAIN sessions = 1..Len(sessions)
         /\ Len(answers) = Len(sessions) /\ DOMAIN answers = DOMAIN sessions
         /\ \A s \in DOMAIN sessions :
              /\ sessions[s] \in SessionRow
              /\ answers[s] \in Seq(AnswerRow)
              /\ Last(s) \in Nat /\ DOMAIN answers[s] = 1..Last(s)
              /\ \A i \in DOMAIN answers[s] : answers[s][i] \in AnswerRow
<1>1. sessions \in Seq(SessionRow) /\ answers \in Seq(Seq(AnswerRow))
      /\ DOMAIN answers = DOMAIN sessions
  BY DEF Typed, IntakeTypeOK
<1>2. /\ Len(sessions) \in Nat /\ DOMAIN sessions = 1..Len(sessions)
      /\ Len(answers) \in Nat /\ DOMAIN answers = 1..Len(answers)
  BY <1>1, LenProperties
<1>3. Len(answers) = Len(sessions)
  BY <1>1, <1>2
<1>4. \A s \in DOMAIN sessions : sessions[s] \in SessionRow /\ answers[s] \in Seq(AnswerRow)
  BY <1>1, <1>2, ElementOfSeq
<1>5. ASSUME NEW s \in DOMAIN sessions
      PROVE  /\ Last(s) \in Nat /\ DOMAIN answers[s] = 1..Last(s)
             /\ \A i \in DOMAIN answers[s] : answers[s][i] \in AnswerRow
  BY <1>4, LenProperties, ElementOfSeq DEF Last
<1> QED
  BY <1>1, <1>2, <1>3, <1>4, <1>5

LEMMA SetSessionEffect ==
  ASSUME Typed, NEW s \in DOMAIN sessions, NEW row \in SessionRow, SetSession(s, row)
  PROVE  /\ sessions' \in Seq(SessionRow)
         /\ DOMAIN sessions' = DOMAIN sessions /\ Len(sessions') = Len(sessions)
         /\ sessions'[s] = row
         /\ \A t \in DOMAIN sessions : t # s => sessions'[t] = sessions[t]
<1>1. sessions \in Seq(SessionRow) /\ s \in 1..Len(sessions)
  BY RowsOf DEF Typed, IntakeTypeOK
<1>2. sessions' = [sessions EXCEPT ![s] = row]
  BY DEF SetSession
<1> QED
  BY <1>1, <1>2, ExceptSeq

LEMMA SetAnswerEffect ==
  ASSUME Typed, NEW s \in DOMAIN sessions, NEW i \in DOMAIN answers[s],
         NEW row \in AnswerRow, SetAnswer(s, i, row)
  PROVE  /\ answers' \in Seq(Seq(AnswerRow))
         /\ DOMAIN answers' = DOMAIN answers
         /\ \A t \in DOMAIN sessions :
              DOMAIN answers'[t] = DOMAIN answers[t] /\ Last(t)' = Last(t)
         /\ answers'[s][i] = row
         /\ \A t \in DOMAIN sessions : \A j \in DOMAIN answers[t] :
              t # s \/ j # i => answers'[t][j] = answers[t][j]
<1>1. /\ answers \in Seq(Seq(AnswerRow)) /\ s \in 1..Len(answers)
      /\ answers[s] \in Seq(AnswerRow) /\ i \in 1..Len(answers[s])
  BY RowsOf DEF Typed, IntakeTypeOK, Last
<1> DEFINE rows == [answers[s] EXCEPT ![i] = row]
<1>2. /\ rows \in Seq(AnswerRow) /\ Len(rows) = Len(answers[s])
      /\ DOMAIN rows = DOMAIN answers[s] /\ rows[i] = row
      /\ \A j \in DOMAIN answers[s] : j # i => rows[j] = answers[s][j]
  BY <1>1, ExceptSeq
<1>3. answers' = [answers EXCEPT ![s] = rows]
  BY DEF SetAnswer
<1> HIDE DEF rows
<1>4. /\ answers' \in Seq(Seq(AnswerRow)) /\ DOMAIN answers' = DOMAIN answers
      /\ answers'[s] = rows
      /\ \A t \in DOMAIN answers : t # s => answers'[t] = answers[t]
  BY <1>1, <1>2, <1>3, ExceptSeq
<1> QED
  BY <1>2, <1>4, RowsOf DEF Last

\* Only the answers so far count against the bound on answers.
LEMMA AnswersBounded ==
  ASSUME Typed, NEW s \in DOMAIN sessions, Cardinality(Given) < MaxAnswers
  PROVE  Last(s) + 1 <= MaxAnswers
<1> DEFINE given(t) == {t} \X DOMAIN answers[t]
<1>1. \A t \in DOMAIN sessions :
        IsFiniteSet(given(t)) /\ Cardinality(given(t)) = Last(t)
  <2> TAKE t \in DOMAIN sessions
  <2>1. IsFiniteSet({t}) /\ Cardinality({t}) = 1
    BY FS_Singleton
  <2>2. IsFiniteSet(DOMAIN answers[t]) /\ Cardinality(DOMAIN answers[t]) = Last(t)
    <3>1. Last(t) \in Nat /\ DOMAIN answers[t] = 1..Last(t)
      BY RowsOf
    <3>2. IsFiniteSet(1..Last(t)) /\ Cardinality(1..Last(t)) = Last(t)
      BY <3>1, FS_Interval
    <3> QED
      BY <3>1, <3>2
  <2>3. /\ IsFiniteSet({t} \X DOMAIN answers[t])
        /\ Cardinality({t} \X DOMAIN answers[t]) = 1 * Last(t)
    BY <2>1, <2>2, FS_Product
  <2> QED
    BY <2>3, RowsOf
<1>2. IsFiniteSet(Given)
  <2>1. IsFiniteSet(DOMAIN sessions)
    BY RowsOf, FS_Interval
  <2>2. IsFiniteSet({given(t) : t \in DOMAIN sessions})
    <3> DEFINE sets == {given(t) : t \in DOMAIN sessions}
               f    == [t \in DOMAIN sessions |-> given(t)]
    <3>1. f \in Surjection(DOMAIN sessions, sets)
      BY DEF Surjection
    <3> HIDE DEF f
    <3> QED
      BY <2>1, <3>1, FS_Surjection
  <2>3. \A T \in {given(t) : t \in DOMAIN sessions} : IsFiniteSet(T)
    BY <1>1
  <2>4. IsFiniteSet(UNION {given(t) : t \in DOMAIN sessions})
    BY <2>2, <2>3, FS_UNION
  <2> QED
    BY <2>4 DEF Given
<1>3. given(s) \subseteq Given
  BY DEF Given
<1>4. Cardinality(given(s)) <= Cardinality(Given) /\ Cardinality(Given) \in Nat
  BY <1>2, <1>3, FS_Subset, FS_CardinalityType
<1>5. Last(s) <= Cardinality(Given) /\ Last(s) \in Nat
  BY <1>1, <1>4, RowsOf
<1> QED
  BY <1>4, <1>5, BoundsAreNat

-------------------------------------------------------------------------------
(* What the actions on a draft do *)

\* Session s becomes row, in a step that is about its draft: it opens no session, asks
\* nothing, and makes a resume of confirmed facts only.
DraftMove(s, row) ==
  /\ row \in SessionRow /\ SessionFits(row)
  /\ SetSession(s, row)
  /\ row.status \in {"active", "drafting"} => Open(s)
  /\ row.question \in {sessions[s].question, None}
  /\ row.draft # None => DraftFits(s, row.draft)
  /\ row.resumes > sessions[s].resumes =>
       /\ sessions[s].draft # None
       /\ sessions[s].draft.facts \subseteq ReadyFacts(s)
  /\ UNCHANGED <<answers, candidates, facts>>

\* The draft is put into another state, and the session with it.
LEMMA EndDraftEffect ==
  ASSUME Typed, SessionsInv, DraftsFit, NEW s \in DOMAIN sessions,
         sessions[s].draft # None, Open(s),
         NEW task \in {"running", "failed", "cancelled"},
         NEW status \in {"active", "drafting"}, task = "running" => status = "drafting",
         EndDraft(s, task, status),
         UNCHANGED <<answers, candidates, facts>>
  PROVE  \E row : DraftMove(s, row)
<1> DEFINE row == [sessions[s] EXCEPT !.draft.task = task, !.status = status]
<1>1. /\ sessions[s] \in SessionRow /\ sessions[s].draft \in DraftRow /\ SessionFits(sessions[s])
      /\ DraftFits(s, sessions[s].draft)
  BY RowsOf DEF SessionRow, SessionsInv, DraftsFit
<1>2. task \in Statuses /\ sessions[s].status \in {"active", "drafting"}
  BY StatusesAre DEF Open
<1>3. /\ row \in SessionRow
      /\ row.status = status /\ row.question = sessions[s].question
      /\ row.key = sessions[s].key /\ row.resumes = sessions[s].resumes
      /\ row.draft \in DraftRow
      /\ row.draft.task = task /\ row.draft.facts = sessions[s].draft.facts
  BY <1>1, <1>2 DEF SessionRow, DraftRow
<1>4. SessionFits(row)
  BY <1>1, <1>2, <1>3, NoneAssumption DEF SessionFits
<1>5. SetSession(s, row)
  BY DEF EndDraft
<1>6. ~(row.resumes > sessions[s].resumes)
  BY <1>1, <1>3 DEF SessionRow
<1> HIDE DEF row
<1>7. DraftMove(s, row)
  BY <1>1, <1>3, <1>4, <1>5, <1>6 DEF DraftMove, DraftFits
<1> QED
  BY <1>7

\* A draft on its way has a session that waits for it.
LEMMA DraftWaitedFor ==
  ASSUME Typed, SessionsInv, NEW s \in DOMAIN sessions,
         Drafting(s, "queued") \/ Drafting(s, "running")
  PROVE  /\ sessions[s].draft # None /\ sessions[s].draft \in DraftRow
         /\ sessions[s].status = "drafting" /\ Open(s)
BY RowsOf DEF Drafting, SessionsInv, SessionFits, SessionRow, Open

LEMMA BeginDraftEffect ==
  ASSUME Typed, SessionsInv, DraftsFit, NEW s \in DOMAIN sessions, BeginDraft(s)
  PROVE  \E row : DraftMove(s, row)
<1>1. /\ sessions[s].draft # None /\ sessions[s].status = "drafting" /\ Open(s)
      /\ sessions[s] \in SessionRow
  BY DraftWaitedFor, RowsOf DEF BeginDraft
<1>2. EndDraft(s, "running", "drafting")
  <2>1. [sessions[s] EXCEPT !.draft.task = "running"]
          = [sessions[s] EXCEPT !.draft.task = "running", !.status = "drafting"]
    BY <1>1 DEF SessionRow
  <2> QED
    BY <2>1 DEF BeginDraft, EndDraft, SetSession
<1> QED
  BY <1>1, <1>2, EndDraftEffect DEF BeginDraft

LEMMA DraftEndsEffect ==
  ASSUME Typed, SessionsInv, DraftsFit, NEW s \in DOMAIN sessions,
         DraftFails(s) \/ CancelDraft(s) \/ DraftCancelled(s)
  PROVE  \E row : DraftMove(s, row)
<1>1. UNCHANGED <<answers, candidates, facts>>
  BY DEF DraftFails, CancelDraft, DraftCancelled
<1>2. sessions[s].draft # None /\ sessions[s].status = "drafting" /\ Open(s)
  <2>1. CASE DraftFails(s) \/ CancelDraft(s)
    BY <2>1, DraftWaitedFor DEF DraftFails, CancelDraft
  <2>2. CASE DraftCancelled(s)
    BY <2>2 DEF DraftCancelled, Drafting, StillDrafting, Open
  <2> QED
    BY <2>1, <2>2
<1>3. \E task \in {"failed", "cancelled"}, status \in {"active", "drafting"} :
        EndDraft(s, task, status)
  BY <1>2 DEF DraftFails, CancelDraft, DraftCancelled
<1>4. PICK task \in {"failed", "cancelled"}, status \in {"active", "drafting"} :
        EndDraft(s, task, status)
  BY <1>3
<1> QED
  BY <1>1, <1>2, <1>4, EndDraftEffect

\* The facts of a session that are ready are pairs of a candidate and a value.
LEMMA ReadyFactsAre ==
  ASSUME Typed, NEW s
  PROVE  /\ ReadyFacts(s) \in SUBSET (Ids \X Values)
         /\ \A pair \in ReadyFacts(s) : pair[1][1] = s
<1>1. \A id \in FactsOf(s) : id \in Ids /\ id[1] = s /\ facts[id] \in FactRow
  BY DEF FactsOf, Typed, IntakeTypeOK
<1> QED
  BY <1>1 DEF ReadyFacts, FactRow

LEMMA QueueDraftEffect ==
  ASSUME Typed, SessionsInv, NEW s \in DOMAIN sessions,
         NEW mode \in {"model", "rule_fallback"}, QueueDraft(s, mode)
  PROVE  \E row : DraftMove(s, row)
<1> DEFINE row == [sessions[s] EXCEPT !.status = "drafting", !.drafts = @ + 1,
                                      !.draft = DraftSnapshot(s, mode)]
<1>1. /\ sessions[s] \in SessionRow /\ SessionFits(sessions[s])
      /\ sessions[s].status = "active" /\ Open(s)
      /\ sessions[s].drafts < MaxDrafts
      /\ Cardinality(ReadyFacts(s)) >= 2
      /\ SetSession(s, row)
      /\ UNCHANGED <<answers, candidates, facts>>
  BY RowsOf DEF QueueDraft, SessionsInv, Open
<1>2. /\ DraftSnapshot(s, mode) \in DraftRow
      /\ DraftSnapshot(s, mode).task = "queued"
      /\ DraftSnapshot(s, mode).facts = ReadyFacts(s)
  BY ReadyFactsAre, StatusesAre DEF DraftSnapshot, DraftRow
<1>3. sessions[s].drafts + 1 \in 0..MaxDrafts
  BY <1>1, BoundsAreNat DEF SessionRow
<1> DEFINE draft == DraftSnapshot(s, mode)
<1> HIDE DEF draft
<1>4. /\ row \in SessionRow
      /\ row.status = "drafting" /\ row.question = sessions[s].question
      /\ row.key = sessions[s].key /\ row.resumes = sessions[s].resumes
      /\ row.draft = DraftSnapshot(s, mode)
  BY <1>1, <1>2, <1>3 DEF SessionRow
<1>5. SessionFits(row)
  BY <1>1, <1>2, <1>4, NoneAssumption DEF SessionFits
<1>6. ~(row.resumes > sessions[s].resumes)
  BY <1>1, <1>4 DEF SessionRow
<1> HIDE DEF row
<1>7. DraftMove(s, row)
  BY <1>1, <1>2, <1>4, <1>5, <1>6, ReadyFactsAre DEF DraftMove, DraftFits
<1> QED
  BY <1>7

\* The draft becomes a resume: the facts it was queued from still stand.
LEMMA PersistDraftEffect ==
  ASSUME Typed, SessionsInv, DraftsFit, NEW s \in DOMAIN sessions,
         Drafting(s, "queued") \/ Drafting(s, "running"),
         FactsMatch(s), PersistDraft(s),
         UNCHANGED <<answers, candidates, facts>>
  PROVE  \E row : DraftMove(s, row)
<1> DEFINE row == [sessions[s] EXCEPT
              !.draft.task = "succeeded", !.status = "completed", !.key = FALSE, !.question = None,
              !.resumes = @ + 1]
<1>1. /\ sessions[s].draft # None /\ sessions[s].draft \in DraftRow
      /\ sessions[s] \in SessionRow
      /\ DraftFits(s, sessions[s].draft)
  BY DraftWaitedFor, RowsOf DEF DraftsFit
<1>2. sessions[s].resumes = 0
  BY DraftWaitedFor DEF SessionsInv, SessionFits
<1>3. /\ row \in SessionRow
      /\ row.status = "completed" /\ row.question = None /\ row.key = FALSE /\ row.resumes = 1
      /\ row.draft \in DraftRow
      /\ row.draft.task = "succeeded" /\ row.draft.facts = sessions[s].draft.facts
  <2> DEFINE draft == [sessions[s].draft EXCEPT !.task = "succeeded"]
  <2>1. /\ draft \in DraftRow /\ draft.task = "succeeded"
        /\ draft.facts = sessions[s].draft.facts
    BY <1>1, StatusesAre DEF DraftRow
  <2>2. sessions[s].resumes + 1 = 1 /\ 1 \in 0..1
    BY <1>2
  <2>3. row = [sessions[s] EXCEPT !.draft = draft, !.status = "completed", !.key = FALSE,
                                  !.question = None, !.resumes = 1]
    BY <1>1, <2>2 DEF SessionRow
  <2> HIDE DEF draft, row
  <2> QED
    BY <1>1, <2>1, <2>2, <2>3 DEF SessionRow
<1>4. SessionFits(row)
  BY <1>3, NoneAssumption DEF SessionFits
<1>5. SetSession(s, row)
  BY DEF PersistDraft
<1>6. sessions[s].draft.facts \subseteq ReadyFacts(s)
  <2> SUFFICES ASSUME NEW pair \in sessions[s].draft.facts PROVE pair \in ReadyFacts(s)
    OBVIOUS
  <2>1. /\ pair \in Ids \X Values /\ pair = <<pair[1], pair[2]>> /\ pair[1][1] = s
        /\ facts[pair[1]] = [value |-> pair[2], confirmed |-> TRUE]
    BY <1>1 DEF DraftRow, FactsMatch, DraftFits
  <2>2. facts[pair[1]] # None
    <3>1. \A value \in Values : [value |-> value, confirmed |-> TRUE] \in FactRow
      BY DEF FactRow
    <3> QED
      BY <2>1, <3>1, NoneAssumption
  <2> QED
    BY <2>1, <2>2 DEF ReadyFacts, FactsOf
<1> HIDE DEF row
<1>7. DraftMove(s, row)
  BY <1>1, <1>3, <1>4, <1>5, <1>6 DEF DraftMove, DraftFits
<1> QED
  BY <1>7

LEMMA ApplyDraftEffect ==
  ASSUME Typed, SessionsInv, DraftsFit, NEW s \in DOMAIN sessions,
         NEW supported \in BOOLEAN, ApplyDraft(s, supported)
  PROVE  \E row : DraftMove(s, row)
<1>1. /\ Drafting(s, "queued") \/ Drafting(s, "running")
      /\ sessions[s].draft # None
      /\ UNCHANGED <<answers, candidates, facts>>
  BY DEF ApplyDraft
<1>2. CASE supported /\ FactsMatch(s)
  BY <1>1, <1>2, PersistDraftEffect DEF ApplyDraft
<1>3. CASE ~(supported /\ FactsMatch(s))
  <2>1. EndDraft(s, "failed", "active") /\ Open(s)
    BY <1>1, <1>3, DraftWaitedFor DEF ApplyDraft
  <2> QED
    BY <1>1, <2>1, EndDraftEffect
<1> QED
  BY <1>2, <1>3

\* An action about the draft of session s.
DraftAction(s) ==
  \/ \E mode \in {"model", "rule_fallback"} : QueueDraft(s, mode)
  \/ BeginDraft(s) \/ DraftFails(s) \/ CancelDraft(s) \/ DraftCancelled(s)
  \/ \E supported \in BOOLEAN : ApplyDraft(s, supported)

LEMMA DraftActionEffect ==
  ASSUME Typed, SessionsInv, DraftsFit, NEW s \in DOMAIN sessions, DraftAction(s)
  PROVE  \E row : DraftMove(s, row)
BY QueueDraftEffect, BeginDraftEffect, DraftEndsEffect, ApplyDraftEffect DEF DraftAction

-------------------------------------------------------------------------------
(* What the actions on an answer do *)

\* The question of session s becomes q, and nothing else of any session changes.
QuestionMove(s, q) ==
  /\ q \in Questions \cup {None}
  /\ \/ sessions' = sessions /\ q = sessions[s].question
     \/ SetSession(s, [sessions[s] EXCEPT !.question = q])

\* Answer i of session s becomes row without an end of its analysis by a model: the
\* question after it waits until it is settled.
AnswerMove(s, i, row, q) ==
  /\ row \in AnswerRow /\ AnswerFits(row)
  /\ SetAnswer(s, i, row)
  /\ row.question = answers[s][i].question
  /\ answers[s][i].task # "succeeded" /\ row.task # "succeeded"
  /\ row.analysis \in Unsettled => answers[s][i].analysis \in Unsettled
  /\ QuestionMove(s, q)
  /\ q # None =>
       /\ row.analysis \notin {"queued", "running", "failed"}
       /\ \/ q = sessions[s].question
          \/ answers[s][i].analysis \in Unsettled /\ Rank[row.question] < Rank[q]
  /\ UNCHANGED <<candidates, facts>>

\* An analysis that is on its way: the session asks nothing.
LEMMA AnalysisAwaited ==
  ASSUME Typed, QuestionsInv, NEW s \in DOMAIN sessions, NEW i \in DOMAIN answers[s],
         \/ answers[s][i].task \in {"queued", "running"}
         \/ answers[s][i].analysis \in {"queued", "running"}
  PROVE  /\ answers[s][i] \in AnswerRow /\ AnswerFits(answers[s][i])
         /\ answers[s][i].analysis \in {"queued", "running"}
         /\ answers[s][i].task # "succeeded"
         /\ sessions[s].question = None
BY RowsOf DEF QuestionsInv, QuestionsFit, AnswerFits

LEMMA AnalysisStepEffect ==
  ASSUME Typed, QuestionsInv, NEW s \in DOMAIN sessions, NEW i \in DOMAIN answers[s],
         \/ BeginAnalysis(s, i) \/ AnalysisFails(s, i)
         \/ AnalysisTaskEnds(s, i) \/ AnalysisCancelled(s, i)
  PROVE  \E row, q : AnswerMove(s, i, row, q)
<1> DEFINE old == answers[s][i]
<1>1. /\ old \in AnswerRow /\ AnswerFits(old) /\ old.analysis \in {"queued", "running"}
      /\ old.task # "succeeded" /\ sessions[s].question = None
      /\ UNCHANGED <<sessions, candidates, facts>>
  BY AnalysisAwaited DEF BeginAnalysis, AnalysisFails, AnalysisTaskEnds, AnalysisCancelled
<1>2. \E task \in {"running", "failed", "cancelled"},
        analysis \in {"queued", "running", "failed"} :
        /\ task = "running" => analysis = "running"
        /\ SetAnswer(s, i, [old EXCEPT !.task = task, !.analysis = analysis])
  <2>1. CASE BeginAnalysis(s, i)
    BY <2>1 DEF BeginAnalysis
  <2>2. CASE AnalysisFails(s, i)
    BY <2>2 DEF AnalysisFails
  <2>3. CASE AnalysisTaskEnds(s, i)
    <3>1. PICK task \in {"cancelled", "failed"} : SetAnswer(s, i, [old EXCEPT !.task = task])
      BY <2>3 DEF AnalysisTaskEnds
    <3>2. [old EXCEPT !.task = task] = [old EXCEPT !.task = task, !.analysis = old.analysis]
      BY <1>1 DEF AnswerRow
    <3>3. SetAnswer(s, i, [old EXCEPT !.task = task, !.analysis = old.analysis])
      BY <3>1, <3>2 DEF SetAnswer
    <3> QED
      BY <1>1, <3>3
  <2>4. CASE AnalysisCancelled(s, i)
    <3>1. [old EXCEPT !.analysis = "failed"]
            = [old EXCEPT !.task = "cancelled", !.analysis = "failed"]
      BY <1>1, <2>4 DEF AnalysisCancelled, AnswerRow
    <3>2. SetAnswer(s, i, [old EXCEPT !.task = "cancelled", !.analysis = "failed"])
      BY <2>4, <3>1 DEF AnalysisCancelled
    <3> QED
      BY <3>2
  <2> QED
    BY <2>1, <2>2, <2>3, <2>4
<1>3. PICK task \in {"running", "failed", "cancelled"},
        analysis \in {"queued", "running", "failed"} :
        /\ task = "running" => analysis = "running"
        /\ SetAnswer(s, i, [old EXCEPT !.task = task, !.analysis = analysis])
  BY <1>2
<1> DEFINE row == [old EXCEPT !.task = task, !.analysis = analysis]
<1>4. /\ row \in AnswerRow /\ row.task = task /\ row.analysis = analysis
      /\ row.question = old.question
  BY <1>1, StatusesAre DEF AnswerRow, Busy
<1>5. AnswerFits(row)
  BY <1>3, <1>4 DEF AnswerFits
<1> HIDE DEF row
<1>6. AnswerMove(s, i, row, None)
  BY <1>1, <1>3, <1>4, <1>5 DEF AnswerMove, QuestionMove, Unsettled, Busy, row
<1> QED
  BY <1>6

\* The question that comes after an answer is a later one.
LEMMA QuestionAfterIsLater ==
  ASSUME NEW row \in AnswerRow
  PROVE  /\ QuestionAfter(row) \in Questions \cup {None}
         /\ QuestionAfter(row) # None => Rank[row.question] < Rank[QuestionAfter(row)]
<1>1. row.question \in Questions /\ row.role \in Roles
  BY DEF AnswerRow
<1> QED
  BY <1>1, NextIsLater DEF QuestionAfter

\* Trying a failed analysis again, or going on without it.
LEMMA AfterFailureEffect ==
  ASSUME Typed, QuestionsInv, NEW s \in DOMAIN sessions,
         RetryAnalysis(s) \/ ContinueAnalysis(s)
  PROVE  \E i \in DOMAIN answers[s] : \E row, q : AnswerMove(s, i, row, q)
<1>1. PICK i \in DOMAIN answers[s] :
        LET row == answers[s][i] IN
        /\ row.analysis = "failed" /\ row.task \in {"failed", "cancelled"}
        /\ \/ /\ SetAnswer(s, i, [row EXCEPT !.task = "queued", !.analysis = "queued"])
              /\ SetSession(s, [sessions[s] EXCEPT !.question = None])
           \/ /\ SetAnswer(s, i, [WithoutSnapshot(row) EXCEPT !.analysis = "completed"])
              /\ SetSession(s, [sessions[s] EXCEPT !.question = QuestionAfter(row)])
        /\ UNCHANGED <<candidates, facts>>
  BY DEF RetryAnalysis, ContinueAnalysis, Latest
<1> DEFINE old == answers[s][i]
<1>2. old \in AnswerRow /\ old.analysis = "failed" /\ old.task \in {"failed", "cancelled"}
  BY <1>1, RowsOf
<1>3. CASE /\ SetAnswer(s, i, [old EXCEPT !.task = "queued", !.analysis = "queued"])
           /\ SetSession(s, [sessions[s] EXCEPT !.question = None])
  <2> DEFINE row == [old EXCEPT !.task = "queued", !.analysis = "queued"]
  <2>1. /\ row \in AnswerRow /\ row.task = "queued" /\ row.analysis = "queued"
        /\ row.question = old.question
    BY <1>2, StatusesAre DEF AnswerRow, Busy
  <2>2. AnswerFits(row)
    BY <2>1 DEF AnswerFits
  <2>3. SetAnswer(s, i, row)
    BY <1>3
  <2> HIDE DEF row
  <2>4. AnswerMove(s, i, row, None)
    BY <1>1, <1>2, <1>3, <2>1, <2>2, <2>3 DEF AnswerMove, QuestionMove, Unsettled, Busy
  <2> QED
    BY <2>4
<1>4. CASE /\ SetAnswer(s, i, [WithoutSnapshot(old) EXCEPT !.analysis = "completed"])
           /\ SetSession(s, [sessions[s] EXCEPT !.question = QuestionAfter(old)])
  <2> DEFINE row == [WithoutSnapshot(old) EXCEPT !.analysis = "completed"]
  <2>1. /\ row \in AnswerRow /\ row.task = old.task /\ row.analysis = "completed"
        /\ row.question = old.question
    BY <1>2 DEF AnswerRow, WithoutSnapshot
  <2>2. AnswerFits(row)
    BY <1>2, <2>1 DEF AnswerFits
  <2>3. SetAnswer(s, i, row)
    BY <1>4
  <2>4. /\ QuestionAfter(old) \in Questions \cup {None}
        /\ QuestionAfter(old) # None => Rank[row.question] < Rank[QuestionAfter(old)]
    BY <1>2, <2>1, QuestionAfterIsLater
  <2> HIDE DEF row
  <2>5. AnswerMove(s, i, row, QuestionAfter(old))
    BY <1>1, <1>2, <1>4, <2>1, <2>2, <2>3, <2>4
    DEF AnswerMove, QuestionMove, Unsettled, Busy
  <2> QED
    BY <2>5
<1> QED
  BY <1>1, <1>3, <1>4

LEMMA QuestionMoveEffect ==
  ASSUME Typed, NEW s \in DOMAIN sessions, NEW q, QuestionMove(s, q)
  PROVE  /\ sessions' \in Seq(SessionRow)
         /\ DOMAIN sessions' = DOMAIN sessions /\ Len(sessions') = Len(sessions)
         /\ sessions'[s].question = q
         /\ \A t \in DOMAIN sessions :
              /\ t # s => sessions'[t] = sessions[t]
              /\ sessions'[t].status = sessions[t].status
              /\ sessions'[t].key = sessions[t].key
              /\ sessions'[t].draft = sessions[t].draft
              /\ sessions'[t].resumes = sessions[t].resumes
<1>1. CASE sessions' = sessions /\ q = sessions[s].question
  BY <1>1, RowsOf DEF Typed, IntakeTypeOK
<1>2. CASE SetSession(s, [sessions[s] EXCEPT !.question = q])
  <2> DEFINE row == [sessions[s] EXCEPT !.question = q]
  <2>1. /\ row \in SessionRow /\ row.question = q
        /\ row.status = sessions[s].status /\ row.key = sessions[s].key
        /\ row.draft = sessions[s].draft /\ row.resumes = sessions[s].resumes
    BY RowsOf DEF QuestionMove, SessionRow
  <2>2. SetSession(s, row)
    BY <1>2
  <2> HIDE DEF row
  <2> QED
    BY <2>1, <2>2, SetSessionEffect
<1> QED
  BY <1>1, <1>2 DEF QuestionMove

\* An answer is put after the others of its session; those are settled.
LEMMA AnswerEffect ==
  ASSUME Typed, QuestionsInv, NEW s \in DOMAIN sessions,
         NEW state \in {"answered", "skipped"}, NEW role \in Roles, Answer(s, state, role)
  PROVE  \E row, q :
           /\ row \in AnswerRow
           /\ AnswerFits(row) /\ row.task # "succeeded"
           /\ row.analysis # "waiting_for_confirmation"
           /\ answers' \in Seq(Seq(AnswerRow)) /\ DOMAIN answers' = DOMAIN answers
           /\ \A t \in DOMAIN answers : t # s => answers'[t] = answers[t]
           /\ DOMAIN answers'[s] = 1..(Last(s) + 1) /\ Len(answers'[s]) = Last(s) + 1
           /\ answers'[s][Last(s) + 1] = row
           /\ \A i \in 1..Last(s) :
                /\ answers'[s][i] = answers[s][i]
                /\ answers[s][i].analysis \notin Unsettled
                /\ Rank[answers[s][i].question] < Rank[row.question]
           /\ QuestionMove(s, q)
           /\ q # None => row.analysis = "idle" /\ Rank[row.question] < Rank[q]
           /\ UNCHANGED <<candidates, facts>>
<1> DEFINE answered == state = "answered"
           row == [question |-> sessions[s].question, state |-> state, role |-> role,
                   analysis |-> IF answered THEN "queued" ELSE "idle",
                   task |-> IF answered THEN "queued" ELSE None, snapshot |-> answered]
           q == IF answered THEN None ELSE NextQuestion(sessions[s].question, state, role)
<1>1. /\ sessions[s] \in SessionRow /\ sessions[s].question \in Questions
      /\ sessions[s].question # None
      /\ Reviewed(s)
      /\ answers' = [answers EXCEPT ![s] = Append(answers[s], row)]
      /\ SetSession(s, [sessions[s] EXCEPT !.question = q])
      /\ UNCHANGED <<candidates, facts>>
  BY RowsOf DEF Answer, SessionRow
<1>2. /\ row \in AnswerRow /\ row.question = sessions[s].question
      /\ AnswerFits(row) /\ row.task # "succeeded"
      /\ row.analysis \in {"queued", "idle"}
  BY <1>1, StatusesAre, NoneAssumption DEF AnswerRow, AnswerFits, Busy
<1>3. /\ q \in Questions \cup {None}
      /\ q # None => row.analysis = "idle" /\ Rank[row.question] < Rank[q]
  BY <1>1, NextIsLater
<1> HIDE DEF row, q
<1>4. QuestionMove(s, q)
  BY <1>1, <1>3 DEF QuestionMove
<1>5. /\ answers[s] \in Seq(AnswerRow) /\ Last(s) = Len(answers[s]) /\ Last(s) \in Nat
      /\ answers \in Seq(Seq(AnswerRow)) /\ s \in 1..Len(answers)
      /\ DOMAIN answers[s] = 1..Last(s)
  BY RowsOf DEF Typed, IntakeTypeOK, Last
<1> DEFINE rows == Append(answers[s], row)
<1>6. /\ rows \in Seq(AnswerRow) /\ Len(rows) = Last(s) + 1
      /\ DOMAIN rows = 1..(Last(s) + 1) /\ rows[Last(s) + 1] = row
      /\ \A i \in 1..Last(s) : rows[i] = answers[s][i]
  BY <1>2, <1>5, AppendProperties, LenProperties
<1>7. answers' = [answers EXCEPT ![s] = rows]
  BY <1>1
<1> HIDE DEF rows
<1>8. /\ answers' \in Seq(Seq(AnswerRow)) /\ DOMAIN answers' = DOMAIN answers
      /\ answers'[s] = rows
      /\ \A t \in DOMAIN answers : t # s => answers'[t] = answers[t]
  BY <1>5, <1>6, <1>7, ExceptSeq
<1>9. ASSUME NEW i \in 1..Last(s)
      PROVE  /\ answers[s][i].analysis \notin Unsettled
             /\ Rank[answers[s][i].question] < Rank[row.question]
  <2>1. QuestionsFit(s) /\ PendingCanBeDecided
    BY DEF QuestionsInv
  <2>2. PendingOf(s, i) = {}
    BY <1>1, <1>5 DEF Reviewed, PendingIn
  <2>3. answers[s][i].analysis # "waiting_for_confirmation"
    BY <1>5, <2>1, <2>2 DEF PendingCanBeDecided
  <2> QED
    BY <1>1, <1>2, <1>5, <2>1, <2>3 DEF QuestionsFit, Unsettled, Busy
<1> QED
  BY <1>1, <1>2, <1>3, <1>4, <1>6, <1>8, <1>9

\* A new session is put after the others, none of which is open afterwards; their
\* answers lose no more than a snapshot.
LEMMA StartEffect ==
  ASSUME Typed, SessionsInv, Start
  PROVE  LET new == Len(sessions) + 1 IN
         /\ sessions' \in Seq(SessionRow) /\ Len(sessions') = new /\ new <= MaxSessions
         /\ DOMAIN sessions' = 1..new /\ sessions'[new] = NewSession
         /\ answers' \in Seq(Seq(AnswerRow)) /\ DOMAIN answers' = 1..new
         /\ answers'[new] = <<>>
         /\ \A s \in DOMAIN sessions :
              /\ SessionFits(sessions'[s])
              /\ sessions'[s].status \notin {"active", "drafting"}
              /\ sessions'[s].question = sessions[s].question
              /\ sessions'[s].draft = sessions[s].draft
              /\ sessions'[s].resumes = sessions[s].resumes
              /\ DOMAIN answers'[s] = DOMAIN answers[s] /\ Last(s)' = Last(s)
              /\ \A i \in DOMAIN answers[s] :
                   /\ answers'[s][i].question = answers[s][i].question
                   /\ answers'[s][i].analysis = answers[s][i].analysis
                   /\ answers'[s][i].task = answers[s][i].task
         /\ UNCHANGED <<candidates, facts>>
<1> DEFINE n == Len(sessions)
           open == {s \in DOMAIN sessions : sessions[s].key /\ Open(s)}
           given == [s \in DOMAIN sessions |->
                       IF s \in open THEN [sessions[s] EXCEPT !.status = "abandoned", !.key = FALSE]
                                     ELSE sessions[s]]
           kept(s) == [i \in DOMAIN answers[s] |->
                         IF answers[s][i].analysis = "failed"
                         THEN WithoutSnapshot(answers[s][i]) ELSE answers[s][i]]
           rows == [s \in DOMAIN sessions |-> IF s \in open THEN kept(s) ELSE answers[s]]
<1>1. /\ n < MaxSessions /\ \A s \in open : Restartable(s)
      /\ sessions' = Append(given, NewSession) /\ answers' = Append(rows, <<>>)
      /\ UNCHANGED <<candidates, facts>>
  BY DEF Start
<1>2. n \in Nat /\ DOMAIN sessions = 1..n
  BY RowsOf
<1>3. ASSUME NEW s \in DOMAIN sessions
      PROVE  /\ given[s] \in SessionRow /\ SessionFits(given[s])
             /\ given[s].status \notin {"active", "drafting"}
             /\ given[s].question = sessions[s].question
             /\ given[s].draft = sessions[s].draft
             /\ given[s].resumes = sessions[s].resumes
  <2>1. sessions[s] \in SessionRow /\ SessionFits(sessions[s])
    BY RowsOf DEF SessionsInv
  <2>2. CASE s \in open
    <3> DEFINE row == [sessions[s] EXCEPT !.status = "abandoned", !.key = FALSE]
    <3>1. given[s] = row
      BY <2>2
    <3>2. sessions[s].status = "active"
      BY <1>1, <2>2 DEF Restartable
    <3>3. /\ row \in SessionRow /\ row.status = "abandoned" /\ row.key = FALSE
          /\ row.question = sessions[s].question /\ row.draft = sessions[s].draft
          /\ row.resumes = sessions[s].resumes
      BY <2>1 DEF SessionRow
    <3>4. SessionFits(row)
      BY <2>1, <3>2, <3>3 DEF SessionFits
    <3> HIDE DEF row, given
    <3> QED
      BY <3>1, <3>3, <3>4
  <2>3. CASE s \notin open
    <3>1. given[s] = sessions[s]
      BY <2>3
    <3>2. sessions[s].status \notin {"active", "drafting"}
      BY <2>1, <2>3 DEF SessionFits, Open
    <3> HIDE DEF given
    <3> QED
      BY <2>1, <3>1, <3>2
  <2> QED
    BY <2>2, <2>3
<1>4. ASSUME NEW s \in DOMAIN sessions
      PROVE  /\ rows[s] \in Seq(AnswerRow)
             /\ DOMAIN rows[s] = DOMAIN answers[s] /\ Len(rows[s]) = Last(s)
             /\ \A i \in DOMAIN answers[s] :
                  /\ rows[s][i].question = answers[s][i].question
                  /\ rows[s][i].analysis = answers[s][i].analysis
                  /\ rows[s][i].task = answers[s][i].task
  <2>1. /\ answers[s] \in Seq(AnswerRow) /\ Last(s) \in Nat /\ DOMAIN answers[s] = 1..Last(s)
        /\ \A i \in DOMAIN answers[s] : answers[s][i] \in AnswerRow
    BY RowsOf
  <2>2. ASSUME NEW i \in DOMAIN answers[s]
        PROVE  /\ kept(s)[i] \in AnswerRow
               /\ kept(s)[i].question = answers[s][i].question
               /\ kept(s)[i].analysis = answers[s][i].analysis
               /\ kept(s)[i].task = answers[s][i].task
    BY <2>1 DEF WithoutSnapshot, AnswerRow
  <2>3. kept(s) \in [1..Last(s) -> AnswerRow]
    BY <2>1, <2>2
  <2>4. kept(s) \in Seq(AnswerRow) /\ Len(kept(s)) = Last(s)
    <3>1. kept(s) \in Seq(AnswerRow)
      BY <2>1, <2>3, FunctionIsSeq
    <3>2. DOMAIN kept(s) = 1..Last(s)
      BY <2>3
    <3> QED
      BY <2>1, <3>1, <3>2, LenDomain
  <2>5. rows[s] = IF s \in open THEN kept(s) ELSE answers[s]
    OBVIOUS
  <2>6. DOMAIN kept(s) = DOMAIN answers[s]
    OBVIOUS
  <2> HIDE DEF kept, open, rows
  <2> QED
    BY <2>1, <2>2, <2>4, <2>5, <2>6 DEF Last
<1>5. given \in [1..n -> SessionRow] /\ rows \in [1..n -> Seq(AnswerRow)]
  BY <1>2, <1>3, <1>4
<1>6. given \in Seq(SessionRow) /\ rows \in Seq(Seq(AnswerRow))
  <2> HIDE DEF given, rows
  <2> QED
    BY <1>2, <1>5, FunctionIsSeq
<1>7. DOMAIN given = 1..n /\ DOMAIN rows = 1..n
  BY <1>2
<1> HIDE DEF given, rows
<1>8. Len(given) = n /\ Len(rows) = n
  BY <1>2, <1>6, <1>7, LenDomain
<1>9. NewSession \in SessionRow
  BY QuestionsAre, BoundsAreNat DEF NewSession, SessionRow
<1>10. /\ sessions' \in Seq(SessionRow) /\ Len(sessions') = n + 1
       /\ DOMAIN sessions' = 1..(n + 1) /\ sessions'[n + 1] = NewSession
       /\ \A s \in 1..n : sessions'[s] = given[s]
  BY <1>1, <1>6, <1>8, <1>9, AppendProperties, LenProperties
<1>11. /\ answers' \in Seq(Seq(AnswerRow)) /\ Len(answers') = n + 1
       /\ DOMAIN answers' = 1..(n + 1) /\ answers'[n + 1] = <<>>
       /\ \A s \in 1..n : answers'[s] = rows[s]
  <2>1. <<>> \in Seq(AnswerRow)
    BY EmptySeq
  <2> QED
    BY <1>1, <1>6, <1>8, <2>1, AppendProperties, LenProperties
<1> QED
  BY <1>1, <1>2, <1>3, <1>4, <1>10, <1>11, BoundsAreNat DEF Last

\* An analysis that succeeds: its answer had no candidate before, and has those found.
LEMMA AnalysisSucceedsEffect ==
  ASSUME Typed, QuestionsInv, NEW s \in DOMAIN sessions, NEW i \in DOMAIN answers[s],
         NEW found \in Findings, AnalysisSucceeds(s, i, found)
  PROVE  \E row, q :
           /\ row \in AnswerRow
           /\ AnswerFits(row) /\ row.task = "succeeded"
           /\ row.question = answers[s][i].question
           /\ row.analysis = IF DOMAIN found = {} THEN "completed" ELSE "waiting_for_confirmation"
           /\ answers[s][i].analysis = "running"
           /\ SetAnswer(s, i, row)
           /\ QuestionMove(s, q)
           /\ q # None => Rank[row.question] < Rank[q]
           /\ DOMAIN found \subseteq Spans
           /\ DOMAIN candidates' = Ids
           /\ \A id \in Ids :
                IF id[1] = s /\ id[2] = i
                THEN /\ candidates[id] = None
                     /\ IF id[3] \in DOMAIN found
                        THEN candidates'[id] \in CandidateRow /\ candidates'[id].status = "pending"
                        ELSE candidates'[id] = None
                ELSE candidates'[id] = candidates[id]
           /\ UNCHANGED facts
<1> DEFINE old == answers[s][i]
           row == [WithoutSnapshot(old) EXCEPT
                     !.task = "succeeded",
                     !.analysis = IF DOMAIN found = {} THEN "completed"
                                                       ELSE "waiting_for_confirmation"]
           q == QuestionAfter(old)
<1>1. /\ old \in AnswerRow /\ old.analysis = "running" /\ old.task = "running"
      /\ SetAnswer(s, i, row)
      /\ SetSession(s, [sessions[s] EXCEPT !.question = q])
      /\ UNCHANGED facts
  BY RowsOf DEF AnalysisSucceeds
<1>2. /\ row \in AnswerRow /\ row.task = "succeeded" /\ row.question = old.question
      /\ row.analysis = IF DOMAIN found = {} THEN "completed" ELSE "waiting_for_confirmation"
  BY <1>1, StatusesAre DEF AnswerRow, WithoutSnapshot, Busy
<1>3. AnswerFits(row)
  BY <1>2 DEF AnswerFits
<1>4. /\ QuestionMove(s, q)
      /\ q # None => Rank[row.question] < Rank[q]
  BY <1>1, <1>2, QuestionAfterIsLater DEF QuestionMove
<1>5. DOMAIN found \subseteq Spans /\ \A span \in DOMAIN found : found[span] \in DecisionModes
  <2>1. PICK spans \in SUBSET Spans : found \in [spans -> DecisionModes]
    BY DEF Findings
  <2> QED
    BY <2>1
<1>6. \A id \in Ids : id[1] = s /\ id[2] = i => candidates[id] = None
  BY <1>1 DEF QuestionsInv, CandidatesFit
<1>7. /\ DOMAIN candidates' = Ids
      /\ \A id \in Ids : candidates'[id] =
           IF id[1] = s /\ id[2] = i /\ id[3] \in DOMAIN found /\ candidates[id] = None
           THEN [status |-> "pending", mode |-> found[id[3]]] ELSE candidates[id]
  BY DEF AnalysisSucceeds
<1>8. \A mode \in DecisionModes : [status |-> "pending", mode |-> mode] \in CandidateRow
  BY DEF CandidateRow
<1> HIDE DEF row, q
<1>9. ASSUME NEW id \in Ids
      PROVE  IF id[1] = s /\ id[2] = i
             THEN /\ candidates[id] = None
                  /\ IF id[3] \in DOMAIN found
                     THEN candidates'[id] \in CandidateRow /\ candidates'[id].status = "pending"
                     ELSE candidates'[id] = None
             ELSE candidates'[id] = candidates[id]
  BY <1>5, <1>6, <1>7, <1>8
<1> QED
  BY <1>1, <1>2, <1>3, <1>4, <1>5, <1>7, <1>9

\* A decision: the candidate is no longer pending, and is a fact unless it was rejected.
LEMMA DecideEffect ==
  ASSUME Typed, QuestionsInv, NEW id \in Ids, NEW decision \in DOMAIN Decisions,
         Decide(id, decision)
  PROVE  /\ candidates[id] \in CandidateRow /\ candidates[id].status = "pending"
         /\ candidates' \in [Ids -> CandidateRow \cup {None}]
         /\ candidates'[id] \in CandidateRow /\ candidates'[id].mode = candidates[id].mode
         /\ candidates'[id].status \in {"accepted", "edited", "rejected"}
         /\ candidates'[id].status = "accepted" => candidates[id].mode = "accept_or_edit"
         /\ \A other \in Ids : other # id => candidates'[other] = candidates[other]
         /\ facts' \in [Ids -> FactRow \cup {None}]
         /\ \A other \in Ids : other # id => facts'[other] = facts[other]
         /\ IF candidates'[id].status = "rejected" THEN facts'[id] = facts[id]
                                                   ELSE facts'[id] \in FactRow
         /\ id[1] \in DOMAIN sessions /\ id[2] \in DOMAIN answers[id[1]]
         /\ answers[id[1]][id[2]].analysis = "waiting_for_confirmation"
         /\ IF LastPending(id)
            THEN SetAnswer(id[1], id[2], [answers[id[1]][id[2]] EXCEPT !.analysis = "completed"])
            ELSE answers' = answers
         /\ UNCHANGED sessions
<1>1. /\ candidates[id] # None /\ candidates[id].status = "pending"
      /\ decision = "accept" => candidates[id].mode = "accept_or_edit"
      /\ answers[id[1]][id[2]].analysis = "waiting_for_confirmation"
      /\ candidates' = [candidates EXCEPT ![id].status = Decisions[decision]]
      /\ facts' = IF decision = "reject" THEN facts
                  ELSE [facts EXCEPT ![id] = [value |-> "decided", confirmed |-> TRUE]]
      /\ answers' = IF LastPending(id)
                    THEN [answers EXCEPT ![id[1]][id[2]].analysis = "completed"] ELSE answers
      /\ UNCHANGED sessions
  BY DEF Decide, Undecided, Allowed
<1>2. /\ candidates \in [Ids -> CandidateRow \cup {None}]
      /\ facts \in [Ids -> FactRow \cup {None}]
  BY DEF Typed, IntakeTypeOK
<1>3. /\ decision \in {"accept", "edit", "reject"}
      /\ Decisions[decision] \in {"accepted", "edited", "rejected"}
      /\ Decisions[decision] = "rejected" <=> decision = "reject"
      /\ Decisions[decision] = "accepted" <=> decision = "accept"
  BY DEF Decisions
<1> DEFINE row == [candidates[id] EXCEPT !.status = Decisions[decision]]
<1>4. /\ candidates[id] \in CandidateRow /\ row \in CandidateRow
      /\ row.mode = candidates[id].mode /\ row.status = Decisions[decision]
  BY <1>1, <1>2, <1>3 DEF CandidateRow
<1>5. candidates' = [candidates EXCEPT ![id] = row]
  BY <1>1
<1> HIDE DEF row
<1>6. /\ candidates' \in [Ids -> CandidateRow \cup {None}] /\ candidates'[id] = row
      /\ \A other \in Ids : other # id => candidates'[other] = candidates[other]
  BY <1>2, <1>4, <1>5
<1>7. [value |-> "decided", confirmed |-> TRUE] \in FactRow
  BY DEF FactRow, Values
<1>8. /\ facts' \in [Ids -> FactRow \cup {None}]
      /\ \A other \in Ids : other # id => facts'[other] = facts[other]
      /\ IF decision = "reject" THEN facts'[id] = facts[id] ELSE facts'[id] \in FactRow
  BY <1>1, <1>2, <1>7
<1>9. id[1] \in DOMAIN sessions /\ id[2] \in DOMAIN answers[id[1]]
  BY <1>1 DEF QuestionsInv, CandidatesFit
<1>10. IF LastPending(id)
       THEN SetAnswer(id[1], id[2], [answers[id[1]][id[2]] EXCEPT !.analysis = "completed"])
       ELSE answers' = answers
  BY <1>1 DEF SetAnswer
<1> QED
  BY <1>1, <1>3, <1>4, <1>6, <1>8, <1>9, <1>10

\* update_fact and set_status: no fact comes or goes.
LEMMA ChangeFactEffect ==
  ASSUME Typed, NEW id \in Ids, ChangeFact(id)
  PROVE  /\ facts' \in [Ids -> FactRow \cup {None}]
         /\ \A other \in Ids : facts'[other] # None <=> facts[other] # None
         /\ UNCHANGED <<sessions, answers, candidates>>
<1>1. facts \in [Ids -> FactRow \cup {None}] /\ None \notin FactRow
  BY NoneAssumption DEF Typed, IntakeTypeOK
<1>2. facts[id] # None /\ facts[id] \in FactRow
  BY <1>1 DEF ChangeFact
<1>3. \E row \in FactRow : facts' = [facts EXCEPT ![id] = row]
  <2>1. CASE facts' = [facts EXCEPT ![id] = [value |-> "changed", confirmed |-> FALSE]]
    <3>1. [value |-> "changed", confirmed |-> FALSE] \in FactRow
      BY DEF FactRow, Values
    <3> QED
      BY <2>1, <3>1
  <2>2. CASE facts' = [facts EXCEPT ![id].confirmed = ~@]
    <3>1. [facts[id] EXCEPT !.confirmed = ~facts[id].confirmed] \in FactRow
      BY <1>2 DEF FactRow
    <3>2. facts' = [facts EXCEPT ![id] = [facts[id] EXCEPT !.confirmed = ~facts[id].confirmed]]
      BY <2>2
    <3> QED
      BY <3>1, <3>2
  <2> QED
    BY <2>1, <2>2 DEF ChangeFact
<1>4. PICK row \in FactRow : facts' = [facts EXCEPT ![id] = row]
  BY <1>3
<1> QED
  BY <1>1, <1>2, <1>4 DEF ChangeFact

-------------------------------------------------------------------------------
(* Every step *)

LEMMA StepCases ==
  ASSUME Typed, SessionsInv, QuestionsInv, DraftsFit, [IntakeNext]_intakeVars
  PROVE  \/ Start
         \/ \E s \in DOMAIN sessions, state \in {"answered", "skipped"}, role \in Roles :
              Answer(s, state, role)
         \/ \E s \in DOMAIN sessions : \E i \in DOMAIN answers[s] :
              \E row, q : AnswerMove(s, i, row, q)
         \/ \E s \in DOMAIN sessions : \E i \in DOMAIN answers[s] :
              \E found \in Findings : AnalysisSucceeds(s, i, found)
         \/ \E s \in DOMAIN sessions : \E row : DraftMove(s, row)
         \/ \E id \in Ids, decision \in DOMAIN Decisions : Decide(id, decision)
         \/ \E id \in Ids : ChangeFact(id)
         \/ UNCHANGED intakeVars
<1>1. ASSUME NEW s \in DOMAIN sessions, NEW i \in DOMAIN answers[s],
             \/ BeginAnalysis(s, i) \/ AnalysisFails(s, i)
             \/ AnalysisTaskEnds(s, i) \/ AnalysisCancelled(s, i)
      PROVE  \E row, q : AnswerMove(s, i, row, q)
  BY <1>1, AnalysisStepEffect
<1>2. ASSUME NEW s \in DOMAIN sessions, RetryAnalysis(s) \/ ContinueAnalysis(s)
      PROVE  \E i \in DOMAIN answers[s] : \E row, q : AnswerMove(s, i, row, q)
  BY <1>2, AfterFailureEffect
<1>3. ASSUME NEW s \in DOMAIN sessions, DraftAction(s)
      PROVE  \E row : DraftMove(s, row)
  BY <1>3, DraftActionEffect
<1> QED
  BY <1>1, <1>2, <1>3 DEF IntakeNext, DraftAction

LEMMA TypedStep ==
  ASSUME Typed, SessionsInv, QuestionsInv, DraftsFit, [IntakeNext]_intakeVars
  PROVE  Typed'
<1> USE DEF Typed, IntakeTypeOK
<1>1. CASE Start
  <2> DEFINE new == Len(sessions) + 1
  <2>1. /\ sessions' \in Seq(SessionRow) /\ Len(sessions') = new /\ new <= MaxSessions
        /\ DOMAIN sessions' = 1..new
        /\ answers' \in Seq(Seq(AnswerRow)) /\ DOMAIN answers' = 1..new
        /\ answers'[new] = <<>>
        /\ \A s \in DOMAIN sessions : Last(s)' = Last(s)
        /\ UNCHANGED <<candidates, facts>>
    BY <1>1, StartEffect
  <2>2. DOMAIN sessions = 1..Len(sessions) /\ Len(sessions) \in Nat
    BY RowsOf
  <2>3. \A s \in DOMAIN sessions' : Len(answers'[s]) <= MaxAnswers
    <3>1. Len(answers'[new]) = 0
      BY <2>1
    <3>2. \A s \in DOMAIN sessions : Len(answers'[s]) <= MaxAnswers
      BY <2>1 DEF Last
    <3>3. \A s \in DOMAIN sessions' : s = new \/ s \in DOMAIN sessions
      BY <2>1, <2>2
    <3> QED
      BY <3>1, <3>2, <3>3, BoundsAreNat
  <2> QED
    BY <2>1, <2>3 DEF Last
<1>2. ASSUME NEW s \in DOMAIN sessions, NEW state \in {"answered", "skipped"}, NEW role \in Roles,
             Answer(s, state, role)
      PROVE  Typed'
  <2>1. Last(s) + 1 <= MaxAnswers
    BY <1>2, AnswersBounded DEF Answer
  <2>2. PICK q :
          /\ answers' \in Seq(Seq(AnswerRow)) /\ DOMAIN answers' = DOMAIN answers
          /\ \A t \in DOMAIN answers : t # s => answers'[t] = answers[t]
          /\ Len(answers'[s]) = Last(s) + 1
          /\ QuestionMove(s, q)
          /\ UNCHANGED <<candidates, facts>>
    BY <1>2, AnswerEffect
  <2>3. /\ sessions' \in Seq(SessionRow) /\ DOMAIN sessions' = DOMAIN sessions
        /\ Len(sessions') = Len(sessions)
    BY <2>2, QuestionMoveEffect
  <2> QED
    BY <2>1, <2>2, <2>3 DEF Last
<1>3. ASSUME NEW s \in DOMAIN sessions, NEW i \in DOMAIN answers[s], NEW row, NEW q,
             AnswerMove(s, i, row, q)
      PROVE  Typed'
  <2>1. /\ answers' \in Seq(Seq(AnswerRow)) /\ DOMAIN answers' = DOMAIN answers
        /\ \A t \in DOMAIN sessions : Last(t)' = Last(t)
    BY <1>3, SetAnswerEffect DEF AnswerMove
  <2>2. /\ sessions' \in Seq(SessionRow) /\ DOMAIN sessions' = DOMAIN sessions
        /\ Len(sessions') = Len(sessions)
    BY <1>3, QuestionMoveEffect DEF AnswerMove
  <2> QED
    BY <1>3, <2>1, <2>2 DEF AnswerMove
<1>4. ASSUME NEW s \in DOMAIN sessions, NEW i \in DOMAIN answers[s], NEW found \in Findings,
             AnalysisSucceeds(s, i, found)
      PROVE  Typed'
  <2>1. PICK row, q :
          /\ row \in AnswerRow
          /\ SetAnswer(s, i, row)
          /\ QuestionMove(s, q)
          /\ DOMAIN candidates' = Ids
          /\ \A id \in Ids :
               IF id[1] = s /\ id[2] = i
               THEN /\ candidates[id] = None
                    /\ IF id[3] \in DOMAIN found
                       THEN candidates'[id] \in CandidateRow /\ candidates'[id].status = "pending"
                       ELSE candidates'[id] = None
               ELSE candidates'[id] = candidates[id]
          /\ UNCHANGED facts
    BY <1>4, AnalysisSucceedsEffect
  <2>2. /\ answers' \in Seq(Seq(AnswerRow)) /\ DOMAIN answers' = DOMAIN answers
        /\ \A t \in DOMAIN sessions : Last(t)' = Last(t)
    BY <2>1, SetAnswerEffect
  <2>3. /\ sessions' \in Seq(SessionRow) /\ DOMAIN sessions' = DOMAIN sessions
        /\ Len(sessions') = Len(sessions)
    BY <2>1, QuestionMoveEffect
  <2>4. \A id \in Ids : candidates'[id] \in CandidateRow \cup {None}
    BY <2>1
  <2>5. candidates' = [id \in Ids |-> candidates'[id]]
    BY <1>4 DEF AnalysisSucceeds
  <2>6. candidates' \in [Ids -> CandidateRow \cup {None}]
    BY <2>4, <2>5
  <2> QED
    BY <2>1, <2>2, <2>3, <2>6
<1>5. ASSUME NEW s \in DOMAIN sessions, NEW row, DraftMove(s, row)
      PROVE  Typed'
  BY <1>5, SetSessionEffect DEF DraftMove, Last
<1>6. ASSUME NEW id \in Ids, NEW decision \in DOMAIN Decisions, Decide(id, decision)
      PROVE  Typed'
  <2> DEFINE s == id[1]
             i == id[2]
             row == [answers[s][i] EXCEPT !.analysis = "completed"]
  <2>1. /\ s \in DOMAIN sessions /\ i \in DOMAIN answers[s]
        /\ candidates' \in [Ids -> CandidateRow \cup {None}]
        /\ facts' \in [Ids -> FactRow \cup {None}]
        /\ IF LastPending(id) THEN SetAnswer(s, i, row) ELSE answers' = answers
        /\ UNCHANGED sessions
    BY <1>6, DecideEffect
  <2>2. row \in AnswerRow
    <3>1. answers[s][i] \in AnswerRow
      BY <2>1, RowsOf
    <3> QED
      BY <3>1 DEF AnswerRow
  <2>3. /\ answers' \in Seq(Seq(AnswerRow)) /\ DOMAIN answers' = DOMAIN answers
        /\ \A t \in DOMAIN sessions : Last(t)' = Last(t)
    <3>1. CASE LastPending(id)
      BY <2>1, <2>2, <3>1, SetAnswerEffect
    <3>2. CASE ~LastPending(id)
      BY <2>1, <3>2 DEF Last
    <3> QED
      BY <3>1, <3>2
  <2> QED
    BY <2>1, <2>3
<1>7. ASSUME NEW id \in Ids, ChangeFact(id)
      PROVE  Typed'
  BY <1>7, ChangeFactEffect DEF Last
<1>8. CASE UNCHANGED intakeVars
  BY <1>8 DEF intakeVars, Last
<1> QED
  BY <1>1, <1>2, <1>3, <1>4, <1>5, <1>6, <1>7, <1>8, StepCases

\* What no session but one that is new or whose draft is moved loses.
LEMMA SessionsKept ==
  ASSUME Typed, SessionsInv, DraftsFit, DOMAIN sessions' = DOMAIN sessions,
         \A s \in DOMAIN sessions :
           /\ sessions'[s].status = sessions[s].status /\ sessions'[s].key = sessions[s].key
           /\ sessions'[s].draft = sessions[s].draft /\ sessions'[s].resumes = sessions[s].resumes
  PROVE  SessionsInv' /\ DraftsFit'
<1>1. \A s \in DOMAIN sessions : SessionFits(sessions'[s])
  BY DEF SessionsInv, SessionFits
<1> QED
  BY <1>1 DEF SessionsInv, DraftsFit, Open

LEMMA SessionsStep ==
  ASSUME Typed, SessionsInv, QuestionsInv, DraftsFit, [IntakeNext]_intakeVars
  PROVE  SessionsInv' /\ DraftsFit'
<1>1. CASE Start
  <2> DEFINE new == Len(sessions) + 1
  <2>1. /\ DOMAIN sessions' = 1..new /\ sessions'[new] = NewSession
        /\ \A s \in DOMAIN sessions :
             /\ SessionFits(sessions'[s])
             /\ sessions'[s].status \notin {"active", "drafting"}
             /\ sessions'[s].draft = sessions[s].draft
    BY <1>1, StartEffect
  <2>2. DOMAIN sessions = 1..Len(sessions) /\ Len(sessions) \in Nat
    BY RowsOf
  <2>3. \A s \in DOMAIN sessions' : s = new \/ s \in DOMAIN sessions
    BY <2>1, <2>2
  <2>4. SessionFits(NewSession) /\ NewSession.draft = None
    BY DEF NewSession, SessionFits
  <2> HIDE DEF new
  <2>5. SessionsInv'
    BY <2>1, <2>3, <2>4 DEF SessionsInv, Open
  <2>6. DraftsFit'
    BY <2>1, <2>3, <2>4 DEF DraftsFit
  <2> QED
    BY <2>5, <2>6
<1>2. ASSUME NEW s \in DOMAIN sessions, NEW state \in {"answered", "skipped"}, NEW role \in Roles,
             Answer(s, state, role)
      PROVE  SessionsInv' /\ DraftsFit'
  BY <1>2, AnswerEffect, QuestionMoveEffect, SessionsKept
<1>3. ASSUME NEW s \in DOMAIN sessions, NEW i \in DOMAIN answers[s], NEW row, NEW q,
             AnswerMove(s, i, row, q)
      PROVE  SessionsInv' /\ DraftsFit'
  BY <1>3, QuestionMoveEffect, SessionsKept DEF AnswerMove
<1>4. ASSUME NEW s \in DOMAIN sessions, NEW i \in DOMAIN answers[s], NEW found \in Findings,
             AnalysisSucceeds(s, i, found)
      PROVE  SessionsInv' /\ DraftsFit'
  BY <1>4, AnalysisSucceedsEffect, QuestionMoveEffect, SessionsKept
<1>5. ASSUME NEW s \in DOMAIN sessions, NEW row, DraftMove(s, row)
      PROVE  SessionsInv' /\ DraftsFit'
  <2>1. /\ DOMAIN sessions' = DOMAIN sessions /\ sessions'[s] = row
        /\ \A t \in DOMAIN sessions : t # s => sessions'[t] = sessions[t]
    BY <1>5, SetSessionEffect DEF DraftMove
  <2>2. SessionsInv'
    BY <1>5, <2>1 DEF SessionsInv, DraftMove, Open
  <2>3. DraftsFit'
    BY <1>5, <2>1 DEF DraftsFit, DraftMove
  <2> QED
    BY <2>2, <2>3
<1>6. ASSUME NEW id \in Ids, NEW decision \in DOMAIN Decisions, Decide(id, decision)
      PROVE  SessionsInv' /\ DraftsFit'
  BY <1>6, SessionsKept DEF Decide
<1>7. ASSUME NEW id \in Ids, ChangeFact(id)
      PROVE  SessionsInv' /\ DraftsFit'
  BY <1>7, SessionsKept DEF ChangeFact
<1>8. CASE UNCHANGED intakeVars
  BY <1>8, SessionsKept DEF intakeVars
<1> QED
  BY <1>1, <1>2, <1>3, <1>4, <1>5, <1>6, <1>7, <1>8, StepCases

LEMMA FactsStep ==
  ASSUME Typed, SessionsInv, QuestionsInv, DraftsFit, FactsAreDecided, [IntakeNext]_intakeVars
  PROVE  FactsAreDecided'
<1> USE DEF FactsAreDecided
<1>1. ASSUME UNCHANGED <<candidates, facts>>
      PROVE  FactsAreDecided'
  BY <1>1
<1>2. ASSUME NEW s \in DOMAIN sessions, NEW i \in DOMAIN answers[s], NEW found \in Findings,
             AnalysisSucceeds(s, i, found)
      PROVE  FactsAreDecided'
  <2>1. /\ \A id \in Ids :
             IF id[1] = s /\ id[2] = i
             THEN /\ candidates[id] = None
                  /\ IF id[3] \in DOMAIN found
                     THEN candidates'[id] \in CandidateRow /\ candidates'[id].status = "pending"
                     ELSE candidates'[id] = None
             ELSE candidates'[id] = candidates[id]
        /\ UNCHANGED facts
    BY <1>2, AnalysisSucceedsEffect
  <2> QED
    BY <2>1
<1>3. ASSUME NEW id \in Ids, NEW decision \in DOMAIN Decisions, Decide(id, decision)
      PROVE  FactsAreDecided'
  <2>1. /\ candidates[id] \in CandidateRow /\ candidates[id].status = "pending"
        /\ candidates'[id] \in CandidateRow /\ candidates'[id].mode = candidates[id].mode
        /\ candidates'[id].status \in {"accepted", "edited", "rejected"}
        /\ candidates'[id].status = "accepted" => candidates[id].mode = "accept_or_edit"
        /\ \A other \in Ids : other # id => candidates'[other] = candidates[other]
        /\ \A other \in Ids : other # id => facts'[other] = facts[other]
        /\ IF candidates'[id].status = "rejected" THEN facts'[id] = facts[id]
                                                  ELSE facts'[id] \in FactRow
    BY <1>3, DecideEffect
  <2>2. None \notin FactRow /\ None \notin CandidateRow
    BY NoneAssumption
  <2>3. ASSUME NEW other \in Ids, other # id
        PROVE  /\ facts'[other] # None <=>
                    candidates'[other] # None /\ candidates'[other].status \in {"accepted", "edited"}
               /\ candidates'[other] # None /\ candidates'[other].mode = "edit_only" =>
                    candidates'[other].status # "accepted"
    BY <2>1, <2>3
  <2>4. /\ facts'[id] # None <=>
             candidates'[id] # None /\ candidates'[id].status \in {"accepted", "edited"}
        /\ candidates'[id] # None /\ candidates'[id].mode = "edit_only" =>
             candidates'[id].status # "accepted"
    BY <2>1, <2>2
  <2> QED
    BY <2>3, <2>4
<1>4. ASSUME NEW id \in Ids, ChangeFact(id)
      PROVE  FactsAreDecided'
  BY <1>4, ChangeFactEffect
<1>5. ASSUME NEW s \in DOMAIN sessions, NEW state \in {"answered", "skipped"}, NEW role \in Roles,
             Answer(s, state, role)
      PROVE  FactsAreDecided'
  BY <1>1, <1>5 DEF Answer
<1> QED
  BY <1>1, <1>2, <1>3, <1>4, <1>5, StepCases DEF Start, AnswerMove, DraftMove, intakeVars

-------------------------------------------------------------------------------
(* Questions and answers, action by action *)

\* The candidates that wait, without the set of them.
LEMMA PendingAre ==
  ASSUME NEW s, NEW i
  PROVE  PendingOf(s, i) # {} <=>
           \E id \in Ids : /\ id[1] = s /\ id[2] = i
                           /\ candidates[id] # None /\ candidates[id].status = "pending"
BY DEF PendingOf, CandidatesOf

LEMMA PendingKept ==
  ASSUME UNCHANGED candidates, NEW s, NEW i
  PROVE  PendingOf(s, i)' = PendingOf(s, i)
BY DEF PendingOf, CandidatesOf

\* No question is asked anew, and nothing happens to the answers.
LEMMA QuestionsKept ==
  ASSUME Typed, QuestionsInv, DOMAIN sessions' = DOMAIN sessions,
         \A s \in DOMAIN sessions : sessions'[s].question \in {sessions[s].question, None},
         UNCHANGED <<answers, candidates>>
  PROVE  QuestionsInv'
<1>1. CandidatesFit'
  BY DEF QuestionsInv, CandidatesFit
<1>2. \A s \in DOMAIN sessions : QuestionsFit(s)'
  BY DEF QuestionsInv, QuestionsFit, Last
<1>3. PendingCanBeDecided'
  BY PendingKept DEF QuestionsInv, PendingCanBeDecided
<1> QED
  BY <1>1, <1>2, <1>3 DEF QuestionsInv

LEMMA StartKeepsQuestions ==
  ASSUME Typed, SessionsInv, QuestionsInv, Start
  PROVE  QuestionsInv'
<1> DEFINE new == Len(sessions) + 1
<1>1. /\ DOMAIN sessions' = 1..new /\ answers'[new] = <<>>
      /\ \A s \in DOMAIN sessions :
           /\ sessions'[s].question = sessions[s].question
           /\ DOMAIN answers'[s] = DOMAIN answers[s] /\ Last(s)' = Last(s)
           /\ \A i \in DOMAIN answers[s] :
                /\ answers'[s][i].question = answers[s][i].question
                /\ answers'[s][i].analysis = answers[s][i].analysis
                /\ answers'[s][i].task = answers[s][i].task
      /\ UNCHANGED candidates
  BY StartEffect
<1>2. DOMAIN sessions = 1..Len(sessions) /\ Len(sessions) \in Nat
  BY RowsOf
<1>3. \A s \in DOMAIN sessions' : s = new \/ s \in DOMAIN sessions
  BY <1>1, <1>2
<1>4. DOMAIN answers'[new] = {}
  BY <1>1
<1>5. DOMAIN sessions \subseteq DOMAIN sessions'
  BY <1>1, <1>2
<1> HIDE DEF new
<1>6. CandidatesFit'
  BY <1>1, <1>5 DEF QuestionsInv, CandidatesFit
<1>7. \A s \in DOMAIN sessions : QuestionsFit(s)'
  <2> TAKE s \in DOMAIN sessions
  <2>1. QuestionsFit(s)
    BY DEF QuestionsInv
  <2> QED
    BY <1>1, <2>1 DEF QuestionsFit, AnswerFits
<1>8. \A s \in DOMAIN sessions' : QuestionsFit(s)'
  BY <1>3, <1>4, <1>7 DEF QuestionsFit
<1>9. PendingCanBeDecided'
  BY <1>1, <1>3, <1>4, PendingKept DEF QuestionsInv, PendingCanBeDecided
<1> QED
  BY <1>6, <1>8, <1>9 DEF QuestionsInv

LEMMA AnswerKeepsQuestions ==
  ASSUME Typed, QuestionsInv, NEW s \in DOMAIN sessions,
         NEW state \in {"answered", "skipped"}, NEW role \in Roles, Answer(s, state, role)
  PROVE  QuestionsInv'
<1> DEFINE new == Last(s) + 1
<1>1. PICK row, q :
        /\ row \in AnswerRow
        /\ AnswerFits(row) /\ row.task # "succeeded"
        /\ row.analysis # "waiting_for_confirmation"
        /\ DOMAIN answers' = DOMAIN answers
        /\ \A t \in DOMAIN answers : t # s => answers'[t] = answers[t]
        /\ DOMAIN answers'[s] = 1..new /\ Len(answers'[s]) = new
        /\ answers'[s][new] = row
        /\ \A i \in 1..Last(s) :
             /\ answers'[s][i] = answers[s][i]
             /\ answers[s][i].analysis \notin Unsettled
             /\ Rank[answers[s][i].question] < Rank[row.question]
        /\ QuestionMove(s, q)
        /\ q # None => row.analysis = "idle" /\ Rank[row.question] < Rank[q]
        /\ UNCHANGED <<candidates, facts>>
  BY AnswerEffect
<1>2. /\ DOMAIN sessions' = DOMAIN sessions /\ sessions'[s].question = q
      /\ \A t \in DOMAIN sessions : t # s => sessions'[t] = sessions[t]
      /\ q \in Questions \cup {None}
  BY <1>1, QuestionMoveEffect DEF QuestionMove
<1>3. /\ DOMAIN answers = DOMAIN sessions /\ DOMAIN answers[s] = 1..Last(s) /\ Last(s) \in Nat
      /\ \A i \in 1..Last(s) : answers[s][i] \in AnswerRow
  BY RowsOf
<1>4. \A i \in 1..new : i \in 1..Last(s) \/ i = new
  BY <1>3
<1>5. 1..Last(s) \subseteq 1..new /\ new \notin 1..Last(s)
  BY <1>3
<1>6. CandidatesFit'
  BY <1>1, <1>2, <1>3, <1>5 DEF QuestionsInv, CandidatesFit
<1>7. ASSUME NEW t \in DOMAIN sessions, t # s
      PROVE  QuestionsFit(t)'
  <2>1. QuestionsFit(t) /\ answers'[t] = answers[t] /\ sessions'[t] = sessions[t]
    BY <1>1, <1>2, <1>3, <1>7 DEF QuestionsInv
  <2> QED
    BY <2>1 DEF QuestionsFit, Last
<1>8. QuestionsFit(s)'
  <2>1. QuestionsFit(s)
    BY DEF QuestionsInv
  <2>2. ASSUME NEW i \in 1..Last(s)
        PROVE  /\ AnswerFits(answers'[s][i])
               /\ answers'[s][i].analysis \notin Unsettled
               /\ Rank[answers'[s][i].question] < Rank[row.question]
    BY <1>1, <1>3, <2>1 DEF QuestionsFit
  <2>3. q # None => \A i \in 1..Last(s) : Rank[answers'[s][i].question] < Rank[q]
    <3> SUFFICES ASSUME q # None, NEW i \in 1..Last(s)
                 PROVE  Rank[answers'[s][i].question] < Rank[q]
      OBVIOUS
    <3>1. /\ Rank[answers'[s][i].question] < Rank[row.question] /\ Rank[row.question] < Rank[q]
          /\ answers'[s][i].question \in Questions /\ row.question \in Questions
          /\ q \in Questions
      BY <1>1, <1>2, <1>3, <2>2 DEF AnswerRow
    <3>2. /\ Rank[answers'[s][i].question] \in Nat /\ Rank[row.question] \in Nat
          /\ Rank[q] \in Nat
      BY <3>1, QuestionsAre
    <3> QED
      BY <3>1, <3>2
  <2>4. ASSUME NEW i \in 1..new
        PROVE  /\ AnswerFits(answers'[s][i])
               /\ answers'[s][i].analysis \in Unsettled => i = new
               /\ q # None =>
                    /\ answers'[s][i].analysis \notin {"queued", "running", "failed"}
                    /\ Rank[answers'[s][i].question] < Rank[q]
    <3>1. CASE i \in 1..Last(s)
      BY <2>2, <2>3, <3>1 DEF Unsettled, Busy
    <3>2. CASE i = new
      BY <1>1, <3>2
    <3> QED
      BY <1>4, <3>1, <3>2
  <2>5. ASSUME NEW i \in 1..new, NEW j \in 1..new, i < j
        PROVE  Rank[answers'[s][i].question] < Rank[answers'[s][j].question]
    <3>1. i \in 1..Last(s)
      BY <1>3, <2>5
    <3>2. CASE j = new
      BY <1>1, <2>2, <3>1, <3>2
    <3>3. CASE j \in 1..Last(s)
      BY <1>1, <1>3, <2>1, <2>5, <3>1, <3>3 DEF QuestionsFit
    <3> QED
      BY <1>4, <3>2, <3>3
  <2> HIDE DEF new
  <2> QED
    BY <1>1, <1>2, <2>4, <2>5 DEF QuestionsFit, Last
<1>9. PendingCanBeDecided'
  <2>1. PendingOf(s, new) = {}
    BY <1>3, <1>5, PendingAre DEF QuestionsInv, CandidatesFit
  <2>2. ASSUME NEW i \in 1..new
        PROVE  PendingOf(s, i) # {} <=> answers'[s][i].analysis = "waiting_for_confirmation"
    <3>1. CASE i \in 1..Last(s)
      BY <1>1, <1>3, <3>1 DEF QuestionsInv, PendingCanBeDecided
    <3>2. CASE i = new
      BY <1>1, <2>1, <3>2
    <3> QED
      BY <1>4, <3>1, <3>2
  <2> HIDE DEF new
  <2>3. ASSUME NEW t \in DOMAIN sessions, NEW i \in DOMAIN answers'[t]
        PROVE  PendingOf(t, i)' # {} <=> answers'[t][i].analysis = "waiting_for_confirmation"
    <3>1. PendingOf(t, i)' = PendingOf(t, i)
      BY <1>1, PendingKept
    <3>2. CASE t = s
      BY <1>1, <2>2, <3>1, <3>2
    <3>3. CASE t # s
      BY <1>1, <1>3, <3>1, <3>3 DEF QuestionsInv, PendingCanBeDecided
    <3> QED
      BY <3>2, <3>3
  <2> QED
    BY <1>2, <2>3 DEF PendingCanBeDecided
<1> QED
  BY <1>2, <1>6, <1>7, <1>8, <1>9 DEF QuestionsInv

\* One answer is replaced by one to the same question: what is left to show of the order
\* of questions and answers is about that answer and the question that is asked next.
LEMMA OrderKept ==
  ASSUME Typed, QuestionsInv, NEW s \in DOMAIN sessions, NEW i \in DOMAIN answers[s],
         NEW row \in AnswerRow, SetAnswer(s, i, row), AnswerFits(row),
         row.question = answers[s][i].question,
         row.analysis \in Unsettled => answers[s][i].analysis \in Unsettled,
         NEW q, QuestionMove(s, q),
         q # None =>
           /\ row.analysis \notin {"queued", "running", "failed"}
           /\ \/ q = sessions[s].question
              \/ answers[s][i].analysis \in Unsettled /\ Rank[row.question] < Rank[q]
  PROVE  /\ DOMAIN sessions' = DOMAIN sessions
         /\ \A t \in DOMAIN sessions : QuestionsFit(t)'
<1>1. /\ \A t \in DOMAIN sessions :
           DOMAIN answers'[t] = DOMAIN answers[t] /\ Last(t)' = Last(t)
      /\ answers'[s][i] = row
      /\ \A t \in DOMAIN sessions : \A j \in DOMAIN answers[t] :
           t # s \/ j # i => answers'[t][j] = answers[t][j]
  BY SetAnswerEffect
<1>2. /\ DOMAIN sessions' = DOMAIN sessions /\ sessions'[s].question = q
      /\ \A t \in DOMAIN sessions : t # s => sessions'[t] = sessions[t]
      /\ q \in Questions \cup {None}
  BY QuestionMoveEffect DEF QuestionMove
<1>3. /\ \A j \in DOMAIN answers[s] : answers[s][j] \in AnswerRow
      /\ DOMAIN answers[s] = 1..Last(s) /\ Last(s) \in Nat
  BY RowsOf
<1>4. ASSUME NEW t \in DOMAIN sessions, t # s
      PROVE  QuestionsFit(t)'
  <2>1. /\ QuestionsFit(t) /\ sessions'[t] = sessions[t]
        /\ DOMAIN answers'[t] = DOMAIN answers[t] /\ Last(t)' = Last(t)
        /\ \A j \in DOMAIN answers[t] : answers'[t][j] = answers[t][j]
    BY <1>1, <1>2, <1>4 DEF QuestionsInv
  <2> QED
    BY <2>1 DEF QuestionsFit
<1>5. QuestionsFit(s)'
  <2>1. QuestionsFit(s)
    BY DEF QuestionsInv
  <2>2. \A j \in DOMAIN answers[s] : answers'[s][j].question = answers[s][j].question
    BY <1>1
  <2>3. ASSUME NEW j \in DOMAIN answers[s], q # None
        PROVE  /\ answers'[s][j].analysis \notin {"queued", "running", "failed"}
               /\ Rank[answers'[s][j].question] < Rank[q]
    <3>1. CASE q = sessions[s].question
      BY <1>1, <2>1, <2>2, <2>3, <3>1 DEF QuestionsFit
    <3>2. CASE answers[s][i].analysis \in Unsettled /\ Rank[row.question] < Rank[q]
      <4>1. i = Last(s)
        BY <2>1, <3>2 DEF QuestionsFit
      <4>2. CASE j = i
        BY <1>1, <2>3, <3>2, <4>2
      <4>3. CASE j # i
        <5>1. j < i
          BY <1>3, <4>1, <4>3
        <5>2. /\ Rank[answers[s][j].question] < Rank[answers[s][i].question]
              /\ answers[s][j].analysis \notin Unsettled
          BY <2>1, <4>1, <4>3, <5>1 DEF QuestionsFit
        <5>3. /\ answers[s][j].question \in Questions /\ answers[s][i].question \in Questions
              /\ q \in Questions
          BY <1>2, <1>3, <2>3 DEF AnswerRow
        <5>4. /\ Rank[answers[s][j].question] \in Nat /\ Rank[answers[s][i].question] \in Nat
              /\ Rank[q] \in Nat
          BY <5>3, QuestionsAre
        <5>5. Rank[answers[s][j].question] < Rank[q]
          BY <3>2, <5>2, <5>4
        <5> QED
          BY <1>1, <4>3, <5>2, <5>5 DEF Unsettled, Busy
      <4> QED
        BY <4>2, <4>3
    <3> QED
      BY <2>3, <3>1, <3>2
  <2>4. ASSUME NEW j \in DOMAIN answers[s]
        PROVE  /\ AnswerFits(answers'[s][j])
               /\ answers'[s][j].analysis \in Unsettled => j = Last(s)
    <3>1. CASE j = i
      BY <1>1, <2>1, <3>1 DEF QuestionsFit
    <3>2. CASE j # i
      BY <1>1, <2>1, <3>2 DEF QuestionsFit
    <3> QED
      BY <3>1, <3>2
  <2>5. \A j, k \in DOMAIN answers[s] :
          j < k => Rank[answers'[s][j].question] < Rank[answers'[s][k].question]
    BY <2>1, <2>2 DEF QuestionsFit
  <2> QED
    BY <1>1, <1>2, <2>3, <2>4, <2>5 DEF QuestionsFit
<1> QED
  BY <1>2, <1>4, <1>5

LEMMA AnswerMoveKeepsQuestions ==
  ASSUME Typed, QuestionsInv, NEW s \in DOMAIN sessions, NEW i \in DOMAIN answers[s],
         NEW row, NEW q, AnswerMove(s, i, row, q)
  PROVE  QuestionsInv'
<1>1. /\ row \in AnswerRow /\ AnswerFits(row) /\ SetAnswer(s, i, row)
      /\ answers[s][i].task # "succeeded" /\ row.task # "succeeded"
      /\ QuestionMove(s, q)
      /\ UNCHANGED candidates
  BY DEF AnswerMove
<1>2. /\ DOMAIN sessions' = DOMAIN sessions
      /\ \A t \in DOMAIN sessions : QuestionsFit(t)'
  BY OrderKept DEF AnswerMove
<1>3. /\ \A t \in DOMAIN sessions : DOMAIN answers'[t] = DOMAIN answers[t]
      /\ answers'[s][i] = row
      /\ \A t \in DOMAIN sessions : \A j \in DOMAIN answers[t] :
           t # s \/ j # i => answers'[t][j] = answers[t][j]
  BY <1>1, SetAnswerEffect
<1>4. CandidatesFit'
  BY <1>1, <1>2, <1>3 DEF QuestionsInv, CandidatesFit
<1>5. /\ row.analysis # "waiting_for_confirmation"
      /\ answers[s][i].analysis # "waiting_for_confirmation"
  BY <1>1 DEF QuestionsInv, QuestionsFit, AnswerFits
<1>6. ASSUME NEW t \in DOMAIN sessions, NEW j \in DOMAIN answers[t]
      PROVE  PendingOf(t, j)' # {} <=> answers'[t][j].analysis = "waiting_for_confirmation"
  <2>1. PendingOf(t, j)' = PendingOf(t, j)
    BY <1>1, PendingKept
  <2>2. PendingOf(t, j) # {} <=> answers[t][j].analysis = "waiting_for_confirmation"
    BY DEF QuestionsInv, PendingCanBeDecided
  <2>3. CASE t = s /\ j = i
    BY <1>3, <1>5, <2>1, <2>2, <2>3
  <2>4. CASE t # s \/ j # i
    BY <1>3, <2>1, <2>2, <2>4
  <2> QED
    BY <2>3, <2>4
<1>7. PendingCanBeDecided'
  BY <1>2, <1>3, <1>6 DEF PendingCanBeDecided
<1> QED
  BY <1>2, <1>4, <1>7 DEF QuestionsInv

LEMMA SuccessKeepsQuestions ==
  ASSUME Typed, QuestionsInv, NEW s \in DOMAIN sessions, NEW i \in DOMAIN answers[s],
         NEW found \in Findings, AnalysisSucceeds(s, i, found)
  PROVE  QuestionsInv'
<1>1. PICK row, q :
        /\ row \in AnswerRow
        /\ AnswerFits(row) /\ row.task = "succeeded"
        /\ row.question = answers[s][i].question
        /\ row.analysis = IF DOMAIN found = {} THEN "completed" ELSE "waiting_for_confirmation"
        /\ answers[s][i].analysis = "running"
        /\ SetAnswer(s, i, row)
        /\ QuestionMove(s, q)
        /\ q # None => Rank[row.question] < Rank[q]
        /\ DOMAIN found \subseteq Spans
        /\ \A id \in Ids :
             IF id[1] = s /\ id[2] = i
             THEN /\ candidates[id] = None
                  /\ IF id[3] \in DOMAIN found
                     THEN candidates'[id] \in CandidateRow /\ candidates'[id].status = "pending"
                     ELSE candidates'[id] = None
             ELSE candidates'[id] = candidates[id]
  BY AnalysisSucceedsEffect
<1>2. /\ DOMAIN sessions' = DOMAIN sessions
      /\ \A t \in DOMAIN sessions : QuestionsFit(t)'
  <2>1. /\ row.analysis \in Unsettled => answers[s][i].analysis \in Unsettled
        /\ row.analysis \notin {"queued", "running", "failed"}
        /\ answers[s][i].analysis \in Unsettled
    BY <1>1 DEF Unsettled, Busy
  <2> QED
    BY <1>1, <2>1, OrderKept
<1>3. /\ \A t \in DOMAIN sessions : DOMAIN answers'[t] = DOMAIN answers[t]
      /\ answers'[s][i] = row
      /\ \A t \in DOMAIN sessions : \A j \in DOMAIN answers[t] :
           t # s \/ j # i => answers'[t][j] = answers[t][j]
  BY <1>1, SetAnswerEffect
<1>4. CandidatesFit'
  <2> SUFFICES ASSUME NEW id \in Ids, candidates'[id] # None
               PROVE  /\ id[1] \in DOMAIN sessions' /\ id[2] \in DOMAIN answers'[id[1]]
                      /\ answers'[id[1]][id[2]].task = "succeeded"
    BY DEF CandidatesFit
  <2>1. CASE id[1] = s /\ id[2] = i
    BY <1>1, <1>2, <1>3, <2>1
  <2>2. CASE ~(id[1] = s /\ id[2] = i)
    BY <1>1, <1>2, <1>3, <2>2 DEF QuestionsInv, CandidatesFit
  <2> QED
    BY <2>1, <2>2
<1>5. ASSUME NEW t \in DOMAIN sessions, NEW j \in DOMAIN answers[t]
      PROVE  PendingOf(t, j)' # {} <=> answers'[t][j].analysis = "waiting_for_confirmation"
  <2>1. PendingOf(t, j)' # {} <=>
          \E id \in Ids : /\ id[1] = t /\ id[2] = j
                          /\ candidates'[id] # None /\ candidates'[id].status = "pending"
    BY DEF PendingOf, CandidatesOf
  <2>2. CASE t = s /\ j = i
    <3>1. s \in 1..MaxSessions /\ i \in 1..MaxAnswers
      <4>1. /\ DOMAIN sessions = 1..Len(sessions) /\ Len(sessions) \in Nat
            /\ Len(sessions) <= MaxSessions
            /\ DOMAIN answers[s] = 1..Last(s) /\ Last(s) \in Nat /\ Last(s) <= MaxAnswers
        BY RowsOf DEF Typed
      <4> QED
        BY <4>1, BoundsAreNat
    <3>2. ASSUME NEW span \in DOMAIN found
          PROVE  \E id \in Ids : /\ id[1] = t /\ id[2] = j
                                 /\ candidates'[id] # None /\ candidates'[id].status = "pending"
      <4>1. <<s, i, span>> \in Ids
        BY <1>1, <3>1 DEF Ids
      <4>2. candidates'[<<s, i, span>>] \in CandidateRow
            /\ candidates'[<<s, i, span>>].status = "pending"
        BY <1>1, <4>1
      <4> QED
        BY <2>2, <4>1, <4>2, NoneAssumption
    <3>3. ASSUME NEW id \in Ids, id[1] = t, id[2] = j, candidates'[id] # None
          PROVE  id[3] \in DOMAIN found
      BY <1>1, <2>2, <3>3
    <3>4. DOMAIN found = {} <=>
            ~\E id \in Ids : /\ id[1] = t /\ id[2] = j
                             /\ candidates'[id] # None /\ candidates'[id].status = "pending"
      BY <3>2, <3>3
    <3> QED
      BY <1>1, <1>3, <2>1, <2>2, <3>4
  <2>3. CASE t # s \/ j # i
    <3>1. PendingOf(t, j) # {} <=> answers[t][j].analysis = "waiting_for_confirmation"
      BY DEF QuestionsInv, PendingCanBeDecided
    <3>2. PendingOf(t, j) # {} <=> PendingOf(t, j)' # {}
      BY <1>1, <2>1, <2>3, PendingAre
    <3> QED
      BY <1>3, <2>3, <3>1, <3>2
  <2> QED
    BY <2>2, <2>3
<1>6. PendingCanBeDecided'
  BY <1>2, <1>3, <1>5 DEF PendingCanBeDecided
<1> QED
  BY <1>2, <1>4, <1>6 DEF QuestionsInv

LEMMA DecideKeepsQuestions ==
  ASSUME Typed, QuestionsInv, NEW id \in Ids, NEW decision \in DOMAIN Decisions,
         Decide(id, decision)
  PROVE  QuestionsInv'
<1> DEFINE s == id[1]
           i == id[2]
           old == answers[s][i]
           row == [old EXCEPT !.analysis = "completed"]
<1>1. /\ candidates[id] \in CandidateRow /\ candidates[id].status = "pending"
      /\ candidates'[id].status \in {"accepted", "edited", "rejected"}
      /\ \A other \in Ids : other # id => candidates'[other] = candidates[other]
      /\ s \in DOMAIN sessions /\ i \in DOMAIN answers[s]
      /\ old.analysis = "waiting_for_confirmation"
      /\ IF LastPending(id) THEN SetAnswer(s, i, row) ELSE answers' = answers
      /\ UNCHANGED sessions
  BY DecideEffect
<1>2. /\ old \in AnswerRow /\ old.task = "succeeded" /\ QuestionsFit(s)
      /\ \A t \in DOMAIN sessions : QuestionsFit(t)
  BY <1>1, RowsOf DEF QuestionsInv, QuestionsFit, AnswerFits
<1>3. /\ row \in AnswerRow /\ row.analysis = "completed" /\ row.task = "succeeded"
      /\ row.question = old.question
  BY <1>2 DEF AnswerRow
<1>4. AnswerFits(row)
  BY <1>3 DEF AnswerFits
<1>5. QuestionMove(s, sessions[s].question)
  BY <1>1, RowsOf DEF QuestionMove, SessionRow
<1> HIDE DEF row, old
<1>6. /\ DOMAIN sessions' = DOMAIN sessions
      /\ \A t \in DOMAIN sessions : QuestionsFit(t)'
  <2>1. CASE LastPending(id)
    BY <1>1, <1>3, <1>4, <1>5, <2>1, OrderKept DEF old, Unsettled, Busy
  <2>2. CASE ~LastPending(id)
    BY <1>1, <1>2, <2>2 DEF QuestionsFit, Last
  <2> QED
    BY <2>1, <2>2
<1>7. /\ \A t \in DOMAIN sessions : DOMAIN answers'[t] = DOMAIN answers[t]
      /\ answers'[s][i] = IF LastPending(id) THEN row ELSE old
      /\ \A t \in DOMAIN sessions : \A j \in DOMAIN answers[t] :
           t # s \/ j # i => answers'[t][j] = answers[t][j]
  <2>1. CASE LastPending(id)
    BY <1>1, <1>3, <2>1, SetAnswerEffect
  <2>2. CASE ~LastPending(id)
    BY <1>1, <2>2 DEF old
  <2> QED
    BY <2>1, <2>2
<1>8. CandidatesFit'
  <2> SUFFICES ASSUME NEW other \in Ids, candidates'[other] # None
               PROVE  /\ other[1] \in DOMAIN sessions'
                      /\ other[2] \in DOMAIN answers'[other[1]]
                      /\ answers'[other[1]][other[2]].task = "succeeded"
    BY DEF CandidatesFit
  <2>1. candidates[other] # None
    BY <1>1, NoneAssumption
  <2>2. /\ other[1] \in DOMAIN sessions /\ other[2] \in DOMAIN answers[other[1]]
        /\ answers[other[1]][other[2]].task = "succeeded"
    BY <2>1 DEF QuestionsInv, CandidatesFit
  <2> QED
    BY <1>2, <1>3, <1>6, <1>7, <2>2
<1>9. ASSUME NEW t \in DOMAIN sessions, NEW j \in DOMAIN answers[t]
      PROVE  PendingOf(t, j)' # {} <=> answers'[t][j].analysis = "waiting_for_confirmation"
  <2>1. PendingOf(t, j)' # {} <=>
          \E other \in Ids : /\ other[1] = t /\ other[2] = j
                             /\ candidates'[other] # None /\ candidates'[other].status = "pending"
    BY DEF PendingOf, CandidatesOf
  <2>2. CASE t = s /\ j = i
    <3>1. PendingOf(t, j)' # {} <=> ~LastPending(id)
      <4>1. \A other \in Ids :
              (/\ other[1] = t /\ other[2] = j
               /\ candidates'[other] # None /\ candidates'[other].status = "pending")
                <=> other \in PendingOf(s, i) /\ other # id
        BY <1>1, <2>2 DEF PendingOf, CandidatesOf
      <4>2. id \in PendingOf(s, i) /\ PendingOf(s, i) \subseteq Ids
        BY <1>1, NoneAssumption DEF PendingOf, CandidatesOf
      <4> QED
        BY <2>1, <4>1, <4>2 DEF LastPending
    <3> QED
      BY <1>1, <1>3, <1>7, <2>2, <3>1
  <2>3. CASE t # s \/ j # i
    <3>1. PendingOf(t, j) # {} <=> answers[t][j].analysis = "waiting_for_confirmation"
      BY DEF QuestionsInv, PendingCanBeDecided
    <3>2. PendingOf(t, j) # {} <=> PendingOf(t, j)' # {}
      BY <1>1, <2>1, <2>3, PendingAre
    <3> QED
      BY <1>7, <2>3, <3>1, <3>2
  <2> QED
    BY <2>2, <2>3
<1>10. PendingCanBeDecided'
  BY <1>6, <1>7, <1>9 DEF PendingCanBeDecided
<1> QED
  BY <1>6, <1>8, <1>10 DEF QuestionsInv

LEMMA QuestionsStep ==
  ASSUME Typed, SessionsInv, QuestionsInv, DraftsFit, [IntakeNext]_intakeVars
  PROVE  QuestionsInv'
<1>1. ASSUME NEW s \in DOMAIN sessions, NEW row, DraftMove(s, row)
      PROVE  QuestionsInv'
  <2>1. /\ DOMAIN sessions' = DOMAIN sessions
        /\ \A t \in DOMAIN sessions : sessions'[t].question \in {sessions[t].question, None}
    BY <1>1, SetSessionEffect DEF DraftMove
  <2> QED
    BY <1>1, <2>1, QuestionsKept DEF DraftMove
<1>2. ASSUME UNCHANGED <<sessions, answers, candidates>>
      PROVE  QuestionsInv'
  BY <1>2, QuestionsKept
<1> QED
  BY <1>1, <1>2, StepCases, StartKeepsQuestions, AnswerKeepsQuestions, AnswerMoveKeepsQuestions,
     SuccessKeepsQuestions, DecideKeepsQuestions
  DEF ChangeFact, intakeVars

-------------------------------------------------------------------------------
(* Theorems *)

LEMMA IntakeInvInit == IntakeInit => IntakeInv
<1> SUFFICES ASSUME IntakeInit PROVE IntakeInv
  OBVIOUS
<1>1. /\ sessions = <<>> /\ answers = <<>>
      /\ \A id \in Ids : candidates[id] = None /\ facts[id] = None
      /\ candidates \in [Ids -> CandidateRow \cup {None}]
      /\ facts \in [Ids -> FactRow \cup {None}]
  BY DEF IntakeInit
<1>2. /\ sessions \in Seq(SessionRow) /\ answers \in Seq(Seq(AnswerRow))
      /\ DOMAIN sessions = {} /\ DOMAIN answers = {} /\ Len(sessions) = 0
  BY <1>1, EmptySeq
<1>3. Typed
  BY <1>1, <1>2, BoundsAreNat DEF Typed, IntakeTypeOK
<1> QED
  BY <1>1, <1>2, <1>3
  DEF IntakeInv, SessionsInv, QuestionsInv, CandidatesFit, PendingCanBeDecided,
      FactsAreDecided, DraftsFit

LEMMA IntakeInvStep == IntakeInv /\ [IntakeNext]_intakeVars => IntakeInv'
BY TypedStep, SessionsStep, QuestionsStep, FactsStep DEF IntakeInv

\* The inductive invariant holds in every state: what is known of answers, candidates and
\* drafts that are on their way (intake/service.py: process_answer_analysis, process_draft).
THEOREM IntakeCorrect == IntakeSpec => []IntakeInv
BY IntakeInvInit, IntakeInvStep, PTL DEF IntakeSpec

\* The session an owner works on is the only open one, whatever drafts end late or are
\* cancelled, and it leads to one resume exactly when it is completed (start, _persist_draft,
\* _restore_cancelled_intake_draft).
THEOREM SessionsCorrect == IntakeSpec => []SessionsConsistent
<1>1. IntakeInv => SessionsConsistent
  <2> SUFFICES ASSUME IntakeInv PROVE SessionsConsistent
    OBVIOUS
  <2>1. \A s \in DOMAIN sessions : SessionFits(sessions[s])
    BY DEF IntakeInv, SessionsInv
  <2>2. OneOpenSession
    BY <2>1 DEF IntakeInv, SessionsInv, OneOpenSession, SessionFits, Open
  <2>3. OneResumePerSession
    BY <2>1 DEF OneResumePerSession, SessionFits, Drafting
  <2> QED
    BY <2>2, <2>3 DEF IntakeInv, Typed, SessionsConsistent
<1> QED
  BY <1>1, IntakeCorrect, PTL

\* Questions come one at a time and never a second time, through skipped answers, failed
\* analyses, retries and continuations, for every order of roles and any number of answers
\* (answer, retry_analysis, continue_analysis, _next_question).
THEOREM QuestionsCorrect == IntakeSpec => []QuestionsInOrder
<1>1. IntakeInv => QuestionsInOrder
  <2> SUFFICES ASSUME IntakeInv PROVE QuestionsInOrder
    OBVIOUS
  <2>1. Typed /\ PendingCanBeDecided /\ \A s \in DOMAIN sessions : QuestionsFit(s)
    BY DEF IntakeInv, QuestionsInv
  <2>2. OnlyTheLatestIsUnsettled
    BY <2>1 DEF QuestionsFit, OnlyTheLatestIsUnsettled, Unsettled
  <2>3. NeverAskedAgain
    <3> SUFFICES ASSUME NEW s \in DOMAIN sessions, sessions[s].question # None,
                        NEW i \in DOMAIN answers[s]
                 PROVE  answers[s][i].question # sessions[s].question
      BY DEF NeverAskedAgain
    <3>1. Rank[answers[s][i].question] < Rank[sessions[s].question]
      BY <2>1 DEF QuestionsFit
    <3>2. sessions[s].question \in Questions
      BY <2>1, RowsOf DEF SessionRow
    <3>3. Rank[sessions[s].question] \in Nat
      BY <3>2, QuestionsAre
    <3> QED
      BY <3>1, <3>3
  <2> QED
    BY <2>1, <2>2, <2>3 DEF QuestionsInOrder
<1> QED
  BY <1>1, IntakeCorrect, PTL

\* Every fact of the interview was accepted or edited by the owner, once, and a candidate
\* that may only be edited was not simply accepted (decide_candidate).
THEOREM FactsCorrect == IntakeSpec => []FactsAreDecided
<1>1. IntakeInv => FactsAreDecided
  BY DEF IntakeInv
<1> QED
  BY <1>1, IntakeCorrect, PTL

\* A resume is only made while all the facts it was drafted from, two at least, are still
\* confirmed with the values drafted from (_draft_facts_match, _persist_draft).
THEOREM DraftsCorrect == IntakeSpec => DraftsRestOnFacts
<1>1. ASSUME IntakeInv, [IntakeNext]_intakeVars
      PROVE  [\A s \in DOMAIN sessions :
                sessions'[s].resumes > sessions[s].resumes =>
                  /\ Cardinality(sessions[s].draft.facts) >= 2
                  /\ sessions[s].draft.facts \subseteq ReadyFacts(s)]_intakeVars
  <2> SUFFICES ASSUME NEW s \in DOMAIN sessions, sessions'[s].resumes > sessions[s].resumes
               PROVE  /\ Cardinality(sessions[s].draft.facts) >= 2
                      /\ sessions[s].draft.facts \subseteq ReadyFacts(s)
    OBVIOUS
  <2> USE <1>1 DEF IntakeInv
  <2>1. sessions'[s].resumes # sessions[s].resumes
    BY RowsOf DEF SessionRow
  <2>2. \E row : DraftMove(s, row) /\ sessions'[s] = row
    <3>1. ASSUME NEW t \in DOMAIN sessions, NEW q, QuestionMove(t, q)
          PROVE  sessions'[s].resumes = sessions[s].resumes
      BY <3>1, QuestionMoveEffect
    <3>2. ASSUME NEW t \in DOMAIN sessions, NEW state \in {"answered", "skipped"},
                 NEW role \in Roles, Answer(t, state, role)
          PROVE  \E q : QuestionMove(t, q)
      BY <3>2, AnswerEffect
    <3>3. ASSUME NEW t \in DOMAIN sessions, NEW i \in DOMAIN answers[t],
                 NEW found \in Findings, AnalysisSucceeds(t, i, found)
          PROVE  \E q : QuestionMove(t, q)
      BY <3>3, AnalysisSucceedsEffect
    <3>4. ~Start
      BY <2>1, StartEffect
    <3>5. ASSUME NEW t \in DOMAIN sessions, NEW row, DraftMove(t, row)
          PROVE  DraftMove(s, row) /\ sessions'[s] = row
      <4>1. /\ sessions'[t] = row
            /\ \A u \in DOMAIN sessions : u # t => sessions'[u] = sessions[u]
        BY <3>5, SetSessionEffect DEF DraftMove
      <4>2. t = s
        BY <2>1, <4>1
      <4> QED
        BY <3>5, <4>1, <4>2
    <3> QED
      BY <2>1, <3>1, <3>2, <3>3, <3>4, <3>5, StepCases
      DEF AnswerMove, Decide, ChangeFact, intakeVars
  <2>3. sessions[s].draft # None /\ sessions[s].draft.facts \subseteq ReadyFacts(s)
    BY <2>2 DEF DraftMove
  <2> QED
    BY <2>3 DEF DraftsFit, DraftFits
<1> QED
  BY <1>1, IntakeCorrect, PTL DEF IntakeSpec, DraftsRestOnFacts

===============================================================================
