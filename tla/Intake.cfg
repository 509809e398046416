SPECIFICATION IntakeSpec
CONSTANTS
  p1 = p1
  p2 = p2
  Spans = {p1, p2}
  Roles = {"project_role"}
  None = None
  MaxSessions = 2
  MaxAnswers = 2
  MaxDrafts = 2
  MaxDisturbances = 2
SYMMETRY SpanSymmetry
INVARIANTS
  SessionsConsistent
  QuestionsInOrder
  FactsAreDecided
PROPERTIES
  DraftsRestOnFacts
CHECK_DEADLOCK FALSE
