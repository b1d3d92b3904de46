SPECIFICATION Spec
CONSTANTS
  Parts = {"reviewing", "reading", "seeding", "imports", "asking", "access", "seed", "search", "graph", "evidence", "answers", "breeding", "profile", "paging"}
  None = None
INVARIANTS KnowledgeIsReviewed ProjectionsAreWhole 
PROPERTIES CloudStepsAreCurrent
CHECK_DEADLOCK FALSE
