SPECIFICATION KnowledgeSpec
CONSTANTS
  Tabs = {t1, t2}
  MaxTurns = 2
  MaxRuns = 6
  MaxDeaths = 1
  Texts = {a, b}
  Original = original
  MaxVersion = 3
  Places = {here, there}
  MaxMoves = 2
INVARIANTS KnowledgeTypeOK NoQuestionTwice NumbersHaveNoGap
  PublishedIsConfirmed StatusIsDecided
PROPERTIES AnswersKept VersionsAreFixed
CHECK_DEADLOCK FALSE
SYMMETRY Identical
