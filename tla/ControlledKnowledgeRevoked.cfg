SPECIFICATION KnowledgeSpec
CONSTANTS
  Tabs = {t1}
  MaxTurns = 10
  MaxRuns = 7
  MaxDeaths = 0
  Texts = {a}
  Original = original
  MaxVersion = 2
  Places = {here}
  MaxMoves = 0
INVARIANT RevokedLeavesLibrary
CHECK_DEADLOCK FALSE
