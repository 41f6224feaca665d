SPECIFICATION Spec
CONSTANTS
  Sessions = {s1, s2}
  Packages = {p, q}
  Folders = {shared}
  MaxCalls = 3
INVARIANT TypeOK
INVARIANT StagedIsCurrent
INVARIANT RelocationCarries
PROPERTY FailureRestoresOwnBackup
PROPERTY PublishedStays
PROPERTY ListedHasFile
