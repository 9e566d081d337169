SPECIFICATION Spec
CONSTANTS
  Fold <- MCFold
  Words <- MCWords
  DribbleWords <- MCDribbleWords
  PrefixWords <- MCPrefixWords
  Chunks = {"x", "y"}
  Workspace <- MCWorkspace
  MaxOpen = 2
  LateErrors = FALSE
  Disks <- MCDisks
  MaxLen = 2
  MaxGen = 1
  MaxOps = 4
INVARIANTS
  TableExact FilesKept PrintKept
CHECK_DEADLOCK FALSE
