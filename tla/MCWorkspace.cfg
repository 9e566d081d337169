CONSTANTS
  Words = {"x", "X", "y", "z"}
  Things = {1, 2}  NoThing = 0
  Texts = {"none", "one"}
  Marks = {"buried"}
  NoWord = ""
  MAX_GLOBAL_VARIABLES = 2  GLOBAL_HASH_SIZE = 3  MAX_PROCEDURES = 2  MAX_PRIMITIVES = 2
  MAX_CURRENT_PROC_DEPTH = 2
  ArenaWords = 5  FRAME_HEADER_WORDS = 1  BINDING_WORDS = 1  SpareWords = 1
  LOCAL_COUNTS = 3  PendingCalls = 1
  Fold <- MCFold  Home <- MCHome  InputsOf <- MCInputs  Builtins <- MCBuiltins  Programs <- MCPrograms
  PausedLocals = FALSE
SPECIFICATION Spec
INVARIANT TablesAgree
PROPERTY ImplementsScopes
