CONSTANTS
  Workspaces <- TailPrograms
  Loops <- TailRecursive
  Lines <- Typed
SPECIFICATION Spec
INVARIANT Agrees
