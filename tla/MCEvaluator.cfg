CONSTANTS
  Workspaces <- Programs
  Loops <- TailRecursive
  Lines <- Typed
SPECIFICATION Spec
INVARIANT Agrees
INVARIANT ConstantSpace
INVARIANT Unwound
