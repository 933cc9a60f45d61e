\* A report ends; afterwards the command does nothing.
SPECIFICATION Spec
CHECK_DEADLOCK FALSE
CONSTANTS
  a = a
  b = b
  Dirs <- MCDirs
  Requests <- MCRequests
  MaxTurns = 2
INVARIANT RetainedRetirementReconciles
