SPECIFICATION Spec
CONSTANTS
  Proc = {p1}
  Nobody = Nobody
  MaxAttempts = 1
  Kinds = {"remove"}
INVARIANT StagedCompletionIsRecoverable
