SPECIFICATION Spec
CONSTANTS
  Proc = {p1, p2}
  Nobody = Nobody
  MaxAttempts = 2
  Kinds = {"stop", "remove"}
SYMMETRY Symmetry
INVARIANT TypeOK
INVARIANT HonestJournal
INVARIANT CrashSafe
PROPERTY LedgerSpec
