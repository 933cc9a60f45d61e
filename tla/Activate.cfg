SPECIFICATION Spec
CONSTANTS
  Proc = {p1, p2}
  Nobody = Nobody
  MaxAttempts = 2
  Actions = {"recheck_only", "recheck_then_start", "start_after_stop"}
SYMMETRY Symmetry
CONSTRAINT RacesAreFirst
INVARIANT TypeOK
INVARIANT RequestsAreRecorded
INVARIANT EvidenceIsFresh
INVARIANT CrashSafe
PROPERTY ActionLedgers
