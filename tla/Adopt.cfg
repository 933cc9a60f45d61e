SPECIFICATION FairSpec
CONSTANTS
  Proc = {p1, p2}
  Nobody = Nobody
  MaxAttempts = 2
  Drivers = {"qbittorrent", "transmission"}
  Actions = {"add_stopped", "adopt_existing"}
INVARIANT TypeOK
INVARIANT AttemptBeforeEffect
INVARIANT CompletionIsAttributed
INVARIANT CrashSafe
PROPERTY LedgerSpec
PROPERTY InvocationEnds
