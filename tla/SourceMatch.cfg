\* A search ends; afterwards the command does nothing.
SPECIFICATION Spec
CHECK_DEADLOCK FALSE
CONSTANTS
  Names <- MCNames
  Rank <- MCRank
  Jobs <- MCJobs
  PieceLength = 2
  MaxChanges = 1
INVARIANTS
  TypeOK
  VerdictIsSound
  BudgetsAreExact
