SPECIFICATION Spec
CONSTANTS
  Proc = {p1, p2}
  MaxRefreshes = 3
  Retentions = {1, 2}
  MaxSnapshots = 2
  Budget = 2
SYMMETRY Symmetry
INVARIANT TypeOK
INVARIANT IndexIsSound
INVARIANT OneCommandRecovers
