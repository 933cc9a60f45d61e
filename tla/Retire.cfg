SPECIFICATION Spec
CONSTANTS
  Proc = {p1, p2}
  Nobody = Nobody
  Files = 2
  MaxChanges = 1
  MaxIncarnations = 2
SYMMETRY Symmetry
INVARIANTS
  TypeOK
  OnlyNamedCausesBlock
PROPERTIES
  RemovalsAreHonest
