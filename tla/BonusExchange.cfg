SPECIFICATION Spec
CONSTANTS
  Proc = {p1, p2, p3}
  Commands = {"submit", "prune", "forget"}
  PowerFails = TRUE
SYMMETRY Symmetry
INVARIANT TypeOK
INVARIANT AtMostOnePost
INVARIANT UnknownIsKept
INVARIANT NeverReopened
INVARIANT OutcomeOutlives
INVARIANT ForgottenIsFinal
