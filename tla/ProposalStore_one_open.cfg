SPECIFICATION Spec
CONSTANTS
  Proposals = {p1, p2}
  Workers = {w1}
  Contents = {"text", "secret"}
  Secrets = {"secret"}
  Paths <- PairPaths
  Shas = {"sha"}
  Rejectable <- NoRejections
  MaxRevisions = 2
  MaxEvents = 6
  NULL = NULL
SYMMETRY Symmetry
INVARIANT OneOpenPerTarget
CHECK_DEADLOCK FALSE
