SPECIFICATION Spec
CONSTANTS
  Proposals = {p1, p2}
  Workers = {w1}
  Contents = {"text", "secret"}
  Secrets = {"secret"}
  Paths <- MixedPaths
  Shas = {"sha"}
  Rejectable <- RuleRejection
  MaxRevisions = 2
  MaxEvents = 6
  NULL = NULL
SYMMETRY Symmetry
INVARIANTS TypeOK StoredFilesValid SharedTargetOnlyByRetry LogIsHistory
PROPERTY DecidedIsFrozen
CHECK_DEADLOCK FALSE
