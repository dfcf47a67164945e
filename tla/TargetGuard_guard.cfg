SPECIFICATION GuardSpec
CONSTANTS
  Proposals <- TwoProposals
  Paths <- SkillFiles
  Contents = {"a"}
  Secrets = {}
  Workers = {w1, w2}
  Shas = {x}
  Rejectable <- NoRejections
  MaxRevisions = 1
  MaxEvents = 6
  MaxLogged = 6
  Sessions = {s1, s2}
  Hash <- Hashed
  NULL = NULL
INVARIANTS SharedTargetOnlyByRetry LogIsHistory NoWaitCycle ColumnsMatchStatus
PROPERTIES DecidedIsFrozen LeaseProtectsClaim ImplementsStatusMachine
CHECK_DEADLOCK FALSE
SYMMETRY Symmetry
