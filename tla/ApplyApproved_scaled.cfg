SPECIFICATION ApplySpec
CONSTANTS
  Proposals = {p1}
  Workers = {w1, w2}
  Paths <- WholeSkill
  Contents = {"a"}
  Secrets = {}
  Shas <- CommitIds
  Rejectable <- NoRejections
  MaxRevisions = 0
  MaxEvents = 5
  FlowContents = {}
  Truncated = "cut"
  Faults = {"crash", "write", "slow"}
  MaxFaults = 4
  MaxCommits = 3
  NoFile = NoFile
  NULL = NULL
INVARIANT AppliedIsWhole
CHECK_DEADLOCK FALSE
