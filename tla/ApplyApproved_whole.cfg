SPECIFICATION ApplySpec
CONSTANTS
  Proposals = {p1}
  Workers = {w1}
  Paths <- RuleAndEntry
  Contents = {"a", "b"}
  Secrets = {}
  Shas <- CommitIds
  Rejectable <- NoRejections
  MaxRevisions = 0
  MaxEvents = 5
  FlowContents = {}
  Truncated = "cut"
  Faults = {}
  MaxFaults = 3
  MaxCommits = 3
  NoFile = NoFile
  NULL = NULL
INVARIANT AppliedIsWhole
CHECK_DEADLOCK FALSE
