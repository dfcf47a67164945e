SPECIFICATION ApplySpec
CONSTANTS
  Proposals = {p1, p2}
  Workers = {w1}
  Paths <- TwoRules
  Contents = {"a", "b"}
  Secrets = {}
  Shas <- CommitIds
  Rejectable <- NoRejections
  MaxRevisions = 0
  MaxEvents = 5
  FlowContents = {}
  Truncated = "cut"
  Faults = {"write"}
  MaxFaults = 1
  MaxCommits = 1
  NoFile = NoFile
  NULL = NULL
INVARIANT PublishedWasApproved
CHECK_DEADLOCK FALSE
