SPECIFICATION ApplySpec
CONSTANTS
  Proposals = {p1, p2}
  Workers = {w1}
  Paths <- OneRule
  Contents = {"a", "b"}
  Secrets = {}
  Shas <- CommitIds
  Rejectable <- NoRejections
  MaxRevisions = 0
  MaxEvents = 5
  FlowContents = {"flow"}
  Truncated = "cut"
  Faults = {"crash", "commit", "push", "slow"}
  MaxFaults = 2
  MaxCommits = 3
  NoFile = NoFile
  NULL = NULL
INVARIANTS ApplyTypeOK AppliedIsPublished PublishedWasApproved
PROPERTIES MarkedIsCurrent WorkIsKept
CHECK_DEADLOCK FALSE
