SPECIFICATION FairSpec
CONSTANTS
  Proposals = {p1, p2}
  Workers = {w1}
  Paths <- RuleAndEntry
  Contents = {"a"}
  Secrets = {}
  Shas <- CommitIds
  Rejectable <- NoRejections
  MaxRevisions = 0
  MaxEvents = 5
  FlowContents = {}
  Truncated = "cut"
  Faults = {"crash", "commit", "push", "slow"}
  MaxFaults = 2
  MaxCommits = 1
  NoFile = NoFile
  NULL = NULL
PROPERTY ApprovedIsSettled
CHECK_DEADLOCK FALSE
