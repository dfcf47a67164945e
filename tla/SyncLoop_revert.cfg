SPECIFICATION Spec
CONSTANTS
  Clients <- OneMachine
  Paths <- OneRule
  Contents = {"a", "b"}
  Secrets = {}
  Large = {}
  Truncated = "a"
  CommitTimes = {1}
  Corrupt = Corrupt
  NoFile = NoFile
  NULL = NULL
  Trimmed <- Cut
  Judged = {}
  Edits <- OneWriter
  MaxEdits = 3
  FlowEdits <- NoFlowEdits
  MaxFlows = 0
  MaxFaults = 1
PROPERTIES LastWriterWins
