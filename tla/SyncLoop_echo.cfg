SPECIFICATION Spec
CONSTANTS
  Clients <- TwoMachines
  Paths <- OneRule
  Contents = {"a", "b"}
  Secrets = {}
  Large = {}
  Truncated = "a"
  CommitTimes = {1}
  Corrupt = Corrupt
  NoFile = NoFile
  NULL = NULL
  Trimmed <- Cut
  Judged = {}
  Edits <- OneWriter
  MaxEdits = 2
  FlowEdits <- NoFlowEdits
  MaxFlows = 0
  MaxFaults = 0
PROPERTIES LastWriterWins
