SPECIFICATION Spec
CONSTANTS
  Clients <- OneMachine
  Paths <- RuleAndEntry
  Contents = {"a", "a+nl", "s", "big", "cut"}
  Secrets = {"s", "big"}
  Large = {"big"}
  Truncated = "cut"
  CommitTimes = {1}
  Corrupt = Corrupt
  NoFile = NoFile
  NULL = NULL
  Trimmed <- Cut
  Judged = {"a+nl"}
  Edits <- ManyEdits
  MaxEdits = 2
  FlowEdits <- RuleForEntry
  MaxFlows = 1
  MaxFaults = 1
INVARIANTS LoopTypeOK NoSecretPublished SecretOnlyWithoutHook
PROPERTIES NothingIsLost EditsReachServer UncontestedIsPublished FollowsCanonical
