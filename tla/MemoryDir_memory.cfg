SPECIFICATION Spec
CONSTANTS
  Project <- Key
  Names <- TwoNames
  Lower <- LowerToken
  Words <- WordTokens
  SecretLines <- Secret
  Outputs <- AllOutputs
  Digests <- AllDigests
  TooLarge <- BigDigests
  MaxFaults = 1
  MaxCommits = 4
  NoFile = NoFile
INVARIANTS IndexListsEntries EntriesAreWhole DigestIsLatest
CHECK_DEADLOCK FALSE
