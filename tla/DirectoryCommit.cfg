SPECIFICATION Spec
CONSTANTS
  CaseInsensitive <- Ignored
  Suffix <- SuffixDn
  Rdns <- RdnsTwo
  NoDn = none
  InvalidDN = invalid
  NoTxn = notxn
  Names <- NamesUsed
  Initially <- TreeTwo
  Changes <- Lists
  MaxCalls = 2
  Light = {"add", "delete"}
  MaxOthers = 1
PROPERTY CommittedWhenLeft
CHECK_DEADLOCK FALSE
