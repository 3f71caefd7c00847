SPECIFICATION FairSpec
CONSTANTS
  Recipients = 2
  Total = 2
  Window = 1
  RetryLimit = 1
  MaxRanges = 2
  Patient = TRUE
  Flaky = {2}
INVARIANTS SuccessMeansSaved RetriesSuffice
PROPERTIES Terminates NoPartLeft
CHECK_DEADLOCK FALSE
