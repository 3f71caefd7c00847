SPECIFICATION Spec
CONSTANTS
  Recipients = 1
  Total = 3
  Window = 2
  RetryLimit = 1
  MaxRanges = 1
  Patient = FALSE
  Flaky = {}
INVARIANTS BooksAgree
CHECK_DEADLOCK FALSE
