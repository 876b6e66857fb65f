\* Tests that the help text lists, given to --tests.
SPECIFICATION Spec
CONSTANTS
  Runs = 2
  Times = 1
  Divided = TRUE
  Tests <- TestsListed
  UseSelect = FALSE
  Script <- RunScript
  Answers <- AnswersPlain
  Segmented = FALSE
  MaxPings = 0
  MayClose = FALSE
  Fitting <- AllFit
  SendCap = 9
  PollErrors = {}
  Typing = FALSE
  Signals = {}
INVARIANTS
  RequestedTestsReported
