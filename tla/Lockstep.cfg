\* Strict alternation: the default tests, twice, two replies to a row.
SPECIFICATION FairSpec
CONSTANTS
  Runs = 2
  Times = 2
  Divided = FALSE
  Tests <- TestsDefault
  UseSelect = TRUE
  Script <- RunScript
  Answers <- AnswersOrderly
  Segmented = FALSE
  MaxPings = 0
  MayClose = TRUE
  Fitting <- AllFit
  SendCap = 1
  PollErrors = {}
  Typing = FALSE
  Signals = {"SIGINT", "SIGTERM"}
INVARIANTS
  OneOutstanding
  NoLeftovers
PROPERTIES
  KeepsPromise
