\* The answer to the login arrives in two segments.
SPECIFICATION Spec
CONSTANTS
  Runs = 2
  Times = 1
  Divided = TRUE
  Tests <- TestsTwo
  UseSelect = FALSE
  Script <- RunScript
  Answers <- AnswersPlain
  Segmented = TRUE
  MaxPings = 0
  MayClose = FALSE
  Fitting <- AllFit
  SendCap = 9
  PollErrors = {}
  Typing = FALSE
  Signals = {}
INVARIANTS
  RowsCountOwnReplies
