\* Everything the surroundings may do, with the lines of vpush cut short.
SPECIFICATION FairSpec
CONSTANTS
  Runs = 2
  Times = 1
  Divided = TRUE
  Tests <- TestsCut
  UseSelect = FALSE
  Script <- RunScript
  Answers <- AnswersLoose
  Segmented = TRUE
  MaxPings = 1
  MayClose = TRUE
  Fitting <- LongAreCut
  SendCap = 1
  PollErrors = {"again", "fail"}
  Typing = TRUE
  Signals = {"SIGINT"}
INVARIANTS
  TypeOK
  StopwatchStarted
  NoMutualWait
  QueueOrder
  SignalPrompt
  NoReplyCountedTwice
PROPERTIES
  EndsOrStarves
