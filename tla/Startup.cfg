\* Command lines of up to four words.
SPECIFICATION Spec
CONSTANTS
  Word = {"", "--runs", "--run", "-r99", "-b-3", "-t", "--t", "--use", "--version", "--", "op", "3", "get,QUIT"}
  MaxWords = 4
  Stands <- Spellings
  ReadsAs <- Numbers
  IntMax = 50
  DEFAULT_CHECK = 4
  TokensOf <- Lists
  Lookups <- AddressLists
INVARIANTS
  ConfigFollowsArgs
  NoConnectionUnasked
  NeverReturns
  ReadyForLink
PROPERTIES
  Settles
