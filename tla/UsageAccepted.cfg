\* Command lines of up to two words.
SPECIFICATION Spec
CONSTANTS
  Word = {"", "--runs", "-t", "--tests", "--use", "--version", "--password", "--t", "op", "3", "99", "-3", "get,QUIT", ",", "--", "--run", "--length", "-r99", "-b-3"}
  MaxWords = 2
  Stands <- Spellings
  ReadsAs <- Numbers
  IntMax = 50
  DEFAULT_CHECK = 4
  TokensOf <- Lists
  Lookups <- AddressLists
INVARIANTS
  UsageAccepted
