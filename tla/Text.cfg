CONSTANTS
  npos = 1000
  Alphabet = {" ", ":", "a"}
  MaxLength = 6
  Symbols = {"-", "+", "0", "1", "9", ".", "e", " ", "quote"}
  MaxSymbols = 4
  Bits = 8
SPECIFICATION TextSpec
INVARIANTS
  NothingLost
  TrailingKept
  ContainsTakes
  PrintedReturns
  ReadsWhatFits
  NumberLanguage
  StripeUnquotes
CHECK_DEADLOCK FALSE
