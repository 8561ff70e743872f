CONSTANTS
  MaxChunks = 2
  MaxLines = 2
SPECIFICATION FairSpec
PROPERTY SendReturns
