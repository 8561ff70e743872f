CONSTANTS
  MaxChunks = 3
  MaxLines = 3
SPECIFICATION FairSpec
INVARIANTS TypeOK ShownIsPrefix StreamShape WholeOnCancel
PROPERTIES SendReturnsUnlessSwallowed ThreadReleased IsAnswerChannel
