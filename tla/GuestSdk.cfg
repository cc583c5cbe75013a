SPECIFICATION KitSpec
CONSTANTS
  None = None
  Trap = Trap
  Error = Error
  Greeting = n1
  Names = {n1, n2}
  MaxSends = 2
  MaxChunks = 2
  MaxChunk = 2
  MaxBody = 4
INVARIANTS HandlesInOrder TerminatorFits AnswerWhole
