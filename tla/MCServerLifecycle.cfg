CONSTANT MaxMessages = 4
SPECIFICATION FairSpec
INVARIANTS
  InitializeRunsFirst
  LetThroughByPlace
PROPERTY CallsAnswered
