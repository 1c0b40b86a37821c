SPECIFICATION FairSpec
CONSTANT MaxGen = 5
INVARIANT TypeOK
INVARIANT AtMostOne
INVARIANT NothingIsLost
INVARIANT ReadyIsBacked
INVARIANT SettledUnlessOverwritten
INVARIANT ExitLeavesNothing
PROPERTY ExitHappens
