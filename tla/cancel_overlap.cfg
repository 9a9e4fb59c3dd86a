SPECIFICATION Spec
CONSTANTS
  c1 = c1
  c2 = c2
  c3 = c3
  i1 = i1
  i2 = i2
  i3 = i3
  Calls <- ThreeCalls
  Ids <- TwoIds
  MaxTokens = 2
  UniqueIds = FALSE
  Free = Free
  Tombstone = Tombstone
  NoId = NoId
INVARIANT InFlightWorkCancellable
