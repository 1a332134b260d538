CONSTANTS
  c1 = c1
  c2 = c2
  Clients = {c1, c2}
  NoClient = NoClient
  NoFrame = NoFrame
  MaxRequests = 2
  Frames <- MCFrames
SPECIFICATION Spec
INVARIANT TypeOK OneAnswer RightAnswer RepliesMatch OnlyOrphansLeak CrashNeedsOrphan
PROPERTY ConnectedAnswered
CHECK_DEADLOCK FALSE
