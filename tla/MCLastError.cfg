CONSTANTS
  m1 = m1
  m2 = m2
  Messages = {m1, m2}
  NoMessage = NoMessage
  Interval = 3
  MaxEarly = 1
  MaxDelay = 1
  MaxTime = 10
SPECIFICATION LastErrorSpec
INVARIANT LastErrorTypeOK LatestPublished PublishedInTime
PROPERTY RateLimited
