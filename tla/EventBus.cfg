SPECIFICATION FairSpec
CONSTANTS
  Instances = {i1, i2}
  Publishers = {p1}
  MaxAttempts = 2
  ChanSize = 1
  MaxEvents = 2
  MaxFaults = 1
  Stranger = Stranger
INVARIANTS
  OneOrder
  NoUnexplainedGap
  AnsweredOnceInOrder
PROPERTIES
  PublishReturns
  ReceivedIsOffered
CHECK_DEADLOCK FALSE
