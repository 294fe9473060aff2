\* Both pumps, two configurations of the timers, three arrivals.
CONSTANTS
  Far = 100
  LimitChoices <- TwoChoices
  MaxAge = 2
  Room = 1
  MaxArrivals = 3
  MaxBuffered = 2
SPECIFICATION FairSpec
INVARIANTS ShadowReadyAtEnd WakesToStall RecordedAfterEnd
PROPERTIES GuardReleased StreamCompletes
