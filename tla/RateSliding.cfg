SPECIFICATION LimSpec
CONSTANTS
  ClientKeys = {z1}
  WindowTicks = 2
  MaxRequests = 2
  LastTick = 3
  MaxArrivals = 3
  NoWindow = NoWindow
CHECK_DEADLOCK FALSE
INVARIANTS SlidingWindow
