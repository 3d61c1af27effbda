SPECIFICATION FairSpec
CONSTANTS
  Debounce = 2
  ClickWait = 3
  DoubleWait = 4
  LongPress = 5
  Wrap = 36
INVARIANTS TypeOK NoStuckGesture StateMatchesLevel
PROPERTIES GesturesMean PressIsReported GestureEnds
