SPECIFICATION FairSpec
CONSTANTS
  Writers = {w1, w2}
  MaxQueue = 1
  SplitLines = 2
  MaxDay = 2
  MaxLines = 3
  Mday <- TwoDayMonths
  NoLine = NoLine
PROPERTIES RotatesForward
CHECK_DEADLOCK FALSE
