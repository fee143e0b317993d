SPECIFICATION FairSpec
CONSTANTS
  Writers = {w1, w2}
  MaxQueue = 2
  SplitLines = 2
  MaxDay = 3
  MaxLines = 3
  Mday <- TwoDayMonths
  NoLine = NoLine
INVARIANTS TypeOK EachLineOnce ReturnedIsDurable OnlyDirectOvertakes LoneWriterFiled FilesBounded
PROPERTIES AcceptedIsWritten
CHECK_DEADLOCK FALSE
