CONSTANTS
  Byte <- MCByte
  Zero <- MCZero
  AlphabetN <- MCAlphabetN
  RSet <- MCRSet
  Profiles <- MCProfiles
  WordRange <- MCWordRange
  MinPassthrough = 20
  MaxDpSegment = 28
  MinFill = 5
  MinFillInSegment = 16
  MaxFill = 24
  MinTailZeros = 3
  MaxTailZeros = 8
  SkipBytes = 16
  Slack = 1
  Cases <- SafetyCases
SPECIFICATION WriterSpec
INVARIANTS
  BlockOnlyWherePassthroughMayCostMore
CHECK_DEADLOCK FALSE
