CONSTANTS
  Byte <- MCByte
  Zero = 0
  AlphabetN <- MCAlphabetN
  RSet <- MCRSet
  Profiles <- MCProfiles
  WordRange <- MCWordRange
  MinPassthrough = 12
  MaxDpSegment = 16
  MinFill = 5
  MinFillInSegment = 6
  MaxFill = 16
  MinTailZeros = 3
  MaxTailZeros = 4
  Base = 7
  Radix = 11
  Alphabet <- MCAlphabet
  Whitespace <- MCWhitespace
  WideChar <- MCWideChar
  Cases <- SafetyCases
SPECIFICATION Spec
PROPERTIES
  OnlySolidFillGrows
CHECK_DEADLOCK FALSE
