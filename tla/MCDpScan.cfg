CONSTANTS
  Byte <- MCByte
  Zero <- MCZero
  AlphabetN <- MCAlphabetN
  RSet <- MCRSet
  Profiles <- MCProfiles
  WordRange <- MCWordRange
  MinPassthrough = 12
  MaxDpSegment = 13
  MinFill = 5
  MinFillInSegment = 3
  MaxFill = 9
  MinTailZeros = 3
  MaxTailZeros = 4
  Windows <- MCWindows
  Lanes = 3
SPECIFICATION Spec
INVARIANTS
  TypeOK
  StateExact
  PrefixIsCanonical
  PrefixDecodable
  PrefixMaximal
  LanesExact
  TranslationExact
  PortsScanAlike
CHECK_DEADLOCK FALSE
