SPECIFICATION Spec
CONSTANTS
  SIZE = 4
  NUMBER_TIME_AVG = 2
  Files <- MCFiles
  CommandLines <- MCCommandLines
INVARIANTS
  TypeOK
  NoRace
  NothingLost
  MedianRight
  MeanRight
PROPERTIES
  Completes
