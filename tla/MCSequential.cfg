SPECIFICATION MCSpec
CONSTANTS
  RetryInitial = 2
  RetryMax = 6
  SendGap = 4
  Addresses = {"a", "b", "c"}
  Answers <- MCAnswers
  MaxTime = 12
  SecondsPerMinute = 3
  MinuteSlots = 3
  MaxSecond = 19
  MaxForwards = 4
  Seeds <- MCSeeds
  MaxEdits = 2
  MaxName = 2
  MaxChanges = 3
INVARIANTS
  BackedOff
  Rotation
  RatesExact
  ReaderExact
  ValidSuffices
  SavedLoads
PROPERTIES
  Paced
CHECK_DEADLOCK FALSE
