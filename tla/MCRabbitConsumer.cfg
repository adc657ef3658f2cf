SPECIFICATION ConsumerFairSpec
CONSTANTS
  Msgs = {m1}
  Slots = {1, 2, 3}
  Workers = {w1, w2}
  NoCopy = NoCopy
  NoWorker = NoWorker
  MAX_RETRIES = 3
  Prefetch = 1
  MaxCrashes = 1
  MaxCloses = 1
INVARIANTS GivenUpAfterAllAttempts UndisturbedOnce
PROPERTIES AtLeastOnce Settles
CHECK_DEADLOCK FALSE
