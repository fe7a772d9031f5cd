\* 3 contexts, 3 repetitions and a warmup, or 3 threads and 3 rounds of bandwidth.
CONSTANTS
  N = 3
  Reps = 3
  Warmups = 1
  NB = 2
  MaxStdev = 1
  Medians = {1, 2}
  Stdevs = {0, 2}
  Lines = {10, 11}
  NumBwThreads = 3
  Rounds = 3
SPECIFICATION MeasureSpec
INVARIANTS
  TimesTheTransfer
  SamePair
  TableComplete
  SoloIsAlone
PROPERTIES
  KeepsMeasuring
  BandwidthIsMeasured
