SPECIFICATION FairSpec
CONSTANTS
  AUDIO_HW_IN_PERIOD_SZ = 2
  ReadSizes = {1, 3}
  AskedRates = {0, 8000, 9512, 9513, 13512, 38050, 44100, 48000}
  Capacity = 2
INVARIANTS BuffersFit FramesInOrder RateSettled
PROPERTY ReadReturns
