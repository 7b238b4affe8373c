\* The whole calendar; a factor of three bits, a jitter of two, a u64 of six and a
\* clock of five, so that each of them overflows within a few retries.
CONSTANTS
  FirstYear = 0
  LastYear = 9999
  NanoDigits = 2
  MaxDigits = 3
  Texts <- MCTexts
  ComparedYears <- MCComparedYears
  ComparedDays <- MCComparedDays
  PlatformSeconds = 10000000
  TicksPerSecond = 2
  FactorBits = 3
  DurationMax = 40
  NanosMax = 30
  JITTER_BITS = 2
  SecondsMax = 63
  InstantMax = 31
  CountMax = 8
  BaseDelays = {0, 1, 3, 7, 40}
  MaxDelays = {0, 2, 9, 35, 40}
  MaxAttempts = {0, 1, 6}
SPECIFICATION MCSpec
CHECK_DEADLOCK FALSE
INVARIANTS DaysAreCounted InstantsAreExact TickerNeverPanics
PROPERTIES DelaysDouble
