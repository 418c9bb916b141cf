SPECIFICATION MCSpec
CONSTANTS
  Threads = {t1, t2}
  Platforms <- MCContribPlatforms
  MaxChanges = 0
  MaxConfigs = 2
  LengthSize = 2
  MinLength = 1
  MaxLength = 2
  MaxPayloads = {1, 3, 4}
  MaxFrames = 0
  MaxSwitches = 0
INVARIANT
  AltDetectorFits
CHECK_DEADLOCK FALSE
