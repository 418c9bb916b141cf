SPECIFICATION MCSpec
CONSTANTS
  Threads = {t1, t2}
  Platforms <- MCCorePlatforms
  MaxChanges = 1
  MaxConfigs = 2
  LengthSize = 2
  MinLength = 1
  MaxLength = 2
  MaxPayloads = {1, 3, 4}
  MaxFrames = 2
  MaxSwitches = 2
SYMMETRY MCSymmetry
INVARIANTS
  DecodeComplete
  FramesWhole
CHECK_DEADLOCK FALSE
