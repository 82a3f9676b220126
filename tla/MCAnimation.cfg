CONSTANTS
  Formats = {"mng", "webp", "apng", "gif", "jxl", "avif"}
  Sizes <- MCSizes
  MaxSide = 3
  MaxPixels = 4
  FramesLimit = 4
  Ticks = {0, 1, 6}
  Rates = {0, 3}
  Second = 4
  Half = 8
  Endless = 7
  MaxChunks = 7
  MaxDuration = 6
  NoSize = NoSize
SPECIFICATION Spec
INVARIANT PixelsWithinBudget
INVARIANT NoDrift
INVARIANT CycleKept
INVARIANT FramesKept
CHECK_DEADLOCK FALSE
