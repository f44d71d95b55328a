SPECIFICATION Spec
CONSTANTS
  Inline = {int, null}
  Statics = {null}
  Boxed = {drv}
  StablePtrs = {p1, p2, p3}
  BlockCapacity = 2
  MaxBlocks = 2
  MaxCallDepth = 0
  MaxStack = 4
  Env = Env
  None = None
INVARIANTS
  BlackholeMeansRecursion
  OneAnswer
  StablePtrsAccounted
  DepthIsFrames
CHECK_DEADLOCK FALSE
