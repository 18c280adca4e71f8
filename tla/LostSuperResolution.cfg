SPECIFICATION SrSpec
CONSTANTS
  VideoHeights = {1, 2}
  WindowHeights = {2, 4}
  MaxScale = 4
  MaxChosen = 2
INVARIANT ScaleIsRecomputed
CHECK_DEADLOCK FALSE
