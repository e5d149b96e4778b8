CONSTANTS
  Daemons = {d1, d2}
  Inodes = {i1, i2, i3}
  Missing = Missing
  RegularFile = RegularFile
  Faults <- OnlyStops
SPECIFICATION Spec
PROPERTY StopRemovesOwn
CHECK_DEADLOCK FALSE
