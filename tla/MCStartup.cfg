CONSTANTS
  Daemons = {d1, d2, d3}
  Inodes = {i1, i2, i3, i4}
  Missing = Missing
  RegularFile = RegularFile
  Faults <- AllOrNoFaults
SYMMETRY Symmetry
SPECIFICATION Spec
INVARIANT SomeoneServes
PROPERTY LiveNotDisplaced
CHECK_DEADLOCK FALSE
