SPECIFICATION Spec
CONSTANTS
  Name = "boot.bin"
  File <- MCFile
  Small = 1
  Big = 2
  Numbers = 4
  Early = 2
  CPrompts = 1
  MaxFaults = 3
INVARIANTS AckMeansHeld
PROPERTIES ComesToAnEnd
CHECK_DEADLOCK FALSE
