CONSTANTS
  Count = 2
  Frames = {1}
  Clients = {c1, c2}
  Threshold = 0
  Batch = 1
  MaxCandidates = 2
  MaxFaults = 0
  MaxCrashes = 0
  None = None
SYMMETRY Symmetry
SPECIFICATION Spec
PROPERTY DirIsEmpty
