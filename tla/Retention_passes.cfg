CONSTANTS
  Count = 2
  Frames = {1}
  Clients = {c1, c2}
  Threshold = 0
  Batch = 1
  MaxCandidates = 2
  MaxFaults = 1
  MaxCrashes = 1
  None = None
SPECIFICATION FairSpec
INVARIANTS TypeOK ArchiveIsWhole
PROPERTIES OrphansHaveNoRow ExpiredGoes
