SPECIFICATION ReportSpec
CONSTANTS
  s1 = s1
  s2 = s2
  s3 = s3
  Stacks = {s1, s2, s3}
  Sizes = {1, 2}
  MaxSigned = 1
  MaxEvents = 3
  Words = {"", "a.py", "space"}
  Lines = {1, 2}
  Frames <- MCFrames
  Streams = {w1, w2}
  Capacities = {0, 3, 4}
  Contents = {c1, c2}
  Lengths = {1, 3}
  Nul = Nul
SYMMETRY Symmetry
INVARIANTS
  ReportTypeOK
  DeltaExact
  ProfileFaithful
  OneLocationPerFrame
  FileWhole
