SPECIFICATION MCSpec
CONSTANTS
  Writers = {w1, w2}
  None = None
  Foreign = Foreign
  MaxOutages = 1
  Files = {f1, f2}
  Limit = 2
  MaxWrites = 3
SYMMETRY MCSymmetry
INVARIANTS
  PublishedIsWhole
  ResultIsTrue
  PointInTime
  FileIsClosed
PROPERTIES
  CreateNeverReplaces
  PublishesAtomically
