SPECIFICATION Spec
CONSTANTS
  MaximumMessages = 4
  MaximumStructure = 8
  MaximumRanges = 12
  MaximumItems = 32
  MaximumLines = 256
  Diagnoses = 1
  Bundles <- Contested
  Wrappers <- MCNothing
INVARIANT FinalMessageIsPrimary
