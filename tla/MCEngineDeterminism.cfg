SPECIFICATION Spec
CONSTANTS
  MaximumMessages = 3
  MaximumStructure = 3
  MaximumRanges = 4
  MaximumItems = 4
  MaximumLines = 3
  Diagnoses = 2
  Bundles <- Recurrent
  Wrappers <- MCNothing
INVARIANT EvidenceDeterminesReport
