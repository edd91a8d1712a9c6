SPECIFICATION Spec
CONSTANTS
  Evidence <- MCColoured
  Profiles <- MCProfiles
  MaximumLine = 2
  MaximumLines = 3
  MaximumTotal = 4
INVARIANT
  LinesAreExposed
