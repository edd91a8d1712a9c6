SPECIFICATION MCSpec
CONSTANTS
  Evidence <- MCEvidence
  Profiles <- MCProfiles
  MaximumLine = 2
  MaximumLines = 3
  MaximumTotal = 4
  Bundles <- MCBundles
  ProfileLimits <- MCProfileLimits
  MinimumUseful = 3
INVARIANTS
  DisclosesOnlyApproved
  NothingIsWithheld
  SealAccepts
  ContextsAreValid
  AnchorInWindow
  SelectionIsExact
