SPECIFICATION SelectSpec
CONSTANTS
  Bundles <- MCPlain
  ProfileLimits <- MCProfileLimits
  MinimumUseful = 3
INVARIANT DiagnosticIsKept
