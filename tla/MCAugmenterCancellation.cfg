SPECIFICATION Spec
CONSTANTS
  Evidence <- MCEvidence
  LogContent <- MCLogContent
  Source <- MCSource
  Bases <- MCBases
  Responses <- MCResponses
  GeneratedCodes <- MCGeneratedCodes
  GuidanceFor <- MCGuidanceFor
  MaximumReferences = 2
  MaximumActions = 2
  MaximumMissing = 2
INVARIANT CancellationNeverDegrades
