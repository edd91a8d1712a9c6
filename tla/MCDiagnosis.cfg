SPECIFICATION MCSpec
CONSTANTS
  MaximumMessages = 3
  MaximumStructure = 3
  MaximumRanges = 4
  MaximumItems = 4
  MaximumLines = 3
  Diagnoses = 1
  Bundles <- MCBundles
  Wrappers <- MCWrappers
  Corpora <- MCCorpora
  PromotionPolicies <- MCPolicies
  Answers <- MCAnswers
  Repeats = 2
  WithSource = TRUE
INVARIANTS
  EveryReportSeals
  TrustedOutranksTarget
  SharedNeverBorrows
  ReportIsWhole
  LastMessageLeads
  PassedMeansPerfect
  PromotionIsEarned
