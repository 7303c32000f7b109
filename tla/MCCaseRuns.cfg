SPECIFICATION Spec
CONSTANTS
  Runs <- MCRuns
  Baselines <- MCBaselines
  CaseConcurrency = 2
  RunAttempts = 2
  MaxCalls = 3
  AuditEnforced = FALSE
  Modulus = 16
INVARIANTS
  ReportFromTranscripts
  UndeliveredIsNeutral
  SelfReportOnlyCosts
  FullMarksAreEarned
  PenaltiesAreBounded
  EvidenceBeforeQuestion
PROPERTIES
  RunsEnd
