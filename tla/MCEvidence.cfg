SPECIFICATION Spec
CONSTANTS
  Profiles <- MCProfiles
  Answers <- MCAnswers
  Fp16Runs <- MCFp16Runs
  MaxSamples = 1
  MaxFallbacks = 1
  None = None
INVARIANTS
  PassIsWitnessed
  QualityNeverGains
CHECK_DEADLOCK FALSE
