SPECIFICATION LoopsSpec
CONSTANTS
  early = early
  bad = bad
  Checkouts = {1, 2}
  Versions = {early, bad}
  Malformed = {bad}
  Takeover <- Takeovers
  ObserveBeforeTakeover = TRUE
  MaxCandidates = 2
  MaxListed = 3
  StepGap = 1
  MinRetry = 1
  MaxRetry = 2
  MaxRetryCount = 2
  MaxTimerDelay = 2
  Late = 1
  Last = 3
  EventPlan = TRUE
  MaxRetained = 2
  MaxInterrupts = 3
  Runners = {1, 2}
  Legs = 1
  Attempts = 2
  Window = 1
  MaxRuns = 3
  Tabs = {1, 2}
  MaxPayments = 2
CHECK_DEADLOCK FALSE
INVARIANTS OneCheck WakesInTime OneCiphertext InFlightSafe PayerOnce FundedOnce
PROPERTIES RightAnswers KeepsChecking AcceptedForGood
