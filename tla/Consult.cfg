\* Articles around the limit; three retries, every status, timeouts; any answer; a signal at any time.
SPECIFICATION ConsultSpec
CONSTANTS
  MaxRetries = 3
  BaseBackoff = 1
  MaxBackoff = 2
  BackoffJitter = 2
  Timeouts <- MCTimeouts
  Forever = 40
  Articles <- MCArticles
  MaxInputChars = 3
  Confidences <- MCConfidences
  MaxDepth = 3
INVARIANTS ConsultTypeOK CallIsBounded PromptFits StopsWithTheValue
PROPERTIES NothingSentInVain CancelledAtOnce ImplementsCall Returns
