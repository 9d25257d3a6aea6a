\* One process at a time, any command, pages of one bookmark; everything may fail.
SPECIFICATION RunnerSafety
CONSTANTS
  b1 = b1
  b2 = b2
  b3 = b3
  w1 = w1
  tech = tech
  food = food
  NoLabel = NoLabel
  NoRow = NoRow
  NoBookmark = NoBookmark
  Bookmarks = {b1, b2}
  Extractable = {b1, b2}
  Labels = {tech}
  Spellings <- MCSpellings
  Normal <- MCNormal
  Seed = {}
  AllowNewLabels = TRUE
  MinConfidence = 50
  Answers <- MCAnswers
  Workers = {w1}
  DryRun <- NoneDry
  Commands = {"pass", "classify", "backfill"}
  Unreliable = {"readeck", "llm", "store", "crash", "cancel"}
  UserMay = {"untag", "delete"}
  MaxUse = 2
  Created <- InOrder
  PageSize = 1
  MayRun <- AnySubcommand
  Pages <- TwoPages
INVARIANTS RunnerTypeOK CountsCoverRows
PROPERTIES RecordedIsSettled CancelledIsSilent
