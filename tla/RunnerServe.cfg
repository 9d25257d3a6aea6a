\* The daemon alone, its one page as long as the list; every kind of failure, restarts included; no label but the seed's.
SPECIFICATION RunnerSpec
CONSTANTS
  b1 = b1
  b2 = b2
  b3 = b3
  w1 = w1
  tech = tech
  food = food
  NoLabel = NoLabel
  NoRow = NoRow
  NoBookmark = NoBookmark
  Bookmarks = {b1, b2, b3}
  Extractable = {b1, b2}
  Labels = {tech, food}
  Spellings <- SeedSpellings
  Normal <- SeedNormal
  Seed = {tech}
  AllowNewLabels = FALSE
  MinConfidence = 50
  Answers <- SeedAnswers
  Workers = {w1}
  DryRun <- NoneDry
  Commands = {"pass", "classify", "backfill"}
  Unreliable = {"readeck", "llm", "store", "crash", "cancel"}
  UserMay = {"delete"}
  MaxUse = 2
  Created <- InOrder
  PageSize = 3
  MayRun <- OnlyServe
  Pages <- TwoPages
PROPERTIES EventuallyRecorded StopsWhenCancelled
