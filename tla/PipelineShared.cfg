\* Two processes, the second with --dry-run, on one bookmark; everything may fail.
SPECIFICATION Spec
CONSTANTS
  b1 = b1
  b2 = b2
  w1 = w1
  w2 = w2
  tech = tech
  food = food
  NoLabel = NoLabel
  NoRow = NoRow
  NoBookmark = NoBookmark
  Bookmarks = {b1}
  Extractable = {b1}
  Labels = {tech, food}
  Spellings <- MCSpellings
  Normal <- MCNormal
  Seed <- MCSeed
  AllowNewLabels = TRUE
  MinConfidence = 50
  Answers <- MCAnswers
  Workers = {w1, w2}
  DryRun <- OneDry
  Commands = {"pass", "classify", "backfill"}
  Unreliable = {"readeck", "llm", "store", "crash", "cancel"}
  UserMay = {"tag", "untag", "delete"}
  MaxUse = 2
INVARIANTS TypeOK RowsBacked
PROPERTIES NeverUntags DryRunSparesReadeck ImplementsLedger
