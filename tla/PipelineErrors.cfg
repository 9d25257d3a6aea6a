\* One process; only the state DB may fail.
SPECIFICATION Spec
CONSTANTS
  b1 = b1
  b2 = b2
  w1 = w1
  w2 = w2
  tech = tech
  food = food
  NoLabel = NoLabel
  NoRow = NoRow
  NoBookmark = NoBookmark
  Bookmarks = {b1}
  Extractable = {b1}
  Labels = {tech, food}
  Spellings <- MCSpellings
  Normal <- MCNormal
  Seed <- MCSeed
  AllowNewLabels = TRUE
  MinConfidence = 50
  Answers <- MCAnswers
  Workers = {w1}
  DryRun <- NoneDry
  Commands = {"pass"}
  Unreliable = {"store"}
  UserMay = {}
  MaxUse = 2
PROPERTIES ErrorMeansUnmarked
