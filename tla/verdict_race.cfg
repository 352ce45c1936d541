\* Two verdicts race on the same draft.
SPECIFICATION Spec
CONSTANTS
  p = p
  q = q
  NoKey = NoKey
  NoOne = NoOne
  Briefs = {1, 2, 3}
  Scanned = {1, 2, 3}
  Collected = {}
  Ingested = {}
  Project <- OneProject
  Artifact <- Own
  Release <- None
  Url <- MCUrl
  Body <- MCBody
  Wardrobe = {"x"}
  Tickers = {t1}
  Looks = {l1}
  Gates = {g1, g2}
  StackHours = 2
  MaxClock = 3
  MaxCrashes = 1
INVARIANT OneOpenStory
