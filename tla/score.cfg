\* Two tick processes score ingested and admitted briefs of one project.
SPECIFICATION Spec
CONSTANTS
  p = p
  q = q
  NoKey = NoKey
  NoOne = NoOne
  Briefs = {1, 2, 3, 4}
  Scanned = {1}
  Collected = {}
  Ingested = {2, 3, 4}
  Project <- OneProject
  Artifact <- MCArtifact
  Release <- MCRelease
  Url <- MCUrl
  Body <- MCBody
  Wardrobe = {"hn", "discord"}
  Tickers = {t1, t2}
  Looks = {l1}
  Gates = {g1}
  StackHours = 2
  MaxClock = 2
  MaxCrashes = 1
INVARIANTS OneHnPerUrl OneDraftPerRelease NoBodyTwiceOpen WindowOfTheFirst
SYMMETRY TickSymmetry
