\* A second brief of a release is ingested while the first one waits.
SPECIFICATION Spec
CONSTANTS
  p = p
  q = q
  NoKey = NoKey
  NoOne = NoOne
  Briefs = {1, 2, 3}
  Scanned = {2}
  Collected = {}
  Ingested = {3}
  Project <- OneProject
  Artifact <- MCArtifact
  Release <- MCRelease
  Url <- MCUrl
  Body <- MCBody
  Wardrobe = {"hn", "discord"}
  Tickers = {t1}
  Looks = {l1}
  Gates = {g1}
  StackHours = 2
  MaxClock = 3
  MaxCrashes = 1
INVARIANT FirstOfReleaseSpeaks
