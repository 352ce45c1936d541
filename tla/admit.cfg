\* Looks race for the lock; nothing is ingested past it.
SPECIFICATION FairSpec
CONSTANTS
  p = p
  q = q
  NoKey = NoKey
  NoOne = NoOne
  Briefs = {1, 2, 3}
  Scanned = {1, 2}
  Collected = {2, 3}
  Ingested = {}
  Project <- TwoProjects
  Artifact <- MCArtifact
  Release <- MCRelease
  Url <- MCUrl
  Body <- MCBody
  Wardrobe = {"github", "x", "discord"}
  Tickers = {t1}
  Looks = {l1, l2}
  Gates = {g1}
  StackHours = 2
  MaxClock = 2
  MaxCrashes = 1
INVARIANTS TypeOK OneOpenStory ArtifactToldOnce
PROPERTIES HeldStaysHeld OneStoryAtATime PendingIsScored
