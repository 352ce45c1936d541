\* Three processes open a database of any version; one of them may die.
SPECIFICATION FairSpec
CONSTANTS
  Openers = {o1, o2, o3}
  Profiles = {"first", "second", "bare"}
  PillarsOf <- MCPillarsOf
  NoPillars = "none"
  NoProfile = "absent"
  MaxCrashes = 1
INVARIANTS TypeOK StampIsTrue PillarsFitProfile EvidenceIsUsed StrandedByCrashOnly
PROPERTIES EveryoneOpens
