\* Two projects watch the repository; both look under tick.lock, one in a loop.
SPECIFICATION FairSpec
CONSTANTS
  NoOne = NoOne
  Runs = {r1, r2}
  Passes = {r1, r2}
  Loops = {r1}
  r1 = r1
  r2 = r2
  p1 = p1
  p2 = p2
  Project <- MCProject
  WeekHours = 3
  MondayHours = 2
  MaxClock = 7
  MaxBriefs = 4
  MaxCrashes = 2
INVARIANTS TypeOK OneBriefPerMonday
PROPERTIES DoneLookStaysDone LookFinishes
