\* Two scan-due commands of two projects, without tick.lock.
SPECIFICATION Spec
CONSTANTS
  NoOne = NoOne
  Runs = {r1, r2}
  Passes = {}
  Loops = {}
  r1 = r1
  r2 = r2
  p1 = p1
  p2 = p2
  Project <- MCProject
  WeekHours = 3
  MondayHours = 2
  MaxClock = 4
  MaxBriefs = 3
  MaxCrashes = 0
INVARIANT OneSurveyAtATime
