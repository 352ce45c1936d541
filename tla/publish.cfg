\* Two ticks over the same three plans, and two operators at the publish command.
SPECIFICATION Spec
CONSTANTS
  NoPlan = NoPlan
  Plans = {p1, p2, p3}
  Workers = {w1, w2}
  Clerks = {c1, c2}
  MaxCrashes = 2
SYMMETRY Symmetry
INVARIANTS TypeOK CreatedOnce PlanFollowsAttempt OutcomeIsTrue
PROPERTY ConfirmedIsFinal
\* Plans that have all ended leave nothing to do.
CHECK_DEADLOCK FALSE
