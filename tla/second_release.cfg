\* A held story and the next release, whose pack shows the same README.
SPECIFICATION Spec
CONSTANTS
  MaxFacts = 3
  Offers <- MCOffers
  Homes <- MCHomes
  FlagSets <- MCFlagSets
  Outages <- MCOutages
  Ingests <- MCIngests
  Profile <- MCProfile
  Starts <- MCPast
  MaxWeeks = 2
CHECK_DEADLOCK FALSE
INVARIANT AlreadyToldWasTold
