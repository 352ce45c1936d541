\* Three Mondays of a plain site with three changes, and every mark in every text.
SPECIFICATION Spec
CONSTANTS
  MaxFacts = 3
  Offers <- MCOffers
  Homes <- MCHomes
  FlagSets <- MCFlagSets
  Outages <- MCOutages
  Ingests <- MCIngests
  Profile <- MCProfile
  Starts <- MCStarts
  MaxWeeks = 3
CHECK_DEADLOCK FALSE
INVARIANTS ReleaseDraftedOnce OnlyBlindLooksAdmit StageWasSeen ScannedSpeaks
