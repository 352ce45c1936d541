\* Shapes of facts with one mark or URL changed, through scoring and dressing.
SPECIFICATION Spec
CONSTANTS
  Briefs <- MCBriefs
  Brands <- MCBrands
  Claimed <- MCClaimed
INVARIANTS OnlyCleanCopySpeaks ShipClaimShowsShip DraftIsWorn EvidenceStays PlainShipSpeaks
