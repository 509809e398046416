SPECIFICATION SuggestionsSpec
CONSTANTS
  b1 = b1
  b2 = b2
  f1 = f1
  k1 = k1
  k2 = k2
  Facts = {f1}
  Values = {"v1", "v2"}
  Bullets = {b1, b2}
  Texts = {"led", "led more", "led more.", "ran"}
  Length <- MCLength
  Supports <- MCSupports
  Snapshots <- MCSnapshots
  ClaimEnd <- MCClaimEnd
  Vouches <- MCVouches
  Offers = {"led more", "led more."}
  Edits <- MCEdits
  Keys = {k1, k2}
  None = None
  MaxVersions = 3
  MaxExpiries = 1
  MaxSuggestions = 1
SYMMETRY KeySymmetry
INVARIANTS
  NoLostUpdate
  EffectAtMostOnce
  EvidenceStands
  DecisionsStand
CHECK_DEADLOCK FALSE
