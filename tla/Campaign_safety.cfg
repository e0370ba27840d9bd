CONSTANTS
  c1 = c1
  Campaigns = {c1, c2}
  Buyers = {b1, b2}
  CampaignOf <- FirstCampaign
  Requests = {r1, r2}
  Attempts = 2
  Faults = {"redis", "provider", "worker"}
SPECIFICATION Spec
SYMMETRY Symmetry
CHECK_DEADLOCK FALSE
INVARIANTS
  TypeOK
  OneSellingCampaign
  NobodyMissesAPostponement
  AnsweredMeansAnnounced
  LogIsAChain
