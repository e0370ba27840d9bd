CONSTANTS
  c1 = c1
  Campaigns = {c1, c2}
  Buyers = {b1}
  CampaignOf <- FirstCampaign
  Requests = {r1, r2}
  Attempts = 1
  Faults = {}
SPECIFICATION Spec
CHECK_DEADLOCK FALSE
INVARIANT OneActiveCampaign
