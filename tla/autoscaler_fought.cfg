SPECIFICATION Spec

CONSTANTS
  Absent = Absent
  Alien = Alien
  Revs = {r1, r2}
  Sizes = {z1}
  Submitted <- OnlyScaled
  Preexisting = {"UserSecret"}
  Scales <- MCScales
  Passwords <- MCPasswords
  Lag = 1
  Budget <- ScaledOnce
  DatabasePlan <- Nothing
  SitePlan <- SiteScaled

PROPERTIES
  AutoscalerDecides

\* Once the budget is spent and the site is served nothing is left to do.
CHECK_DEADLOCK FALSE
