SPECIFICATION Spec

CONSTANTS
  Absent = Absent
  Alien = Alien
  Revs = {r1, r2}
  Sizes = {z1}
  Submitted <- OnlyExposed
  Preexisting = {"UserSecret"}
  Scales <- MCScales
  Passwords <- MCPasswords
  Lag = 1
  Budget <- Meddled
  DatabasePlan <- Nothing
  SitePlan <- SiteContent

INVARIANTS
  ChildrenConverge

\* Once the budget is spent and the site is served nothing is left to do.
CHECK_DEADLOCK FALSE
