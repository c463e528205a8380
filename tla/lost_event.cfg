SPECIFICATION Spec

CONSTANTS
  Absent = Absent
  Alien = Alien
  Revs = {r1, r2}
  Sizes = {z1}
  Submitted <- OnlyComplete
  Preexisting = {}
  Scales <- MCScales
  Passwords <- MCPasswords
  Lag = 1
  Budget <- Undisturbed
  DatabasePlan <- OnlyDatabase
  SitePlan <- OnlySite

INVARIANTS
  ChildrenConverge

\* Once the budget is spent and the site is served nothing is left to do.
CHECK_DEADLOCK FALSE
