SPECIFICATION Spec

CONSTANTS
  Absent = Absent
  Alien = Alien
  Revs = {r1, r2}
  Sizes = {z1}
  Submitted <- OnlyEmptyDir
  Preexisting = {}
  Scales <- MCScales
  Passwords <- MCPasswords
  Lag = 1
  Budget <- Undisturbed
  DatabasePlan <- OnlyDatabase
  SitePlan <- OnlySite

PROPERTIES
  SpecUntouched

\* Once the budget is spent and the site is served nothing is left to do.
CHECK_DEADLOCK FALSE
