SPECIFICATION FairSpec

CONSTANTS
  Absent = Absent
  Alien = Alien
  Revs = {r1, r2}
  Sizes = {z1}
  Submitted <- Modes
  Preexisting = {}
  Scales <- MCScales
  Passwords <- MCPasswords
  Lag = 1
  Budget <- Keyed
  DatabasePlan <- OnlyDatabase
  SitePlan <- OnlySite

INVARIANTS
  StatusConverges

PROPERTIES
  Converges

\* Once the budget is spent and the site is served nothing is left to do.
CHECK_DEADLOCK FALSE
