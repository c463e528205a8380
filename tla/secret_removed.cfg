SPECIFICATION Spec

CONSTANTS
  Absent = Absent
  Alien = Alien
  Revs = {r1, r2}
  Sizes = {z1}
  Submitted <- OnlyExternal
  Preexisting = {"UserSecret"}
  Scales <- MCScales
  Passwords <- MCPasswords
  Lag = 1
  Budget <- Keyed
  DatabasePlan <- OnlyDatabase
  SitePlan <- OnlySite

INVARIANTS
  ReadyImpliesDatabase

\* Once the budget is spent and the site is served nothing is left to do.
CHECK_DEADLOCK FALSE
