SPECIFICATION Spec

CONSTANTS
  Absent = Absent
  Alien = Alien
  Revs = {v1, v2}
  Sizes = {v1, v2}
  Submitted <- Revisions
  Preexisting = {}
  Scales <- MCScales
  Passwords <- MCPasswords
  Lag = 1
  Budget <- Faulty
  DatabasePlan <- Credentials
  SitePlan <- OnlySite

SYMMETRY SymmetricRevs

INVARIANTS
  TypeOK
  ChildrenConverge
  StatusConverges
  ObservedMeansRendered
  DataOpens

\* Once the budget is spent and the site is served nothing is left to do.
CHECK_DEADLOCK FALSE
