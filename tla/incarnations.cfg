SPECIFICATION Spec

CONSTANTS
  Absent = Absent
  Alien = Alien
  Revs = {r1}
  Sizes = {z1, z2}
  Submitted <- Volumetric
  Preexisting = {}
  Scales <- MCScales
  Passwords <- MCPasswords
  Lag = 2
  Budget <- Recreated
  DatabasePlan <- OnlyDatabase
  SitePlan <- Nothing

SYMMETRY SymmetricSizes

INVARIANTS
  FinalizerHeld
  StorageAsSubmitted

PROPERTIES
  CreatedForLiveOwner
  RetainHonoured
  ImplementsLifecycle

\* Once the budget is spent and the site is served nothing is left to do.
CHECK_DEADLOCK FALSE
