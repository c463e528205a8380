SPECIFICATION Spec

CONSTANTS
  Absent = Absent
  Alien = Alien
  Revs = {r1, r2}
  Sizes = {z1}
  Submitted <- Rejectable
  Preexisting = {"UserSecret", "HPA"}
  Scales <- MCScales
  Passwords <- MCPasswords
  Lag = 1
  Budget <- Toggled
  DatabasePlan <- Nothing
  SitePlan <- SiteOptional

INVARIANTS
  ChildrenConverge
  StatusConverges
  IngressConditionConverges

PROPERTIES
  OnlyOwnDeleted

\* Once the budget is spent and the site is served nothing is left to do.
CHECK_DEADLOCK FALSE
