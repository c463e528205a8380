SPECIFICATION Spec

CONSTANTS
  Nil = Nil
  Words <- MCWords
  Submitted <- MCSubmitted
  Revised <- MCRevised

INVARIANTS
  FinalizerAdmitted
  DefaultsAgree
  AcceptedIsBuildable
  ReferencesResolve
  ServicesReachOwnPods
  NamesDistinct
  AgreesWithController
