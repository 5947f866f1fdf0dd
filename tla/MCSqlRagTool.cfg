SPECIFICATION Spec
CONSTANTS
  s1 = s1
  s2 = s2
  s3 = s3
  s4 = s4
  o1 = o1
  o2 = o2
  o3 = o3
  StepIds <- MCStepIds
  ObligationIds <- MCObligationIds
  MaxRuntimeSteps = 4
  Plans <- MCPlans
  NoPlan = NoPlan
  NoStep = NoStep
  NoChild = NoChild
  NoBundle = NoBundle
  NoResult = NoResult
INVARIANTS
  TypeOK
  RunsInPlanOrder
  FirstFailureStops
  DependenciesSatisfied
  SuccessIsEarned
  FailureReportedAsIs
  StopsForACause
  SuperstepsBounded
PROPERTIES
  ImplementsPlanExecution
