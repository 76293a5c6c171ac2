SPECIFICATION PlansSpec
CONSTANTS
  PlanCallers = {c1}
  PlanIds = {g1}
  StepCap = 3
  ChainSizes = {3, 4}
  HybridSizes = {2}
  CustomPlans = {}
INVARIANTS
  TruncatedPlanIsSequential
CHECK_DEADLOCK FALSE
