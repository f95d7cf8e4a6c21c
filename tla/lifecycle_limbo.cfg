\* One request at a time; any query may fail, and no AWS call does.
CONSTANTS
  Procs = {p1}
  Learner = {"stop"}
  Triggers = {}
  MaxCrashes = 0
  Faults = {"db"}
SPECIFICATION FairSpec
PROPERTIES NeverInLimbo
CHECK_DEADLOCK FALSE
