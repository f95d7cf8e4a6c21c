\* One request at a time; the Lambda's callback may be lost.
CONSTANTS
  Procs = {p1}
  Learner = {}
  Triggers = {"schedule", "sweep"}
  MaxCrashes = 0
  Faults = {"net"}
SPECIFICATION FairSpec
PROPERTIES RecordConverges
CHECK_DEADLOCK FALSE
