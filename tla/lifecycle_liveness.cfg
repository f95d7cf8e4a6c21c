\* Two requests at a time; the learner only watches the page.
CONSTANTS
  Procs = {p1, p2}
  Learner = {}
  Triggers = {}
  MaxCrashes = 0
  Faults = {}
SPECIFICATION FairSpec
PROPERTIES ReportedHostLeavesProvisioning
CHECK_DEADLOCK FALSE
