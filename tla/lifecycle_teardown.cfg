\* One request at a time beside the schedule, the sweep and two replacements
\* of the web task; every failure.  Fairness of time and of the sweep only.
CONSTANTS
  Procs = {p1}
  Learner = {"stop", "grade"}
  Triggers = {"schedule", "sweep"}
  MaxCrashes = 2
  Faults = {"db", "aws", "lambda", "net"}
SPECIFICATION SweepSpec
INVARIANTS NotifiedOnlyAfterGone
PROPERTIES TeardownSafety TeardownPromise
CHECK_DEADLOCK FALSE
