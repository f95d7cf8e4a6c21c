\* Two requests at a time over one row, every failure of a query, an AWS call
\* or a callback.
CONSTANTS
  Procs = {p1, p2}
  Learner = {"stop", "grade"}
  Triggers = {}
  MaxCrashes = 0
  Faults = {"db", "aws", "net"}
SPECIFICATION Spec
SYMMETRY Symmetry
INVARIANTS TypeOK ProbeExclusive AdmittedBeforeStop ReadyWasProbed
PROPERTIES StopUndoneOnlyByOverlap IdKeptOnceSettled
CHECK_DEADLOCK FALSE
