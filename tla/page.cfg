\* One page over two stream slots, and a second report of the boot; one fault: a
\* broken connection, a lost request, a reload, a rejected write or the end of
\* the token's time.
CONSTANTS
  Streams = {s1, s2}
  Practice = TRUE
  MaxLag = 2
  MaxLog = 2
  MaxFaults = 1
SPECIFICATION MCSpec
INVARIANTS TypeOK StepsTellTruth ReadyNotInvented
PROPERTIES CutOffOnlyByStaleRelease BlankOnlyByRefusal ReadyLabIsShown StopIsTold
CHECK_DEADLOCK FALSE
