\* All twenty lanterns and three crates, worked one lantern ahead at most;
\* one slip of the operator and one restart of the container.
CONSTANTS
  Crates = {"v2", "v21", "shiny"}
  Ahead = 1
  MaxSlips = 1
  MaxReboots = 1
SPECIFICATION FairSpec
INVARIANTS TypeOK DawnHasSeenBoth DebugStaysGone SquatterStaysGone
  DawnWithoutDebug
PROPERTIES HandoverSurvivesReboot ApiComesUp
CHECK_DEADLOCK FALSE
