\* Two bridge slots and the task; two samples of grace, three terminals.
CONSTANTS
  Clients = {b1, b2, task}
  Task = task
  Grace = 2
  MaxVisits = 3
SPECIFICATION FairSpec
INVARIANTS TypeOK LeakOnlyFromEarlyClose
PROPERTIES GraceRespected DeadTerminalTold IdleHostAsks
CHECK_DEADLOCK FALSE
