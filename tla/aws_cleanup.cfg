\* One session, whose learner creates the alarm the lab asks for.
CONSTANTS
  Resources = {"group", "alarm", "role"}
  Kept = {}
  MaxRenewals = 0
  Sessions = {s1}
  Cap = 1
SPECIFICATION MCSpec
PROPERTY ExpiredAreCleaned
CHECK_DEADLOCK FALSE
