\* Two POSTs at a time against a cap of one; a bucket and a role behind the
\* alarm and a security group that is in use.
CONSTANTS
  Resources = {"data_bucket", "group", "alarm", "role"}
  Kept = {"group"}
  MaxRenewals = 1
  Sessions = {s1, s2}
  Cap = 1
SPECIFICATION MCSpec
INVARIANTS TypeOK CapHolds
PROPERTIES HostOnlyForPrepared SlotComesBack LiveGoesOnlyByStaleTags CleanedUnlessBehindAlarm
CHECK_DEADLOCK FALSE
