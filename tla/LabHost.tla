------------------------------ MODULE LabHost ------------------------------
(***************************************************************************)
(* What the teardown design promises about one lab host, and nothing of    *)
(* how: a host that was launched stays up until somebody may take it down  *)
(* (a stop was asked for, or its lifetime is over), and every host is      *)
(* taken down in the end.  docs/lab-lifecycle-design.md calls this "a hard *)
(* guarantee that nothing runs forever".  SessionLifecycle implements it.  *)
(***************************************************************************)

VARIABLES
  host,   \* the EC2 instance: "none", "up" or "gone"
  due     \* TRUE once the host may be terminated

vars == <<host, due>>

HostStates == {"none", "up", "gone"}

TypeOK == host \in HostStates /\ due \in BOOLEAN

Init == host = "none" /\ due = FALSE

Launch ==
  /\ host = "none"
  /\ host' = "up"
  /\ UNCHANGED due

BecomeDue ==
  /\ ~due
  /\ due' = TRUE
  /\ UNCHANGED host

TakeDown ==
  /\ host = "up"
  /\ due
  /\ host' = "gone"
  /\ UNCHANGED due

Next == Launch \/ BecomeDue \/ TakeDown

(***************************************************************************)
(* A host that is up becomes due (its lifetime is bounded), and a due host *)
(* is taken down.                                                          *)
(***************************************************************************)
Fairness ==
  /\ WF_vars(host = "up" /\ BecomeDue)
  /\ WF_vars(TakeDown)

Safety == Init /\ [][Next]_vars

Spec == Safety /\ Fairness
=============================================================================
