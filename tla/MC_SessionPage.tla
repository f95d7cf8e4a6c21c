--------------------------- MODULE MC_SessionPage ---------------------------
(* Instances of SessionPage for TLC: the host has reported once by the time *)
(* the POST answers, so that the next report ticks a step and the log has a *)
(* line before it to replay.                                                *)
EXTENDS SessionPage

MCInit == Init /\ log = 1

MCSpec == MCInit /\ [][Next]_vars /\ Fairness
=============================================================================
