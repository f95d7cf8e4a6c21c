---------------------------- MODULE MC_AwsLabs ----------------------------
(* Instances of AwsLabs for TLC: the nights of the janitor beside a single *)
(* session, and any number of sessions in an account without a janitor.    *)
EXTENDS AwsLabs

MCInit == Init /\ (nights => Cardinality(wanted) = 1)

MCSpec == MCInit /\ [][Next]_vars /\ Fairness
=============================================================================
