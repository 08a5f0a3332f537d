------------------------------ MODULE MCElkSetup ------------------------------
(* Instances of ElkSetup for TLC: who is configured for which database.    *)
EXTENDS ElkSetup, TLC

CONSTANTS s1, s2, d1, d2

AgreeOrNot == {s1 :> d1 @@ s2 :> d1, s1 :> d1 @@ s2 :> d2}
=============================================================================
