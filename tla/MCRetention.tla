------------------------------ MODULE MCRetention ------------------------------
(* Instances of Retention for TLC: what the collections hold at first.     *)
EXTENDS Retention, TLC

Symmetry == Permutations(Runs)

At0(primary, fallback) == [primary |-> primary, fallback |-> fallback]

ShortRules == [c \in Collections |-> 1]

\* The event: none, a v1 document with a date or a text, one that was updated
\* since, and one stamped by a clock that runs ahead.
FirstStored ==
    {[c \in Collections |->
        [i \in Ids |-> CASE c = "leaked_data"  -> current
                         [] c = "leak_history" -> At0(0, Missing)
                         [] c = "alert_log"    -> At0(Missing, 0)]] :
       current \in {None, At0(Missing, 0), At0(Missing, Invalid), At0(0, Invalid),
                    At0(Invalid, 0), At0(0, 3)}}
=============================================================================
