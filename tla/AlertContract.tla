----------------------------- MODULE AlertContract -----------------------------
(***************************************************************************)
(* What delivery promises for each alert, with no processes, leases or     *)
(* clock in it: the alert is tried at most Budget times, whatever the      *)
(* recipient receives stems from a try, it is reported done only after it  *)
(* was received and given up only after the whole budget was spent, and    *)
(* both verdicts are final.  It is not exactly once: what was tried may be *)
(* received late, also after the verdict (src/alert/service.py:1-5).       *)
(***************************************************************************)
EXTENDS Naturals

CONSTANTS
    Alerts,   \* identities of alerts
    Budget    \* tries per alert

VARIABLES
    verdict,  \* none, wanted, unwanted, done, given_up
    tries,    \* tries made so far
    received  \* the tries whose message was received

vars == <<verdict, tries, received>>

Init ==
    /\ verdict = [a \in Alerts |-> "none"]
    /\ tries = [a \in Alerts |-> 0]
    /\ received = [a \in Alerts |-> {}]

\* The policy wants the alert sent, or not.
Decide(a) ==
    /\ verdict[a] = "none"
    /\ \E v \in {"wanted", "unwanted"} : verdict' = [verdict EXCEPT ![a] = v]
    /\ UNCHANGED <<tries, received>>

Try(a) ==
    /\ verdict[a] = "wanted" /\ tries[a] < Budget
    /\ tries' = [tries EXCEPT ![a] = @ + 1]
    /\ UNCHANGED <<verdict, received>>

Receive(a) ==
    /\ \E n \in (1 .. tries[a]) \ received[a] :
          received' = [received EXCEPT ![a] = @ \cup {n}]
    /\ UNCHANGED <<verdict, tries>>

Finish(a) ==
    /\ verdict[a] = "wanted" /\ received[a] # {}
    /\ verdict' = [verdict EXCEPT ![a] = "done"]
    /\ UNCHANGED <<tries, received>>

GiveUp(a) ==
    /\ verdict[a] = "wanted" /\ tries[a] = Budget
    /\ verdict' = [verdict EXCEPT ![a] = "given_up"]
    /\ UNCHANGED <<tries, received>>

Next == \E a \in Alerts : Decide(a) \/ Try(a) \/ Receive(a) \/ Finish(a) \/ GiveUp(a)

Spec == Init /\ [][Next]_vars
=============================================================================
