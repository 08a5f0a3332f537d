----------------------------- MODULE MCAuditLog -----------------------------
EXTENDS AuditLog, TLC

CONSTANTS django, retention

\* Someone who has not logged in asks for the list of events.
Stranger == [category |-> "dashboard", authenticated |-> FALSE, staff |-> FALSE,
             safe |-> TRUE, status |-> 200]

TwoWriters == django :> {Visited(Stranger)} @@ retention :> {Retained("error")}

Limited == [c \in Limits |-> IF c = "denied_access" THEN 2 ELSE 1]
=============================================================================
