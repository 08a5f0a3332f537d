---------------------------- MODULE MCAlertWatcher ----------------------------
(* Instances of AlertWatcher for TLC: the inserts the crawlers may make.   *)
EXTENDS AlertWatcher, TLC

Inserted(coll, identity, document, valid, wanted, secret) ==
    [coll |-> coll, identity |-> identity, document |-> document,
     valid |-> valid, wanted |-> wanted, secret |-> secret]

New     == Inserted("leaked_data", 1, "d1", TRUE, TRUE, FALSE)
Again   == Inserted("leaked_data", 1, "d1", TRUE, FALSE, FALSE)  \* reappears, harmless
Updated == Inserted("leak_history", 2, "d1", TRUE, TRUE, FALSE)
Broken  == Inserted("leak_history", 3, "d1", FALSE, TRUE, FALSE)
Leaking == Inserted("leak_history", 4, "d1", TRUE, TRUE, TRUE)

AllKinds == {New, Again, Updated, Broken, Leaking}
Harmless == {New, Again, Updated, Broken}

=============================================================================
