---------------------------- MODULE MCElkFixture ----------------------------
EXTENDS ElkFixture

CONSTANTS r1, r2

Command(c, v) == [command |-> c, revision |-> v]

Procedure ==
    [r \in Runs |->
        IF r = r1 THEN {Command("seed", 1), Command("update", 2), Command("update", 3),
                        Command("verify", 3), Command("check", 1)}
                  ELSE {Command("update", 2)}]
=============================================================================
