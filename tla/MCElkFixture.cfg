\* Any command of the procedure beside a second writer.
SPECIFICATION FairSpec
CONSTANTS
    r1 = r1
    r2 = r2
    Runs = {r1, r2}
    Jobs <- Procedure
INVARIANTS
    RevisionHasRows
    PassIsTrue
PROPERTIES
    RevisionsInOrder
    EventuallyVerified
