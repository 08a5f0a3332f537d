------------------------------ MODULE ElkFixture ------------------------------
(***************************************************************************)
(* The end-to-end check of the ELK pipeline (src/elk/e2e.py, verify.py,    *)
(* src/scripts/elk_e2e.py): one synthetic event in a test database, its    *)
(* revisions written to three collections without a transaction, and the   *)
(* copies of them that Monstache makes in Elasticsearch.                   *)
(*                                                                         *)
(* A script run by hand seeds the fixture, brings it to a revision, or     *)
(* reports whether Elasticsearch has all of it.  It may die between two of *)
(* its calls, be run again, and overlap with another; every call is an     *)
(* action.  A history row or alert is its revision: what is in it follows  *)
(* from that, and $setOnInsert never rewrites it.  The indices, mappings   *)
(* and views are there (ElkSetup), or their check is a call that fails.    *)
(***************************************************************************)
EXTENDS Naturals, FiniteSets

CONSTANTS
    Runs,      \* the scripts that may be running at a time
    Jobs       \* the commands each of them may be given

Revisions == 1 .. 3
Job == [command : {"seed", "update", "verify", "check"}, revision : Revisions]

ASSUME FixtureAssumption ==
    /\ Jobs \in [Runs -> SUBSET Job]
    /\ \A r \in Runs : \A j \in Jobs[r] :
          /\ j.command \in {"seed", "check"} => j.revision = 1
          /\ j.command = "update" => j.revision # 1

VARIABLES
    event,    \* observation_count of the event, 0 if there is none
    rows,     \* the other documents in MongoDB: <<kind, revision>>
    copied,   \* the revision of the event that Elasticsearch has, 0 if none
    copies,   \* the other documents Elasticsearch has
    pc,       \* of each run: the call it makes next, or how it ended
    job,      \* of each run: its command
    seen,     \* of each run: the revision, or the count, it has read
    place,    \* of each run: the document or kind it compares
    quiet     \* checks since whose start nobody has written (history)

mongo == <<event, rows>>
elastic == <<copied, copies>>
vars == <<mongo, elastic, pc, job, seen, place, quiet>>

Rows == {"history", "alerts"} \X Revisions
Kinds == <<"events", "history", "alerts">>
Writing == {"insert", "history", "alert", "event"}
Reading == {"look", "find", "get", "count", "compare"}
Ended == {"ended", "checked", "verified"}
NoJob == [command |-> "none", revision |-> 1]
locals == <<pc, job, seen, place>>

TypeOK ==
    /\ event \in 0 .. 3 /\ copied \in 0 .. 3
    /\ rows \subseteq Rows /\ copies \subseteq Rows
    /\ pc \in [Runs -> Writing \cup Reading \cup Ended]
    /\ job \in [Runs -> Job \cup {NoJob}]
    /\ seen \in [Runs -> 0 .. 3]
    /\ place \in [Runs -> 1 .. 7]
    /\ quiet \subseteq Runs

Init ==
    /\ event = 0 /\ rows = {}
    /\ copied = 0 /\ copies = {}
    /\ pc = [r \in Runs |-> "ended"]
    /\ job = [r \in Runs |-> NoJob]
    /\ seen = [r \in Runs |-> 0]
    /\ place = [r \in Runs |-> 1]
    /\ quiet = {}

-----------------------------------------------------------------------------
(* The documents: what the fixture writes, what Monstache's script keeps   *)
(* of it, and what a verification compares.  Redaction leaves the values   *)
(* of the fixture alone.                                                   *)

Private == {"claim_token", "resume_token", "message", "raw_exception"}

Metadata == {"company_name", "company_url", "country", "data_contents", "data_size",
             "publication_date", "description", "source_url"}

Written(kind) ==
    CASE kind = "events" -> Metadata \cup {"_id", "event_key", "source", "identity_basis",
            "first_seen", "last_seen", "scraped_time", "observation_count",
            "content_fingerprint", "schema_version"}
      [] kind = "history" -> {"_id", "event_key", "document_id", "source", "changed_at",
            "schema_version", "changes"}
      [] kind = "alerts" -> Private \cup {"_id", "event_type", "event_key", "document_id",
            "history_id", "source", "actor", "risk_level", "risk_reason", "status",
            "suppression_reason", "attempt_count", "changed_fields", "schema_version",
            "created_at", "updated_at"}

\* Mutant: the time of an alert's last change is not copied.
ProjectionWithoutTime(kind, doc) ==
    (doc \ (Private \cup {"_id", "updated_at"}))

Projection(kind, doc) ==
    LET text == CASE kind = "events" -> Metadata \cup {"source", "event_key",
                        "identity_basis", "content_fingerprint"}
                  [] kind = "history" -> {"event_key", "source"}
                  [] kind = "alerts" -> {"event_type", "event_key", "source", "risk_level",
                        "risk_reason", "actor", "status", "suppression_reason"}
        ids == {"document_id", "history_id"}
        dates == CASE kind = "events" -> {"first_seen", "last_seen", "scraped_time"}
                   [] kind = "history" -> {"changed_at"}
                   [] kind = "alerts" -> {"created_at", "updated_at", "sent_at"}
        integers == {"schema_version", "observation_count", "attempt_count"}
        always == CASE kind = "events" -> {}
                    [] kind = "history" -> {"changes"}
                    [] kind = "alerts" -> {"changed_fields"}
        fallback == IF kind = "events" /\ "scraped_time" \in doc
                      THEN {"first_seen", "last_seen"} ELSE {}
    IN (doc \cap (text \cup ids \cup dates \cup integers)) \cup always \cup fallback

Compared(kind) ==
    CASE kind = "events" -> {"event_key", "data_size", "publication_date", "observation_count",
            "content_fingerprint", "first_seen", "last_seen", "scraped_time"}
      [] kind = "history" -> {"event_key", "document_id", "changes", "changed_at"}
      [] kind = "alerts" -> {"event_key", "document_id", "history_id", "status", "risk_level",
            "changed_fields", "created_at", "updated_at"}

\* A copy of the document it was made of passes the comparison of verify_once.
Faithful == [kind \in {"events", "history", "alerts"} |->
    LET copy == Projection(kind, Written(kind))
    IN /\ Compared(kind) \cap Written(kind) \subseteq copy
       /\ "_id" \notin copy /\ copy \cap Private = {}]

-----------------------------------------------------------------------------
\* On to a phase with these locals; a run that has ended has none.
Go(r, phase, value, at) ==
    /\ pc' = [pc EXCEPT ![r] = phase]
    /\ job' = [job EXCEPT ![r] = IF phase = "ended" THEN NoJob ELSE job[r]]
    /\ seen' = [seen EXCEPT ![r] = IF phase \in Ended THEN 0 ELSE value]
    /\ place' = [place EXCEPT ![r] = IF phase \in Ended THEN 1 ELSE at]

Goto(r, phase) == Go(r, phase, seen[r], place[r])

Wrote == quiet' = {}

Start(r, j) ==
    /\ pc[r] \in Ended
    /\ pc' = [pc EXCEPT ![r] = CASE j.command = "seed" -> "insert"
                                 [] j.command = "check" -> "count"
                                 [] OTHER -> "look"]
    /\ job' = [job EXCEPT ![r] = j]
    /\ quiet' = IF j.command = "check" THEN quiet \cup {r} ELSE quiet \ {r}
    /\ UNCHANGED <<mongo, elastic, seen, place>>

SeedEvent(r) ==
    /\ pc[r] = "insert"
    /\ event' = IF event = 0 THEN 1 ELSE event
    /\ Goto(r, "look")
    /\ Wrote
    /\ UNCHANGED <<rows, elastic>>

\* current, and what each command asks of the revision it finds.
Acceptable(j) ==
    CASE j.command = "seed" -> {1}
      [] j.command = "update" -> {j.revision - 1, j.revision}
      [] j.command = "verify" -> {j.revision}

\* Mutant: an update brings the event to its revision before it writes the rows.
AfterEventFirst(r, phase) ==
    CASE phase = "look" -> IF job[r].command = "update" /\ event = job[r].revision - 1
                             THEN "event" ELSE "history"
      [] phase = "event" -> "history"
      [] phase = "history" -> "alert"
      [] phase = "alert" -> "ended"

\* The writes of seed and update, in their order; the event is written last,
\* and only if it was found at the revision before.
After(r, phase) ==
    CASE phase = "look" -> "history"
      [] phase = "history" -> "alert"
      [] phase = "alert" -> IF seen[r] = job[r].revision - 1 THEN "event" ELSE "ended"
      [] phase = "event" -> "ended"

\* Before its deadline a verification waits and looks again (wait_until).
LookCurrent(r) ==
    /\ pc[r] = "look"
    /\ \/ /\ event \in Acceptable(job[r])
          /\ Go(r, IF job[r].command = "verify" THEN "find" ELSE After(r, "look"), event, 1)
       \/ event \notin Acceptable(job[r]) /\ job[r].command = "verify" /\ UNCHANGED locals
       \/ event \notin Acceptable(job[r]) /\ Goto(r, "ended")
    /\ UNCHANGED <<mongo, elastic, quiet>>

PutHistory(r) ==
    /\ pc[r] = "history"
    /\ rows' = rows \cup {<<"history", job[r].revision>>}
    /\ Goto(r, After(r, "history"))
    /\ Wrote
    /\ UNCHANGED <<event, elastic>>

PutAlert(r) ==
    /\ pc[r] = "alert"
    /\ rows' = rows \cup {<<"alerts", job[r].revision>>}
    /\ Goto(r, After(r, "alert"))
    /\ Wrote
    /\ UNCHANGED <<event, elastic>>

\* Mutant: the update matches the event by its _id alone.
PutEventAnyway(r) ==
    /\ pc[r] = "event"
    /\ event' = job[r].revision
    /\ Goto(r, After(r, "event"))
    /\ Wrote
    /\ UNCHANGED <<rows, elastic>>

\* The update matches the event only as it was read: else a concurrent update.
PutEvent(r) ==
    /\ pc[r] = "event"
    /\ \/ event = seen[r] /\ event' = job[r].revision /\ Wrote /\ Goto(r, After(r, "event"))
       \/ event # seen[r] /\ Goto(r, "ended") /\ UNCHANGED <<event, quiet>>
    /\ UNCHANGED <<rows, elastic>>

-----------------------------------------------------------------------------
(* verify_once: the documents one after the other, each in MongoDB and     *)
(* then in Elasticsearch.                                                  *)

Row(p) == <<IF p % 2 = 0 THEN "history" ELSE "alerts", p \div 2>>

\* A failed comparison: from the start again, or FAIL after the deadline.
Mismatch(r, start) ==
    /\ \/ Go(r, start, 0, 1) /\ quiet' = IF start = "count" THEN quiet \cup {r} ELSE quiet
       \/ Goto(r, "ended") /\ quiet' = quiet \ {r}

FindEvent(r) ==
    /\ pc[r] = "find"
    /\ Go(r, "get", event, 1)
    /\ UNCHANGED <<mongo, elastic, quiet>>

\* A row never changes, so that its two reads are one step.
Matches(r) ==
    IF place[r] = 1 THEN copied = seen[r] /\ Faithful["events"]
                    ELSE Row(place[r]) \in rows \cap copies /\ Faithful[Row(place[r])[1]]

\* Mutant: the alert of the last revision is not compared.
GetAllButLast(r) ==
    /\ pc[r] = "get"
    /\ \/ /\ Matches(r) /\ place[r] < 2 * job[r].revision
          /\ Go(r, "get", 0, place[r] + 1)
          /\ UNCHANGED quiet
       \/ /\ Matches(r) /\ place[r] = 2 * job[r].revision
          /\ Goto(r, "verified")
          /\ UNCHANGED quiet
       \/ ~ Matches(r) /\ Mismatch(r, "look")
    /\ UNCHANGED <<mongo, elastic>>

GetDocument(r) ==
    /\ pc[r] = "get"
    /\ \/ /\ Matches(r) /\ place[r] <= 2 * job[r].revision
          /\ Go(r, "get", 0, place[r] + 1)
          /\ UNCHANGED quiet
       \/ /\ Matches(r) /\ place[r] = 2 * job[r].revision + 1
          /\ Goto(r, "verified")
          /\ UNCHANGED quiet
       \/ ~ Matches(r) /\ Mismatch(r, "look")
    /\ UNCHANGED <<mongo, elastic>>

-----------------------------------------------------------------------------
(* check_once: of each collection the number of documents in MongoDB, and  *)
(* then in Elasticsearch.                                                  *)

Count(kind, one, others) ==
    IF kind = "events" THEN IF one = 0 THEN 0 ELSE 1
                       ELSE Cardinality({d \in others : d[1] = kind})

CountMongo(r) ==
    /\ pc[r] = "count"
    /\ Go(r, "compare", Count(Kinds[place[r]], event, rows), place[r])
    /\ UNCHANGED <<mongo, elastic, quiet>>

CompareCount(r) ==
    /\ pc[r] = "compare"
    /\ LET equal == Count(Kinds[place[r]], copied, copies) = seen[r]
       IN \/ equal /\ place[r] < 3 /\ Go(r, "count", 0, place[r] + 1) /\ UNCHANGED quiet
          \/ equal /\ place[r] = 3 /\ Goto(r, "checked") /\ UNCHANGED quiet
          \/ ~ equal /\ Mismatch(r, "count")
    /\ UNCHANGED <<mongo, elastic>>

-----------------------------------------------------------------------------
\* A call raises, or the process dies; what was written stays.
Fails(r) ==
    /\ pc[r] \notin Ended
    /\ Goto(r, "ended")
    /\ quiet' = quiet \ {r}
    /\ UNCHANGED <<mongo, elastic>>

\* Monstache copies the event as one of its changes left it, in their order,
\* and other documents in any order.
CopyEvent ==
    /\ \E e \in 1 .. event : e > copied /\ copied' = e
    /\ UNCHANGED <<mongo, copies, locals, quiet>>

CopyRow ==
    /\ \E d \in rows \ copies : copies' = copies \cup {d}
    /\ UNCHANGED <<mongo, copied, locals, quiet>>

Step(r) ==
    \/ SeedEvent(r) \/ LookCurrent(r)
    \/ PutHistory(r) \/ PutAlert(r) \/ PutEvent(r)
    \/ FindEvent(r) \/ GetDocument(r)
    \/ CountMongo(r) \/ CompareCount(r)

Next ==
    \/ \E r \in Runs : Step(r) \/ Fails(r) \/ \E j \in Jobs[r] : Start(r, j)
    \/ CopyEvent \/ CopyRow

Spec == Init /\ [][Next]_vars

\* The command of the procedure (elk/operations.md) that the fixture is due for.
Due(j) ==
    IF event < 3 THEN j.command = "update" /\ j.revision = event + 1
                 ELSE j.command = "verify" /\ j.revision = 3

StartDue(r) == \E j \in Jobs[r] : Due(j) /\ Start(r, j)

\* The runs of whoever follows the procedure to its end; others may do as they like.
Following == {r \in Runs : [command |-> "verify", revision |-> 3] \in Jobs[r]}

Fairness ==
    /\ \A r \in Following : WF_vars(Step(r)) /\ SF_vars(StartDue(r))
    /\ WF_vars(CopyEvent \/ CopyRow)
    /\ <>[][~ \E r \in Following : Fails(r)]_vars

FairSpec == Spec /\ Fairness

-----------------------------------------------------------------------------
\* A revision of the event has its history row and its alert, whoever wrote it
\* and wherever a run died: the rows come before the event (e2e.py:92-99).  It
\* is not so of the first, whose event comes first (e2e.py:51-68).
RevisionHasRows ==
    \A k \in 2 .. event : {<<"history", k>>, <<"alerts", k>>} \subseteq rows

\* Whatever updates overlap, the event goes from one revision to the next, and
\* never back or past one (the filter of e2e.py:96).
RevisionsInOrder == [][event' \in {event, event + 1}]_vars

\* After PASS of verify, Elasticsearch has a copy of all documents up to the
\* revision, although they were read one by one beside updates and Monstache
\* (e2e.py:119-154).  After PASS of the pipeline check, which compares counts
\* only (verify.py:14-24), it has all documents if nobody wrote meanwhile.
PassIsTrue ==
    /\ \A r \in Runs : pc[r] = "verified" =>
          /\ copied >= job[r].revision
          /\ {"history", "alerts"} \X (1 .. job[r].revision) \subseteq copies
    /\ \A r \in quiet : pc[r] = "checked" => copies = rows /\ (copied = 0 <=> event = 0)

\* Once seeded, the fixture is brought to its last revision and verified there,
\* wherever earlier runs died or met each other, if the next command is run
\* again and again (elk/operations.md, steps 5 and 6).
Seeded == event >= 1 /\ {<<"history", 1>>, <<"alerts", 1>>} \subseteq rows

EventuallyVerified == Seeded ~> \E r \in Runs : pc[r] = "verified" /\ job[r].revision = 3
===============================================================================
