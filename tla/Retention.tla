------------------------------- MODULE Retention -------------------------------
(***************************************************************************)
(* The retention tool (src/governance/retention.py: execute_retention and  *)
(* the queries it builds; src/scripts/apply_retention.py) beside the       *)
(* writers of the three collections it deletes from.                       *)
(*                                                                         *)
(* A run counts what is expired in each collection and then, if asked to   *)
(* apply, deletes it collection by collection, with an audit event after   *)
(* each.  There is no transaction: crawlers and watchers write between any *)
(* two calls, a deletion may fail half way, the process may die, and two   *)
(* runs may overlap.  The time a run compares with is read once.           *)
(*                                                                         *)
(* Time is counted in days.  A timestamp is a day, Missing (absent or      *)
(* null) or Invalid (no date, as the text dates of schema v1 documents).   *)
(***************************************************************************)
EXTENDS Naturals, FiniteSets, Sequences

CONSTANTS
    Runs,       \* executions of the tool
    Ids,        \* documents of a collection
    Days,       \* RetentionRule.days of each collection
    None,       \* no such document
    Missing, Invalid,
    Stored,     \* what the collections may hold at first
    Lag,        \* the days a writer's timestamp may be old when it is written
    MaxFaults,  \* bound: runs that fail or die
    Horizon     \* bound: last day

\* The order of RETENTION_SETTINGS, in which a run takes the collections.
Rules == <<"leaked_data", "leak_history", "alert_log">>
Collections == {Rules[n] : n \in 1 .. 3}

Stamp == Nat \cup {Missing, Invalid}

\* primary and fallback: last_seen and scraped_time, changed_at and nothing,
\* updated_at and created_at.
Document == [primary : Stamp, fallback : Stamp]

ASSUME RetentionAssumption ==
    /\ Days \in [Collections -> Nat \ {0}]
    /\ Missing \notin Nat /\ Invalid \notin Nat /\ Missing # Invalid
    /\ None \notin Document
    /\ Stored \subseteq [Collections -> [Ids -> Document \cup {None}]]
    /\ Lag \in Nat /\ MaxFaults \in Nat /\ Horizon \in Nat
    /\ IsFiniteSet(Ids)

(***************************************************************************)
(* new      not started                     record   emit "deleted"        *)
(* inspect  count a collection              finish   emit the result       *)
(* delete   delete_many                     failed   main emits its error  *)
(* done, dead   returned, or died without another word                     *)
(***************************************************************************)
Phases == {"new", "inspect", "delete", "record", "finish", "failed", "done", "dead"}

Results == {"started", "dry_run", "deleted", "success", "error"}

Event == [result : Results, collection : Collections \cup {None}, count : Nat]

VARIABLES
    clock,   \* today
    store,   \* the three collections
    pc,      \* the phase of each run
    place,   \* the place in Rules of the collection it is at
    now,     \* the day it compares with
    apply,   \* whether it deletes
    report,  \* the documents it counted, per collection
    erased,  \* those it deleted (history; the code has their number)
    audit,   \* the audit events it emitted
    faults   \* faults so far

locals == <<place, now, apply, report>>
vars == <<clock, store, pc, place, now, apply, report, erased, audit, faults>>

TypeOK ==
    /\ clock \in Nat
    /\ store \in [Collections -> [Ids -> Document \cup {None}]]
    /\ pc \in [Runs -> Phases]
    /\ place \in [Runs -> 1 .. 3]
    /\ now \in [Runs -> Nat]
    /\ apply \in [Runs -> BOOLEAN]
    /\ report \in [Runs -> [Collections -> SUBSET Ids]]
    /\ erased \in [Runs -> [Collections -> SUBSET Ids]]
    /\ audit \in [Runs -> Seq(Event)]
    /\ faults \in 0 .. MaxFaults

-----------------------------------------------------------------------------
(* The queries.                                                            *)

timestamp_expression(doc) == IF doc.primary = Missing THEN doc.fallback ELSE doc.primary

Future(stamp, t) == stamp \in Nat /\ stamp > t

\* The "expired" query.  cutoff(rule, now) is the day days before t.
expired(doc, days, t) ==
    LET stamp == timestamp_expression(doc) IN
    /\ stamp \in Nat
    /\ Invalid \notin {doc.primary, doc.fallback}
    /\ ~ Future(doc.primary, t) /\ ~ Future(doc.fallback, t)
    /\ stamp + days < t

Expired(c, t) ==
    {i \in Ids : store[c][i] # None /\ expired(store[c][i], Days[c], t)}

-----------------------------------------------------------------------------
Init ==
    /\ clock = 0
    /\ store \in Stored
    /\ pc = [r \in Runs |-> "new"]
    /\ place = [r \in Runs |-> 1]
    /\ now = [r \in Runs |-> 0]
    /\ apply \in [Runs -> BOOLEAN]
    /\ report = [r \in Runs |-> [c \in Collections |-> {}]]
    /\ erased = [r \in Runs |-> [c \in Collections |-> {}]]
    /\ audit = [r \in Runs |-> <<>>]
    /\ faults = 0

Goto(r, phase) == pc' = [pc EXCEPT ![r] = phase]

emit(r, result, collection, count) ==
    audit' = [audit EXCEPT ![r] = Append(@, [result |-> result, collection |-> collection,
                                             count |-> count])]

Fault == faults < MaxFaults /\ faults' = faults + 1

At(r) == Rules[place[r]]

\* Mutant: the place is moved on after the last collection, too.
NextRuleBeyond(r, phase, last) ==
    /\ place' = [place EXCEPT ![r] = @ + 1]
    /\ Goto(r, IF place[r] < 3 THEN phase ELSE last)

\* On to the next collection, in this phase, or past the last one to another.
NextRule(r, phase, last) ==
    /\ place' = [place EXCEPT ![r] = IF @ < 3 THEN @ + 1 ELSE 1]
    /\ Goto(r, IF place[r] < 3 THEN phase ELSE last)

-----------------------------------------------------------------------------
(* execute_retention.                                                      *)

\* Wrong names or settings: main reports an error, and nothing else happens.
Refuse(r) ==
    /\ pc[r] = "new"
    /\ Goto(r, "done")
    /\ emit(r, "error", None, 0)
    /\ UNCHANGED <<clock, store, locals, erased, faults>>

Start(r) ==
    /\ pc[r] = "new"
    /\ now' = [now EXCEPT ![r] = clock]
    /\ Goto(r, "inspect")
    /\ emit(r, IF apply[r] THEN "started" ELSE "dry_run", None, 0)
    /\ UNCHANGED <<clock, store, place, apply, report, erased, faults>>

inspect_retention(r) ==
    /\ pc[r] = "inspect"
    /\ report' = [report EXCEPT ![r][At(r)] = Expired(At(r), now[r])]
    /\ NextRule(r, "inspect", IF apply[r] THEN "delete" ELSE "finish")
    /\ UNCHANGED <<clock, store, now, apply, erased, audit, faults>>

\* store without the documents gone of the collection run r is at.
Remove(r, gone) ==
    /\ store' = [store EXCEPT ![At(r)] = [i \in Ids |-> IF i \in gone THEN None ELSE @[i]]]
    /\ erased' = [erased EXCEPT ![r][At(r)] = gone]

\* Mutant: what was counted is deleted, by _id.
DeleteCounted(r) ==
    /\ pc[r] = "delete"
    /\ Remove(r, {i \in report[r][At(r)] : store[At(r)][i] # None})
    /\ Goto(r, "record")
    /\ UNCHANGED <<clock, locals, audit, faults>>

\* Mutant: all collections are deleted from before the first event is emitted.
DeleteAllFirst(r) ==
    /\ pc[r] = "delete"
    /\ Remove(r, Expired(At(r), now[r]))
    /\ NextRule(r, "delete", "record")
    /\ UNCHANGED <<clock, now, apply, report, audit, faults>>

Delete(r) ==
    /\ pc[r] = "delete"
    /\ Remove(r, Expired(At(r), now[r]))
    /\ Goto(r, "record")
    /\ UNCHANGED <<clock, locals, audit, faults>>

\* Mutant: the event tells what was counted.
RecordCounted(r) ==
    /\ pc[r] = "record"
    /\ emit(r, "deleted", At(r), Cardinality(report[r][At(r)]))
    /\ NextRule(r, "delete", "finish")
    /\ UNCHANGED <<clock, store, now, apply, report, erased, faults>>

Record(r) ==
    /\ pc[r] = "record"
    /\ emit(r, "deleted", At(r), Cardinality(erased[r][At(r)]))
    /\ NextRule(r, "delete", "finish")
    /\ UNCHANGED <<clock, store, now, apply, report, erased, faults>>

Finish(r) ==
    /\ pc[r] = "finish"
    /\ emit(r, IF apply[r] THEN "success" ELSE "dry_run", None, 0)
    /\ Goto(r, "done")
    /\ UNCHANGED <<clock, store, locals, erased, faults>>

\* An error of the database: of a count, or of a deletion that may have got
\* some of its work done.
Fails(r) ==
    /\ Fault
    /\ \/ pc[r] = "inspect" /\ UNCHANGED <<store, erased>>
       \/ /\ pc[r] = "delete"
          /\ \E gone \in SUBSET Expired(At(r), now[r]) : Remove(r, gone)
    /\ emit(r, "error", None, 0)
    /\ Goto(r, "failed")
    /\ UNCHANGED <<clock, locals>>

\* The exception reaches main, which reports it again.
Report(r) ==
    /\ pc[r] = "failed"
    /\ emit(r, "error", None, 0)
    /\ Goto(r, "done")
    /\ UNCHANGED <<clock, store, locals, erased, faults>>

Dies(r) ==
    /\ pc[r] \notin {"new", "done", "dead"}
    /\ Fault
    /\ Goto(r, "dead")
    /\ UNCHANGED <<clock, store, locals, erased, audit>>

-----------------------------------------------------------------------------
(* The writers, and time.                                                  *)

Put(c, i, doc) == store' = [store EXCEPT ![c][i] = doc]

\* A crawler inserts or updates a document, or inserts a history row; a watcher
\* inserts or updates an alert.  The timestamp was taken some time before.
Write(c, i) ==
    /\ \E stamp \in 0 .. clock :
          /\ stamp + Lag >= clock
          /\ \/ /\ c = "leaked_data"
                /\ Put(c, i, [primary |-> stamp, fallback |-> stamp])
             \/ /\ c = "leak_history" /\ store[c][i] = None
                /\ Put(c, i, [primary |-> stamp, fallback |-> Missing])
             \/ /\ c = "alert_log"
                /\ Put(c, i, [primary |-> stamp,
                              fallback |-> IF store[c][i] = None THEN stamp
                                           ELSE store[c][i].fallback])
    /\ UNCHANGED <<clock, pc, locals, erased, audit, faults>>

Tick ==
    /\ clock < Horizon
    /\ clock' = clock + 1
    /\ UNCHANGED <<store, pc, locals, erased, audit, faults>>

-----------------------------------------------------------------------------
Run(r) ==
    \/ Refuse(r) \/ Start(r) \/ inspect_retention(r) \/ Delete(r) \/ Record(r)
    \/ Finish(r) \/ Report(r)

Next ==
    \/ \E r \in Runs : Run(r) \/ Fails(r) \/ Dies(r)
    \/ \E c \in Collections, i \in Ids : Write(c, i)
    \/ Tick

Spec == Init /\ [][Next]_vars

-----------------------------------------------------------------------------
(* Properties.                                                             *)

\* "A recent concurrent update survives" (retention.py:89-90): a document goes
\* only if, on the day it goes, its timestamp is more than its collection's
\* days old, and none of its timestamps is invalid or yet to come.
RecentSurvives ==
    [][\A c \in Collections, i \in Ids :
          LET doc == store[c][i] IN
          doc # None /\ store'[c][i] = None =>
             /\ timestamp_expression(doc) + Days[c] < clock
             /\ \A stamp \in {doc.primary, doc.fallback} :
                   stamp = Missing \/ (stamp \in Nat /\ stamp <= clock)]_vars

Events(r) == {audit[r][n] : n \in 1 .. Len(audit[r])}
Recorded(r, c) == \E e \in Events(r) : e.result = "deleted" /\ e.collection = c

\* An event "deleted" tells how many documents that deletion removed, whatever
\* was counted before and whoever else writes or deletes (retention.py:94-97).
EventsAreExact ==
    \A r \in Runs : \A e \in Events(r) :
        e.result = "deleted" => e.count = Cardinality(erased[r][e.collection])

\* "Some collections may already have been processed" (apply_retention.py:40):
\* of a run that is cut short at most one deletion is without its event, and
\* that of the collection it was at; a run that reports success has them all.
DeletionsAreRecorded ==
    \A r \in Runs :
        /\ \A c \in Collections :
              erased[r][c] # {} /\ ~ Recorded(r, c) =>
                 c = At(r) /\ pc[r] \in {"record", "failed", "done", "dead"}
        /\ (\E e \in Events(r) : e.result = "success") =>
              \A c \in Collections : Recorded(r, c)

=============================================================================
