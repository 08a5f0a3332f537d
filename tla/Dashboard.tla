------------------------------ MODULE Dashboard ------------------------------
(***************************************************************************)
(* The analyst's pages (src/DjangoProject/mongoDbConnect/dashboard.py and  *)
(* views.py) beside the crawlers and the retention that write what they    *)
(* show: a walk through the pages of the list, by next_url, and the page   *)
(* of one event.  A page is a few queries, each of its own moment.         *)
(*                                                                         *)
(* A document is a number, its _id, and has what the search and the risk   *)
(* rules (src/alert/risk.py) tell apart.  A history row is the metadata    *)
(* before and after a change, which is also its identity; there is one     *)
(* crawl of a document at a time, as the scheduler has it.                 *)
(***************************************************************************)
EXTENDS Naturals, FiniteSets, Sequences, FiniteSetsExt

CONSTANTS
    Docs,          \* documents there may ever be
    Times,         \* values of last_seen
    Stored,        \* the last_seen of those there are at first
    Opened,        \* those whose page is opened
    Contents,      \* what a document may hold: a set of features
    Risk,          \* the filter's level, or "" for all
    PageSize, MaxScan, HistoryLimit,   \* of dashboard.py
    MaxWrites      \* bound: writes to the database

Features == {"found",   \* by the search, the source and the dates of the filter
             "critical_words", "korea", "tier1", "tier2",
             "high_words", "terabytes", "korean_company", "korean_mention"}

Levels == {"INFO", "LOW", "MEDIUM", "HIGH", "CRITICAL"}

ASSUME DashboardAssumption ==
    /\ Docs \subseteq Nat /\ Times \subseteq Nat
    /\ DOMAIN Stored \subseteq Docs /\ IsFiniteSet(DOMAIN Stored)
    /\ \A d \in DOMAIN Stored : Stored[d] \in Times
    /\ Opened \subseteq Docs /\ Opened # {}
    /\ PageSize \in Nat \ {0} /\ MaxScan \in Nat \ {0} /\ HistoryLimit \in Nat \ {0}
    /\ MaxWrites \in Nat

ASSUME FilterAssumption ==
    /\ Contents \subseteq SUBSET Features
    /\ Risk \in Levels \cup {""}

VARIABLES
    leaked_data,   \* the documents: what each holds, and its last_seen
    past,          \* of each document: the changes it has gone through (history)
    leak_history,  \* of each document: its history rows
    purged,        \* of each document: those that retention has deleted (history)
    writes,        \* writes so far
    next,          \* the page of next_url, 0 for none
    shown,         \* the documents the walk has shown
    walk,          \* "none", "on", "ended", or "failed"
    wanted,        \* the rows at its start, not observed since (history)
    upset,         \* a row has left, or has moved back, meanwhile (history)
    cut,           \* a page has said that there are more than MaxScan
    step,          \* of the event's page: the query that is next, 0 for none
    event, past_shown, history_shown, more   \* what is on that page

db == <<leaked_data, past, leak_history, purged, writes>>
list == <<next, shown, walk, wanted, upset, cut>>
detail == <<step, event, past_shown, history_shown, more>>
dashboard == <<db, list, detail>>

Metadata(doc) == doc \ {"found"}
Change == {<<Metadata(c), Metadata(d)>> : c, d \in Contents}

DashboardTypeOK ==
    /\ DOMAIN leaked_data \subseteq Docs
    /\ \A d \in DOMAIN leaked_data : leaked_data[d] \in [content : Contents, last_seen : Times]
    /\ past \in [Docs -> SUBSET Change] /\ purged \in [Docs -> SUBSET Change]
    /\ leak_history \in [Docs -> SUBSET Change]
    /\ writes \in Nat /\ next \in Nat
    /\ shown \subseteq Docs /\ wanted \subseteq Docs
    /\ walk \in {"none", "on", "ended", "failed"}
    /\ upset \in BOOLEAN /\ cut \in BOOLEAN /\ more \in BOOLEAN
    /\ step \in 0 .. 4 /\ event \in Opened
    /\ past_shown \subseteq Change /\ history_shown \subseteq Change

DashboardInit ==
    /\ \E contents \in [DOMAIN Stored -> Contents] :
          leaked_data = [d \in DOMAIN Stored |->
                            [content |-> contents[d], last_seen |-> Stored[d]]]
    /\ past = [d \in Docs |-> {}]
    /\ leak_history = [d \in Docs |-> {}] /\ purged = [d \in Docs |-> {}]
    /\ writes = 0
    /\ next = 0 /\ shown = {} /\ walk = "none" /\ wanted = {}
    /\ upset = FALSE /\ cut = FALSE
    /\ step = 0 /\ event \in Opened
    /\ past_shown = {} /\ history_shown = {} /\ more = FALSE

-----------------------------------------------------------------------------
(* The list.                                                               *)

\* The rules of classify_risk in their order; the first that applies decides.
Rules == <<<<"critical_words", "CRITICAL">>, <<"korea", "CRITICAL">>, <<"tier1", "CRITICAL">>,
           <<"tier2", "CRITICAL">>, <<"high_words", "HIGH">>, <<"terabytes", "HIGH">>,
           <<"korean_company", "MEDIUM">>, <<"korean_mention", "LOW">>>>

Classify(doc) ==
    LET applying == {i \in DOMAIN Rules : Rules[i][1] \in doc}
    IN IF applying = {} THEN "INFO" ELSE Rules[Min(applying)][2]

\* What passes the filter of the level.
AtLevel == {doc \in Contents : Risk \in {"", Classify(doc)}}

Matches(doc) == "found" \in doc

IsRow(doc) == Matches(doc) /\ doc \in AtLevel

Candidates == {d \in DOMAIN leaked_data : Matches(leaked_data[d].content)}

\* Documents are sorted by last_seen, the latest first, and then by _id.
Newer(d, e) ==
    LET t == leaked_data[d].last_seen
        u == leaked_data[e].last_seen
    IN t > u \/ (t = u /\ d > e)

\* How many of these documents come before d.
Rank(docs, d) == Cardinality({e \in docs : Newer(e, d)})

\* Those of the latest MaxScan candidates that have the level of the filter.
Rows == {d \in Candidates : Rank(Candidates, d) < MaxScan /\ IsRow(leaked_data[d].content)}

\* Mutant: the number of pages is rounded down.
FullPages(rows) == IF rows < PageSize THEN 1 ELSE rows \div PageSize

Pages(rows) == IF rows = 0 THEN 1 ELSE (rows + PageSize - 1) \div PageSize

Paginate(rows, asked) ==
    LET pages == Pages(Cardinality(rows))
        page == IF asked <= pages THEN asked ELSE 1
        start == (page - 1) * PageSize
    IN [data_list |-> {d \in rows : Rank(rows, d) \in start .. start + PageSize - 1},
        next |-> IF page < pages THEN page + 1 ELSE 0]

\* One page of the list; its counts and its sources are queries nothing rests on.
Fetch(asked, already) ==
    LET page == Paginate(Rows, asked)
    IN /\ shown' = already \cup page.data_list
       /\ next' = page.next
       /\ walk' = IF page.next = 0 THEN "ended" ELSE "on"

\* candidate_truncated.
TooMany == Cardinality(Candidates) > MaxScan

\* Every row, were there no limit.
AllRows == {d \in DOMAIN leaked_data : IsRow(leaked_data[d].content)}

OpenList ==
    /\ Fetch(1, {})
    /\ wanted' = AllRows
    /\ upset' = FALSE
    /\ cut' = TooMany
    /\ UNCHANGED <<db, detail>>

FollowNext ==
    /\ walk = "on"
    /\ Fetch(next, shown)
    /\ cut' = (cut \/ TooMany)
    /\ UNCHANGED <<db, wanted, upset, detail>>

\* A page without rows that says the database could not be read.
Unavailable ==
    /\ walk = "on"
    /\ walk' = "failed" /\ next' = 0
    /\ UNCHANGED <<db, shown, wanted, upset, cut, detail>>

-----------------------------------------------------------------------------
(* The page of an event.                                                   *)

\* Mutant: the history is read first.
HistoryFirst == <<"leak_history", "leaked_data", "alert_log">>

Queries == <<"leaked_data", "leak_history", "alert_log">>

\* An event that is not there ends in a 404.
FindDocument ==
    /\ Queries[step] = "leaked_data"
    /\ IF event \in DOMAIN leaked_data
         THEN step' = step + 1 /\ past_shown' = past[event]
         ELSE step' = 0 /\ past_shown' = {}
    /\ UNCHANGED <<history_shown, more>>

\* The first HistoryLimit rows; the order of the rows is left open.
FindHistory ==
    LET rows == leak_history[event] IN
    /\ Queries[step] = "leak_history"
    /\ more' = (Cardinality(rows) > HistoryLimit)
    /\ IF more' THEN \E limited \in SUBSET rows : /\ Cardinality(limited) = HistoryLimit
                                                /\ history_shown' = limited
                ELSE history_shown' = rows
    /\ step' = step + 1
    /\ UNCHANGED past_shown

FindAlerts ==
    /\ Queries[step] = "alert_log"
    /\ step' = step + 1
    /\ UNCHANGED <<past_shown, history_shown, more>>

Query ==
    /\ step \in 1 .. 3
    /\ FindDocument \/ FindHistory \/ FindAlerts
    /\ UNCHANGED <<db, list, event>>

OpenEvent(d) ==
    /\ d \in Opened /\ step \in {0, 4}
    /\ step' = 1 /\ event' = d
    /\ past_shown' = {} /\ history_shown' = {} /\ more' = FALSE
    /\ UNCHANGED <<db, list>>

-----------------------------------------------------------------------------
(* The writers: save_records of a crawl, and retention.                    *)

Writes == writes < MaxWrites /\ writes' = writes + 1

\* What a walk may not see of a document that was written.
Disturbs(d, row_lost) ==
    /\ wanted' = wanted \ {d}
    /\ upset' = (upset \/ (walk = "on" /\ row_lost))
    /\ UNCHANGED <<next, shown, walk, cut>>

Put(d, content, time) ==
    leaked_data' = [e \in DOMAIN leaked_data \cup {d} |->
        IF e = d THEN [content |-> content, last_seen |-> time] ELSE leaked_data[e]]

\* A document that was deleted may be inserted anew, under its _id.
Insert(d) ==
    /\ d \notin DOMAIN leaked_data
    /\ \E c \in Contents, t \in Times : Put(d, c, t)
    /\ past' = [past EXCEPT ![d] = {}]
    /\ Writes /\ Disturbs(d, FALSE)
    /\ UNCHANGED <<leak_history, purged, detail>>

\* The change of document d to content c.
ChangeTo(d, c) == <<Metadata(leaked_data[d].content), Metadata(c)>>

\* A change is recorded, unless it is recorded already, before it is made; the
\* crawl may die in between.
PutHistory(d) ==
    /\ d \in DOMAIN leaked_data
    /\ \E c \in Contents :
          /\ ChangeTo(d, c)[1] # ChangeTo(d, c)[2] /\ ChangeTo(d, c) \notin leak_history[d]
          /\ leak_history' = [leak_history EXCEPT ![d] = @ \cup {ChangeTo(d, c)}]
    /\ Writes
    /\ UNCHANGED <<leaked_data, past, purged, list, detail>>

\* The document is observed again, changed or not; last_seen is the time of the
\* crawl, which goes back with its clock.
Observe(d) ==
    /\ d \in DOMAIN leaked_data
    /\ \E c \in Contents, t \in Times :
          /\ \/ /\ Metadata(leaked_data[d].content) = Metadata(c)
                /\ UNCHANGED past
             \/ /\ Metadata(leaked_data[d].content) # Metadata(c)
                /\ ChangeTo(d, c) \in leak_history[d] \cup purged[d]
                /\ past' = [past EXCEPT ![d] = @ \cup {ChangeTo(d, c)}]
          /\ Put(d, c, t)
          /\ Disturbs(d, /\ IsRow(leaked_data[d].content)
                         /\ ~ IsRow(c) \/ t < leaked_data[d].last_seen)
    /\ Writes
    /\ UNCHANGED <<leak_history, purged, detail>>

Expire(d) ==
    /\ d \in DOMAIN leaked_data
    /\ leaked_data' = [e \in DOMAIN leaked_data \ {d} |-> leaked_data[e]]
    /\ Writes /\ Disturbs(d, IsRow(leaked_data[d].content))
    /\ UNCHANGED <<past, leak_history, purged, detail>>

ExpireHistory(d) ==
    /\ \E old \in SUBSET leak_history[d] \ {{}} :
          /\ leak_history' = [leak_history EXCEPT ![d] = @ \ old]
          /\ purged' = [purged EXCEPT ![d] = @ \cup old]
    /\ Writes
    /\ UNCHANGED <<leaked_data, past, list, detail>>

Writer(d) == Insert(d) \/ PutHistory(d) \/ Observe(d) \/ Expire(d) \/ ExpireHistory(d)

DashboardNext ==
    \/ OpenList \/ FollowNext \/ Unavailable
    \/ Query
    \/ \E d \in Docs : OpenEvent(d) \/ Writer(d)

DashboardSpec == DashboardInit /\ [][DashboardNext]_dashboard

-----------------------------------------------------------------------------
\* Whoever follows next_url from the first page to the last has seen every row
\* that was there all the time: a crawl may insert rows, move them to the front
\* and so shift the pages, but a row is passed over only if one has left or has
\* moved back, or if a page said that there are more than MaxScan candidates
\* (dashboard.py:117-132, 218-227, 252-259).
WalkMissesNothing == walk = "ended" /\ ~ upset /\ ~ cut => wanted \subseteq shown

\* The page of an event explains what it shows: its history, read after the
\* document, has a row of every change the document has gone through, but for
\* those that retention has deleted or that history_more announces
\* (dashboard.py:306-321; written the other way round, storage.py:192-204).
ChangesAreExplained ==
    step = 4 /\ ~ more => past_shown \subseteq history_shown \cup purged[event]
===============================================================================
