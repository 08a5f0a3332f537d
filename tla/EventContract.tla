---------------------------- MODULE EventContract ----------------------------
(***************************************************************************)
(* What storage promises for the events of a source, with no crawlers, no  *)
(* searches, keys or failures in it: a change is announced by a row of the *)
(* history before it is made, one change at a time; it is made as it was   *)
(* announced, to the content it was announced for, or given up; every      *)
(* content can be traced to one that was added, along rows that were       *)
(* announced; an event or a row goes only when it is removed as such, each *)
(* without the other (src/crawling/storage.py:1-5, 185-206,                *)
(* src/governance/retention.py:92-95).                                     *)
(***************************************************************************)
CONSTANTS
    Events,    \* identities of stored events
    Contents,  \* what is known of an event
    Merges     \* pairs of contents: the first may become the second

VARIABLES
    current,   \* of each event there is: its content
    added,     \* the contents that events were added with
    announced, \* the changes announced so far
    rows,      \* the history: those of them whose row has not been removed
    underway   \* the change that is announced and not yet made: one at most

vars == <<current, added, announced, rows, underway>>

Traced(content) == content \in added \/ \E row \in announced : row.after = content

Init ==
    /\ \E old \in SUBSET Events : current \in [old -> Contents]
    /\ added = {current[e] : e \in DOMAIN current}
    /\ announced = {} /\ rows = {} /\ underway = {}

Add(e) ==
    /\ e \notin DOMAIN current
    /\ \E content \in Contents \cap added' :
          /\ added' = added \cup {content}
          /\ current' = [f \in DOMAIN current \cup {e} |-> IF f = e THEN content ELSE current[f]]
    /\ UNCHANGED <<announced, rows, underway>>

\* The change of event e, to be made next, is what a row tells: the contents before
\* and after it, and what the row is filed under, which is left open.  The event may
\* be gone, for all that is known of it.
Begin(e, row) ==
    /\ underway = {}
    /\ underway' = {[event |-> e, row |-> row]}
    /\ row.before # row.after /\ <<row.before, row.after>> \in Merges
    /\ Traced(row.before)
    /\ e \in DOMAIN current => current[e] = row.before
    /\ UNCHANGED <<current, added>>

Announce(e) ==
    \E row \in rows' \ rows :
        /\ Begin(e, row)
        /\ announced' = announced \cup {row} /\ rows' = rows \cup {row}

\* A change whose row is there already, since it was announced before and given up, or
\* was made before and undone, has no row of its own.
Repeat(e) ==
    \E row \in rows : Begin(e, row) /\ UNCHANGED <<announced, rows>>

Change ==
    \E change \in underway :
        /\ change.event \in DOMAIN current /\ current[change.event] = change.row.before
        /\ current' = [current EXCEPT ![change.event] = change.row.after]
        /\ underway' = {}
        /\ UNCHANGED <<added, announced, rows>>

GiveUp == underway' = {} /\ UNCHANGED <<current, added, announced, rows>>

Remove(e) ==
    /\ e \in DOMAIN current
    /\ current' = [f \in DOMAIN current \ {e} |-> current[f]]
    /\ UNCHANGED <<added, announced, rows, underway>>

RemoveRow ==
    /\ \E row \in rows : rows' = rows \ {row}
    /\ UNCHANGED <<current, added, announced, underway>>

Next ==
    \/ GiveUp \/ Change \/ RemoveRow
    \/ \E e \in Events : Add(e) \/ Announce(e) \/ Repeat(e) \/ Remove(e)

Spec == Init /\ [][Next]_vars
==============================================================================
