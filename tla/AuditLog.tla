------------------------------- MODULE AuditLog -------------------------------
(***************************************************************************)
(* The audit log (src/governance/audit.py), what Django has written to it  *)
(* (django_controls.py), and its review (audit_review.py).                 *)
(*                                                                         *)
(* Each process writes through a handler of its own, which rotates         *)
(* audit.jsonl to audit.jsonl.1, that to .2 and so on, a rename at a time; *)
(* a process that has a renamed file open goes on writing to it.  A review *)
(* lists the files and reads them one after the other meanwhile.           *)
(*                                                                         *)
(* Rotation is that of Python's RotatingFileHandler on a POSIX system.     *)
(* Record n is the n-th one written; a file is a number, 0 stands for none.*)
(***************************************************************************)
EXTENDS Naturals, FiniteSets, Sequences, FiniteSetsExt

CONSTANTS
    Writers,      \* the processes that write: Django, the retention tool
    Entries,      \* what each of them may have to record
    Capacity,     \* maxBytes, in records
    Backups,      \* backupCount
    Window,       \* days of a review
    Skew,         \* five minutes
    Thresholds,   \* of the counters that ask for attention
    Debug, RequireAuth,   \* settings.DEBUG, DASHBOARD_REQUIRE_AUTH
    MaxRecords,   \* bound: records written
    Horizon,      \* bound: last time
    MaxFaults     \* bound: failed writes, clocks set back

-----------------------------------------------------------------------------
(* What is recorded.                                                       *)

Event == [dashboard |-> "dashboard_access", event_detail |-> "event_detail_access",
          governance_review |-> "governance_review_access"]

Categories == DOMAIN Event \cup {"authentication", "retention"}

Results == {"success", "denied", "not_found", "error", "dry_run", "started", "deleted"}

Entry(event, category, result) ==
    [event |-> event, category |-> category, result |-> result]

\* The status of the response to a request for a protected view; of the view
\* itself it is 200, 404, or 500 for an exception.
Response(visit) ==
    IF ~ Debug /\ ~ RequireAuth THEN 403
    ELSE IF visit.safe /\ RequireAuth /\ ~ visit.authenticated THEN 302
    ELSE IF visit.category = "governance_review" /\ ~ visit.staff THEN 403
    ELSE IF visit.safe THEN visit.status ELSE 405

Result(status) ==
    CASE status \in {302, 403, 405} -> "denied"
      [] status = 404 -> "not_found"
      [] status >= 500 -> "error"
      [] OTHER -> "success"

Visited(visit) == Entry(Event[visit.category], visit.category, Result(Response(visit)))

LoginSuccess == Entry("login_success", "authentication", "success")
LoginFailure == Entry("login_failure", "authentication", "denied")
Logout == Entry("logout", "authentication", "success")

Retained(result) == Entry("retention_execution", "retention", result)

Recorded ==
    {Entry(Event[c], c, r) : c \in DOMAIN Event, r \in {"success", "denied", "not_found", "error"}}
    \cup {LoginSuccess, LoginFailure, Logout}
    \cup {Retained(r) : r \in Results \ {"denied", "not_found"}}

Limits == {"login_failure", "denied_access", "error", "retention_error", "malformed"}
Counters == Limits \cup {"records_in_window"}

ASSUME AuditAssumption ==
    /\ Entries \in [Writers -> SUBSET Recorded]
    /\ Thresholds \in [Limits -> Nat \ {0}]
    /\ Capacity \in Nat \ {0} /\ Backups \in Nat \ {0}
    /\ Window \in Nat /\ Skew \in Nat
    /\ MaxRecords \in Nat /\ Horizon \in Nat /\ MaxFaults \in Nat

VARIABLES
    now,       \* the clock
    log,       \* the records written: entry, time, and the file they are in
    names,     \* of each suffix (0: none) the file of that name
    created,   \* files made so far
    phase,     \* of each writer: what its handler does next
    suffix,    \* of each writer: the file it renames next
    handle,    \* of each writer: the file it has open
    pending,   \* of each writer: the record at hand
    stage,     \* of the review
    stamp,     \* the time of the review
    todo,      \* the suffixes it has yet to read
    counts,    \* the records it has counted
    counted,   \* the records it has read (history)
    before,    \* the records there were when it began (history)
    moved,     \* a file was renamed or removed since (history)
    faults     \* faults so far

files == <<names, created>>
writer == <<phase, suffix, handle, pending>>
reviewer == <<stage, stamp, todo, counts, counted, before>>
vars == <<now, log, files, writer, reviewer, moved, faults>>

Suffixes == 0 .. Backups
NoRecord == [entry |-> Logout, time |-> 0]
In(file) == {n \in DOMAIN log : log[n].file = file}
OnDisk == {n \in DOMAIN log : \E s \in Suffixes : names[s] = log[n].file}

TypeOK ==
    /\ now \in Nat /\ created \in Nat /\ stamp \in Nat /\ faults \in Nat
    /\ log \in Seq([entry : Recorded, time : Nat, file : Nat \ {0}])
    /\ names \in [Suffixes -> Nat]
    /\ phase \in [Writers -> {"idle", "open", "check", "rotate", "reopen", "append"}]
    /\ suffix \in [Writers -> Suffixes]
    /\ handle \in [Writers -> Nat]
    /\ pending \in [Writers -> [entry : Recorded, time : Nat]]
    /\ stage \in {"idle", "listing", "reading", "done"}
    /\ todo \subseteq Suffixes
    /\ counts \in [Counters -> Nat]
    /\ counted \subseteq DOMAIN log /\ before \subseteq DOMAIN log
    /\ moved \in BOOLEAN

Init ==
    /\ now = 0 /\ log = <<>>
    /\ names = [s \in Suffixes |-> 0] /\ created = 0
    /\ phase = [w \in Writers |-> "idle"]
    /\ suffix = [w \in Writers |-> 0]
    /\ handle = [w \in Writers |-> 0]
    /\ pending = [w \in Writers |-> NoRecord]
    /\ stage = "idle" /\ stamp = 0 /\ todo = {}
    /\ counts = [c \in Counters |-> 0]
    /\ counted = {} /\ before = {} /\ moved = FALSE
    /\ faults = 0

-----------------------------------------------------------------------------
(* Writers.  A process has one record at hand at a time (_LOCK).           *)

Goto(w, p) == phase' = [phase EXCEPT ![w] = p]

Emit(w) ==
    /\ phase[w] = "idle"
    /\ Len(log) + Cardinality({v \in Writers : phase[v] # "idle"}) < MaxRecords
    /\ \E e \in Entries[w] : pending' = [pending EXCEPT ![w] = [entry |-> e, time |-> now]]
    /\ Goto(w, "open")
    /\ UNCHANGED <<now, log, files, suffix, handle, reviewer, moved, faults>>

\* Opens audit.jsonl, which makes it if it is not there, unless it is open.
Open(w) ==
    /\ phase[w] \in {"open", "reopen"}
    /\ LET make == handle[w] = 0 /\ names[0] = 0
       IN /\ created' = IF make THEN created + 1 ELSE created
          /\ names' = IF make THEN [names EXCEPT ![0] = created'] ELSE names
          /\ handle' = IF handle[w] = 0 THEN [handle EXCEPT ![w] = names'[0]] ELSE handle
    /\ Goto(w, IF phase[w] = "open" THEN "check" ELSE "append")
    /\ UNCHANGED <<now, log, suffix, pending, reviewer, moved, faults>>

\* Whether the file this process has open has room for another record.
CheckSize(w) ==
    /\ phase[w] = "check"
    /\ IF Cardinality(In(handle[w])) < Capacity
         THEN Goto(w, "append") /\ UNCHANGED <<suffix, handle>>
         ELSE /\ Goto(w, "rotate")
              /\ suffix' = [suffix EXCEPT ![w] = Backups - 1]
              /\ handle' = [handle EXCEPT ![w] = 0]
    /\ UNCHANGED <<now, log, files, pending, reviewer, moved, faults>>

\* Renames a file to the next suffix, over what has it.  The last one,
\* audit.jsonl.1, is removed even if there is no audit.jsonl to rename.
Rotate(w) ==
    /\ phase[w] = "rotate"
    /\ LET s == suffix[w]
       IN /\ names' = IF names[s] # 0 \/ s = 0
                        THEN [names EXCEPT ![s + 1] = names[s], ![s] = 0] ELSE names
          /\ IF s = 0 THEN Goto(w, "reopen") /\ UNCHANGED suffix
                      ELSE suffix' = [suffix EXCEPT ![w] = s - 1] /\ UNCHANGED phase
    /\ moved' = (moved \/ (stage \in {"listing", "reading"} /\ names' # names))
    /\ UNCHANGED <<now, log, created, handle, pending, reviewer, faults>>

Append1(w) ==
    /\ phase[w] = "append"
    /\ log' = Append(log, [entry |-> pending[w].entry, time |-> pending[w].time,
                           file |-> handle[w]])
    /\ Goto(w, "idle")
    /\ pending' = [pending EXCEPT ![w] = NoRecord]
    /\ UNCHANGED <<now, files, suffix, handle, reviewer, moved, faults>>

\* A call on a file fails, as a rename does when another process was first:
\* the record goes to the console.
Fallback(w) ==
    /\ phase[w] # "idle" /\ faults < MaxFaults
    /\ Goto(w, "idle")
    /\ pending' = [pending EXCEPT ![w] = NoRecord]
    /\ suffix' = [suffix EXCEPT ![w] = 0]
    /\ faults' = faults + 1
    /\ UNCHANGED <<now, log, files, handle, reviewer, moved>>

-----------------------------------------------------------------------------
(* The review.                                                             *)

\* The counters a record in the window adds to.
Tally(e) ==
    {"records_in_window"}
    \cup (IF e.event = "login_failure" THEN {"login_failure"} ELSE {})
    \cup (IF e.result = "denied" /\ e.category \in DOMAIN Event THEN {"denied_access"} ELSE {})
    \cup (IF e.result = "error" THEN {"error"} ELSE {})
    \cup (IF e.result = "error" /\ e.category = "retention" THEN {"retention_error"} ELSE {})

\* Mutant: a record at the start of the window is left out.
CountsAfter(n, at) ==
    CASE log[n].time > at + Skew -> {"malformed"}
      [] log[n].time + Window <= at -> {}
      [] OTHER -> Tally(log[n].entry)

\* The counters record n adds to in a review at this time.
Counts(n, at) ==
    CASE log[n].time > at + Skew -> {"malformed"}
      [] log[n].time + Window < at -> {}
      [] OTHER -> Tally(log[n].entry)

\* audit_paths: the rotated files, and then audit.jsonl.
ListRotated ==
    /\ stage \in {"idle", "done"}
    /\ stage' = "listing" /\ stamp' = now
    /\ todo' = {s \in Suffixes : s # 0 /\ names[s] # 0}
    /\ counts' = [c \in Counters |-> 0]
    /\ counted' = {} /\ before' = OnDisk /\ moved' = FALSE
    /\ UNCHANGED <<now, log, files, writer, faults>>

ListCurrent ==
    /\ stage = "listing"
    /\ todo' = IF names[0] # 0 THEN todo \cup {0} ELSE todo
    /\ stage' = "reading"
    /\ UNCHANGED <<now, log, files, writer, stamp, counts, counted, before, moved, faults>>

\* Mutant: the newest file is read first.
NewestNext == Min(todo)

\* A higher suffix is older, and the oldest is read first.
Following == Max(todo)

\* A path that no longer names a file counts as malformed.
ReadFile ==
    /\ stage = "reading" /\ todo # {}
    /\ LET file == names[Following]
           read == In(file)
       IN /\ counts' = [c \in Counters |->
                IF file = 0 THEN IF c = "malformed" THEN counts[c] + 1 ELSE counts[c]
                            ELSE counts[c] + Cardinality({n \in read : c \in Counts(n, stamp)})]
          /\ counted' = IF file = 0 THEN counted ELSE counted \cup read
    /\ todo' = todo \ {Following}
    /\ UNCHANGED <<now, log, files, writer, stage, stamp, before, moved, faults>>

Report ==
    /\ stage = "reading" /\ todo = {}
    /\ stage' = "done"
    /\ UNCHANGED <<now, log, files, writer, stamp, todo, counts, counted, before, moved, faults>>

Breached(c) == counts[c] >= Thresholds[c]

-----------------------------------------------------------------------------
Tick ==
    /\ now < Horizon
    /\ now' = now + 1
    /\ UNCHANGED <<log, files, writer, reviewer, moved, faults>>

\* The clock is set back.
SetBack ==
    /\ faults < MaxFaults
    /\ \E t \in 0 .. now : t < now /\ now' = t
    /\ faults' = faults + 1
    /\ UNCHANGED <<log, files, writer, reviewer, moved>>

Write(w) ==
    Emit(w) \/ Open(w) \/ CheckSize(w) \/ Rotate(w) \/ Append1(w) \/ Fallback(w)

Review == ListRotated \/ ListCurrent \/ ReadFile \/ Report

Next == (\E w \in Writers : Write(w)) \/ Review \/ Tick \/ SetBack

Spec == Init /\ [][Next]_vars

-----------------------------------------------------------------------------
\* What each threshold is about, and the records of it in the window.
Concerns == [login_failure |-> {LoginFailure},
             denied_access |-> {Entry(Event[k], k, "denied") : k \in DOMAIN Event},
             error |-> {e \in Recorded : e.result = "error"},
             retention_error |-> {Retained("error")}]

Of(records, c) ==
    IF c = "malformed"
      THEN {n \in records : stamp + Skew < log[n].time}
      ELSE {n \in records : /\ stamp <= log[n].time + Window /\ log[n].time <= stamp + Skew
                            /\ log[n].entry \in Concerns[c]}

Number(records, c) == Cardinality(Of(records, c))

\* A review asks for attention only where the log warrants it: for every breach
\* of a threshold there are as many such records, however files are renamed
\* while it reads them (audit_review.py:58-59, 100-138).  Not so of the files it
\* lists and no longer finds, which count as malformed.
BreachIsReal ==
    stage = "done" => \A c \in Limits \ {"malformed"} :
        Breached(c) => Number(DOMAIN log, c) >= Thresholds[c]

\* And it misses none: if as many records as a threshold were there when it began,
\* and no file was renamed meanwhile, it reports the breach; and what it then
\* calls malformed are records ahead of the clock (audit_review.py:115-119).
BreachIsSeen ==
    stage = "done" /\ ~ moved =>
        /\ \A c \in Limits : Number(before, c) >= Thresholds[c] => Breached(c)
        /\ Breached("malformed") => Number(DOMAIN log, "malformed") >= Thresholds["malformed"]
===============================================================================
