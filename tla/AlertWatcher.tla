------------------------------ MODULE AlertWatcher ------------------------------
(***************************************************************************)
(* From a change of the database to a reserved alert                       *)
(* (src/alert/service.py: watch_forever, AlertService.reserve and          *)
(* convert_change).                                                        *)
(*                                                                         *)
(* A watcher opens a change stream after the resume token it saved, or at  *)
(* the present if there is none.  For each change it reserves a row of     *)
(* alert_log, saves the token, and delivers; any exception closes the      *)
(* connection and starts over from the saved token.  Several watchers      *)
(* share alert_log and the one alert_state document.  What a delivery does *)
(* to its row is the business of AlertDelivery; here retry_due and deliver *)
(* only take their time.  Retention deletes documents and, independently,  *)
(* rows of alert_log; ages are left out, it may be any.  The rows of       *)
(* leak_history that it deletes are not looked for by anything here.       *)
(*                                                                         *)
(* The change streams' log is a sequence that loses its oldest entries; a  *)
(* token is the place of a change in it.  A change says which alert it is  *)
(* for, which document it is about, whether convert_change can read it,    *)
(* whether the policy wants it sent, and whether an identifier holds a     *)
(* credential.                                                             *)
(***************************************************************************)
EXTENDS Naturals, Sequences

CONSTANTS
    Watchers,   \* watcher processes
    Changes,    \* inserts the crawlers may make
    Documents,  \* documents of leaked_data
    NoToken,    \* no resume_token in alert_state
    BadToken,   \* a resume_token that is not a document
    MaxLog,     \* bound: changes made
    MaxFaults   \* bound: errors, crashes, retentions and entries lost

Collections == {"leaked_data", "leak_history"}

Change == [coll     : Collections,
           identity : Nat,         \* of the alert: event_key or history id
           document : Documents,
           valid    : BOOLEAN,     \* the fields convert_change needs are there
           wanted   : BOOLEAN,     \* material and above the threshold
           secret   : BOOLEAN]     \* an identifier holds a credential

ASSUME WatcherAssumption ==
    /\ Changes \subseteq Change
    /\ NoToken \notin Nat /\ BadToken \notin Nat /\ NoToken # BadToken
    /\ MaxLog \in Nat /\ MaxFaults \in Nat

\* Alert identities: hashes of the type and the key or history id, or, of a
\* change that can not be read, of its token.
Identities == ({"NEW", "UPDATED", "INVALID"} \X Nat)

(***************************************************************************)
(* connect     find the saved token          lookup      find the prior row*)
(* discard     unset a malformed token       convert     find the document *)
(* open        open the stream               upsert      insert the row    *)
(* retry       retry_due                     checkpoint  save the token    *)
(* next        try_next                      deliver     deliver           *)
(* reset       unset a token too old                                       *)
(***************************************************************************)
Handling == {"lookup", "convert", "upsert", "checkpoint"}
Phases   == {"connect", "discard", "open", "retry", "next", "deliver", "reset"}
              \cup Handling

VARIABLES
    log,          \* the inserts made so far
    oldest,       \* the first of them the log still has
    leaked_data,  \* documents that exist
    alert_log,    \* rows: [Identities -> status], of those reserved
    resume_token, \* the alert_state document
    pc,           \* the phase of each watcher
    token,        \* the token it found
    position,     \* the last change its stream yielded
    row,          \* the row it is about to insert
    streamed,     \* history: changes some stream has yielded
    skipped,      \* history: changes some stream opened at the present passed over
    expired,      \* history: changes whose row retention has deleted
    faults        \* faults so far

mongo   == <<log, oldest, leaked_data, alert_log, resume_token>>
local   == <<token, position, row>>
history == <<streamed, skipped, expired>>
vars    == <<log, oldest, leaked_data, alert_log, resume_token, pc, token, position,
             row, streamed, skipped, expired, faults>>

Rows == [identity : Identities, status : {"PENDING", "SUPPRESSED"}]

TypeOK ==
    /\ log \in Seq(Changes) /\ Len(log) <= MaxLog
    /\ oldest \in 1 .. Len(log) + 1
    /\ leaked_data \subseteq Documents
    /\ alert_log \subseteq Rows
    /\ resume_token \in (0 .. Len(log)) \cup {NoToken, BadToken}
    /\ pc \in [Watchers -> Phases]
    /\ token \in [Watchers -> (0 .. Len(log)) \cup {NoToken}]
    /\ position \in [Watchers -> 0 .. Len(log)]
    /\ row \in [Watchers -> Rows \cup {NoToken}]
    /\ \A w \in Watchers :
          /\ pc[w] \in Handling => position[w] # 0
          /\ pc[w] = "upsert" => row[w] \in Rows
    /\ streamed \subseteq 1 .. Len(log)
    /\ skipped \subseteq 1 .. Len(log)
    /\ expired \subseteq 1 .. Len(log)
    /\ faults \in 0 .. MaxFaults

-----------------------------------------------------------------------------
(* Alerts and rows.                                                        *)

alert_identity(change) ==
    <<IF change.coll = "leak_history" THEN "UPDATED" ELSE "NEW", change.identity>>

\* The quarantine row's identity is that of the event, by its token.
QuarantineIdentity(place) == <<"INVALID", place>>

Reserved(identity) == \E r \in alert_log : r.identity = identity

\* The identities a row of change number k may have.
IdentitiesOf(k) == {alert_identity(log[k]), QuarantineIdentity(k)}

\* Change number k has led to a row, which may have expired since.
Covered(k) == k \in expired \/ \E identity \in IdentitiesOf(k) : Reserved(identity)

\* A history row is shown on top of its current document, which must exist.
Readable(change) ==
    change.valid /\ (change.coll = "leak_history" => change.document \in leaked_data)

RowOf(place) ==
    LET change == log[place] IN
    IF Readable(change)
      THEN [identity |-> alert_identity(change),
            status   |-> IF change.wanted THEN "PENDING" ELSE "SUPPRESSED"]
      ELSE [identity |-> QuarantineIdentity(place), status |-> "SUPPRESSED"]

-----------------------------------------------------------------------------
Init ==
    /\ log = <<>> /\ oldest = 1
    /\ leaked_data = {}
    /\ alert_log = {}
    /\ resume_token \in {NoToken, BadToken}
    /\ pc = [w \in Watchers |-> "connect"]
    /\ token = [w \in Watchers |-> NoToken]
    /\ position = [w \in Watchers |-> 0]
    /\ row = [w \in Watchers |-> NoToken]
    /\ streamed = {} /\ skipped = {} /\ expired = {}
    /\ faults = 0

Goto(w, phase) == pc' = [pc EXCEPT ![w] = phase]

Fault == faults < MaxFaults /\ faults' = faults + 1

\* The connection is closed; the locals of the iteration are gone.
Reconnect(w, phase) ==
    /\ Goto(w, phase)
    /\ token' = [token EXCEPT ![w] = NoToken]
    /\ position' = [position EXCEPT ![w] = 0]
    /\ row' = [row EXCEPT ![w] = NoToken]

-----------------------------------------------------------------------------
(* watch_forever: opening the stream.                                      *)

FindToken(w) ==
    /\ pc[w] = "connect"
    /\ \/ /\ resume_token = BadToken
          /\ Goto(w, "discard") /\ UNCHANGED token
       \/ /\ resume_token # BadToken
          /\ token' = [token EXCEPT ![w] = resume_token]
          /\ Goto(w, "open")
    /\ UNCHANGED <<mongo, position, row, history, faults>>

DiscardToken(w) ==
    /\ pc[w] = "discard"
    /\ resume_token' = NoToken
    /\ Goto(w, "open")
    /\ UNCHANGED <<log, oldest, leaked_data, alert_log, local, history, faults>>

\* Without a token the stream starts at the present, and what is in the log is
\* passed over.
OpenStream(w) ==
    /\ pc[w] = "open"
    /\ \/ /\ token[w] = NoToken
          /\ position' = [position EXCEPT ![w] = Len(log)]
          /\ skipped' = skipped \cup {k \in 1 .. Len(log) : ~ Covered(k)}
          /\ Goto(w, "retry")
          /\ UNCHANGED <<mongo, token, row, streamed, expired, faults>>
       \/ /\ token[w] # NoToken /\ token[w] + 1 >= oldest
          /\ position' = [position EXCEPT ![w] = token[w]]
          /\ Goto(w, "retry")
          /\ UNCHANGED <<mongo, token, row, history, faults>>
       \/ /\ token[w] # NoToken /\ token[w] + 1 < oldest
          /\ Reconnect(w, "reset")
          /\ UNCHANGED <<mongo, history, faults>>

\* Mutant: the error is logged, and the token kept.
ResetNothing(w) ==
    /\ pc[w] = "reset"
    /\ Goto(w, "connect")
    /\ UNCHANGED <<mongo, local, history, faults>>

\* OperationFailure 286: the log no longer has what follows the token.
ResetToken(w) ==
    /\ pc[w] = "reset"
    /\ resume_token' = NoToken
    /\ Goto(w, "connect")
    /\ UNCHANGED <<log, oldest, leaked_data, alert_log, local, history, faults>>

-----------------------------------------------------------------------------
(* watch_forever: the loop over the changes.                               *)

RetryDue(w) ==
    /\ pc[w] = "retry"
    /\ Goto(w, "next")
    /\ UNCHANGED <<mongo, local, history, faults>>

TryNext(w) ==
    /\ pc[w] = "next"
    /\ \/ /\ position[w] + 1 < oldest
          /\ Reconnect(w, "reset")
          /\ UNCHANGED history
       \/ /\ position[w] + 1 >= oldest /\ position[w] < Len(log)
          /\ position' = [position EXCEPT ![w] = @ + 1]
          /\ streamed' = streamed \cup {position[w] + 1}
          /\ Goto(w, "lookup")
          /\ UNCHANGED <<token, row, skipped, expired>>
       \/ /\ position[w] + 1 >= oldest /\ position[w] = Len(log)
          /\ Goto(w, "retry")
          /\ UNCHANGED <<local, history>>
    /\ UNCHANGED <<mongo, faults>>

\* Mutant: the token is saved when the change arrives, before its reservation.
FindPriorAfterCheckpoint(w) ==
    /\ pc[w] = "lookup"
    /\ resume_token' = position[w]
    /\ Goto(w, IF Reserved(alert_identity(log[position[w]])) THEN "checkpoint"
               ELSE "convert")
    /\ UNCHANGED <<log, oldest, leaked_data, alert_log, local, history, faults>>

\* A replayed change has its row, and its document may be gone by now.
FindPrior(w) ==
    /\ pc[w] = "lookup"
    /\ Goto(w, IF Reserved(alert_identity(log[position[w]])) THEN "checkpoint"
               ELSE "convert")
    /\ UNCHANGED <<mongo, local, history, faults>>

\* Mutant: a change that can not be read is skipped like an unselected one.
ConvertReadableOnly(w) ==
    /\ pc[w] = "convert" /\ ~ log[position[w]].secret
    /\ row' = [row EXCEPT ![w] = RowOf(position[w])]
    /\ Goto(w, IF Readable(log[position[w]]) THEN "upsert" ELSE "checkpoint")
    /\ UNCHANGED <<mongo, token, position, history, faults>>

Convert(w) ==
    /\ pc[w] = "convert"
    /\ \/ /\ ~ (Readable(log[position[w]]) /\ log[position[w]].secret)
          /\ row' = [row EXCEPT ![w] = RowOf(position[w])]
          /\ Goto(w, "upsert")
          /\ UNCHANGED <<token, position>>
       \/ /\ Readable(log[position[w]]) /\ log[position[w]].secret
          /\ Reconnect(w, "connect")                       \* InvalidAlertEvent
    /\ UNCHANGED <<mongo, history, faults>>

\* Mutant: the reservation replaces the row ($set), whoever reserved it.
ReserveAgain(w) ==
    /\ pc[w] = "upsert"
    /\ alert_log' = {r \in alert_log : r.identity # row[w].identity} \cup {row[w]}
    /\ Goto(w, "checkpoint")
    /\ UNCHANGED <<log, oldest, leaked_data, resume_token, local, history, faults>>

\* $setOnInsert: a row that another watcher put there meanwhile is left alone.
Reserve(w) ==
    /\ pc[w] = "upsert"
    /\ alert_log' = IF Reserved(row[w].identity) THEN alert_log
                    ELSE alert_log \cup {row[w]}
    /\ Goto(w, "checkpoint")
    /\ UNCHANGED <<log, oldest, leaked_data, resume_token, local, history, faults>>

\* Mutant: the token saved is that of the change to come.
CheckpointNext(w) ==
    /\ pc[w] = "checkpoint"
    /\ resume_token' = position[w] + 1
    /\ Goto(w, "deliver")
    /\ UNCHANGED <<log, oldest, leaked_data, alert_log, local, history, faults>>

Checkpoint(w) ==
    /\ pc[w] = "checkpoint"
    /\ resume_token' = position[w]
    /\ Goto(w, "deliver")
    /\ UNCHANGED <<log, oldest, leaked_data, alert_log, local, history, faults>>

Deliver(w) ==
    /\ pc[w] = "deliver"
    /\ Goto(w, "retry")
    /\ UNCHANGED <<mongo, local, history, faults>>

-----------------------------------------------------------------------------
(* Faults and the environment.                                             *)

\* A PyMongoError, a dead stream or a crash.  It may come after the write of
\* the call it interrupts.
Fails(w) ==
    /\ pc[w] # "connect"
    /\ Fault
    /\ Reconnect(w, "connect")
    /\ UNCHANGED <<mongo, history>>

\* The crawlers insert a document, or a history row of one that exists.
Insert(change) ==
    /\ Len(log) < MaxLog
    /\ (change.coll = "leak_history") <=> (change.document \in leaked_data)
    /\ log' = Append(log, change)
    /\ leaked_data' = leaked_data \cup {change.document}
    /\ UNCHANGED <<oldest, alert_log, resume_token, pc, local, history, faults>>

ExpireEvent(document) ==
    /\ document \in leaked_data
    /\ Fault
    /\ leaked_data' = leaked_data \ {document}
    /\ UNCHANGED <<log, oldest, alert_log, resume_token, pc, local, history>>

\* Whatever its status.
ExpireAlert(r) ==
    /\ r \in alert_log
    /\ Fault
    /\ alert_log' = alert_log \ {r}
    /\ expired' = expired \cup {k \in 1 .. Len(log) : r.identity \in IdentitiesOf(k)}
    /\ UNCHANGED <<log, oldest, leaked_data, resume_token, pc, local, streamed, skipped>>

LogRollsOver ==
    /\ oldest <= Len(log)
    /\ Fault
    /\ oldest' = oldest + 1
    /\ UNCHANGED <<log, leaked_data, alert_log, resume_token, pc, local, history>>

-----------------------------------------------------------------------------
Watch(w) ==
    \/ FindToken(w) \/ DiscardToken(w) \/ OpenStream(w) \/ ResetToken(w)
    \/ RetryDue(w) \/ TryNext(w)
    \/ FindPrior(w) \/ Convert(w) \/ Reserve(w) \/ Checkpoint(w) \/ Deliver(w)

Next ==
    \/ \E w \in Watchers : Watch(w) \/ Fails(w)
    \/ \E change \in Changes : Insert(change)
    \/ \E document \in Documents : ExpireEvent(document)
    \/ \E r \in alert_log : ExpireAlert(r)
    \/ LogRollsOver

Spec == Init /\ [][Next]_vars

\* Every watcher runs on: what it awaits has a timeout.
FairSpec == Spec /\ \A w \in Watchers : WF_vars(Watch(w))

-----------------------------------------------------------------------------
(* Safety.                                                                 *)

\* "Reservation failures raise before checkpointing" (service.py:335): up to
\* the saved token, every change has a row, or had one that has expired, unless
\* some stream had to start without a token after it.  Several watchers that
\* share the token, replays, lost replies and resets do not make a hole.
CheckpointCovers ==
    resume_token \notin {NoToken, BadToken} =>
        \A k \in 1 .. resume_token : Covered(k) \/ k \in skipped

\* The same of every open stream: what it has passed is reserved, is being
\* reserved, or was skipped when a stream was opened at the present.
StreamCovers ==
    \A w \in Watchers :
        pc[w] \in Handling \cup {"retry", "next", "deliver"} =>
            \A k \in 1 .. position[w] :
                \/ Covered(k) \/ k \in skipped
                \/ k = position[w] /\ pc[w] \in Handling

\* The token and all watchers are behind change number k: nobody will meet it again.
Passed(k) ==
    /\ resume_token \notin {NoToken, BadToken} => k <= resume_token
    /\ \A w \in Watchers :
          /\ pc[w] = "open" /\ token[w] # NoToken => k <= token[w]
          /\ pc[w] \in Handling => k < position[w]
          /\ pc[w] \in {"retry", "next", "deliver"} => k <= position[w]

\* A row, once reserved, is not decided again: until it expires, no replay under a
\* changed document and no slower watcher turns a suppressed alert into a pending
\* one or back ($setOnInsert, service.py:161-162, 215); and after it has, no reset
\* or restart brings back a change that was passed, to be decided anew.
DecidedOnce ==
    [][/\ \A r \in alert_log : r \in alert_log' \/ ExpireAlert(r)
       /\ \A k \in 1 .. Len(log) : Passed(k) => Passed(k)']_vars

\* What the comment at service.py:335-336 suggests, and the code does not keep: that
\* a change a stream has yielded is not passed over afterwards.  No run checks it;
\* before the first token is saved it fails (README, Observations).
StreamedNeverSkipped == streamed \cap skipped = {}

-----------------------------------------------------------------------------
(* Liveness, of FairSpec.                                                  *)

\* A change no watcher gets past: Convert fails on it each time it is replayed.
Blocking(k) ==
    Readable(log[k]) /\ log[k].secret /\ ~ Reserved(alert_identity(log[k]))

\* Every change, readable or not, is reserved in the end, unless a stream had to
\* start after it or a credential in an identifier blocks the stream before it.
\* A malformed token, or one the log no longer follows, stops nobody for good.
EventuallyReserved ==
    \A n \in 1 .. MaxLog :
        (n <= Len(log)) ~>
           \/ n \in skipped
           \/ n <= Len(log) /\ Covered(n)
           \/ n <= Len(log) /\ \E k \in 1 .. n : Blocking(k)

=============================================================================
