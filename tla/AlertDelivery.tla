----------------------------- MODULE AlertDelivery -----------------------------
(***************************************************************************)
(* Delivery of alert_log rows by several watcher processes                 *)
(* (src/alert/service.py: AlertService.reserve, due_query, deliver and     *)
(* retry_due, and the loop of watch_forever that calls them).              *)
(*                                                                         *)
(* The processes share nothing but the alert_log collection.  A row is     *)
(* claimed with one atomic find_one_and_update that takes a lease; the     *)
(* message is then sent to Telegram, and the row acknowledged by an        *)
(* update whose filter names the claim.  Every Mongo call is an action of  *)
(* its own, so that processes interleave, crash and lose replies between   *)
(* any two of them; `now' is read once per delivery and used in the calls  *)
(* that follow, as the code does.                                          *)
(***************************************************************************)
EXTENDS Naturals, FiniteSets

CONSTANTS
    Alerts,        \* the identities a change can reserve
    Workers,       \* watcher processes
    NotSet,        \* a field that is None or $unset
    MaxAttempts,   \* AlertPolicy.max_attempts
    RetrySeconds,  \* AlertPolicy.retry_seconds
    LeaseSeconds,  \* AlertPolicy.lease_seconds
    SendTimeout,   \* the wait_for bound on a send, 0.8 * lease_seconds
    Stall,         \* longest time between reading the clock and the last
                   \* Mongo call that uses the value read
    BatchLimit,    \* the limit(100) of retry_due
    MaxFaults,     \* bound: crashes, Mongo errors, lost replies, failed sends
    Horizon        \* bound: last instant of the clock

ASSUME PolicyAssumption ==
    /\ MaxAttempts \in Nat \ {0}
    /\ RetrySeconds \in Nat \ {0}
    /\ LeaseSeconds \in Nat \ {0}
    /\ SendTimeout \in Nat
    /\ Stall \in Nat
    /\ BatchLimit \in Nat \ {0}
    /\ MaxFaults \in Nat
    /\ Horizon \in Nat

ASSUME NotSetAssumption == NotSet \notin Nat

Statuses == {"ABSENT", "PENDING", "SENDING", "SENT", "FAILED", "SUPPRESSED"}

Time == Nat

Row == [status          : Statuses,
        attempt_count   : Nat,
        claim_token     : Nat \cup {NotSet},
        lease_until     : Time \cup {NotSet},
        next_attempt_at : Time \cup {NotSet}]

(***************************************************************************)
(* retry    about to call retry_due          expire  first update of       *)
(* next     between two deliveries                   deliver               *)
(* poll     about to call try_next           claim   find_one_and_update   *)
(* down     not running                      send    awaiting the sender   *)
(* sent, failed   about to acknowledge the send                            *)
(***************************************************************************)
Phases == {"retry", "next", "poll", "expire", "claim", "send", "sent",
           "failed", "down"}

Holding == {"send", "sent", "failed"}                  \* phases of a claim owner
Timed   == {"expire", "claim"} \cup Holding            \* phases of a delivery

VARIABLES
    logs,       \* the alert_log collection
    clock,      \* utc_now
    pc,         \* the phase of each worker
    caller,     \* who called deliver: "retry_due" or "watch"
    todo,       \* identities this caller still has to deliver
    unread,     \* changes this connection's stream may still yield
    task,       \* the locals of the delivery under way
    claims,     \* history: claims ever granted per row; numbers the uuid4 tokens
    wire,       \* claims whose message is on its way to Telegram
    delivered,  \* claims whose message Telegram has accepted
    faults      \* faults so far

mongo    == <<logs, claims>>
local    == <<caller, todo, unread, task>>
telegram == <<wire, delivered>>
vars == <<logs, clock, pc, caller, todo, unread, task, claims, wire, delivered,
          faults>>

Task == [identity : Alerts,   \* the row being delivered
         now      : Time,     \* the `now' or `stamp' read last
         claim    : Nat,      \* the claim held, 0 before there is one
         deadline : Time]     \* latest end of the phase the worker is in

TypeOK ==
    /\ logs \in [Alerts -> Row]
    /\ clock \in Time
    /\ pc \in [Workers -> Phases]
    /\ caller \in [Workers -> {"retry_due", "watch"}]
    /\ todo \in [Workers -> SUBSET Alerts]
    /\ unread \in [Workers -> SUBSET Alerts]
    /\ task \in [Workers -> Task \cup {NotSet}]
    /\ \A w \in Workers : pc[w] \in Timed => task[w] \in Task
    /\ claims \in [Alerts -> Nat]
    /\ wire \in [Alerts -> SUBSET Nat]
    /\ delivered \in [Alerts -> SUBSET Nat]
    /\ faults \in 0 .. MaxFaults

-----------------------------------------------------------------------------
(* The queries of the code, as predicates of one row.                      *)

\* {field: {"$lte": t}} never matches a missing or null field.
AtOrBefore(stamp, t) == stamp # NotSet /\ stamp <= t

\* Mutant: a claim is taken over without waiting for its lease to run out.
due_query_no_lease(row, t) ==
    \/ row.status = "PENDING" /\ row.attempt_count < MaxAttempts
    \/ /\ row.status = "FAILED" /\ row.attempt_count < MaxAttempts
       /\ AtOrBefore(row.next_attempt_at, t)
    \/ row.status = "SENDING"

\* Mutant: a row whose sender died is not looked at again.
due_query_no_recovery(row, t) ==
    \/ row.status = "PENDING" /\ row.attempt_count < MaxAttempts
    \/ /\ row.status = "FAILED" /\ row.attempt_count < MaxAttempts
       /\ AtOrBefore(row.next_attempt_at, t)

due_query(row, t) ==
    \/ row.status = "PENDING" /\ row.attempt_count < MaxAttempts
    \/ /\ row.status = "FAILED" /\ row.attempt_count < MaxAttempts
       /\ AtOrBefore(row.next_attempt_at, t)
    \/ row.status = "SENDING" /\ AtOrBefore(row.lease_until, t)

Claimable(row, t) == row.attempt_count < MaxAttempts /\ due_query(row, t)

\* Mutant: every expired lease ends the row, attempts left or not.
ExpiredAtAnyAttempt(row, t) ==
    row.status = "SENDING" /\ AtOrBefore(row.lease_until, t)

ExpiredForGood(row, t) ==
    /\ row.status = "SENDING" /\ row.attempt_count >= MaxAttempts
    /\ AtOrBefore(row.lease_until, t)

\* Mutant: the ownership filter forgets the claim token.
OwnedBySomeone(row, claim) == row.status = "SENDING"

\* Mutant: the acknowledgement is filtered by _id alone.
OwnedByAnyone(row, claim) == TRUE

Owned(row, claim) == row.status = "SENDING" /\ row.claim_token = claim

Due(t) == {a \in Alerts : due_query(logs[a], t)}

-----------------------------------------------------------------------------
Absent == [status |-> "ABSENT", attempt_count |-> 0, claim_token |-> NotSet,
           lease_until |-> NotSet, next_attempt_at |-> NotSet]

Init ==
    /\ logs = [a \in Alerts |-> Absent]
    /\ clock = 0
    /\ pc = [w \in Workers |-> "retry"]
    /\ caller = [w \in Workers |-> "retry_due"]
    /\ todo = [w \in Workers |-> {}]
    /\ unread = [w \in Workers |-> Alerts]
    /\ task = [w \in Workers |-> NotSet]
    /\ claims = [a \in Alerts |-> 0]
    /\ wire = [a \in Alerts |-> {}]
    /\ delivered = [a \in Alerts |-> {}]
    /\ faults = 0

Goto(w, phase) == pc' = [pc EXCEPT ![w] = phase]

Fault == faults < MaxFaults /\ faults' = faults + 1

\* deliver returns to its caller.
Return(w) ==
    /\ Goto(w, "next")
    /\ task' = [task EXCEPT ![w] = NotSet]
    /\ UNCHANGED <<caller, todo, unread>>

\* Everything the process was doing is dropped.  The stream opened next resumes
\* from an earlier checkpoint, so it may yield any change again.
Abandon(w, phase) ==
    /\ Goto(w, phase)
    /\ caller' = [caller EXCEPT ![w] = "retry_due"]
    /\ todo' = [todo EXCEPT ![w] = {}]
    /\ unread' = [unread EXCEPT ![w] = Alerts]
    /\ task' = [task EXCEPT ![w] = NotSet]

\* A write is applied but its reply is lost: the driver raises, and
\* watch_forever reconnects.
ReplyLost(w) == Fault /\ Abandon(w, "retry")

-----------------------------------------------------------------------------
(* The loop of watch_forever.                                              *)

retry_due(w) ==
    /\ pc[w] = "retry"
    /\ \E batch \in SUBSET Due(clock) :
          /\ \/ batch = Due(clock) /\ Cardinality(batch) <= BatchLimit
             \/ batch # Due(clock) /\ Cardinality(batch) = BatchLimit
          /\ todo' = [todo EXCEPT ![w] = batch]
    /\ caller' = [caller EXCEPT ![w] = "retry_due"]
    /\ Goto(w, "next")
    /\ UNCHANGED <<mongo, telegram, clock, unread, task, faults>>

\* Nothing left to deliver: retry_due returns and the stream is polled, or the
\* change just reserved has been handled and the loop starts again.
CallerReturns(w) ==
    /\ pc[w] = "next" /\ todo[w] = {}
    /\ Goto(w, IF caller[w] = "retry_due" THEN "poll" ELSE "retry")
    /\ UNCHANGED <<mongo, local, telegram, clock, faults>>

NoChange(w) ==
    /\ pc[w] = "poll"
    /\ Goto(w, "retry")
    /\ UNCHANGED <<mongo, local, telegram, clock, faults>>

\* Mutant: the reservation overwrites the row that is there ($set).
reserve_overwriting(w, a) ==
    /\ pc[w] = "poll" /\ a \in unread[w]
    /\ unread' = [unread EXCEPT ![w] = @ \ {a}]
    /\ logs' = [logs EXCEPT ![a] = [Absent EXCEPT !.status = "PENDING",
                                                !.next_attempt_at = clock]]
    /\ todo' = [todo EXCEPT ![w] = {a}]
    /\ caller' = [caller EXCEPT ![w] = "watch"]
    /\ Goto(w, "next")
    /\ UNCHANGED <<telegram, clock, claims, task, faults>>

\* A change arrives, in this process first or not, or replayed.  An existing row is left
\* as it is ($setOnInsert); a new one is PENDING unless the policy suppresses
\* it.  Either way its identity is delivered next.
reserve(w, a) ==
    /\ pc[w] = "poll" /\ a \in unread[w]
    /\ unread' = [unread EXCEPT ![w] = @ \ {a}]
    /\ \/ logs[a].status # "ABSENT" /\ UNCHANGED logs
       \/ /\ logs[a].status = "ABSENT"
          /\ \E status \in {"PENDING", "SUPPRESSED"} :
                logs' = [logs EXCEPT ![a] =
                           [Absent EXCEPT !.status = status,
                                          !.next_attempt_at = clock]]
    /\ todo' = [todo EXCEPT ![w] = {a}]
    /\ caller' = [caller EXCEPT ![w] = "watch"]
    /\ Goto(w, "next")
    /\ UNCHANGED <<telegram, clock, claims, task, faults>>

-----------------------------------------------------------------------------
(* deliver, call by call.                                                  *)

ReadClock(w, a) ==
    /\ pc[w] = "next" /\ a \in todo[w]
    /\ todo' = [todo EXCEPT ![w] = @ \ {a}]
    /\ task' = [task EXCEPT ![w] = [identity |-> a, now |-> clock, claim |-> 0,
                                    deadline |-> clock + Stall]]
    /\ Goto(w, "expire")
    /\ UNCHANGED <<mongo, telegram, clock, caller, unread, faults>>

\* The update that ends a claim: the lease and its token are unset.
Released(row, status, next_attempt) ==
    [row EXCEPT !.status = status, !.next_attempt_at = next_attempt,
                !.claim_token = NotSet, !.lease_until = NotSet]

ExpireLease(w) ==
    LET a == task[w].identity IN
    /\ pc[w] = "expire"
    /\ logs' = IF ExpiredForGood(logs[a], task[w].now)
                 THEN [logs EXCEPT ![a] = Released(@, "FAILED", NotSet)]
                 ELSE logs
    /\ \/ Goto(w, "claim") /\ UNCHANGED <<local, faults>>
       \/ ReplyLost(w)
    /\ UNCHANGED <<telegram, clock, claims>>

\* Mutant: the claim unsets the attempt count instead of raising it.
GrantedUnset(row, claim, lease_until) ==
    [row EXCEPT !.status = "SENDING", !.claim_token = claim,
                !.lease_until = lease_until, !.attempt_count = NotSet]

\* Mutant: the claim does not count an attempt.
GrantedUncounted(row, claim, lease_until) ==
    [row EXCEPT !.status = "SENDING", !.claim_token = claim,
                !.lease_until = lease_until]

\* The update that grants a claim and counts an attempt.
Granted(row, claim, lease_until) ==
    [row EXCEPT !.status = "SENDING", !.claim_token = claim,
                !.lease_until = lease_until,
                !.attempt_count = row.attempt_count + 1]

Claim(w) ==
    LET a == task[w].identity
        fresh == claims[a] + 1
    IN
    /\ pc[w] = "claim"
    /\ Claimable(logs[a], task[w].now)
    /\ claims' = [claims EXCEPT ![a] = fresh]
    /\ logs' = [logs EXCEPT ![a] =
                  Granted(@, fresh, task[w].now + LeaseSeconds)]
    /\ \/ /\ Goto(w, "send")
          /\ wire' = [wire EXCEPT ![a] = @ \cup {fresh}]
          /\ task' = [task EXCEPT ![w] = [@ EXCEPT !.claim = fresh,
                                                  !.deadline = clock + SendTimeout]]
          /\ UNCHANGED <<caller, todo, unread, faults>>
       \/ ReplyLost(w) /\ UNCHANGED wire
    /\ UNCHANGED <<clock, delivered>>

NothingToClaim(w) ==
    /\ pc[w] = "claim"
    /\ ~ Claimable(logs[task[w].identity], task[w].now)
    /\ Return(w)
    /\ UNCHANGED <<mongo, telegram, clock, faults>>

\* The send ends and `stamp' is read; the acknowledgement comes later.
SendEnds(w, phase) ==
    /\ pc[w] = "send"
    /\ task' = [task EXCEPT ![w] = [@ EXCEPT !.now = clock,
                                            !.deadline = clock + Stall]]
    /\ Goto(w, phase)
    /\ UNCHANGED <<mongo, telegram, clock, caller, todo, unread>>

SendSucceeds(w) ==
    /\ task[w] # NotSet /\ task[w].claim \in delivered[task[w].identity]
    /\ SendEnds(w, "sent")
    /\ UNCHANGED faults

\* Mutant: the exception of the send is swallowed.
SendRaisesUnnoticed(w) == SendEnds(w, "sent") /\ Fault

\* An error of the network or of Telegram, or the timeout.  The message may
\* have been accepted all the same, and one on the wire may still be.
SendRaises(w) == SendEnds(w, "failed") /\ Fault

Acknowledge(w, row) ==
    LET a == task[w].identity IN
    /\ logs' = IF Owned(logs[a], task[w].claim)
                 THEN [logs EXCEPT ![a] = row] ELSE logs
    /\ (Return(w) /\ UNCHANGED faults) \/ ReplyLost(w)
    /\ UNCHANGED <<telegram, clock, claims>>

\* Mutant: a failed attempt is not given a time for the next one.
AcknowledgeFailureForGood(w) ==
    /\ pc[w] = "failed"
    /\ Acknowledge(w, Released(logs[task[w].identity], "FAILED", NotSet))

AcknowledgeFailure(w) ==
    /\ pc[w] = "failed"
    /\ Acknowledge(w, Released(logs[task[w].identity], "FAILED",
                               task[w].now + RetrySeconds))

AcknowledgeSent(w) ==
    /\ pc[w] = "sent"
    /\ Acknowledge(w, Released(logs[task[w].identity], "SENT", NotSet))

-----------------------------------------------------------------------------
(* Faults, Telegram and time.                                              *)

\* A Mongo call fails without effect: PyMongoError leaves deliver, reserve and
\* retry_due, and watch_forever reconnects.
MongoError(w) ==
    /\ pc[w] \notin {"retry", "send", "down"}
    /\ Fault
    /\ Abandon(w, "retry")
    /\ UNCHANGED <<mongo, telegram, clock>>

Crash(w) ==
    /\ pc[w] # "down"
    /\ Fault
    /\ Abandon(w, "down")
    /\ UNCHANGED <<mongo, telegram, clock>>

Restart(w) ==
    /\ pc[w] = "down"
    /\ Goto(w, "retry")
    /\ UNCHANGED <<mongo, local, telegram, clock, faults>>

Accept(a, claim) ==
    /\ claim \in wire[a]
    /\ wire' = [wire EXCEPT ![a] = @ \ {claim}]
    /\ delivered' = [delivered EXCEPT ![a] = @ \cup {claim}]
    /\ UNCHANGED <<mongo, local, clock, pc, faults>>

\* A message is lost; a sender that still waits for it has had its fault.
Sending(w, a, claim) ==
    pc[w] = "send" /\ task[w].identity = a /\ task[w].claim = claim

Lose(a, claim) ==
    /\ claim \in wire[a]
    /\ \A w \in Workers : ~ Sending(w, a, claim)
    /\ wire' = [wire EXCEPT ![a] = @ \ {claim}]
    /\ UNCHANGED <<mongo, local, clock, pc, delivered, faults>>

\* The instants some guard compares the clock with.  Without one ahead,
\* waiting changes nothing, so the clock need not move.
Timers ==
    {logs[a].lease_until : a \in {b \in Alerts : logs[b].status = "SENDING"}}
    \cup {logs[a].next_attempt_at : a \in {b \in Alerts : logs[b].status = "FAILED"}}
    \cup {task[w].deadline : w \in {v \in Workers : pc[v] \in Timed}}

Tick ==
    /\ clock < Horizon
    /\ \A w \in Workers : pc[w] \in Timed => clock < task[w].deadline
    /\ \E t \in Timers : t # NotSet /\ clock < t
    /\ clock' = clock + 1
    /\ UNCHANGED <<mongo, local, telegram, pc, faults>>

-----------------------------------------------------------------------------
Deliver(w) ==
    \/ \E a \in Alerts : ReadClock(w, a)
    \/ ExpireLease(w) \/ Claim(w) \/ NothingToClaim(w)
    \/ SendSucceeds(w) \/ SendRaises(w)
    \/ AcknowledgeFailure(w) \/ AcknowledgeSent(w)

Loop(w) == retry_due(w) \/ CallerReturns(w) \/ NoChange(w) \/ Restart(w)

Work(w) == Deliver(w) \/ Loop(w)

Next ==
    \/ \E w \in Workers : Work(w) \/ MongoError(w) \/ Crash(w)
    \/ \E w \in Workers, a \in Alerts : reserve(w, a)
    \/ \E a \in Alerts : \E claim \in wire[a] : Accept(a, claim) \/ Lose(a, claim)
    \/ Tick

Spec == Init /\ [][Next]_vars

\* Every process runs on (a crashed one is restarted by its supervisor), the
\* clock does not stop, and a message on the wire arrives or is lost.
Fairness ==
    /\ \A w \in Workers : WF_vars(Work(w))
    /\ \A a \in Alerts :
          WF_vars(\E claim \in wire[a] : Accept(a, claim) \/ Lose(a, claim))
    /\ SF_vars(Tick)

FairSpec == Spec /\ Fairness

-----------------------------------------------------------------------------
(* Safety.                                                                 *)

Exhausted(row) == row.status = "FAILED" /\ row.attempt_count >= MaxAttempts
Settled(row)   == row.status \in {"SENT", "SUPPRESSED"} \/ Exhausted(row)

\* Whatever crashes, replies or leases are lost, every message that ever left
\* for Telegram was one of the attempts counted on its row, and the attempts
\* stay within max_attempts (service.py:238-242).
SendsWithinBudget ==
    \A a \in Alerts :
        /\ wire[a] \cup delivered[a] \subseteq 1 .. logs[a].attempt_count
        /\ logs[a].attempt_count <= MaxAttempts

\* A row says SENT only if Telegram accepted its message, also when the worker
\* that wrote it had lost its lease in the meantime (service.py:258-262).
SentWasDelivered ==
    \A a \in Alerts : logs[a].status = "SENT" => delivered[a] # {}

\* No message leaves for an alert that was suppressed by the policy or is
\* still waiting for its first claim (service.py:206, 221-227).
UnclaimedNeverSent ==
    \A a \in Alerts :
        logs[a].status \in {"ABSENT", "PENDING", "SUPPRESSED"} =>
            wire[a] \cup delivered[a] = {}

\* "Bound in-flight work below the lease" (service.py:247): no two workers are
\* sending the same alert at the same time.
InFlightExclusive ==
    \A v, w \in Workers :
        pc[v] = "send" /\ pc[w] = "send" /\ task[v].identity = task[w].identity
            => v = w

\* A claim is ended by the worker that holds it or, once its lease has run
\* out, by another; never by a late acknowledgement of an earlier claim
\* (the `ownership' filter, service.py:245, 252, 259).
OnlyOwnerOrExpiry ==
    [][\A a \in Alerts :
          logs[a].status = "SENDING" /\ logs'[a] # logs[a] =>
             \/ AtOrBefore(logs[a].lease_until, clock)
             \/ \E w \in Workers : /\ pc[w] \in {"sent", "failed"}
                                   /\ task[w].identity = a
                                   /\ task[w].claim = logs[a].claim_token
                                   /\ pc'[w] # pc[w]]_vars

\* A settled row (SENT, SUPPRESSED, FAILED with no attempt left) is never
\* touched again, whoever still holds an old claim or replays its change.
SettledForever ==
    [][\A a \in Alerts : Settled(logs[a]) => logs'[a] = logs[a]]_vars

-----------------------------------------------------------------------------
(* Refinement.                                                             *)

Verdict(row) ==
    CASE row.status = "ABSENT"     -> "none"
      [] row.status = "SUPPRESSED" -> "unwanted"
      [] row.status = "SENT"       -> "done"
      [] row.status = "FAILED" /\ (Exhausted(row) \/ row.next_attempt_at = NotSet)
                                   -> "given_up"
      [] OTHER                     -> "wanted"

Contract == INSTANCE AlertContract WITH
    Budget   <- MaxAttempts,
    verdict  <- [a \in Alerts |-> Verdict(logs[a])],
    tries    <- [a \in Alerts |-> logs[a].attempt_count],
    received <- delivered

\* The processes, leases and retries of service.py together keep the promise
\* of AlertContract: at most max_attempts tries, no verdict SENT without a
\* received message, no giving up while attempts are left.
KeepsContract == Contract!Spec

-----------------------------------------------------------------------------
(* Liveness, of FairSpec.                                                  *)

\* Every reserved alert is settled in the end: sent, or out of attempts.  No
\* crash, lost reply, full batch or dead sender's lease strands it.
EventuallySettled ==
    \A a \in Alerts : (logs[a].status = "PENDING") ~> Settled(logs[a])

\* It is sent, unless faults have used up as many attempts as it has.
EventuallySent ==
    \A a \in Alerts :
        (logs[a].status = "PENDING") ~> (logs[a].status = "SENT" \/ faults >= MaxAttempts)

=============================================================================
