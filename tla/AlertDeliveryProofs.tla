-------------------------- MODULE AlertDeliveryProofs --------------------------
(***************************************************************************)
(* Proofs about AlertDelivery for every set of alerts and workers, every   *)
(* policy and every number of faults.                                      *)
(***************************************************************************)
EXTENDS AlertDelivery, TLAPS

-----------------------------------------------------------------------------
(* Typing.                                                                 *)

\* Ending a claim yields a row again.
LEMMA ReleasedRow ==
    ASSUME NEW row \in Row, NEW status \in Statuses,
           NEW next_attempt \in Time \cup {NotSet}
    PROVE  Released(row, status, next_attempt) \in Row
BY DEF Released, Row

\* So does granting one, and reserving.
LEMMA ClaimedRow ==
    ASSUME NEW row \in Row, NEW fresh \in Nat, NEW lease \in Time
    PROVE  Granted(row, fresh, lease) \in Row
<1>1. PICK n \in Nat : n = row.attempt_count + 1
  BY DEF Row
<1>2. [row EXCEPT !.status = "SENDING", !.claim_token = fresh,
                  !.lease_until = lease, !.attempt_count = n] \in Row
  BY DEF Row, Statuses
<1> QED  BY <1>1, <1>2 DEF Granted

\* A reservation writes a row of the right shape.
LEMMA ReservedRow ==
    ASSUME NEW status \in {"PENDING", "SUPPRESSED"}, NEW stamp \in Time
    PROVE  [Absent EXCEPT !.status = status, !.next_attempt_at = stamp] \in Row
BY DEF Row, Absent, Statuses

\* The locals of a delivery after its claim, and after its send.
LEMMA ClaimedTask ==
    ASSUME NEW t \in Task, NEW fresh \in Nat, NEW end \in Time
    PROVE  [t EXCEPT !.claim = fresh, !.deadline = end] \in Task
BY DEF Task

\* A task keeps its shape when its clock is read.
LEMMA StampedTask ==
    ASSUME NEW t \in Task, NEW stamp \in Time, NEW end \in Time
    PROVE  [t EXCEPT !.now = stamp, !.deadline = end] \in Task
BY DEF Task

\* A process that drops everything is well typed.
LEMMA AbandonType ==
    ASSUME TypeOK, NEW w \in Workers, NEW phase \in {"retry", "down"},
           Abandon(w, phase)
    PROVE  /\ pc' \in [Workers -> Phases]
           /\ caller' \in [Workers -> {"retry_due", "watch"}]
           /\ todo' \in [Workers -> SUBSET Alerts]
           /\ unread' \in [Workers -> SUBSET Alerts]
           /\ task' \in [Workers -> Task \cup {NotSet}]
           /\ \A v \in Workers : pc'[v] \in Timed => task'[v] \in Task
BY DEF TypeOK, Abandon, Goto, Phases, Timed, Holding

\* Faults are counted within their bound.
LEMMA FaultType == ASSUME TypeOK, Fault PROVE faults' \in 0 .. MaxFaults
BY PolicyAssumption DEF TypeOK, Fault

\* Every step of every process keeps the types.
LEMMA Typing == ASSUME TypeOK, [Next]_vars PROVE TypeOK'
<1> USE PolicyAssumption, NotSetAssumption DEF Time
<1>1. ASSUME NEW w \in Workers, retry_due(w) PROVE TypeOK'
  BY <1>1 DEF TypeOK, retry_due, Due, Goto, mongo, telegram, Phases, Timed, Holding
<1>2. ASSUME NEW w \in Workers, CallerReturns(w) PROVE TypeOK'
  BY <1>2 DEF TypeOK, CallerReturns, Goto, mongo, local, telegram, Phases, Timed, Holding
<1>3. ASSUME NEW w \in Workers, NoChange(w) PROVE TypeOK'
  BY <1>3 DEF TypeOK, NoChange, Goto, mongo, local, telegram, Phases, Timed, Holding
<1>4. ASSUME NEW w \in Workers, NEW a \in Alerts, reserve(w, a) PROVE TypeOK'
  <2>1. logs' \in [Alerts -> Row]
    <3>1. CASE UNCHANGED logs
      BY <3>1 DEF TypeOK
    <3>2. ASSUME NEW status \in {"PENDING", "SUPPRESSED"},
                 logs' = [logs EXCEPT ![a] = [Absent EXCEPT !.status = status,
                                                            !.next_attempt_at = clock]]
          PROVE  logs' \in [Alerts -> Row]
      <4>1. clock \in Time
        BY DEF TypeOK
      <4>2. [Absent EXCEPT !.status = status, !.next_attempt_at = clock] \in Row
        BY <4>1, ReservedRow
      <4> QED  BY <3>2, <4>2 DEF TypeOK
    <3> QED  BY <1>4, <3>1, <3>2 DEF reserve
  <2> QED  BY <2>1, <1>4 DEF TypeOK, reserve, Goto, telegram, Phases, Timed, Holding
<1>5. ASSUME NEW w \in Workers, NEW a \in Alerts, ReadClock(w, a) PROVE TypeOK'
  <2>1. [identity |-> a, now |-> clock, claim |-> 0, deadline |-> clock + Stall] \in Task
    BY DEF TypeOK, Task
  <2> QED
    BY <2>1, <1>5 DEF TypeOK, ReadClock, Goto, mongo, telegram, Phases, Timed, Holding
<1>6. ASSUME NEW w \in Workers, ExpireLease(w) PROVE TypeOK'
  <2>1. task[w] \in Task
    BY <1>6 DEF TypeOK, ExpireLease, Timed
  <2>2. logs' \in [Alerts -> Row]
    BY <1>6, <2>1, ReleasedRow DEF TypeOK, ExpireLease, Task, Statuses
  <2>3. CASE Goto(w, "claim") /\ UNCHANGED <<local, faults>>
    BY <1>6, <2>1, <2>2, <2>3
    DEF TypeOK, ExpireLease, Goto, local, telegram, Phases, Timed, Holding
  <2>4. CASE ReplyLost(w)
    BY <1>6, <2>2, <2>4, AbandonType, FaultType DEF TypeOK, ExpireLease, ReplyLost, telegram
  <2> QED  BY <1>6, <2>3, <2>4 DEF ExpireLease
<1>7. ASSUME NEW w \in Workers, Claim(w) PROVE TypeOK'
  <2> DEFINE a == task[w].identity
             fresh == claims[a] + 1
  <2>1. task[w] \in Task /\ a \in Alerts /\ fresh \in Nat
    BY <1>7 DEF TypeOK, Claim, Timed, Task
  <2>2. logs' \in [Alerts -> Row]
    <3>1. task[w].now + LeaseSeconds \in Time
      BY <2>1 DEF Task
    <3>2. Granted(logs[a], fresh, task[w].now + LeaseSeconds) \in Row
      BY <2>1, <3>1, ClaimedRow DEF TypeOK
    <3> QED  BY <1>7, <2>1, <3>2 DEF TypeOK, Claim
  <2>3. claims' \in [Alerts -> Nat] /\ clock' = clock /\ delivered' = delivered
    BY <1>7, <2>1 DEF TypeOK, Claim
  <2>4. CASE /\ Goto(w, "send")
             /\ wire' = [wire EXCEPT ![a] = @ \cup {fresh}]
             /\ task' = [task EXCEPT ![w] = [@ EXCEPT !.claim = fresh,
                                                     !.deadline = clock + SendTimeout]]
             /\ UNCHANGED <<caller, todo, unread, faults>>
    <3>1. [task[w] EXCEPT !.claim = fresh, !.deadline = clock + SendTimeout] \in Task
      <4>1. clock + SendTimeout \in Time
        BY DEF TypeOK
      <4> QED  BY <2>1, <4>1, ClaimedTask
    <3> QED
      BY <2>1, <2>2, <2>3, <2>4, <3>1 DEF TypeOK, Goto, Phases, Timed, Holding
  <2>5. CASE ReplyLost(w) /\ UNCHANGED wire
    BY <2>2, <2>3, <2>5, AbandonType, FaultType DEF TypeOK, ReplyLost
  <2> QED  BY <1>7, <2>4, <2>5 DEF Claim
<1>8. ASSUME NEW w \in Workers, NothingToClaim(w) PROVE TypeOK'
  BY <1>8 DEF TypeOK, NothingToClaim, Return, Goto, mongo, telegram, Phases, Timed, Holding
<1>9. ASSUME NEW w \in Workers, NEW phase \in {"sent", "failed"}, SendEnds(w, phase),
             faults' \in 0 .. MaxFaults
      PROVE TypeOK'
  <2>1. task[w] \in Task
    BY <1>9 DEF TypeOK, SendEnds, Timed, Holding
  <2>2. [task[w] EXCEPT !.now = clock, !.deadline = clock + Stall] \in Task
    <3>1. clock \in Time /\ clock + Stall \in Time
      BY DEF TypeOK
    <3> QED  BY <2>1, <3>1, StampedTask
  <2> QED
    BY <1>9, <2>1, <2>2 DEF TypeOK, SendEnds, Goto, mongo, telegram, Phases, Timed, Holding
<1>10. ASSUME NEW w \in Workers, SendSucceeds(w) PROVE TypeOK'
  BY <1>9, <1>10 DEF SendSucceeds, TypeOK
<1>11. ASSUME NEW w \in Workers, SendRaises(w) PROVE TypeOK'
  BY <1>9, <1>11, FaultType DEF SendRaises
<1>12. ASSUME NEW w \in Workers, pc[w] \in {"sent", "failed"}, NEW row \in Row,
              Acknowledge(w, row)
       PROVE  TypeOK'
  <2>1. logs' \in [Alerts -> Row]
    BY <1>12 DEF TypeOK, Acknowledge
  <2>2. CASE Return(w) /\ UNCHANGED faults
    BY <1>12, <2>1, <2>2
    DEF TypeOK, Acknowledge, Return, Goto, telegram, Phases, Timed, Holding
  <2>3. CASE ReplyLost(w)
    BY <1>12, <2>1, <2>3, AbandonType, FaultType DEF TypeOK, Acknowledge, ReplyLost, telegram
  <2> QED  BY <1>12, <2>2, <2>3 DEF Acknowledge
<1>13. ASSUME NEW w \in Workers, AcknowledgeFailure(w) PROVE TypeOK'
  <2>1. task[w] \in Task
    BY <1>13 DEF TypeOK, AcknowledgeFailure, Timed, Holding
  <2>2. Released(logs[task[w].identity], "FAILED", task[w].now + RetrySeconds) \in Row
    BY <2>1, ReleasedRow DEF TypeOK, Task, Statuses
  <2> QED  BY <1>12, <1>13, <2>2 DEF AcknowledgeFailure
<1>14. ASSUME NEW w \in Workers, AcknowledgeSent(w) PROVE TypeOK'
  <2>1. task[w] \in Task
    BY <1>14 DEF TypeOK, AcknowledgeSent, Timed, Holding
  <2>2. Released(logs[task[w].identity], "SENT", NotSet) \in Row
    BY <2>1, ReleasedRow DEF TypeOK, Task, Statuses
  <2> QED  BY <1>12, <1>14, <2>2 DEF AcknowledgeSent
<1>15. ASSUME NEW w \in Workers, MongoError(w) PROVE TypeOK'
  BY <1>15, AbandonType, FaultType DEF TypeOK, MongoError, mongo, telegram
<1>16. ASSUME NEW w \in Workers, Crash(w) PROVE TypeOK'
  BY <1>16, AbandonType, FaultType DEF TypeOK, Crash, mongo, telegram
<1>17. ASSUME NEW w \in Workers, Restart(w) PROVE TypeOK'
  BY <1>17 DEF TypeOK, Restart, Goto, mongo, local, telegram, Phases, Timed, Holding
<1>18. ASSUME NEW a \in Alerts, NEW claim \in wire[a], Accept(a, claim) PROVE TypeOK'
  BY <1>18 DEF TypeOK, Accept, mongo, local
<1>19. ASSUME NEW a \in Alerts, NEW claim \in wire[a], Lose(a, claim) PROVE TypeOK'
  BY <1>19 DEF TypeOK, Lose, mongo, local
<1>20. ASSUME Tick PROVE TypeOK'
  BY <1>20 DEF TypeOK, Tick, mongo, local, telegram
<1>21. ASSUME UNCHANGED vars PROVE TypeOK'
  BY <1>21 DEF TypeOK, vars
<1> QED
  BY <1>1, <1>2, <1>3, <1>4, <1>5, <1>6, <1>7, <1>8, <1>10, <1>11, <1>13, <1>14,
     <1>15, <1>16, <1>17, <1>18, <1>19, <1>20, <1>21
  DEF Next, Work, Deliver, Loop

-----------------------------------------------------------------------------
(* The inductive invariant.                                                *)

\* What a row says about the claims granted on it.
Numbered(a) ==
    /\ claims[a] = logs[a].attempt_count
    /\ claims[a] <= MaxAttempts
    /\ wire[a] \cup delivered[a] \subseteq 1 .. claims[a]
    /\ logs[a].status \in {"ABSENT", "PENDING", "SUPPRESSED"} => claims[a] = 0
    /\ logs[a].status = "SENDING" => /\ logs[a].claim_token = claims[a]
                                     /\ logs[a].lease_until \in Time
    /\ logs[a].status = "SENT" => delivered[a] # {}

\* What a worker knows about the claim it holds, or has held.
Owning(w) ==
    /\ pc[w] \in Holding => task[w].claim \in 1 .. claims[task[w].identity]
    /\ pc[w] = "sent" => task[w].claim \in delivered[task[w].identity]

\* A claim is held once.
Distinct ==
    \A v, w \in Workers :
        /\ pc[v] \in Holding /\ pc[w] \in Holding
        /\ task[v].identity = task[w].identity /\ task[v].claim = task[w].claim
        => v = w

IInv ==
    /\ TypeOK
    /\ \A a \in Alerts : Numbered(a)
    /\ \A w \in Workers : Owning(w)
    /\ Distinct

\* Worker v ends the step with a claim only if it began it with that claim.
KeepsClaim(v) ==
    pc'[v] \in Holding =>
        /\ pc[v] \in Holding
        /\ task'[v].identity = task[v].identity
        /\ task'[v].claim = task[v].claim
        /\ pc'[v] = "sent" => \/ pc[v] = "sent"
                              \/ task[v].claim \in delivered[task[v].identity]

\* A step that grants no claim preserves what the owners know.
LEMMA OwnersKept ==
    ASSUME TypeOK, \A w \in Workers : Owning(w), Distinct,
           claims' = claims, \A a \in Alerts : delivered[a] \subseteq delivered'[a],
           \A v \in Workers : KeepsClaim(v)
    PROVE  (\A w \in Workers : Owning(w)') /\ Distinct'
<1>1. ASSUME NEW w \in Workers PROVE Owning(w)'
  <2>1. pc[w] \in Holding => task[w].identity \in Alerts
    BY DEF TypeOK, Timed, Task
  <2>2. "sent" \in Holding
    BY DEF Holding
  <2> QED  BY <2>1, <2>2 DEF Owning, KeepsClaim
<1>2. Distinct'
  BY DEF Distinct, KeepsClaim
<1> QED  BY <1>1, <1>2

\* A step that leaves the rows and Telegram alone preserves what rows say.
LEMMA RowsKept ==
    ASSUME \A a \in Alerts : Numbered(a), UNCHANGED <<mongo, telegram>>
    PROVE  \A a \in Alerts : Numbered(a)'
BY DEF Numbered, mongo, telegram

\* Ending a claim preserves what its row says.
LEMMA RowReleased ==
    ASSUME TypeOK, \A b \in Alerts : Numbered(b), NEW a \in Alerts,
           NEW status \in {"SENT", "FAILED"}, NEW next_attempt,
           status = "SENT" => delivered[a] # {},
           \/ UNCHANGED logs
           \/ logs' = [logs EXCEPT ![a] = Released(logs[a], status, next_attempt)],
           claims' = claims, UNCHANGED telegram
    PROVE  \A b \in Alerts : Numbered(b)'
<1>1. CASE UNCHANGED logs
  BY <1>1 DEF Numbered, telegram
<1>2. CASE logs' = [logs EXCEPT ![a] = Released(logs[a], status, next_attempt)]
  <2>1. logs[a] \in Row
    BY DEF TypeOK
  <2>2. /\ Released(logs[a], status, next_attempt).status = status
        /\ Released(logs[a], status, next_attempt).attempt_count = logs[a].attempt_count
    BY <2>1 DEF Released, Row
  <2>3. logs'[a] = Released(logs[a], status, next_attempt)
    BY <1>2 DEF TypeOK
  <2>4. \A b \in Alerts : b # a => logs'[b] = logs[b]
    BY <1>2 DEF TypeOK
  <2>5. Numbered(a)'
    BY <2>2, <2>3 DEF Numbered, telegram
  <2>6. \A b \in Alerts : b # a => Numbered(b)'
    BY <2>4 DEF Numbered, telegram
  <2> QED  BY <2>5, <2>6
<1> QED  BY <1>1, <1>2

\* Dropping everything releases no claim to another worker.
LEMMA AbandonKeeps ==
    ASSUME TypeOK, NEW w \in Workers, NEW phase \in {"retry", "down"}, Abandon(w, phase)
    PROVE  \A v \in Workers : KeepsClaim(v)
BY DEF TypeOK, Abandon, Goto, KeepsClaim, Holding

\* Every step preserves the invariant.
LEMMA Inductive == ASSUME IInv, [Next]_vars PROVE IInv'
<1> USE DEF IInv
<1>0. TypeOK'
  BY Typing
<1>1. ASSUME NEW w \in Workers, retry_due(w) PROVE IInv'
  <2>1. \A v \in Workers : KeepsClaim(v)
    BY <1>1 DEF TypeOK, retry_due, Goto, KeepsClaim, Holding
  <2> QED  BY <1>0, <1>1, <2>1, OwnersKept, RowsKept DEF retry_due, mongo, telegram
<1>2. ASSUME NEW w \in Workers, CallerReturns(w) PROVE IInv'
  <2>1. \A v \in Workers : KeepsClaim(v)
    BY <1>2 DEF TypeOK, CallerReturns, Goto, local, KeepsClaim, Holding
  <2> QED  BY <1>0, <1>2, <2>1, OwnersKept, RowsKept DEF CallerReturns, mongo, telegram
<1>3. ASSUME NEW w \in Workers, NoChange(w) PROVE IInv'
  <2>1. \A v \in Workers : KeepsClaim(v)
    BY <1>3 DEF TypeOK, NoChange, Goto, local, KeepsClaim, Holding
  <2> QED  BY <1>0, <1>3, <2>1, OwnersKept, RowsKept DEF NoChange, mongo, telegram
<1>4. ASSUME NEW w \in Workers, NEW a \in Alerts, reserve(w, a) PROVE IInv'
  <2>1. \A v \in Workers : KeepsClaim(v)
    BY <1>4 DEF TypeOK, reserve, Goto, KeepsClaim, Holding
  <2>2. ASSUME NEW b \in Alerts PROVE Numbered(b)'
    <3>1. CASE logs' = logs
      BY <1>4, <3>1 DEF reserve, Numbered, telegram
    <3>2. ASSUME NEW status \in {"PENDING", "SUPPRESSED"}, logs[a].status = "ABSENT",
                 logs' = [logs EXCEPT ![a] = [Absent EXCEPT !.status = status,
                                                            !.next_attempt_at = clock]]
          PROVE  Numbered(b)'
      <4>1. CASE b = a
        <5>1. logs'[b].status = status /\ logs'[b].attempt_count = 0
          BY <3>2, <4>1 DEF TypeOK, Absent
        <5> QED  BY <1>4, <3>2, <4>1, <5>1 DEF reserve, Numbered, telegram
      <4>2. CASE b # a
        BY <1>4, <3>2, <4>2 DEF TypeOK, reserve, Numbered, telegram
      <4> QED  BY <4>1, <4>2
    <3> QED  BY <1>4, <3>1, <3>2 DEF reserve
  <2> QED  BY <1>0, <1>4, <2>1, <2>2, OwnersKept DEF reserve, telegram
<1>5. ASSUME NEW w \in Workers, NEW a \in Alerts, ReadClock(w, a) PROVE IInv'
  <2>1. \A v \in Workers : KeepsClaim(v)
    BY <1>5 DEF TypeOK, ReadClock, Goto, KeepsClaim, Holding
  <2> QED  BY <1>0, <1>5, <2>1, OwnersKept, RowsKept DEF ReadClock, mongo, telegram
<1>6. ASSUME NEW w \in Workers, ExpireLease(w) PROVE IInv'
  <2>1. \A v \in Workers : KeepsClaim(v)
    <3>1. CASE Goto(w, "claim") /\ UNCHANGED local
      BY <1>6, <3>1 DEF TypeOK, ExpireLease, Goto, local, KeepsClaim, Holding
    <3> QED  BY <1>6, <3>1, AbandonKeeps DEF ExpireLease, ReplyLost, local
  <2>2. task[w].identity \in Alerts
    BY <1>6 DEF TypeOK, ExpireLease, Timed, Task
  <2>3. \A a \in Alerts : Numbered(a)'
    BY <1>6, <2>2, RowReleased DEF ExpireLease
  <2> QED  BY <1>0, <1>6, <2>1, <2>3, OwnersKept DEF ExpireLease, telegram
<1>7. ASSUME NEW w \in Workers, Claim(w) PROVE IInv'
  <2> DEFINE a == task[w].identity
             fresh == claims[a] + 1
  <2>1. task[w] \in Task /\ a \in Alerts /\ claims[a] \in Nat /\ logs[a] \in Row
    BY <1>7 DEF TypeOK, Claim, Timed, Task
  <2>2. /\ claims' = [claims EXCEPT ![a] = fresh]
        /\ logs' = [logs EXCEPT ![a] = Granted(logs[a], fresh, task[w].now + LeaseSeconds)]
        /\ delivered' = delivered
        /\ logs[a].attempt_count < MaxAttempts
    BY <1>7 DEF Claim, Claimable
  <2>3. \A b \in Alerts : wire'[b] \subseteq wire[b] \cup (IF b = a THEN {fresh} ELSE {})
    BY <1>7 DEF TypeOK, Claim
  <2>4. ASSUME NEW b \in Alerts PROVE Numbered(b)'
    <3>1. CASE b = a
      <4>1. /\ logs'[a].status = "SENDING"
            /\ logs'[a].claim_token = fresh
            /\ logs'[a].attempt_count = logs[a].attempt_count + 1
            /\ logs'[a].lease_until = task[w].now + LeaseSeconds
        BY <2>1, <2>2 DEF TypeOK, Granted, Row
      <4>2. claims'[a] = fresh
        BY <2>1, <2>2 DEF TypeOK
      <4>3. Numbered(a)
        BY <2>1
      <4>4. wire'[a] \cup delivered'[a] \subseteq 1 .. fresh
        <5>1. wire[a] \cup delivered[a] \subseteq 1 .. claims[a]
          BY <4>3 DEF Numbered
        <5>2. 1 .. claims[a] \subseteq 1 .. fresh /\ fresh \in 1 .. fresh
          BY <2>1
        <5> HIDE DEF fresh
        <5> QED  BY <2>1, <2>2, <2>3, <5>1, <5>2
      <4>5. task[w].now + LeaseSeconds \in Time
        BY <2>1, PolicyAssumption DEF Task, Time
      <4>6. fresh <= MaxAttempts /\ fresh = logs[a].attempt_count + 1
        BY <2>1, <2>2, <4>3, PolicyAssumption DEF Numbered
      <4> HIDE DEF fresh, a
      <4> QED  BY <3>1, <4>1, <4>2, <4>4, <4>5, <4>6 DEF Numbered
    <3>2. CASE b # a
      <4>1. claims'[b] = claims[b] /\ logs'[b] = logs[b] /\ wire'[b] \subseteq wire[b]
        BY <2>1, <2>2, <2>3, <3>2 DEF TypeOK
      <4>2. Numbered(b)
        OBVIOUS
      <4> QED  BY <2>2, <4>1, <4>2 DEF Numbered
    <3> QED  BY <3>1, <3>2
  <2>5. CASE /\ Goto(w, "send")
             /\ task' = [task EXCEPT ![w] = [task[w] EXCEPT !.claim = fresh,
                                                     !.deadline = clock + SendTimeout]]
    <3>1. \A v \in Workers : v # w => pc'[v] = pc[v] /\ task'[v] = task[v]
      BY <2>5 DEF TypeOK, Goto
    <3>2. pc'[w] = "send" /\ task'[w].identity = a /\ task'[w].claim = fresh
      BY <2>1, <2>5 DEF TypeOK, Goto, Task
    <3>3. \A b \in Alerts : claims[b] \in Nat /\ claims'[b] \in Nat
                           /\ claims[b] <= claims'[b]
      BY <2>1, <2>2 DEF TypeOK
    <3>4. ASSUME NEW v \in Workers PROVE Owning(v)'
      <4>1. CASE v = w
        BY <2>1, <2>2, <3>2, <4>1 DEF Owning, TypeOK
      <4>2. CASE v # w
        <5>1. pc[v] \in Holding => task[v].identity \in Alerts
          BY DEF TypeOK, Timed, Task
        <5>2. Owning(v)
          OBVIOUS
        <5>3. "sent" \in Holding
          BY DEF Holding
        <5> QED  BY <2>2, <3>1, <3>3, <4>2, <5>1, <5>2, <5>3 DEF Owning
      <4> QED  BY <4>1, <4>2
    <3>5. \A v \in Workers : v # w /\ pc[v] \in Holding /\ task[v].identity = a
                               => task[v].claim # fresh
      <4>1. \A v \in Workers : Owning(v)
        OBVIOUS
      <4> QED  BY <2>1, <4>1 DEF Owning
    <3>6. Distinct'
      <4> HIDE DEF fresh, a
      <4> QED  BY <3>1, <3>2, <3>5 DEF Distinct
    <3> QED  BY <1>0, <2>4, <3>4, <3>6
  <2>6. CASE ReplyLost(w)
    <3>1. \A v \in Workers : v # w => pc'[v] = pc[v] /\ task'[v] = task[v]
      BY <2>6 DEF TypeOK, ReplyLost, Abandon, Goto
    <3>2. pc'[w] \notin Holding /\ pc'[w] # "sent"
      BY <2>6 DEF TypeOK, ReplyLost, Abandon, Goto, Holding
    <3>3. \A b \in Alerts : claims[b] \in Nat /\ claims'[b] \in Nat
                           /\ claims[b] <= claims'[b]
      BY <2>1, <2>2 DEF TypeOK
    <3>4. ASSUME NEW v \in Workers PROVE Owning(v)'
      <4>1. pc[v] \in Holding => task[v].identity \in Alerts
        BY DEF TypeOK, Timed, Task
      <4>2. Owning(v)
        OBVIOUS
      <4>3. "sent" \in Holding
        BY DEF Holding
      <4> QED  BY <2>2, <3>1, <3>2, <3>3, <4>1, <4>2, <4>3 DEF Owning
    <3>5. Distinct'
      BY <3>1, <3>2 DEF Distinct
    <3> QED  BY <1>0, <2>4, <3>4, <3>5
  <2> QED  BY <1>7, <2>5, <2>6 DEF Claim
<1>8. ASSUME NEW w \in Workers, NothingToClaim(w) PROVE IInv'
  <2>1. \A v \in Workers : KeepsClaim(v)
    BY <1>8 DEF TypeOK, NothingToClaim, Return, Goto, KeepsClaim, Holding
  <2> QED  BY <1>0, <1>8, <2>1, OwnersKept, RowsKept DEF NothingToClaim, mongo, telegram
<1>9. ASSUME NEW w \in Workers, NEW phase \in {"sent", "failed"}, SendEnds(w, phase),
             phase = "sent" => task[w].claim \in delivered[task[w].identity]
      PROVE IInv'
  <2>1. task[w] \in Task
    BY <1>9 DEF TypeOK, SendEnds, Timed, Holding
  <2>2. task'[w].identity = task[w].identity /\ task'[w].claim = task[w].claim
    BY <1>9, <2>1 DEF TypeOK, SendEnds, Task
  <2>3. \A v \in Workers : v # w => pc'[v] = pc[v] /\ task'[v] = task[v]
    BY <1>9 DEF TypeOK, SendEnds, Goto
  <2>4. pc[w] \in Holding /\ pc'[w] = phase
    BY <1>9 DEF TypeOK, SendEnds, Goto, Holding
  <2>5. \A v \in Workers : KeepsClaim(v)
    BY <1>9, <2>2, <2>3, <2>4 DEF KeepsClaim
  <2> QED  BY <1>0, <1>9, <2>5, OwnersKept, RowsKept DEF SendEnds, mongo, telegram
<1>10. ASSUME NEW w \in Workers, SendSucceeds(w) PROVE IInv'
  BY <1>9, <1>10 DEF SendSucceeds
<1>11. ASSUME NEW w \in Workers, SendRaises(w) PROVE IInv'
  BY <1>9, <1>11 DEF SendRaises
<1>12. ASSUME NEW w \in Workers, NEW status \in {"SENT", "FAILED"}, NEW next_attempt,
              pc[w] \in {"sent", "failed"}, status = "SENT" => pc[w] = "sent",
              Acknowledge(w, Released(logs[task[w].identity], status, next_attempt))
       PROVE  IInv'
  <2>1. task[w].identity \in Alerts
    BY <1>12 DEF TypeOK, Timed, Holding, Task
  <2>2. status = "SENT" => delivered[task[w].identity] # {}
    BY <1>12 DEF Owning
  <2>3. \A a \in Alerts : Numbered(a)'
    BY <1>12, <2>1, <2>2, RowReleased DEF Acknowledge
  <2>4. \A v \in Workers : KeepsClaim(v)
    <3>1. CASE Return(w)
      BY <3>1 DEF TypeOK, Return, Goto, KeepsClaim, Holding
    <3> QED  BY <1>12, <3>1, AbandonKeeps DEF Acknowledge, ReplyLost
  <2> QED  BY <1>0, <1>12, <2>3, <2>4, OwnersKept DEF Acknowledge, telegram
<1>13. ASSUME NEW w \in Workers, AcknowledgeFailure(w) PROVE IInv'
  BY <1>12, <1>13 DEF AcknowledgeFailure
<1>14. ASSUME NEW w \in Workers, AcknowledgeSent(w) PROVE IInv'
  BY <1>12, <1>14 DEF AcknowledgeSent
<1>15. ASSUME NEW w \in Workers, MongoError(w) PROVE IInv'
  <2>1. \A v \in Workers : KeepsClaim(v)
    BY <1>15, AbandonKeeps DEF MongoError
  <2> QED  BY <1>0, <1>15, <2>1, OwnersKept, RowsKept DEF MongoError, mongo, telegram
<1>16. ASSUME NEW w \in Workers, Crash(w) PROVE IInv'
  <2>1. \A v \in Workers : KeepsClaim(v)
    BY <1>16, AbandonKeeps DEF Crash
  <2> QED  BY <1>0, <1>16, <2>1, OwnersKept, RowsKept DEF Crash, mongo, telegram
<1>17. ASSUME NEW w \in Workers, Restart(w) PROVE IInv'
  <2>1. \A v \in Workers : KeepsClaim(v)
    BY <1>17 DEF TypeOK, Restart, Goto, local, KeepsClaim, Holding
  <2> QED  BY <1>0, <1>17, <2>1, OwnersKept, RowsKept DEF Restart, mongo, telegram
<1>18. ASSUME NEW a \in Alerts, NEW claim \in wire[a], Accept(a, claim) PROVE IInv'
  <2>1. \A v \in Workers : KeepsClaim(v)
    BY <1>18 DEF Accept, local, KeepsClaim
  <2>2. ASSUME NEW b \in Alerts
        PROVE  delivered[b] \subseteq delivered'[b] /\ wire'[b] \cup delivered'[b] = wire[b] \cup delivered[b]
    BY <1>18 DEF TypeOK, Accept
  <2>3. \A b \in Alerts : Numbered(b)'
    BY <1>18, <2>2 DEF Accept, mongo, Numbered
  <2> QED  BY <1>0, <1>18, <2>1, <2>2, <2>3, OwnersKept DEF Accept, mongo
<1>19. ASSUME NEW a \in Alerts, NEW claim \in wire[a], Lose(a, claim) PROVE IInv'
  <2>1. \A v \in Workers : KeepsClaim(v)
    BY <1>19 DEF Lose, local, KeepsClaim
  <2>2. \A b \in Alerts : wire'[b] \subseteq wire[b]
    BY <1>19 DEF TypeOK, Lose
  <2>3. \A b \in Alerts : Numbered(b)'
    BY <1>19, <2>2 DEF Lose, mongo, Numbered
  <2> QED  BY <1>0, <1>19, <2>1, <2>3, OwnersKept DEF Lose, mongo
<1>20. ASSUME Tick PROVE IInv'
  <2>1. \A v \in Workers : KeepsClaim(v)
    BY <1>20 DEF Tick, local, KeepsClaim
  <2> QED  BY <1>0, <1>20, <2>1, OwnersKept, RowsKept DEF Tick, mongo, telegram
<1>21. ASSUME UNCHANGED vars PROVE IInv'
  <2>1. \A v \in Workers : KeepsClaim(v)
    BY <1>21 DEF vars, KeepsClaim
  <2> QED  BY <1>0, <1>21, <2>1, OwnersKept, RowsKept DEF vars, mongo, telegram
<1> QED
  BY <1>1, <1>2, <1>3, <1>4, <1>5, <1>6, <1>7, <1>8, <1>10, <1>11, <1>13, <1>14,
     <1>15, <1>16, <1>17, <1>18, <1>19, <1>20, <1>21
  DEF Next, Work, Deliver, Loop

\* The invariant holds at first.
LEMMA Initial == ASSUME Init PROVE IInv
<1>1. Absent \in Row
  BY DEF Absent, Row, Statuses
<1>2. TypeOK
  BY <1>1, PolicyAssumption
  DEF Init, TypeOK, Time, Phases, Timed, Holding
<1>3. \A a \in Alerts : Numbered(a)
  BY PolicyAssumption DEF Init, Numbered, Absent
<1>4. (\A w \in Workers : Owning(w)) /\ Distinct
  BY DEF Init, Owning, Distinct, Holding
<1> QED  BY <1>2, <1>3, <1>4 DEF IInv

\* The invariant holds in every behaviour of delivery.
THEOREM Invariance == Spec => []IInv
BY Initial, Inductive, PTL DEF Spec

\* Types are kept (the state of alert_log and of the processes, service.py).
THEOREM TypeCorrectness == Spec => []TypeOK
<1>1. IInv => TypeOK
  BY DEF IInv
<1> QED  BY <1>1, Invariance, PTL

\* However processes crash, lose replies or lose leases, no message leaves that
\* is not one of at most max_attempts counted attempts (service.py:238-242).
THEOREM BudgetKept == Spec => []SendsWithinBudget
<1>1. IInv => SendsWithinBudget
  BY DEF IInv, Numbered, SendsWithinBudget
<1> QED  BY <1>1, Invariance, PTL

\* A row is SENT only after Telegram accepted its message (service.py:258-262).
THEOREM SentOnlyIfDelivered == Spec => []SentWasDelivered
<1>1. IInv => SentWasDelivered
  BY DEF IInv, Numbered, SentWasDelivered
<1> QED  BY <1>1, Invariance, PTL

\* Nothing is sent for suppressed or unclaimed rows (service.py:206, 221-227).
THEOREM UnclaimedStaySilent == Spec => []UnclaimedNeverSent
<1>1. IInv => UnclaimedNeverSent
  <2> SUFFICES ASSUME IInv, NEW a \in Alerts, claims[a] = 0
               PROVE  wire[a] \cup delivered[a] = {}
    BY DEF IInv, Numbered, UnclaimedNeverSent
  <2>1. wire[a] \cup delivered[a] \subseteq 1 .. 0
    BY DEF IInv, Numbered
  <2> QED  BY <2>1
<1> QED  BY <1>1, Invariance, PTL

-----------------------------------------------------------------------------
(* Who may change a row.                                                   *)

\* The four ways a row changes in one step.
ReservedBy(a) ==
    /\ logs[a].status = "ABSENT"
    /\ \E status \in {"PENDING", "SUPPRESSED"} :
          logs'[a] = [Absent EXCEPT !.status = status, !.next_attempt_at = clock]
ExpiredBy(w, a) ==
    /\ pc[w] = "expire" /\ task[w].identity = a
    /\ ExpiredForGood(logs[a], task[w].now)
    /\ logs'[a] = Released(logs[a], "FAILED", NotSet)
ClaimedBy(w, a) ==
    /\ pc[w] = "claim" /\ task[w].identity = a
    /\ Claimable(logs[a], task[w].now)
    /\ logs'[a] = Granted(logs[a], claims[a] + 1, task[w].now + LeaseSeconds)
AcknowledgedBy(w, a) ==
    /\ pc[w] \in {"sent", "failed"} /\ pc'[w] # pc[w] /\ task[w].identity = a
    /\ Owned(logs[a], task[w].claim)
    /\ logs'[a] = IF pc[w] = "sent"
                    THEN Released(logs[a], "SENT", NotSet)
                    ELSE Released(logs[a], "FAILED", task[w].now + RetrySeconds)

\* There are no others.
LEMMA RowChanges ==
    ASSUME TypeOK, [Next]_vars, NEW a \in Alerts, logs'[a] # logs[a]
    PROVE  \/ ReservedBy(a)
           \/ \E w \in Workers : ExpiredBy(w, a) \/ ClaimedBy(w, a) \/ AcknowledgedBy(w, a)
<1> DEFINE Change == \/ ReservedBy(a)
                     \/ \E w \in Workers : \/ ExpiredBy(w, a) \/ ClaimedBy(w, a)
                                          \/ AcknowledgedBy(w, a)
<1>1. ASSUME NEW w \in Workers, NEW b \in Alerts, reserve(w, b) PROVE Change
  BY <1>1 DEF TypeOK, reserve, ReservedBy
<1>2. ASSUME NEW w \in Workers, ExpireLease(w) PROVE Change
  BY <1>2 DEF TypeOK, ExpireLease, ExpiredBy
<1>3. ASSUME NEW w \in Workers, Claim(w) PROVE Change
  BY <1>3 DEF TypeOK, Claim, ClaimedBy
<1>4. ASSUME NEW w \in Workers, NEW phase \in {"next", "retry"}, Goto(w, phase),
             pc[w] \in {"sent", "failed"}
      PROVE  pc'[w] # pc[w]
  BY <1>4 DEF TypeOK, Goto
<1>5. ASSUME NEW w \in Workers, AcknowledgeFailure(w) PROVE Change
  <2>1. pc'[w] # pc[w]
    BY <1>4, <1>5 DEF AcknowledgeFailure, Acknowledge, Return, ReplyLost, Abandon
  <2> QED  BY <1>5, <2>1 DEF TypeOK, AcknowledgeFailure, Acknowledge, AcknowledgedBy
<1>6. ASSUME NEW w \in Workers, AcknowledgeSent(w) PROVE Change
  <2>1. pc'[w] # pc[w]
    BY <1>4, <1>6 DEF AcknowledgeSent, Acknowledge, Return, ReplyLost, Abandon
  <2> QED  BY <1>6, <2>1 DEF TypeOK, AcknowledgeSent, Acknowledge, AcknowledgedBy
<1>7. ASSUME NEW w \in Workers,
             \/ retry_due(w) \/ CallerReturns(w) \/ NoChange(w) \/ Restart(w)
             \/ NothingToClaim(w) \/ MongoError(w) \/ Crash(w)
      PROVE  FALSE
  BY <1>7 DEF retry_due, CallerReturns, NoChange, Restart, NothingToClaim, MongoError,
              Crash, mongo
<1>8. ASSUME NEW w \in Workers, NEW b \in Alerts, ReadClock(w, b) PROVE FALSE
  BY <1>8 DEF ReadClock, mongo
<1>9. ASSUME NEW w \in Workers, SendSucceeds(w) \/ SendRaises(w) PROVE FALSE
  BY <1>9 DEF SendSucceeds, SendRaises, SendEnds, mongo
<1>10. ASSUME NEW b \in Alerts, NEW claim, Accept(b, claim) \/ Lose(b, claim) PROVE FALSE
  BY <1>10 DEF Accept, Lose, mongo
<1>11. ASSUME Tick \/ UNCHANGED vars PROVE FALSE
  BY <1>11 DEF Tick, vars, mongo
<1> HIDE DEF Change
<1>12. Change
  BY <1>1, <1>2, <1>3, <1>5, <1>6, <1>7, <1>8, <1>9, <1>10, <1>11
  DEF Next, Work, Deliver, Loop
<1> QED  BY <1>12 DEF Change

\* A settled row (SENT, SUPPRESSED, FAILED without attempts left) never changes,
\* whoever still holds an old claim or sees its change again (service.py:160-265).
THEOREM SettledRowsStay == Spec => SettledForever
<1>1. ASSUME IInv, [Next]_vars, NEW a \in Alerts, Settled(logs[a])
      PROVE  logs'[a] = logs[a]
  <2> SUFFICES ASSUME logs'[a] # logs[a] PROVE FALSE
    OBVIOUS
  <2>1. TypeOK /\ logs[a].attempt_count \in Nat
    BY <1>1 DEF IInv, TypeOK, Row
  <2>2. \/ ReservedBy(a)
        \/ \E w \in Workers : ExpiredBy(w, a) \/ ClaimedBy(w, a) \/ AcknowledgedBy(w, a)
    BY <1>1, <2>1, RowChanges
  <2> QED
    BY <1>1, <2>1, <2>2, PolicyAssumption
    DEF Settled, Exhausted, ReservedBy, ExpiredBy, ClaimedBy, AcknowledgedBy,
        ExpiredForGood, Claimable, due_query, Owned
<1>2. IInv /\ [Next]_vars =>
        [\A a \in Alerts : Settled(logs[a]) => logs'[a] = logs[a]]_vars
  BY <1>1
<1> QED  BY <1>2, Invariance, PTL DEF Spec, SettledForever

-----------------------------------------------------------------------------
(* Clocks and leases.                                                      *)

\* What a worker in the middle of a delivery knows of the time.
Clocked(w) ==
    pc[w] \in Timed =>
        /\ task[w].now <= clock /\ clock <= task[w].deadline
        /\ pc[w] \in {"expire", "claim"} => task[w].deadline <= task[w].now + Stall

\* A worker sends under a lease that outlives the send.
InLease(w) ==
    pc[w] = "send" =>
        /\ logs[task[w].identity].status = "SENDING"
        /\ logs[task[w].identity].claim_token = task[w].claim
        /\ logs[task[w].identity].lease_until \in Time
        /\ task[w].deadline < logs[task[w].identity].lease_until

\* A worker that goes on in time, or drops its task, stays clocked.
LEMMA ClockedKept ==
    ASSUME TypeOK, NEW v \in Workers, Clocked(v), clock' = clock,
           pc'[v] \in Timed => /\ pc[v] \in Timed /\ task'[v] = task[v]
                               /\ pc'[v] \in {"expire", "claim"} =>
                                     pc[v] \in {"expire", "claim"}
    PROVE  Clocked(v)'
BY DEF Clocked

\* Every step keeps every worker clocked.
LEMMA ClockedStep ==
    ASSUME TypeOK, \A v \in Workers : Clocked(v), [Next]_vars
    PROVE  \A v \in Workers : Clocked(v)'
<1> SUFFICES ASSUME NEW v \in Workers PROVE Clocked(v)'
  OBVIOUS
<1> USE DEF Timed, Holding
<1>0. clock \in Nat /\ clock <= clock + Stall /\ clock <= clock + SendTimeout
  BY PolicyAssumption DEF TypeOK, Time
<1>1. ASSUME NEW w \in Workers,
             retry_due(w) \/ CallerReturns(w) \/ NoChange(w) \/ Restart(w)
      PROVE  Clocked(v)'
  BY <1>1, ClockedKept
  DEF TypeOK, retry_due, CallerReturns, NoChange, Restart, Goto, local
<1>2. ASSUME NEW w \in Workers, NEW a \in Alerts, reserve(w, a) PROVE Clocked(v)'
  BY <1>2, ClockedKept DEF TypeOK, reserve, Goto
<1>3. ASSUME NEW w \in Workers, NEW a \in Alerts, ReadClock(w, a) PROVE Clocked(v)'
  <2>1. CASE v = w
    <3>1. task'[v].now = clock /\ task'[v].deadline = clock + Stall /\ clock' = clock
      BY <1>3, <2>1 DEF TypeOK, ReadClock
    <3> QED  BY <1>0, <3>1, PolicyAssumption DEF Clocked
  <2>2. CASE v # w
    BY <1>3, <2>2, ClockedKept DEF TypeOK, ReadClock, Goto
  <2> QED  BY <2>1, <2>2
<1>4. ASSUME NEW w \in Workers, NEW phase \in {"retry", "down"}, Abandon(w, phase),
             clock' = clock
      PROVE  Clocked(v)'
  BY <1>4, ClockedKept DEF TypeOK, Abandon, Goto
<1>5. ASSUME NEW w \in Workers, ExpireLease(w) PROVE Clocked(v)'
  <2>1. CASE Goto(w, "claim") /\ UNCHANGED local
    BY <1>5, <2>1, ClockedKept DEF TypeOK, ExpireLease, Goto, local
  <2> QED  BY <1>4, <1>5, <2>1 DEF ExpireLease, ReplyLost, local
<1>6. ASSUME NEW w \in Workers, Claim(w) PROVE Clocked(v)'
  <2>1. CASE /\ Goto(w, "send")
             /\ task' = [task EXCEPT ![w] =
                           [task[w] EXCEPT !.claim = claims[task[w].identity] + 1,
                                           !.deadline = clock + SendTimeout]]
    <3>1. CASE v = w
      <4>1. task[v] \in Task
        BY <1>6, <3>1 DEF TypeOK, Claim
      <4>2. task'[v].now = task[v].now /\ task'[v].deadline = clock + SendTimeout
        BY <2>1, <3>1, <4>1 DEF TypeOK, Task
      <4>3. pc[v] \in Timed /\ pc'[v] = "send" /\ clock' = clock
        BY <1>6, <2>1, <3>1 DEF TypeOK, Claim, Goto
      <4> QED  BY <1>0, <4>2, <4>3 DEF Clocked
    <3>2. CASE v # w
      BY <1>6, <2>1, <3>2, ClockedKept DEF TypeOK, Claim, Goto
    <3> QED  BY <3>1, <3>2
  <2> QED  BY <1>4, <1>6, <2>1 DEF Claim, ReplyLost
<1>7. ASSUME NEW w \in Workers, NothingToClaim(w) PROVE Clocked(v)'
  BY <1>7, ClockedKept DEF TypeOK, NothingToClaim, Return, Goto
<1>8. ASSUME NEW w \in Workers, SendSucceeds(w) \/ SendRaises(w) PROVE Clocked(v)'
  <2>1. PICK phase \in {"sent", "failed"} : SendEnds(w, phase)
    BY <1>8 DEF SendSucceeds, SendRaises
  <2>2. CASE v = w
    <3>1. task[v] \in Task
      BY <2>1, <2>2 DEF TypeOK, SendEnds
    <3>2. task'[v].now = clock /\ task'[v].deadline = clock + Stall
      BY <2>1, <2>2, <3>1 DEF TypeOK, SendEnds, Task
    <3>3. pc'[v] \in {"sent", "failed"} /\ clock' = clock
      BY <2>1, <2>2 DEF TypeOK, SendEnds, Goto
    <3> QED  BY <1>0, <3>2, <3>3 DEF Clocked
  <2>3. CASE v # w
    BY <2>1, <2>3, ClockedKept DEF TypeOK, SendEnds, Goto
  <2> QED  BY <2>2, <2>3
<1>9. ASSUME NEW w \in Workers, AcknowledgeFailure(w) \/ AcknowledgeSent(w)
      PROVE  Clocked(v)'
  <2>1. PICK row : Acknowledge(w, row)
    BY <1>9 DEF AcknowledgeFailure, AcknowledgeSent
  <2>2. CASE Return(w)
    BY <2>1, <2>2, ClockedKept DEF TypeOK, Acknowledge, Return, Goto
  <2> QED  BY <1>4, <2>1, <2>2 DEF Acknowledge, ReplyLost
<1>10. ASSUME NEW w \in Workers, MongoError(w) \/ Crash(w) PROVE Clocked(v)'
  BY <1>4, <1>10 DEF MongoError, Crash
<1>11. ASSUME NEW a \in Alerts, NEW claim, Accept(a, claim) \/ Lose(a, claim)
       PROVE  Clocked(v)'
  BY <1>11, ClockedKept DEF TypeOK, Accept, Lose, local
<1>12. ASSUME Tick PROVE Clocked(v)'
  <2>1. /\ clock' = clock + 1 /\ pc' = pc /\ task' = task
        /\ pc[v] \in Timed => clock < task[v].deadline
    BY <1>12 DEF Tick, local
  <2>2. pc[v] \in Timed => task[v].now \in Nat /\ task[v].deadline \in Nat
    BY DEF TypeOK, Task, Time
  <2> QED  BY <1>0, <2>1, <2>2 DEF Clocked
<1>13. ASSUME UNCHANGED vars PROVE Clocked(v)'
  BY <1>13, ClockedKept DEF vars
<1> QED
  BY <1>1, <1>2, <1>3, <1>5, <1>6, <1>7, <1>8, <1>9, <1>10, <1>11, <1>12, <1>13
  DEF Next, Work, Deliver, Loop

\* Every worker is clocked in every behaviour.
THEOREM ClockInvariance == Spec => [](\A w \in Workers : Clocked(w))
<1>1. Init => \A w \in Workers : Clocked(w)
  BY DEF Init, Clocked, Timed, Holding
<1>2. IInv /\ (\A w \in Workers : Clocked(w)) /\ [Next]_vars
        => (\A w \in Workers : Clocked(w))'
  BY ClockedStep DEF IInv
<1> QED  BY <1>1, <1>2, Invariance, PTL DEF Spec

\* A query made with a clock read earlier finds nothing that is not due now.
LEMMA OlderClock ==
    ASSUME TypeOK, NEW a \in Alerts, NEW t \in Time, t <= clock,
           AtOrBefore(logs[a].lease_until, t)
    PROVE  AtOrBefore(logs[a].lease_until, clock)
<1>1. logs[a].lease_until \in Nat /\ clock \in Nat
  BY DEF TypeOK, Row, Time, AtOrBefore
<1> QED  BY <1>1 DEF AtOrBefore, Time

\* Only its owner ends a claim before its lease runs out: no acknowledgement of
\* an earlier claim ever touches it (service.py:245, 252, 259).
THEOREM ClaimsAreOwned == Spec => OnlyOwnerOrExpiry
<1> DEFINE Legal(a) ==
      \/ AtOrBefore(logs[a].lease_until, clock)
      \/ \E w \in Workers : /\ pc[w] \in {"sent", "failed"}
                            /\ task[w].identity = a
                            /\ task[w].claim = logs[a].claim_token
                            /\ pc'[w] # pc[w]
<1>1. ASSUME IInv, \A w \in Workers : Clocked(w), [Next]_vars, NEW a \in Alerts,
             logs[a].status = "SENDING", logs'[a] # logs[a]
      PROVE  Legal(a)
  <2>1. TypeOK
    BY <1>1 DEF IInv
  <2>2. ASSUME NEW w \in Workers, ExpiredBy(w, a) \/ ClaimedBy(w, a)
        PROVE  AtOrBefore(logs[a].lease_until, clock)
    <3>1. AtOrBefore(logs[a].lease_until, task[w].now)
      BY <1>1, <2>2 DEF ExpiredBy, ClaimedBy, ExpiredForGood, Claimable, due_query
    <3>2. task[w].now \in Time /\ task[w].now <= clock
      BY <1>1, <2>1, <2>2 DEF ExpiredBy, ClaimedBy, Clocked, Timed, TypeOK, Task
    <3> QED  BY <2>1, <3>1, <3>2, OlderClock
  <2>3. ASSUME NEW w \in Workers, AcknowledgedBy(w, a) PROVE Legal(a)
    BY <2>3 DEF AcknowledgedBy, Owned
  <2>4. ~ ReservedBy(a)
    BY <1>1 DEF ReservedBy
  <2> QED  BY <1>1, <2>1, <2>2, <2>3, <2>4, RowChanges
<1>2. IInv /\ (\A w \in Workers : Clocked(w)) /\ [Next]_vars =>
        [\A a \in Alerts : logs[a].status = "SENDING" /\ logs'[a] # logs[a] => Legal(a)]_vars
  BY <1>1
<1> QED  BY <1>2, Invariance, ClockInvariance, PTL DEF Spec, OnlyOwnerOrExpiry

\* A worker is sending because it was, or because it has just been granted a
\* claim on the row.
LEMMA SendBegins ==
    ASSUME TypeOK, [Next]_vars, NEW v \in Workers, pc'[v] = "send"
    PROVE  \/ pc[v] = "send" /\ task'[v] = task[v]
           \/ /\ Claim(v)
              /\ task' = [task EXCEPT ![v] =
                           [task[v] EXCEPT !.claim = claims[task[v].identity] + 1,
                                           !.deadline = clock + SendTimeout]]
<1>1. ASSUME NEW w \in Workers, Claim(w), w # v PROVE pc[v] = "send" /\ task'[v] = task[v]
  BY <1>1 DEF TypeOK, Claim, Goto, ReplyLost, Abandon
<1>2. ASSUME Claim(v), ReplyLost(v) PROVE FALSE
  BY <1>2 DEF TypeOK, ReplyLost, Abandon, Goto
<1>3. ASSUME NEW w \in Workers,
             \/ retry_due(w) \/ CallerReturns(w) \/ NoChange(w) \/ Restart(w)
             \/ NothingToClaim(w) \/ MongoError(w) \/ Crash(w)
      PROVE  pc[v] = "send" /\ task'[v] = task[v]
  BY <1>3 DEF TypeOK, retry_due, CallerReturns, NoChange, Restart, NothingToClaim,
              MongoError, Crash, Goto, Return, Abandon, local
<1>4. ASSUME NEW w \in Workers, NEW a \in Alerts, reserve(w, a) \/ ReadClock(w, a)
      PROVE  pc[v] = "send" /\ task'[v] = task[v]
  BY <1>4 DEF TypeOK, reserve, ReadClock, Goto
<1>5. ASSUME NEW w \in Workers, ExpireLease(w)
      PROVE  pc[v] = "send" /\ task'[v] = task[v]
  BY <1>5 DEF TypeOK, ExpireLease, ReplyLost, Abandon, Goto, local
<1>6. ASSUME NEW w \in Workers, AcknowledgeFailure(w) \/ AcknowledgeSent(w)
      PROVE  pc[v] = "send" /\ task'[v] = task[v]
  BY <1>6 DEF TypeOK, AcknowledgeFailure, AcknowledgeSent, Acknowledge, Return,
              ReplyLost, Abandon, Goto
<1>7. ASSUME NEW w \in Workers, SendSucceeds(w) \/ SendRaises(w)
      PROVE  pc[v] = "send" /\ task'[v] = task[v]
  BY <1>7 DEF TypeOK, SendSucceeds, SendRaises, SendEnds, Goto
<1>8. ASSUME NEW a \in Alerts, NEW claim, Accept(a, claim) \/ Lose(a, claim)
      PROVE  pc[v] = "send" /\ task'[v] = task[v]
  BY <1>8 DEF Accept, Lose, local
<1>9. ASSUME Tick \/ UNCHANGED vars PROVE pc[v] = "send" /\ task'[v] = task[v]
  BY <1>9 DEF Tick, vars, local
<1>10. ASSUME Claim(v), ~ ReplyLost(v)
       PROVE  task' = [task EXCEPT ![v] =
                        [task[v] EXCEPT !.claim = claims[task[v].identity] + 1,
                                        !.deadline = clock + SendTimeout]]
  BY <1>10 DEF Claim
<1> QED
  BY <1>1, <1>2, <1>3, <1>4, <1>5, <1>6, <1>7, <1>8, <1>9, <1>10
  DEF Next, Work, Deliver, Loop

\* If a send and what precedes it fit in the lease, a sender keeps its lease.
LEMMA InLeaseStep ==
    ASSUME Stall + SendTimeout < LeaseSeconds,
           IInv, \A w \in Workers : Clocked(w), \A w \in Workers : InLease(w), [Next]_vars
    PROVE  \A w \in Workers : InLease(w)'
<1>0. TypeOK
  BY DEF IInv
<1> SUFFICES ASSUME NEW v \in Workers, pc'[v] = "send" PROVE InLease(v)'
  BY DEF InLease
<1>1. CASE pc[v] = "send" /\ task'[v] = task[v]
  <2> DEFINE a == task[v].identity
  <2>1. a \in Alerts /\ task[v].deadline \in Nat /\ clock \in Nat
    BY <1>0, <1>1 DEF TypeOK, Timed, Holding, Task, Time
  <2>2. InLease(v) /\ Clocked(v)
    OBVIOUS
  <2>3. clock < logs[a].lease_until /\ logs[a].lease_until \in Nat
    BY <1>1, <2>1, <2>2 DEF InLease, Clocked, Timed, Holding, Time
  <2>4. ~ AtOrBefore(logs[a].lease_until, clock)
    BY <2>1, <2>3 DEF AtOrBefore
  <2>5. logs'[a] = logs[a]
    <3> SUFFICES ASSUME logs'[a] # logs[a] PROVE FALSE
      OBVIOUS
    <3>1. ASSUME NEW w \in Workers, ExpiredBy(w, a) \/ ClaimedBy(w, a) PROVE FALSE
      <4>1. AtOrBefore(logs[a].lease_until, task[w].now)
        BY <1>1, <2>2, <3>1
        DEF InLease, ExpiredBy, ClaimedBy, ExpiredForGood, Claimable, due_query
      <4>2. task[w].now \in Time /\ task[w].now <= clock
        BY <1>0, <3>1 DEF ExpiredBy, ClaimedBy, Clocked, Timed, TypeOK, Task
      <4> QED  BY <1>0, <2>1, <2>4, <4>1, <4>2, OlderClock
    <3>2. ASSUME NEW w \in Workers, AcknowledgedBy(w, a) PROVE FALSE
      <4>1. task[w].claim = task[v].claim /\ task[w].identity = task[v].identity
        BY <1>1, <2>2, <3>2 DEF AcknowledgedBy, Owned, InLease
      <4>2. v = w
        BY <1>1, <3>2, <4>1 DEF IInv, Distinct, AcknowledgedBy, Holding
      <4> QED  BY <1>1, <3>2, <4>2 DEF AcknowledgedBy
    <3>3. ~ ReservedBy(a)
      BY <1>1, <2>2 DEF ReservedBy, InLease
    <3> QED  BY <1>0, <2>1, <3>1, <3>2, <3>3, RowChanges
  <2> QED  BY <1>1, <2>2, <2>5 DEF InLease
<1>2. CASE /\ Claim(v)
           /\ task' = [task EXCEPT ![v] =
                        [task[v] EXCEPT !.claim = claims[task[v].identity] + 1,
                                        !.deadline = clock + SendTimeout]]
  <2> DEFINE a == task[v].identity
  <2>1. task[v] \in Task /\ a \in Alerts /\ logs[a] \in Row
    BY <1>0, <1>2 DEF TypeOK, Claim, Timed, Task
  <2>2. /\ task'[v].identity = a /\ task'[v].claim = claims[a] + 1
        /\ task'[v].deadline = clock + SendTimeout
    BY <1>0, <1>2, <2>1 DEF TypeOK, Task
  <2>3. logs'[a] = Granted(logs[a], claims[a] + 1, task[v].now + LeaseSeconds)
    BY <1>0, <1>2, <2>1 DEF TypeOK, Claim
  <2>4. /\ logs'[a].status = "SENDING" /\ logs'[a].claim_token = claims[a] + 1
        /\ logs'[a].lease_until = task[v].now + LeaseSeconds
    BY <2>1, <2>3 DEF Granted, Row
  <2>5. clock + SendTimeout < task[v].now + LeaseSeconds
    <3>1. clock <= task[v].deadline /\ task[v].deadline <= task[v].now + Stall
      BY <1>2 DEF Clocked, Claim, Timed
    <3>2. clock \in Nat /\ task[v].now \in Nat /\ task[v].deadline \in Nat
      BY <1>0, <2>1 DEF TypeOK, Task, Time
    <3> QED  BY <3>1, <3>2, PolicyAssumption
  <2>6. task[v].now + LeaseSeconds \in Time
    BY <2>1, PolicyAssumption DEF Task, Time
  <2> HIDE DEF a
  <2> QED  BY <2>2, <2>4, <2>5, <2>6 DEF InLease
<1> QED  BY <1>0, <1>1, <1>2, SendBegins

\* "Bound in-flight work below the lease" (service.py:247) keeps its promise when
\* the Mongo calls before the send and the send together fit in the lease: then
\* no two processes ever send the same alert at the same time.
THEOREM InFlightExclusion ==
    ASSUME Stall + SendTimeout < LeaseSeconds
    PROVE  Spec => []InFlightExclusive
<1>1. Init => \A w \in Workers : InLease(w)
  BY DEF Init, InLease
<1>2. IInv /\ (\A w \in Workers : Clocked(w)) /\ (\A w \in Workers : InLease(w)) /\ [Next]_vars
        => (\A w \in Workers : InLease(w))'
  BY InLeaseStep
<1>3. IInv /\ (\A w \in Workers : InLease(w)) => InFlightExclusive
  BY DEF IInv, Distinct, InLease, InFlightExclusive, Holding
<1> QED  BY <1>1, <1>2, <1>3, Invariance, ClockInvariance, PTL DEF Spec

-----------------------------------------------------------------------------
(* Refinement.                                                             *)

\* What the contract sees of the rows.
Verdicts == [a \in Alerts |-> Verdict(logs[a])]
Tries    == [a \in Alerts |-> logs[a].attempt_count]

\* A step that changes no row and no delivery is a stutter of the contract.
LEMMA ContractStutter ==
    ASSUME UNCHANGED <<logs, delivered>> PROVE UNCHANGED Contract!vars
BY DEF Contract!vars

\* A row that is replaced is seen by its verdict and its tries alone.
LEMMA RowReplaced ==
    ASSUME TypeOK, NEW a \in Alerts, NEW row, logs' = [logs EXCEPT ![a] = row]
    PROVE  /\ Tries' = [Tries EXCEPT ![a] = row.attempt_count]
           /\ Verdicts' = [Verdicts EXCEPT ![a] = Verdict(row)]
<1>1. \A b \in Alerts : logs'[b] = IF b = a THEN row ELSE logs[b]
  BY DEF TypeOK
<1>2. \A b \in Alerts : Verdict(logs'[b]) = IF b = a THEN Verdict(row) ELSE Verdict(logs[b])
  BY <1>1
<1>3. Tries' = [Tries EXCEPT ![a] = row.attempt_count]
  <2>1. \A b \in Alerts : logs'[b].attempt_count =
                            IF b = a THEN row.attempt_count ELSE logs[b].attempt_count
    BY <1>1
  <2> QED  BY <2>1 DEF Tries
<1>4. Verdicts' = [Verdicts EXCEPT ![a] = Verdict(row)]
  BY <1>2 DEF Verdicts
<1> QED  BY <1>3, <1>4

\* A row whose claim is ended keeps its tries.
LEMMA ReleasedFields ==
    ASSUME NEW row \in Row, NEW status, NEW next_attempt
    PROVE  /\ Released(row, status, next_attempt).status = status
           /\ Released(row, status, next_attempt).next_attempt_at = next_attempt
           /\ Released(row, status, next_attempt).attempt_count = row.attempt_count
BY DEF Released, Row

\* So a step that ends a claim only changes the verdict.
LEMMA ReleasedVerdict ==
    ASSUME TypeOK, NEW a \in Alerts, NEW row, logs' = [logs EXCEPT ![a] = row],
           row.attempt_count = logs[a].attempt_count
    PROVE  Tries' = Tries /\ Verdicts' = [Verdicts EXCEPT ![a] = Verdict(row)]
<1>1. Tries' = [Tries EXCEPT ![a] = row.attempt_count]
  BY RowReplaced
<1>2. Tries' = Tries
  BY <1>1 DEF Tries
<1> QED  BY <1>2, RowReplaced

\* Each step of delivery is a step of the contract, or a stutter.
LEMMA ContractStep ==
    ASSUME IInv, [Next]_vars
    PROVE  Contract!Next \/ UNCHANGED Contract!vars
<1> USE PolicyAssumption
<1>0. TypeOK /\ \A a \in Alerts : Numbered(a)
  BY DEF IInv
<1>1. ASSUME NEW w \in Workers, NEW a \in Alerts, reserve(w, a)
      PROVE  Contract!Next \/ UNCHANGED Contract!vars
  <2>1. CASE UNCHANGED logs
    BY <1>1, <2>1, ContractStutter DEF reserve, telegram
  <2>2. ASSUME NEW status \in {"PENDING", "SUPPRESSED"}, logs[a].status = "ABSENT",
               logs' = [logs EXCEPT ![a] = [Absent EXCEPT !.status = status,
                                                          !.next_attempt_at = clock]]
        PROVE  Contract!Decide(a)
    <3> DEFINE row == [Absent EXCEPT !.status = status, !.next_attempt_at = clock]
    <3>1. row.status = status /\ row.attempt_count = 0
      BY DEF Absent
    <3>2. \A b \in Alerts : logs'[b] = IF b = a THEN row ELSE logs[b]
      BY <1>0, <2>2 DEF TypeOK
    <3>3. logs[a].attempt_count = 0 /\ Verdict(logs[a]) = "none"
      BY <1>0, <2>2 DEF Numbered, Verdict
    <3>4. Verdict(row) \in {"wanted", "unwanted"}
      BY <3>1, <2>2 DEF Verdict
    <3> HIDE DEF row
    <3>5. Tries' = Tries
      BY <3>1, <3>2, <3>3 DEF Tries
    <3>6. Verdicts' = [Verdicts EXCEPT ![a] = Verdict(row)] /\ Verdicts[a] = "none"
      BY <3>2, <3>3 DEF Verdicts
    <3>7. delivered' = delivered
      BY <1>1 DEF reserve, telegram
    <3> QED  BY <3>4, <3>5, <3>6, <3>7 DEF Contract!Decide, Verdicts, Tries
  <2> QED  BY <1>1, <2>1, <2>2 DEF reserve, Contract!Next
<1>2. ASSUME NEW w \in Workers, ExpireLease(w)
      PROVE  Contract!Next \/ UNCHANGED Contract!vars
  <2> DEFINE a == task[w].identity
  <2>1. a \in Alerts /\ delivered' = delivered
    BY <1>0, <1>2 DEF TypeOK, ExpireLease, Timed, Task, telegram
  <2>2. CASE ~ ExpiredForGood(logs[a], task[w].now)
    BY <1>2, <2>1, <2>2, ContractStutter DEF ExpireLease
  <2>3. CASE ExpiredForGood(logs[a], task[w].now)
    <3> DEFINE row == Released(logs[a], "FAILED", NotSet)
    <3>1. logs' = [logs EXCEPT ![a] = row]
      BY <1>2, <2>3 DEF ExpireLease
    <3>0. /\ row.status = "FAILED" /\ row.next_attempt_at = NotSet
          /\ row.attempt_count = logs[a].attempt_count
      BY <1>0, <2>1, ReleasedFields DEF TypeOK
    <3> HIDE DEF row
    <3>2. logs[a].attempt_count = MaxAttempts /\ Verdict(logs[a]) = "wanted"
      <4>1. logs[a].attempt_count \in Nat /\ logs[a].attempt_count <= MaxAttempts
        BY <1>0, <2>1 DEF Numbered, TypeOK, Row
      <4> QED  BY <2>3, <4>1 DEF ExpiredForGood, Verdict
    <3>3. Verdict(row) = "given_up"
      BY <3>0 DEF Verdict
    <3>4. Tries' = Tries /\ Verdicts' = [Verdicts EXCEPT ![a] = "given_up"]
      BY <1>0, <2>1, <3>0, <3>1, <3>3, ReleasedVerdict
    <3>5. Verdicts[a] = "wanted" /\ Tries[a] = MaxAttempts
      BY <2>1, <3>2 DEF Verdicts, Tries
    <3>6. Contract!GiveUp(a)
      BY <2>1, <3>4, <3>5 DEF Contract!GiveUp, Verdicts, Tries
    <3> QED  BY <2>1, <3>6 DEF Contract!Next
  <2> QED  BY <2>2, <2>3
<1>3. ASSUME NEW w \in Workers, Claim(w)
      PROVE  Contract!Next \/ UNCHANGED Contract!vars
  <2>0. task[w] \in Task /\ task[w].identity \in Alerts
    BY <1>0, <1>3 DEF TypeOK, Claim, Timed, Task
  <2> PICK a \in Alerts : a = task[w].identity
    BY <2>0
  <2> DEFINE row == Granted(logs[a], claims[a] + 1, task[w].now + LeaseSeconds)
  <2>1. logs[a] \in Row
    BY <1>0 DEF TypeOK
  <2>2. /\ logs' = [logs EXCEPT ![a] = row] /\ delivered' = delivered
        /\ Claimable(logs[a], task[w].now)
    BY <1>3 DEF Claim
  <2>3. row.status = "SENDING" /\ row.attempt_count = logs[a].attempt_count + 1
    BY <2>1 DEF Granted, Row
  <2>5. Verdict(logs[a]) = "wanted" /\ logs[a].attempt_count < MaxAttempts
    <3>1. logs[a].attempt_count \in Nat
      BY <2>1 DEF Row
    <3> QED
      BY <2>2, <3>1 DEF Claimable, due_query, AtOrBefore, Verdict, Exhausted
  <2>6. Verdict(row) = "wanted"
    BY <2>3 DEF Verdict
  <2> HIDE DEF row
  <2>4. /\ Tries' = [Tries EXCEPT ![a] = row.attempt_count]
        /\ Verdicts' = [Verdicts EXCEPT ![a] = Verdict(row)]
    BY <1>0, <2>1, <2>2, RowReplaced
  <2>7. Verdicts' = Verdicts
    BY <2>1, <2>4, <2>5, <2>6 DEF Verdicts
  <2>8. Tries' = [Tries EXCEPT ![a] = Tries[a] + 1]
    BY <2>1, <2>3, <2>4 DEF Tries
  <2>9. Verdicts[a] = "wanted" /\ Tries[a] < MaxAttempts
    BY <2>1, <2>5 DEF Verdicts, Tries
  <2>10. Contract!Try(a)
    BY <2>2, <2>7, <2>8, <2>9 DEF Contract!Try, Verdicts, Tries
  <2> QED  BY <2>10 DEF Contract!Next
<1>4. ASSUME NEW w \in Workers, AcknowledgeFailure(w)
      PROVE  Contract!Next \/ UNCHANGED Contract!vars
  <2> DEFINE a == task[w].identity
             next == task[w].now + RetrySeconds
             row == Released(logs[a], "FAILED", next)
  <2>1. a \in Alerts /\ delivered' = delivered /\ next \in Nat
    BY <1>0, <1>4
    DEF TypeOK, AcknowledgeFailure, Acknowledge, Timed, Holding, Task, telegram, Time
  <2>2. CASE ~ Owned(logs[a], task[w].claim)
    BY <1>4, <2>1, <2>2, ContractStutter DEF AcknowledgeFailure, Acknowledge
  <2>3. CASE Owned(logs[a], task[w].claim)
    <3>1. logs' = [logs EXCEPT ![a] = row]
      BY <1>4, <2>3 DEF AcknowledgeFailure, Acknowledge
    <3>2. Verdict(logs[a]) = "wanted"
      BY <2>3 DEF Owned, Verdict
    <3>0. /\ row.status = "FAILED" /\ row.next_attempt_at = next
          /\ row.attempt_count = logs[a].attempt_count
      BY <1>0, <2>1, ReleasedFields DEF TypeOK
    <3> HIDE DEF row, next
    <3>3. Tries' = Tries /\ Verdicts' = [Verdicts EXCEPT ![a] = Verdict(row)]
      BY <1>0, <2>1, <3>0, <3>1, ReleasedVerdict
    <3>4. logs[a].attempt_count \in Nat /\ logs[a].attempt_count <= MaxAttempts
      BY <1>0, <2>1 DEF Numbered, TypeOK, Row
    <3>5. Verdicts[a] = "wanted" /\ Tries[a] = logs[a].attempt_count
      BY <2>1, <3>2 DEF Verdicts, Tries
    <3>6. CASE logs[a].attempt_count < MaxAttempts
      <4>1. Verdict(row) = "wanted"
        BY <2>1, <3>0, <3>4, <3>6, NotSetAssumption DEF Verdict, Exhausted
      <4>2. Verdicts' = Verdicts
        BY <3>3, <3>5, <4>1 DEF Verdicts
      <4> QED  BY <2>1, <3>3, <4>2 DEF Contract!vars, Verdicts, Tries
    <3>7. CASE logs[a].attempt_count = MaxAttempts
      <4>1. Verdict(row) = "given_up"
        BY <3>0, <3>7 DEF Verdict, Exhausted
      <4>2. Contract!GiveUp(a)
        BY <2>1, <3>3, <3>5, <3>7, <4>1 DEF Contract!GiveUp, Verdicts, Tries
      <4> QED  BY <2>1, <4>2 DEF Contract!Next
    <3> QED  BY <3>4, <3>6, <3>7
  <2> QED  BY <2>2, <2>3
<1>5. ASSUME NEW w \in Workers, AcknowledgeSent(w)
      PROVE  Contract!Next \/ UNCHANGED Contract!vars
  <2> DEFINE a == task[w].identity
             row == Released(logs[a], "SENT", NotSet)
  <2>1. a \in Alerts /\ delivered' = delivered /\ delivered[a] # {}
    BY <1>0, <1>5
    DEF IInv, Owning, TypeOK, AcknowledgeSent, Acknowledge, Timed, Holding, Task, telegram
  <2>2. CASE ~ Owned(logs[a], task[w].claim)
    BY <1>5, <2>1, <2>2, ContractStutter DEF AcknowledgeSent, Acknowledge
  <2>3. CASE Owned(logs[a], task[w].claim)
    <3>1. logs' = [logs EXCEPT ![a] = row]
      BY <1>5, <2>3 DEF AcknowledgeSent, Acknowledge
    <3>2. Verdict(logs[a]) = "wanted"
      BY <2>3 DEF Owned, Verdict
    <3>0. row.status = "SENT" /\ row.attempt_count = logs[a].attempt_count
      BY <1>0, <2>1, ReleasedFields DEF TypeOK
    <3> HIDE DEF row
    <3>3. Tries' = Tries /\ Verdicts' = [Verdicts EXCEPT ![a] = Verdict(row)]
      BY <1>0, <2>1, <3>0, <3>1, ReleasedVerdict
    <3>4. Verdict(row) = "done"
      BY <3>0 DEF Verdict
    <3>5. Verdicts[a] = "wanted"
      BY <2>1, <3>2 DEF Verdicts
    <3>6. Contract!Finish(a)
      BY <2>1, <3>3, <3>4, <3>5 DEF Contract!Finish, Verdicts, Tries
    <3> QED  BY <2>1, <3>6 DEF Contract!Next
  <2> QED  BY <2>2, <2>3
<1>6. ASSUME NEW a \in Alerts, NEW claim \in wire[a], Accept(a, claim)
      PROVE  Contract!Next \/ UNCHANGED Contract!vars
  <2>1. claim \in 1 .. Tries[a] /\ UNCHANGED logs
    BY <1>0, <1>6 DEF Numbered, Tries, Accept, mongo
  <2>2. delivered' = [delivered EXCEPT ![a] = delivered[a] \cup {claim}]
    BY <1>6 DEF Accept
  <2>3. CASE claim \in delivered[a]
    <3>1. delivered' = delivered
      BY <1>0, <2>2, <2>3 DEF TypeOK
    <3> QED  BY <2>1, <3>1, ContractStutter
  <2>4. CASE claim \notin delivered[a]
    <3>1. Contract!Receive(a)
      BY <2>1, <2>2, <2>4 DEF Contract!Receive, Tries
    <3> QED  BY <3>1 DEF Contract!Next
  <2> QED  BY <2>3, <2>4
<1>7. ASSUME NEW w \in Workers,
             \/ retry_due(w) \/ CallerReturns(w) \/ NoChange(w) \/ Restart(w)
             \/ NothingToClaim(w) \/ MongoError(w) \/ Crash(w)
             \/ SendSucceeds(w) \/ SendRaises(w) \/ \E a \in Alerts : ReadClock(w, a)
      PROVE  UNCHANGED Contract!vars
  BY <1>7, ContractStutter
  DEF retry_due, CallerReturns, NoChange, Restart, NothingToClaim, MongoError, Crash,
      SendSucceeds, SendRaises, SendEnds, ReadClock, mongo, telegram
<1>8. ASSUME Tick \/ UNCHANGED vars \/ \E a \in Alerts : \E claim \in wire[a] : Lose(a, claim)
      PROVE  UNCHANGED Contract!vars
  BY <1>8, ContractStutter DEF Tick, vars, Lose, mongo, telegram
<1> QED
  BY <1>1, <1>2, <1>3, <1>4, <1>5, <1>6, <1>7, <1>8
  DEF Next, Work, Deliver, Loop

\* Delivery, with its processes, leases, retries and lost replies, implements
\* the contract (service.py:1-5, 160-269).
THEOREM DeliveryKeepsContract == Spec => KeepsContract
<1>1. Init => Contract!Init
  BY DEF Init, Contract!Init, Absent, Verdict
<1>2. IInv /\ [Next]_vars => [Contract!Next]_(Contract!vars)
  BY ContractStep
<1> QED  BY <1>1, <1>2, Invariance, PTL DEF Spec, KeepsContract, Contract!Spec

=============================================================================
