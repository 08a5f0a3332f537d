-------------------------- MODULE AlertWatcherProofs --------------------------
(***************************************************************************)
(* Proofs about AlertWatcher, for any number of watchers and changes.  The *)
(* inductive invariant says of a watcher what its phase entitles it to:    *)
(* the token it opens its stream with, and the change it is about to save  *)
(* as its token, have nothing uncovered behind them.                       *)
(***************************************************************************)
EXTENDS AlertWatcher, TLAPS

Past(k) == Covered(k) \/ k \in skipped

Knows(w) ==
    /\ pc[w] \in {"connect", "discard", "reset"} => token[w] = NoToken
    /\ pc[w] = "open" /\ token[w] # NoToken => \A k \in 1 .. token[w] : Past(k)
    /\ pc[w] = "upsert" => row[w].identity \in IdentitiesOf(position[w])
    /\ pc[w] = "checkpoint" => Covered(position[w])
    /\ pc[w] \in Handling \cup {"retry", "next", "deliver"} =>
          \A k \in 1 .. position[w] : Past(k) \/ (k = position[w] /\ pc[w] \in Handling)

SavedIsPast ==
    resume_token \notin {NoToken, BadToken} => \A k \in 1 .. resume_token : Past(k)

IInv ==
    /\ TypeOK
    /\ SavedIsPast
    /\ \A w \in Watchers : Knows(w)

\* The log only grows at its end, and no row, no gap and no expiry is forgotten.
Grows ==
    /\ Len(log) <= Len(log')
    /\ \A k \in 1 .. Len(log) : log'[k] = log[k]
    /\ \A r \in alert_log :
          \/ r \in alert_log'
          \/ \A k \in 1 .. Len(log) : r.identity \in IdentitiesOf(k) => k \in expired'
    /\ skipped \subseteq skipped' /\ expired \subseteq expired'

-----------------------------------------------------------------------------
\* What is past stays past.
LEMMA PastStays ==
    ASSUME TypeOK, Grows, NEW k \in 1 .. Len(log)
    PROVE  (Past(k) => Past(k)') /\ (Covered(k) => Covered(k)')
<1>1. IdentitiesOf(k)' = IdentitiesOf(k)
  BY DEF Grows, IdentitiesOf, alert_identity, QuarantineIdentity
<1>2. Covered(k) => Covered(k)'
  BY <1>1 DEF Grows, Covered, Reserved
<1> QED
  BY <1>2 DEF Past, Grows

\* A watcher that does not move keeps what it knows.
LEMMA KnowsStays ==
    ASSUME TypeOK, Grows, NEW w \in Watchers, Knows(w),
           pc'[w] = pc[w], token'[w] = token[w], position'[w] = position[w],
           row'[w] = row[w]
    PROVE  Knows(w)'
<1>1. /\ position[w] \in 0 .. Len(log) /\ Len(log) \in Nat
      /\ pc[w] \in Handling => position[w] # 0
      /\ token[w] # NoToken => token[w] \in 0 .. Len(log)
  BY DEF TypeOK
<1>2. ASSUME pc'[w] = "open", token'[w] # NoToken, NEW k \in 1 .. token'[w]
      PROVE  Past(k)'
  <2>1. k \in 1 .. Len(log) /\ Past(k)
    BY <1>1, <1>2 DEF Knows
  <2> QED
    BY <2>1, PastStays
<1>3. ASSUME pc'[w] = "upsert"
      PROVE  row'[w].identity \in IdentitiesOf(position[w])'
  <2>1. log'[position[w]] = log[position[w]]
    BY <1>1, <1>3 DEF Grows, Handling
  <2> QED
    BY <1>3, <2>1 DEF Knows, IdentitiesOf, alert_identity, QuarantineIdentity
<1>4. ASSUME pc'[w] = "checkpoint" PROVE Covered(position[w])'
  <2>1. position[w] \in 1 .. Len(log) /\ Covered(position[w])
    BY <1>1, <1>4 DEF Knows, Handling
  <2> QED
    BY <2>1, PastStays DEF Grows, Covered, Reserved, IdentitiesOf, alert_identity,
                           QuarantineIdentity
<1>5. ASSUME pc'[w] \in Handling \cup {"retry", "next", "deliver"},
             NEW k \in 1 .. position'[w]
      PROVE  Past(k)' \/ (k = position'[w] /\ pc'[w] \in Handling)
  <2>1. /\ k \in 1 .. Len(log)
        /\ Past(k) \/ (k = position[w] /\ pc[w] \in Handling)
    BY <1>1, <1>5 DEF Knows
  <2> QED
    BY <2>1, PastStays
<1> QED
  BY <1>2, <1>3, <1>4, <1>5 DEF Knows

\* The saved token stays past, unless it is replaced.
LEMMA SavedStays ==
    ASSUME TypeOK, Grows, SavedIsPast, resume_token' \in {resume_token, NoToken}
    PROVE  SavedIsPast'
<1> SUFFICES ASSUME resume_token' = resume_token, resume_token \notin {NoToken, BadToken},
                    NEW k \in 1 .. resume_token
             PROVE  Past(k)'
  BY DEF SavedIsPast
<1>1. k \in 1 .. Len(log) /\ Past(k)
  BY DEF TypeOK, SavedIsPast
<1> QED
  BY <1>1, PastStays

\* A step of one watcher: what remains to be shown is about that watcher.
LEMMA StepInv ==
    ASSUME IInv, NEW w \in Watchers, Grows, TypeOK', Knows(w)',
           resume_token' \in {resume_token, NoToken},
           \A d \in Watchers : d # w =>
               /\ pc'[d] = pc[d] /\ token'[d] = token[d]
               /\ position'[d] = position[d] /\ row'[d] = row[d]
    PROVE  IInv'
<1>1. SavedIsPast'
  BY SavedStays DEF IInv
<1>2. ASSUME NEW d \in Watchers PROVE Knows(d)'
  BY KnowsStays DEF IInv
<1> QED
  BY <1>1, <1>2 DEF IInv

\* The initial states satisfy the invariant.
LEMMA InitInv == Init => IInv
<1> SUFFICES ASSUME Init PROVE IInv
  OBVIOUS
<1>1. log = <<>> /\ log \in Seq(Changes) /\ Len(log) = 0
  BY DEF Init
<1>2. TypeOK
  <2>1. \A w \in Watchers : pc[w] \notin Handling
    BY DEF Init, Handling
  <2>2. /\ pc \in [Watchers -> Phases]
        /\ token \in [Watchers -> (0 .. Len(log)) \cup {NoToken}]
        /\ position \in [Watchers -> 0 .. Len(log)]
        /\ row \in [Watchers -> Rows \cup {NoToken}]
    BY <1>1 DEF Init, Phases
  <2>3. \A w \in Watchers : pc[w] # "upsert"
    BY DEF Init
  <2> QED
    BY <1>1, <2>1, <2>2, <2>3, WatcherAssumption DEF Init, TypeOK
<1>3. SavedIsPast
  BY DEF Init, SavedIsPast
<1>4. \A w \in Watchers : Knows(w)
  BY <1>1 DEF Init, Knows, Handling
<1> QED
  BY <1>2, <1>3, <1>4 DEF IInv

\* Every step keeps the invariant.
LEMMA NextInv == IInv /\ [Next]_vars => IInv'
<1> SUFFICES ASSUME IInv, [Next]_vars PROVE IInv'
  OBVIOUS
<1>0. /\ TypeOK /\ SavedIsPast /\ \A w \in Watchers : Knows(w)
      /\ Len(log) \in Nat /\ log \in Seq(Changes)
  BY DEF IInv, TypeOK
<1>a. ASSUME log' = log, alert_log' = alert_log, skipped' = skipped, expired' = expired PROVE Grows
  BY <1>0, <1>a DEF Grows
<1>1. ASSUME NEW w \in Watchers, NEW phase \in {"connect", "reset"}, Reconnect(w, phase),
             UNCHANGED <<mongo, history>>, faults' \in 0 .. MaxFaults
      PROVE  IInv'
  <2>1. TypeOK'
    BY <1>0, <1>1 DEF Reconnect, Goto, TypeOK, Phases, Handling, mongo, history
  <2>2. Knows(w)'
    BY <1>0, <1>1 DEF Reconnect, Goto, Knows, TypeOK, Handling
  <2> QED
    BY <1>1, <1>a, <2>1, <2>2, StepInv DEF Reconnect, Goto, TypeOK, mongo, history, IInv
<1>2. ASSUME NEW w \in Watchers, FindToken(w) PROVE IInv'
  <2>1. TypeOK'
    BY <1>0, <1>2 DEF FindToken, Goto, TypeOK, Phases, Handling, mongo, history
  <2>2. Knows(w)'
    <3>1. CASE resume_token = BadToken
      BY <1>0, <1>2, <3>1 DEF FindToken, Goto, Knows, TypeOK, Handling
    <3>2. CASE resume_token # BadToken
      <4>1. pc'[w] = "open" /\ token'[w] = resume_token
        BY <1>0, <1>2, <3>2 DEF FindToken, Goto, TypeOK
      <4>2. ASSUME NEW k \in 1 .. resume_token, resume_token # NoToken PROVE Past(k)'
        <5>1. Past(k)
          BY <1>0, <3>2, <4>2 DEF SavedIsPast
        <5> QED
          BY <1>2, <5>1 DEF FindToken, mongo, history, Past, Covered, Reserved,
                            IdentitiesOf, alert_identity, QuarantineIdentity
      <4> QED
        BY <4>1, <4>2 DEF Knows, Handling
    <3> QED
      BY <3>1, <3>2
  <2> QED
    BY <1>2, <1>a, <2>1, <2>2, StepInv DEF FindToken, Goto, TypeOK, mongo, history, IInv
<1>3. ASSUME NEW w \in Watchers, DiscardToken(w) PROVE IInv'
  <2>1. TypeOK'
    BY <1>0, <1>3 DEF DiscardToken, Goto, TypeOK, Phases, Handling, local, history
  <2>2. Knows(w)'
    BY <1>0, <1>3 DEF DiscardToken, Goto, Knows, TypeOK, Handling, local, history
  <2> QED
    BY <1>3, <1>a, <2>1, <2>2, StepInv DEF DiscardToken, Goto, TypeOK, local, history, IInv
<1>4. ASSUME NEW w \in Watchers, OpenStream(w) PROVE IInv'
  <2>1. ASSUME token[w] = NoToken, position' = [position EXCEPT ![w] = Len(log)],
               skipped' = skipped \cup {k \in 1 .. Len(log) : ~ Covered(k)},
               Goto(w, "retry"), UNCHANGED <<mongo, token, row, streamed, expired, faults>>
        PROVE  IInv'
    <3>1. Grows
      BY <1>0, <2>1 DEF Grows, mongo
    <3>2. TypeOK'
      <4>1. /\ skipped' \subseteq 1 .. Len(log)
            /\ position' \in [Watchers -> 0 .. Len(log)]
        <5>1. skipped \subseteq 1 .. Len(log) /\ position \in [Watchers -> 0 .. Len(log)]
          BY <1>0 DEF TypeOK
        <5>2. Len(log) \in 0 .. Len(log)
          BY <1>0
        <5> QED
          BY <2>1, <5>1, <5>2
      <4>2. /\ pc' \in [Watchers -> Phases] /\ pc'[w] \notin Handling
            /\ \A d \in Watchers : d # w => pc'[d] = pc[d] /\ position'[d] = position[d]
        BY <1>0, <2>1 DEF Goto, TypeOK, Phases, Handling
      <4>3. \A d \in Watchers : /\ pc'[d] \in Handling => position'[d] # 0
                                /\ pc'[d] = "upsert" => row'[d] \in Rows
        BY <1>0, <2>1, <4>2 DEF TypeOK, Handling
      <4> QED
        BY <1>0, <2>1, <4>1, <4>2, <4>3 DEF TypeOK, mongo
    <3>3. ASSUME NEW k \in 1 .. Len(log) PROVE Past(k)'
      <4>1. Covered(k) => Covered(k)'
        BY <1>0, <3>1, PastStays
      <4> QED
        BY <2>1, <4>1 DEF Past
    <3>4. Knows(w)'
      BY <1>0, <2>1, <3>3 DEF Goto, Knows, TypeOK, Handling
    <3> QED
      BY <2>1, <3>1, <3>2, <3>4, StepInv DEF Goto, TypeOK, mongo, IInv
  <2>2. ASSUME token[w] # NoToken, pc[w] = "open",
               position' = [position EXCEPT ![w] = token[w]],
               Goto(w, "retry"), UNCHANGED <<mongo, token, row, history, faults>>
        PROVE  IInv'
    <3>1. Grows
      BY <1>a, <2>2 DEF mongo, history
    <3>2. token[w] \in 0 .. Len(log)
      BY <1>0, <2>2 DEF TypeOK
    <3>3. TypeOK'
      BY <1>0, <2>2, <3>2 DEF Goto, TypeOK, Phases, Handling, mongo, history
    <3>4. ASSUME NEW k \in 1 .. token[w] PROVE Past(k)'
      <4>1. Past(k) /\ k \in 1 .. Len(log)
        BY <1>0, <2>2, <3>2 DEF Knows
      <4> QED
        BY <1>0, <3>1, <4>1, PastStays
    <3>5. Knows(w)'
      BY <1>0, <2>2, <3>4 DEF Goto, Knows, TypeOK, Handling
    <3> QED
      BY <2>2, <3>1, <3>3, <3>5, StepInv DEF Goto, TypeOK, mongo, IInv
  <2>3. ASSUME Reconnect(w, "reset"), UNCHANGED <<mongo, history, faults>> PROVE IInv'
    BY <1>0, <1>1, <2>3 DEF TypeOK
  <2> QED
    BY <1>4, <2>1, <2>2, <2>3 DEF OpenStream
<1>5. ASSUME NEW w \in Watchers, ResetToken(w) PROVE IInv'
  <2>1. TypeOK'
    BY <1>0, <1>5 DEF ResetToken, Goto, TypeOK, Phases, Handling, local, history
  <2>2. Knows(w)'
    BY <1>0, <1>5 DEF ResetToken, Goto, Knows, TypeOK, Handling, local, history
  <2> QED
    BY <1>5, <1>a, <2>1, <2>2, StepInv DEF ResetToken, Goto, TypeOK, local, history, IInv
<1>6. ASSUME NEW w \in Watchers, RetryDue(w) \/ Deliver(w) PROVE IInv'
  <2>1. TypeOK'
    BY <1>0, <1>6 DEF RetryDue, Deliver, Goto, TypeOK, Phases, Handling, mongo, local, history
  <2>2. Grows
    BY <1>6, <1>a DEF RetryDue, Deliver, mongo, history
  <2>3. ASSUME NEW k \in 1 .. position[w] PROVE Past(k)'
    <3>1. Past(k) /\ k \in 1 .. Len(log)
      BY <1>0, <1>6 DEF RetryDue, Deliver, Knows, Handling, TypeOK
    <3> QED
      BY <1>0, <2>2, <3>1, PastStays
  <2>4. Knows(w)'
    BY <1>0, <1>6, <2>3 DEF RetryDue, Deliver, Goto, Knows, TypeOK, Handling, local
  <2> QED
    BY <1>6, <2>1, <2>2, <2>4, StepInv DEF RetryDue, Deliver, Goto, TypeOK, mongo, local, IInv
<1>7. ASSUME NEW w \in Watchers, TryNext(w) PROVE IInv'
  <2>0. pc[w] = "next" /\ UNCHANGED <<mongo, faults>>
    BY <1>7 DEF TryNext
  <2>1. ASSUME Reconnect(w, "reset"), UNCHANGED history PROVE IInv'
    BY <1>0, <1>1, <2>0, <2>1 DEF TypeOK
  <2>2. ASSUME position[w] < Len(log), position' = [position EXCEPT ![w] = position[w] + 1],
               streamed' = streamed \cup {position[w] + 1},
               Goto(w, "lookup"), UNCHANGED <<token, row, skipped, expired>>
        PROVE  IInv'
    <3>1. position[w] \in Nat /\ position[w] + 1 \in 1 .. Len(log)
      BY <1>0, <2>2 DEF TypeOK
    <3>2. TypeOK'
      <4>1. /\ streamed' \subseteq 1 .. Len(log)
            /\ position' \in [Watchers -> 0 .. Len(log)] /\ position'[w] # 0
        <5>1. streamed \subseteq 1 .. Len(log) /\ position \in [Watchers -> 0 .. Len(log)]
          BY <1>0 DEF TypeOK
        <5>2. position[w] + 1 \in 0 .. Len(log) /\ position[w] + 1 # 0
          BY <1>0, <3>1
        <5> QED
          BY <2>2, <3>1, <5>1, <5>2
      <4>2. /\ pc' \in [Watchers -> Phases] /\ pc'[w] = "lookup"
            /\ \A d \in Watchers : d # w => pc'[d] = pc[d] /\ position'[d] = position[d]
        BY <1>0, <2>2 DEF Goto, TypeOK, Phases, Handling
      <4>3. \A d \in Watchers : /\ pc'[d] \in Handling => position'[d] # 0
                                /\ pc'[d] = "upsert" => row'[d] \in Rows
        BY <1>0, <2>2, <4>1, <4>2 DEF TypeOK
      <4> QED
        BY <1>0, <2>0, <2>2, <4>1, <4>2, <4>3 DEF TypeOK, mongo
    <3>3. Grows
      BY <1>a, <2>0, <2>2 DEF mongo
    <3>4. ASSUME NEW k \in 1 .. position[w] PROVE Past(k)'
      <4>1. Past(k) /\ k \in 1 .. Len(log)
        BY <1>0, <2>0, <3>1 DEF Knows, Handling
      <4> QED
        BY <1>0, <3>3, <4>1, PastStays
    <3>5. pc'[w] = "lookup" /\ position'[w] = position[w] + 1
      BY <1>0, <2>2 DEF Goto, TypeOK
    <3>6. \A k \in 1 .. position'[w] : k \in 1 .. position[w] \/ k = position'[w]
      BY <3>1, <3>5
    <3>7. Knows(w)'
      BY <3>4, <3>5, <3>6 DEF Knows, Handling
    <3> QED
      BY <2>0, <2>2, <3>2, <3>3, <3>7, StepInv DEF Goto, TypeOK, mongo, IInv
  <2>3. ASSUME Goto(w, "retry"), UNCHANGED <<local, history>> PROVE IInv'
    <3>1. TypeOK'
      BY <1>0, <2>0, <2>3 DEF Goto, TypeOK, Phases, Handling, mongo, local, history
    <3>2. Grows
      BY <1>a, <2>0, <2>3 DEF mongo, history
    <3>3. ASSUME NEW k \in 1 .. position[w] PROVE Past(k)'
      <4>0. position[w] \in 0 .. Len(log) /\ pc[w] \notin Handling
        BY <1>0, <2>0 DEF Handling, TypeOK
      <4>1. Past(k) /\ k \in 1 .. Len(log)
        BY <1>0, <2>0, <4>0 DEF Knows
      <4> QED
        BY <1>0, <3>2, <4>1, PastStays
    <3>4. Knows(w)'
      BY <1>0, <2>0, <2>3, <3>3 DEF Goto, Knows, TypeOK, Handling, local
    <3> QED
      BY <2>0, <2>3, <3>1, <3>2, <3>4, StepInv DEF Goto, TypeOK, mongo, local, IInv
  <2>4. \/ Reconnect(w, "reset") /\ UNCHANGED history
        \/ /\ position[w] < Len(log) /\ position' = [position EXCEPT ![w] = position[w] + 1]
           /\ streamed' = streamed \cup {position[w] + 1}
           /\ Goto(w, "lookup") /\ UNCHANGED <<token, row, skipped, expired>>
        \/ Goto(w, "retry") /\ UNCHANGED <<local, history>>
    BY <1>7 DEF TryNext
  <2> QED
    BY <2>1, <2>2, <2>3, <2>4
<1>8. ASSUME NEW w \in Watchers, pc[w] \in Handling, position[w] \in 1 .. Len(log)
      PROVE  \A k \in 1 .. position[w] : k = position[w] \/ (Past(k) /\ k \in 1 .. Len(log))
  BY <1>0, <1>8 DEF Knows
<1>9. ASSUME NEW w \in Watchers, pc[w] \in Handling
      PROVE  position[w] \in 1 .. Len(log) /\ log[position[w]] \in Changes
  BY <1>0, <1>9 DEF TypeOK
<1>10. ASSUME NEW w \in Watchers, FindPrior(w) PROVE IInv'
  <2>1. pc[w] \in Handling /\ position[w] \in 1 .. Len(log)
    BY <1>9, <1>10 DEF FindPrior, Handling
  <2>2. TypeOK'
    BY <1>0, <1>10, <2>1 DEF FindPrior, Goto, TypeOK, Phases, Handling, mongo, local, history
  <2>3. Grows
    BY <1>10, <1>a DEF FindPrior, mongo, history
  <2>4. ASSUME NEW k \in 1 .. position[w], k # position[w] PROVE Past(k)'
    BY <1>0, <1>8, <2>1, <2>3, <2>4, PastStays
  <2>5. pc'[w] = "checkpoint" => Covered(position[w])'
    <3>1. pc'[w] = "checkpoint" => Covered(position[w])
      BY <1>0, <1>10 DEF FindPrior, Goto, Covered, IdentitiesOf, TypeOK
    <3> QED
      BY <1>10, <3>1 DEF FindPrior, mongo, local, history, Covered, Reserved, IdentitiesOf,
                         alert_identity, QuarantineIdentity
  <2>6. pc'[w] \in {"checkpoint", "convert"} /\ position'[w] = position[w]
    BY <1>0, <1>10 DEF FindPrior, Goto, local, TypeOK
  <2>8. Knows(w)'
    BY <2>4, <2>5, <2>6 DEF Knows, Handling
  <2> QED
    BY <1>10, <2>2, <2>3, <2>8, StepInv DEF FindPrior, Goto, TypeOK, mongo, local, IInv
<1>11. ASSUME NEW w \in Watchers, Convert(w) PROVE IInv'
  <2>1. /\ pc[w] = "convert" /\ pc[w] \in Handling /\ position[w] \in 1 .. Len(log)
        /\ log[position[w]] \in Changes
    BY <1>9, <1>11 DEF Convert, Handling
  <2>2. ASSUME row' = [row EXCEPT ![w] = RowOf(position[w])], Goto(w, "upsert"),
               UNCHANGED <<token, position, mongo, history, faults>>
        PROVE  IInv'
    <3>1. /\ RowOf(position[w]) \in Rows
          /\ RowOf(position[w]).identity \in IdentitiesOf(position[w])
      <4>1. log[position[w]] \in Change /\ position[w] \in Nat
        BY <2>1, WatcherAssumption
      <4>2. /\ alert_identity(log[position[w]]) \in Identities
            /\ QuarantineIdentity(position[w]) \in Identities
        BY <4>1 DEF alert_identity, QuarantineIdentity, Identities, Change
      <4> QED
        BY <4>2 DEF RowOf, Rows, IdentitiesOf
    <3>2. TypeOK'
      BY <1>0, <2>1, <2>2, <3>1 DEF Goto, TypeOK, Phases, Handling, mongo, history
    <3>3. Grows
      BY <1>a, <2>2 DEF mongo, history
    <3>4. ASSUME NEW k \in 1 .. position[w], k # position[w] PROVE Past(k)'
      BY <1>0, <1>8, <2>1, <3>3, <3>4, PastStays
    <3>5. /\ pc'[w] = "upsert" /\ position'[w] = position[w]
          /\ row'[w] = RowOf(position[w]) /\ log' = log
      BY <1>0, <2>2 DEF Goto, TypeOK, mongo
    <3>6. Knows(w)'
      BY <3>1, <3>4, <3>5 DEF Knows, Handling, IdentitiesOf, alert_identity, QuarantineIdentity
    <3> QED
      BY <2>2, <3>2, <3>3, <3>6, StepInv DEF Goto, TypeOK, mongo, IInv
  <2>3. ASSUME Reconnect(w, "connect"), UNCHANGED <<mongo, history, faults>> PROVE IInv'
    BY <1>0, <1>1, <2>3 DEF TypeOK
  <2> QED
    BY <1>11, <2>2, <2>3 DEF Convert
<1>12. ASSUME NEW w \in Watchers, Reserve(w) PROVE IInv'
  <2>1. /\ pc[w] = "upsert" /\ pc[w] \in Handling /\ position[w] \in 1 .. Len(log)
        /\ row[w] \in Rows
        /\ row[w].identity \in IdentitiesOf(position[w])
    BY <1>0, <1>9, <1>12 DEF Reserve, Handling, Knows, TypeOK
  <2>2. /\ pc' = [pc EXCEPT ![w] = "checkpoint"]
        /\ alert_log' = IF Reserved(row[w].identity) THEN alert_log
                        ELSE alert_log \cup {row[w]}
        /\ UNCHANGED <<log, oldest, leaked_data, resume_token, token, position, row,
                       streamed, skipped, expired, faults>>
    BY <1>12 DEF Reserve, Goto, local, history
  <2>3. TypeOK'
    BY <1>0, <2>1, <2>2 DEF TypeOK, Phases, Handling
  <2>4. Grows
    BY <1>0, <2>2 DEF Grows
  <2>5. ASSUME NEW k \in 1 .. position[w], k # position[w] PROVE Past(k)'
    BY <1>0, <1>8, <2>1, <2>4, <2>5, PastStays
  <2>6. Covered(position[w])'
    <3>1. \E r \in alert_log' : r.identity = row[w].identity
      BY <2>2 DEF Reserved
    <3>2. log'[position'[w]] = log[position[w]] /\ position'[w] = position[w]
      BY <2>2
    <3> QED
      BY <2>1, <2>2, <3>1, <3>2 DEF Covered, Reserved, IdentitiesOf, alert_identity, QuarantineIdentity
  <2>7. pc'[w] = "checkpoint" /\ position'[w] = position[w]
    BY <1>0, <2>2 DEF TypeOK
  <2>8. Knows(w)'
    BY <2>5, <2>6, <2>7 DEF Knows, Handling
  <2> QED
    BY <2>2, <2>3, <2>4, <2>8, StepInv DEF TypeOK, IInv
<1>13. ASSUME NEW w \in Watchers, Checkpoint(w) PROVE IInv'
  <2>1. /\ pc[w] = "checkpoint" /\ pc[w] \in Handling /\ position[w] \in 1 .. Len(log)
        /\ Covered(position[w])
    BY <1>0, <1>9, <1>13 DEF Checkpoint, Handling, Knows
  <2>2. /\ pc' = [pc EXCEPT ![w] = "deliver"] /\ resume_token' = position[w]
        /\ UNCHANGED <<log, oldest, leaked_data, alert_log, token, position, row,
                       streamed, skipped, expired, faults>>
    BY <1>13 DEF Checkpoint, Goto, local, history
  <2>3. TypeOK'
    BY <1>0, <2>1, <2>2 DEF TypeOK, Phases, Handling
  <2>4. Grows
    BY <1>a, <2>2
  <2>5. ASSUME NEW k \in 1 .. position[w] PROVE Past(k)'
    <3>1. k \in 1 .. Len(log) /\ Past(k)
      BY <1>8, <2>1 DEF Past
    <3> QED
      BY <1>0, <2>4, <3>1, PastStays
  <2>6. ASSUME NEW d \in Watchers PROVE Knows(d)'
    <3>1. CASE d # w
      BY <1>0, <2>2, <2>4, <3>1, KnowsStays DEF TypeOK
    <3>2. CASE d = w
      <4>1. pc'[w] = "deliver" /\ position'[w] = position[w]
        BY <1>0, <2>2 DEF TypeOK
      <4> QED
        BY <2>5, <3>2, <4>1 DEF Knows, Handling
    <3> QED
      BY <3>1, <3>2
  <2>7. SavedIsPast'
    BY <2>2, <2>5 DEF SavedIsPast
  <2> QED
    BY <2>3, <2>6, <2>7 DEF IInv
<1>14. ASSUME NEW w \in Watchers, Fails(w) PROVE IInv'
  BY <1>0, <1>1, <1>14, WatcherAssumption DEF Fails, Fault, TypeOK
<1>15. ASSUME TypeOK', Grows, resume_token' = resume_token,
              UNCHANGED <<pc, token, position, row>>
       PROVE  IInv'
  BY <1>0, <1>15, SavedStays, KnowsStays DEF IInv
<1>16. ASSUME NEW change \in Changes, Insert(change) PROVE IInv'
  <2>1. /\ log' = Append(log, change) /\ Len(log) < MaxLog
        /\ leaked_data' = leaked_data \cup {change.document}
        /\ UNCHANGED <<oldest, alert_log, resume_token, pc, token, position, row,
                       streamed, skipped, expired, faults>>
    BY <1>16 DEF Insert, local, history
  <2>2. /\ log' \in Seq(Changes) /\ Len(log') = Len(log) + 1
        /\ \A k \in 1 .. Len(log) : log'[k] = log[k]
    BY <1>0, <2>1
  <2>3. Grows
    BY <1>0, <2>1, <2>2 DEF Grows
  <2>4. TypeOK'
    <3>1. change.document \in Documents
      BY WatcherAssumption DEF Change
    <3>2. Len(log') <= MaxLog
      BY <1>0, <2>1, <2>2, WatcherAssumption
    <3>3. \A n : n \in 0 .. Len(log) => n \in 0 .. Len(log')
      BY <1>0, <2>2
    <3>4. /\ token' \in [Watchers -> (0 .. Len(log')) \cup {NoToken}]
          /\ position' \in [Watchers -> 0 .. Len(log')]
      BY <1>0, <2>1, <3>3 DEF TypeOK
    <3>5. /\ resume_token' \in (0 .. Len(log')) \cup {NoToken, BadToken}
          /\ oldest' \in 1 .. Len(log') + 1
          /\ streamed' \subseteq 1 .. Len(log') /\ skipped' \subseteq 1 .. Len(log')
          /\ expired' \subseteq 1 .. Len(log')
      BY <1>0, <2>1, <2>2 DEF TypeOK
    <3> QED
      BY <1>0, <2>1, <2>2, <3>1, <3>2, <3>4, <3>5 DEF TypeOK
  <2> QED
    BY <1>15, <2>1, <2>3, <2>4
<1>17. ASSUME NEW document \in Documents, ExpireEvent(document) PROVE IInv'
  <2>1. TypeOK'
    BY <1>0, <1>17, WatcherAssumption DEF ExpireEvent, Fault, TypeOK, local, history
  <2> QED
    BY <1>15, <1>17, <1>a, <2>1 DEF ExpireEvent, local, history
<1>20. ASSUME NEW r \in alert_log, ExpireAlert(r) PROVE IInv'
  <2>1. TypeOK'
    <3>1. alert_log' \subseteq Rows /\ expired' \subseteq 1 .. Len(log)
      BY <1>0, <1>20 DEF ExpireAlert, TypeOK
    <3>2. faults' \in 0 .. MaxFaults
      BY <1>0, <1>20, WatcherAssumption DEF ExpireAlert, Fault, TypeOK
    <3>3. UNCHANGED <<log, oldest, leaked_data, resume_token, pc, token, position, row,
                      streamed, skipped>>
      BY <1>20 DEF ExpireAlert, local
    <3> QED
      BY <1>0, <3>1, <3>2, <3>3 DEF TypeOK
  <2>2. Grows
    BY <1>0, <1>20 DEF ExpireAlert, Grows
  <2> QED
    BY <1>15, <1>20, <2>1, <2>2 DEF ExpireAlert, local
<1>18. ASSUME LogRollsOver PROVE IInv'
  <2>1. TypeOK'
    BY <1>0, <1>18, WatcherAssumption DEF LogRollsOver, Fault, TypeOK, local, history
  <2> QED
    BY <1>15, <1>18, <1>a, <2>1 DEF LogRollsOver, local, history
<1>19. CASE UNCHANGED vars
  <2>1. TypeOK'
    BY <1>0, <1>19 DEF TypeOK, vars
  <2> QED
    BY <1>15, <1>19, <1>a, <2>1 DEF vars
<1> QED
  BY <1>2, <1>3, <1>4, <1>5, <1>6, <1>7, <1>10, <1>11, <1>12, <1>13, <1>14, <1>16,
     <1>17, <1>18, <1>19, <1>20 DEF Next, Watch

\* IInv is an invariant of AlertWatcher.
THEOREM Invariance == Spec => []IInv
  BY InitInv, NextInv, PTL DEF Spec

\* Every variable keeps its type.
THEOREM TypeCorrectness == Spec => []TypeOK
<1>1. IInv => TypeOK
  BY DEF IInv
<1> QED
  BY <1>1, Invariance, PTL

\* The saved token never runs ahead of the reservations, whatever fails and
\* however many watchers move it.
THEOREM CheckpointIsSafe == Spec => []CheckpointCovers
<1>1. IInv => CheckpointCovers
  BY DEF IInv, SavedIsPast, CheckpointCovers, Past
<1> QED
  BY <1>1, Invariance, PTL

\* No open stream leaves an unreserved change behind.
THEOREM StreamsAreSafe == Spec => []StreamCovers
<1>1. IInv => StreamCovers
  BY DEF IInv, Knows, StreamCovers, Past
<1> QED
  BY <1>1, Invariance, PTL

-----------------------------------------------------------------------------
(* Decisions.                                                              *)

\* Nobody goes back behind a change that all have passed.
LEMMA PassedStays ==
    ASSUME IInv, [Next]_vars, NEW k \in 1 .. Len(log), Passed(k)
    PROVE  Passed(k)'
<1>0. TypeOK /\ Len(log) \in Nat
  BY DEF IInv, TypeOK
<1>1. ASSUME NEW w \in Watchers, NEW phase \in {"connect", "reset"}, Reconnect(w, phase),
             UNCHANGED resume_token
      PROVE  Passed(k)'
  BY <1>0, <1>1 DEF Reconnect, Goto, Passed, TypeOK, Handling
<1>2. ASSUME NEW w \in Watchers, FindToken(w) PROVE Passed(k)'
  BY <1>0, <1>2 DEF FindToken, Goto, Passed, TypeOK, Handling, mongo
<1>3. ASSUME NEW w \in Watchers, DiscardToken(w) PROVE Passed(k)'
  <2>1. token[w] = NoToken
    BY <1>3 DEF DiscardToken, IInv, Knows
  <2> QED
    BY <1>0, <1>3, <2>1 DEF DiscardToken, Goto, Passed, TypeOK, Handling, local
<1>4. ASSUME NEW w \in Watchers, OpenStream(w) PROVE Passed(k)'
  <2>1. CASE Reconnect(w, "reset") /\ UNCHANGED mongo
    BY <1>1, <2>1 DEF mongo
  <2>2. CASE /\ pc[w] = "open" /\ Goto(w, "retry") /\ UNCHANGED <<mongo, token>>
             /\ \/ position' = [position EXCEPT ![w] = Len(log)]
                \/ token[w] # NoToken /\ position' = [position EXCEPT ![w] = token[w]]
    BY <1>0, <2>2 DEF Goto, Passed, TypeOK, Handling, mongo
  <2> QED
    BY <1>4, <2>1, <2>2 DEF OpenStream
<1>5. ASSUME NEW w \in Watchers, ResetToken(w) PROVE Passed(k)'
  BY <1>0, <1>5 DEF ResetToken, Goto, Passed, TypeOK, Handling, local
<1>6. ASSUME NEW w \in Watchers, RetryDue(w) \/ Deliver(w) PROVE Passed(k)'
  BY <1>0, <1>6 DEF RetryDue, Deliver, Goto, Passed, TypeOK, Handling, mongo, local
<1>7. ASSUME NEW w \in Watchers, TryNext(w) PROVE Passed(k)'
  <2>1. CASE Reconnect(w, "reset") /\ UNCHANGED mongo
    BY <1>1, <2>1 DEF mongo
  <2>2. CASE /\ pc[w] = "next" /\ Goto(w, "lookup") /\ UNCHANGED <<mongo, token>>
             /\ position' = [position EXCEPT ![w] = position[w] + 1]
    BY <1>0, <2>2 DEF Goto, Passed, TypeOK, Handling, mongo
  <2>3. CASE pc[w] = "next" /\ Goto(w, "retry") /\ UNCHANGED <<mongo, local>>
    BY <1>0, <2>3 DEF Goto, Passed, TypeOK, Handling, mongo, local
  <2> QED
    BY <1>7, <2>1, <2>2, <2>3 DEF TryNext
<1>8. ASSUME NEW w \in Watchers, FindPrior(w) PROVE Passed(k)'
  BY <1>0, <1>8 DEF FindPrior, Goto, Passed, TypeOK, Handling, mongo, local
<1>9. ASSUME NEW w \in Watchers, Convert(w) PROVE Passed(k)'
  <2>1. CASE Reconnect(w, "connect") /\ UNCHANGED mongo
    BY <1>1, <2>1 DEF mongo
  <2>2. CASE pc[w] = "convert" /\ Goto(w, "upsert") /\ UNCHANGED <<mongo, token, position>>
    BY <1>0, <2>2 DEF Goto, Passed, TypeOK, Handling, mongo
  <2> QED
    BY <1>9, <2>1, <2>2 DEF Convert
<1>10. ASSUME NEW w \in Watchers, Reserve(w) PROVE Passed(k)'
  BY <1>0, <1>10 DEF Reserve, Goto, Passed, TypeOK, Handling, local
<1>11. ASSUME NEW w \in Watchers, Checkpoint(w) PROVE Passed(k)'
  BY <1>0, <1>11 DEF Checkpoint, Goto, Passed, TypeOK, Handling, local
<1>12. ASSUME NEW w \in Watchers, Fails(w) PROVE Passed(k)'
  BY <1>1, <1>12 DEF Fails, mongo
<1>13. CASE UNCHANGED <<resume_token, pc, token, position>>
  BY <1>13 DEF Passed
<1>14. ASSUME NEW change \in Changes, Insert(change) PROVE Passed(k)'
  BY <1>13, <1>14 DEF Insert, local
<1>15. ASSUME NEW document \in Documents, ExpireEvent(document) PROVE Passed(k)'
  BY <1>13, <1>15 DEF ExpireEvent, local
<1>16. ASSUME NEW r \in alert_log, ExpireAlert(r) PROVE Passed(k)'
  BY <1>13, <1>16 DEF ExpireAlert, local
<1>17. CASE LogRollsOver
  BY <1>13, <1>17 DEF LogRollsOver, local
<1>18. CASE UNCHANGED vars
  BY <1>13, <1>18 DEF vars
<1> QED
  BY <1>2, <1>3, <1>4, <1>5, <1>6, <1>7, <1>8, <1>9, <1>10, <1>11, <1>12, <1>14, <1>15,
     <1>16, <1>17, <1>18 DEF Next, Watch

\* A row leaves alert_log only by its expiry.
LEMMA RowsStay ==
    ASSUME [Next]_vars, NEW r \in alert_log
    PROVE  r \in alert_log' \/ ExpireAlert(r)
<1>1. CASE \E old \in alert_log : ExpireAlert(old)
  BY <1>1 DEF ExpireAlert
<1>2. CASE ~ \E old \in alert_log : ExpireAlert(old)
  BY <1>2 DEF Next, Watch, FindToken, DiscardToken, OpenStream, ResetToken, RetryDue,
         TryNext, FindPrior, Convert, Reserve, Checkpoint, Deliver, Fails, Insert,
         ExpireEvent, LogRollsOver, mongo, vars
<1> QED
  BY <1>1, <1>2

\* No replay decides an alert again while it has its row, nor, once its change is
\* passed, after its row has expired.
THEOREM DecisionsStay == Spec => DecidedOnce
<1>1. IInv /\ [Next]_vars =>
         [/\ \A r \in alert_log : r \in alert_log' \/ ExpireAlert(r)
          /\ \A k \in 1 .. Len(log) : Passed(k) => Passed(k)']_vars
  BY PassedStays, RowsStay
<1> QED
  BY <1>1, Invariance, PTL DEF Spec, DecidedOnce

=============================================================================
