---------------------------- MODULE RetentionProofs ----------------------------
(***************************************************************************)
(* What holds of the retention tool for every number of overlapping runs,  *)
(* documents and days (TLAPS).  A run's audit log is read as the set of    *)
(* its events; RunOK says, phase by phase, which collections it has done   *)
(* with, is at, and has not touched.                                       *)
(***************************************************************************)
EXTENDS Retention, FiniteSetTheorems, TLAPS

\* Three collections, in an order without repetition.
LEMMA RulesFact ==
    /\ \A n \in 1 .. 3 : Rules[n] \in Collections
    /\ \A c \in Collections : \E n \in 1 .. 3 : c = Rules[n]
    /\ \A m, n \in 1 .. 3 : Rules[m] = Rules[n] => m = n
  <1>1. \A n \in 1 .. 3 : Rules[n] \in Collections
    BY DEF Collections
  <1>2. \A c \in Collections : \E n \in 1 .. 3 : c = Rules[n]
    BY DEF Collections
  <1>3. /\ Rules[1] = "leaked_data" /\ Rules[2] = "leak_history"
        /\ Rules[3] = "alert_log"
    BY DEF Rules
  <1>4. \A m, n \in 1 .. 3 : Rules[m] = Rules[n] => m = n
    BY <1>3
  <1> QED BY <1>1, <1>2, <1>4

Elems(s) == {s[n] : n \in 1 .. Len(s)}

\* An event appended is the one more event of the log.
LEMMA AppendElems ==
    ASSUME NEW S, NEW s \in Seq(S), NEW e \in S
    PROVE  /\ Append(s, e) \in Seq(S)
           /\ Elems(Append(s, e)) = Elems(s) \cup {e}
  <1>1. Append(s, e) \in Seq(S) /\ Len(Append(s, e)) = Len(s) + 1 /\ Len(s) \in Nat
    OBVIOUS
  <1>2. \A n \in 1 .. Len(s) : Append(s, e)[n] = s[n]
    OBVIOUS
  <1>3. Append(s, e)[Len(s) + 1] = e
    OBVIOUS
  <1>4. 1 .. Len(s) + 1 = 1 .. Len(s) \cup {Len(s) + 1}
    BY <1>1
  <1> QED BY <1>1, <1>2, <1>3, <1>4 DEF Elems

-----------------------------------------------------------------------------
(* Types.                                                                  *)

\* The counts an event can tell are numbers: collections are finite.
LEMMA CountType ==
    ASSUME NEW X \in SUBSET Ids
    PROVE  Cardinality(X) \in Nat
  BY FS_Subset, FS_CardinalityType, RetentionAssumption

\* An event emitted keeps the logs well typed.
LEMMA emitType ==
    ASSUME TypeOK, NEW r \in Runs, NEW result \in Results,
           NEW collection \in Collections \cup {None}, NEW count \in Nat,
           emit(r, result, collection, count)
    PROVE  audit' \in [Runs -> Seq(Event)]
  <1> DEFINE e == [result |-> result, collection |-> collection, count |-> count]
  <1>1. e \in Event
    BY DEF Event
  <1>2. Append(audit[r], e) \in Seq(Event)
    BY <1>1, AppendElems DEF TypeOK
  <1> QED BY <1>2 DEF emit, TypeOK

\* A run moved to a phase is in a phase.
LEMMA GotoType ==
    ASSUME TypeOK, NEW r \in Runs, NEW phase \in Phases, Goto(r, phase)
    PROVE  pc' \in [Runs -> Phases]
  BY DEF TypeOK, Goto

\* The next place is a place of Rules.
LEMMA NextRuleType ==
    ASSUME TypeOK, NEW r \in Runs, NEW phase \in Phases, NEW last \in Phases,
           NextRule(r, phase, last)
    PROVE  pc' \in [Runs -> Phases] /\ place' \in [Runs -> 1 .. 3]
  <1>0. place[r] \in 1 .. 3
    BY DEF TypeOK
  <1>1. (IF place[r] < 3 THEN place[r] + 1 ELSE 1) \in 1 .. 3
    BY <1>0
  <1>2. (IF place[r] < 3 THEN phase ELSE last) \in Phases
    OBVIOUS
  <1>3. pc' \in [Runs -> Phases]
    BY <1>2, GotoType DEF NextRule
  <1>4. place' \in [Runs -> 1 .. 3]
    BY <1>1 DEF TypeOK, NextRule
  <1> QED BY <1>3, <1>4

\* A deletion leaves documents and holes.
LEMMA RemoveType ==
    ASSUME TypeOK, NEW r \in Runs, NEW gone \in SUBSET Ids, Remove(r, gone)
    PROVE  /\ store' \in [Collections -> [Ids -> Document \cup {None}]]
           /\ erased' \in [Runs -> [Collections -> SUBSET Ids]]
  <1>1. At(r) \in Collections
    BY RulesFact DEF TypeOK, At
  <1>2. [i \in Ids |-> IF i \in gone THEN None ELSE store[At(r)][i]]
          \in [Ids -> Document \cup {None}]
    BY <1>1 DEF TypeOK
  <1>3. store' \in [Collections -> [Ids -> Document \cup {None}]]
    BY <1>1, <1>2 DEF TypeOK, Remove
  <1>4. erased' \in [Runs -> [Collections -> SUBSET Ids]]
    BY <1>1 DEF TypeOK, Remove
  <1> QED BY <1>3, <1>4

\* A write puts a document at one place and touches no other.
LEMMA WriteType ==
    ASSUME TypeOK, NEW c \in Collections, NEW i \in Ids, Write(c, i)
    PROVE  /\ store' \in [Collections -> [Ids -> Document \cup {None}]]
           /\ store'[c][i] \in Document
           /\ \A d \in Collections, j \in Ids :
                 d # c \/ j # i => store'[d][j] = store[d][j]
  <1>1. PICK stamp \in 0 .. clock :
          \/ Put(c, i, [primary |-> stamp, fallback |-> stamp])
          \/ Put(c, i, [primary |-> stamp, fallback |-> Missing])
          \/ Put(c, i, [primary |-> stamp,
                        fallback |-> IF store[c][i] = None THEN stamp
                                     ELSE store[c][i].fallback])
    BY DEF Write
  <1>2. stamp \in Stamp /\ Missing \in Stamp
    BY DEF TypeOK, Stamp
  <1>3. store[c][i] # None => store[c][i].fallback \in Stamp
    BY DEF TypeOK, Document
  <1>4. PICK doc \in Document : Put(c, i, doc)
    BY <1>1, <1>2, <1>3 DEF Document
  <1> QED BY <1>4 DEF Put, TypeOK

\* Every step keeps the types.
LEMMA TypePreserved ==
    ASSUME TypeOK, [Next]_vars
    PROVE  TypeOK'
  <1>1. CASE UNCHANGED vars
    BY <1>1 DEF TypeOK, vars, locals
  <1>2. ASSUME NEW r \in Runs, Refuse(r)
        PROVE  TypeOK'
    <2>1. pc' \in [Runs -> Phases]
      BY <1>2, GotoType DEF Refuse, Phases
    <2>2. audit' \in [Runs -> Seq(Event)]
      BY <1>2, emitType DEF Refuse, Results
    <2> QED BY <1>2, <2>1, <2>2 DEF Refuse, TypeOK, locals
  <1>3. ASSUME NEW r \in Runs, Start(r)
        PROVE  TypeOK'
    <2>1. pc' \in [Runs -> Phases]
      BY <1>3, GotoType DEF Start, Phases
    <2>2. audit' \in [Runs -> Seq(Event)]
      BY <1>3, emitType DEF Start, Results
    <2>3. now' \in [Runs -> Nat]
      BY <1>3 DEF Start, TypeOK
    <2> QED BY <1>3, <2>1, <2>2, <2>3 DEF Start, TypeOK
  <1>4. ASSUME NEW r \in Runs, inspect_retention(r)
        PROVE  TypeOK'
    <2>1. pc' \in [Runs -> Phases] /\ place' \in [Runs -> 1 .. 3]
      BY <1>4, NextRuleType DEF inspect_retention, Phases
    <2>2. At(r) \in Collections /\ Expired(At(r), now[r]) \in SUBSET Ids
      BY RulesFact DEF TypeOK, At, Expired
    <2>3. report' \in [Runs -> [Collections -> SUBSET Ids]]
      BY <1>4, <2>2 DEF inspect_retention, TypeOK
    <2> QED BY <1>4, <2>1, <2>3 DEF inspect_retention, TypeOK
  <1>5. ASSUME NEW r \in Runs, Delete(r)
        PROVE  TypeOK'
    <2>1. pc' \in [Runs -> Phases]
      BY <1>5, GotoType DEF Delete, Phases
    <2>2. /\ store' \in [Collections -> [Ids -> Document \cup {None}]]
          /\ erased' \in [Runs -> [Collections -> SUBSET Ids]]
      BY <1>5, RemoveType DEF Delete, Expired
    <2> QED BY <1>5, <2>1, <2>2 DEF Delete, TypeOK, locals
  <1>6. ASSUME NEW r \in Runs, Record(r)
        PROVE  TypeOK'
    <2>1. pc' \in [Runs -> Phases] /\ place' \in [Runs -> 1 .. 3]
      BY <1>6, NextRuleType DEF Record, Phases
    <2>2. At(r) \in Collections
      BY RulesFact DEF TypeOK, At
    <2>3. Cardinality(erased[r][At(r)]) \in Nat
      BY <2>2, CountType DEF TypeOK
    <2>4. audit' \in [Runs -> Seq(Event)]
      BY <1>6, <2>2, <2>3, emitType DEF Record, Results
    <2> QED BY <1>6, <2>1, <2>4 DEF Record, TypeOK
  <1>7. ASSUME NEW r \in Runs, Finish(r)
        PROVE  TypeOK'
    <2>1. pc' \in [Runs -> Phases]
      BY <1>7, GotoType DEF Finish, Phases
    <2>2. audit' \in [Runs -> Seq(Event)]
      BY <1>7, emitType DEF Finish, Results
    <2> QED BY <1>7, <2>1, <2>2 DEF Finish, TypeOK, locals
  <1>8. ASSUME NEW r \in Runs, Fails(r)
        PROVE  TypeOK'
    <2>1. pc' \in [Runs -> Phases]
      BY <1>8, GotoType DEF Fails, Phases
    <2>2. audit' \in [Runs -> Seq(Event)]
      BY <1>8, emitType DEF Fails, Results
    <2>3. \/ UNCHANGED <<store, erased>>
          \/ \E gone \in SUBSET Ids : Remove(r, gone)
      BY <1>8 DEF Fails, Expired
    <2>4. /\ store' \in [Collections -> [Ids -> Document \cup {None}]]
          /\ erased' \in [Runs -> [Collections -> SUBSET Ids]]
      BY <2>3, RemoveType DEF TypeOK
    <2>5. faults' \in 0 .. MaxFaults
      BY <1>8, RetentionAssumption DEF Fails, Fault, TypeOK
    <2> QED BY <1>8, <2>1, <2>2, <2>4, <2>5 DEF Fails, TypeOK, locals
  <1>9. ASSUME NEW r \in Runs, Report(r)
        PROVE  TypeOK'
    <2>1. pc' \in [Runs -> Phases]
      BY <1>9, GotoType DEF Report, Phases
    <2>2. audit' \in [Runs -> Seq(Event)]
      BY <1>9, emitType DEF Report, Results
    <2> QED BY <1>9, <2>1, <2>2 DEF Report, TypeOK, locals
  <1>10. ASSUME NEW r \in Runs, Dies(r)
         PROVE  TypeOK'
    <2>1. pc' \in [Runs -> Phases]
      BY <1>10, GotoType DEF Dies, Phases
    <2>2. faults' \in 0 .. MaxFaults
      BY <1>10, RetentionAssumption DEF Dies, Fault, TypeOK
    <2> QED BY <1>10, <2>1, <2>2 DEF Dies, TypeOK, locals
  <1>11. ASSUME NEW c \in Collections, NEW i \in Ids, Write(c, i)
         PROVE  TypeOK'
    <2>1. store' \in [Collections -> [Ids -> Document \cup {None}]]
      BY <1>11, WriteType
    <2>2. UNCHANGED <<clock, pc, locals, erased, audit, faults>>
      BY <1>11 DEF Write
    <2> QED BY <2>1, <2>2 DEF TypeOK, locals
  <1>12. CASE Tick
    BY <1>12 DEF Tick, TypeOK, locals
  <1> QED
    BY <1>1, <1>2, <1>3, <1>4, <1>5, <1>6, <1>7, <1>8, <1>9, <1>10, <1>11, <1>12
    DEF Next, Run

\* The state keeps its types: counts are numbers, places are rules, documents
\* have timestamps.
THEOREM TypeCorrectness == Spec => []TypeOK
  <1>1. Init => TypeOK
    <2> SUFFICES ASSUME Init PROVE TypeOK
      OBVIOUS
    <2>1. store \in [Collections -> [Ids -> Document \cup {None}]]
      BY RetentionAssumption DEF Init
    <2>2. audit \in [Runs -> Seq(Event)]
      BY DEF Init
    <2>3. faults \in 0 .. MaxFaults
      BY RetentionAssumption DEF Init
    <2> QED BY <2>1, <2>2, <2>3 DEF Init, TypeOK, Phases
  <1> QED BY <1>1, TypePreserved, PTL DEF Spec

-----------------------------------------------------------------------------
(* A recent document survives.                                             *)

\* The day a run compares with is never ahead of today.
NowPast == \A r \in Runs : now[r] <= clock

\* A run reads the day once, and days do not go back.
LEMMA NowPastPreserved ==
    ASSUME TypeOK, NowPast, [Next]_vars
    PROVE  NowPast'
  <1>1. \/ now' = now /\ clock' \in Nat /\ clock <= clock'
        \/ \E r \in Runs : clock' = clock /\ now' = [now EXCEPT ![r] = clock]
    BY DEF TypeOK, Next, Run, Refuse, Start, inspect_retention, Delete, Record, Finish,
           Fails, Report, Dies, Write, Tick, vars, locals
  <1>2. now \in [Runs -> Nat] /\ clock \in Nat
    BY DEF TypeOK
  <1>3. CASE now' = now /\ clock' \in Nat /\ clock <= clock'
    BY <1>2, <1>3 DEF NowPast
  <1>4. ASSUME NEW r \in Runs, clock' = clock, now' = [now EXCEPT ![r] = clock]
        PROVE  NowPast'
    <2>1. ASSUME NEW s \in Runs PROVE now'[s] <= clock
      BY <1>2, <1>4 DEF NowPast
    <2> QED BY <1>4, <2>1 DEF NowPast
  <1> QED BY <1>1, <1>3, <1>4

\* What a deletion by the "expired" query removes is old today.
LEMMA RemoveExpired ==
    ASSUME TypeOK, NowPast, NEW r \in Runs, NEW gone \in SUBSET Expired(At(r), now[r]),
           Remove(r, gone), NEW c \in Collections, NEW i \in Ids,
           store[c][i] # None, store'[c][i] = None
    PROVE  /\ timestamp_expression(store[c][i]) + Days[c] < clock
           /\ \A stamp \in {store[c][i].primary, store[c][i].fallback} :
                 stamp = Missing \/ (stamp \in Nat /\ stamp <= clock)
  <1>1. At(r) \in Collections
    BY RulesFact DEF TypeOK, At
  <1>2. c = At(r) /\ i \in gone
    BY <1>1 DEF TypeOK, Remove
  <1>3. expired(store[c][i], Days[c], now[r])
    BY <1>2 DEF Expired
  <1>4. /\ now[r] \in Nat /\ clock \in Nat /\ now[r] <= clock
        /\ Days[c] \in Nat /\ store[c][i] \in Document
    BY RetentionAssumption DEF TypeOK, NowPast
  <1> DEFINE primary == store[c][i].primary
             fallback == store[c][i].fallback
             chosen == timestamp_expression(store[c][i])
  <1>5. /\ chosen \in Nat /\ chosen + Days[c] < now[r]
        /\ primary # Invalid /\ fallback # Invalid
        /\ (primary \in Nat => ~ (primary > now[r]))
        /\ (fallback \in Nat => ~ (fallback > now[r]))
    BY <1>3 DEF expired, Future
  <1>6. primary \in Stamp /\ fallback \in Stamp
    BY <1>4 DEF Document
  <1> HIDE DEF primary, fallback, chosen
  <1>7. chosen + Days[c] < clock
    BY <1>4, <1>5
  <1>8. \A stamp \in {primary, fallback} : stamp = Missing \/ (stamp \in Nat /\ stamp <= clock)
    BY <1>4, <1>5, <1>6 DEF Stamp
  <1> QED BY <1>7, <1>8 DEF primary, fallback, chosen

\* No step deletes a document whose timestamps are not all of the past, or whose
\* own is not more than its collection's days old (retention.py:89-90).
THEOREM RecentDocumentsSurvive == Spec => RecentSurvives
  <1> DEFINE Survives ==
        \A c \in Collections, i \in Ids :
           LET doc == store[c][i] IN
           doc # None /\ store'[c][i] = None =>
              /\ timestamp_expression(doc) + Days[c] < clock
              /\ \A stamp \in {doc.primary, doc.fallback} :
                    stamp = Missing \/ (stamp \in Nat /\ stamp <= clock)
  <1>1. Init => NowPast
    BY DEF Init, NowPast
  <1>2. TypeOK /\ NowPast /\ [Next]_vars => NowPast'
    BY NowPastPreserved
  <1>3. TypeOK /\ NowPast /\ [Next]_vars => [Survives]_vars
    <2> SUFFICES ASSUME TypeOK, NowPast, Next,
                        NEW c \in Collections, NEW i \in Ids,
                        store[c][i] # None, store'[c][i] = None
                 PROVE  /\ timestamp_expression(store[c][i]) + Days[c] < clock
                        /\ \A stamp \in {store[c][i].primary, store[c][i].fallback} :
                              stamp = Missing \/ (stamp \in Nat /\ stamp <= clock)
      OBVIOUS
    <2>1. store' # store
      OBVIOUS
    <2>2. CASE \E r \in Runs : Delete(r) \/ Fails(r)
      <3>1. PICK r \in Runs : \E gone \in SUBSET Expired(At(r), now[r]) : Remove(r, gone)
        BY <2>1, <2>2 DEF Delete, Fails
      <3> QED BY <3>1, RemoveExpired
    <2>3. ASSUME NEW d \in Collections, NEW j \in Ids, Write(d, j)
          PROVE  FALSE
      <3>1. store'[d][j] \in Document
            /\ (d # c \/ j # i => store'[c][i] = store[c][i])
        BY <2>3, WriteType
      <3> QED BY <3>1, RetentionAssumption
    <2> QED
      BY <2>1, <2>2, <2>3
      DEF Next, Run, Refuse, Start, inspect_retention, Record, Finish, Report, Dies, Tick
  <1>4. Spec => [](TypeOK /\ NowPast)
    BY <1>1, <1>2, TypeCorrectness, PTL DEF Spec
  <1> QED BY <1>3, <1>4, PTL DEF Spec, RecentSurvives

-----------------------------------------------------------------------------
(* The audit log tells what was deleted.                                   *)

Told(events, c) == \E e \in events : e.result = "deleted" /\ e.collection = c

Untouched(gone, events, c) == gone[c] = {} /\ ~ Told(events, c)

\* What the events tell is right, and success is told of a whole run only.
Honest(gone, events) ==
    /\ \A e \in events : e.result = "deleted" =>
          e.collection \in Collections /\ e.count = Cardinality(gone[e.collection])
    /\ (\E e \in events : e.result = "success") => \A c \in Collections : Told(events, c)

\* How far a run in a phase, at the n-th collection, has got.
Progress(phase, n, applies, gone, events) ==
    /\ phase \in {"new", "inspect"} => \A c \in Collections : Untouched(gone, events, c)
    /\ phase = "delete" =>
          \A m \in 1 .. 3 : /\ m < n => Told(events, Rules[m])
                            /\ m >= n => Untouched(gone, events, Rules[m])
    /\ phase = "record" =>
          \A m \in 1 .. 3 : /\ m < n => Told(events, Rules[m])
                            /\ m > n => Untouched(gone, events, Rules[m])
    /\ phase \in {"delete", "record"} => applies
    /\ phase = "finish" => IF applies THEN \A c \in Collections : Told(events, c)
                            ELSE \A c \in Collections : Untouched(gone, events, c)
    /\ phase \in {"finish", "failed", "done", "dead"} =>
          \A c \in Collections : gone[c] # {} /\ ~ Told(events, c) => c = Rules[n]

RunOK(phase, n, applies, gone, events) ==
    Honest(gone, events) /\ Progress(phase, n, applies, gone, events)

RunsOK == \A r \in Runs : RunOK(pc[r], place[r], apply[r], erased[r], Elems(audit[r]))

\* One more event that tells of no deletion.
LEMMA ToldMore ==
    ASSUME NEW events, NEW e, e.result # "deleted"
    PROVE  \A c : Told(events \cup {e}, c) <=> Told(events, c)
  BY DEF Told

\* An event that tells of no deletion keeps the log honest.
LEMMA HonestMore ==
    ASSUME NEW gone, NEW events, NEW e, Honest(gone, events), e.result # "deleted",
           e.result = "success" => \A c \in Collections : Told(events, c)
    PROVE  Honest(gone, events \cup {e})
  BY ToldMore DEF Honest

\* The event of a deletion.
LEMMA HonestDeleted ==
    ASSUME NEW gone, NEW events, NEW e, Honest(gone, events), e.result = "deleted",
           e.collection \in Collections, e.count = Cardinality(gone[e.collection])
    PROVE  /\ Honest(gone, events \cup {e})
           /\ \A c : Told(events \cup {e}, c) <=> (c = e.collection \/ Told(events, c))
  <1>1. \A c : Told(events \cup {e}, c) <=> (c = e.collection \/ Told(events, c))
    BY DEF Told
  <1>2. (\E d \in events \cup {e} : d.result = "success") <=> (\E d \in events : d.result = "success")
    OBVIOUS
  <1> QED BY <1>1, <1>2 DEF Honest

\* A deletion where none has been told of.
LEMMA HonestDelete ==
    ASSUME NEW gone \in [Collections -> SUBSET Ids], NEW events, Honest(gone, events),
           NEW c \in Collections, ~ Told(events, c), NEW lost \in SUBSET Ids
    PROVE  Honest([gone EXCEPT ![c] = lost], events)
  <1>1. \A e \in events : e.result = "deleted" => e.collection # c
    BY DEF Told
  <1>2. \A d \in Collections : d # c => [gone EXCEPT ![c] = lost][d] = gone[d]
    OBVIOUS
  <1> QED BY <1>1, <1>2 DEF Honest

\* How the log of each run grows.
LEMMA emitEvents ==
    ASSUME TypeOK, NEW r \in Runs, NEW result \in Results,
           NEW collection \in Collections \cup {None}, NEW count \in Nat,
           emit(r, result, collection, count)
    PROVE  /\ Elems(audit'[r]) = Elems(audit[r]) \cup
                 {[result |-> result, collection |-> collection, count |-> count]}
           /\ \A s \in Runs : s # r => audit'[s] = audit[s]
  <1> DEFINE e == [result |-> result, collection |-> collection, count |-> count]
  <1>1. e \in Event
    BY DEF Event
  <1>2. audit[r] \in Seq(Event)
    BY DEF TypeOK
  <1>3. Elems(Append(audit[r], e)) = Elems(audit[r]) \cup {e}
    BY <1>1, <1>2, AppendElems
  <1>4. audit'[r] = Append(audit[r], e) /\ \A s \in Runs : s # r => audit'[s] = audit[s]
    BY DEF emit, TypeOK
  <1> QED BY <1>3, <1>4

\* A step of run r leaves the others where they are.
LEMMA OneRun ==
    ASSUME RunsOK, NEW r \in Runs,
           RunOK(pc'[r], place'[r], apply'[r], erased'[r], Elems(audit'[r])),
           \A s \in Runs : s # r => /\ pc'[s] = pc[s] /\ place'[s] = place[s]
                                    /\ apply'[s] = apply[s] /\ erased'[s] = erased[s]
                                    /\ audit'[s] = audit[s]
    PROVE  RunsOK'
  BY DEF RunsOK

\* Every step of a run takes it from one line of Progress to the next.
LEMMA RunsOKPreserved ==
    ASSUME TypeOK, RunsOK, [Next]_vars
    PROVE  RunsOK'
  <1>0. \A r \in Runs : RunOK(pc[r], place[r], apply[r], erased[r], Elems(audit[r]))
    BY DEF RunsOK
  <1>t. \A r \in Runs : /\ place[r] \in 1 .. 3 /\ At(r) \in Collections /\ At(r) = Rules[place[r]]
                        /\ erased[r] \in [Collections -> SUBSET Ids]
    BY RulesFact DEF TypeOK, At
  <1>1. CASE UNCHANGED <<pc, place, apply, erased, audit>>
    BY <1>1 DEF RunsOK
  <1>2. ASSUME NEW r \in Runs, Refuse(r)
        PROVE  RunsOK'
    <2>1. /\ pc[r] = "new" /\ pc'[r] = "done"
          /\ UNCHANGED <<place, apply, erased>>
          /\ \A s \in Runs : s # r => pc'[s] = pc[s]
      BY <1>2 DEF Refuse, Goto, TypeOK, locals
    <2> DEFINE e == [result |-> "error", collection |-> None, count |-> 0]
    <2>2. /\ Elems(audit'[r]) = Elems(audit[r]) \cup {e}
          /\ \A s \in Runs : s # r => audit'[s] = audit[s]
      BY <1>2, emitEvents DEF Refuse, Results
    <2>3. Honest(erased[r], Elems(audit[r]) \cup {e})
      BY <1>0, HonestMore DEF RunOK
    <2>4. Progress("done", place[r], apply[r], erased[r], Elems(audit[r]) \cup {e})
      BY <1>0, <2>1 DEF RunOK, Progress, Untouched
    <2> QED BY <2>1, <2>2, <2>3, <2>4, OneRun DEF RunOK
  <1>3. ASSUME NEW r \in Runs, Start(r)
        PROVE  RunsOK'
    <2>1. /\ pc[r] = "new" /\ pc'[r] = "inspect"
          /\ UNCHANGED <<place, apply, erased>>
          /\ \A s \in Runs : s # r => pc'[s] = pc[s]
      BY <1>3 DEF Start, Goto, TypeOK
    <2> DEFINE e == [result |-> IF apply[r] THEN "started" ELSE "dry_run",
                     collection |-> None, count |-> 0]
    <2>2. /\ Elems(audit'[r]) = Elems(audit[r]) \cup {e}
          /\ \A s \in Runs : s # r => audit'[s] = audit[s]
      BY <1>3, emitEvents DEF Start, Results
    <2>3. Honest(erased[r], Elems(audit[r]) \cup {e})
      BY <1>0, HonestMore DEF RunOK
    <2>4. \A c : Told(Elems(audit[r]) \cup {e}, c) <=> Told(Elems(audit[r]), c)
      BY ToldMore
    <2>5. Progress("inspect", place[r], apply[r], erased[r], Elems(audit[r]) \cup {e})
      BY <1>0, <2>1, <2>4 DEF RunOK, Progress, Untouched
    <2> QED BY <2>1, <2>2, <2>3, <2>5, OneRun DEF RunOK
  <1>4. ASSUME NEW r \in Runs, inspect_retention(r)
        PROVE  RunsOK'
    <2>1. /\ pc[r] = "inspect"
          /\ UNCHANGED <<apply, erased, audit>>
          /\ \A s \in Runs : s # r => pc'[s] = pc[s] /\ place'[s] = place[s]
      BY <1>4 DEF inspect_retention, NextRule, Goto, TypeOK
    <2>2. \/ pc'[r] = "inspect"
          \/ pc'[r] = "delete" /\ place'[r] = 1 /\ apply[r]
          \/ pc'[r] = "finish" /\ ~ apply[r]
      BY <1>4 DEF inspect_retention, NextRule, Goto, TypeOK
    <2>3. \A c \in Collections : Untouched(erased[r], Elems(audit[r]), c)
      BY <1>0, <2>1 DEF RunOK, Progress
    <2>4. Progress(pc'[r], place'[r], apply[r], erased[r], Elems(audit[r]))
      <3>1. \A m \in 1 .. 3 : Untouched(erased[r], Elems(audit[r]), Rules[m])
        BY <2>3, RulesFact
      <3> QED BY <2>2, <2>3, <3>1 DEF Progress, Untouched
    <2> QED BY <1>0, <2>1, <2>4, OneRun DEF RunOK
  <1>5. ASSUME NEW r \in Runs, Delete(r)
        PROVE  RunsOK'
    <2>1. /\ pc[r] = "delete" /\ pc'[r] = "record"
          /\ UNCHANGED <<place, apply, audit>>
          /\ \A s \in Runs : s # r => pc'[s] = pc[s]
      BY <1>5 DEF Delete, Goto, TypeOK, locals
    <2>2. PICK lost \in SUBSET Ids : Remove(r, lost)
      BY <1>5 DEF Delete, Expired
    <2>3. /\ erased'[r] = [erased[r] EXCEPT ![At(r)] = lost]
          /\ \A s \in Runs : s # r => erased'[s] = erased[s]
      BY <2>2 DEF Remove, TypeOK
    <2>4. \A m \in 1 .. 3 : /\ m < place[r] => Told(Elems(audit[r]), Rules[m])
                            /\ m >= place[r] => Untouched(erased[r], Elems(audit[r]), Rules[m])
      BY <1>0, <2>1 DEF RunOK, Progress
    <2>a. apply[r]
      BY <1>0, <2>1 DEF RunOK, Progress
    <2>5. ~ Told(Elems(audit[r]), At(r))
      BY <1>t, <2>4 DEF Untouched
    <2>6. Honest(erased'[r], Elems(audit[r]))
      <3>1. Honest(erased[r], Elems(audit[r]))
        BY <1>0 DEF RunOK
      <3>2. Honest([erased[r] EXCEPT ![At(r)] = lost], Elems(audit[r]))
        BY <1>t, <2>5, <3>1, HonestDelete
      <3> QED BY <2>3, <3>2
    <2>7. \A m \in 1 .. 3 : m > place[r] => Rules[m] # At(r) /\ Rules[m] \in Collections
      BY <1>t, RulesFact
    <2>8. \A m \in 1 .. 3 : m > place[r] => erased'[r][Rules[m]] = erased[r][Rules[m]]
      BY <1>t, <2>3, <2>7
    <2>9. Progress("record", place[r], apply[r], erased'[r], Elems(audit[r]))
      BY <1>t, <2>a, <2>4, <2>8 DEF Progress, Untouched
    <2> QED BY <2>1, <2>3, <2>6, <2>9, OneRun DEF RunOK
  <1>6. ASSUME NEW r \in Runs, Record(r)
        PROVE  RunsOK'
    <2>1. /\ pc[r] = "record"
          /\ UNCHANGED <<apply, erased>>
          /\ \A s \in Runs : s # r => pc'[s] = pc[s] /\ place'[s] = place[s]
      BY <1>6 DEF Record, NextRule, Goto, TypeOK
    <2>2. \/ place[r] < 3 /\ place'[r] = place[r] + 1 /\ pc'[r] = "delete"
          \/ place[r] = 3 /\ place'[r] = 1 /\ pc'[r] = "finish"
      <3>1. /\ place'[r] = IF place[r] < 3 THEN place[r] + 1 ELSE 1
            /\ pc'[r] = IF place[r] < 3 THEN "delete" ELSE "finish"
        BY <1>6 DEF Record, NextRule, Goto, TypeOK
      <3>2. place[r] \in 1 .. 3
        BY <1>t
      <3> QED BY <3>1, <3>2
    <2> DEFINE e == [result |-> "deleted", collection |-> At(r),
                     count |-> Cardinality(erased[r][At(r)])]
               events == Elems(audit[r])
    <2>3. Cardinality(erased[r][At(r)]) \in Nat
      BY <1>t, CountType
    <2>4. /\ Elems(audit'[r]) = events \cup {e}
          /\ \A s \in Runs : s # r => audit'[s] = audit[s]
      BY <1>6, <1>t, <2>3, emitEvents DEF Record, Results
    <2>5. /\ Honest(erased[r], events \cup {e})
          /\ \A c : Told(events \cup {e}, c) <=> (c = At(r) \/ Told(events, c))
      <3>1. Honest(erased[r], events) /\ At(r) \in Collections
        BY <1>0, <1>t DEF RunOK
      <3>2. e.result = "deleted" /\ e.collection = At(r)
            /\ e.count = Cardinality(erased[r][At(r)])
        OBVIOUS
      <3> HIDE DEF e, events
      <3> QED BY <3>1, <3>2, HonestDeleted
    <2>6. \A m \in 1 .. 3 : /\ m < place[r] => Told(events, Rules[m])
                            /\ m > place[r] => Untouched(erased[r], events, Rules[m])
      BY <1>0, <2>1 DEF RunOK, Progress
    <2>a. apply[r]
      BY <1>0, <2>1 DEF RunOK, Progress
    <2> HIDE DEF e, events
    <2>7. \A m \in 1 .. 3 : m <= place[r] => Told(events \cup {e}, Rules[m])
      <3> SUFFICES ASSUME NEW m \in 1 .. 3, m <= place[r]
                   PROVE  Told(events \cup {e}, Rules[m])
        OBVIOUS
      <3>1. m = place[r] \/ m < place[r]
        BY <1>t
      <3>2. CASE m = place[r]
        BY <1>t, <2>5, <3>2
      <3>3. CASE m < place[r]
        BY <2>5, <2>6, <3>3
      <3> QED BY <3>1, <3>2, <3>3
    <2>8. \A m \in 1 .. 3 : m > place[r] => Untouched(erased[r], events \cup {e}, Rules[m])
      <3> SUFFICES ASSUME NEW m \in 1 .. 3, m > place[r]
                   PROVE  Untouched(erased[r], events \cup {e}, Rules[m])
        OBVIOUS
      <3>1. Rules[m] # At(r)
        BY <1>t, RulesFact
      <3>2. erased[r][Rules[m]] = {} /\ ~ Told(events, Rules[m])
        BY <2>6 DEF Untouched
      <3>3. ~ Told(events \cup {e}, Rules[m])
        BY <2>5, <3>1, <3>2
      <3> QED BY <3>2, <3>3 DEF Untouched
    <2>9. CASE place[r] < 3 /\ place'[r] = place[r] + 1 /\ pc'[r] = "delete"
      <3>1. Progress("delete", place[r] + 1, apply[r], erased[r], events \cup {e})
        BY <1>t, <2>a, <2>7, <2>8, <2>9 DEF Progress
      <3> QED BY <2>1, <2>4, <2>5, <2>9, <3>1, OneRun DEF RunOK
    <2>10. CASE place[r] = 3 /\ place'[r] = 1 /\ pc'[r] = "finish"
      <3>1. \A c \in Collections : Told(events \cup {e}, c)
        BY <2>7, <2>10, RulesFact
      <3>2. Progress("finish", 1, apply[r], erased[r], events \cup {e})
        BY <2>a, <3>1 DEF Progress
      <3> QED BY <2>1, <2>4, <2>5, <2>10, <3>2, OneRun DEF RunOK
    <2> QED BY <2>2, <2>9, <2>10
  <1>7. ASSUME NEW r \in Runs, Finish(r)
        PROVE  RunsOK'
    <2>1. /\ pc[r] = "finish" /\ pc'[r] = "done"
          /\ UNCHANGED <<place, apply, erased>>
          /\ \A s \in Runs : s # r => pc'[s] = pc[s]
      BY <1>7 DEF Finish, Goto, TypeOK, locals
    <2> DEFINE e == [result |-> IF apply[r] THEN "success" ELSE "dry_run",
                     collection |-> None, count |-> 0]
               events == Elems(audit[r])
    <2>2. /\ Elems(audit'[r]) = events \cup {e}
          /\ \A s \in Runs : s # r => audit'[s] = audit[s]
      BY <1>7, emitEvents DEF Finish, Results
    <2>3. /\ e.result # "deleted" /\ (e.result = "success" => apply[r])
          /\ apply[r] \in BOOLEAN
      BY DEF TypeOK
    <2>4. RunOK("finish", place[r], apply[r], erased[r], events)
      BY <1>0, <2>1
    <2> HIDE DEF e, events
    <2>5. e.result = "success" => \A c \in Collections : Told(events, c)
      BY <2>3, <2>4 DEF RunOK, Progress
    <2>6. Honest(erased[r], events \cup {e})
      BY <2>3, <2>4, <2>5, HonestMore DEF RunOK
    <2>7. \A c : Told(events \cup {e}, c) <=> Told(events, c)
      BY <2>3, ToldMore
    <2>8. Progress("done", place[r], apply[r], erased[r], events \cup {e})
      BY <2>4, <2>7 DEF RunOK, Progress
    <2> QED BY <2>1, <2>2, <2>6, <2>8, OneRun DEF RunOK
  <1>8. ASSUME NEW r \in Runs, Fails(r)
        PROVE  RunsOK'
    <2>1. /\ pc[r] \in {"inspect", "delete"} /\ pc'[r] = "failed"
          /\ UNCHANGED <<place, apply>>
          /\ \A s \in Runs : s # r => pc'[s] = pc[s]
      BY <1>8 DEF Fails, Goto, TypeOK, locals
    <2> DEFINE e == [result |-> "error", collection |-> None, count |-> 0]
               events == Elems(audit[r])
    <2>2. /\ Elems(audit'[r]) = events \cup {e}
          /\ \A s \in Runs : s # r => audit'[s] = audit[s]
      BY <1>8, emitEvents DEF Fails, Results
    <2>3. e.result # "deleted" /\ e.result # "success"
      OBVIOUS
    <2>4. RunOK(pc[r], place[r], apply[r], erased[r], events)
      BY <1>0
    <2> HIDE DEF e, events
    <2>5. \A c : Told(events \cup {e}, c) <=> Told(events, c)
      BY <2>3, ToldMore
    <2>6. \/ erased' = erased
          \/ /\ pc[r] = "delete"
             /\ \E lost \in SUBSET Ids : Remove(r, lost)
      BY <1>8 DEF Fails, Expired
    <2>7. CASE erased' = erased
      <3>1. Honest(erased[r], events \cup {e})
        BY <2>3, <2>4, HonestMore DEF RunOK
      <3>2. \A c \in Collections : erased[r][c] # {} /\ ~ Told(events, c) => FALSE
        <4>1. CASE pc[r] = "inspect"
          BY <2>4, <4>1 DEF RunOK, Progress, Untouched
        <4>2. CASE pc[r] = "delete"
          <5> SUFFICES ASSUME NEW c \in Collections
                       PROVE  erased[r][c] = {} \/ Told(events, c)
            OBVIOUS
          <5>1. PICK m \in 1 .. 3 : c = Rules[m]
            BY RulesFact
          <5> QED BY <1>t, <2>4, <4>2, <5>1 DEF RunOK, Progress, Untouched
        <4> QED BY <2>1, <4>1, <4>2
      <3>3. Progress("failed", place[r], apply[r], erased[r], events \cup {e})
        BY <2>5, <3>2 DEF Progress
      <3> QED BY <2>1, <2>2, <2>7, <3>1, <3>3, OneRun DEF RunOK
    <2>8. ASSUME pc[r] = "delete", NEW lost \in SUBSET Ids, Remove(r, lost)
          PROVE  RunsOK'
      <3>1. /\ erased'[r] = [erased[r] EXCEPT ![At(r)] = lost]
            /\ \A s \in Runs : s # r => erased'[s] = erased[s]
        BY <2>8 DEF Remove, TypeOK
      <3>2. \A m \in 1 .. 3 :
               /\ m < place[r] => Told(events, Rules[m])
               /\ m >= place[r] => Untouched(erased[r], events, Rules[m])
        BY <2>4, <2>8 DEF RunOK, Progress
      <3>3. ~ Told(events, At(r))
        BY <1>t, <3>2 DEF Untouched
      <3>4. Honest(erased[r], events)
        BY <2>4 DEF RunOK
      <3>a. Honest([erased[r] EXCEPT ![At(r)] = lost], events)
        BY <1>t, <2>8, <3>3, <3>4, HonestDelete
      <3>5. Honest(erased'[r], events)
        BY <3>1, <3>a
      <3>6. Honest(erased'[r], events \cup {e})
        BY <2>3, <3>5, HonestMore
      <3>7. \A c \in Collections : erased'[r][c] # {} /\ ~ Told(events, c) => c = At(r)
        <4> SUFFICES ASSUME NEW c \in Collections, c # At(r)
                     PROVE  erased'[r][c] = {} \/ Told(events, c)
          OBVIOUS
        <4>1. erased'[r][c] = erased[r][c]
          BY <1>t, <3>1
        <4>2. PICK m \in 1 .. 3 : c = Rules[m]
          BY RulesFact
        <4>3. m < place[r] \/ m >= place[r]
          BY <1>t
        <4> QED BY <3>2, <4>1, <4>2, <4>3 DEF Untouched
      <3>8. Progress("failed", place[r], apply[r], erased'[r], events \cup {e})
        BY <1>t, <2>5, <3>7 DEF Progress
      <3> QED BY <2>1, <2>2, <3>1, <3>6, <3>8, OneRun DEF RunOK
    <2> QED BY <2>6, <2>7, <2>8
  <1>9. ASSUME NEW r \in Runs, Report(r)
        PROVE  RunsOK'
    <2>1. /\ pc[r] = "failed" /\ pc'[r] = "done"
          /\ UNCHANGED <<place, apply, erased>>
          /\ \A s \in Runs : s # r => pc'[s] = pc[s]
      BY <1>9 DEF Report, Goto, TypeOK, locals
    <2> DEFINE e == [result |-> "error", collection |-> None, count |-> 0]
               events == Elems(audit[r])
    <2>2. /\ Elems(audit'[r]) = events \cup {e}
          /\ \A s \in Runs : s # r => audit'[s] = audit[s]
      BY <1>9, emitEvents DEF Report, Results
    <2>3. e.result # "deleted" /\ e.result # "success"
      OBVIOUS
    <2>4. RunOK("failed", place[r], apply[r], erased[r], events)
      BY <1>0, <2>1
    <2> HIDE DEF e, events
    <2>5. Honest(erased[r], events \cup {e})
      BY <2>3, <2>4, HonestMore DEF RunOK
    <2>6. \A c : Told(events \cup {e}, c) <=> Told(events, c)
      BY <2>3, ToldMore
    <2>7. Progress("done", place[r], apply[r], erased[r], events \cup {e})
      BY <2>4, <2>6 DEF RunOK, Progress
    <2> QED BY <2>1, <2>2, <2>5, <2>7, OneRun DEF RunOK
  <1>10. ASSUME NEW r \in Runs, Dies(r)
         PROVE  RunsOK'
    <2>1. /\ pc[r] \in Phases \ {"new", "done", "dead"} /\ pc'[r] = "dead"
          /\ UNCHANGED <<place, apply, erased, audit>>
          /\ \A s \in Runs : s # r => pc'[s] = pc[s]
      BY <1>10 DEF Dies, Goto, TypeOK, locals
    <2> DEFINE events == Elems(audit[r])
    <2>2. RunOK(pc[r], place[r], apply[r], erased[r], events)
      BY <1>0
    <2> HIDE DEF events
    <2>3. \A c \in Collections : erased[r][c] # {} /\ ~ Told(events, c) => c = At(r)
      <3> SUFFICES ASSUME NEW c \in Collections
                   PROVE  erased[r][c] = {} \/ Told(events, c) \/ c = At(r)
        OBVIOUS
      <3>1. PICK m \in 1 .. 3 : c = Rules[m]
        BY RulesFact
      <3>2. m < place[r] \/ m = place[r] \/ m > place[r]
        BY <1>t
      <3>3. CASE pc[r] = "inspect"
        BY <2>2, <3>3 DEF RunOK, Progress, Untouched
      <3>4. CASE pc[r] \in {"delete", "record"}
        BY <1>t, <2>2, <3>1, <3>2, <3>4 DEF RunOK, Progress, Untouched
      <3>5. CASE pc[r] \in {"finish", "failed"}
        BY <1>t, <2>2, <3>5 DEF RunOK, Progress
      <3> QED BY <2>1, <3>3, <3>4, <3>5 DEF Phases
    <2>4. Progress("dead", place[r], apply[r], erased[r], events)
      BY <1>t, <2>3 DEF Progress
    <2> QED BY <2>1, <2>2, <2>4, OneRun DEF RunOK, events
  <1> QED
    BY <1>1, <1>2, <1>3, <1>4, <1>5, <1>6, <1>7, <1>8, <1>9, <1>10
    DEF Next, Run, Write, Tick, locals, vars

\* RunsOK is inductive with the types.
LEMMA RunsStayOK == Spec => []RunsOK
  <1>1. Init => RunsOK
    <2> SUFFICES ASSUME Init, NEW r \in Runs
                 PROVE  RunOK("new", 1, apply[r], [c \in Collections |-> {}], Elems(<<>>))
      BY DEF Init, RunsOK
    <2>1. Elems(<<>>) = {}
      BY DEF Elems
    <2> QED BY <2>1 DEF RunOK, Honest, Progress, Untouched, Told
  <1>2. TypeOK /\ RunsOK /\ [Next]_vars => RunsOK'
    BY RunsOKPreserved
  <1> QED BY <1>1, <1>2, TypeCorrectness, PTL DEF Spec

\* The events tell what was deleted (retention.py:94-97) ...
THEOREM EventsTellDeletions == Spec => []EventsAreExact
  <1>1. RunsOK => EventsAreExact
    BY DEF RunsOK, RunOK, Honest, EventsAreExact, Events, Elems
  <1> QED BY <1>1, RunsStayOK, PTL

\* ... and leave out at most the deletion that a failure or a crash cut short
\* (apply_retention.py:40); success is told of whole runs only.
THEOREM DeletionsAreTold == Spec => []DeletionsAreRecorded
  <1>1. TypeOK /\ RunsOK => DeletionsAreRecorded
    <2> SUFFICES ASSUME TypeOK, RunsOK, NEW r \in Runs
                 PROVE  /\ \A c \in Collections :
                              erased[r][c] # {} /\ ~ Recorded(r, c) =>
                                 c = At(r) /\ pc[r] \in {"record", "failed", "done", "dead"}
                        /\ (\E e \in Events(r) : e.result = "success") =>
                              \A c \in Collections : Recorded(r, c)
      BY DEF DeletionsAreRecorded
    <2> DEFINE events == Elems(audit[r])
    <2>1. /\ Events(r) = events
          /\ \A c \in Collections : Recorded(r, c) <=> Told(events, c)
      BY DEF Events, Recorded, Elems, Told
    <2>2. RunOK(pc[r], place[r], apply[r], erased[r], events)
      BY DEF RunsOK
    <2>3. pc[r] \in Phases /\ place[r] \in 1 .. 3 /\ apply[r] \in BOOLEAN
      BY DEF TypeOK
    <2> HIDE DEF events
    <2>4. ASSUME NEW c \in Collections, erased[r][c] # {}, ~ Told(events, c)
          PROVE  c = At(r) /\ pc[r] \in {"record", "failed", "done", "dead"}
      <3>1. PICK m \in 1 .. 3 : c = Rules[m]
        BY RulesFact
      <3>2. ~ Untouched(erased[r], events, c)
        BY <2>4 DEF Untouched
      <3>3. pc[r] \notin {"new", "inspect"}
        BY <2>2, <3>2 DEF RunOK, Progress
      <3>4. pc[r] # "delete"
        BY <2>2, <2>3, <2>4, <3>1, <3>2 DEF RunOK, Progress
      <3>5. pc[r] # "finish"
        BY <2>2, <2>3, <2>4, <3>2 DEF RunOK, Progress
      <3>6. pc[r] = "record" => m = place[r]
        BY <2>2, <2>3, <2>4, <3>1, <3>2 DEF RunOK, Progress
      <3>7. pc[r] \in {"failed", "done", "dead"} => c = Rules[place[r]]
        BY <2>2, <2>4 DEF RunOK, Progress
      <3>8. pc[r] \in {"record", "failed", "done", "dead"}
        BY <2>3, <3>3, <3>4, <3>5 DEF Phases
      <3> QED BY <3>1, <3>6, <3>7, <3>8 DEF At
    <2>5. (\E e \in events : e.result = "success") => \A c \in Collections : Told(events, c)
      BY <2>2 DEF RunOK, Honest
    <2> QED BY <2>1, <2>4, <2>5
  <1> QED BY <1>1, RunsStayOK, TypeCorrectness, PTL
=============================================================================
