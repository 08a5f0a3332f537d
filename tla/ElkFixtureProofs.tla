--------------------------- MODULE ElkFixtureProofs ---------------------------
(***************************************************************************)
(* Theorems about ElkFixture, for any number of scripts and any commands.  *)
(*                                                                         *)
(* Documents and copies of them only appear (Grown), so that what a run    *)
(* has found is still so later: its place tells what it knows (Known).     *)
(* What a check has compared says more, but only until someone writes      *)
(* (Undisturbed).                                                          *)
(***************************************************************************)
EXTENDS ElkFixture, FiniteSetTheorems, TLAPS

\* What a run knows from where it is.
Known(r) ==
    /\ pc[r] \in Ended => place[r] = 1
    /\ pc[r] \notin Ended => job[r] \in Job
    /\ job[r] \in Job => /\ job[r].command = "seed" => job[r].revision = 1
                         /\ job[r].command = "update" => job[r].revision # 1
    /\ pc[r] = "insert" => job[r].command = "seed"
    /\ pc[r] = "look" => job[r].command \in {"seed", "update", "verify"}
    /\ pc[r] \in {"history", "alert", "event"} =>
          \/ job[r].command = "seed" /\ seen[r] = 1
          \/ job[r].command = "update" /\ seen[r] \in {job[r].revision - 1, job[r].revision}
    /\ pc[r] \in {"alert", "event"} => <<"history", job[r].revision>> \in rows
    /\ pc[r] = "event" => /\ <<"alerts", job[r].revision>> \in rows
                          /\ seen[r] = job[r].revision - 1
    /\ pc[r] \in {"find", "get", "verified"} => job[r].command = "verify"
    /\ pc[r] = "find" => event >= job[r].revision
    /\ pc[r] \in {"count", "compare"} => place[r] <= 3

\* What a verification has compared.
Verifying(r) ==
    /\ pc[r] = "get" =>
          /\ place[r] <= 2 * job[r].revision + 1
          /\ IF place[r] = 1 THEN seen[r] >= job[r].revision ELSE copied >= job[r].revision
          /\ \A p \in 2 .. 7 : p < place[r] => Row(p) \in copies
    /\ pc[r] = "verified" =>
          /\ job[r] \in Job
          /\ copied >= job[r].revision
          /\ \A p \in 2 .. 7 : p <= 2 * job[r].revision + 1 => Row(p) \in copies

\* Elasticsearch has what MongoDB has of a kind.
Same(kind) ==
    IF kind = "events" THEN copied = 0 <=> event = 0
                       ELSE \A d \in rows : d[1] = kind => d \in copies

\* What a check has compared since nobody writes.
Undisturbed(r) ==
    r \in quiet =>
        /\ pc[r] \in {"count", "compare", "checked"}
        /\ pc[r] \in {"count", "compare"} => \A q \in 1 .. 3 : q < place[r] => Same(Kinds[q])
        /\ pc[r] = "compare" => seen[r] = Count(Kinds[place[r]], event, rows)
        /\ pc[r] = "checked" => \A q \in 1 .. 3 : Same(Kinds[q])

CopiesExist == copies \subseteq rows /\ copied <= event

IInv ==
    /\ TypeOK
    /\ CopiesExist
    /\ RevisionHasRows
    /\ \A r \in Runs : Known(r) /\ Verifying(r) /\ Undisturbed(r)

\* Nothing is deleted or goes back.
Grown ==
    /\ event' >= event /\ rows \subseteq rows'
    /\ copied' >= copied /\ copies \subseteq copies'

\* The locals of the other runs.
OthersKeep(r) ==
    \A s \in Runs \ {r} : /\ pc'[s] = pc[s] /\ job'[s] = job[s]
                          /\ seen'[s] = seen[s] /\ place'[s] = place[s]

-----------------------------------------------------------------------------
(* Counting.                                                               *)

\* The documents of a kind are finitely many, and at most three.
LEMMA FewOfAKind ==
    ASSUME NEW kind \in {"history", "alerts"}, NEW S \in SUBSET Rows
    PROVE  LET T == {d \in S : d[1] = kind}
           IN IsFiniteSet(T) /\ Cardinality(T) \in 0 .. 3
<1> DEFINE T == {d \in S : d[1] = kind}
           U == {<<kind, 1>>, <<kind, 2>>, <<kind, 3>>}
<1>1. IsFiniteSet(U) /\ Cardinality(U) <= 3
  <2>1. IsFiniteSet({<<kind, 1>>}) /\ Cardinality({<<kind, 1>>}) = 1
    BY FS_Singleton
  <2>2. IsFiniteSet({<<kind, 1>>} \cup {<<kind, 2>>})
        /\ Cardinality({<<kind, 1>>} \cup {<<kind, 2>>}) <= 2
    BY <2>1, FS_AddElement
  <2>3. /\ IsFiniteSet(({<<kind, 1>>} \cup {<<kind, 2>>}) \cup {<<kind, 3>>})
        /\ Cardinality(({<<kind, 1>>} \cup {<<kind, 2>>}) \cup {<<kind, 3>>}) <= 3
    <3> DEFINE A == {<<kind, 1>>} \cup {<<kind, 2>>}
               x == <<kind, 3>>
    <3>1. IsFiniteSet(A) /\ Cardinality(A) <= 2 /\ Cardinality(A) \in Nat
      BY <2>2, FS_CardinalityType
    <3> HIDE DEF A, x
    <3>2. /\ IsFiniteSet(A \cup {x})
          /\ Cardinality(A \cup {x}) = IF x \in A THEN Cardinality(A) ELSE Cardinality(A) + 1
      BY <3>1, FS_AddElement
    <3>3. IsFiniteSet(A \cup {x}) /\ Cardinality(A \cup {x}) <= 3
      BY <3>1, <3>2
    <3> QED BY <3>3 DEF A, x
  <2>4. U = ({<<kind, 1>>} \cup {<<kind, 2>>}) \cup {<<kind, 3>>}
    OBVIOUS
  <2> QED BY <2>3, <2>4
<1>2. T \in SUBSET U
  <2> SUFFICES ASSUME NEW d \in S, d[1] = kind PROVE d \in U
    OBVIOUS
  <2>1. PICK k \in {"history", "alerts"}, v \in Revisions : d = <<k, v>>
    BY DEF Rows
  <2> QED BY <2>1 DEF Revisions
<1>3. IsFiniteSet(T) /\ Cardinality(T) <= Cardinality(U)
  BY <1>1, <1>2, FS_Subset
<1>4. Cardinality(T) \in Nat /\ Cardinality(U) \in Nat
  BY <1>1, <1>3, FS_CardinalityType
<1> HIDE DEF T, U
<1>5. IsFiniteSet(T) /\ Cardinality(T) \in 0 .. 3
  BY <1>1, <1>3, <1>4
<1> QED BY <1>5 DEF T

\* A count is a number from 0 to 3.
LEMMA CountTyped ==
    ASSUME NEW p \in 1 .. 3, NEW one, NEW others \in SUBSET Rows
    PROVE  Count(Kinds[p], one, others) \in 0 .. 3
<1>1. CASE p = 1
  BY <1>1 DEF Count, Kinds
<1>2. CASE p \in {2, 3}
  <2>1. Kinds[p] \in {"history", "alerts"}
    BY <1>2 DEF Kinds
  <2>2. Count(Kinds[p], one, others) = Cardinality({d \in others : d[1] = Kinds[p]})
    BY <2>1 DEF Count
  <2> QED BY <2>1, <2>2, FewOfAKind
<1> QED BY <1>1, <1>2

\* Copies of some of the rows, and as many as there are rows, are all of them.
LEMMA EqualCounts ==
    ASSUME TypeOK, CopiesExist, NEW p \in 1 .. 3,
           Count(Kinds[p], copied, copies) = Count(Kinds[p], event, rows)
    PROVE  Same(Kinds[p])
<1>1. CASE p = 1
  BY <1>1 DEF Count, Kinds, Same
<1>2. CASE p \in {2, 3}
  <2> DEFINE kind == Kinds[p]
             S == {d \in rows : d[1] = kind}
             T == {d \in copies : d[1] = kind}
  <2>1. kind \in {"history", "alerts"}
    BY <1>2 DEF Kinds
  <2>2. Cardinality(S) = Cardinality(T)
    BY <2>1 DEF Count
  <2>3. IsFiniteSet(S)
    BY <2>1, FewOfAKind DEF TypeOK
  <2>4. T \in SUBSET S
    BY DEF CopiesExist
  <2>5. S = T
    BY <2>2, <2>3, <2>4, FS_Subset
  <2> QED BY <2>1, <2>5 DEF Same
<1> QED BY <1>1, <1>2

\* The three kinds are all there is.
LEMMA AllKinds ==
    ASSUME TypeOK, CopiesExist, \A q \in 1 .. 3 : Same(Kinds[q])
    PROVE  copies = rows /\ (copied = 0 <=> event = 0)
<1>1. Same("events") /\ Same("history") /\ Same("alerts")
  BY DEF Kinds
<1>2. rows \subseteq copies
  <2> SUFFICES ASSUME NEW d \in rows PROVE d \in copies
    OBVIOUS
  <2>1. d[1] \in {"history", "alerts"}
    BY DEF TypeOK, Rows
  <2> QED BY <1>1, <2>1 DEF Same
<1> QED BY <1>1, <1>2 DEF CopiesExist, Same

\* The places from 2 on are those of the rows of the revisions.
LEMMA AllRows ==
    ASSUME NEW n \in Revisions, \A p \in 2 .. 7 : p <= 2 * n + 1 => Row(p) \in copies
    PROVE  {"history", "alerts"} \X (1 .. n) \subseteq copies
<1> SUFFICES ASSUME NEW k \in {"history", "alerts"}, NEW v \in 1 .. n
             PROVE  <<k, v>> \in copies
  OBVIOUS
<1>1. v \in {1, 2, 3}
  BY DEF Revisions
<1>2. CASE k = "history"
  <2>1. 2 * v \in 2 .. 7 /\ 2 * v <= 2 * n + 1
    BY <1>1 DEF Revisions
  <2>2. Row(2 * v) = <<"history", v>>
    BY <1>1 DEF Row
  <2> QED BY <1>2, <2>1, <2>2
<1>3. CASE k = "alerts"
  <2>1. 2 * v + 1 \in 2 .. 7 /\ 2 * v + 1 <= 2 * n + 1
    BY <1>1 DEF Revisions
  <2>2. Row(2 * v + 1) = <<"alerts", v>>
    BY <1>1 DEF Row
  <2> QED BY <1>3, <2>1, <2>2
<1> QED BY <1>2, <1>3

-----------------------------------------------------------------------------
(* Types.                                                                  *)

\* Going on keeps the types of the locals and leaves the other runs alone.
LEMMA GoTyped ==
    ASSUME TypeOK, NEW r \in Runs, NEW phase \in Writing \cup Reading \cup Ended,
           NEW value, NEW at, phase \notin Ended => value \in 0 .. 3 /\ at \in 1 .. 7,
           Go(r, phase, value, at)
    PROVE  /\ pc' \in [Runs -> Writing \cup Reading \cup Ended]
           /\ job' \in [Runs -> Job \cup {NoJob}]
           /\ seen' \in [Runs -> 0 .. 3]
           /\ place' \in [Runs -> 1 .. 7]
           /\ OthersKeep(r)
           /\ pc'[r] = phase
           /\ job'[r] = IF phase = "ended" THEN NoJob ELSE job[r]
           /\ seen'[r] = IF phase \in Ended THEN 0 ELSE value
           /\ place'[r] = IF phase \in Ended THEN 1 ELSE at
<1>1. job[r] \in Job \cup {NoJob} /\ 0 \in 0 .. 3 /\ 1 \in 1 .. 7
  BY DEF TypeOK
<1>2. /\ pc \in [Runs -> Writing \cup Reading \cup Ended]
      /\ job \in [Runs -> Job \cup {NoJob}]
      /\ seen \in [Runs -> 0 .. 3]
      /\ place \in [Runs -> 1 .. 7]
  BY DEF TypeOK
<1>3. /\ pc' = [pc EXCEPT ![r] = phase]
      /\ job' = [job EXCEPT ![r] = IF phase = "ended" THEN NoJob ELSE job[r]]
      /\ seen' = [seen EXCEPT ![r] = IF phase \in Ended THEN 0 ELSE value]
      /\ place' = [place EXCEPT ![r] = IF phase \in Ended THEN 1 ELSE at]
  BY DEF Go
<1>4. (IF phase \in Ended THEN 0 ELSE value) \in 0 .. 3
  OBVIOUS
<1>5. (IF phase \in Ended THEN 1 ELSE at) \in 1 .. 7
  OBVIOUS
<1> HIDE DEF Writing, Reading, Ended
<1>6. /\ pc' \in [Runs -> Writing \cup Reading \cup Ended]
      /\ job' \in [Runs -> Job \cup {NoJob}]
      /\ seen' \in [Runs -> 0 .. 3]
      /\ place' \in [Runs -> 1 .. 7]
  BY <1>1, <1>2, <1>3, <1>4, <1>5
<1>7. OthersKeep(r)
  BY <1>2, <1>3 DEF OthersKeep
<1> QED BY <1>2, <1>3, <1>6, <1>7

\* What others do leaves what a run knows true, and what a check has compared if
\* nobody has written.
LEMMA KnownStays ==
    ASSUME IInv, TypeOK', CopiesExist', Grown, NEW s \in Runs,
           pc'[s] = pc[s], job'[s] = job[s], seen'[s] = seen[s], place'[s] = place[s],
           s \in quiet' => s \in quiet /\ UNCHANGED mongo
    PROVE  Known(s)' /\ Verifying(s)' /\ Undisturbed(s)'
<1>1. Known(s) /\ Verifying(s) /\ Undisturbed(s) /\ event \in 0 .. 3 /\ copied \in 0 .. 3
      /\ event' \in 0 .. 3 /\ copied' \in 0 .. 3 /\ (job[s] \in Job => job[s].revision \in 1 .. 3)
  BY DEF IInv, TypeOK, Job, Revisions
<1>2. Known(s)'
  BY <1>1 DEF Known, Grown, Ended
<1>3. Verifying(s)'
  <2>1. \A p : Row(p)' = Row(p)
    BY DEF Row
  <2> QED BY <1>1, <2>1 DEF Verifying, Grown, Known
<1>4. Undisturbed(s)'
  <2> SUFFICES ASSUME s \in quiet' PROVE Undisturbed(s)'
    BY DEF Undisturbed
  <2>1. s \in quiet /\ event' = event /\ rows' = rows
    BY DEF mongo
  <2>2. \A kind : Same(kind) => Same(kind)'
    BY <1>1, <2>1 DEF Same, Grown, CopiesExist
  <2>3. Count(Kinds[place[s]], event, rows)' = Count(Kinds[place[s]], event, rows)
    BY <2>1 DEF Count
  <2> QED BY <1>1, <2>1, <2>2, <2>3 DEF Undisturbed, Count, Kinds
<1> QED BY <1>2, <1>3, <1>4

-----------------------------------------------------------------------------
(* Every step keeps the invariant.                                         *)

\* What a step of a run has to show.
Advance(r) ==
    /\ TypeOK' /\ CopiesExist' /\ Grown /\ RevisionHasRows'
    /\ OthersKeep(r)
    /\ \A s \in quiet' \ {r} : s \in quiet /\ UNCHANGED mongo
    /\ Known(r)' /\ Verifying(r)' /\ Undisturbed(r)'

\* The others' share of it.
LEMMA AdvanceKeeps ==
    ASSUME IInv, NEW r \in Runs, Advance(r)
    PROVE  IInv'
<1>1. ASSUME NEW s \in Runs PROVE Known(s)' /\ Verifying(s)' /\ Undisturbed(s)'
  <2>1. CASE s = r
    BY <2>1 DEF Advance
  <2>2. CASE s # r
    BY <2>2, KnownStays DEF Advance, OthersKeep
  <2> QED BY <2>1, <2>2
<1> QED BY <1>1 DEF IInv, Advance

\* A step that writes nothing and goes on.
LEMMA Went ==
    ASSUME IInv, NEW r \in Runs, NEW phase \in Writing \cup Reading \cup Ended,
           NEW value, NEW at, phase \notin Ended => value \in 0 .. 3 /\ at \in 1 .. 7,
           Go(r, phase, value, at), UNCHANGED <<mongo, elastic>>,
           quiet' \subseteq quiet \cup {r}
    PROVE  /\ TypeOK' /\ CopiesExist' /\ Grown /\ RevisionHasRows' /\ OthersKeep(r)
           /\ \A s \in quiet' \ {r} : s \in quiet /\ UNCHANGED mongo
           /\ pc'[r] = phase
           /\ job'[r] = IF phase = "ended" THEN NoJob ELSE job[r]
           /\ seen'[r] = IF phase \in Ended THEN 0 ELSE value
           /\ place'[r] = IF phase \in Ended THEN 1 ELSE at
<1>1. TypeOK
  BY DEF IInv
<1>2. /\ pc' \in [Runs -> Writing \cup Reading \cup Ended]
      /\ job' \in [Runs -> Job \cup {NoJob}]
      /\ seen' \in [Runs -> 0 .. 3]
      /\ place' \in [Runs -> 1 .. 7]
      /\ OthersKeep(r)
      /\ pc'[r] = phase
      /\ job'[r] = IF phase = "ended" THEN NoJob ELSE job[r]
      /\ seen'[r] = IF phase \in Ended THEN 0 ELSE value
      /\ place'[r] = IF phase \in Ended THEN 1 ELSE at
  BY <1>1, GoTyped
<1>3. event' = event /\ rows' = rows /\ copied' = copied /\ copies' = copies
  BY DEF mongo, elastic
<1>4. TypeOK'
  BY <1>1, <1>2, <1>3 DEF TypeOK
<1>5. CopiesExist' /\ Grown /\ RevisionHasRows'
  BY <1>1, <1>3 DEF IInv, TypeOK, CopiesExist, Grown, RevisionHasRows
<1>6. \A s \in quiet' \ {r} : s \in quiet /\ UNCHANGED mongo
  BY <1>3 DEF mongo
<1> QED BY <1>2, <1>4, <1>5, <1>6

\* A run that ends knows nothing.
LEMMA EndKeeps ==
    ASSUME IInv, NEW r \in Runs, Goto(r, "ended"), UNCHANGED <<mongo, elastic>>,
           quiet' \subseteq quiet, r \notin quiet'
    PROVE  Advance(r)
<1> DEFINE phase == "ended"
<1>1. /\ phase \in Writing \cup Reading \cup Ended /\ phase \in Ended
      /\ Go(r, phase, seen[r], place[r])
  BY DEF Ended, Goto
<1>2. /\ TypeOK' /\ CopiesExist' /\ Grown /\ RevisionHasRows' /\ OthersKeep(r)
      /\ \A s \in quiet' \ {r} : s \in quiet /\ UNCHANGED mongo
      /\ pc'[r] = phase /\ job'[r] = NoJob /\ place'[r] = 1
  BY <1>1, Went
<1>3. NoJob \notin Job
  BY DEF NoJob, Job
<1>4. Known(r)' /\ Verifying(r)' /\ Undisturbed(r)'
  BY <1>2, <1>3 DEF Known, Verifying, Undisturbed, Ended
<1> QED BY <1>2, <1>4 DEF Advance

\* A command is given to a run that has none.
LEMMA StartKeeps ==
    ASSUME IInv, NEW r \in Runs, NEW j \in Jobs[r], Start(r, j)
    PROVE  Advance(r)
<1>1. /\ j \in Job
      /\ j.command \in {"seed", "update", "verify", "check"}
      /\ j.command \in {"seed", "check"} => j.revision = 1
      /\ j.command = "update" => j.revision # 1
  BY FixtureAssumption DEF Job
<1> DEFINE phase == CASE j.command = "seed" -> "insert"
                      [] j.command = "check" -> "count"
                      [] OTHER -> "look"
<1>2. phase \in Writing \cup Reading \cup Ended
  BY DEF Writing, Reading
<1>3. pc' = [pc EXCEPT ![r] = phase] /\ job' = [job EXCEPT ![r] = j]
      /\ UNCHANGED <<mongo, elastic, seen, place>> /\ pc[r] \in Ended
      /\ quiet' = IF j.command = "check" THEN quiet \cup {r} ELSE quiet \ {r}
  BY DEF Start
<1>4. phase = "insert" => j.command = "seed"
  OBVIOUS
<1>5. phase = "look" => j.command \in {"update", "verify"}
  BY <1>1
<1>6. phase = "count" <=> j.command = "check"
  OBVIOUS
<1>7. phase \in {"insert", "look", "count"}
  OBVIOUS
<1> HIDE DEF phase
<1>8. pc'[r] = phase /\ job'[r] = j /\ place'[r] = 1 /\ OthersKeep(r)
  BY <1>3 DEF IInv, TypeOK, Known, OthersKeep
<1>9. TypeOK'
  BY <1>1, <1>2, <1>3 DEF IInv, TypeOK, mongo, elastic
<1>10. CopiesExist' /\ Grown /\ RevisionHasRows' /\ UNCHANGED mongo
  BY <1>3 DEF IInv, TypeOK, CopiesExist, Grown, RevisionHasRows, mongo, elastic
<1>11. Known(r)'
  BY <1>1, <1>4, <1>5, <1>7, <1>8 DEF Known, Ended
<1>12. Verifying(r)' /\ Undisturbed(r)'
  BY <1>3, <1>6, <1>7, <1>8 DEF Verifying, Undisturbed
<1> QED BY <1>3, <1>8, <1>9, <1>10, <1>11, <1>12 DEF Advance

\* A step that writes to MongoDB and goes on.
LEMMA Put ==
    ASSUME IInv, NEW r \in Runs, NEW phase \in Writing \cup Reading \cup Ended,
           Goto(r, phase), Wrote, UNCHANGED elastic,
           event' \in 0 .. 3, event' >= event,
           rows \subseteq rows', rows' \subseteq Rows,
           \A k \in 2 .. event' : k > event =>
               {<<"history", k>>, <<"alerts", k>>} \subseteq rows
    PROVE  /\ TypeOK' /\ CopiesExist' /\ Grown /\ RevisionHasRows' /\ OthersKeep(r)
           /\ \A s \in quiet' \ {r} : s \in quiet /\ UNCHANGED mongo
           /\ Undisturbed(r)'
           /\ pc'[r] = phase
           /\ job'[r] = IF phase = "ended" THEN NoJob ELSE job[r]
           /\ seen'[r] = IF phase \in Ended THEN 0 ELSE seen[r]
           /\ place'[r] = IF phase \in Ended THEN 1 ELSE place[r]
<1>1. TypeOK /\ quiet' = {} /\ copied' = copied /\ copies' = copies
  BY DEF IInv, Wrote, elastic
<1>2. seen[r] \in 0 .. 3 /\ place[r] \in 1 .. 7 /\ Go(r, phase, seen[r], place[r])
  BY <1>1 DEF TypeOK, Goto
<1>3. /\ pc' \in [Runs -> Writing \cup Reading \cup Ended]
      /\ job' \in [Runs -> Job \cup {NoJob}]
      /\ seen' \in [Runs -> 0 .. 3]
      /\ place' \in [Runs -> 1 .. 7]
      /\ OthersKeep(r)
      /\ pc'[r] = phase
      /\ job'[r] = IF phase = "ended" THEN NoJob ELSE job[r]
      /\ seen'[r] = IF phase \in Ended THEN 0 ELSE seen[r]
      /\ place'[r] = IF phase \in Ended THEN 1 ELSE place[r]
  BY <1>1, <1>2, GoTyped
<1>4. TypeOK'
  BY <1>1, <1>3 DEF TypeOK
<1>5. CopiesExist' /\ Grown
  BY <1>1 DEF IInv, TypeOK, CopiesExist, Grown
<1>6. RevisionHasRows'
  <2> SUFFICES ASSUME NEW k \in 2 .. event'
               PROVE  {<<"history", k>>, <<"alerts", k>>} \subseteq rows'
    BY DEF RevisionHasRows
  <2>1. CASE k > event
    BY <2>1
  <2>2. CASE ~ (k > event)
    <3>1. k \in 2 .. event
      BY <1>1, <2>2 DEF TypeOK
    <3> QED BY <3>1 DEF IInv, RevisionHasRows
  <2> QED BY <2>1, <2>2
<1>7. Undisturbed(r)'
  BY <1>1 DEF Undisturbed
<1> QED BY <1>1, <1>3, <1>4, <1>5, <1>6, <1>7

\* seed inserts the event.
LEMMA SeedKeeps ==
    ASSUME IInv, NEW r \in Runs, SeedEvent(r)
    PROVE  Advance(r)
<1> DEFINE phase == "look"
<1>1. /\ phase \in Writing \cup Reading \cup Ended /\ Goto(r, phase) /\ Wrote
      /\ UNCHANGED elastic /\ rows' = rows /\ pc[r] = "insert"
      /\ event' = IF event = 0 THEN 1 ELSE event
  BY DEF SeedEvent, Reading
<1>2. event \in 0 .. 3 /\ rows \subseteq Rows
  BY DEF IInv, TypeOK
<1>3. /\ event' \in 0 .. 3 /\ event' >= event
      /\ \A k \in 2 .. event' : ~ (k > event)
  BY <1>1, <1>2
<1>4. /\ TypeOK' /\ CopiesExist' /\ Grown /\ RevisionHasRows' /\ OthersKeep(r)
      /\ \A s \in quiet' \ {r} : s \in quiet /\ UNCHANGED mongo
      /\ Undisturbed(r)' /\ pc'[r] = phase /\ job'[r] = job[r]
  BY <1>1, <1>2, <1>3, Put
<1>5. Known(r)' /\ Verifying(r)'
  BY <1>1, <1>4 DEF IInv, Known, Verifying, Ended
<1> QED BY <1>4, <1>5 DEF Advance

\* What a run that writes a row knows of it.
LEMMA WriterTyped ==
    ASSUME IInv, NEW r \in Runs, pc[r] \in {"history", "alert", "event"}
    PROVE  /\ job[r] \in Job /\ job[r].revision \in 1 .. 3
           /\ event \in 0 .. 3 /\ rows \subseteq Rows
           /\ {<<"history", job[r].revision>>, <<"alerts", job[r].revision>>} \subseteq Rows
           /\ Known(r)
<1>1. Known(r) /\ job[r] \in Job
  BY DEF IInv, Known, Ended
<1>2. job[r].revision \in 1 .. 3
  BY <1>1 DEF Job, Revisions
<1> QED BY <1>1, <1>2 DEF IInv, TypeOK, Rows, Revisions

\* seed and update put the history row.
LEMMA HistoryKeeps ==
    ASSUME IInv, NEW r \in Runs, PutHistory(r)
    PROVE  Advance(r)
<1> DEFINE phase == "alert"
<1>1. /\ phase \in Writing \cup Reading \cup Ended /\ phase \notin Ended
      /\ Goto(r, phase) /\ Wrote
      /\ UNCHANGED elastic /\ event' = event /\ pc[r] = "history"
      /\ rows' = rows \cup {<<"history", job[r].revision>>}
  BY DEF PutHistory, Writing, After, Ended
<1>2. /\ job[r] \in Job /\ event \in 0 .. 3 /\ Known(r)
      /\ rows \subseteq rows' /\ rows' \subseteq Rows
      /\ event' >= event /\ \A k \in 2 .. event' : ~ (k > event)
  <2>1. /\ job[r] \in Job /\ event \in 0 .. 3 /\ Known(r) /\ rows \subseteq Rows
        /\ {<<"history", job[r].revision>>, <<"alerts", job[r].revision>>} \subseteq Rows
    BY <1>1, WriterTyped
  <2>2. rows \subseteq rows' /\ rows' \subseteq Rows
    BY <1>1, <2>1
  <2>3. event' >= event /\ \A k \in 2 .. event' : ~ (k > event)
    BY <1>1, <2>1
  <2> QED BY <2>1, <2>2, <2>3
<1>3. /\ TypeOK' /\ CopiesExist' /\ Grown /\ RevisionHasRows' /\ OthersKeep(r)
      /\ \A s \in quiet' \ {r} : s \in quiet /\ UNCHANGED mongo
      /\ Undisturbed(r)' /\ pc'[r] = phase /\ job'[r] = job[r] /\ seen'[r] = seen[r]
  BY <1>1, <1>2, Put
<1>4. Known(r)' /\ Verifying(r)'
  BY <1>1, <1>2, <1>3 DEF Known, Verifying, Ended
<1> QED BY <1>3, <1>4 DEF Advance

\* seed and update put the alert; an update that has found the revision before goes
\* on to the event.
LEMMA AlertKeeps ==
    ASSUME IInv, NEW r \in Runs, PutAlert(r)
    PROVE  Advance(r)
<1> DEFINE phase == IF seen[r] = job[r].revision - 1 THEN "event" ELSE "ended"
<1>1. /\ phase \in Writing \cup Reading \cup Ended
      /\ Goto(r, phase) /\ Wrote
      /\ UNCHANGED elastic /\ event' = event /\ pc[r] = "alert"
      /\ rows' = rows \cup {<<"alerts", job[r].revision>>}
  BY DEF PutAlert, Writing, After, Ended
<1>2. /\ job[r] \in Job /\ event \in 0 .. 3 /\ Known(r)
      /\ rows \subseteq rows' /\ rows' \subseteq Rows
      /\ event' >= event /\ \A k \in 2 .. event' : ~ (k > event)
  <2>1. /\ job[r] \in Job /\ event \in 0 .. 3 /\ Known(r) /\ rows \subseteq Rows
        /\ {<<"history", job[r].revision>>, <<"alerts", job[r].revision>>} \subseteq Rows
    BY <1>1, WriterTyped
  <2>2. rows \subseteq rows' /\ rows' \subseteq Rows
    BY <1>1, <2>1
  <2>3. event' >= event /\ \A k \in 2 .. event' : ~ (k > event)
    BY <1>1, <2>1
  <2> QED BY <2>1, <2>2, <2>3
<1>3. /\ TypeOK' /\ CopiesExist' /\ Grown /\ RevisionHasRows' /\ OthersKeep(r)
      /\ \A s \in quiet' \ {r} : s \in quiet /\ UNCHANGED mongo
      /\ Undisturbed(r)' /\ pc'[r] = phase
      /\ job'[r] = IF phase = "ended" THEN NoJob ELSE job[r]
      /\ seen'[r] = IF phase \in Ended THEN 0 ELSE seen[r]
      /\ place'[r] = IF phase \in Ended THEN 1 ELSE place[r]
  BY <1>1, <1>2, Put
<1>4. NoJob \notin Job
  BY DEF NoJob, Job
<1>5. Known(r)' /\ Verifying(r)'
  <2>1. CASE phase = "ended"
    BY <1>3, <1>4, <2>1 DEF Known, Verifying, Ended
  <2>2. CASE phase = "event" /\ seen[r] = job[r].revision - 1
    BY <1>1, <1>2, <1>3, <2>2 DEF Known, Verifying, Ended
  <2> QED BY <2>1, <2>2
<1> QED BY <1>3, <1>5 DEF Advance

\* An update brings the event to its revision, or meets another.
LEMMA EventKeeps ==
    ASSUME IInv, NEW r \in Runs, PutEvent(r)
    PROVE  Advance(r) /\ event' \in {event, event + 1}
<1>1. pc[r] = "event" /\ After(r, "event") = "ended"
  BY DEF PutEvent, After
<1>2. /\ job[r] \in Job /\ job[r].revision \in 1 .. 3 /\ event \in 0 .. 3 /\ Known(r)
      /\ rows \subseteq Rows
  BY <1>1, WriterTyped
<1>3. CASE event = seen[r] /\ event' = job[r].revision /\ Wrote /\ Goto(r, "ended")
  <2> DEFINE phase == "ended"
  <2>1. phase \in Writing \cup Reading \cup Ended /\ phase \in Ended /\ Goto(r, phase)
    BY <1>3 DEF Ended
  <2>2. /\ UNCHANGED elastic /\ rows' = rows
        /\ event' = event + 1 /\ event' \in 0 .. 3 /\ event' >= event
        /\ {<<"history", event'>>, <<"alerts", event'>>} \subseteq rows
    <3>1. /\ seen[r] = job[r].revision - 1
          /\ {<<"history", job[r].revision>>, <<"alerts", job[r].revision>>} \subseteq rows
      BY <1>1, <1>2 DEF Known
    <3>2. event' = event + 1 /\ event' \in 0 .. 3 /\ event' >= event
      BY <1>2, <1>3, <3>1
    <3> QED BY <1>3, <3>1, <3>2 DEF PutEvent
  <2>3. \A k \in 2 .. event' : k > event => k = event'
    BY <1>2, <2>2
  <2>4. /\ TypeOK' /\ CopiesExist' /\ Grown /\ RevisionHasRows' /\ OthersKeep(r)
        /\ \A s \in quiet' \ {r} : s \in quiet /\ UNCHANGED mongo
        /\ Undisturbed(r)' /\ pc'[r] = phase /\ job'[r] = NoJob /\ place'[r] = 1
    BY <1>2, <1>3, <2>1, <2>2, <2>3, Put
  <2>5. NoJob \notin Job
    BY DEF NoJob, Job
  <2>6. Known(r)' /\ Verifying(r)'
    BY <2>4, <2>5 DEF Known, Verifying, Ended
  <2> QED BY <2>2, <2>4, <2>6 DEF Advance
<1>4. CASE event # seen[r] /\ Goto(r, "ended") /\ UNCHANGED <<event, quiet>>
  <2>1. UNCHANGED <<mongo, elastic>> /\ quiet' = quiet
    BY <1>4 DEF PutEvent, mongo
  <2>2. r \notin quiet
    BY <1>1 DEF IInv, Undisturbed
  <2> QED BY <1>4, <2>1, <2>2, EndKeeps
<1> QED BY <1>1, <1>3, <1>4 DEF PutEvent

\* Nothing happens.
LEMMA Stutter ==
    ASSUME IInv, UNCHANGED vars
    PROVE  IInv'
<1>1. /\ event' = event /\ rows' = rows /\ copied' = copied /\ copies' = copies
      /\ pc' = pc /\ job' = job /\ seen' = seen /\ place' = place /\ quiet' = quiet
  BY DEF vars, mongo, elastic
<1>2. TypeOK' /\ CopiesExist' /\ RevisionHasRows' /\ Grown
  BY <1>1 DEF IInv, TypeOK, CopiesExist, RevisionHasRows, Grown
<1>3. \A s \in Runs : Known(s)' /\ Verifying(s)' /\ Undisturbed(s)'
  BY <1>1, <1>2, KnownStays DEF mongo
<1> QED BY <1>2, <1>3 DEF IInv

\* A command reads the event, and goes on, waits or gives up.
LEMMA LookKeeps ==
    ASSUME IInv, NEW r \in Runs, LookCurrent(r)
    PROVE  IInv'
<1>1. /\ pc[r] = "look" /\ UNCHANGED <<mongo, elastic, quiet>>
      /\ quiet' = quiet /\ event' = event
  BY DEF LookCurrent, mongo
<1>2. /\ Known(r) /\ r \notin quiet /\ event \in 0 .. 3
      /\ job[r] \in Job /\ job[r].revision \in 1 .. 3
      /\ job[r].command \in {"seed", "update", "verify"}
  <2>1. Known(r) /\ r \notin quiet /\ event \in 0 .. 3
    BY <1>1 DEF IInv, Undisturbed, TypeOK
  <2>2. job[r] \in Job /\ job[r].command \in {"seed", "update", "verify"}
    BY <1>1, <2>1 DEF Known, Ended
  <2>3. job[r].revision \in 1 .. 3
    BY <2>2 DEF Job, Revisions
  <2> QED BY <2>1, <2>2, <2>3
<1>3. CASE /\ event \in Acceptable(job[r])
           /\ Go(r, IF job[r].command = "verify" THEN "find" ELSE After(r, "look"), event, 1)
  <2> DEFINE phase == IF job[r].command = "verify" THEN "find" ELSE "history"
  <2>1. /\ phase \in Writing \cup Reading \cup Ended /\ phase \notin Ended
        /\ Go(r, phase, event, 1)
    BY <1>3 DEF Writing, Reading, Ended, After
  <2>2. /\ TypeOK' /\ CopiesExist' /\ Grown /\ RevisionHasRows' /\ OthersKeep(r)
        /\ \A s \in quiet' \ {r} : s \in quiet /\ UNCHANGED mongo
        /\ pc'[r] = phase /\ job'[r] = job[r] /\ seen'[r] = event /\ place'[r] = 1
    BY <1>1, <1>2, <2>1, Went
  <2>3. /\ job[r].command = "seed" => event = 1
        /\ job[r].command = "update" => event \in {job[r].revision - 1, job[r].revision}
        /\ job[r].command = "verify" => event = job[r].revision
    BY <1>2, <1>3 DEF Acceptable
  <2>4. Known(r)' /\ Verifying(r)' /\ Undisturbed(r)'
    BY <1>1, <1>2, <2>2, <2>3 DEF Known, Verifying, Undisturbed, Ended
  <2> QED BY <2>2, <2>4, AdvanceKeeps DEF Advance
<1>4. CASE UNCHANGED locals
  BY <1>1, <1>4, Stutter DEF vars, locals
<1>5. CASE Goto(r, "ended")
  BY <1>1, <1>2, <1>5, EndKeeps, AdvanceKeeps
<1> QED BY <1>3, <1>4, <1>5 DEF LookCurrent

\* A verification starts over after a comparison that failed, or fails.
LEMMA MismatchKeeps ==
    ASSUME IInv, NEW r \in Runs, pc[r] = "get", Mismatch(r, "look"),
           UNCHANGED <<mongo, elastic>>
    PROVE  Advance(r)
<1>1. CASE Go(r, "look", 0, 1) /\ quiet' = quiet
  <2> DEFINE phase == "look"
  <2>1. /\ phase \in Writing \cup Reading \cup Ended /\ phase \notin Ended
        /\ Go(r, phase, 0, 1)
    BY <1>1 DEF Reading, Ended
  <2>2. /\ TypeOK' /\ CopiesExist' /\ Grown /\ RevisionHasRows' /\ OthersKeep(r)
        /\ \A s \in quiet' \ {r} : s \in quiet /\ UNCHANGED mongo
        /\ pc'[r] = phase /\ job'[r] = job[r]
    BY <1>1, <2>1, Went
  <2>3. Known(r) /\ r \notin quiet
    BY DEF IInv, Undisturbed
  <2>4. Known(r)' /\ Verifying(r)' /\ Undisturbed(r)'
    BY <1>1, <2>2, <2>3 DEF Known, Verifying, Undisturbed, Ended
  <2> QED BY <2>2, <2>4 DEF Advance
<1>2. CASE Goto(r, "ended") /\ quiet' = quiet \ {r}
  BY <1>2, EndKeeps
<1> QED BY <1>1, <1>2 DEF Mismatch

\* A verification reads the event, which is not older than the one before.
LEMMA FindKeeps ==
    ASSUME IInv, NEW r \in Runs, FindEvent(r)
    PROVE  Advance(r)
<1> DEFINE phase == "get"
<1>1. /\ pc[r] = "find" /\ UNCHANGED <<mongo, elastic, quiet>> /\ quiet' = quiet
      /\ phase \in Writing \cup Reading \cup Ended /\ phase \notin Ended
      /\ Go(r, phase, event, 1)
  BY DEF FindEvent, Reading, Ended
<1>2. Known(r) /\ r \notin quiet /\ event \in 0 .. 3
  BY <1>1 DEF IInv, Undisturbed, TypeOK
<1>3. /\ TypeOK' /\ CopiesExist' /\ Grown /\ RevisionHasRows' /\ OthersKeep(r)
      /\ \A s \in quiet' \ {r} : s \in quiet /\ UNCHANGED mongo
      /\ pc'[r] = phase /\ job'[r] = job[r] /\ seen'[r] = event /\ place'[r] = 1
  BY <1>1, <1>2, Went
<1>4. job[r] \in Job /\ job[r].revision \in 1 .. 3 /\ event >= job[r].revision
  BY <1>1, <1>2 DEF Known, Ended, Job, Revisions
<1>5. Known(r)' /\ Undisturbed(r)'
  BY <1>1, <1>2, <1>3, <1>4 DEF Known, Undisturbed, Ended
<1>6. Verifying(r)'
  BY <1>3, <1>4 DEF Verifying
<1> QED BY <1>3, <1>5, <1>6 DEF Advance

\* A verification compares one document more.
LEMMA GetKeeps ==
    ASSUME IInv, NEW r \in Runs, GetDocument(r)
    PROVE  Advance(r)
<1>1. pc[r] = "get" /\ UNCHANGED <<mongo, elastic>>
      /\ copied' = copied /\ copies' = copies
  BY DEF GetDocument, elastic
<1>2. Known(r) /\ Verifying(r) /\ r \notin quiet /\ copied \in 0 .. 3 /\ seen[r] \in 0 .. 3
      /\ place[r] \in 1 .. 7
  BY <1>1 DEF IInv, Undisturbed, TypeOK
<1>3. job[r] \in Job /\ job[r].revision \in 1 .. 3 /\ job[r].command = "verify"
  BY <1>1, <1>2 DEF Known, Ended, Job, Revisions
<1>4. Matches(r) => /\ copied >= job[r].revision
                    /\ \A p \in 2 .. 7 : p <= place[r] => Row(p) \in copies
  <2> SUFFICES ASSUME Matches(r)
               PROVE  /\ copied >= job[r].revision
                      /\ \A p \in 2 .. 7 : p <= place[r] => Row(p) \in copies
    OBVIOUS
  <2>1. CASE place[r] = 1
    BY <1>1, <1>2, <1>3, <2>1 DEF Matches, Verifying
  <2>2. CASE place[r] # 1
    <3>1. Row(place[r]) \in copies /\ copied >= job[r].revision
      BY <1>1, <1>2, <2>2 DEF Matches, Verifying
    <3>2. \A p \in 2 .. 7 : p <= place[r] => p < place[r] \/ p = place[r]
      BY <1>2
    <3> QED BY <1>1, <1>2, <3>1, <3>2 DEF Verifying
  <2> QED BY <2>1, <2>2
<1>5. \A p : Row(p)' = Row(p)
  BY DEF Row
<1>6. CASE /\ Matches(r) /\ place[r] <= 2 * job[r].revision
           /\ Go(r, "get", 0, place[r] + 1) /\ UNCHANGED quiet
  <2> DEFINE phase == "get"
             at == place[r] + 1
  <2>1. /\ phase \in Writing \cup Reading \cup Ended /\ phase \notin Ended
        /\ Go(r, phase, 0, at) /\ at \in 2 .. 7 /\ at \in 1 .. 7
        /\ at <= 2 * job[r].revision + 1
    BY <1>2, <1>3, <1>6 DEF Reading, Ended
  <2>2. \A p \in 2 .. 7 : p < at => p <= place[r]
    BY <1>2
  <2> HIDE DEF at
  <2>3. /\ TypeOK' /\ CopiesExist' /\ Grown /\ RevisionHasRows' /\ OthersKeep(r)
        /\ \A s \in quiet' \ {r} : s \in quiet /\ UNCHANGED mongo
        /\ pc'[r] = phase /\ job'[r] = job[r] /\ place'[r] = at
    BY <1>1, <1>6, <2>1, Went
  <2>4. Known(r)' /\ Undisturbed(r)'
    BY <1>1, <1>2, <1>3, <1>6, <2>3 DEF Known, Undisturbed, Ended
  <2>5. Verifying(r)'
    BY <1>1, <1>3, <1>4, <1>5, <1>6, <2>1, <2>2, <2>3 DEF Verifying
  <2> QED BY <2>3, <2>4, <2>5 DEF Advance
<1>7. CASE /\ Matches(r) /\ place[r] = 2 * job[r].revision + 1
           /\ Goto(r, "verified") /\ UNCHANGED quiet
  <2> DEFINE phase == "verified"
  <2>1. /\ phase \in Writing \cup Reading \cup Ended /\ phase \in Ended /\ phase # "ended"
        /\ Go(r, phase, seen[r], place[r])
    BY <1>7 DEF Goto, Ended
  <2>2. /\ TypeOK' /\ CopiesExist' /\ Grown /\ RevisionHasRows' /\ OthersKeep(r)
        /\ \A s \in quiet' \ {r} : s \in quiet /\ UNCHANGED mongo
        /\ pc'[r] = phase /\ job'[r] = job[r] /\ place'[r] = 1
    BY <1>1, <1>7, <2>1, Went
  <2>3. Known(r)' /\ Undisturbed(r)'
    BY <1>1, <1>2, <1>3, <1>7, <2>2 DEF Known, Undisturbed, Ended
  <2>4. Verifying(r)'
    BY <1>1, <1>3, <1>4, <1>5, <1>7, <2>2 DEF Verifying
  <2> QED BY <2>2, <2>3, <2>4 DEF Advance
<1>8. CASE Mismatch(r, "look")
  BY <1>1, <1>8, MismatchKeeps
<1> QED BY <1>6, <1>7, <1>8 DEF GetDocument

\* If no document is written, what is the same stays the same.
LEMMA SameStays ==
    ASSUME UNCHANGED <<mongo, elastic>>
    PROVE  /\ \A kind : Same(kind)' <=> Same(kind)
           /\ \A kind : Count(kind, event, rows)' = Count(kind, event, rows)
<1>1. event' = event /\ rows' = rows /\ copied' = copied /\ copies' = copies
  BY DEF mongo, elastic
<1> QED BY <1>1 DEF Same, Count

\* A check counts the documents of a kind.
LEMMA CountKeeps ==
    ASSUME IInv, NEW r \in Runs, CountMongo(r)
    PROVE  Advance(r)
<1> DEFINE phase == "compare"
           value == Count(Kinds[place[r]], event, rows)
<1>1. /\ pc[r] = "count" /\ UNCHANGED <<mongo, elastic, quiet>> /\ quiet' = quiet
      /\ phase \in Writing \cup Reading \cup Ended /\ phase \notin Ended
      /\ Go(r, phase, value, place[r])
  BY DEF CountMongo, Reading, Ended
<1>2. Known(r) /\ Undisturbed(r) /\ rows \in SUBSET Rows /\ place[r] \in 1 .. 7
  BY <1>1 DEF IInv, TypeOK
<1>3. place[r] \in 1 .. 3
  BY <1>1, <1>2 DEF Known
<1>4. value \in 0 .. 3
  BY <1>2, <1>3, CountTyped
<1>5. /\ TypeOK' /\ CopiesExist' /\ Grown /\ RevisionHasRows' /\ OthersKeep(r)
      /\ \A s \in quiet' \ {r} : s \in quiet /\ UNCHANGED mongo
      /\ pc'[r] = phase /\ job'[r] = job[r] /\ seen'[r] = value /\ place'[r] = place[r]
  <2> HIDE DEF value
  <2> QED BY <1>1, <1>2, <1>4, Went
<1>6. Known(r)' /\ Verifying(r)'
  BY <1>1, <1>2, <1>3, <1>5 DEF Known, Verifying, Ended
<1>7. Undisturbed(r)'
  <2>1. seen'[r] = Count(Kinds[place[r]], event, rows)'
    BY <1>1, <1>5, SameStays
  <2>2. \A q \in 1 .. 3 : Same(Kinds[q])' <=> Same(Kinds[q])
    BY <1>1, SameStays
  <2> QED BY <1>1, <1>2, <1>5, <2>1, <2>2 DEF Undisturbed, Count, Kinds
<1> QED BY <1>5, <1>6, <1>7 DEF Advance

\* A check compares the counts of a kind.
LEMMA CompareKeeps ==
    ASSUME IInv, NEW r \in Runs, CompareCount(r)
    PROVE  Advance(r)
<1> DEFINE equal == Count(Kinds[place[r]], copied, copies) = seen[r]
<1>1. pc[r] = "compare" /\ UNCHANGED <<mongo, elastic>>
  BY DEF CompareCount
<1>2. Known(r) /\ Undisturbed(r) /\ place[r] \in 1 .. 7 /\ TypeOK /\ CopiesExist
  BY <1>1 DEF IInv, TypeOK
<1>3. place[r] \in 1 .. 3
  BY <1>1, <1>2 DEF Known
<1>4. r \in quiet /\ equal => \A q \in 1 .. 3 : q <= place[r] => Same(Kinds[q])
  <2> SUFFICES ASSUME r \in quiet, equal
               PROVE  \A q \in 1 .. 3 : q <= place[r] => Same(Kinds[q])
    OBVIOUS
  <2>1. Count(Kinds[place[r]], copied, copies) = Count(Kinds[place[r]], event, rows)
    BY <1>1, <1>2 DEF Undisturbed
  <2>2. Same(Kinds[place[r]])
    BY <1>2, <1>3, <2>1, EqualCounts
  <2>3. \A q \in 1 .. 3 : q <= place[r] => q < place[r] \/ q = place[r]
    BY <1>3
  <2> QED BY <1>1, <1>2, <2>2, <2>3 DEF Undisturbed
<1>5. \A q \in 1 .. 3 : Same(Kinds[q])' <=> Same(Kinds[q])
  BY <1>1, SameStays
<1> HIDE DEF equal
<1>6. CASE equal /\ place[r] < 3 /\ Go(r, "count", 0, place[r] + 1) /\ UNCHANGED quiet
  <2> DEFINE phase == "count"
             at == place[r] + 1
  <2>1. /\ phase \in Writing \cup Reading \cup Ended /\ phase \notin Ended
        /\ Go(r, phase, 0, at) /\ at \in 1 .. 7 /\ at <= 3
        /\ \A q \in 1 .. 3 : q < at => q <= place[r]
    BY <1>3, <1>6 DEF Reading, Ended
  <2> HIDE DEF at
  <2>2. /\ TypeOK' /\ CopiesExist' /\ Grown /\ RevisionHasRows' /\ OthersKeep(r)
        /\ \A s \in quiet' \ {r} : s \in quiet /\ UNCHANGED mongo
        /\ pc'[r] = phase /\ job'[r] = job[r] /\ place'[r] = at
    BY <1>1, <1>6, <2>1, Went
  <2>3. Known(r)' /\ Verifying(r)'
    BY <1>1, <1>2, <2>1, <2>2 DEF Known, Verifying, Ended
  <2>4. Undisturbed(r)'
    BY <1>4, <1>5, <1>6, <2>1, <2>2 DEF Undisturbed, Kinds
  <2> QED BY <2>2, <2>3, <2>4 DEF Advance
<1>7. CASE equal /\ place[r] = 3 /\ Goto(r, "checked") /\ UNCHANGED quiet
  <2> DEFINE phase == "checked"
  <2>1. /\ phase \in Writing \cup Reading \cup Ended /\ phase \in Ended /\ phase # "ended"
        /\ Go(r, phase, seen[r], place[r])
    BY <1>7 DEF Goto, Ended
  <2>2. /\ TypeOK' /\ CopiesExist' /\ Grown /\ RevisionHasRows' /\ OthersKeep(r)
        /\ \A s \in quiet' \ {r} : s \in quiet /\ UNCHANGED mongo
        /\ pc'[r] = phase /\ job'[r] = job[r] /\ place'[r] = 1
    BY <1>1, <1>7, <2>1, Went
  <2>3. Known(r)' /\ Verifying(r)'
    BY <1>1, <1>2, <2>2 DEF Known, Verifying, Ended
  <2>4. \A q \in 1 .. 3 : q <= place[r]
    BY <1>7
  <2>5. Undisturbed(r)'
    BY <1>4, <1>5, <1>7, <2>2, <2>4 DEF Undisturbed, Kinds
  <2> QED BY <2>2, <2>3, <2>5 DEF Advance
<1>8. CASE Go(r, "count", 0, 1) /\ quiet' = quiet \cup {r}
  <2> DEFINE phase == "count"
  <2>1. /\ phase \in Writing \cup Reading \cup Ended /\ phase \notin Ended
        /\ Go(r, phase, 0, 1)
    BY <1>8 DEF Reading, Ended
  <2>2. /\ TypeOK' /\ CopiesExist' /\ Grown /\ RevisionHasRows' /\ OthersKeep(r)
        /\ \A s \in quiet' \ {r} : s \in quiet /\ UNCHANGED mongo
        /\ pc'[r] = phase /\ job'[r] = job[r] /\ place'[r] = 1
    BY <1>1, <1>8, <2>1, Went
  <2>3. Known(r)' /\ Verifying(r)' /\ Undisturbed(r)'
    BY <1>1, <1>2, <2>2 DEF Known, Verifying, Undisturbed, Ended
  <2> QED BY <2>2, <2>3 DEF Advance
<1>9. CASE Goto(r, "ended") /\ quiet' = quiet \ {r}
  BY <1>1, <1>9, EndKeeps
<1> QED BY <1>6, <1>7, <1>8, <1>9 DEF CompareCount, Mismatch, equal

\* Monstache copies a document.
LEMMA CopyKeeps ==
    ASSUME IInv, CopyEvent \/ CopyRow
    PROVE  IInv'
<1>1. /\ event' = event /\ rows' = rows
      /\ pc' = pc /\ job' = job /\ seen' = seen /\ place' = place /\ quiet' = quiet
  BY DEF CopyEvent, CopyRow, mongo, locals
<1>2. copied' \in 0 .. 3 /\ copied' >= copied /\ copied' <= event
  BY DEF CopyEvent, CopyRow, IInv, TypeOK, CopiesExist
<1>3. copies' \subseteq rows /\ copies \subseteq copies'
  BY DEF CopyEvent, CopyRow, IInv, TypeOK, CopiesExist
<1>4. TypeOK' /\ CopiesExist' /\ RevisionHasRows' /\ Grown
  BY <1>1, <1>2, <1>3 DEF IInv, TypeOK, CopiesExist, RevisionHasRows, Grown
<1>5. \A s \in Runs : Known(s)' /\ Verifying(s)' /\ Undisturbed(s)'
  BY <1>1, <1>4, KnownStays DEF mongo
<1> QED BY <1>4, <1>5 DEF IInv

\* At first there is nothing.
LEMMA InitInvariant == Init => IInv
<1> SUFFICES ASSUME Init PROVE IInv
  OBVIOUS
<1>1. TypeOK
  BY DEF Init, TypeOK, Ended
<1>2. CopiesExist /\ RevisionHasRows
  BY DEF Init, CopiesExist, RevisionHasRows
<1>3. NoJob \notin Job
  BY DEF NoJob, Job
<1>4. \A r \in Runs : Known(r) /\ Verifying(r) /\ Undisturbed(r)
  BY <1>3 DEF Init, Known, Verifying, Undisturbed, Ended
<1> QED BY <1>1, <1>2, <1>4 DEF IInv

\* Every step keeps the invariant: a lemma above for each action.
LEMMA NextKeeps == IInv /\ [Next]_vars => IInv'
<1> SUFFICES ASSUME IInv, [Next]_vars PROVE IInv'
  OBVIOUS
<1>1. ASSUME NEW r \in Runs, Step(r) PROVE IInv'
  <2>1. CASE LookCurrent(r)
    BY <2>1, LookKeeps
  <2>2. CASE SeedEvent(r) \/ PutHistory(r) \/ PutAlert(r) \/ PutEvent(r)
    BY <2>2, SeedKeeps, HistoryKeeps, AlertKeeps, EventKeeps, AdvanceKeeps
  <2>3. CASE FindEvent(r) \/ GetDocument(r)
    BY <2>3, FindKeeps, GetKeeps, AdvanceKeeps
  <2>4. CASE CountMongo(r) \/ CompareCount(r)
    BY <2>4, CountKeeps, CompareKeeps, AdvanceKeeps
  <2> QED BY <1>1, <2>1, <2>2, <2>3, <2>4 DEF Step
<1>2. ASSUME NEW r \in Runs, Fails(r) PROVE IInv'
  <2>1. Goto(r, "ended") /\ quiet' = quiet \ {r} /\ UNCHANGED <<mongo, elastic>>
    BY <1>2 DEF Fails
  <2> QED BY <2>1, EndKeeps, AdvanceKeeps
<1>3. ASSUME NEW r \in Runs, NEW j \in Jobs[r], Start(r, j) PROVE IInv'
  BY <1>3, StartKeeps, AdvanceKeeps
<1>4. CASE CopyEvent \/ CopyRow
  BY <1>4, CopyKeeps
<1>5. CASE UNCHANGED vars
  BY <1>5, Stutter
<1> QED BY <1>1, <1>2, <1>3, <1>4, <1>5 DEF Next

\* The invariant holds throughout.
LEMMA Invariance == Spec => []IInv
<1> QED BY InitInvariant, NextKeeps, PTL DEF Spec

-----------------------------------------------------------------------------
(* The theorems.                                                           *)

\* The variables have their types (TypeOK).
THEOREM TypeCorrectness == Spec => []TypeOK
<1>1. IInv => TypeOK
  BY DEF IInv
<1> QED BY <1>1, Invariance, PTL

\* Wherever runs die and however they overlap, the revision an event has come to
\* has its history row and its alert (RevisionHasRows).
THEOREM RevisionsHaveRows == Spec => []RevisionHasRows
<1>1. IInv => RevisionHasRows
  BY DEF IInv
<1> QED BY <1>1, Invariance, PTL

\* PASS says what it means (PassIsTrue).
THEOREM PassesAreTrue == Spec => []PassIsTrue
<1>1. IInv => PassIsTrue
  <2> SUFFICES ASSUME IInv PROVE PassIsTrue
    OBVIOUS
  <2>1. ASSUME NEW r \in Runs, pc[r] = "verified"
        PROVE  /\ copied >= job[r].revision
               /\ {"history", "alerts"} \X (1 .. job[r].revision) \subseteq copies
    <3>1. /\ job[r] \in Job /\ copied >= job[r].revision
          /\ \A p \in 2 .. 7 : p <= 2 * job[r].revision + 1 => Row(p) \in copies
      BY <2>1 DEF IInv, Verifying
    <3>2. job[r].revision \in Revisions
      BY <3>1 DEF Job
    <3> QED BY <3>1, <3>2, AllRows
  <2>2. ASSUME NEW r \in quiet, pc[r] = "checked"
        PROVE  copies = rows /\ (copied = 0 <=> event = 0)
    <3>1. \A q \in 1 .. 3 : Same(Kinds[q])
      BY <2>2 DEF IInv, TypeOK, Undisturbed
    <3> QED BY <3>1, AllKinds DEF IInv
  <2> QED BY <2>1, <2>2 DEF PassIsTrue
<1> QED BY <1>1, Invariance, PTL

\* The event goes from one revision to the next, and never back (RevisionsInOrder).
THEOREM RevisionsStayInOrder == Spec => RevisionsInOrder
<1>1. IInv /\ [Next]_vars => event' \in {event, event + 1}
  <2> SUFFICES ASSUME IInv, Next, event' # event PROVE event' = event + 1
    BY DEF vars, mongo
  <2>1. ASSUME NEW r \in Runs, SeedEvent(r) PROVE event' \in {event, event + 1}
    BY <2>1 DEF SeedEvent
  <2>2. ASSUME NEW r \in Runs, PutEvent(r) PROVE event' \in {event, event + 1}
    BY <2>2, EventKeeps
  <2>3. \E r \in Runs : SeedEvent(r) \/ PutEvent(r)
    BY DEF Next, Step, Start, LookCurrent, PutHistory, PutAlert, FindEvent, GetDocument,
           CountMongo, CompareCount, Fails, CopyEvent, CopyRow, mongo
  <2> QED BY <2>1, <2>2, <2>3
<1>2. IInv /\ [Next]_vars => [event' \in {event, event + 1}]_vars
  BY <1>1
<1> QED BY <1>2, Invariance, PTL DEF Spec, RevisionsInOrder
===============================================================================
