----------------------------- MODULE ReaderProofs -----------------------------
(***************************************************************************)
(* Theorems about the two readers whose data change from one step of theirs*)
(* to the next: the review of the audit log (AuditLog), for any number of  *)
(* writers and files, and the analyst's pages (Dashboard), for any number  *)
(* of documents and any limits.                                            *)
(*                                                                         *)
(* A file only moves to higher suffixes, and the review goes to lower ones *)
(* (Ordered): it reads no file twice, and its counts are those of the      *)
(* records it has read (Exact).  If no file moves, none escapes it         *)
(* (Complete).                                                             *)
(*                                                                         *)
(* A row only moves to a lower rank by one that leaves or moves back; a row*)
(* that is due is at the ranks of the pages to come (Due), and there is a  *)
(* page to come while one is (Underway).  A change has its history row     *)
(* before it is made (Backed), so the page that reads them in the opposite *)
(* order has it too (PageBacked).                                          *)
(***************************************************************************)
EXTENDS AuditLog, Dashboard, FiniteSetTheorems, WellFoundedInduction, TLAPS

-----------------------------------------------------------------------------
(* The review of the audit log.                                            *)

\* A writer about to use its file has it open, and renames files that may exist.
Handled ==
    \A w \in Writers : /\ phase[w] \in {"check", "append"} => handle[w] # 0
                       /\ phase[w] = "rotate" => suffix[w] < Backups

\* Files are numbered as they are made, and have one name each.
Filed ==
    /\ \A s \in Suffixes : names[s] <= created
    /\ \A w \in Writers : handle[w] <= created
    /\ \A n \in DOMAIN log : log[n].file <= created
    /\ \A s, t \in Suffixes : names[s] = names[t] /\ names[s] # 0 => s = t

\* What is counted is in files above those that remain, or removed.
Ordered ==
    /\ stage \in {"idle", "listing"} => counted = {}
    /\ stage = "done" => todo = {}
    /\ \A k \in counted, q \in Suffixes, t \in todo : names[q] = log[k].file => t < q

\* The records among these that add to a counter.
Hits(records, c) == {n \in records : c \in Counts(n, stamp)}

\* The counts are those of the records read.
Exact ==
    \A c \in Limits : c # "malformed" \/ ~ moved => counts[c] = Cardinality(Hits(counted, c))

\* As long as no file moves, what there was when the review began is counted, or is
\* in a file that remains.
Complete ==
    stage # "idle" /\ ~ moved =>
        /\ \A t \in todo : names[t] # 0
        /\ \A n \in before : \/ n \in counted
                             \/ \E t \in todo : names[t] = log[n].file
                             \/ stage = "listing" /\ names[0] = log[n].file

IInv == TypeOK /\ Handled /\ Filed /\ Ordered /\ Exact /\ Complete

\* Records are only added.
Longer == DOMAIN log \subseteq DOMAIN log' /\ \A n \in DOMAIN log : log'[n] = log[n]

-----------------------------------------------------------------------------
(* Sets and numbers.                                                       *)

\* A finite set of numbers has a largest.
LEMMA MaxOfFinite ==
    ASSUME NEW S \in SUBSET Nat, IsFiniteSet(S), S # {}
    PROVE  Max(S) \in S /\ \A y \in S : y <= Max(S)
<1> DEFINE above(t) == {y \in S : y > t}
           T == {above(t) : t \in S}
<1>1. IsWellFoundedOn(StrictSubsetOrdering(S), FiniteSubsetsOf(S))
  BY FS_StrictSubsetOrderingWellFounded
<1>2. T \subseteq FiniteSubsetsOf(S) /\ T # {}
  <2>1. FiniteSubsetsOf(S) = SUBSET S
    BY FS_FiniteSubsetsOfFinite
  <2>2. T \subseteq SUBSET S
    <3> SUFFICES ASSUME NEW t \in S PROVE above(t) \subseteq S
      OBVIOUS
    <3> QED OBVIOUS
  <2>3. T # {}
    <3>1. PICK t \in S : TRUE
      OBVIOUS
    <3>2. above(t) \in T
      OBVIOUS
    <3> HIDE DEF T
    <3> QED BY <3>2
  <2> HIDE DEF T
  <2> QED BY <2>1, <2>2, <2>3
<1>3. PICK u \in T : \A v \in T : ~ (<<v, u>> \in StrictSubsetOrdering(S))
  <2> HIDE DEF T
  <2> QED BY <1>1, <1>2, WFMin
<1>4. PICK x \in S : u = above(x)
  OBVIOUS
<1>5. \A y \in S : y <= x
  <2> SUFFICES ASSUME NEW y \in S, y > x PROVE FALSE
    OBVIOUS
  <2>1. above(y) \in T
    OBVIOUS
  <2>2. above(y) \subseteq above(x)
    <3>1. \A z \in S : z > y => z > x
      <4> SUFFICES ASSUME NEW z \in S, z > y PROVE z > x
        OBVIOUS
      <4>1. x \in Nat /\ y \in Nat /\ z \in Nat
        OBVIOUS
      <4> QED BY <4>1
    <3> QED BY <3>1
  <2>3. above(y) # above(x)
    <3>1. y \in above(x) /\ y \notin above(y)
      OBVIOUS
    <3> QED BY <3>1
  <2>4. above(y) \in SUBSET S /\ above(x) \in SUBSET S
    OBVIOUS
  <2>5. <<above(y), above(x)>> \in StrictSubsetOrdering(S)
    <3> HIDE DEF above
    <3> QED BY <2>2, <2>3, <2>4 DEF StrictSubsetOrdering
  <2> QED BY <1>3, <1>4, <2>1, <2>5
<1>6. \E m \in S : \A y \in S : m >= y
  BY <1>5
<1> QED BY <1>6 DEF Max

\* The suffixes that remain have a largest, which is read next.
LEMMA FollowingIsLast ==
    ASSUME TypeOK, todo # {}
    PROVE  /\ Following \in todo /\ Following \in Suffixes
           /\ \A t \in todo : t <= Following
<1>1. todo \in SUBSET Nat /\ todo \in SUBSET (0 .. Backups)
  BY AuditAssumption DEF TypeOK, Suffixes
<1>2. IsFiniteSet(todo)
  <2>1. IsFiniteSet(0 .. Backups)
    BY AuditAssumption, FS_Interval
  <2> QED BY <1>1, <2>1, FS_Subset
<1> QED BY <1>1, <1>2, MaxOfFinite DEF Following, TypeOK

\* The log is a finite set of records.
LEMMA FiniteLog ==
    ASSUME TypeOK, NEW S \in SUBSET DOMAIN log
    PROVE  IsFiniteSet(S) /\ Cardinality(S) \in Nat
<1>1. DOMAIN log = 1 .. Len(log) /\ Len(log) \in Nat
  BY DEF TypeOK
<1>2. IsFiniteSet(DOMAIN log)
  BY <1>1, FS_Interval
<1> QED BY <1>2, FS_Subset, FS_CardinalityType

\* A set of records of the log has no more of them than one that contains it.
LEMMA MoreRecords ==
    ASSUME TypeOK, NEW S \in SUBSET DOMAIN log, NEW T \in SUBSET S
    PROVE  Cardinality(T) <= Cardinality(S)
<1>1. IsFiniteSet(S)
  BY FiniteLog
<1> QED BY <1>1, FS_Subset

\* A recorded event counts against exactly the thresholds that are about it.
LEMMA TallyConcerns ==
    ASSUME NEW e \in Recorded, NEW c \in Limits \ {"malformed"}
    PROVE  c \in Tally(e) <=> e \in Concerns[c]
<1>1. CASE c = "login_failure"
  BY <1>1 DEF Tally, Concerns, Recorded, Entry, LoginFailure, LoginSuccess, Logout, Retained,
          Event, Results
<1>2. CASE c = "denied_access"
  BY <1>2 DEF Tally, Concerns, Recorded, Entry, LoginFailure, LoginSuccess, Logout, Retained,
          Event, Results
<1>3. CASE c = "error"
  BY <1>3 DEF Tally, Concerns, Recorded, Entry, LoginFailure, LoginSuccess, Logout, Retained,
          Event, Results
<1>4. CASE c = "retention_error"
  BY <1>4 DEF Tally, Concerns, Recorded, Entry, LoginFailure, LoginSuccess, Logout, Retained,
          Event, Results
<1> QED BY <1>1, <1>2, <1>3, <1>4 DEF Limits

\* The type of a record of the log.
LEMMA RecordTyped ==
    ASSUME TypeOK, NEW n \in DOMAIN log
    PROVE  log[n].entry \in Recorded /\ log[n].time \in Nat /\ log[n].file \in Nat \ {0}
<1> DEFINE R == [entry : Recorded, time : Nat, file : Nat \ {0}]
<1>1. log \in Seq(R)
  BY DEF TypeOK
<1>2. log[n] \in R
  <2> HIDE DEF R
  <2> QED BY <1>1
<1> QED BY <1>2

\* What a record adds to is what it is of.
LEMMA HitsAreOf ==
    ASSUME TypeOK, NEW S \in SUBSET DOMAIN log, NEW c \in Limits
    PROVE  Hits(S, c) = Of(S, c)
<1> SUFFICES ASSUME NEW n \in S
             PROVE  c \in Counts(n, stamp) <=>
                      IF c = "malformed" THEN stamp + Skew < log[n].time
                      ELSE /\ stamp <= log[n].time + Window /\ log[n].time <= stamp + Skew
                           /\ log[n].entry \in Concerns[c]
  BY DEF Hits, Of
<1>1. /\ log[n].time \in Nat /\ stamp \in Nat /\ Window \in Nat /\ Skew \in Nat
      /\ log[n].entry \in Recorded
  <2>1. n \in DOMAIN log
    OBVIOUS
  <2> QED BY <2>1, RecordTyped, AuditAssumption DEF TypeOK
<1> DEFINE late == log[n].time > stamp + Skew
           early == log[n].time + Window < stamp
<1>2. /\ late <=> stamp + Skew < log[n].time
      /\ ~ late <=> log[n].time <= stamp + Skew
      /\ ~ early <=> stamp <= log[n].time + Window
  BY <1>1
<1>3. ~ (late /\ early)
  BY <1>1
<1>4. Counts(n, stamp) = IF late THEN {"malformed"} ELSE IF early THEN {}
                                                    ELSE Tally(log[n].entry)
  BY <1>3 DEF Counts
<1> HIDE DEF late, early
<1>5. CASE c = "malformed"
  <2>1. c \notin Tally(log[n].entry)
    BY <1>5 DEF Tally
  <2> QED BY <1>2, <1>4, <1>5, <2>1
<1>6. CASE c # "malformed"
  <2>1. c \in Tally(log[n].entry) <=> log[n].entry \in Concerns[c]
    BY <1>1, <1>6, TallyConcerns
  <2> QED BY <1>2, <1>4, <1>6, <2>1
<1> QED BY <1>5, <1>6

\* The invariant is what the two properties need.
LEMMA InvariantSuffices == IInv => BreachIsReal /\ BreachIsSeen
<1> SUFFICES ASSUME IInv, stage = "done"
             PROVE  BreachIsReal /\ BreachIsSeen
  BY DEF BreachIsReal, BreachIsSeen
<1>1. TypeOK /\ counted \in SUBSET DOMAIN log /\ before \in SUBSET DOMAIN log
  BY DEF IInv, TypeOK
<1>2. \A c \in Limits : Thresholds[c] \in Nat /\ counts[c] \in Nat
  BY <1>1, AuditAssumption DEF TypeOK, Counters
<1>3. ASSUME NEW c \in Limits, c # "malformed" \/ ~ moved
      PROVE  /\ counts[c] = Number(counted, c)
             /\ counts[c] <= Number(DOMAIN log, c) /\ Number(DOMAIN log, c) \in Nat
  <2>1. counts[c] = Cardinality(Of(counted, c))
    BY <1>1, <1>3, HitsAreOf DEF IInv, Exact
  <2>2. Of(counted, c) \in SUBSET Of(DOMAIN log, c) /\ Of(DOMAIN log, c) \in SUBSET DOMAIN log
    BY <1>1 DEF Of
  <2> QED BY <1>1, <2>1, <2>2, MoreRecords, FiniteLog DEF Number
<1>4. BreachIsReal
  <2> SUFFICES ASSUME NEW c \in Limits, c # "malformed", Breached(c)
               PROVE  Number(DOMAIN log, c) >= Thresholds[c]
    BY DEF BreachIsReal
  <2> QED BY <1>2, <1>3 DEF Breached
<1>5. ASSUME ~ moved, NEW c \in Limits PROVE Number(before, c) <= counts[c]
  <2>1. before \subseteq counted
    BY <1>5 DEF IInv, Complete, Ordered
  <2>2. Of(before, c) \in SUBSET Of(counted, c) /\ Of(counted, c) \in SUBSET DOMAIN log
    BY <1>1, <2>1 DEF Of
  <2>3. Number(before, c) <= Number(counted, c)
    BY <1>1, <2>2, MoreRecords DEF Number
  <2> QED BY <1>3, <1>5, <2>3
<1>6. BreachIsSeen
  <2> SUFFICES ASSUME ~ moved
               PROVE  /\ \A c \in Limits : Number(before, c) >= Thresholds[c] => Breached(c)
                      /\ Breached("malformed") =>
                           Number(DOMAIN log, "malformed") >= Thresholds["malformed"]
    BY DEF BreachIsSeen
  <2>1. ASSUME NEW c \in Limits, Number(before, c) >= Thresholds[c] PROVE Breached(c)
    <3>1. Number(before, c) \in Nat
      <4>1. Of(before, c) \in SUBSET DOMAIN log
        BY <1>1 DEF Of
      <4> QED BY <1>1, <4>1, FiniteLog DEF Number
    <3> QED BY <1>2, <1>5, <2>1, <3>1 DEF Breached
  <2>2. "malformed" \in Limits
    BY DEF Limits
  <2>3. Breached("malformed") => Number(DOMAIN log, "malformed") >= Thresholds["malformed"]
    BY <1>2, <1>3, <2>2 DEF Breached
  <2> QED BY <2>1, <2>3
<1> QED BY <1>4, <1>6

-----------------------------------------------------------------------------
(* The steps of the writers.                                               *)

\* Records that are there keep counting as they did.
LEMMA HitsStay ==
    ASSUME Longer, stamp' = stamp, NEW S \in SUBSET DOMAIN log, NEW c
    PROVE  Hits(S, c)' = Hits(S, c)
BY DEF Hits, Counts, Longer

\* If the review has not gone on, its counts remain those of what it has read.
LEMMA ExactStays ==
    ASSUME TypeOK, Exact, Longer, UNCHANGED reviewer, moved => moved'
    PROVE  Exact'
<1>1. stamp' = stamp /\ counts' = counts /\ counted' = counted /\ counted \in SUBSET DOMAIN log
  BY DEF reviewer, TypeOK
<1>2. \A c : Hits(counted, c)' = Hits(counted, c)
  BY <1>1, HitsStay DEF Hits, Counts
<1> QED BY <1>1, <1>2 DEF Exact, Hits, Counts

\* Steps that touch neither files nor records nor the review.
LEMMA AsideKeeps ==
    ASSUME IInv, TypeOK', Handled', UNCHANGED <<log, files, reviewer, moved>>,
           \A w \in Writers : handle'[w] \in {handle[w], 0}
    PROVE  IInv'
<1>1. /\ log' = log /\ names' = names /\ created' = created /\ moved' = moved
      /\ stage' = stage /\ todo' = todo /\ counted' = counted /\ before' = before
      /\ created \in Nat
  BY DEF files, reviewer, IInv, TypeOK
<1>2. Filed'
  BY <1>1 DEF IInv, Filed
<1>3. Ordered' /\ Complete'
  BY <1>1 DEF IInv, Ordered, Complete
<1>4. Exact'
  BY <1>1, ExactStays DEF IInv, Longer
<1> QED BY <1>2, <1>3, <1>4 DEF IInv

\* A record is at hand.
LEMMA EmitKeeps ==
    ASSUME IInv, NEW w \in Writers, Emit(w)
    PROVE  IInv'
<1>1. PICK e \in Entries[w] : pending' = [pending EXCEPT ![w] = [entry |-> e, time |-> now]]
  BY DEF Emit
<1>2. e \in Recorded /\ now \in Nat
  BY AuditAssumption DEF IInv, TypeOK
<1>3. [entry |-> e, time |-> now] \in [entry : Recorded, time : Nat]
  BY <1>2
<1>4. pending' \in [Writers -> [entry : Recorded, time : Nat]]
  BY <1>1, <1>3 DEF IInv, TypeOK
<1>5. TypeOK'
  BY <1>4 DEF IInv, TypeOK, Emit, Goto, files, reviewer
<1>6. Handled'
  BY DEF IInv, TypeOK, Handled, Emit, Goto
<1> QED BY <1>5, <1>6, AsideKeeps DEF Emit

\* The file is full, or is not.
LEMMA CheckSizeKeeps ==
    ASSUME IInv, NEW w \in Writers, CheckSize(w)
    PROVE  IInv'
<1>1. /\ Backups - 1 \in Suffixes /\ Backups - 1 < Backups /\ 0 \in Nat
  BY AuditAssumption DEF Suffixes
<1>2. TypeOK' /\ Handled' /\ \A v \in Writers : handle'[v] \in {handle[v], 0}
  <2>1. CASE Goto(w, "append") /\ UNCHANGED <<suffix, handle>>
    BY <2>1 DEF IInv, TypeOK, Handled, CheckSize, Goto, files, reviewer
  <2>2. CASE /\ Goto(w, "rotate")
             /\ suffix' = [suffix EXCEPT ![w] = Backups - 1]
             /\ handle' = [handle EXCEPT ![w] = 0]
    <3>1. TypeOK'
      BY <1>1, <2>2 DEF IInv, TypeOK, CheckSize, Goto, files, reviewer
    <3>2. Handled'
      BY <1>1, <2>2 DEF IInv, TypeOK, Handled, Goto
    <3>3. \A v \in Writers : handle'[v] \in {handle[v], 0}
      BY <2>2 DEF IInv, TypeOK
    <3> QED BY <3>1, <3>2, <3>3
  <2> QED BY <2>1, <2>2 DEF CheckSize
<1> QED BY <1>2, AsideKeeps DEF CheckSize

\* A call on a file fails.
LEMMA FallbackKeeps ==
    ASSUME IInv, NEW w \in Writers, Fallback(w)
    PROVE  IInv'
<1>1. 0 \in Suffixes /\ NoRecord \in [entry : Recorded, time : Nat] /\ faults + 1 \in Nat
  BY AuditAssumption DEF Suffixes, NoRecord, Recorded, IInv, TypeOK
<1>2. TypeOK'
  BY <1>1 DEF IInv, TypeOK, Fallback, Goto, files, reviewer
<1>3. Handled'
  BY DEF IInv, TypeOK, Handled, Fallback, Goto
<1> QED BY <1>2, <1>3, AsideKeeps DEF Fallback

\* audit.jsonl is opened, and made if it is not there: nobody has read that file.
LEMMA OpenKeeps ==
    ASSUME IInv, NEW w \in Writers, Open(w)
    PROVE  IInv'
<1> DEFINE make == handle[w] = 0 /\ names[0] = 0
<1>1. /\ 0 \in Suffixes /\ created \in Nat /\ names \in [Suffixes -> Nat]
      /\ handle \in [Writers -> Nat]
      /\ phase \in [Writers -> {"idle", "open", "check", "rotate", "reopen", "append"}]
  BY AuditAssumption DEF Suffixes, IInv, TypeOK
<1>2. /\ created' = IF make THEN created + 1 ELSE created
      /\ names' = IF make THEN [names EXCEPT ![0] = created'] ELSE names
      /\ handle' = IF handle[w] = 0 THEN [handle EXCEPT ![w] = names'[0]] ELSE handle
      /\ log' = log /\ suffix' = suffix /\ pending' = pending /\ moved' = moved
      /\ UNCHANGED reviewer /\ now' = now /\ faults' = faults
  BY DEF Open
<1>3. /\ stage' = stage /\ todo' = todo /\ counted' = counted /\ before' = before
  BY <1>2 DEF reviewer
<1>4. /\ created' \in Nat /\ created <= created' /\ names' \in [Suffixes -> Nat]
      /\ make => names'[0] = created + 1
      /\ handle[w] # 0 \/ names'[0] # 0
      /\ \A s \in Suffixes : names'[s] = names[s] \/ (make /\ s = 0)
  <2>1. CASE make
    <3>1. created' = created + 1 /\ names' = [names EXCEPT ![0] = created + 1]
      BY <1>2, <2>1
    <3>2. created + 1 \in Nat /\ created + 1 # 0
      BY <1>1
    <3>3. names' \in [Suffixes -> Nat] /\ names'[0] = created + 1
      BY <1>1, <3>1, <3>2
    <3> QED BY <1>1, <2>1, <3>1, <3>2, <3>3
  <2>2. CASE ~ make
    BY <1>1, <1>2, <2>2
  <2> QED BY <2>1, <2>2
<1>5. handle' \in [Writers -> Nat] /\ handle'[w] # 0
      /\ (handle'[w] = handle[w] \/ handle'[w] = names'[0])
      /\ \A v \in Writers \ {w} : handle'[v] = handle[v]
  BY <1>1, <1>2, <1>4
<1>6. created' \in Nat /\ names' \in [Suffixes -> Nat] /\ created <= created'
  BY <1>4
<1>7. TypeOK'
  <2>1. phase' \in [Writers -> {"idle", "open", "check", "rotate", "reopen", "append"}]
    BY <1>1 DEF Open, Goto
  <2> QED BY <1>2, <1>5, <1>6, <2>1 DEF IInv, TypeOK, reviewer
<1>8. Handled'
  <2>1. phase'[w] \in {"check", "append"} /\ \A v \in Writers \ {w} : phase'[v] = phase[v]
    BY <1>1 DEF Open, Goto
  <2> QED BY <1>2, <1>5, <2>1 DEF IInv, Handled
<1>9. \A s \in Suffixes : names'[s] = names[s] \/ (make /\ s = 0 /\ names'[s] = created + 1)
  BY <1>4
<1>10. Filed'
  <2>1. \A s \in Suffixes : names[s] <= created /\ names[s] \in Nat
    BY <1>1 DEF IInv, Filed
  <2>2. \A s \in Suffixes : names'[s] <= created'
    BY <1>1, <1>2, <1>6, <1>9, <2>1
  <2>3. \A v \in Writers : handle'[v] <= created'
    <3>1. \A v \in Writers : handle[v] <= created /\ handle[v] \in Nat
      BY <1>1 DEF IInv, Filed
    <3> QED BY <1>1, <1>5, <1>6, <2>2, <3>1
  <2>4. \A n \in DOMAIN log' : log'[n].file <= created'
    <3>1. \A n \in DOMAIN log : log[n].file \in Nat /\ log[n].file <= created
      BY RecordTyped DEF IInv, Filed
    <3> QED BY <1>1, <1>2, <1>6, <3>1
  <2>5. \A s, t \in Suffixes : names'[s] = names'[t] /\ names'[s] # 0 => s = t
    <3>1. \A s \in Suffixes : names[s] # created + 1
      BY <1>1, <2>1
    <3> QED BY <1>9, <3>1 DEF IInv, Filed
  <2> QED BY <2>2, <2>3, <2>4, <2>5 DEF Filed
<1>11. \A n \in DOMAIN log : log[n].file # 0 /\ log[n].file # created + 1
  <2> SUFFICES ASSUME NEW n \in DOMAIN log PROVE log[n].file # 0 /\ log[n].file # created + 1
    OBVIOUS
  <2>1. log[n].file \in Nat \ {0} /\ log[n].file <= created
    BY RecordTyped DEF IInv, Filed
  <2> QED BY <1>1, <2>1
<1>12. counted \subseteq DOMAIN log /\ before \subseteq DOMAIN log /\ todo \subseteq Suffixes
  BY DEF IInv, TypeOK
<1>13. Ordered'
  BY <1>2, <1>3, <1>9, <1>11, <1>12 DEF IInv, Ordered
<1>14. Complete'
  <2> SUFFICES ASSUME stage # "idle", ~ moved
               PROVE  /\ \A t \in todo : names'[t] # 0
                      /\ \A n \in before : \/ n \in counted
                                           \/ \E t \in todo : names'[t] = log[n].file
                                           \/ stage = "listing" /\ names'[0] = log[n].file
    BY <1>2, <1>3 DEF Complete
  <2>1. \A t \in todo : names'[t] # 0
    BY <1>1, <1>9, <1>12 DEF IInv, Complete
  <2>2. \A s \in Suffixes, n \in DOMAIN log : names[s] = log[n].file => names'[s] = log[n].file
    BY <1>9, <1>11
  <2> QED BY <1>1, <1>12, <2>1, <2>2 DEF IInv, Complete
<1>15. Exact'
  BY <1>2, ExactStays DEF IInv, Longer
<1> QED BY <1>7, <1>8, <1>10, <1>13, <1>14, <1>15 DEF IInv

\* A record is written to the file its writer has open, wherever that is by now.
LEMMA AppendKeeps ==
    ASSUME IInv, NEW w \in Writers, Append1(w)
    PROVE  IInv'
<1> DEFINE rec == [entry |-> pending[w].entry, time |-> pending[w].time, file |-> handle[w]]
           R == [entry : Recorded, time : Nat, file : Nat \ {0}]
<1>1. /\ log' = Append(log, rec) /\ names' = names /\ created' = created
      /\ handle' = handle /\ suffix' = suffix /\ moved' = moved
      /\ UNCHANGED reviewer /\ stage' = stage /\ todo' = todo
      /\ counted' = counted /\ before' = before /\ now' = now /\ faults' = faults
  BY DEF Append1, files, reviewer
<1>2. rec \in R /\ rec.file = handle[w] /\ handle[w] <= created
  <2>1. handle[w] \in Nat /\ handle[w] # 0 /\ handle[w] <= created
    BY DEF IInv, TypeOK, Handled, Filed, Append1
  <2>2. pending[w].entry \in Recorded /\ pending[w].time \in Nat
    BY DEF IInv, TypeOK
  <2> QED BY <2>1, <2>2
<1>3. log \in Seq(R) /\ created \in Nat
  BY DEF IInv, TypeOK
<1> HIDE DEF rec, R
<1>4. /\ log' \in Seq(R) /\ Longer
      /\ \A n \in DOMAIN log' : n \in DOMAIN log \/ log'[n] = rec
  BY <1>1, <1>2, <1>3 DEF Longer
<1>5. TypeOK'
  <2>1. NoRecord \in [entry : Recorded, time : Nat]
    BY DEF NoRecord, Recorded
  <2>2. /\ phase' \in [Writers -> {"idle", "open", "check", "rotate", "reopen", "append"}]
        /\ pending' \in [Writers -> [entry : Recorded, time : Nat]]
    BY <2>1 DEF IInv, TypeOK, Append1, Goto
  <2>3. counted' \subseteq DOMAIN log' /\ before' \subseteq DOMAIN log'
    BY <1>1, <1>4 DEF IInv, TypeOK, Longer
  <2> QED BY <1>1, <1>4, <2>2, <2>3 DEF IInv, TypeOK, reviewer, R
<1>6. Handled'
  BY <1>1 DEF IInv, TypeOK, Handled, Append1, Goto
<1>7. Filed'
  <2>1. \A n \in DOMAIN log' : log'[n].file <= created
    BY <1>2, <1>4 DEF IInv, Filed, Longer
  <2> QED BY <1>1, <2>1 DEF IInv, Filed
<1>8. counted \subseteq DOMAIN log /\ before \subseteq DOMAIN log
  BY DEF IInv, TypeOK
<1>9. Ordered' /\ Complete'
  BY <1>1, <1>4, <1>8 DEF IInv, Ordered, Complete, Longer
<1>10. Exact'
  BY <1>1, <1>4, ExactStays DEF IInv
<1> QED BY <1>5, <1>6, <1>7, <1>9, <1>10 DEF IInv

\* A file is renamed: those that are counted move away from those that remain.
LEMMA RotateKeeps ==
    ASSUME IInv, NEW w \in Writers, Rotate(w)
    PROVE  IInv'
<1> DEFINE s == suffix[w]
<1>1. /\ names' = (IF names[s] # 0 \/ s = 0
                     THEN [names EXCEPT ![s + 1] = names[s], ![s] = 0] ELSE names)
      /\ log' = log /\ created' = created /\ handle' = handle /\ pending' = pending
      /\ moved' = (moved \/ (stage \in {"listing", "reading"} /\ names' # names))
      /\ UNCHANGED reviewer /\ stage' = stage /\ todo' = todo
      /\ counted' = counted /\ before' = before /\ now' = now /\ faults' = faults
  BY DEF Rotate, reviewer
<1>2. /\ s \in Suffixes /\ s < Backups /\ Backups \in Nat /\ s \in Nat
      /\ names \in [Suffixes -> Nat] /\ created \in Nat
      /\ suffix \in [Writers -> Suffixes]
      /\ phase \in [Writers -> {"idle", "open", "check", "rotate", "reopen", "append"}]
  BY AuditAssumption DEF IInv, TypeOK, Handled, Suffixes, Rotate
<1>3. s + 1 \in Suffixes /\ 0 \in Suffixes /\ s + 1 # s
  BY <1>2 DEF Suffixes
<1> HIDE DEF s
<1>4. names' \in [Suffixes -> Nat]
  BY <1>1, <1>2, <1>3
<1>5. \A q \in Suffixes : \/ names'[q] = 0
                          \/ q = s + 1 /\ names'[q] = names[s]
                          \/ names'[q] = names[q] /\ (q = s => names' = names)
  BY <1>1, <1>2, <1>3
<1>6. names' = names \/ (names'[s] = 0 /\ names'[s + 1] = names[s])
  BY <1>1, <1>2, <1>3
<1>7. phase'[w] = "rotate" => suffix'[w] < Backups
  BY <1>2 DEF Rotate, Goto, s
<1>8. /\ suffix' \in [Writers -> Suffixes]
      /\ phase' \in [Writers -> {"idle", "open", "check", "rotate", "reopen", "append"}]
      /\ phase'[w] \in {"rotate", "reopen"}
      /\ \A v \in Writers \ {w} : phase'[v] = phase[v] /\ suffix'[v] = suffix[v]
  <2>1. s # 0 => s - 1 \in Suffixes
    BY <1>2 DEF Suffixes
  <2> QED BY <1>2, <2>1 DEF Rotate, Goto, s
<1>9. TypeOK'
  BY <1>1, <1>4, <1>8 DEF IInv, TypeOK, reviewer
<1>10. Handled'
  BY <1>1, <1>7, <1>8 DEF IInv, Handled
<1>11. Filed'
  <2>1. \A q \in Suffixes : names[q] <= created /\ names[q] \in Nat
    BY <1>2 DEF IInv, Filed
  <2>2. \A q \in Suffixes : names'[q] <= created
    BY <1>2, <1>5, <2>1
  <2>3. \A q, t \in Suffixes : names'[q] = names'[t] /\ names'[q] # 0 => q = t
    BY <1>2, <1>3, <1>5, <1>6 DEF IInv, Filed
  <2> QED BY <1>1, <2>2, <2>3 DEF IInv, Filed
<1>12. \A n \in DOMAIN log : log[n].file # 0
  BY RecordTyped DEF IInv
<1>13. counted \subseteq DOMAIN log /\ before \subseteq DOMAIN log /\ todo \subseteq Suffixes
  BY DEF IInv, TypeOK
<1>14. Ordered'
  <2>1. ASSUME NEW k \in counted, NEW q \in Suffixes, NEW t \in todo,
               names'[q] = log[k].file
        PROVE  t < q
    <3>1. names'[q] # 0 /\ t \in Suffixes
      BY <1>12, <1>13, <2>1
    <3>2. CASE q = s + 1 /\ names'[q] = names[s]
      <4>1. t < s
        BY <1>2, <2>1, <3>2 DEF IInv, Ordered
      <4> QED BY <1>2, <3>1, <3>2, <4>1 DEF Suffixes
    <3>3. CASE names'[q] = names[q]
      BY <2>1, <3>3 DEF IInv, Ordered
    <3> QED BY <1>5, <3>1, <3>2, <3>3
  <2> QED BY <1>1, <2>1 DEF IInv, Ordered
<1>15. Complete'
  <2> SUFFICES ASSUME stage # "idle", ~ moved' PROVE Complete'
    BY <1>1 DEF Complete
  <2>1. CASE names' = names
    BY <1>1, <2>1 DEF IInv, Complete
  <2>2. CASE names' # names
    <3>1. stage = "done" /\ ~ moved
      BY <1>1, <2>2 DEF IInv, TypeOK
    <3>2. todo = {} /\ before \subseteq counted
      BY <3>1 DEF IInv, Ordered, Complete
    <3> QED BY <1>1, <3>1, <3>2 DEF Complete
  <2> QED BY <2>1, <2>2
<1>16. Exact'
  BY <1>1, ExactStays DEF IInv, Longer
<1> QED BY <1>9, <1>10, <1>11, <1>14, <1>15, <1>16 DEF IInv

-----------------------------------------------------------------------------
(* The steps of the review, and time.                                      *)

\* A review begins.
LEMMA ListRotatedKeeps ==
    ASSUME IInv, ListRotated
    PROVE  IInv'
<1>1. /\ log' = log /\ names' = names /\ created' = created /\ handle' = handle
      /\ phase' = phase /\ suffix' = suffix /\ pending' = pending
      /\ now' = now /\ faults' = faults
      /\ stage' = "listing" /\ stamp' = now /\ todo' = {s \in Suffixes : s # 0 /\ names[s] # 0}
      /\ counts' = [c \in Counters |-> 0]
      /\ counted' = {} /\ before' = OnDisk /\ moved' = FALSE
  BY DEF ListRotated, files, writer
<1>2. OnDisk \subseteq DOMAIN log /\ \A n \in OnDisk : \E s \in Suffixes : names[s] = log[n].file
  BY DEF OnDisk
<1>3. counts' \in [Counters -> Nat]
  BY <1>1
<1>4. TypeOK'
  BY <1>1, <1>2, <1>3 DEF IInv, TypeOK
<1>5. Handled' /\ Filed'
  BY <1>1 DEF IInv, Handled, Filed
<1>6. Ordered'
  BY <1>1 DEF Ordered
<1>7. Complete'
  <2>1. \A n \in OnDisk : log[n].file # 0
    BY <1>2, RecordTyped DEF IInv
  <2> QED BY <1>1, <1>2, <2>1 DEF Complete
<1>8. Exact'
  <2>1. \A c : Hits(counted, c)' = {}
    BY <1>1 DEF Hits
  <2>2. \A c \in Limits : counts'[c] = 0
    BY <1>1 DEF Counters
  <2> QED BY <2>1, <2>2, FS_EmptySet DEF Exact
<1> QED BY <1>4, <1>5, <1>6, <1>7, <1>8 DEF IInv

\* audit.jsonl is on the list if it is there, and the review is over when it is read.
LEMMA ListKeeps ==
    ASSUME IInv, ListCurrent \/ Report
    PROVE  IInv'
<1>1. /\ log' = log /\ names' = names /\ created' = created /\ handle' = handle
      /\ phase' = phase /\ suffix' = suffix /\ pending' = pending
      /\ now' = now /\ faults' = faults
      /\ stamp' = stamp /\ counts' = counts /\ counted' = counted /\ before' = before
      /\ moved' = moved
      /\ \/ stage = "listing" /\ stage' = "reading"
            /\ todo' = IF names[0] # 0 THEN todo \cup {0} ELSE todo
         \/ stage = "reading" /\ todo = {} /\ stage' = "done" /\ todo' = todo
  BY DEF ListCurrent, Report, files, writer
<1>2. 0 \in Suffixes
  BY AuditAssumption DEF Suffixes
<1>3. TypeOK'
  BY <1>1, <1>2 DEF IInv, TypeOK
<1>4. Handled' /\ Filed'
  BY <1>1 DEF IInv, Handled, Filed
<1>5. Ordered'
  BY <1>1 DEF IInv, Ordered
<1>6. Complete'
  <2>1. \A n \in before : log[n].file # 0
    BY RecordTyped DEF IInv, TypeOK
  <2> QED BY <1>1, <2>1 DEF IInv, Complete
<1>7. Exact'
  BY <1>1 DEF IInv, Exact, Hits, Counts
<1> QED BY <1>3, <1>4, <1>5, <1>6, <1>7 DEF IInv

\* A file is read: none of its records was counted before.
LEMMA ReadKeeps ==
    ASSUME IInv, ReadFile
    PROVE  IInv'
<1> DEFINE f == Following
           file == names[f]
           read == In(file)
<1>1. /\ log' = log /\ names' = names /\ created' = created /\ handle' = handle
      /\ phase' = phase /\ suffix' = suffix /\ pending' = pending
      /\ now' = now /\ faults' = faults
      /\ stage' = stage /\ stamp' = stamp /\ before' = before /\ moved' = moved
      /\ stage = "reading" /\ todo # {} /\ todo' = todo \ {f}
      /\ counts' = [c \in Counters |->
            IF file = 0 THEN IF c = "malformed" THEN counts[c] + 1 ELSE counts[c]
                        ELSE counts[c] + Cardinality({n \in read : c \in Counts(n, stamp)})]
      /\ counted' = IF file = 0 THEN counted ELSE counted \cup read
  BY DEF ReadFile, files, writer
<1>2. f \in todo /\ f \in Suffixes /\ \A t \in todo : t <= f
  BY <1>1, FollowingIsLast DEF IInv
<1>3. read \subseteq DOMAIN log /\ \A n \in read : log[n].file = file
  BY DEF In
<1>4. \A n \in DOMAIN log : log[n].file = file => n \in read
  BY DEF In
<1>5. counted \subseteq DOMAIN log /\ before \subseteq DOMAIN log /\ todo \subseteq Suffixes
      /\ TypeOK
  BY DEF IInv, TypeOK
<1>6. counted \cap read = {}
  <2> SUFFICES ASSUME NEW k \in counted, k \in read PROVE FALSE
    OBVIOUS
  <2>1. names[f] = log[k].file
    BY <1>3
  <2>2. f < f
    BY <1>2, <2>1 DEF IInv, Ordered
  <2> QED BY <1>2, <2>2 DEF Suffixes
<1> HIDE DEF f, file, read
<1>7. \A c : Hits(read, c) = {n \in read : c \in Counts(n, stamp)}
  BY DEF Hits
<1>8. ASSUME NEW c
      PROVE  /\ Cardinality(Hits(read, c)) \in Nat
             /\ Cardinality(Hits(counted \cup read, c)) =
                  Cardinality(Hits(counted, c)) + Cardinality(Hits(read, c))
  <2>1. Hits(read, c) \in SUBSET DOMAIN log /\ Hits(counted, c) \in SUBSET DOMAIN log
    BY <1>3, <1>5 DEF Hits
  <2>2. /\ Hits(counted \cup read, c) = Hits(counted, c) \cup Hits(read, c)
        /\ Hits(counted, c) \cap Hits(read, c) = {}
    BY <1>6 DEF Hits
  <2>3. /\ IsFiniteSet(Hits(read, c)) /\ Cardinality(Hits(read, c)) \in Nat
        /\ IsFiniteSet(Hits(counted, c)) /\ Cardinality(Hits(counted, c)) \in Nat
    BY <1>5, <2>1, FiniteLog
  <2>4. Cardinality(Hits(counted, c) \cup Hits(read, c)) =
          Cardinality(Hits(counted, c)) + Cardinality(Hits(read, c)) - Cardinality({})
    BY <2>2, <2>3, FS_Union
  <2>5. Cardinality({}) = 0
    BY FS_EmptySet
  <2> DEFINE a == Cardinality(Hits(counted, c))
             b == Cardinality(Hits(read, c))
  <2>6. a \in Nat /\ b \in Nat /\ a + b - 0 = a + b
    BY <2>3
  <2> QED BY <2>2, <2>3, <2>4, <2>5, <2>6
<1>9. TypeOK'
  <2>1. counts' \in [Counters -> Nat]
    <3> SUFFICES ASSUME NEW c \in Counters
                 PROVE  (IF file = 0 THEN IF c = "malformed" THEN counts[c] + 1 ELSE counts[c]
                         ELSE counts[c] + Cardinality({n \in read : c \in Counts(n, stamp)}))
                           \in Nat
      BY <1>1
    <3>1. counts[c] \in Nat /\ Cardinality({n \in read : c \in Counts(n, stamp)}) \in Nat
      BY <1>5, <1>7, <1>8 DEF TypeOK
    <3> QED BY <3>1
  <2>2. counted' \subseteq DOMAIN log' /\ todo' \subseteq Suffixes
    BY <1>1, <1>3, <1>5
  <2> QED BY <1>1, <2>1, <2>2 DEF IInv, TypeOK
<1>10. Handled' /\ Filed'
  BY <1>1 DEF IInv, Handled, Filed
<1>11. Ordered'
  <2>1. ASSUME NEW k \in counted', NEW q \in Suffixes, NEW t \in todo', names[q] = log[k].file
        PROVE  t < q
    <3>1. CASE k \in counted
      BY <1>1, <2>1, <3>1 DEF IInv, Ordered
    <3>2. CASE k \notin counted
      <4>1. file # 0 /\ log[k].file = file
        BY <1>1, <1>3, <3>2
      <4>2. q = f
        BY <1>2, <2>1, <4>1 DEF IInv, Filed, file
      <4>3. t \in todo /\ t # f /\ t <= f /\ t \in Suffixes
        BY <1>1, <1>2, <1>5
      <4> QED BY <1>2, <4>2, <4>3 DEF Suffixes
    <3> QED BY <3>1, <3>2
  <2> QED BY <1>1, <2>1 DEF Ordered
<1>12. Complete'
  <2> SUFFICES ASSUME ~ moved
               PROVE  /\ \A t \in todo' : names[t] # 0
                      /\ \A n \in before : \/ n \in counted'
                                           \/ \E t \in todo' : names[t] = log[n].file
    BY <1>1 DEF Complete
  <2>1. /\ \A t \in todo : names[t] # 0
        /\ \A n \in before : n \in counted \/ \E t \in todo : names[t] = log[n].file
    BY <1>1 DEF IInv, Complete
  <2>2. file # 0
    BY <1>2, <2>1 DEF file
  <2>3. counted' = counted \cup read
    BY <1>1, <2>2
  <2> QED BY <1>1, <1>4, <1>5, <2>1, <2>3 DEF file
<1>13. Exact'
  <2> SUFFICES ASSUME NEW c \in Limits, c # "malformed" \/ ~ moved
               PROVE  counts'[c] = Cardinality(Hits(counted', c))
    BY <1>1 DEF Exact, Hits, Counts
  <2>1. c \in Counters /\ counts[c] = Cardinality(Hits(counted, c))
    BY DEF IInv, Exact, Counters
  <2>2. CASE file = 0
    <3>1. c # "malformed"
      BY <1>1, <1>2, <2>2 DEF IInv, Complete, file
    <3> QED BY <1>1, <2>1, <2>2, <3>1
  <2>3. CASE file # 0
    <3>1. counts'[c] = counts[c] + Cardinality(Hits(read, c)) /\ counted' = counted \cup read
      BY <1>1, <1>7, <2>1, <2>3
    <3> QED BY <1>8, <2>1, <3>1
  <2> QED BY <2>2, <2>3
<1> QED BY <1>9, <1>10, <1>11, <1>12, <1>13 DEF IInv

\* At first there is nothing.
LEMMA InitInvariant == Init => IInv
<1> SUFFICES ASSUME Init PROVE IInv
  OBVIOUS
<1>1. 0 \in Suffixes /\ NoRecord \in [entry : Recorded, time : Nat]
  BY AuditAssumption DEF Suffixes, NoRecord, Recorded
<1>2. /\ names = [s \in Suffixes |-> 0] /\ log = <<>> /\ handle = [w \in Writers |-> 0]
      /\ counts = [c \in Counters |-> 0] /\ counted = {} /\ todo = {} /\ stage = "idle"
      /\ phase = [w \in Writers |-> "idle"] /\ created = 0
  BY DEF Init
<1>3. TypeOK
  <2>1. log \in Seq([entry : Recorded, time : Nat, file : Nat \ {0}]) /\ DOMAIN log = {}
    BY <1>2
  <2> QED BY <1>1, <2>1 DEF Init, TypeOK
<1>4. Handled /\ Ordered /\ Complete
  BY <1>2 DEF Handled, Ordered, Complete
<1>5. Filed
  BY <1>2 DEF Filed
<1>6. Exact
  <2>1. \A c : Hits(counted, c) = {}
    BY <1>2 DEF Hits
  <2>2. \A c \in Limits : counts[c] = 0
    BY <1>2 DEF Counters
  <2> QED BY <2>1, <2>2, FS_EmptySet DEF Exact
<1> QED BY <1>3, <1>4, <1>5, <1>6 DEF IInv

\* Time passes or is set back, or nothing happens.
LEMMA TimeKeeps ==
    ASSUME IInv, Tick \/ SetBack \/ UNCHANGED vars
    PROVE  IInv'
<1>1. /\ UNCHANGED <<log, files, writer, reviewer, moved>>
      /\ now' \in Nat /\ faults' \in Nat
  BY DEF Tick, SetBack, vars, IInv, TypeOK
<1>2. TypeOK' /\ Handled'
  BY <1>1 DEF IInv, TypeOK, Handled, files, writer, reviewer
<1>3. \A w \in Writers : handle'[w] \in {handle[w], 0}
  BY <1>1 DEF writer
<1> QED BY <1>1, <1>2, <1>3, AsideKeeps

\* The invariant holds throughout.
LEMMA Invariance == Spec => []IInv
<1>1. IInv /\ [Next]_vars => IInv'
  <2> SUFFICES ASSUME IInv, [Next]_vars PROVE IInv'
    OBVIOUS
  <2>1. ASSUME NEW w \in Writers, Write(w) PROVE IInv'
    BY <2>1, EmitKeeps, OpenKeeps, CheckSizeKeeps, RotateKeeps, AppendKeeps, FallbackKeeps
       DEF Write
  <2>2. CASE Review
    BY <2>2, ListRotatedKeeps, ListKeeps, ReadKeeps DEF Review
  <2>3. CASE Tick \/ SetBack \/ UNCHANGED vars
    BY <2>3, TimeKeeps
  <2> QED BY <2>1, <2>2, <2>3 DEF Next
<1> QED BY <1>1, InitInvariant, PTL DEF Spec

-----------------------------------------------------------------------------
(* The theorems.                                                           *)

\* The variables have their types (TypeOK).
THEOREM TypeCorrectness == Spec => []TypeOK
<1>1. IInv => TypeOK
  BY DEF IInv
<1> QED BY <1>1, Invariance, PTL

\* A breach that a review reports is warranted by the log, whatever the writers
\* rename meanwhile (BreachIsReal).
THEOREM BreachesAreReal == Spec => []BreachIsReal
<1>1. IInv => BreachIsReal
  BY InvariantSuffices
<1> QED BY <1>1, Invariance, PTL

\* A review during which no file is renamed reports every breach (BreachIsSeen).
THEOREM BreachesAreSeen == Spec => []BreachIsSeen
<1>1. IInv => BreachIsSeen
  BY InvariantSuffices
<1> QED BY <1>1, Invariance, PTL

-----------------------------------------------------------------------------
(* The pages of the dashboard.                                             *)

\* Where the walk is: a row it has to show is on a page to come, and there is a
\* page to come.
Due(d) == d \in shown \/ Rank(AllRows, d) >= (next - 1) * PageSize

Underway ==
    walk = "on" =>
        /\ next \in Nat \ {0}
        /\ ~ upset /\ ~ cut => /\ Cardinality(AllRows) > (next - 1) * PageSize
                               /\ \A d \in wanted : Due(d)

\* Whatever a document has gone through has, or had, its row; and so has what the
\* page of an event has read of it.
Backed == \A d \in Docs : past[d] \subseteq leak_history[d] \cup purged[d]

PageBacked ==
    /\ past_shown \subseteq leak_history[event] \cup purged[event]
    /\ step \in {3, 4} /\ ~ more => past_shown \subseteq history_shown \cup purged[event]

DInv ==
    /\ DashboardTypeOK
    /\ IsFiniteSet(DOMAIN leaked_data)
    /\ wanted \subseteq AllRows
    /\ Underway /\ WalkMissesNothing
    /\ Backed /\ PageBacked

-----------------------------------------------------------------------------
(* Pages and ranks.                                                        *)

\* A multiple of a larger number is larger.
LEMMA Multiples ==
    ASSUME NEW a \in Nat, NEW b \in Nat, a <= b
    PROVE  a * PageSize <= b * PageSize
<1>1. PICK d \in Nat : b = a + d
  <2>1. b - a \in Nat /\ b = a + (b - a)
    OBVIOUS
  <2> QED BY <2>1
<1>2. b * PageSize = a * PageSize + d * PageSize
  BY <1>1, DashboardAssumption
<1>3. d * PageSize \in Nat /\ a * PageSize \in Nat /\ b * PageSize \in Nat
  BY DashboardAssumption
<1> QED BY <1>2, <1>3

\* There are as many pages as it takes to show the rows, and no more.
LEMMA PagesSuffice ==
    ASSUME NEW n \in Nat
    PROVE  /\ Pages(n) \in Nat \ {0}
           /\ n <= Pages(n) * PageSize
           /\ \A k \in Nat : k * PageSize < n <=> (k < Pages(n) /\ n # 0)
<1> USE DashboardAssumption
<1>1. CASE n = 0
  <2>1. \A k \in Nat : k * PageSize \in Nat
    OBVIOUS
  <2> QED BY <1>1, <2>1 DEF Pages
<1>2. CASE n # 0
  <2> DEFINE q == (n + PageSize - 1) \div PageSize
  <2>1. Pages(n) = q
    BY <1>2 DEF Pages
  <2>2. q \in Nat /\ q * PageSize <= n + PageSize - 1 /\ n + PageSize - 1 < (q + 1) * PageSize
    OBVIOUS
  <2> HIDE DEF q
  <2>3. (q + 1) * PageSize = q * PageSize + PageSize /\ q * PageSize \in Nat
    BY <2>2
  <2>4. n <= q * PageSize
    BY <2>2, <2>3
  <2>5. q # 0
    BY <1>2, <2>4
  <2>6. ASSUME NEW k \in Nat PROVE k * PageSize < n <=> k < q
    <3>1. k * PageSize \in Nat
      OBVIOUS
    <3>2. CASE k < q
      <4>1. (k + 1) * PageSize <= q * PageSize
        BY <2>2, <3>2, Multiples
      <4>2. (k + 1) * PageSize = k * PageSize + PageSize
        OBVIOUS
      <4> QED BY <2>2, <2>3, <3>1, <3>2, <4>1, <4>2
    <3>3. CASE k >= q
      <4>1. q * PageSize <= k * PageSize
        BY <2>2, <3>3, Multiples
      <4> QED BY <2>2, <2>3, <2>4, <3>1, <3>3, <4>1
    <3> QED BY <2>2, <3>2, <3>3
  <2> QED BY <1>2, <2>1, <2>2, <2>4, <2>5, <2>6
<1> QED BY <1>1, <1>2

\* Without a document of which there are too many, the page is cut from all rows.
LEMMA NothingCut ==
    ASSUME DashboardTypeOK, IsFiniteSet(DOMAIN leaked_data), ~ TooMany
    PROVE  Rows = AllRows
<1>1. IsFiniteSet(Candidates)
  BY FS_Subset DEF Candidates
<1>2. ASSUME NEW d \in Candidates PROVE Rank(Candidates, d) < MaxScan
  <2> DEFINE ahead == {e \in Candidates : Newer(e, d)}
  <2>1. d \notin ahead /\ ahead \subseteq Candidates
    <3>1. ~ Newer(d, d)
      <4>1. leaked_data[d].last_seen \in Nat /\ d \in Nat
        BY DashboardAssumption DEF Candidates, DashboardTypeOK
      <4> QED BY <4>1 DEF Newer
    <3> QED BY <3>1
  <2>2. /\ Cardinality(ahead) <= Cardinality(Candidates)
        /\ Cardinality(ahead) # Cardinality(Candidates)
        /\ Cardinality(ahead) \in Nat /\ Cardinality(Candidates) \in Nat
    BY <1>1, <2>1, FS_Subset, FS_CardinalityType
  <2> HIDE DEF ahead
  <2>3. Cardinality(ahead) < MaxScan
    BY <2>2, DashboardAssumption DEF TooMany
  <2> QED BY <2>3 DEF Rank, ahead
<1>3. AllRows \subseteq Candidates
  BY DEF AllRows, Candidates, IsRow
<1> QED BY <1>2, <1>3 DEF Rows, AllRows, Candidates

\* Fewer rows come before a row than there are.
LEMMA RankBelow ==
    ASSUME DashboardTypeOK, IsFiniteSet(DOMAIN leaked_data), NEW d \in AllRows
    PROVE  /\ Rank(AllRows, d) \in Nat /\ Cardinality(AllRows) \in Nat
           /\ Rank(AllRows, d) < Cardinality(AllRows)
<1> DEFINE ahead == {e \in AllRows : Newer(e, d)}
<1>1. IsFiniteSet(AllRows)
  BY FS_Subset DEF AllRows
<1>2. ~ Newer(d, d)
  <2>1. leaked_data[d].last_seen \in Nat /\ d \in Nat
    BY DashboardAssumption DEF AllRows, DashboardTypeOK
  <2> QED BY <2>1 DEF Newer
<1>3. ahead \subseteq AllRows /\ ahead # AllRows
  BY <1>2
<1>4. /\ Cardinality(ahead) \in Nat /\ Cardinality(AllRows) \in Nat
      /\ Cardinality(ahead) <= Cardinality(AllRows)
      /\ Cardinality(ahead) # Cardinality(AllRows)
  BY <1>1, <1>3, FS_Subset, FS_CardinalityType
<1> HIDE DEF ahead
<1>5. Cardinality(ahead) < Cardinality(AllRows)
  BY <1>4
<1> QED BY <1>4, <1>5 DEF Rank, ahead

-----------------------------------------------------------------------------
(* The walk.                                                               *)

\* A page that is cut from all rows shows what is due on it.
LEMMA FetchKeeps ==
    ASSUME DInv, NEW asked \in Nat \ {0}, NEW already \in SUBSET Docs,
           Fetch(asked, already), UNCHANGED db, wanted' \subseteq AllRows,
           cut' = FALSE => ~ TooMany,
           ~ upset' /\ ~ cut' =>
               /\ asked = 1 \/ Cardinality(AllRows) > (asked - 1) * PageSize
               /\ \A d \in wanted' : d \in already \/ Rank(AllRows, d) >= (asked - 1) * PageSize
    PROVE  /\ shown' \subseteq Docs /\ next' \in Nat /\ walk' \in {"on", "ended"}
           /\ Underway' /\ WalkMissesNothing' /\ (wanted \subseteq AllRows)'
<1> DEFINE page == Paginate(Rows, asked)
           pages == Pages(Cardinality(Rows))
           at == IF asked <= pages THEN asked ELSE 1
<1>1. /\ shown' = already \cup page.data_list /\ next' = page.next
      /\ walk' = IF page.next = 0 THEN "ended" ELSE "on"
  BY DEF Fetch
<1>2. /\ page.next = (IF at < pages THEN at + 1 ELSE 0)
      /\ page.data_list = {d \in Rows : Rank(Rows, d) \in
                              (at - 1) * PageSize .. (at - 1) * PageSize + PageSize - 1}
  BY DEF Paginate
<1>3. IsFiniteSet(Rows) /\ Cardinality(Rows) \in Nat /\ Rows \subseteq Docs
  <2>1. IsFiniteSet(Rows) /\ Rows \subseteq DOMAIN leaked_data
    BY FS_Subset DEF Rows, Candidates, DInv
  <2> QED BY <2>1, FS_CardinalityType DEF DInv, DashboardTypeOK
<1>4. /\ pages \in Nat \ {0} /\ Cardinality(Rows) <= pages * PageSize
      /\ \A k \in Nat : k * PageSize < Cardinality(Rows) <=> (k < pages /\ Cardinality(Rows) # 0)
  BY <1>3, PagesSuffice
<1>5. at \in Nat \ {0} /\ at <= pages
  BY <1>4
<1> HIDE DEF page, pages, at
<1>6. page.data_list \subseteq Docs /\ page.next \in Nat
  BY <1>2, <1>3, <1>4, <1>5
<1>7. AllRows' = AllRows /\ (\A d : Rank(AllRows, d)' = Rank(AllRows, d))
  BY DEF db, AllRows, Rank, Newer
<1>8. ASSUME ~ upset', ~ cut'
      PROVE  /\ next' # 0 => /\ Cardinality(AllRows) > (next' - 1) * PageSize
                             /\ \A d \in wanted' : d \in shown' \/ Rank(AllRows, d) >= (next' - 1) * PageSize
             /\ next' = 0 => wanted' \subseteq shown'
  <2>1. Rows = AllRows
    BY <1>8, NothingCut DEF DInv
  <2> DEFINE start == (asked - 1) * PageSize
             n == Cardinality(AllRows)
  <2>2. start \in Nat /\ n \in Nat
    <3>1. asked - 1 \in Nat
      OBVIOUS
    <3> QED BY <1>3, <2>1, <3>1, DashboardAssumption
  <2>3. at = asked
    <3>1. CASE asked = 1
      BY <1>4, <3>1 DEF at
    <3>2. CASE n > start
      <4>1. asked - 1 \in Nat /\ n # 0
        BY <2>2, <3>2
      <4>2. asked - 1 < pages
        BY <1>4, <2>1, <2>2, <3>2, <4>1
      <4> QED BY <1>4, <4>2 DEF at
    <3> QED BY <1>8, <3>1, <3>2
  <2>4. asked * PageSize = start + PageSize /\ PageSize \in Nat \ {0}
    BY DashboardAssumption
  <2>5. ASSUME NEW d \in wanted', d \notin shown'
        PROVE  Rank(AllRows, d) >= start + PageSize
    <3>1. d \in AllRows /\ Rank(AllRows, d) >= start
      BY <1>1, <1>8, <2>5
    <3>2. Rank(AllRows, d) \in Nat
      BY <3>1, RankBelow DEF DInv
    <3>3. Rank(AllRows, d) \notin start .. start + PageSize - 1
      BY <1>1, <1>2, <2>1, <2>3, <2>5, <3>1
    <3> HIDE DEF start
    <3> QED BY <2>2, <2>4, <3>1, <3>2, <3>3
  <2>6. CASE asked < pages
    <3>1. next' = asked + 1 /\ next' - 1 = asked /\ next' # 0
      BY <1>1, <1>2, <2>3, <2>6
    <3>2. n > asked * PageSize
      <4>1. n # 0
        <5>1. n = 0 => pages = 1
          BY <2>1 DEF pages, Pages
        <5> QED BY <1>4, <2>6, <5>1
      <4>2. asked * PageSize < n
        BY <1>4, <2>1, <2>6, <4>1
      <4>3. asked * PageSize \in Nat
        BY <2>4
      <4> HIDE DEF n
      <4> QED BY <2>2, <4>2, <4>3
    <3> QED BY <2>4, <2>5, <3>1, <3>2
  <2>7. CASE ~ (asked < pages)
    <3>1. next' = 0
      BY <1>1, <1>2, <2>3, <2>7
    <3>2. asked = pages
      BY <1>4, <1>5, <2>3, <2>7
    <3>3. n <= start + PageSize
      BY <1>4, <2>1, <2>4, <3>2
    <3>4. ASSUME NEW d \in wanted', d \notin shown' PROVE FALSE
      <4>1. Rank(AllRows, d) \in Nat /\ Rank(AllRows, d) < n
        BY RankBelow DEF DInv
      <4>2. Rank(AllRows, d) >= start + PageSize
        BY <2>5, <3>4
      <4> HIDE DEF n, start
      <4> QED BY <2>2, <2>4, <3>3, <4>1, <4>2
    <3> QED BY <3>1, <3>4
  <2> QED BY <2>6, <2>7
<1>9. Underway'
  BY <1>1, <1>6, <1>7, <1>8 DEF Underway, Due
<1>10. WalkMissesNothing'
  BY <1>1, <1>8 DEF WalkMissesNothing
<1> QED BY <1>1, <1>6, <1>7, <1>9, <1>10

\* The writing of one document leaves the walk what is due, or upsets it.
LEMMA DisturbKeeps ==
    ASSUME DInv, DashboardTypeOK', NEW e \in Docs, IsFiniteSet(DOMAIN leaked_data'),
           \A x \in DOMAIN leaked_data \ {e} :
               x \in DOMAIN leaked_data' /\ leaked_data'[x] = leaked_data[x],
           wanted' = wanted \ {e}, UNCHANGED <<next, shown, walk, cut>>, upset => upset',
           walk = "on" /\ ~ upset' /\ e \in AllRows =>
               /\ e \in AllRows'
               /\ leaked_data'[e].last_seen >= leaked_data[e].last_seen
    PROVE  (wanted \subseteq AllRows)' /\ Underway' /\ WalkMissesNothing'
<1>1. \A x \in AllRows \ {e} : x \in AllRows'
  BY DEF AllRows
<1>2. (wanted \subseteq AllRows)' /\ WalkMissesNothing'
  BY <1>1 DEF DInv, WalkMissesNothing
<1>3. ASSUME walk = "on", ~ upset', ~ cut'
      PROVE  /\ Cardinality(AllRows') > (next - 1) * PageSize
             /\ \A d \in wanted' : Due(d)'
  <2>1. AllRows \subseteq AllRows'
    BY <1>1, <1>3
  <2>2. IsFiniteSet(AllRows')
    BY FS_Subset DEF AllRows
  <2>3. /\ Cardinality(AllRows) \in Nat /\ Cardinality(AllRows') \in Nat
        /\ Cardinality(AllRows) <= Cardinality(AllRows')
    BY <2>1, <2>2, FS_Subset, FS_CardinalityType
  <2>4. (next - 1) * PageSize \in Nat
    <3>1. next - 1 \in Nat
      BY <1>3 DEF DInv, Underway
    <3> QED BY <3>1, DashboardAssumption
  <2>5. ASSUME NEW d \in wanted' PROVE Due(d)'
    <3>1. d \in wanted /\ d # e /\ d \in AllRows /\ Due(d)
      BY <1>3, <2>5 DEF DInv, Underway
    <3> DEFINE ahead == {x \in AllRows : Newer(x, d)}
               ahead2 == {x \in AllRows' : Newer(x, d)'}
    <3>2. ASSUME NEW x \in ahead PROVE Newer(x, d)'
      <4>1. /\ x \in Nat /\ d \in Nat
            /\ leaked_data[x].last_seen \in Nat /\ leaked_data[d].last_seen \in Nat
            /\ leaked_data'[d].last_seen = leaked_data[d].last_seen
        BY <3>1, DashboardAssumption DEF AllRows, DInv, DashboardTypeOK
      <4>2. leaked_data'[x].last_seen \in Nat
        BY <2>1, DashboardAssumption DEF AllRows, DashboardTypeOK
      <4>3. leaked_data'[x].last_seen >= leaked_data[x].last_seen
        <5>1. CASE x = e
          BY <1>3, <5>1
        <5>2. CASE x # e
          <6>1. leaked_data'[x] = leaked_data[x]
            BY <5>2 DEF AllRows
          <6> QED BY <4>1, <6>1
        <5> QED BY <5>1, <5>2
      <4> QED BY <3>2, <4>1, <4>2, <4>3 DEF Newer
    <3>3. ahead \subseteq ahead2 /\ ahead2 \subseteq AllRows'
      BY <2>1, <3>2
    <3>4. /\ Cardinality(ahead) \in Nat /\ Cardinality(ahead2) \in Nat
          /\ Cardinality(ahead) <= Cardinality(ahead2)
      <4>1. IsFiniteSet(ahead2)
        BY <2>2, <3>3, FS_Subset
      <4> QED BY <3>3, <4>1, FS_Subset, FS_CardinalityType
    <3>5. Rank(AllRows, d) = Cardinality(ahead) /\ Rank(AllRows, d)' = Cardinality(ahead2)
      BY DEF Rank
    <3> HIDE DEF ahead, ahead2
    <3> QED BY <2>4, <3>1, <3>4, <3>5 DEF Due
  <2>6. Cardinality(AllRows) > (next - 1) * PageSize
    BY <1>3 DEF DInv, Underway
  <2> QED BY <2>3, <2>4, <2>5, <2>6
<1>4. Underway'
  BY <1>3 DEF DInv, Underway
<1> QED BY <1>2, <1>4

-----------------------------------------------------------------------------
(* The steps.                                                              *)

\* Opening the list.
LEMMA OpenListKeeps == DInv /\ OpenList => DInv'
<1> SUFFICES ASSUME DInv, OpenList PROVE DInv'
  OBVIOUS
<1>1. /\ Fetch(1, {}) /\ wanted' = AllRows /\ upset' = FALSE /\ cut' = TooMany
      /\ UNCHANGED <<db, detail>>
  BY DEF OpenList
<1>2. ASSUME ~ upset', ~ cut', NEW d \in wanted'
      PROVE  Rank(AllRows, d) >= (1 - 1) * PageSize
  BY <1>1, RankBelow, DashboardAssumption DEF DInv
<1>3. /\ shown' \subseteq Docs /\ next' \in Nat /\ walk' \in {"on", "ended"}
      /\ Underway' /\ WalkMissesNothing' /\ (wanted \subseteq AllRows)'
  <2>1. 1 \in Nat \ {0} /\ {} \in SUBSET Docs
    OBVIOUS
  <2>2. Fetch(1, {}) /\ UNCHANGED db /\ wanted' \subseteq AllRows
    BY <1>1
  <2>3. cut' = FALSE => ~ TooMany
    BY <1>1
  <2>4. ~ upset' /\ ~ cut' =>
           \A d \in wanted' : d \in {} \/ Rank(AllRows, d) >= (1 - 1) * PageSize
    BY <1>2
  <2> QED BY <2>1, <2>2, <2>3, <2>4, FetchKeeps
<1>4. wanted' \subseteq Docs /\ cut' \in BOOLEAN /\ upset' \in BOOLEAN
  <2>1. AllRows \subseteq Docs
    BY DEF DInv, DashboardTypeOK, AllRows
  <2>2. TooMany \in BOOLEAN
    BY DEF TooMany
  <2> QED BY <1>1, <2>1, <2>2
<1>5. DashboardTypeOK'
  BY <1>1, <1>3, <1>4 DEF DInv, DashboardTypeOK, db, detail
<1> QED BY <1>1, <1>3, <1>5 DEF DInv, db, detail, Backed, PageBacked

\* Following next_url.
LEMMA FollowNextKeeps == DInv /\ FollowNext => DInv'
<1> SUFFICES ASSUME DInv, FollowNext PROVE DInv'
  OBVIOUS
<1>1. /\ walk = "on" /\ Fetch(next, shown) /\ cut' = (cut \/ TooMany)
      /\ UNCHANGED <<db, wanted, upset, detail>>
  BY DEF FollowNext
<1>2. next \in Nat \ {0} /\ shown \in SUBSET Docs /\ wanted' \subseteq AllRows
  BY <1>1 DEF DInv, Underway, DashboardTypeOK
<1>3. ~ upset' /\ ~ cut' =>
         /\ Cardinality(AllRows) > (next - 1) * PageSize
         /\ \A d \in wanted' : d \in shown \/ Rank(AllRows, d) >= (next - 1) * PageSize
  BY <1>1 DEF DInv, Underway, Due
<1>4. /\ shown' \subseteq Docs /\ next' \in Nat /\ walk' \in {"on", "ended"}
      /\ Underway' /\ WalkMissesNothing' /\ (wanted \subseteq AllRows)'
  BY <1>1, <1>2, <1>3, FetchKeeps
<1>5. cut' \in BOOLEAN
  BY <1>1 DEF DInv, DashboardTypeOK, TooMany
<1>6. DashboardTypeOK'
  BY <1>1, <1>4, <1>5 DEF DInv, DashboardTypeOK, db, detail
<1> QED BY <1>1, <1>4, <1>6 DEF DInv, db, detail, Backed, PageBacked

\* A page that fails ends the walk.
LEMMA UnavailableKeeps == DInv /\ Unavailable => DInv'
<1> SUFFICES ASSUME DInv, Unavailable PROVE DInv'
  OBVIOUS
<1>1. /\ walk' = "failed" /\ next' = 0
      /\ UNCHANGED <<db, shown, wanted, upset, cut, detail>>
  BY DEF Unavailable
<1>2. DashboardTypeOK'
  BY <1>1 DEF DInv, DashboardTypeOK, db, detail
<1>3. AllRows' = AllRows
  BY <1>1 DEF db, AllRows
<1> QED BY <1>1, <1>2, <1>3 DEF DInv, db, detail, Backed, PageBacked, Underway, WalkMissesNothing

\* The page of an event: the document first, so that the rows read after it tell of
\* its changes.
LEMMA QueryKeeps == DInv /\ Query => DInv'
<1> SUFFICES ASSUME DInv, Query PROVE DInv'
  OBVIOUS
<1>1. step \in 1 .. 3 /\ UNCHANGED <<db, list, event>>
  BY DEF Query
<1>2. /\ Queries[1] = "leaked_data" /\ Queries[2] = "leak_history" /\ Queries[3] = "alert_log"
  BY DEF Queries
<1>3. event \in Docs /\ past[event] \subseteq Change /\ leak_history[event] \subseteq Change
  BY DashboardAssumption DEF DInv, DashboardTypeOK
<1>4. CASE FindDocument
  <2>1. step = 1 /\ UNCHANGED <<history_shown, more>>
    BY <1>1, <1>2, <1>4 DEF FindDocument
  <2>2. /\ step' \in {0, 2}
        /\ past_shown' = past[event] \/ past_shown' = {}
    BY <1>4, <2>1 DEF FindDocument
  <2>3. PageBacked'
    BY <1>1, <1>3, <2>2 DEF PageBacked, db, DInv, Backed
  <2>4. DashboardTypeOK'
    BY <1>1, <1>3, <2>1, <2>2 DEF DInv, DashboardTypeOK, db, list
  <2> QED BY <1>1, <2>3, <2>4
          DEF DInv, db, list, Backed, Underway, Due, WalkMissesNothing, AllRows, Rank, Newer
<1>5. CASE FindHistory
  <2>1. step = 2 /\ step' = 3 /\ UNCHANGED past_shown
    BY <1>1, <1>2, <1>5 DEF FindHistory
  <2>2. /\ more' \in BOOLEAN /\ history_shown' \subseteq leak_history[event]
        /\ ~ more' => history_shown' = leak_history[event]
    BY <1>5 DEF FindHistory
  <2>3. PageBacked'
    BY <1>1, <2>1, <2>2 DEF PageBacked, db, DInv
  <2>4. DashboardTypeOK'
    BY <1>1, <1>3, <2>1, <2>2 DEF DInv, DashboardTypeOK, db, list
  <2> QED BY <1>1, <2>3, <2>4
          DEF DInv, db, list, Backed, Underway, Due, WalkMissesNothing, AllRows, Rank, Newer
<1>6. CASE FindAlerts
  <2>1. step = 3 /\ step' = 4 /\ UNCHANGED <<past_shown, history_shown, more>>
    BY <1>1, <1>2, <1>6 DEF FindAlerts
  <2>2. PageBacked' /\ DashboardTypeOK'
    BY <1>1, <2>1 DEF PageBacked, DInv, DashboardTypeOK, db, list
  <2> QED BY <1>1, <2>2
          DEF DInv, db, list, Backed, Underway, Due, WalkMissesNothing, AllRows, Rank, Newer
<1> QED BY <1>4, <1>5, <1>6 DEF Query

\* Opening the page of an event.
LEMMA OpenEventKeeps ==
    ASSUME DInv, NEW d \in Docs, OpenEvent(d)
    PROVE  DInv'
<1>1. /\ d \in Opened /\ step' = 1 /\ event' = d
      /\ past_shown' = {} /\ history_shown' = {} /\ more' = FALSE
      /\ UNCHANGED <<db, list>>
  BY DEF OpenEvent
<1>2. PageBacked'
  BY <1>1 DEF PageBacked
<1>3. DashboardTypeOK'
  <2>1. step' \in 0 .. 4
    BY <1>1
  <2>2. event' \in Opened /\ more' \in BOOLEAN
    BY <1>1, Zenon
  <2>3. past_shown' \subseteq Change /\ history_shown' \subseteq Change
    BY <1>1
  <2> QED BY <1>1, <2>1, <2>2, <2>3 DEF DInv, DashboardTypeOK, db, list
<1> QED BY <1>1, <1>2, <1>3
        DEF DInv, db, list, Backed, Underway, Due, WalkMissesNothing, AllRows, Rank, Newer

\* Rows of the history are deleted only into purged, and none is forgotten.
LEMMA HistoryKeeps ==
    ASSUME DInv, DashboardTypeOK', UNCHANGED detail,
           \A d \in Docs : leak_history[d] \subseteq leak_history'[d] \cup purged'[d],
           \A d \in Docs : purged[d] \subseteq purged'[d],
           \A d \in Docs : past'[d] \subseteq past[d] \cup leak_history[d] \cup purged[d]
    PROVE  Backed' /\ PageBacked'
<1>1. \A d \in Docs : leak_history[d] \cup purged[d] \subseteq leak_history'[d] \cup purged'[d]
  BY DEF DInv
<1>2. Backed'
  BY <1>1 DEF DInv, Backed
<1>3. event \in Docs /\ event' = event
  BY DashboardAssumption DEF DInv, DashboardTypeOK, detail
<1>4. PageBacked'
  BY <1>1, <1>3 DEF DInv, PageBacked, detail
<1> QED BY <1>2, <1>4

\* The steps of the writers that leave leaked_data alone.
LEMMA RowsKeep ==
    ASSUME DInv, NEW d \in Docs, PutHistory(d) \/ ExpireHistory(d)
    PROVE  DInv'
<1>1. /\ UNCHANGED <<leaked_data, past, list, detail>> /\ writes' = writes + 1
      /\ leak_history' \in [Docs -> SUBSET Change] /\ purged' \in [Docs -> SUBSET Change]
      /\ \A e \in Docs : /\ leak_history[e] \subseteq leak_history'[e] \cup purged'[e]
                         /\ purged[e] \subseteq purged'[e]
  <2>1. CASE PutHistory(d)
    <3>1. PICK c \in Contents : leak_history' = [leak_history EXCEPT ![d] = @ \cup {ChangeTo(d, c)}]
      BY <2>1 DEF PutHistory
    <3>2. ChangeTo(d, c) \in Change
      BY <2>1 DEF PutHistory, ChangeTo, Change, DInv, DashboardTypeOK
    <3> QED BY <2>1, <3>1, <3>2 DEF PutHistory, Writes, DInv, DashboardTypeOK
  <2>2. CASE ExpireHistory(d)
    <3>1. PICK old \in SUBSET leak_history[d] :
             /\ leak_history' = [leak_history EXCEPT ![d] = @ \ old]
             /\ purged' = [purged EXCEPT ![d] = @ \cup old]
      BY <2>2 DEF ExpireHistory
    <3> QED BY <2>2, <3>1 DEF ExpireHistory, Writes, DInv, DashboardTypeOK
  <2> QED BY <2>1, <2>2
<1>2. DashboardTypeOK'
  BY <1>1 DEF DInv, DashboardTypeOK, list, detail
<1>3. Backed' /\ PageBacked'
  BY <1>1, <1>2, HistoryKeeps
<1> QED BY <1>1, <1>2, <1>3
        DEF DInv, list, Underway, Due, WalkMissesNothing, AllRows, Rank, Newer

\* What Put makes of leaked_data.
LEMMA PutTyped ==
    ASSUME DInv, NEW d \in Docs, NEW c \in Contents, NEW t \in Times, Put(d, c, t)
    PROVE  /\ DOMAIN leaked_data' \subseteq Docs /\ IsFiniteSet(DOMAIN leaked_data')
           /\ \A e \in DOMAIN leaked_data' :
                 leaked_data'[e] \in [content : Contents, last_seen : Times]
           /\ \A e \in DOMAIN leaked_data \ {d} :
                 e \in DOMAIN leaked_data' /\ leaked_data'[e] = leaked_data[e]
           /\ d \in DOMAIN leaked_data'
           /\ leaked_data'[d] = [content |-> c, last_seen |-> t]
<1>1. DOMAIN leaked_data' = DOMAIN leaked_data \cup {d}
  BY DEF Put
<1>2. IsFiniteSet(DOMAIN leaked_data')
  BY <1>1, FS_AddElement DEF DInv
<1> QED BY <1>1, <1>2 DEF Put, DInv, DashboardTypeOK

\* A new document.
LEMMA InsertKeeps ==
    ASSUME DInv, NEW d \in Docs, Insert(d)
    PROVE  DInv'
<1>1. PICK c \in Contents, t \in Times : Put(d, c, t)
  BY DEF Insert
<1>2. /\ d \notin DOMAIN leaked_data /\ past' = [past EXCEPT ![d] = {}]
      /\ writes' = writes + 1 /\ wanted' = wanted \ {d}
      /\ upset' = (upset \/ (walk = "on" /\ FALSE))
      /\ UNCHANGED <<next, shown, walk, cut, leak_history, purged, detail>>
  BY DEF Insert, Writes, Disturbs
<1>3. DashboardTypeOK'
  <2>1. upset' = upset /\ writes' \in Nat /\ wanted' \subseteq Docs
    BY <1>2 DEF DInv, DashboardTypeOK
  <2>2. past' \in [Docs -> SUBSET Change]
    BY <1>2 DEF DInv, DashboardTypeOK
  <2> QED BY <1>1, <1>2, <2>1, <2>2, PutTyped DEF DInv, DashboardTypeOK, detail
<1>4. (wanted \subseteq AllRows)' /\ Underway' /\ WalkMissesNothing'
  <2>1. d \notin AllRows
    BY <1>2 DEF AllRows
  <2> QED BY <1>1, <1>2, <1>3, <2>1, PutTyped, DisturbKeeps
<1>5. Backed' /\ PageBacked'
  <2>1. \A e \in Docs : past'[e] \subseteq past[e]
    BY <1>2 DEF DInv, DashboardTypeOK
  <2> QED BY <1>2, <1>3, <2>1, HistoryKeeps
<1> QED BY <1>1, <1>3, <1>4, <1>5, PutTyped DEF DInv

\* An observation of a document there is.
LEMMA ObserveKeeps ==
    ASSUME DInv, NEW d \in Docs, Observe(d)
    PROVE  DInv'
<1>1. PICK c \in Contents, t \in Times :
         /\ \/ UNCHANGED past
            \/ /\ ChangeTo(d, c) \in leak_history[d] \cup purged[d]
               /\ past' = [past EXCEPT ![d] = @ \cup {ChangeTo(d, c)}]
         /\ Put(d, c, t)
         /\ Disturbs(d, /\ IsRow(leaked_data[d].content)
                        /\ ~ IsRow(c) \/ t < leaked_data[d].last_seen)
  BY DEF Observe
<1>2. /\ d \in DOMAIN leaked_data /\ writes' = writes + 1 /\ wanted' = wanted \ {d}
      /\ upset' = (upset \/ (walk = "on" /\ IsRow(leaked_data[d].content)
                                         /\ (~ IsRow(c) \/ t < leaked_data[d].last_seen)))
      /\ UNCHANGED <<next, shown, walk, cut, leak_history, purged, detail>>
  BY <1>1 DEF Observe, Writes, Disturbs
<1>3. past' \in [Docs -> SUBSET Change]
  BY <1>1 DEF DInv, DashboardTypeOK
<1>4. upset' \in BOOLEAN
  BY <1>2 DEF DInv, DashboardTypeOK
<1>5. DashboardTypeOK'
  <2>1. writes' \in Nat /\ wanted' \subseteq Docs
    BY <1>2 DEF DInv, DashboardTypeOK
  <2>2. /\ DOMAIN leaked_data' \subseteq Docs
        /\ \A e \in DOMAIN leaked_data' :
              leaked_data'[e] \in [content : Contents, last_seen : Times]
    BY <1>1, PutTyped
  <2>3. UNCHANGED <<next, shown, walk, cut, leak_history, purged, detail>>
    BY <1>2
  <2> HIDE <1>1, <1>2
  <2> QED BY <1>3, <1>4, <2>1, <2>2, <2>3 DEF DInv, DashboardTypeOK, detail
<1>6. (wanted \subseteq AllRows)' /\ Underway' /\ WalkMissesNothing'
  <2>1. t \in Nat /\ leaked_data[d].last_seen \in Nat
    BY <1>2, DashboardAssumption DEF DInv, DashboardTypeOK
  <2>2. walk = "on" /\ ~ upset' /\ d \in AllRows => IsRow(c) /\ ~ (t < leaked_data[d].last_seen)
    BY <1>2 DEF AllRows
  <2>3. /\ d \in DOMAIN leaked_data' /\ leaked_data'[d] = [content |-> c, last_seen |-> t]
    BY <1>1, PutTyped
  <2>4. walk = "on" /\ ~ upset' /\ d \in AllRows =>
           /\ d \in AllRows'
           /\ leaked_data'[d].last_seen >= leaked_data[d].last_seen
    BY <2>1, <2>2, <2>3 DEF AllRows
  <2> QED BY <1>1, <1>2, <1>5, <2>4, PutTyped, DisturbKeeps
<1>7. Backed' /\ PageBacked'
  <2>1. \A e \in Docs : past'[e] \subseteq past[e] \cup leak_history[e] \cup purged[e]
    BY <1>1 DEF DInv, DashboardTypeOK
  <2> QED BY <1>2, <1>5, <2>1, HistoryKeeps
<1> QED BY <1>1, <1>5, <1>6, <1>7, PutTyped DEF DInv

\* A document that retention deletes.
LEMMA ExpireKeeps ==
    ASSUME DInv, NEW d \in Docs, Expire(d)
    PROVE  DInv'
<1>1. /\ leaked_data' = [e \in DOMAIN leaked_data \ {d} |-> leaked_data[e]]
      /\ d \in DOMAIN leaked_data /\ writes' = writes + 1 /\ wanted' = wanted \ {d}
      /\ upset' = (upset \/ (walk = "on" /\ IsRow(leaked_data[d].content)))
      /\ UNCHANGED <<next, shown, walk, cut, past, leak_history, purged, detail>>
  BY DEF Expire, Writes, Disturbs
<1>2. IsFiniteSet(DOMAIN leaked_data')
  BY <1>1, FS_Subset DEF DInv
<1>3. upset' \in BOOLEAN
  BY <1>1 DEF DInv, DashboardTypeOK
<1>4. DashboardTypeOK'
  BY <1>1, <1>3 DEF DInv, DashboardTypeOK, detail
<1>5. (wanted \subseteq AllRows)' /\ Underway' /\ WalkMissesNothing'
  <2>1. ~ (walk = "on" /\ ~ upset' /\ d \in AllRows)
    BY <1>1 DEF AllRows
  <2> QED BY <1>1, <1>2, <1>4, <2>1, DisturbKeeps
<1>6. Backed' /\ PageBacked'
  BY <1>1, <1>4, HistoryKeeps
<1> QED BY <1>2, <1>4, <1>5, <1>6 DEF DInv

\* At first no page is open.
LEMMA DashboardInitInvariant == DashboardInit => DInv
<1> SUFFICES ASSUME DashboardInit PROVE DInv
  OBVIOUS
<1>1. PICK contents \in [DOMAIN Stored -> Contents] :
         leaked_data = [d \in DOMAIN Stored |->
                           [content |-> contents[d], last_seen |-> Stored[d]]]
  BY DEF DashboardInit
<1>2. DashboardTypeOK
  <2>1. /\ DOMAIN leaked_data \subseteq Docs
        /\ \A d \in DOMAIN leaked_data :
              leaked_data[d] \in [content : Contents, last_seen : Times]
    BY <1>1, DashboardAssumption
  <2>2. /\ past \in [Docs -> SUBSET Change] /\ purged \in [Docs -> SUBSET Change]
        /\ leak_history \in [Docs -> SUBSET Change]
    BY DEF DashboardInit
  <2>3. /\ upset \in BOOLEAN /\ cut \in BOOLEAN /\ more \in BOOLEAN
    BY DEF DashboardInit
  <2>4. /\ writes \in Nat /\ next \in Nat /\ step \in 0 .. 4 /\ event \in Opened
    BY DEF DashboardInit
  <2>5. /\ shown \subseteq Docs /\ wanted \subseteq Docs
        /\ walk \in {"none", "on", "ended", "failed"}
        /\ past_shown \subseteq Change /\ history_shown \subseteq Change
    BY DEF DashboardInit
  <2> QED BY <2>1, <2>2, <2>3, <2>4, <2>5 DEF DashboardTypeOK
<1>3. IsFiniteSet(DOMAIN leaked_data)
  BY <1>1, DashboardAssumption
<1>4. Underway /\ WalkMissesNothing /\ wanted \subseteq AllRows
  BY DEF DashboardInit, Underway, WalkMissesNothing
<1>5. Backed /\ PageBacked
  BY DEF DashboardInit, Backed, PageBacked
<1> QED BY <1>2, <1>3, <1>4, <1>5 DEF DInv

\* The invariant holds throughout.
LEMMA DashboardInvariance == DashboardSpec => []DInv
<1>1. DInv /\ [DashboardNext]_dashboard => DInv'
  <2> SUFFICES ASSUME DInv, [DashboardNext]_dashboard PROVE DInv'
    OBVIOUS
  <2>1. ASSUME NEW d \in Docs, OpenEvent(d) \/ Writer(d) PROVE DInv'
    BY <2>1, OpenEventKeeps, InsertKeeps, RowsKeep, ObserveKeeps, ExpireKeeps DEF Writer
  <2>2. CASE OpenList \/ FollowNext \/ Unavailable \/ Query
    BY <2>2, OpenListKeeps, FollowNextKeeps, UnavailableKeeps, QueryKeeps
  <2>3. CASE UNCHANGED dashboard
    BY <2>3 DEF dashboard, db, list, detail, DInv, DashboardTypeOK, Backed, PageBacked,
                Underway, Due, WalkMissesNothing, AllRows, Rank, Newer
  <2> QED BY <2>1, <2>2, <2>3 DEF DashboardNext
<1> QED BY <1>1, DashboardInitInvariant, PTL DEF DashboardSpec

\* The variables of the dashboard have their types (DashboardTypeOK).
THEOREM DashboardTypes == DashboardSpec => []DashboardTypeOK
<1>1. DInv => DashboardTypeOK
  BY DEF DInv
<1> QED BY <1>1, DashboardInvariance, PTL

\* A walk from the first page to the last passes over no row that was there all
\* the time, unless a row left or moved back (WalkMissesNothing).
THEOREM WalksMissNothing == DashboardSpec => []WalkMissesNothing
<1>1. DInv => WalkMissesNothing
  BY DEF DInv
<1> QED BY <1>1, DashboardInvariance, PTL

\* The page of an event has a history row of every change of the version it shows
\* (ChangesAreExplained).
THEOREM PagesAreExplained == DashboardSpec => []ChangesAreExplained
<1>1. DInv => ChangesAreExplained
  BY DEF DInv, PageBacked, ChangesAreExplained
<1> QED BY <1>1, DashboardInvariance, PTL
==============================================================================
