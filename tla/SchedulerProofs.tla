---------------------------- MODULE SchedulerProofs ----------------------------
(***************************************************************************)
(* Theorems about Scheduler, for any list of sources, any interval and     *)
(* timeout, and any suspensions of the machine.                            *)
(***************************************************************************)
EXTENDS Scheduler, TLAPS

\* A crawl belongs to an instance of its job, and only on Windows is there an instance
\* without one.
CrawledIsBusy ==
    /\ \A c \in crawls : c.module \in busy
    /\ Held # {} => Windows

\* A job that was not suspended and has yet to run for the first time.
FirstRun(m) ==
    m \notin busy /\ since[m] + until[m] <= (Len(Active) - 1) * Stagger

\* A job that has run runs, or is skipped, whole intervals after it was due.
Regular(m) ==
    \E k \in Nat, late \in 0 .. Grace :
        /\ since[m] + until[m] + late = k * Interval
        /\ k * Interval <= Longest

\* A job that was held, and has yet to run again.
Released(m) == m \notin busy /\ since[m] + until[m] <= Interval

\* As long as the machine is awake a crawl is as old as its job's last run.
OnTime ==
    \A m \in Modules \ napped :
        /\ until[m] >= 0
        /\ m \notin Held => FirstRun(m) \/ Regular(m) \/ Released(m)
        /\ \A c \in crawls : c.module = m => c.age = since[m]

\* A job that has run is due within an interval.
NextIsNear == \A m \in busy : until[m] <= Interval

IInv == TypeOK /\ CrawledIsBusy /\ OneCrawlPerSource /\ OnTime /\ NextIsNear

-----------------------------------------------------------------------------
(* Arithmetic.                                                             *)

\* A multiple of a larger number is larger.
LEMMA Monotone ==
    ASSUME NEW a \in Nat, NEW b \in Nat, NEW c \in Nat, a <= b
    PROVE  a * c <= b * c
<1>1. PICK d \in Nat : b = a + d
  <2>1. b - a \in Nat /\ b = a + (b - a)
    OBVIOUS
  <2> QED BY <2>1
<1>2. b * c = a * c + d * c
  BY <1>1
<1>3. d * c \in Nat /\ a * c \in Nat
  OBVIOUS
<1> QED BY <1>2, <1>3

\* The remainder of a division by the interval.
LEMMA Remainder ==
    ASSUME NEW t \in Int
    PROVE  t % Interval \in 0 .. Interval - 1
BY SchedulerAssumption

\* No time passes between a run that is due and its start.
LEMMA NoRemainder == (- 0) % Interval = 0
BY SchedulerAssumption

\* A run that finds its predecessor busy is followed by one within the bound.
LEMMA NextWithinBound ==
    ASSUME NEW k \in Nat, k * Interval <= Timeout + Grace
    PROVE  (k + 1) * Interval <= Longest
<1> DEFINE q == (Timeout + Grace) \div Interval
<1>1. q \in Nat /\ Timeout + Grace < (q + 1) * Interval
  BY SchedulerAssumption
<1>2. k <= q
  <2> SUFFICES ASSUME k > q PROVE FALSE
    BY <1>1
  <2>1. (q + 1) * Interval <= k * Interval
    BY <1>1, Monotone, SchedulerAssumption
  <2> HIDE DEF q
  <2> QED BY <1>1, <2>1, SchedulerAssumption
<1>3. (k + 1) * Interval <= (q + 1) * Interval
  BY <1>1, <1>2, Monotone, SchedulerAssumption
<1> QED BY <1>3 DEF Longest

\* The first interval is within the bound.
LEMMA OneWithinBound == Longest \in Nat /\ Interval <= Longest
<1>1. (0 + 1) * Interval <= Longest
  BY NextWithinBound, SchedulerAssumption
<1>2. (Timeout + Grace) \div Interval \in Nat
  BY SchedulerAssumption
<1> QED BY <1>1, <1>2, SchedulerAssumption DEF Longest

-----------------------------------------------------------------------------
(* The invariant.                                                          *)

\* What the steps below need of the assumptions and the types.
LEMMA Constants ==
    /\ Interval \in Nat \ {0} /\ Timeout \in Nat /\ Grace \in Nat /\ Stagger \in Nat
    /\ Naps \subseteq Nat /\ Len(Active) \in Nat /\ Longest \in Nat
BY SchedulerAssumption, OneWithinBound

\* The first runs are staggered; there are no crawls yet.
LEMMA InitInvariant == Init => IInv
<1> SUFFICES ASSUME Init PROVE IInv
  OBVIOUS
<1>1. ASSUME NEW m \in Modules
      PROVE  /\ until[m] \in Nat
             /\ until[m] <= (Len(Active) - 1) * Stagger
  <2> DEFINE i == CHOOSE i \in DOMAIN Active : Active[i] = m
  <2>1. i \in DOMAIN Active
    BY DEF Modules
  <2>2. i - 1 \in Nat /\ Len(Active) - 1 \in Nat /\ i - 1 <= Len(Active) - 1
    BY <2>1, SchedulerAssumption
  <2>3. until[m] = (i - 1) * Stagger
    BY DEF Init
  <2> HIDE DEF i
  <2> QED BY <2>2, <2>3, Monotone, Constants
<1>2. TypeOK
  <2> DEFINE e(m) == ((CHOOSE i \in DOMAIN Active : Active[i] = m) - 1) * Stagger
  <2>0. until = [m \in Modules |-> e(m)]
    BY DEF Init
  <2> HIDE DEF e
  <2>1. until = [m \in Modules |-> until[m]]
    BY <2>0
  <2>2. until \in [Modules -> Int]
    BY <1>1, <2>1
  <2> QED BY <2>2 DEF Init, TypeOK
<1>3. OnTime
  <2> SUFFICES ASSUME NEW m \in Modules PROVE until[m] >= 0 /\ FirstRun(m)
    BY DEF OnTime, Init
  <2>1. since[m] = 0 /\ m \notin busy
    BY DEF Init
  <2> QED BY <1>1, <2>1 DEF FirstRun
<1> QED BY <1>2, <1>3 DEF IInv, CrawledIsBusy, OneCrawlPerSource, NextIsNear, Held, Init

\* The ways a crawl and its job end leave one process less.
LEMMA EndKeeps ==
    ASSUME IInv, NEW c \in crawls, crawls' = crawls \ {c}, busy' = busy \ {c.module},
           UNCHANGED <<until, since, napped, naps>>
    PROVE  IInv'
<1>1. TypeOK'
  BY DEF IInv, TypeOK
<1>2. \A d \in crawls' : d \in crawls /\ d.module # c.module
  BY DEF IInv, OneCrawlPerSource
<1>3. Held' = Held
  <2>1. c.module \notin Held
    BY DEF Held
  <2>2. \A m : m # c.module => ((\A d \in crawls : d.module # m)
                                  <=> (\A d \in crawls' : d.module # m))
    OBVIOUS
  <2> QED BY <2>1, <2>2 DEF Held
<1>4. CrawledIsBusy' /\ NextIsNear'
  BY <1>2, <1>3 DEF IInv, CrawledIsBusy, NextIsNear
<1>5. OneCrawlPerSource'
  BY <1>2 DEF IInv, OneCrawlPerSource
<1>6. OnTime'
  BY <1>2, <1>3 DEF IInv, OnTime, FirstRun, Regular, Released
<1> QED BY <1>1, <1>4, <1>5, <1>6 DEF IInv

\* A kill whose job has to wait for the browser.
LEMMA HoldKeeps ==
    ASSUME IInv, NEW c \in crawls, crawls' = crawls \ {c}, Windows,
           UNCHANGED <<until, busy, since, napped, naps>>
    PROVE  IInv'
<1>1. TypeOK' /\ NextIsNear'
  BY DEF IInv, TypeOK, NextIsNear
<1>2. \A d \in crawls' : d \in crawls
  OBVIOUS
<1>3. CrawledIsBusy' /\ OneCrawlPerSource'
  BY <1>2 DEF IInv, CrawledIsBusy, OneCrawlPerSource
<1>4. Held \subseteq Held'
  BY <1>2 DEF Held
<1>5. OnTime'
  BY <1>2, <1>4 DEF IInv, OnTime, FirstRun, Regular, Released
<1> QED BY <1>1, <1>3, <1>5 DEF IInv

\* A job that was held is released.
LEMMA ReleaseKeeps ==
    ASSUME IInv, NEW m \in Modules, BrowserEnds(m)
    PROVE  IInv'
<1>1. /\ m \in Held /\ m \in busy /\ busy' = busy \ {m}
      /\ since' = [since EXCEPT ![m] = 0]
      /\ UNCHANGED <<until, crawls, napped, naps>>
      /\ \A c \in crawls : c.module # m
  BY DEF BrowserEnds, Held
<1>2. TypeOK' /\ NextIsNear' /\ OneCrawlPerSource'
  BY <1>1 DEF IInv, TypeOK, NextIsNear, OneCrawlPerSource
<1>3. Held' = Held \ {m}
  BY <1>1 DEF Held
<1>4. CrawledIsBusy'
  BY <1>1, <1>3 DEF IInv, CrawledIsBusy
<1>5. OnTime'
  <2> SUFFICES ASSUME NEW n \in Modules, n \notin napped
               PROVE  /\ until[n] >= 0
                      /\ n \notin Held' => FirstRun(n)' \/ Regular(n)' \/ Released(n)'
                      /\ \A c \in crawls : c.module = n => c.age = since'[n]
    BY <1>1 DEF OnTime
  <2>1. CASE n = m
    <3>1. since'[m] = 0 /\ until'[m] <= Interval /\ until[m] \in Int /\ m \notin busy'
      BY <1>1 DEF IInv, TypeOK, NextIsNear
    <3>2. Released(m)'
      BY <1>1, <3>1, Constants DEF Released
    <3> QED BY <1>1, <2>1, <3>2 DEF IInv, OnTime
  <2>2. CASE n # m
    <3>1. since'[n] = since[n] /\ (n \in busy' <=> n \in busy)
      BY <1>1, <2>2 DEF IInv, TypeOK
    <3> QED BY <1>1, <1>3, <2>2, <3>1 DEF IInv, OnTime, FirstRun, Regular, Released
  <2> QED BY <2>1, <2>2
<1> QED BY <1>2, <1>4, <1>5 DEF IInv

\* A job that is due.
LEMMA FireKeeps ==
    ASSUME IInv, NEW m \in Modules, Fire(m)
    PROVE  IInv'
<1> DEFINE late == (- until[m]) % Interval
           runs == m \notin busy /\ late <= Grace
           crawl == [module |-> m, phase |-> "config", age |-> 0]
<1>1. late \in 0 .. Interval - 1
  BY Remainder DEF IInv, TypeOK
<1>2. /\ until[m] <= 0
      /\ until' = [until EXCEPT ![m] = Interval - late]
      /\ busy' = IF runs THEN busy \cup {m} ELSE busy
      /\ crawls' = IF runs THEN crawls \cup {crawl} ELSE crawls
      /\ since' = IF runs THEN [since EXCEPT ![m] = 0] ELSE since
      /\ napped' = IF runs THEN napped \ {m} ELSE napped
      /\ naps' = naps
  BY DEF Fire
<1>3. m \notin napped => until[m] = 0 /\ late = 0
  BY <1>2, NoRemainder DEF IInv, OnTime, TypeOK
<1> HIDE DEF late
<1>4. TypeOK'
  <2>1. crawl \in Crawl
    BY Constants DEF Crawl, Phases
  <2>2. until' \in [Modules -> Int]
    BY <1>1, <1>2, Constants DEF IInv, TypeOK
  <2>3. since' \in [Modules -> Nat]
    BY <1>2 DEF IInv, TypeOK
  <2> QED BY <1>2, <2>1, <2>2, <2>3 DEF IInv, TypeOK
<1>5. CrawledIsBusy' /\ Held' = Held
  <2>1. CASE runs
    <3>1. busy' = busy \cup {m} /\ crawls' = crawls \cup {crawl} /\ crawl.module = m
      BY <1>2, <2>1
    <3> HIDE DEF crawl
    <3>2. Held' = Held
      BY <2>1, <3>1 DEF Held
    <3> QED BY <3>1, <3>2 DEF IInv, CrawledIsBusy
  <2>2. CASE ~ runs
    BY <1>2, <2>2 DEF IInv, CrawledIsBusy, Held
  <2> QED BY <2>1, <2>2
<1>6. NextIsNear'
  <2>1. \A n \in busy' : n # m => n \in busy /\ until'[n] = until[n]
    BY <1>2 DEF IInv, TypeOK
  <2>2. until'[m] <= Interval
    BY <1>1, <1>2, Constants DEF IInv, TypeOK
  <2> QED BY <2>1, <2>2 DEF IInv, NextIsNear
<1>7. OneCrawlPerSource'
  BY <1>2 DEF IInv, CrawledIsBusy, OneCrawlPerSource
<1>8. OnTime'
  <2> SUFFICES ASSUME NEW n \in Modules, n \notin napped'
               PROVE  /\ until'[n] >= 0
                      /\ n \notin Held => FirstRun(n)' \/ Regular(n)' \/ Released(n)'
                      /\ \A c \in crawls' : c.module = n => c.age = since'[n]
    BY <1>5 DEF OnTime
  <2>1. CASE n # m
    <3>1. n \notin napped
      BY <1>2, <2>1
    <3>2. until'[n] = until[n] /\ since'[n] = since[n] /\ (n \in busy' <=> n \in busy)
      BY <1>2, <2>1 DEF IInv, TypeOK
    <3>3. \A c \in crawls' : c.module = n => c \in crawls
      BY <1>2, <2>1
    <3> QED BY <3>1, <3>2, <3>3 DEF IInv, OnTime, FirstRun, Regular, Released
  <2>2. CASE n = m /\ runs
    <3>1. until'[n] = Interval - late /\ since'[n] = 0
      BY <1>2, <2>2 DEF IInv, TypeOK
    <3>2. \A c \in crawls' : c.module = n => c = crawl
      BY <1>2, <2>2 DEF IInv, CrawledIsBusy
    <3>3. 1 \in Nat /\ late \in 0 .. Grace /\ 1 * Interval <= Longest
          /\ since'[n] + until'[n] + late = 1 * Interval
      BY <1>1, <2>2, <3>1, OneWithinBound, Constants
    <3>4. Regular(n)'
      BY <3>3 DEF Regular
    <3> QED BY <1>1, <3>1, <3>2, <3>4, Constants
  <2>3. CASE n = m /\ ~ runs
    <3>1. m \notin napped /\ until[m] = 0 /\ late = 0
      BY <1>2, <1>3, <2>3
    <3>2. m \in busy
      BY <2>3, <3>1, Constants
    <3>3. until'[m] = Interval /\ since'[m] = since[m]
      BY <1>2, <2>3, <3>1, Constants DEF IInv, TypeOK
    <3>4. \A d \in crawls' : d \in crawls
      BY <1>2, <2>3
    <3>5. ASSUME m \notin Held PROVE Regular(m)'
      <4>1. PICK c \in crawls : c.module = m
        BY <3>2, <3>5 DEF Held
      <4>2. since[m] <= Timeout
        BY <3>1, <4>1, Constants DEF IInv, OnTime, TypeOK, Crawl
      <4>3. Regular(m)
        BY <3>1, <3>2, <3>5 DEF IInv, OnTime, FirstRun, Released
      <4>4. PICK k \in Nat, l \in 0 .. Grace : since[m] + until[m] + l = k * Interval
        BY <4>3 DEF Regular
      <4>5. since[m] \in Nat /\ k * Interval <= Timeout + Grace
        BY <3>1, <4>2, <4>4, Constants DEF IInv, TypeOK
      <4>6. (k + 1) * Interval <= Longest
        BY <4>5, NextWithinBound
      <4>7. (k + 1) * Interval = k * Interval + Interval
        BY Constants
      <4>8. since'[m] + until'[m] + l = (k + 1) * Interval
        BY <3>1, <3>3, <4>4, <4>5, <4>7, Constants
      <4> QED BY <4>6, <4>8 DEF Regular
    <3> QED BY <2>3, <3>1, <3>3, <3>4, <3>5, Constants DEF IInv, OnTime
  <2> QED BY <2>1, <2>2, <2>3
<1> QED BY <1>4, <1>5, <1>6, <1>7, <1>8 DEF IInv

\* A crawl goes on.
LEMMA CrawlKeeps ==
    ASSUME IInv, NEW c \in crawls, CrawlStep(c)
    PROVE  IInv'
<1>1. PICK p \in After[c.phase] : crawls' = (crawls \ {c}) \cup {[c EXCEPT !.phase = p]}
  BY DEF CrawlStep
<1> DEFINE d == [c EXCEPT !.phase = p]
<1>2. c \in Crawl /\ c.phase # "exited"
  BY DEF IInv, TypeOK, CrawlStep
<1>3. d \in Crawl /\ d.module = c.module /\ d.age = c.age
  BY <1>1, <1>2 DEF Crawl, Phases, After
<1> HIDE DEF d
<1>4. UNCHANGED <<until, busy, since, napped, naps>> /\ crawls' = (crawls \ {c}) \cup {d}
  BY <1>1 DEF CrawlStep, d
<1>5. TypeOK'
  BY <1>3, <1>4 DEF IInv, TypeOK
<1>6. Held' = Held
  BY <1>3, <1>4 DEF Held
<1>7. CrawledIsBusy' /\ OneCrawlPerSource' /\ NextIsNear'
  BY <1>3, <1>4, <1>6 DEF IInv, CrawledIsBusy, OneCrawlPerSource, NextIsNear
<1>8. OnTime'
  BY <1>3, <1>4, <1>6 DEF IInv, OnTime, FirstRun, Regular, Released
<1> QED BY <1>5, <1>7, <1>8 DEF IInv

\* Time passes for the jobs and the crawls alike.
LEMMA TickKeeps == IInv /\ Tick => IInv'
<1> SUFFICES ASSUME IInv, Tick PROVE IInv'
  OBVIOUS
<1>1. /\ \A m \in Modules :
            /\ until'[m] = until[m] - 1
            /\ since'[m] = IF m \in Held THEN 0 ELSE since[m] + 1
      /\ busy' = busy /\ napped' = napped /\ naps' = naps
      /\ crawls' = {[c EXCEPT !.age = c.age + 1] : c \in crawls}
  BY DEF Tick
<1>2. \A m \in Modules : until[m] \in Int /\ until[m] > 0 /\ since[m] \in Nat
  BY DEF Tick, Idle, IInv, TypeOK
<1>3. \A d \in crawls' : \E c \in crawls :
         /\ d = [c EXCEPT !.age = c.age + 1] /\ d \in Crawl
         /\ d.module = c.module /\ d.age = c.age + 1
  <2> SUFFICES ASSUME NEW c \in crawls
               PROVE  LET d == [c EXCEPT !.age = c.age + 1]
                      IN d \in Crawl /\ d.module = c.module /\ d.age = c.age + 1
    BY <1>1
  <2>1. c \in Crawl /\ c.age < Timeout
    BY DEF Tick, Idle, IInv, TypeOK
  <2> QED BY <2>1, Constants DEF Crawl
<1>4. \A c \in crawls : \E d \in crawls' : d.module = c.module
  <2> SUFFICES ASSUME NEW c \in crawls
               PROVE  [c EXCEPT !.age = c.age + 1].module = c.module
    BY <1>1
  <2> QED BY DEF IInv, TypeOK, Crawl
<1>5. TypeOK'
  <2>1. until' \in [Modules -> Int] /\ since' \in [Modules -> Nat]
    BY <1>2 DEF Tick
  <2> QED BY <1>1, <1>3, <2>1 DEF IInv, TypeOK
<1>6. Held' = Held
  <2>1. \A m : (\A c \in crawls : c.module # m) <=> (\A d \in crawls' : d.module # m)
    BY <1>3, <1>4
  <2> QED BY <1>1, <2>1 DEF Held
<1>7. NextIsNear'
  BY <1>1, <1>2, Constants DEF IInv, TypeOK, NextIsNear
<1>8. CrawledIsBusy'
  BY <1>1, <1>3, <1>6 DEF IInv, CrawledIsBusy
<1>9. OneCrawlPerSource'
  BY <1>3 DEF IInv, OneCrawlPerSource
<1>10. OnTime'
  <2> SUFFICES ASSUME NEW m \in Modules, m \notin napped
               PROVE  /\ until'[m] >= 0
                      /\ m \notin Held => FirstRun(m)' \/ Regular(m)' \/ Released(m)'
                      /\ \A c \in crawls' : c.module = m => c.age = since'[m]
    BY <1>1, <1>6 DEF OnTime
  <2>1. m \notin Held => since'[m] + until'[m] = since[m] + until[m]
    BY <1>1, <1>2
  <2>2. m \notin Held => FirstRun(m)' \/ Regular(m)' \/ Released(m)'
    BY <1>1, <2>1 DEF IInv, OnTime, FirstRun, Regular, Released
  <2>3. \A c \in crawls' : c.module = m => c.age = since'[m]
    <3> SUFFICES ASSUME NEW d \in crawls', d.module = m PROVE d.age = since'[m]
      OBVIOUS
    <3>1. PICK c \in crawls : c.module = m /\ d.age = c.age + 1
      BY <1>3
    <3>2. m \notin Held
      BY <3>1 DEF Held
    <3> QED BY <1>1, <3>1, <3>2 DEF IInv, OnTime
  <2> QED BY <1>1, <1>2, <2>2, <2>3
<1> QED BY <1>5, <1>7, <1>8, <1>9, <1>10 DEF IInv

\* A suspension spares no job.
LEMMA SuspendKeeps == IInv /\ Suspend => IInv'
<1> SUFFICES ASSUME IInv, Suspend PROVE IInv'
  OBVIOUS
<1>1. PICK n \in Naps : /\ until' = [m \in Modules |-> until[m] - n]
                        /\ since' = [m \in Modules |-> since[m] + n]
  BY DEF Suspend
<1>2. n \in Nat
  BY Constants
<1>3. until' \in [Modules -> Int] /\ since' \in [Modules -> Nat]
  BY <1>1, <1>2 DEF IInv, TypeOK
<1>4. TypeOK'
  BY <1>3 DEF IInv, TypeOK, Suspend
<1>5. busy' = busy /\ crawls' = crawls /\ napped' = Modules
  BY DEF Suspend
<1>6. NextIsNear'
  BY <1>1, <1>2, <1>5, Constants DEF IInv, TypeOK, NextIsNear
<1>7. CrawledIsBusy' /\ OneCrawlPerSource'
  BY <1>5 DEF IInv, CrawledIsBusy, Held, OneCrawlPerSource
<1>8. OnTime'
  BY <1>5 DEF OnTime
<1> QED BY <1>4, <1>6, <1>7, <1>8 DEF IInv

\* Init, every step of the scheduler and a stuttering step keep the invariant.
LEMMA Invariance == Spec => []IInv
<1>1. Init => IInv
  BY InitInvariant
<1>2. IInv /\ [Next]_vars => IInv'
  <2> SUFFICES ASSUME IInv, [Next]_vars PROVE IInv'
    OBVIOUS
  <2>1. ASSUME NEW m \in Modules, Fire(m) PROVE IInv'
    BY <2>1, FireKeeps
  <2>2. ASSUME NEW m \in Modules, NotStarted(m) PROVE IInv'
    <3>1. PICK c \in crawls : c.module = m /\ crawls' = crawls \ {c}
      BY <2>2 DEF NotStarted
    <3> QED BY <2>2, <3>1, EndKeeps DEF NotStarted
  <2>3. ASSUME NEW c \in crawls, Ended(c) PROVE IInv'
    BY <2>3, EndKeeps DEF Ended
  <2>4. ASSUME NEW m \in Modules, BrowserEnds(m) PROVE IInv'
    BY <2>4, ReleaseKeeps
  <2>5. ASSUME NEW c \in crawls, TimeoutExpired(c) PROVE IInv'
    BY <2>5, EndKeeps, HoldKeeps DEF TimeoutExpired
  <2>6. ASSUME NEW c \in crawls, CrawlStep(c) PROVE IInv'
    BY <2>6, CrawlKeeps
  <2>7. CASE Tick
    BY <2>7, TickKeeps
  <2>8. CASE Suspend
    BY <2>8, SuspendKeeps
  <2>9. CASE UNCHANGED vars
    <3>1. Held' = Held
      BY <2>9 DEF vars, Held
    <3> QED BY <2>9, <3>1 DEF vars, IInv, TypeOK, CrawledIsBusy, OneCrawlPerSource, OnTime,
                              FirstRun, Regular, Released, NextIsNear
  <2> QED BY <2>1, <2>2, <2>3, <2>5, <2>6, <2>7, <2>8, <2>9, <2>4 DEF Next
<1> QED BY <1>1, <1>2, PTL DEF Spec

-----------------------------------------------------------------------------
\* A source is never crawled by two processes at a time (OneCrawlPerSource),
\* whatever the timeout, the interval and the suspensions.
THEOREM OneCrawlAtATime == Spec => []OneCrawlPerSource
<1>1. IInv => OneCrawlPerSource
  BY DEF IInv
<1> QED BY <1>1, Invariance, PTL

\* A job that is not held has run recently.
LEMMA RunsRecently ==
    ASSUME IInv, NEW m \in Modules \ (napped \cup Held)
    PROVE  Recent(m)
<1>1. since[m] \in Nat /\ until[m] \in Int /\ until[m] >= 0
  BY DEF IInv, TypeOK, OnTime
<1>2. CASE FirstRun(m)
  <2>1. (Len(Active) - 1) * Stagger \in Int
    BY Constants
  <2> QED BY <1>1, <1>2, <2>1 DEF FirstRun, Recent
<1>3. CASE Regular(m)
  <2>1. PICK k \in Nat, late \in 0 .. Grace :
           since[m] + until[m] + late = k * Interval /\ k * Interval <= Longest
    BY <1>3 DEF Regular
  <2>2. k * Interval \in Nat
    BY Constants
  <2> QED BY <1>1, <2>1, <2>2, Constants DEF Recent
<1>4. CASE Released(m)
  BY <1>1, <1>4, OneWithinBound, Constants DEF Released, Recent
<1> QED BY <1>2, <1>3, <1>4 DEF IInv, OnTime

\* The time between two runs of a source stays within the bound (GapBounded)
\* however its crawler hangs, but for the time a browser holds its job.
THEOREM GapsAreBounded == Spec => []GapBounded
<1>1. IInv => GapBounded
  BY RunsRecently DEF GapBounded
<1> QED BY <1>1, Invariance, PTL

\* Where subprocess.run does not wait for the output of a crawler it has killed, no
\* job is ever held, and the bound is one for every source.
THEOREM GapsElsewhere ==
    ASSUME ~ Windows
    PROVE  Spec => [](\A m \in Modules \ napped : Recent(m))
<1>1. IInv => \A m \in Modules \ napped : Recent(m)
  BY RunsRecently DEF IInv, CrawledIsBusy
<1> QED BY <1>1, Invariance, PTL
===============================================================================
