------------------------------- MODULE Scheduler -------------------------------
(***************************************************************************)
(* The scheduler (src/scheduler/scheduler.py): a job for each active       *)
(* source, which runs a crawler as a process of its own and kills it after *)
(* a timeout, and that process (crawl_page and run_main of                 *)
(* src/crawling/common.py).                                                *)
(*                                                                         *)
(* Time passes in units.  The scheduler acts at once when a job is due, a  *)
(* crawler has ended, or its time is up, but the machine may be suspended: *)
(* the clock jumps, and timeouts do not count it.  The jobs are run as     *)
(* APScheduler runs them with coalesce, max_instances and                  *)
(* misfire_grace_time.                                                     *)
(*                                                                         *)
(* The platform matters where a crawler is killed: on Windows, for which   *)
(* the README gives its commands (README.md:162-193), subprocess.run reads *)
(* the output to its end after the kill, with no timeout, and the          *)
(* chromedriver the kill spares has inherited the pipes.  Elsewhere it     *)
(* waits for the crawler alone.                                            *)
(***************************************************************************)
EXTENDS Integers, Sequences

CONSTANTS
    Active,     \* the modules of the active sources, in their order
    Interval,   \* CRAWLER_INTERVAL_MINUTES
    Timeout,    \* CRAWLER_TIMEOUT_SECONDS
    Grace,      \* misfire_grace_time
    Stagger,    \* the 15 seconds between the first runs
    Windows,    \* whether it runs on Windows
    Naps,       \* how long the machine may be suspended
    MaxNaps     \* bound: times it is

Modules == {Active[i] : i \in DOMAIN Active}

ASSUME SchedulerAssumption ==
    /\ Active \in Seq(Modules) /\ \A i, j \in DOMAIN Active : Active[i] = Active[j] => i = j
    /\ Interval \in Nat \ {0} /\ Timeout \in Nat \ {0}
    /\ Grace \in Nat /\ Stagger \in Nat
    /\ Windows \in BOOLEAN
    /\ Naps \subseteq Nat /\ MaxNaps \in Nat

VARIABLES
    until,    \* of each job: the time until its next run, which may be past
    busy,     \* the jobs that have an instance running
    crawls,   \* the crawlers' processes: module, phase, and time it has run
    since,    \* of each job: the time since it last ran or was held (history)
    napped,   \* the jobs that were not run since the machine was suspended (history)
    naps      \* suspensions so far

vars == <<until, busy, crawls, since, napped, naps>>

Phases == {"config", "browser", "page", "closed", "mongo", "exited"}
Crawl == [module : Modules, phase : Phases, age : 0 .. Timeout]

TypeOK ==
    /\ until \in [Modules -> Int]
    /\ busy \subseteq Modules
    /\ crawls \subseteq Crawl
    /\ since \in [Modules -> Nat]
    /\ napped \subseteq Modules
    /\ naps \in Nat

\* The n-th job runs first n times fifteen seconds after the start.
Init ==
    /\ until = [m \in Modules |-> ((CHOOSE i \in DOMAIN Active : Active[i] = m) - 1) * Stagger]
    /\ busy = {} /\ crawls = {}
    /\ since = [m \in Modules |-> 0]
    /\ napped = {} /\ naps = 0

-----------------------------------------------------------------------------
(* The jobs.  A kill spares the browser, which then runs on without its    *)
(* crawler; those that no job waits for are not counted.                   *)

\* The jobs that wait for a browser which outlives its crawler.
Held == {m \in busy : \A c \in crawls : c.module # m}

\* Mutant: the interval begins when the crawler's time is up.
FireAfterTimeout(m) ==
    /\ until[m] <= 0
    /\ LET late == (- until[m]) % Interval
           runs == m \notin busy /\ late <= Grace
       IN /\ until' = [until EXCEPT ![m] = Interval + Timeout - late]
          /\ busy' = IF runs THEN busy \cup {m} ELSE busy
          /\ crawls' = IF runs THEN crawls \cup {[module |-> m, phase |-> "config", age |-> 0]}
                               ELSE crawls
          /\ since' = IF runs THEN [since EXCEPT ![m] = 0] ELSE since
          /\ napped' = IF runs THEN napped \ {m} ELSE napped
    /\ UNCHANGED naps

\* Of the runs that are due only the last is run (coalesce), unless the one
\* before it is not done (max_instances) or it is too late (misfire_grace_time).
Fire(m) ==
    /\ until[m] <= 0
    /\ LET late == (- until[m]) % Interval
           runs == m \notin busy /\ late <= Grace
       IN /\ until' = [until EXCEPT ![m] = Interval - late]
          /\ busy' = IF runs THEN busy \cup {m} ELSE busy
          /\ crawls' = IF runs THEN crawls \cup {[module |-> m, phase |-> "config", age |-> 0]}
                               ELSE crawls
          /\ since' = IF runs THEN [since EXCEPT ![m] = 0] ELSE since
          /\ napped' = IF runs THEN napped \ {m} ELSE napped
    /\ UNCHANGED naps

\* run_crawler finds no module or file, or cannot start a process.
NotStarted(m) ==
    /\ \E c \in crawls :
          /\ c.module = m /\ c.phase = "config" /\ c.age = 0
          /\ crawls' = crawls \ {c}
    /\ busy' = busy \ {m}
    /\ UNCHANGED <<until, since, napped, naps>>

Ended(c) ==
    /\ c.phase = "exited"
    /\ crawls' = crawls \ {c}
    /\ busy' = busy \ {c.module}
    /\ UNCHANGED <<until, since, napped, naps>>

\* Mutant: the process is left to itself.
AbandonAfterTimeout(c) ==
    /\ c.phase # "exited" /\ c.age = Timeout
    /\ busy' = busy \ {c.module}
    /\ UNCHANGED <<until, crawls, since, napped, naps>>

\* subprocess.run kills the process, waits for its end, and raises; or, on Windows,
\* waits on for the end of the output that a browser still holds open.
TimeoutExpired(c) ==
    /\ c.phase # "exited" /\ c.age = Timeout
    /\ crawls' = crawls \ {c}
    /\ \/ busy' = busy \ {c.module}
       \/ Windows /\ c.phase \in {"browser", "page"} /\ UNCHANGED busy
    /\ UNCHANGED <<until, since, napped, naps>>

\* The browser ends, by somebody's hand or by itself; subprocess.run raises.
BrowserEnds(m) ==
    /\ m \in Held
    /\ busy' = busy \ {m}
    /\ since' = [since EXCEPT ![m] = 0]
    /\ UNCHANGED <<until, crawls, napped, naps>>

-----------------------------------------------------------------------------
(* A crawler: its settings, the browser, the page, the parsing without the *)
(* browser, the database.  Any call may fail or take as long as it likes.  *)

After == [config |-> {"browser", "exited"}, browser |-> {"page", "exited"},
          page |-> {"closed", "exited"}, closed |-> {"mongo", "exited"}, mongo |-> {"exited"}]

CrawlStep(c) ==
    /\ c.phase # "exited"
    /\ \E p \in After[c.phase] : crawls' = (crawls \ {c}) \cup {[c EXCEPT !.phase = p]}
    /\ UNCHANGED <<until, busy, since, napped, naps>>

-----------------------------------------------------------------------------
\* Nothing is left for the scheduler to do at this moment.
Idle ==
    /\ \A m \in Modules : until[m] > 0
    /\ \A c \in crawls : c.phase # "exited" /\ c.age < Timeout

Tick ==
    /\ Idle
    /\ until' = [m \in Modules |-> until[m] - 1]
    /\ crawls' = {[c EXCEPT !.age = c.age + 1] : c \in crawls}
    /\ since' = [m \in Modules |-> IF m \in Held THEN 0 ELSE since[m] + 1]
    /\ UNCHANGED <<busy, napped, naps>>

Suspend ==
    /\ naps < MaxNaps
    /\ \E n \in Naps :
          /\ until' = [m \in Modules |-> until[m] - n]
          /\ since' = [m \in Modules |-> since[m] + n]
    /\ napped' = Modules
    /\ naps' = naps + 1
    /\ UNCHANGED <<busy, crawls>>

Next ==
    \/ \E m \in Modules : Fire(m) \/ NotStarted(m) \/ BrowserEnds(m)
    \/ \E c \in crawls : Ended(c) \/ TimeoutExpired(c) \/ CrawlStep(c)
    \/ Tick \/ Suspend

Spec == Init /\ [][Next]_vars

-----------------------------------------------------------------------------
\* A source is never crawled by two processes at a time, whatever its crawler
\* does, how long it takes, or how late its job is; save_records relies on it
\* (scheduler.py:76-94, 128-130).
OneCrawlPerSource == \A c, d \in crawls : c.module = d.module => c = d

\* However its crawler hangs, a source is crawled again after as many intervals
\* as the timeout takes and one more: jobs that find the one before unfinished
\* are skipped, not queued (scheduler.py:85, 141-152).  A run may have begun late,
\* and a suspension may cost one more.  Only a browser that outlives its crawler and
\* holds its job keeps a source from being crawled, for as long as it lives.
Longest == ((Timeout + Grace) \div Interval + 1) * Interval

Recent(m) == since[m] <= Longest \/ since[m] <= (Len(Active) - 1) * Stagger

GapBounded == \A m \in Modules \ (napped \cup Held) : Recent(m)
===============================================================================
