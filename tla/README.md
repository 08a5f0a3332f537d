# Verification of threat-intel-darkweb-monitor

TLA+ models of the monitor, checked with TLC and, where it matters most, proved
with TLAPS.  The monitor crawls leak sites of ransomware groups, keeps one
current document per event and a history of its changes in MongoDB, turns the
inserts into alerts that it sends to Telegram, deletes old data, and shows the
rest on a dashboard and in Elasticsearch.

What the parts have in common is the difficulty: they are separate processes
that share nothing but MongoDB collections, without transactions, and each of
them may be killed, restarted or run twice.  All that holds them together are
the filters of single updates, unique indices, deterministic identifiers and
`$setOnInsert`.  The models keep every database call as an action of its own.

Line numbers refer to the files under `src/`.

## 1. The system

| part | state | operations | interacts with |
|---|---|---|---|
| Crawlers (`crawling/*_crawler.py`, `common.py`) | none of their own | read a page, build records, `save_records`, exit | event storage; started and killed by the scheduler |
| Event storage (`crawling/storage.py`, `models.py`) | `leaked_data` (current documents, unique `event_key`), `leak_history` | `save_record`, `_find_existing`, `_update_existing` | its inserts are the change stream of the watcher; retention deletes from both collections |
| Scheduler (`scheduler/scheduler.py`, `governance/sources.py`) | one job per active source, `max_instances=1`, `coalesce` | run a crawler with a timeout, skip or merge late runs | starts and kills crawls |
| Alert watcher (`alert/service.py`: `watch_forever`, `reserve`, `convert_change`) | `alert_state.resume_token`, `alert_log` rows | open the stream, reserve, save the token, deliver, reconnect | reads the change stream and `leaked_data`; retention deletes from `alert_log` |
| Alert delivery (`alert/service.py`: `deliver`, `retry_due`, `due_query`) | `status`, `attempt_count`, claim and lease of each row | expire, claim, send, acknowledge | Telegram; other watcher processes through `alert_log` |
| Risk and message text (`alert/risk.py`) | none | classify, format | called by `convert_change` |
| Retention (`governance/retention.py`, `scripts/apply_retention.py`) | locals of a run | count expired documents, delete, audit | deletes from the three collections while all others write |
| Audit log (`governance/audit.py`, `django_controls.py`) | `audit.jsonl` and its rotated files | append an event, rotate | written by the dashboard and by retention, each a process of its own |
| Audit review (`governance/audit_review.py`) | none | count the events of a window against thresholds | reads the files while they are written and renamed |
| Dashboard (`DjangoProject`) | none | the list, page by page; the page of one event | reads all collections, a query at a time |
| ELK set-up (`elk/setup.py`, `http.py`) | templates, indices, data views in Elasticsearch and Kibana | idempotent creation | other set-ups of the same prefix |
| ELK fixture (`elk/e2e.py`) | one synthetic event in three collections | seed, update, verify | Monstache |
| Monstache projection (`monstache/project_document.js`) | none | project a document | Elasticsearch |
| Pipeline check (`elk/verify.py`) | none | compare the counts of MongoDB and Elasticsearch | both, while they are written |
| Policy and checks (`governance/policy.py`, `runtime.py`, `scripts/check_*`) | none | stateless checks | settings |

Hard behaviours, by part, and what makes the part correct:

* **Delivery.**  Several watchers race for a row; leases run out under slow
  owners; a send that timed out may have arrived; replies get lost; processes
  die between the claim and the acknowledgement.  Correct if attempts are
  counted before anything is sent and stay within the budget, a row says SENT
  only when Telegram has accepted a message, verdicts are final, a claim is
  ended by its owner or after its lease, two workers do not send one alert at
  once, and every alert is settled in the end.
* **Watcher.**  Any exception reconnects from the saved token; the token is
  shared by all watchers; the oplog may have lost what follows it; a change may
  be unreadable, unwanted or hold a credential.  Correct if the token never
  passes a change without a durable row, decisions are not taken twice as long as
  their row is there, and the watcher is not stuck.
* **Event storage.**  Up to six calls per record, the history written before
  the current document, identities that are promoted when a URL becomes
  known, v1 documents without a key, several crawls of a source, kills.
  Correct if an event has one document under its own key, every change has had its
  row written and every row its change, a known URL is not lost, and an entry
  at rest is stored in the end.
* **Retention.**  Counting and deleting are separate; writers refresh
  documents in between; runs may overlap, fail half way or die.  Correct if
  only what is old when it is deleted goes, and the audit log tells what went.
* **ELK set-up.**  A script of some twenty requests against two services
  without transactions, run by hand, possibly twice at once or with the wrong
  database, while Monstache creates indices by writing to them.  Correct if a
  prefix has one owner, PASS means that everything is there, and a rerun
  completes what was begun.
* **Scheduler.**  A crawler may hang, fail or outlast its interval; the machine
  may sleep.  Correct if a source is never crawled by two processes, and is
  crawled again within a bounded time.
* **ELK fixture and pipeline check.**  A revision is three writes without a
  transaction; scripts die, are repeated and overlap; a verification reads some
  ten documents one after the other while they change.  Correct if a revision
  has its rows, revisions come in order, PASS says what it means, and the
  procedure can be brought to its end.
* **Audit log and review.**  Two processes rotate the same files, a rename at a
  time; a process goes on writing to a file that another has renamed; the review
  lists files and then reads them.  Correct if a reported breach is one, and a
  breach is reported unless files were renamed meanwhile.
* **Dashboard.**  A walk through the pages cuts each page from the rows of its
  own moment; the page of an event is three queries.  Correct if a row that
  stays is not passed over, and a shown version is explained by the history
  shown with it.

The hazards, each at its line, are in `PROJECT.json`.

## 2. Modules

| module | what it is |
|---|---|
| `AlertDelivery` | delivery of rows by several watchers, call by call, with leases and a clock |
| `AlertContract` | what delivery promises, without processes, leases or time; `AlertDelivery` implements it |
| `AlertWatcher` | from the change stream to a reserved row and a saved token |
| `EventStorage` | `save_records` by several crawlers of a source, call by call |
| `EventContract` | what storage promises, without crawlers, searches or failures; `EventStorage` implements it when crawls run one at a time |
| `Retention` | overlapping runs of the retention tool beside the writers |
| `ElkSetup` | overlapping set-ups of one prefix in Elasticsearch and Kibana, request by request |
| `ElkFixture` | the end-to-end fixture and the pipeline check, by overlapping scripts, beside Monstache |
| `AuditLog` | several processes that write to and rotate one log, beside a review of it |
| `Dashboard` | a walk through the list and the page of an event, beside the writers |
| `Scheduler` | jobs, timeouts and crawlers of the sources, and a clock that may jump |
| `MC...` | instances for TLC: constants, symmetry |
| `...Proofs` | theorems about the module named before `Proofs`; `ReaderProofs` is about `AuditLog` and `Dashboard` |

`AlertDelivery` and `AlertWatcher` split `alert/service.py` between them.  They
meet in the row: in `AlertWatcher` a reserved row has its first status and is
not touched until retention deletes it (a delivery only takes its time), in `AlertDelivery` a row comes
into being by `reserve` in any order and any number of times, which allows all
that the watcher does.  `EventStorage` leads to the changes `AlertWatcher`
inserts into its log.  `Scheduler` shows that one crawl of a source runs at a time
(`OneCrawlPerSource`), which is the assumption `OneAtATime` under which `EventStorage`
keeps its contract, and which `Dashboard` takes for its writers; a second
crawler in `EventStorage` stands for one started by hand.  `AuditLog` takes what
`Retention` emits as the entries of one of its writers.

### AlertDelivery

`logs` is `alert_log`; a row has the five fields delivery decides by.  Per
worker, `pc` is where it is in `watch_forever`, `todo` the batch of `retry_due`
or the change it has just reserved, `task` the locals of `deliver`.  `claims`
numbers the claim tokens (the code draws uuid4s, which do not repeat), `wire`
and `delivered` are Telegram's side: a message leaves with the claim, and is
accepted or lost at any later time, also after a timeout of its sender.

| code | action |
|---|---|
| `reserve` with `$setOnInsert` (214-219) | `reserve` |
| `retry_due`, its query and limit (267-269) | `retry_due` |
| `deliver`: `now` read (230) | `ReadClock` |
| first update, exhausted leases become FAILED (231-236) | `ExpireLease` |
| `find_one_and_update` (237-244) | `Claim`, `NothingToClaim` |
| the send and its timeout (246-258) | `SendSucceeds`, `SendRaises` |
| acknowledgement with the ownership filter (249-265) | `AcknowledgeFailure`, `AcknowledgeSent` |
| `PyMongoError`, lost replies, crash and restart | `MongoError`, `ReplyLost`, `Crash`, `Restart` |

Time is a number.  `Stall` bounds how long after reading the clock the last
call that uses it may be made, `SendTimeout` is the `wait_for` bound (0.8 of
the lease).  `Tick` does not pass the deadline of a worker that is in a call;
this is what makes `Stall` and `SendTimeout` bounds.  A clock with nothing
ahead of it that any guard compares with does not move; the states left out
differ from those kept only in the time of day.

### AlertWatcher

`log` is the oplog's inserts, `oldest` its first entry still there, a resume
token the place of a change in it.  `pc`, `token`, `position` and `row` are the
locals of `watch_forever` and `reserve`.  `streamed` and `skipped` are history
variables: what a stream has yielded, and what a stream opened without a token
has passed over; `expired` has the changes whose row retention has deleted.  A change says what the code tells apart: collection, alert
identity, document, and whether `convert_change` can read it, whether the
policy wants it and whether an identifier holds a credential.

| code | action |
|---|---|
| find the token, unset a malformed one (307-320) | `FindToken`, `DiscardToken` |
| `watch`, with or without `resume_after` (321-326) | `OpenStream` |
| code 286, token too old (344-353) | `ResetToken` |
| `retry_due`, `try_next` (327-333) | `RetryDue`, `TryNext` |
| `reserve`: prior row (174-176), conversion and quarantine (177-213), upsert (214-219) | `FindPrior`, `Convert`, `Reserve` |
| save the token (334-340), `deliver` (340-341) | `Checkpoint`, `Deliver` |
| other exceptions (342-362) | `Fails`, `Reconnect` |
| `leaked_data`, `leak_history` inserts; the oplog | `Insert`, `LogRollsOver` |
| retention: `leaked_data` by `last_seen`, `alert_log` by `updated_at` (retention.py:92-95) | `ExpireEvent`, `ExpireAlert` |

Retention may delete a row at any moment (the time it grants is configured, down to
a day).  A change that is met again after that finds no prior row and is decided
anew, which `DecidedOnce` does not forbid: it says that a row stays as it is until
it expires, and that a change which the token and all watchers have passed
(`Passed`) is not met again, whatever token is reset and whoever restarts.

### EventStorage

`leaked_data` maps the ids that exist to documents; `leak_history` is the set
of rows (a row's `_id` is a digest of exactly the fields the model's row has, so
a repeated change repeats the row).  Per crawler, `pc` is the call it makes
next, `existing` the document as it was read.  A text is a value or `Unknown`:
normalisation makes equal what the model takes as equal; `body` stands for the
metadata that do not identify a company.  `inserted`, `moved` and `expired` (the rows
that retention has deleted) are history variables for the properties; `Written` are
the rows that are there or have expired.

| code | action |
|---|---|
| `save_records`, one record after the other (233-240) | `save_records`, `save_record`, `AllSaved` |
| `_find_existing`: by key, by `_id`, by scan (137-156) | `FindByKey`, `FindById`, `FindByScan` |
| `_update_existing`: effective metadata, owner check, row, update (174-206) | `Found`, `CheckOwner`, `RecordChange`, `UpdateCurrent` |
| upsert of a new document, second lookup when it collides (212-230) | `Insert` |
| timeout of the scheduler, crash, database error | `Killed` |
| retention: `leaked_data` by `last_seen`, `leak_history` by `changed_at`, each without the other (retention.py:92-95) | `ExpireEvent`, `ExpireRow` |
| exceptions of `save_record` end the crawl (`common.py` 166-194) | `Fail` |

`Contract` maps this state to that of `EventContract`: the contents of `leaked_data`
are `current`, `inserted` is `added`, `Written` is `announced`, `leak_history` is
`rows`, and a crawler between its row and its update (`Pending`) has the change
`underway`.  An event that is observed again and again outlives its rows, which have
a time limit of their own (data_handling.md:140-141), so neither the contract nor
`HistoryExplains` promises that the row of a current content is still there: they
promise that it was written.

The order of a page's records is left open (a page is a set).  The
`IdentityConflict` of `FindByKey` (storage.py:140-141) cannot be reached in the
model's runs: a document under the key of a URL or a name is compatible with a
record that has the same; the branch is kept because the code has it.

### Retention

`store` holds the three collections; a document has the two timestamps its
collection's rule names.  A timestamp is a day, `Missing` or `Invalid`.  Per
run, `place` is the collection it is at, `report` what it counted, `erased`
what it deleted, `audit` its events.

| code | action |
|---|---|
| wrong confirmation or settings | `Refuse` |
| `execute_retention` start, `now` read once (80-87) | `Start` |
| `inspect_retention`, one count per collection (59-69) | `inspect_retention` |
| `delete_many` with the query (92-95), the audit event (96-97) | `Delete`, `Record` |
| result (98-99); errors (100-102) and `main`'s second report | `Finish`, `Fails`, `Report` |
| a failing deletion may have removed any part of what matched; crash | `Fails`, `Dies` |
| writers of the three collections | `Write` |

### ElkSetup

`template`, `index` and `views` are the services' state per collection.  A
mapping is the database its `_meta` names, or `Alien` if `mapping_matches` would
accept it for no database; a data view is one of five sorts that `view_matches`
and Kibana's unique ids and names tell apart.  Per set-up, `pc` is the request
it makes next and `kind` the place in the loop; `passed` remembers every PASS.

| code | action |
|---|---|
| `wait_until` (51, 73) | `Ready`, `KibanaReady` |
| ownership check before any write (53-55) | `Check` |
| PUT template; look; PUT index, its 400 and 409; verify (57-71) | `Template`, `Look`, `Create`, `Verify` |
| `find_view` by id (27-32), by title (33-47) | `Find`, `List` |
| POST, its 409 and the second `find_view` (78-85) | `Post`, `FindAgain` |
| `ElkError`, lost replies, FAIL; the script is run again | `Fails`, `RunAgain` |
| Monstache creates an index; a user makes a view | `AutoCreate`, `MakeView` |

The services are modelled from what the code expects of them: an index gets
the mapping of the template of that moment, an id is refused with 409, and a
name with 400 (mappings.py:58-60); when both apply Kibana may answer either.
Nobody deletes anything.

### ElkFixture

`event` is the `observation_count` of the one synthetic event, `rows` the history
rows and alerts there are (a row is its kind and revision, its contents follow from
that and are never rewritten), `copied` and `copies` what Elasticsearch has.  Per
script, `pc` is the call it makes next, `seen` what it has read, `place` the
document or kind it compares.  `quiet` is a history variable: the checks since
whose start nobody has written.  `Written`, `Projection` and `Compared` say which
fields the fixture writes, Monstache's script keeps and the verification compares.

| code | action |
|---|---|
| `seed`: the event (e2e.py:41-50) | `SeedEvent` |
| `current` (34-38), and what each command accepts | `LookCurrent`, `Acceptable` |
| history row, alert, and last the event, matched as it was read (54-101) | `PutHistory`, `PutAlert`, `PutEvent` |
| `verify_once`, document by document (119-146) | `FindEvent`, `GetDocument` |
| `check_once`, count by count (verify.py:14-24) | `CountMongo`, `CompareCount` |
| `wait_until`: again, or FAIL (http.py:78-89) | `Mismatch` |
| the script is run; dies or raises | `Start`, `Fails` |
| Monstache, with `project_document.js` | `CopyEvent`, `CopyRow`, `Projection` |

### AuditLog

A record is its entry, its time and the file it was written to; files are
numbered as they are made, and `names` says which file has which suffix now.  Per
writer, `phase` is what its handler does next and `handle` the file it has open,
whatever that is called by now.  The review has `todo`, the suffixes it has yet
to read, `counts`, and as history variables `counted`, `before` (what there was
when it began) and `moved` (whether a file was renamed since).

| code | action |
|---|---|
| `protected_view`, logins, logouts (django_controls.py:14-68) | `Response`, `Result`, `Visited`, `LoginSuccess`, ... |
| `make_record`, `emit` (audit.py:30-49, 90-97) | `Emit` |
| `RotatingFileHandler`: open, size, renames, write | `Open`, `CheckSize`, `Rotate`, `Append1` |
| `handleError` (61-67) | `Fallback` |
| `audit_paths` (audit_review.py:49-62) | `ListRotated`, `ListCurrent` |
| `review`, file by file (65-136) | `ReadFile`, `Counts`, `Tally` |
| the report and its breaches (138-149) | `Report`, `Breached` |

`RotatingFileHandler` is Python's; its rotation is modelled as it is on POSIX,
where a rename does not disturb who has the file open.

### Dashboard

`leaked_data` has what the search and the risk rules tell apart of each document,
and its `last_seen`; the list's order is a relation (`Newer`), a document's place in
it the number of those before (`Rank`), and a page the documents of certain ranks.
`past` has the changes a document has gone through, `leak_history` its rows.  A walk
is `next`, `shown` and `cut` (a page said that there are more than `MaxScan`
candidates); `wanted` and `upset` are history variables.

| code | action |
|---|---|
| `fetch_dashboard`, `paginate` (dashboard.py:116-132, 218-259) | `OpenList`, `FollowNext`, `Fetch`, `Paginate` |
| `DashboardUnavailable` (views.py:25-28) | `Unavailable` |
| `fetch_detail`, query by query (306-332) | `OpenEvent`, `FindDocument`, `FindHistory`, `FindAlerts` |
| `classify_risk` (risk.py:47-80) | `Rules`, `Classify` |
| inserts, history rows, updates, retention | `Insert`, `PutHistory`, `Observe`, `Expire`, `ExpireHistory` |

### Scheduler

`until` is the time until a job's next run, which is in the past after the machine
slept; `busy` the jobs with an instance running, `crawls` the processes with their
phase and age.  Wall-clock time and the monotonic clock of `subprocess` differ by
the suspensions.  `since` and `napped` are history variables.

`Windows` says how `subprocess.run` treats the output of a process it kills after a
timeout.  There it reads it to its end, and chromedriver, which Selenium starts with
inherited handles on Windows, holds it open: the job is `Held` until the browser ends
(`BrowserEnds`).  The repository's commands are for PowerShell (README.md:162-193), so
the run has `Windows = TRUE`; the theorems are about both.

| code | action |
|---|---|
| `build_scheduler`: jobs, stagger, `coalesce`, `max_instances`, `misfire_grace_time` (scheduler.py:124-160) | `Init`, `Fire` |
| `run_crawler`: early returns, return code, `TimeoutExpired` (62-121) | `NotStarted`, `Ended`, `TimeoutExpired` |
| a crawl: settings, browser, page, parsing, database (common.py:110-194) | `CrawlStep`, `After` |
| the browser of a killed crawler ends | `BrowserEnds` |
| time, suspension of the machine | `Tick`, `Suspend` |

## 3. Runs

Every property of a passing run has a mutant in `PROJECT.json`: a change of the
model as a plausible bug would make it, which TLC finds to violate the
property in the same run.

| run | instance | shows |
|---|---|---|
| `delivery` | 2 workers, 1 alert, 2 attempts, lease 4, send 2, stall 1, 2 faults | two workers never send the same alert at once if calls and send fit in the lease |
| `delivery_slow` | the same, lease 2, stall 3: claims expire under their owners | attempts counted and bounded, SENT means delivered, final verdicts, claims ended by owners or after the lease, refinement of `AlertContract` |
| `delivery_live` | 1 worker, 2 alerts, batch 1, 2 faults, fairness | every reserved alert is settled, and sent unless the faults used up its attempts |
| `watcher` | 2 watchers, 5 kinds of changes, log of 2, 2 faults, fairness | the token covers what has or had a row, no second decision while the row is there or the change is passed, every change reserved in the end |
| `storage` | 2 crawlers, 4 ids, pages of one company edited and unnamed, one v1 document, 1 fault | one document per event, all contents inserted or announced by a row |
| `storage_one` | 1 crawler, two v1 documents of one company, namesake, anonymous and relisted entries, 2 faults, fairness | refinement of `EventContract`, no false rows, URL kept, pages at rest stored |
| `retention` | 2 overlapping runs, 3 collections of one id, 1 fault, days 0 to 2 | only old documents go, events are exact, at most one deletion is untold |
| `elk_setup` | 2 set-ups, for one database or two, one view by a user, 1 fault, fairness | one owner of the prefix, PASS is complete and stays so, the owner passes in the end |
| `elk_fixture` | any command of the procedure beside a second updating script, any number of deaths, fairness | revisions have their rows and come in order, PASS is true, the procedure comes to its end |
| `audit` | 2 writers, 3 records, a file a record, 2 backups, 1 fault, a review at any time | reported breaches are real, and complete if no file moved |
| `dashboard` | 3 events, two of one time, and a fourth to come, 2 a page, at most 3 scanned, 1 history row shown, 3 writes | a walk misses no row that stays, a shown version is explained by its history |
| `scheduler` | 2 sources, interval 4, timeout 5, suspensions of 2 and 7, on Windows | one crawl per source, bounded time between two but for held jobs |

### Bounds, and why they are enough

* *Two processes* (workers, watchers, crawlers, runs): what goes wrong here is
  between one process and another that acts in between; a third finds the
  database in a state two can produce.  The proofs below hold for any number.
* *One alert* in the safety runs: rows are independent, no filter or update
  spans two.  `delivery_live` has two, for the batch limit of `retry_due`,
  which is their only competition.
* *Two attempts*: a first that is not the last, and the last, which the code
  treats differently (`ExpireLease`).
* *MaxFaults* counts crashes, errors, lost replies, failed sends and, in `storage` and
  `storage_one`, the documents and rows that expire, together.
  Two allow a fault in the recovery from a fault, and as many as an alert has
  attempts.
* *Horizon*: far enough for all attempts with their leases and pauses in
  `delivery_live` (30, not reached before all is settled); in the safety runs a
  bound of depth.
* *Two changes in the log* of `watcher`: one before and one after the token.
* *One id per collection* in `retention`: documents of a collection do not
  interact in its queries; the day bound lets a document be younger than,
  exactly, and older than its limit.  A run stamped in the future (day 3) is
  reached by no clock.
* *One view by a user* in `elk_setup`: views of different kinds do not interact,
  and the five sorts meet the set-ups at every point of the race.
* *Three revisions* in `elk_fixture` are all the code has.  Scripts die as often
  as they like; the second one updates to revision 2, so that it can read before
  and write after each of the first one's calls.
* *One record a file* in `audit`, so that three records take the log through two
  rotations and make it remove a file; thresholds of 1 and 2 are met and missed.
  The one fault is a failed write or a clock set back by up to the window and more.
* *Pages of two and a scan limit of three* in `dashboard`, with three rows and one
  to come: a full last page, a part of one, and one candidate too many.  Three
  writes can shift a row over a page's edge, take one away, and bring one back.  Two
  rows of one time are told apart by their ids only; a history limit of one is met and
  passed.
* *Interval 4, timeout 5* in `scheduler`: a hanging crawler makes its job skip a
  run.  A suspension of 2 is within an interval, one of 7 passes over a run; two
  of them meet.  The state space is finite without a horizon, as ages stop at the
  timeout and jobs run.
* Symmetry is used only in runs without liveness, over processes (and alerts).

### Fairness, and why the code justifies it

* `AlertDelivery`: `WF(Work(w))`, each worker goes on, since every await of
  the loop has a timeout, and a dead process is restarted by its supervisor;
  a message on the wire arrives or is lost; `SF(Tick)`, time does not
  stop although workers' deadlines disable it again and again.
* `AlertWatcher`: `WF(Watch(w))`, for the same reason.  Crawlers need not
  insert and the log need not roll over.
* `EventStorage`: `WF(Step(c))`, the scheduler starts the crawler at every
  interval and a crawl ends.  No fairness for `Publish`: the property speaks of
  a page that comes to rest.

* `ElkSetup`: `WF(Completes(s))`, every request of a set-up has a timeout, and
  whoever needs it runs it again until it has passed.  Nothing restarts it
  automatically, so the property is about reruns: no earlier run leaves
  anything behind that a rerun cannot complete.  Monstache, users and set-ups
  that have passed need not do anything.

* `ElkFixture`: `WF(Step(r))`, calls have timeouts and a comparison that fails is
  repeated until its deadline; `SF(StartDue(r))`, whoever follows the procedure
  (`elk/operations.md`, steps 5 and 6) gives the next command again and again, and
  from some time on none of these runs is killed; `WF` of Monstache's copying.  It
  holds once the first revision is there (`Seeded`, see the observations).

Deadlock is checked in all runs: where everything is done some
process can always go on polling, reading or writing.

### Observations

Four statements of comments and of the repository's README are not kept by the
code.  Each can be seen with TLC, by a configuration that differs from one of those
here as follows, the property named added to it and the rest left as it is:

1. **Leases without slack** (service.py:230-247; the comment at 247 has the send end
   within the lease).  The lease is counted from a clock read two database calls
   before the send, and the send may take 0.8 of the lease; calls slower than the
   remaining fifth let a second worker send at the same time.
   `InFlightExclusive` fails in `MCAlertDelivery.cfg` with `LeaseSeconds = 5`,
   `SendTimeout = 4`, `Stall = 2`, `MaxFaults = 0`.  The theorem `InFlightExclusion`
   states the bound under which it holds.
2. **First start** (service.py:322; the comment at 335-336).  Before the first token
   is saved an error after receiving a change reconnects at the present, and the
   change is never reserved.  `StreamedNeverSkipped` fails in `MCAlertWatcher.cfg`
   with `Watchers = {w1}`, `Changes <- Harmless`, `MaxFaults = 1`.
3. **A repeated change** (storage.py:188; README.md:66).  An entry that goes from A to
   B, back, and to B again finds the first change's row: no new history row, and so no
   UPDATED alert.  `EachChangeItsOwnRow` fails in `MCEventStorageOne.cfg` with
   `Legacy <- NothingStored`, `Pages <- Flipping`, `MaxFaults = 0`.
4. **A lost URL** (storage.py:195-204; the comment at 178).  Two crawls of a source
   overlap, and the slower writes back what it had read.  `NeverDemoted` fails in
   `MCEventStorage.cfg` with `Legacy <- NothingStored`, `Pages <- Promotion`,
   `MaxFaults = 0`.  The scheduler does not start two (`OneCrawlPerSource`), but
   nothing prevents a crawl by hand beside it.

Observations that are no disagreement with a document:

* An error of retention is reported twice in the audit log
  (`execute_retention`, then `main`; apply_retention.py:37).
* A change whose identifier holds a credential stops the watcher for good
  (service.py:204 raises outside of the quarantine).
* Two entries of one page that find the same document (one by `_id`, one by
  name; storage.py:193) rewrite it in turn on every crawl.  TLC shows it when such a
  page is added to `storage_one`, whose pages have one entry of each company;
  `EventuallyStored` is a statement about those.
* A record that matches several v1 documents, or whose id belongs to another
  company, ends its crawl each time, and the records after it are not saved.
  `EventuallyStored` makes an exception of it (`Refused`).
* A set-up for another database that overlaps the owner's can leave its template
  for the first index after the owner has created it: the ownership check
  (setup.py:53-55) is not repeated before the PUT of line 57.  `OneOwner` says
  that it goes no further, and the owner's next set-up puts the template back.
* A `seed` that dies after the event and before its rows is completed by another
  `seed`, but not after an `update` to revision 2: `current` then refuses the seed,
  and no command writes the rows of revision 1, so that `verify` cannot pass
  (e2e.py:52-68).  Hence the premise `Seeded` of `EventuallyVerified`.
* The pipeline check compares counts, not contents (verify.py:14-24): it passes on an
  old copy of the event, and on one that changes while it counts.
* Django and the retention tool write to one `audit.jsonl`, although audit.py:4 wants
  a file for each process.  A process whose file was renamed by the other goes on in
  the renamed one and rotates again when that is full, so that files are removed
  before their time; `audit.jsonl.1` goes even if there is no `audit.jsonl` to
  rename.  A review meanwhile may miss a file, or count one it no longer finds as
  malformed, which is why `BreachIsReal` leaves that counter out and
  `BreachIsSeen` is about a review that no renaming disturbs.
* A crawler killed by the timeout leaves its browser running (the `finally` of
  common.py:119 is not reached).  On Windows `subprocess.run` (scheduler.py:76-87)
  then waits, without a timeout, for the end of the output that the browser's driver
  has inherited: the job stays busy, every later run of the source is skipped, and
  the gap has no bound until somebody ends the browser.  `GapBounded` excepts such
  jobs (`Held`).
* An alert whose row expires while its change can still be replayed, by a watcher that
  is slower or restarts behind it, is decided and sent anew (retention.py:94,
  service.py:174).  `DecidedOnce` is about rows that are there and changes that are
  passed.
* History rows expire while their event stays (data_handling.md:140-141), so that the
  history of an old event has gaps by design.
* A walk through the dashboard can pass over a row when another row was deleted,
  left the filter or moved back meanwhile, as each page is cut from the rows of
  its own moment (dashboard.py:218-227).

## 4. Proofs

For every value of the constants that the modules' assumptions allow:

| theorem | statement | rests on |
|---|---|---|
| `AlertDeliveryProofs!TypeCorrectness` | types | `IInv` |
| `BudgetKept`, `SentOnlyIfDelivered`, `UnclaimedStaySilent` | the safety invariants of `delivery_slow` | `IInv` |
| `SettledRowsStay`, `ClaimsAreOwned` | the action properties | `IInv`, `Clocked` |
| `InFlightExclusion` | no two workers send at once, if `Stall + SendTimeout < LeaseSeconds` | `IInv`, `Clocked`, `InLease` |
| `DeliveryKeepsContract` | refinement of `AlertContract` | `IInv` |
| `AlertWatcherProofs!CheckpointIsSafe`, `StreamsAreSafe`, `DecisionsStay` | the safety properties of `watcher` | `IInv` |
| `EventStorageProofs!EventsAreUnique`, `HistoryIsChained` | the invariants of `storage` | `IInv` |
| `StorageKeepsContract` | refinement of `EventContract`, if crawls run one at a time (`OneAtATime`) | `IInv`, `SomeLedger` |
| `ChangesAreRecorded`, `KnownUrlsStay` | a change is along a row that was written, and no URL is lost, if crawls run one at a time | `IInv`, `Unchanged` |
| `FalseRowsAreFaults` | `NoFalseHistory` of `storage_one`, if crawls run one at a time | `IInv`, `SomeLedger` |
| `RetentionProofs!RecentDocumentsSurvive` | the action property of `retention` | `TypeOK`, `NowPast` |
| `EventsTellDeletions`, `DeletionsAreTold` | the invariants of `retention` | `RunsOK` |
| `ElkSetupProofs!PrefixHasOneOwner`, `PassesAreComplete` | the invariants of `elk_setup` | `IInv`, `Grown` |
| `ElkFixtureProofs!RevisionsHaveRows`, `PassesAreTrue`, `RevisionsStayInOrder` | the safety properties of the ELK fixture | `IInv`, `Grown` |
| `ReaderProofs!BreachesAreReal`, `BreachesAreSeen` | what a review reports | `IInv`, `Longer` |
| `ReaderProofs!WalksMissNothing` | the walk through the pages of the dashboard, with any number of documents and any page size | `DInv` |
| `ReaderProofs!PagesAreExplained` | the page of an event and its history | `DInv` |
| `SchedulerProofs!OneCrawlAtATime`, `GapsAreBounded` | never two crawls of a source, and no long gap but for held jobs | `IInv` |
| `GapsElsewhere` | no long gap of any source, if the platform is not Windows | `IInv` |

The inductive invariants, and why they are needed:

* *Delivery.*  The properties speak of rows and messages, but a step
  acknowledges with what a worker remembers.  `IInv` relates the two: claims
  are numbered by `claims`, messages and remembered claims are at most that
  number, two workers never remember the same claim, a row in SENDING carries
  its newest claim, and a worker about to acknowledge a success holds a
  delivered claim.  `Clocked` says remembered times are not ahead of the clock,
  `InLease` that a sender's deadline is before the end of the lease it took.
* *Watcher.*  `CheckpointCovers` is not inductive: the token comes from some
  watcher's position.  `StreamCovers` is what every watcher knows of its own
  position, and the two with `TypeOK` are inductive: what a watcher saves was
  covered, `skipped` and `expired` only grow, and a row goes only into `expired`.
  `PassedStays`, for `DecisionsStay`, follows the places where a stream can open.
* *Storage.*  `IInv` adds what a crawler has read: the document it found was
  explained when it was read and remains so, since a row that expires stays
  `Written`, and a crawler past `history` has its row written.  With one crawl at a time, the document
  found is still the one stored or was deleted (`Unchanged`), which is exactly
  what two crawls that overlap break (observation 4).  `NoFalseHistory` counts rows against
  faults, but a row may be stranded long after the fault that strands it:
  retention deletes the document a crawler has read, and the crawler writes the
  row of a change it can no longer make.  `Ledger` pays for that row when the
  document goes (`Paid`), and says that without a deletion the key of the update
  stays free (`Entitled`), so that no row is stranded by the unique index.  Any
  number of processes may take turns: the ledger is that of the one that is not idle,
  and an idle one owes nothing, so that it passes from crawl to crawl (`SomeLedger`).
* *Retention.*  `RunsOK` says phase by phase which collections a run has
  told of, is at and has not touched.
* *ELK set-up.*  Neither invariant says what a set-up knows half way.  `Progress`
  does: past a kind its index is the set-up's, and in the second loop its view
  is there.  That holds on because indices and views only appear (`Grown`).  A
  set-up past the first kind is one of the owner's, so the later templates are.
* *ELK fixture.*  `Known` says what a script knows from where it is: before the
  event is written, both rows of its revision are there.  `Verifying` and
  `Undisturbed` say what a check has compared so far; the second holds only
  until somebody writes.  Documents and copies never disappear (`Grown`), so that
  what one run knows survives the steps of the others.
* *Audit log.*  That a review counts no record twice is not said by any property,
  and all of them need it.  A file only moves to higher suffixes and the review
  goes to lower ones, so that what was counted is above what remains (`Ordered`);
  the counts are then those of the records read (`Exact`), and if no file moves
  every record of the beginning is read or remains (`Complete`).
* *Dashboard.*  A walk speaks of pages of several moments, so the invariant says of
  each wanted row that it was shown or that its rank is on a page to come (`Due`):
  unless a row leaves or moves back, no rank of a row that stays gets smaller.  And
  when there is a next page there are still rows for it, so that `paginate` does not
  start over (`Underway`).  For the page of an event, a change has its row before it
  is made (`Backed`), and what was read of the document has its rows when they are
  read (`PageBacked`).
* *Scheduler.*  `GapBounded` speaks of the time since the last run, the code of
  the time to the next.  `OnTime` relates the two: their sum, with the lateness
  of the last start, is a whole number of intervals, and a crawl is as old as its
  job's last run, so that the timeout bounds how many runs are skipped.  A job that
  was held is due within an interval when it is released (`NextIsNear`), and only
  on Windows is there a busy job without a crawl (`CrawledIsBusy`).

The refinement maps each row to a verdict (`Verdict`), `attempt_count` to tries
and `delivered` to what was received.  Claims map to `Try`, acceptance by
Telegram to `Receive`, acknowledgements and the expiry of a last lease to
`Finish` and `GiveUp`; all other steps stutter.

That of storage maps inserts to `Add`, the write of a row to `Announce` or, if it is
there already, to `Repeat`, the update to `Change`, a crawl that ends or is killed
before its update to `GiveUp`, the deletion of a document to `Remove` and of a row to
`RemoveRow`.  An update that changes nothing stutters.  `Repeat` is what the code
does, not what README.md:66 says (observation 3): the contract does not catch it.

**Only model-checked:** the liveness properties (`EventuallySettled`,
`EventuallySent`, `EventuallyReserved`, `EventuallyStored`, `EventuallyVerified`,
`OwnerPasses`), which are beyond the prover.

## 5. Not modelled, and the plan

Not modelled for good, since they have no behaviour over time: browser automation
and HTML parsing, Django's scaffolding and templates, settings and static mappings,
the stateless checks of files, settings and policy, the start-up of the alert
process, and the wording of messages.  Of the dashboard the rows, their order and
their pages are modelled; its totals, texts and parsing of parameters are not.

What is left, in this order:

1. `Pipeline`: `EventStorage`, `AlertWatcher` and `Retention` composed on their
   collections, for what an observation leads to end to end.
2. Times and observation counts of storage under overlapping crawls.
