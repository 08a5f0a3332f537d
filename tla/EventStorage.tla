----------------------------- MODULE EventStorage -----------------------------
(***************************************************************************)
(* Saving what the crawlers observe (src/crawling/storage.py: save_records *)
(* down to _find_existing and _update_existing; the crawl that feeds it,   *)
(* src/crawling/common.py and src/scheduler/scheduler.py).                 *)
(*                                                                         *)
(* One source is modelled: records of different sources share neither keys *)
(* nor candidates.  A crawl reads the page once and saves its records one  *)
(* by one.  Saving a record takes up to six calls to MongoDB with no       *)
(* transaction around them, and each is an action of its own: another      *)
(* process, the scheduler's timeout or a failing database may come between *)
(* any two.  The history row of a change is written before the current     *)
(* document, under an identifier that repeats when the change is retried.  *)
(*                                                                         *)
(* A text is a value or Unknown; equal values stand for texts that are     *)
(* equal once normalised.  `body' stands for the metadata that does not    *)
(* identify a company.  Times and the observation count are left out.      *)
(* Retention deletes documents and history rows independently of each      *)
(* other (src/governance/retention.py); without times, it may be any.      *)
(***************************************************************************)
EXTENDS Naturals, FiniteSets

CONSTANTS
    Crawlers,  \* processes that may crawl this source
    Ids,       \* parser document ids (digests of some of the content)
    Urls,      \* canonical company URLs
    Names,     \* company names
    Bodies,    \* values of the other metadata
    Unknown,   \* a text that is missing
    NoKey,     \* the event_key a schema v1 document does not have
    Pages,     \* what the source may show: sets of records
    Legacy,    \* schema v1 documents: records stored before event keys
    MaxFaults  \* bound: crawls killed or failed by the database, and deletions

Content == [url  : Urls \cup {Unknown},
            name : Names \cup {Unknown},
            body : Bodies \cup {Unknown}]

Record == [id : Ids, content : Content]

Keys == ({"url"} \X Urls) \cup ({"name"} \X Names) \cup ({"id"} \X Ids)

ASSUME InputAssumption ==
    /\ Crawlers # {}
    /\ Unknown \notin Urls /\ Unknown \notin Names
    /\ NoKey \notin Keys
    /\ Pages \subseteq SUBSET Record
    /\ Legacy \subseteq Record
    /\ \A r, s \in Legacy : r.id = s.id => r = s
    /\ MaxFaults \in Nat

Document == [key : Keys \cup {NoKey}, content : Content]

Row == [key : Keys, before : Content, after : Content]

(***************************************************************************)
(* idle     no crawl running                 insert   upsert by event_key  *)
(* next     between two records              owner    find_one of the key  *)
(* key      find_one by event_key            history  upsert of the change *)
(* id       find_one by _id                  current  update by _id        *)
(* scan     find over the source's documents                               *)
(***************************************************************************)
Finding  == {"key", "id", "scan", "insert"}
Updating == {"owner", "history", "current"}
Phases   == {"idle", "next"} \cup Finding \cup Updating

VARIABLES
    leaked_data,   \* the current documents, by _id
    leak_history,  \* the rows of the changes
    site,          \* the page as the source shows it now
    pc,            \* the phase of each crawler
    todo,          \* the records it still has to save
    record,        \* the record being saved
    collided,      \* whether its insert met a document already there
    existing,      \* the document found for it, as it was when read
    inserted,      \* history: the contents ever inserted
    moved,         \* history: the rows along which a document has changed
    expired,       \* history: the rows that retention has deleted
    faults         \* faults so far

mongo == <<leaked_data, leak_history, inserted, moved, expired>>
crawl == <<todo, record, collided, existing>>
vars  == <<leaked_data, leak_history, site, pc, todo, record, collided,
           existing, inserted, moved, expired, faults>>

TypeOK ==
    /\ DOMAIN leaked_data \subseteq Ids
    /\ \A i \in DOMAIN leaked_data : leaked_data[i] \in Document
    /\ leak_history \subseteq Row
    /\ site \in Pages
    /\ pc \in [Crawlers -> Phases]
    /\ todo \in [Crawlers -> SUBSET Record]
    /\ record \in [Crawlers -> Record \cup {Unknown}]
    /\ collided \in [Crawlers -> BOOLEAN]
    /\ existing \in [Crawlers -> [id : Ids, document : Document] \cup {Unknown}]
    /\ \A c \in Crawlers :
          /\ pc[c] \in Finding \cup Updating => record[c] \in Record
          /\ pc[c] \in Updating => existing[c] \in [id : Ids, document : Document]
    /\ inserted \subseteq Content
    /\ moved \subseteq Row
    /\ expired \subseteq Row
    /\ faults \in 0 .. MaxFaults

-----------------------------------------------------------------------------
(* Identity and content.                                                   *)

event_identity(content, id) ==
    CASE content.url # Unknown -> <<"url", content.url>>
      [] content.url = Unknown /\ content.name # Unknown -> <<"name", content.name>>
      [] OTHER -> <<"id", id>>

\* Can the two be observations of the same company?  URLs decide if both are
\* known, then names; with neither comparable, only the same _id does.
Compatible(old, new, exact_id) ==
    \/ old.url # Unknown /\ new.url # Unknown /\ old.url = new.url
    \/ /\ Unknown \in {old.url, new.url}
       /\ \/ old.name # Unknown /\ new.name # Unknown /\ old.name = new.name
          \/ Unknown \in {old.name, new.name} /\ exact_id

Known(old, new) == IF new = Unknown THEN old ELSE new

\* Mutant: the observation replaces what is known, also by Unknown.
EffectiveReplaced(old, new) == new

\* A missing text does not overwrite a known one.
Effective(old, new) ==
    [url  |-> Known(old.url, new.url),
     name |-> Known(old.name, new.name),
     body |-> Known(old.body, new.body)]

\* What the save of crawler c will make of the document it found.
Effect(c) == Effective(existing[c].document.content, record[c].content)

\* Mutant: the key of the observation instead of that of the merged document.
EffectKeyOfRecord(c) == event_identity(record[c].content, record[c].id)

\* Mutant: the document found keeps the key it has.
EffectKeyOfDocument(c) == existing[c].document.key

EffectKey(c) == event_identity(Effect(c), existing[c].id)

Changes(c) == Effect(c) # existing[c].document.content

Incoming(c) == event_identity(record[c].content, record[c].id)

Owners(key) == {i \in DOMAIN leaked_data : leaked_data[i].key = key}

-----------------------------------------------------------------------------
Init ==
    /\ leaked_data = [i \in {r.id : r \in Legacy} |->
                        [key     |-> NoKey,
                         content |-> (CHOOSE r \in Legacy : r.id = i).content]]
    /\ leak_history = {}
    /\ site \in Pages
    /\ pc = [c \in Crawlers |-> "idle"]
    /\ todo = [c \in Crawlers |-> {}]
    /\ record = [c \in Crawlers |-> Unknown]
    /\ collided = [c \in Crawlers |-> FALSE]
    /\ existing = [c \in Crawlers |-> Unknown]
    /\ inserted = {r.content : r \in Legacy}
    /\ moved = {} /\ expired = {}
    /\ faults = 0

Goto(c, phase) == pc' = [pc EXCEPT ![c] = phase]

\* The process ends, with all that it knew.
Exit(c) ==
    /\ Goto(c, "idle")
    /\ todo' = [todo EXCEPT ![c] = {}]
    /\ record' = [record EXCEPT ![c] = Unknown]
    /\ collided' = [collided EXCEPT ![c] = FALSE]
    /\ existing' = [existing EXCEPT ![c] = Unknown]

\* The record is saved, and the next one's turn.
Saved(c) ==
    /\ Goto(c, "next")
    /\ record' = [record EXCEPT ![c] = Unknown]
    /\ collided' = [collided EXCEPT ![c] = FALSE]
    /\ existing' = [existing EXCEPT ![c] = Unknown]
    /\ UNCHANGED todo

\* An exception of save_record ends the crawl: the records left are not saved.
Fail(c) == Exit(c) /\ UNCHANGED <<mongo, site, faults>>

-----------------------------------------------------------------------------
(* save_records.                                                           *)

save_records(c) ==
    /\ pc[c] = "idle" /\ site # {}
    /\ todo' = [todo EXCEPT ![c] = site]
    /\ Goto(c, "next")
    /\ UNCHANGED <<mongo, site, record, collided, existing, faults>>

save_record(c, r) ==
    /\ pc[c] = "next" /\ r \in todo[c]
    /\ todo' = [todo EXCEPT ![c] = @ \ {r}]
    /\ record' = [record EXCEPT ![c] = r]
    /\ Goto(c, "key")
    /\ UNCHANGED <<mongo, site, collided, existing, faults>>

AllSaved(c) ==
    /\ pc[c] = "next" /\ todo[c] = {}
    /\ Exit(c)
    /\ UNCHANGED <<mongo, site, faults>>

-----------------------------------------------------------------------------
(* _find_existing.                                                         *)

\* Document i is the one: _update_existing takes over, and looks for another
\* owner of the key only if the key would change.
Found(c, i) ==
    LET old == leaked_data[i]
        new == Effective(old.content, record[c].content)
    IN
    /\ existing' = [existing EXCEPT ![c] = [id |-> i, document |-> old]]
    /\ Goto(c, IF event_identity(new, i) # old.key THEN "owner"
               ELSE IF new # old.content THEN "history" ELSE "current")
    /\ UNCHANGED <<mongo, site, todo, record, collided, faults>>

Continue(c, phase) ==
    /\ Goto(c, phase)
    /\ UNCHANGED <<mongo, site, crawl, faults>>

FindByKey(c) ==
    /\ pc[c] = "key"
    /\ \/ Owners(Incoming(c)) = {} /\ Continue(c, "id")
       \/ \E i \in Owners(Incoming(c)) :
             IF Compatible(leaked_data[i].content, record[c].content, i = record[c].id)
               THEN Found(c, i)
               ELSE Fail(c)                                  \* IdentityConflict

FindById(c) ==
    LET id == record[c].id IN
    /\ pc[c] = "id"
    /\ IF id \notin DOMAIN leaked_data THEN Continue(c, "scan")
       ELSE IF Compatible(leaked_data[id].content, record[c].content, TRUE)
         THEN Found(c, id)
         ELSE Fail(c)                                        \* IdentityConflict

\* Without a match the record is new; unless its insert has just met another
\* document, which is then gone or not to be recognised.
FindByScan(c) ==
    LET matches == {i \in DOMAIN leaked_data :
                      Compatible(leaked_data[i].content, record[c].content, FALSE)}
    IN
    /\ pc[c] = "scan"
    /\ \/ \E i \in matches : matches = {i} /\ Found(c, i)
       \/ Cardinality(matches) > 1 /\ Fail(c)                \* AmbiguousLegacyMatch
       \/ matches = {} /\ ~ collided[c] /\ Continue(c, "insert")
       \/ matches = {} /\ collided[c] /\ Fail(c)             \* StorageError

-----------------------------------------------------------------------------
(* The insert, and _update_existing.                                       *)

\* leaked_data with document i put to doc.
Put(i, doc) ==
    [j \in DOMAIN leaked_data \cup {i} |-> IF j = i THEN doc ELSE leaked_data[j]]

\* update_one({event_key}, $setOnInsert, upsert): inserts unless a document has
\* the key, which is then matched, or the _id, which is a DuplicateKeyError.
\* Both are looked for once more.
Insert(c) ==
    LET id == record[c].id
        free == Owners(Incoming(c)) = {} /\ id \notin DOMAIN leaked_data
    IN
    /\ pc[c] = "insert"
    /\ \/ /\ free
          /\ leaked_data' = Put(id, [key |-> Incoming(c), content |-> record[c].content])
          /\ inserted' = inserted \cup {record[c].content}
          /\ Saved(c)
       \/ /\ ~ free
          /\ Goto(c, "key")
          /\ collided' = [collided EXCEPT ![c] = TRUE]
          /\ UNCHANGED <<leaked_data, inserted, todo, record, existing>>
    /\ UNCHANGED <<leak_history, moved, expired, site, faults>>

\* Mutant: nobody looks whether the key is taken.
CheckNoOwner(c) ==
    pc[c] = "owner" /\ Continue(c, IF Changes(c) THEN "history" ELSE "current")

CheckOwner(c) ==
    /\ pc[c] = "owner"
    /\ IF Owners(EffectKey(c)) \subseteq {existing[c].id}
         THEN Continue(c, IF Changes(c) THEN "history" ELSE "current")
         ELSE Fail(c)                                        \* IdentityConflict

\* Mutant: the row tells of the observation, not of what becomes current.
ChangeToObserved(c) ==
    [key |-> EffectKey(c), before |-> existing[c].document.content,
     after |-> record[c].content]

Change(c) == [key |-> EffectKey(c), before |-> existing[c].document.content,
              after |-> Effect(c)]

\* Mutant: the document changes without a row.
RecordNothing(c) == pc[c] = "history" /\ Continue(c, "current")

\* Mutant: a plain insert, which fails on the row an earlier attempt left.
RecordOnce(c) ==
    /\ pc[c] = "history"
    /\ IF Change(c) \in leak_history
         THEN Fail(c)
         ELSE /\ leak_history' = leak_history \cup {Change(c)}
              /\ Goto(c, "current")
              /\ UNCHANGED <<leaked_data, inserted, moved, expired, site, crawl, faults>>

RecordChange(c) ==
    /\ pc[c] = "history"
    /\ leak_history' = leak_history \cup {Change(c)}
    /\ Goto(c, "current")
    /\ UNCHANGED <<leaked_data, inserted, moved, expired, site, crawl, faults>>

UpdateCurrent(c) ==
    LET id == existing[c].id IN
    /\ pc[c] = "current"
    /\ IF id \in DOMAIN leaked_data /\ Owners(EffectKey(c)) \subseteq {id}
         THEN /\ leaked_data' = Put(id, [key |-> EffectKey(c), content |-> Effect(c)])
              /\ moved' = IF Changes(c) THEN moved \cup {Change(c)} ELSE moved
              /\ Saved(c)
              /\ UNCHANGED <<leak_history, inserted, expired, site, faults>>
         ELSE Fail(c)           \* disappeared, or the unique index refuses the key

-----------------------------------------------------------------------------
(* Faults and the environment.                                             *)

Fault == faults < MaxFaults /\ faults' = faults + 1

\* The scheduler's timeout, a crash or an error of the database.  It may come
\* after the write of the call it interrupts.
Killed(c) ==
    /\ pc[c] # "idle"
    /\ Fault
    /\ Exit(c)
    /\ UNCHANGED <<mongo, site>>

\* Retention deletes a document, by last_seen.
ExpireEvent(i) ==
    /\ i \in DOMAIN leaked_data
    /\ Fault
    /\ leaked_data' = [j \in DOMAIN leaked_data \ {i} |-> leaked_data[j]]
    /\ UNCHANGED <<leak_history, inserted, moved, expired, site, pc, crawl>>

\* It deletes a row, by changed_at, whatever has become of the row's document.  A
\* row that a crawl finds again has the time of its first writing, and may go before
\* that crawl's next call.
ExpireRow(row) ==
    /\ row \in leak_history
    /\ Fault
    /\ leak_history' = leak_history \ {row}
    /\ expired' = expired \cup {row}
    /\ UNCHANGED <<leaked_data, inserted, moved, site, pc, crawl>>

Publish ==
    /\ site' \in Pages \ {site}
    /\ UNCHANGED <<mongo, pc, crawl, faults>>

-----------------------------------------------------------------------------
Step(c) ==
    \/ save_records(c) \/ AllSaved(c)
    \/ \E r \in todo[c] : save_record(c, r)
    \/ FindByKey(c) \/ FindById(c) \/ FindByScan(c)
    \/ Insert(c) \/ CheckOwner(c) \/ RecordChange(c) \/ UpdateCurrent(c)

Next ==
    \/ \E c \in Crawlers : Step(c) \/ Killed(c)
    \/ \E i \in Ids : ExpireEvent(i)
    \/ \E row \in leak_history : ExpireRow(row)
    \/ Publish

Spec == Init /\ [][Next]_vars

\* The scheduler starts the crawler again and again, and each crawl ends.
FairSpec == Spec /\ \A c \in Crawlers : WF_vars(Step(c))

-----------------------------------------------------------------------------
(* Safety.                                                                 *)

\* A known URL or, without one, a known name has at most one managed document,
\* and that document's key is the one its own content calls for, whatever
\* order finds, inserts, promotions and deletions of several crawlers take
\* (event_key, storage.py:107-110, 179-183, 215-226).
OneDocumentPerEvent ==
    \A i \in DOMAIN leaked_data :
        leaked_data[i].key # NoKey =>
            /\ leaked_data[i].key = event_identity(leaked_data[i].content, i)
            /\ Owners(leaked_data[i].key) = {i}

\* The rows written so far.
Written == leak_history \cup expired

\* Every content that is current or a row tells of can be traced back: it was
\* inserted as such, or a row was written that leads to it, which is still there
\* unless it has expired.  Crashes between the two writes never leave a current
\* content whose row was not written (storage.py:3-4).
Explained(content) ==
    content \in inserted \/ \E row \in Written : row.after = content

HistoryExplains ==
    /\ \A i \in DOMAIN leaked_data : Explained(leaked_data[i].content)
    /\ \A row \in leak_history : Explained(row.before)

Moves(i) ==
    /\ i \in DOMAIN leaked_data /\ i \in DOMAIN leaked_data'
    /\ leaked_data[i].content # leaked_data'[i].content

Move(i) == [key |-> leaked_data'[i].key, before |-> leaked_data[i].content,
            after |-> leaked_data'[i].content]

\* With one crawler at a time, a document changes only along a row that was
\* written and tells exactly that change (storage.py:187-204).
ChangeRecorded ==
    [][\A i \in Ids : Moves(i) => Move(i) \in Written]_vars

\* "Missing identity information cannot demote a known URL"
\* (storage.py:178): a document keeps the URL it has.
NeverDemoted ==
    [][\A i \in DOMAIN leaked_data \cap DOMAIN leaked_data' :
          leaked_data[i].content.url # Unknown =>
             leaked_data'[i].content.url = leaked_data[i].content.url]_vars

\* With one crawler at a time, a row that tells of a change no document ever
\* went through is the trace of a fault: no find, owner check or unique index
\* lets a change be recorded that can not be made (storage.py:179-205).
NoFalseHistory ==
    Cardinality(leak_history \ moved)
      <= faults + Cardinality({c \in Crawlers : pc[c] = "current"})

\* What README.md:66 suggests, and the code does not keep: that every change of a
\* document has a row of its own.  No run checks it; a change that is repeated has
\* the row of the first (README, Observations).
EachChangeItsOwnRow ==
    [][\A i \in Ids : Moves(i) => Move(i) \in leak_history \ moved]_vars

-----------------------------------------------------------------------------
(* The contract, which crawlers keep that run one at a time.               *)

\* No two processes crawl this source at once.  The scheduler starts no second
\* crawl of a source (max_instances, scheduler.py:127-128).
OneAtATime == \A c, d \in Crawlers : pc[c] # "idle" /\ pc[d] # "idle" => c = d

\* What an observation may make of a content.
Merges ==
    {pair \in Content \X Content :
        \E new \in Content : /\ Compatible(pair[1], new, TRUE)
                             /\ pair[2] = Effective(pair[1], new)}

Pending(c) == pc[c] = "current" /\ Changes(c)

Contract == INSTANCE EventContract WITH
    Events    <- Ids,
    Contents  <- Content,
    current   <- [i \in DOMAIN leaked_data |-> leaked_data[i].content],
    added     <- inserted,
    announced <- Written,
    rows      <- leak_history,
    underway  <- {[event |-> existing[c].id, row |-> Change(c)] :
                     c \in {d \in Crawlers : Pending(d)}}

\* Crawls one at a time implement EventContract, whatever kills them and whatever
\* is deleted between their calls: the six calls of a save amount to a change that
\* is announced and then made as announced, or not at all (storage.py:174-206).
KeepsContract == Contract!Spec

-----------------------------------------------------------------------------
(* Liveness, of FairSpec.                                                  *)

Stored(r) ==
    \E i \in DOMAIN leaked_data :
        /\ Compatible(leaked_data[i].content, r.content, i = r.id)
        /\ leaked_data[i].content = Effective(leaked_data[i].content, r.content)

\* The documents a save of r finds: by key, else by _id, else by content.
Candidates(r) ==
    LET owners == Owners(event_identity(r.content, r.id)) IN
    IF owners # {} THEN owners
    ELSE IF r.id \in DOMAIN leaked_data THEN {r.id}
    ELSE {i \in DOMAIN leaked_data : Compatible(leaked_data[i].content, r.content, FALSE)}

\* The stored documents do not let r be saved: it matches several, its id belongs
\* to another company, or it would give a document the key of another.
Refused(r) ==
    \/ Cardinality(Candidates(r)) > 1
    \/ \E i \in Candidates(r) :
          LET old == leaked_data[i].content
              new == Effective(old, r.content)
          IN
          \/ ~ Compatible(old, r.content, i = r.id)
          \/ ~ (Owners(event_identity(new, i)) \subseteq {i})

\* What the source shows for good is stored in the end and stays so, unless some
\* record of it is refused time and again: crawls killed between the history row
\* and the document do not prevent it (storage.py:3-4).  A page has one record of
\* each company; two that find one document overwrite each other in every crawl.
EventuallyStored ==
    \A page \in Pages :
        <>[](site = page) =>
           \/ <>[](\A r \in page : Stored(r))
           \/ []<>(\E r \in page : Refused(r))

=============================================================================
