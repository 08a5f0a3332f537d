-------------------------- MODULE EventStorageProofs --------------------------
(***************************************************************************)
(* Proofs about EventStorage, for any number of crawlers and any pages.    *)
(* The inductive invariant adds to the properties what a crawler between   *)
(* two of its calls still knows for sure: that the document it read had a  *)
(* content the history explains and belongs to the record it saves, and    *)
(* that the row of its change is written before the document is.           *)
(***************************************************************************)
EXTENDS EventStorage, FiniteSetTheorems, TLAPS

\* What OneDocumentPerEvent says of a set of documents, without its Owners.
Unique(docs) ==
    \A i \in DOMAIN docs :
        docs[i].key # NoKey =>
            /\ docs[i].key = event_identity(docs[i].content, i)
            /\ \A j \in DOMAIN docs : docs[j].key = docs[i].key => j = i

ReadsWell(c) ==
    pc[c] \in Updating =>
        /\ Explained(existing[c].document.content)
        /\ Compatible(existing[c].document.content, record[c].content, TRUE)

RowWritten(c) ==
    pc[c] = "current" /\ Changes(c) => Change(c) \in Written

IInv ==
    /\ TypeOK
    /\ Unique(leaked_data)
    /\ HistoryExplains
    /\ \A c \in Crawlers : ReadsWell(c) /\ RowWritten(c)

-----------------------------------------------------------------------------
(* The operators on contents and documents.                                *)

\* Merging two contents gives a content.
LEMMA EffectiveType ==
    ASSUME NEW old \in Content, NEW new \in Content
    PROVE  Effective(old, new) \in Content
  BY DEF Content, Effective, Known

\* Every content has an event key.
LEMMA IdentityType ==
    ASSUME NEW content \in Content, NEW id \in Ids
    PROVE  event_identity(content, id) \in Keys
  BY DEF Content, event_identity, Keys

\* A match without the same _id is a match with it.
LEMMA CompatibleAnyway ==
    ASSUME NEW old, NEW new, NEW exact_id, Compatible(old, new, exact_id),
           exact_id \in BOOLEAN
    PROVE  Compatible(old, new, TRUE)
  BY DEF Compatible

\* Unique says of a state what OneDocumentPerEvent says.
LEMMA UniqueIsInvariant == OneDocumentPerEvent <=> Unique(leaked_data)
  BY DEF OneDocumentPerEvent, Unique, Owners

\* A document put under a key of its own, which no other document has, keeps
\* the keys unique.
LEMMA UniqueAfterPut ==
    ASSUME NEW docs, Unique(docs), NEW i, NEW doc,
           doc.key = event_identity(doc.content, i),
           \A j \in DOMAIN docs : docs[j].key = doc.key => j = i
    PROVE  Unique([j \in DOMAIN docs \cup {i} |-> IF j = i THEN doc ELSE docs[j]])
  BY DEF Unique

\* Deleting a document keeps the keys unique.
LEMMA UniqueAfterDelete ==
    ASSUME NEW docs, Unique(docs), NEW i
    PROVE  Unique([j \in DOMAIN docs \ {i} |-> docs[j]])
  BY DEF Unique

\* Unwriting no row, and reading nothing else, a step keeps
\* what the other crawlers know.
LEMMA OthersUndisturbed ==
    ASSUME NEW c \in Crawlers, TypeOK, ReadsWell(c), RowWritten(c),
           Written \subseteq Written', inserted \subseteq inserted',
           pc'[c] = pc[c], record'[c] = record[c], existing'[c] = existing[c]
    PROVE  ReadsWell(c)' /\ RowWritten(c)'
  BY DEF ReadsWell, RowWritten, Explained, Changes, Change, Effect, EffectKey

-----------------------------------------------------------------------------
(* The invariant.                                                          *)

\* The initial states satisfy the invariant.
LEMMA InitInv == Init => IInv
<1> SUFFICES ASSUME Init PROVE IInv
  OBVIOUS
<1> USE InputAssumption
<1>1. /\ DOMAIN leaked_data = {r.id : r \in Legacy}
      /\ \A i \in DOMAIN leaked_data :
            /\ leaked_data[i].key = NoKey
            /\ leaked_data[i] \in Document
            /\ leaked_data[i].content \in inserted
  <2>1. ASSUME NEW i \in {r.id : r \in Legacy}
        PROVE  \E r \in Legacy : r.id = i /\ r = (CHOOSE s \in Legacy : s.id = i)
    OBVIOUS
  <2> QED
    BY <2>1 DEF Init, Document, Record
<1>2. TypeOK
  <2>1. inserted \subseteq Content
    BY DEF Init, Record
  <2>2. DOMAIN leaked_data \subseteq Ids
    BY <1>1 DEF Record
  <2>3. \A c \in Crawlers : pc[c] \notin Finding \cup Updating
    BY DEF Init, Finding, Updating
  <2>4. faults \in 0 .. MaxFaults
    BY DEF Init
  <2>5. pc \in [Crawlers -> Phases] /\ todo \in [Crawlers -> SUBSET Record]
    BY DEF Init, Phases
  <2>6. /\ record \in [Crawlers -> Record \cup {Unknown}]
        /\ collided \in [Crawlers -> BOOLEAN]
        /\ existing \in [Crawlers -> [id : Ids, document : Document] \cup {Unknown}]
    BY DEF Init
  <2>7. leak_history = {} /\ moved = {} /\ expired = {} /\ site \in Pages
    BY DEF Init
  <2> QED
    BY <1>1, <2>1, <2>2, <2>3, <2>4, <2>5, <2>6, <2>7 DEF TypeOK
<1>3. Unique(leaked_data)
  BY <1>1 DEF Unique
<1>4. HistoryExplains
  BY <1>1 DEF Init, HistoryExplains, Explained, Written
<1>5. \A c \in Crawlers : ReadsWell(c) /\ RowWritten(c)
  BY DEF Init, ReadsWell, RowWritten, Updating
<1> QED
  BY <1>2, <1>3, <1>4, <1>5 DEF IInv

\* Finding document i hands over to the update with what it needs.
LEMMA FoundInv ==
    ASSUME IInv, NEW c \in Crawlers, NEW i \in DOMAIN leaked_data,
           NEW exact_id \in BOOLEAN, pc[c] \in Finding,
           Compatible(leaked_data[i].content, record[c].content, exact_id),
           Found(c, i)
    PROVE  IInv'
<1> USE DEF IInv
<1>1. /\ leaked_data[i] \in Document /\ record[c] \in Record /\ i \in Ids
      /\ pc' = [pc EXCEPT ![c] = pc'[c]]
      /\ pc'[c] \in {"owner", "history", "current"}
      /\ existing' = [existing EXCEPT ![c] = [id |-> i, document |-> leaked_data[i]]]
      /\ UNCHANGED <<leaked_data, leak_history, site, todo, record, collided,
                     inserted, moved, expired, faults>>
  BY DEF Found, Goto, TypeOK, mongo
<1>2. TypeOK'
  BY <1>1 DEF TypeOK, Phases, Updating, Finding
<1>3. Unique(leaked_data')
  BY <1>1
<1>4. HistoryExplains'
  BY <1>1 DEF HistoryExplains, Explained, Written
<1>5. ASSUME NEW d \in Crawlers PROVE ReadsWell(d)' /\ RowWritten(d)'
  <2>1. CASE d # c
    <3>1. pc'[d] = pc[d] /\ existing'[d] = existing[d]
      BY <1>1, <2>1 DEF TypeOK
    <3> QED
      BY <1>1, <3>1, OthersUndisturbed DEF Written
  <2>2. CASE d = c
    <3>1. existing'[c] = [id |-> i, document |-> leaked_data[i]]
      BY <1>1 DEF TypeOK
    <3>2. Explained(leaked_data[i].content)'
      BY <1>1 DEF HistoryExplains, Explained, Written
    <3>3. Compatible(leaked_data[i].content, record[c].content, TRUE)
      BY CompatibleAnyway
    <3>4. ReadsWell(c)'
      <4>1. existing'[c].document.content = leaked_data[i].content
        BY <3>1
      <4>2. Explained(existing[c].document.content)'
        BY <1>1, <3>2, <4>1 DEF Explained, Written
      <4>3. Compatible(existing'[c].document.content, record'[c].content, TRUE)
        BY <1>1, <3>3, <4>1
      <4> QED
        BY <4>2, <4>3 DEF ReadsWell
    <3>5. Effect(c)' = Effective(leaked_data[i].content, record[c].content)
      BY <1>1, <3>1 DEF Effect
    <3>6. pc'[c] = "current" => ~ Changes(c)'
      BY <3>1, <3>5, <1>1 DEF Found, Goto, Changes, TypeOK
    <3> QED
      BY <2>2, <3>4, <3>6 DEF RowWritten
  <2> QED
    BY <2>1, <2>2
<1> QED
  BY <1>2, <1>3, <1>4, <1>5

\* A step of one crawler that leaves the database alone, and either keeps what
\* the crawler read or drops it.
LEMMA QuietInv ==
    ASSUME IInv, NEW c \in Crawlers, NEW phase \in Phases,
           pc' = [pc EXCEPT ![c] = phase],
           record' \in [Crawlers -> Record \cup {Unknown}],
           phase \in Finding => record'[c] \in Record,
           todo' \in [Crawlers -> SUBSET Record],
           collided' \in [Crawlers -> BOOLEAN],
           existing' \in [Crawlers -> [id : Ids, document : Document] \cup {Unknown}],
           phase \in Updating =>
               /\ phase # "current" \/ ~ Changes(c)
               /\ pc[c] \in Updating /\ record'[c] = record[c] /\ existing'[c] = existing[c],
           \A d \in Crawlers : d # c =>
               record'[d] = record[d] /\ existing'[d] = existing[d],
           site' \in Pages, faults' \in 0 .. MaxFaults, UNCHANGED mongo
    PROVE  IInv'
<1> USE DEF IInv
<1>1. /\ \A d \in Crawlers : d # c => pc'[d] = pc[d]
      /\ pc'[c] = phase /\ pc' \in [Crawlers -> Phases]
  BY DEF TypeOK
<1>2. TypeOK'
  <2>1. ASSUME NEW d \in Crawlers
        PROVE  /\ pc'[d] \in Finding \cup Updating => record'[d] \in Record
               /\ pc'[d] \in Updating =>
                     existing'[d] \in [id : Ids, document : Document]
    BY <1>1 DEF TypeOK
  <2> QED
    BY <1>1, <2>1 DEF TypeOK, mongo
<1>3. Unique(leaked_data') /\ HistoryExplains'
  BY DEF mongo, HistoryExplains, Explained, Written
<1>4. ASSUME NEW d \in Crawlers PROVE ReadsWell(d)' /\ RowWritten(d)'
  <2>1. CASE d # c
    BY <1>1, <2>1, OthersUndisturbed DEF mongo, Written
  <2>2. CASE d = c
    <3>1. CASE phase \in Updating
      <4>1. pc[c] \in Updating /\ record'[c] = record[c] /\ existing'[c] = existing[c]
        BY <3>1
      <4>2. ReadsWell(c)'
        BY <4>1 DEF mongo, ReadsWell, Explained, Written
      <4>3. Changes(c)' <=> Changes(c)
        BY <4>1 DEF Changes, Effect
      <4>4. RowWritten(c)'
        BY <1>1, <3>1, <4>3 DEF RowWritten
      <4> QED
        BY <2>2, <4>2, <4>4
    <3>2. CASE phase \notin Updating
      BY <1>1, <2>2, <3>2 DEF ReadsWell, RowWritten, Updating
    <3> QED
      BY <3>1, <3>2
  <2> QED
    BY <2>1, <2>2
<1> QED
  BY <1>2, <1>3, <1>4

\* Every step keeps the invariant.
LEMMA NextInv == IInv /\ [Next]_vars => IInv'
<1> SUFFICES ASSUME IInv, [Next]_vars PROVE IInv'
  OBVIOUS
<1> USE DEF IInv
<1>1. ASSUME NEW c \in Crawlers, save_records(c) PROVE IInv'
  <2>1. site \subseteq Record
    BY InputAssumption DEF TypeOK
  <2>2. /\ pc' = [pc EXCEPT ![c] = "next"] /\ "next" \in Phases
        /\ "next" \notin Finding /\ "next" \notin Updating
        /\ todo' \in [Crawlers -> SUBSET Record]
        /\ UNCHANGED <<record, collided, existing, site, faults, mongo>>
    BY <1>1, <2>1 DEF save_records, Goto, Phases, Finding, Updating, TypeOK
  <2> QED
    BY <2>2, QuietInv DEF TypeOK
<1>2. ASSUME NEW c \in Crawlers, NEW r \in todo[c], save_record(c, r) PROVE IInv'
  <2>1. r \in Record
    BY DEF TypeOK
  <2>2. /\ pc' = [pc EXCEPT ![c] = "key"] /\ "key" \in Phases /\ "key" \notin Updating
        /\ todo' \in [Crawlers -> SUBSET Record]
        /\ record' \in [Crawlers -> Record \cup {Unknown}] /\ record'[c] = r
        /\ \A d \in Crawlers : d # c => record'[d] = record[d]
        /\ UNCHANGED <<collided, existing, site, faults, mongo>>
    BY <1>2, <2>1 DEF save_record, Goto, Phases, Finding, Updating, TypeOK
  <2> QED
    BY <2>1, <2>2, QuietInv DEF TypeOK
<1>3. ASSUME NEW c \in Crawlers, Exit(c), UNCHANGED <<mongo, site>>,
             faults' \in 0 .. MaxFaults
      PROVE  IInv'
  <2>1. /\ pc' = [pc EXCEPT ![c] = "idle"] /\ "idle" \in Phases
        /\ "idle" \notin Finding /\ "idle" \notin Updating
        /\ todo' \in [Crawlers -> SUBSET Record]
        /\ record' \in [Crawlers -> Record \cup {Unknown}]
        /\ collided' \in [Crawlers -> BOOLEAN]
        /\ existing' \in [Crawlers -> [id : Ids, document : Document] \cup {Unknown}]
        /\ \A d \in Crawlers : d # c =>
              record'[d] = record[d] /\ existing'[d] = existing[d]
    BY <1>3 DEF Exit, Goto, Phases, Finding, Updating, TypeOK
  <2> QED
    BY <1>3, <2>1, QuietInv DEF TypeOK
<1>4. ASSUME NEW c \in Crawlers, Fail(c) PROVE IInv'
  BY <1>3, <1>4 DEF Fail, TypeOK
<1>5. ASSUME NEW c \in Crawlers, NEW phase \in Finding, pc[c] \in Finding,
             Continue(c, phase)
      PROVE  IInv'
  <2>1. /\ pc' = [pc EXCEPT ![c] = phase] /\ phase \in Phases /\ phase \notin Updating
        /\ UNCHANGED <<mongo, site, todo, record, collided, existing, faults>>
    BY <1>5 DEF Continue, Goto, crawl, Phases, Finding, Updating
  <2> QED
    BY <1>5, <2>1, QuietInv DEF TypeOK
<1>6. ASSUME NEW c \in Crawlers, FindByKey(c) PROVE IInv'
  <2>1. pc[c] \in Finding /\ "id" \in Finding
    BY <1>6 DEF FindByKey, Finding
  <2>2. CASE Continue(c, "id")
    BY <1>5, <2>1, <2>2
  <2>3. ASSUME NEW i \in Owners(Incoming(c)),
               IF Compatible(leaked_data[i].content, record[c].content, i = record[c].id)
                 THEN Found(c, i) ELSE Fail(c)
        PROVE  IInv'
    BY <1>4, <2>1, <2>3, FoundInv DEF Owners
  <2> QED
    BY <1>6, <2>2, <2>3 DEF FindByKey
<1>7. ASSUME NEW c \in Crawlers, FindById(c) PROVE IInv'
  <2>1. pc[c] \in Finding /\ "scan" \in Finding
    BY <1>7 DEF FindById, Finding
  <2>2. CASE Continue(c, "scan")
    BY <1>5, <2>1, <2>2
  <2>3. CASE /\ record[c].id \in DOMAIN leaked_data
             /\ Compatible(leaked_data[record[c].id].content, record[c].content, TRUE)
             /\ Found(c, record[c].id)
    BY <2>1, <2>3, FoundInv
  <2> QED
    BY <1>4, <1>7, <2>2, <2>3 DEF FindById
<1>8. ASSUME NEW c \in Crawlers, FindByScan(c) PROVE IInv'
  <2>1. pc[c] \in Finding /\ "insert" \in Finding
    BY <1>8 DEF FindByScan, Finding
  <2>2. CASE Continue(c, "insert")
    BY <1>5, <2>1, <2>2
  <2> DEFINE matches == {i \in DOMAIN leaked_data :
                           Compatible(leaked_data[i].content, record[c].content, FALSE)}
  <2>3. ASSUME NEW i \in matches, Found(c, i)
        PROVE  IInv'
    BY <2>1, <2>3, FoundInv
  <2>4. Fail(c) \/ Continue(c, "insert") \/ \E i \in matches : Found(c, i)
    BY <1>8 DEF FindByScan
  <2> QED
    BY <1>4, <2>2, <2>3, <2>4
<1>9. ASSUME NEW c \in Crawlers, Insert(c) PROVE IInv'
  <2> DEFINE id  == record[c].id
             doc == [key |-> Incoming(c), content |-> record[c].content]
  <2>1. CASE /\ Owners(Incoming(c)) = {} /\ id \notin DOMAIN leaked_data
             /\ leaked_data' = Put(id, doc)
             /\ inserted' = inserted \cup {record[c].content}
             /\ Saved(c)
             /\ UNCHANGED <<leak_history, moved, expired, site, faults>>
    <3>1. record[c] \in Record /\ doc \in Document
      BY <1>9, IdentityType DEF Insert, Finding, TypeOK, Record, Document, Incoming
    <3>2. Unique(leaked_data')
      <4>1. doc.key = event_identity(doc.content, id)
        BY DEF Incoming
      <4>2. \A j \in DOMAIN leaked_data : leaked_data[j].key = doc.key => j = id
        BY <2>1 DEF Owners
      <4> QED
        BY <2>1, <4>1, <4>2, UniqueAfterPut DEF Put
    <3>3. TypeOK'
      <4>1. /\ DOMAIN leaked_data' \subseteq Ids
            /\ \A i \in DOMAIN leaked_data' : leaked_data'[i] \in Document
        BY <2>1, <3>1 DEF Put, TypeOK, Record
      <4>2. inserted' \subseteq Content
        BY <2>1, <3>1 DEF TypeOK, Record
      <4>3. /\ pc' = [pc EXCEPT ![c] = "next"]
            /\ "next" \in Phases /\ "next" \notin Finding \cup Updating
            /\ record' = [record EXCEPT ![c] = Unknown]
            /\ collided' = [collided EXCEPT ![c] = FALSE]
            /\ existing' = [existing EXCEPT ![c] = Unknown]
            /\ todo' = todo
        BY <2>1 DEF Saved, Goto, Phases, Finding, Updating
      <4> QED
        BY <2>1, <4>1, <4>2, <4>3 DEF TypeOK
    <3>4. HistoryExplains'
      BY <2>1 DEF HistoryExplains, Explained, Written, Put
    <3>5. ASSUME NEW d \in Crawlers PROVE ReadsWell(d)' /\ RowWritten(d)'
      <4>1. CASE d # c
        BY <2>1, <4>1, OthersUndisturbed DEF Saved, Goto, TypeOK, Written
      <4>2. CASE d = c
        BY <2>1, <4>2 DEF Saved, Goto, ReadsWell, RowWritten, Updating, TypeOK
      <4> QED
        BY <4>1, <4>2
    <3> QED
      BY <3>2, <3>3, <3>4, <3>5
  <2>2. CASE /\ Goto(c, "key")
             /\ collided' = [collided EXCEPT ![c] = TRUE]
             /\ UNCHANGED <<leaked_data, inserted, todo, record, existing>>
             /\ UNCHANGED <<leak_history, moved, expired, site, faults>>
    <3>1. /\ pc' = [pc EXCEPT ![c] = "key"] /\ "key" \in Phases /\ "key" \notin Updating
          /\ record[c] \in Record /\ collided' \in [Crawlers -> BOOLEAN]
          /\ UNCHANGED mongo
      BY <1>9, <2>2 DEF Insert, Goto, Phases, Finding, Updating, TypeOK, mongo
    <3> QED
      BY <2>2, <3>1, QuietInv DEF TypeOK
  <2> QED
    BY <1>9, <2>1, <2>2 DEF Insert
<1>10. ASSUME NEW c \in Crawlers, CheckOwner(c) PROVE IInv'
  <2>1. ASSUME Continue(c, IF Changes(c) THEN "history" ELSE "current") PROVE IInv'
    <3> DEFINE phase == IF Changes(c) THEN "history" ELSE "current"
    <3>1. /\ pc[c] \in Updating /\ phase \in Phases /\ phase \notin Finding
          /\ phase # "current" \/ ~ Changes(c)
      BY <1>10 DEF CheckOwner, Phases, Finding, Updating
    <3>2. /\ pc' = [pc EXCEPT ![c] = phase]
          /\ UNCHANGED <<mongo, site, todo, record, collided, existing, faults>>
      BY <2>1 DEF Continue, Goto, crawl
    <3> HIDE DEF phase
    <3> QED
      BY <3>1, <3>2, QuietInv DEF TypeOK
  <2> QED
    BY <1>4, <1>10, <2>1 DEF CheckOwner
<1>11. ASSUME NEW c \in Crawlers, RecordChange(c) PROVE IInv'
  <2>1. /\ pc[c] = "history" /\ pc' = [pc EXCEPT ![c] = "current"]
        /\ leak_history' = leak_history \cup {Change(c)}
        /\ UNCHANGED <<leaked_data, inserted, moved, expired, site, todo, record, collided,
                       existing, faults>>
    BY <1>11 DEF RecordChange, Goto, crawl
  <2>2. /\ record[c] \in Record /\ existing[c].id \in Ids
        /\ existing[c].document.content \in Content
        /\ Explained(existing[c].document.content)
    BY <2>1 DEF TypeOK, Updating, Document, ReadsWell
  <2>3. Change(c) \in Row
    <3>1. Effect(c) \in Content
      BY <2>2, EffectiveType DEF Effect, Record
    <3>2. EffectKey(c) \in Keys
      BY <2>2, <3>1, IdentityType DEF EffectKey
    <3> QED
      BY <2>2, <3>1, <3>2 DEF Change, Row
  <2>4. TypeOK'
    BY <2>1, <2>3 DEF TypeOK, Phases, Updating, Finding
  <2>5. HistoryExplains'
    <3>1. Change(c).before = existing[c].document.content
      BY DEF Change
    <3> QED
      BY <2>1, <2>2, <3>1 DEF HistoryExplains, Explained, Written
  <2>6. ASSUME NEW d \in Crawlers PROVE ReadsWell(d)' /\ RowWritten(d)'
    <3>1. CASE d # c
      BY <2>1, <3>1, OthersUndisturbed DEF TypeOK, Written
    <3>2. CASE d = c
      <4>1. ReadsWell(c)'
        BY <2>1 DEF ReadsWell, Explained, Written, Updating, TypeOK
      <4>2. Change(c)' = Change(c)
        BY <2>1 DEF Change, EffectKey, Effect
      <4>3. RowWritten(c)'
        BY <2>1, <4>2 DEF RowWritten, Written
      <4> QED
        BY <3>2, <4>1, <4>3
    <3> QED
      BY <3>1, <3>2
  <2> QED
    BY <2>1, <2>4, <2>5, <2>6
<1>12. ASSUME NEW c \in Crawlers, UpdateCurrent(c) PROVE IInv'
  <2> DEFINE id  == existing[c].id
             doc == [key |-> EffectKey(c), content |-> Effect(c)]
  <2>1. /\ record[c] \in Record /\ existing[c].id \in Ids
        /\ existing[c].document.content \in Content
        /\ pc[c] = "current"
        /\ Explained(existing[c].document.content)
    BY <1>12 DEF UpdateCurrent, TypeOK, Updating, Document, ReadsWell
  <2>2. Effect(c) \in Content /\ EffectKey(c) \in Keys /\ Change(c) \in Row
    <3>1. Effect(c) \in Content
      BY <2>1, EffectiveType DEF Effect, Record
    <3>2. EffectKey(c) \in Keys
      BY <2>1, <3>1, IdentityType DEF EffectKey
    <3> QED
      BY <2>1, <3>1, <3>2 DEF Change, Row
  <2>3. CASE /\ id \in DOMAIN leaked_data
             /\ Owners(EffectKey(c)) \subseteq {id}
             /\ leaked_data' = Put(id, doc)
             /\ moved' = IF Changes(c) THEN moved \cup {Change(c)} ELSE moved
             /\ Saved(c)
             /\ UNCHANGED <<leak_history, inserted, expired, site, faults>>
    <3>1. Unique(leaked_data')
      <4>1. doc.key = event_identity(doc.content, id)
        BY DEF EffectKey
      <4>2. \A j \in DOMAIN leaked_data : leaked_data[j].key = doc.key => j = id
        BY <2>3 DEF Owners
      <4> QED
        BY <2>3, <4>1, <4>2, UniqueAfterPut DEF Put
    <3>2. Explained(Effect(c))
      <4>1. CASE Changes(c)
        BY <2>1, <4>1 DEF RowWritten, Change, Explained
      <4>2. CASE ~ Changes(c)
        BY <2>1, <4>2 DEF Changes
      <4> QED
        BY <4>1, <4>2
    <3>3. HistoryExplains'
      BY <2>3, <3>2 DEF HistoryExplains, Explained, Written, Put
    <3>4. TypeOK'
      <4>1. /\ DOMAIN leaked_data' \subseteq Ids
            /\ \A i \in DOMAIN leaked_data' : leaked_data'[i] \in Document
        BY <2>1, <2>2, <2>3 DEF Put, TypeOK, Document
      <4>2. moved' \subseteq Row
        BY <2>2, <2>3 DEF TypeOK
      <4>3. /\ pc' = [pc EXCEPT ![c] = "next"]
            /\ "next" \in Phases /\ "next" \notin Finding \cup Updating
            /\ record' = [record EXCEPT ![c] = Unknown]
            /\ collided' = [collided EXCEPT ![c] = FALSE]
            /\ existing' = [existing EXCEPT ![c] = Unknown]
            /\ todo' = todo
        BY <2>3 DEF Saved, Goto, Phases, Finding, Updating
      <4> QED
        BY <2>3, <4>1, <4>2, <4>3 DEF TypeOK
    <3>5. ASSUME NEW d \in Crawlers PROVE ReadsWell(d)' /\ RowWritten(d)'
      <4>1. CASE d # c
        BY <2>3, <4>1, OthersUndisturbed DEF Saved, Goto, TypeOK, Written
      <4>2. CASE d = c
        BY <2>3, <4>2 DEF Saved, Goto, ReadsWell, RowWritten, Updating, TypeOK
      <4> QED
        BY <4>1, <4>2
    <3> QED
      BY <3>1, <3>3, <3>4, <3>5
  <2> QED
    BY <1>4, <1>12, <2>3 DEF UpdateCurrent
<1>13. ASSUME NEW c \in Crawlers, Killed(c) PROVE IInv'
  <2>1. faults' \in 0 .. MaxFaults
    BY <1>13, InputAssumption DEF Killed, Fault, TypeOK
  <2> QED
    BY <1>3, <1>13, <2>1 DEF Killed
<1>14. ASSUME NEW i \in Ids, ExpireEvent(i) PROVE IInv'
  <2>1. /\ leaked_data' = [j \in DOMAIN leaked_data \ {i} |-> leaked_data[j]]
        /\ faults' \in 0 .. MaxFaults
        /\ UNCHANGED <<leak_history, inserted, moved, expired, site, pc, todo, record, collided,
                       existing>>
    BY <1>14, InputAssumption DEF ExpireEvent, Fault, TypeOK, crawl
  <2>2. Unique(leaked_data')
    BY <2>1, UniqueAfterDelete
  <2>3. TypeOK'
    BY <2>1 DEF TypeOK
  <2>4. HistoryExplains'
    BY <2>1 DEF HistoryExplains, Explained, Written
  <2>5. ASSUME NEW d \in Crawlers PROVE ReadsWell(d)' /\ RowWritten(d)'
    BY <2>1, OthersUndisturbed DEF Written
  <2> QED
    BY <2>2, <2>3, <2>4, <2>5
<1>15. ASSUME Publish PROVE IInv'
  <2>1. /\ site' \in Pages
        /\ UNCHANGED <<leaked_data, leak_history, inserted, moved, expired, pc, todo, record,
                       collided, existing, faults>>
    BY <1>15 DEF Publish, mongo, crawl
  <2>2. TypeOK' /\ Unique(leaked_data') /\ HistoryExplains'
    BY <2>1 DEF TypeOK, HistoryExplains, Explained, Written
  <2>3. ASSUME NEW d \in Crawlers PROVE ReadsWell(d)' /\ RowWritten(d)'
    BY <2>1, OthersUndisturbed DEF Written
  <2> QED
    BY <2>2, <2>3
<1>16. CASE UNCHANGED vars
  <2>1. TypeOK' /\ Unique(leaked_data') /\ HistoryExplains'
    BY <1>16 DEF vars, TypeOK, HistoryExplains, Explained, Written
  <2>2. ASSUME NEW d \in Crawlers PROVE ReadsWell(d)' /\ RowWritten(d)'
    BY <1>16, OthersUndisturbed DEF vars, Written
  <2> QED
    BY <2>1, <2>2
<1>17. ASSUME NEW c \in Crawlers, AllSaved(c) PROVE IInv'
  BY <1>3, <1>17 DEF AllSaved, TypeOK
<1>18. ASSUME NEW row \in leak_history, ExpireRow(row) PROVE IInv'
  <2>1. /\ leak_history' = leak_history \ {row} /\ expired' = expired \cup {row}
        /\ faults' \in 0 .. MaxFaults
        /\ UNCHANGED <<leaked_data, inserted, moved, site, pc, todo, record, collided,
                       existing>>
    BY <1>18, InputAssumption DEF ExpireRow, Fault, TypeOK, crawl
  <2>2. Written' = Written
    BY <2>1 DEF Written
  <2>3. TypeOK'
    BY <2>1 DEF TypeOK
  <2>4. HistoryExplains'
    BY <2>1, <2>2 DEF HistoryExplains, Explained
  <2>5. ASSUME NEW d \in Crawlers PROVE ReadsWell(d)' /\ RowWritten(d)'
    BY <2>1, <2>2, OthersUndisturbed
  <2> QED
    BY <2>1, <2>3, <2>4, <2>5
<1> QED
  BY <1>1, <1>2, <1>6, <1>7, <1>8, <1>9, <1>10, <1>11, <1>12, <1>13, <1>14, <1>15,
     <1>16, <1>17, <1>18 DEF Next, Step

\* IInv is an invariant of EventStorage.
THEOREM Invariance == Spec => []IInv
  BY InitInv, NextInv, PTL DEF Spec

\* Every variable keeps its type, whatever is saved, killed or deleted.
THEOREM TypeCorrectness == Spec => []TypeOK
<1>1. IInv => TypeOK
  BY DEF IInv
<1> QED
  BY <1>1, Invariance, PTL

\* No interleaving of any number of crawlers makes two managed documents of one
\* event, or leaves a document under a key its content does not call for.
THEOREM EventsAreUnique == Spec => []OneDocumentPerEvent
<1>1. IInv => OneDocumentPerEvent
  BY UniqueIsInvariant DEF IInv
<1> QED
  BY <1>1, Invariance, PTL

\* Whatever is current was inserted or is the end of a change whose row was written,
\* and so is the start of every change the history tells of, though rows and events
\* expire each on their own.
THEOREM HistoryIsChained == Spec => []HistoryExplains
<1>1. IInv => HistoryExplains
  BY DEF IInv
<1> QED
  BY <1>1, Invariance, PTL

-----------------------------------------------------------------------------
(* One crawler at a time.  What it read is then what it writes over.       *)

Unchanged(c) ==
    pc[c] \in Updating /\ existing[c].id \in DOMAIN leaked_data =>
        leaked_data[existing[c].id] = existing[c].document

\* A step of one crawler leaves what another knows.
LEMMA OthersStay ==
    ASSUME TypeOK, NEW c \in Crawlers, NEW d \in Crawlers, c # d, Step(d) \/ Killed(d)
    PROVE  pc'[c] = pc[c] /\ record'[c] = record[c] /\ existing'[c] = existing[c]
<1>1. ASSUME Exit(d) \/ Saved(d)
      PROVE  pc'[c] = pc[c] /\ record'[c] = record[c] /\ existing'[c] = existing[c]
  BY <1>1 DEF Exit, Saved, Goto, TypeOK
<1>2. ASSUME NEW i, Found(d, i)
      PROVE  pc'[c] = pc[c] /\ record'[c] = record[c] /\ existing'[c] = existing[c]
  BY <1>2 DEF Found, Goto, TypeOK
<1>3. ASSUME NEW phase, Continue(d, phase)
      PROVE  pc'[c] = pc[c] /\ record'[c] = record[c] /\ existing'[c] = existing[c]
  BY <1>3 DEF Continue, Goto, TypeOK, crawl
<1>4. CASE save_records(d) \/ \E r \in todo[d] : save_record(d, r)
  BY <1>4 DEF save_records, save_record, Goto, TypeOK
<1>5. CASE AllSaved(d) \/ Killed(d)
  BY <1>1, <1>5 DEF AllSaved, Killed
<1>6. CASE FindByKey(d) \/ FindById(d) \/ CheckOwner(d)
  BY <1>1, <1>2, <1>3, <1>6 DEF FindByKey, FindById, CheckOwner, Fail
<1>7. CASE FindByScan(d)
  <2>1. Fail(d) \/ Continue(d, "insert") \/ \E i \in DOMAIN leaked_data : Found(d, i)
    BY <1>7 DEF FindByScan
  <2> QED
    BY <1>1, <1>2, <1>3, <2>1 DEF Fail
<1>8. CASE Insert(d)
  <2>1. Saved(d) \/ (Goto(d, "key") /\ UNCHANGED <<record, existing>>)
    BY <1>8 DEF Insert
  <2> QED
    BY <1>1, <2>1 DEF Goto, TypeOK
<1>9. CASE RecordChange(d)
  BY <1>9 DEF RecordChange, Goto, TypeOK, crawl
<1>10. CASE UpdateCurrent(d)
  BY <1>1, <1>10 DEF UpdateCurrent, Fail
<1> QED
  BY <1>4, <1>5, <1>6, <1>7, <1>8, <1>9, <1>10 DEF Step

\* A crawler that is idle can only start.
LEMMA IdleStarts ==
    ASSUME NEW d \in Crawlers, pc[d] = "idle", Step(d) \/ Killed(d)
    PROVE  save_records(d)
  BY DEF Step, Killed, AllSaved, save_record, FindByKey, FindById, FindByScan, Insert,
         CheckOwner, RecordChange, UpdateCurrent

\* Only the crawler itself touches the document it read, or retention, which
\* leaves nothing to write over.
LEMMA UnchangedInv ==
    ASSUME OneAtATime, IInv, [Next]_vars, \A c \in Crawlers : Unchanged(c)
    PROVE  \A c \in Crawlers : Unchanged(c)'
<1> SUFFICES ASSUME NEW c \in Crawlers PROVE Unchanged(c)'
  OBVIOUS
<1> USE DEF IInv
<1>1. ASSUME Exit(c) \/ Saved(c) PROVE Unchanged(c)'
  BY <1>1 DEF Exit, Saved, Goto, Unchanged, Updating, TypeOK
<1>2. ASSUME NEW i \in DOMAIN leaked_data, Found(c, i) PROVE Unchanged(c)'
  BY <1>2 DEF Found, Unchanged, TypeOK, mongo
<1>3. ASSUME pc'[c] \notin Updating PROVE Unchanged(c)'
  BY <1>3 DEF Unchanged
<1>4. ASSUME UNCHANGED <<leaked_data, existing>>, pc[c] \in Updating PROVE Unchanged(c)'
  BY <1>4 DEF Unchanged
<1>5. ASSUME Step(c) PROVE Unchanged(c)'
  <2>1. CASE save_records(c)
    BY <1>3, <2>1 DEF save_records, Goto, Updating, TypeOK
  <2>2. CASE AllSaved(c)
    BY <1>1, <2>2 DEF AllSaved
  <2>3. CASE \E r \in todo[c] : save_record(c, r)
    BY <1>3, <2>3 DEF save_record, Goto, Updating, TypeOK
  <2>4. ASSUME NEW phase \in Finding, Continue(c, phase) PROVE Unchanged(c)'
    BY <1>3, <2>4 DEF Continue, Goto, Finding, Updating, TypeOK
  <2>5. CASE FindByKey(c)
    BY <1>1, <1>2, <2>4, <2>5 DEF FindByKey, Fail, Owners, Finding
  <2>6. CASE FindById(c)
    BY <1>1, <1>2, <2>4, <2>6 DEF FindById, Fail, Finding
  <2>7. CASE FindByScan(c)
    <3>1. Fail(c) \/ Continue(c, "insert") \/ \E i \in DOMAIN leaked_data : Found(c, i)
      BY <2>7 DEF FindByScan
    <3> QED
      BY <1>1, <1>2, <2>4, <3>1 DEF Fail, Finding
  <2>8. CASE Insert(c)
    <3>1. Saved(c) \/ Goto(c, "key")
      BY <2>8 DEF Insert
    <3>2. CASE Goto(c, "key")
      BY <1>3, <3>2 DEF Goto, Updating, TypeOK
    <3> QED
      BY <1>1, <3>1, <3>2
  <2>9. CASE CheckOwner(c)
    BY <1>1, <1>4, <2>9 DEF CheckOwner, Continue, Fail, mongo, crawl, Updating
  <2>10. CASE RecordChange(c)
    BY <1>4, <2>10 DEF RecordChange, crawl, Updating
  <2>11. CASE UpdateCurrent(c)
    BY <1>1, <2>11 DEF UpdateCurrent, Fail
  <2> QED
    BY <1>5, <2>1, <2>2, <2>3, <2>5, <2>6, <2>7, <2>8, <2>9, <2>10, <2>11 DEF Step
<1>6. CASE Killed(c)
  BY <1>1, <1>6 DEF Killed
<1>7. ASSUME NEW i \in Ids, ExpireEvent(i) PROVE Unchanged(c)'
  BY <1>7 DEF ExpireEvent, Unchanged, crawl
<1>8. CASE Publish \/ UNCHANGED vars
  BY <1>8 DEF Publish, Unchanged, mongo, crawl, vars
<1>9. ASSUME NEW d \in Crawlers, d # c, Step(d) \/ Killed(d) PROVE Unchanged(c)'
  <2>1. pc'[c] = pc[c] /\ existing'[c] = existing[c]
    BY <1>9, OthersStay
  <2>2. CASE pc[c] = "idle"
    BY <1>3, <2>1, <2>2 DEF Updating
  <2>3. CASE pc[c] # "idle"
    <3>1. save_records(d)
      BY <1>9, <2>3, IdleStarts DEF OneAtATime
    <3> QED
      BY <2>1, <3>1 DEF save_records, mongo, Unchanged
  <2> QED
    BY <2>2, <2>3
<1>10. ASSUME NEW row, ExpireRow(row) PROVE Unchanged(c)'
  BY <1>10 DEF ExpireRow, Unchanged, crawl
<1> QED
  BY <1>5, <1>6, <1>7, <1>8, <1>9, <1>10 DEF Next

\* The document that changes is the one some crawler updates.
LEMMA MoverUpdates ==
    ASSUME IInv, Next, NEW i, i \in DOMAIN leaked_data, i \in DOMAIN leaked_data',
           leaked_data[i] # leaked_data'[i]
    PROVE  \E c \in Crawlers :
              /\ pc[c] = "current" /\ existing[c].id = i
              /\ leaked_data'[i] = [key |-> EffectKey(c), content |-> Effect(c)]
<1> SUFFICES ASSUME leaked_data' # leaked_data,
                    \A c \in Crawlers : ~ (UpdateCurrent(c) /\ existing[c].id = i)
             PROVE  FALSE
  BY DEF UpdateCurrent, Put, Fail, mongo
<1>1. ASSUME NEW x, ExpireEvent(x) \/ ExpireRow(x) PROVE FALSE
  BY <1>1 DEF ExpireEvent, ExpireRow
<1>2. ASSUME Publish PROVE FALSE
  BY <1>2 DEF Publish, mongo
<1>3. ASSUME NEW c \in Crawlers, Killed(c) PROVE FALSE
  BY <1>3 DEF Killed, mongo
<1>4. ASSUME NEW c \in Crawlers, Insert(c) PROVE FALSE
  BY <1>4 DEF Insert, Put
<1>5. ASSUME NEW c \in Crawlers, UpdateCurrent(c) PROVE FALSE
  BY <1>5 DEF UpdateCurrent, Put, Fail, mongo
<1>6. ASSUME NEW c \in Crawlers,
             \/ save_records(c) \/ AllSaved(c)
             \/ \E r \in todo[c] : save_record(c, r)
             \/ FindByKey(c) \/ FindById(c) \/ FindByScan(c)
             \/ CheckOwner(c) \/ RecordChange(c)
      PROVE  FALSE
  BY <1>6 DEF save_records, AllSaved, save_record, FindByKey, FindById, FindByScan,
              CheckOwner, RecordChange, Found, Continue, Fail, mongo
<1> QED
  BY <1>1, <1>2, <1>3, <1>4, <1>5, <1>6 DEF Next, Step

\* With one crawler at a time a document changes only along a row that was written.
THEOREM ChangesAreRecorded == Spec /\ []OneAtATime => ChangeRecorded
<1>1. Init => \A c \in Crawlers : Unchanged(c)
  BY DEF Init, Unchanged, Updating
<1>2. OneAtATime /\ IInv /\ (\A c \in Crawlers : Unchanged(c)) /\ [Next]_vars
        => (\A c \in Crawlers : Unchanged(c))'
  BY UnchangedInv
<1>3. IInv /\ (\A c \in Crawlers : Unchanged(c)) /\ [Next]_vars
        => [\A i \in Ids : Moves(i) => Move(i) \in Written]_vars
  <2> SUFFICES ASSUME IInv, \A c \in Crawlers : Unchanged(c), Next,
                      NEW i \in Ids, Moves(i)
               PROVE  Move(i) \in Written
    OBVIOUS
  <2>1. PICK c \in Crawlers :
           /\ pc[c] = "current" /\ existing[c].id = i
           /\ leaked_data'[i] = [key |-> EffectKey(c), content |-> Effect(c)]
    BY MoverUpdates DEF Moves
  <2>2. leaked_data[i] = existing[c].document
    BY <2>1 DEF Unchanged, Moves, Updating
  <2>3. Move(i) = Change(c) /\ Changes(c)
    BY <2>1, <2>2 DEF Move, Change, Changes, Moves
  <2> QED
    BY <2>1, <2>3 DEF IInv, RowWritten
<1> QED
  BY <1>1, <1>2, <1>3, Invariance, PTL DEF Spec, ChangeRecorded

\* With one crawler at a time a document that has a URL keeps it.
THEOREM KnownUrlsStay == Spec /\ []OneAtATime => NeverDemoted
<1>1. Init => \A c \in Crawlers : Unchanged(c)
  BY DEF Init, Unchanged, Updating
<1>2. OneAtATime /\ IInv /\ (\A c \in Crawlers : Unchanged(c)) /\ [Next]_vars
        => (\A c \in Crawlers : Unchanged(c))'
  BY UnchangedInv
<1>3. IInv /\ (\A c \in Crawlers : Unchanged(c)) /\ [Next]_vars
        => [\A i \in DOMAIN leaked_data \cap DOMAIN leaked_data' :
              leaked_data[i].content.url # Unknown =>
                 leaked_data'[i].content.url = leaked_data[i].content.url]_vars
  <2> SUFFICES ASSUME IInv, \A c \in Crawlers : Unchanged(c), Next,
                      NEW i \in DOMAIN leaked_data \cap DOMAIN leaked_data',
                      leaked_data[i].content.url # Unknown,
                      leaked_data[i] # leaked_data'[i]
               PROVE  leaked_data'[i].content.url = leaked_data[i].content.url
    OBVIOUS
  <2>1. PICK c \in Crawlers :
           /\ pc[c] = "current" /\ existing[c].id = i
           /\ leaked_data'[i] = [key |-> EffectKey(c), content |-> Effect(c)]
    BY MoverUpdates
  <2>2. leaked_data[i] = existing[c].document
    BY <2>1 DEF Unchanged, Updating
  <2>3. Compatible(leaked_data[i].content, record[c].content, TRUE)
    BY <2>1, <2>2 DEF IInv, ReadsWell, Updating
  <2>4. leaked_data'[i].content.url
          = Known(leaked_data[i].content.url, record[c].content.url)
    BY <2>1, <2>2 DEF Effect, Effective
  <2> QED
    BY <2>3, <2>4 DEF Compatible, Known
<1> QED
  BY <1>1, <1>2, <1>3, Invariance, PTL DEF Spec, NeverDemoted

-----------------------------------------------------------------------------
(* Rows of changes that were not made.  A crawler leaves such a row only     *)
(* where a fault comes between its writes: a kill after the row, or a        *)
(* deletion of the document it has read.  What keeps NoFalseHistory is that  *)
(* the fault of such a deletion is counted before the row is written.        *)

\* The document to be updated was deleted since it was read.
Gone(c) == pc[c] \in Updating /\ existing[c].id \notin DOMAIN leaked_data

\* The rows whose change will not be made.
Stranded(c) == {row \in leak_history \ moved : Pending(c) => row # Change(c)}

\* Each has its fault, and so has the row to be stranded by a deletion.
Paid(c) ==
    /\ IsFiniteSet(leak_history)
    /\ Cardinality(Stranded(c)) <= faults
    /\ Gone(c) => Cardinality(Stranded(c)) < faults

\* The key of the update is free, or the document's.
Entitled(c) ==
    pc[c] \in {"history", "current"} /\ existing[c].id \in DOMAIN leaked_data =>
        Owners(EffectKey(c)) \subseteq {existing[c].id}

Ledger(c) ==
    /\ Unchanged(c) /\ Paid(c) /\ Entitled(c)
    /\ pc[c] = "history" => Changes(c)

\* A part of a finite set, and a part of it with one more element.
LEMMA Parts ==
    ASSUME NEW S, IsFiniteSet(S), NEW T, NEW x
    PROVE  /\ Cardinality(S) \in Nat
           /\ T \subseteq S => Cardinality(T) \in Nat /\ Cardinality(T) <= Cardinality(S)
           /\ T \subseteq S \cup {x} =>
                 Cardinality(T) \in Nat /\ Cardinality(T) <= Cardinality(S) + 1
<1>1. Cardinality(S) \in Nat
  BY FS_CardinalityType
<1>2. IsFiniteSet(S \cup {x}) /\ Cardinality(S \cup {x}) <= Cardinality(S) + 1
  BY <1>1, FS_AddElement
<1> QED
  BY <1>1, <1>2, FS_Subset, FS_CardinalityType

\* Steps that add no stranded row and forget no deletion.
LEMMA NothingStranded ==
    ASSUME NEW c \in Crawlers, TypeOK, Paid(c), IsFiniteSet(leak_history'),
           Stranded(c)' \subseteq Stranded(c), Gone(c)' => Gone(c), faults' = faults
    PROVE  Paid(c)'
<1>1. IsFiniteSet(Stranded(c))
  BY FS_Subset DEF Paid, Stranded
<1>2. Cardinality(Stranded(c)') \in Nat /\ Cardinality(Stranded(c)') <= Cardinality(Stranded(c))
  BY <1>1, Parts
<1>3. Cardinality(Stranded(c)) \in Nat /\ faults \in Nat
  BY <1>1, FS_CardinalityType, InputAssumption DEF TypeOK
<1> QED
  BY <1>2, <1>3 DEF Paid

\* Steps that strand at most the crawler's own row: a fault, or the end of an
\* update whose document is gone.
LEMMA OneStranded ==
    ASSUME NEW c \in Crawlers, TypeOK, Paid(c), UNCHANGED leak_history,
           Stranded(c)' \subseteq Stranded(c) \cup {Change(c)}, ~ Gone(c)',
           faults' = faults + 1 \/ (Gone(c) /\ faults' = faults)
    PROVE  Paid(c)'
<1>1. IsFiniteSet(Stranded(c))
  BY FS_Subset DEF Paid, Stranded
<1>2. /\ Cardinality(Stranded(c)') \in Nat
      /\ Cardinality(Stranded(c)') <= Cardinality(Stranded(c)) + 1
  BY <1>1, Parts
<1>3. Cardinality(Stranded(c)) \in Nat /\ faults \in Nat
  BY <1>1, FS_CardinalityType, InputAssumption DEF TypeOK
<1> QED
  BY <1>2, <1>3 DEF Paid

\* A crawler that has no row pending and does not touch the history.
LEMMA QuietLedger ==
    ASSUME NEW c \in Crawlers, IInv, Ledger(c), UNCHANGED <<leak_history, moved, faults>>,
           pc[c] # "current", Gone(c)' => Gone(c)
    PROVE  Paid(c)'
<1>1. Stranded(c)' \subseteq Stranded(c)
  BY DEF Stranded, Pending
<1> QED
  BY <1>1, NothingStranded DEF Ledger, Paid, IInv

\* The document found has its key to itself.
LEMMA FoundLedger ==
    ASSUME IInv, NEW c \in Crawlers, NEW i \in DOMAIN leaked_data, Ledger(c),
           pc[c] \in Finding, Found(c, i)
    PROVE  Paid(c)' /\ Entitled(c)' /\ (pc[c] = "history" => Changes(c))'
<1> DEFINE old == leaked_data[i]
           new == Effective(old.content, record[c].content)
<1>1. /\ pc'[c] = (IF event_identity(new, i) # old.key THEN "owner"
                   ELSE IF new # old.content THEN "history" ELSE "current")
      /\ existing'[c] = [id |-> i, document |-> old]
      /\ UNCHANGED <<leaked_data, leak_history, record, moved, faults>>
  BY DEF Found, Goto, IInv, TypeOK, mongo
<1>2. /\ EffectKey(c)' = event_identity(new, i) /\ Effect(c)' = new
      /\ existing'[c].id = i /\ (Changes(c))' = (new # old.content)
  BY <1>1 DEF EffectKey, Effect, Changes
<1>3. event_identity(new, i) \in Keys
  <2>1. i \in Ids /\ old.content \in Content /\ record[c].content \in Content
    BY DEF IInv, TypeOK, Document, Record
  <2> QED
    BY <2>1, EffectiveType, IdentityType
<1>4. Paid(c)'
  <2>1. ~ Gone(c)'
    BY <1>1 DEF Gone
  <2> QED
    BY <1>1, <2>1, QuietLedger DEF Finding
<1>5. Entitled(c)'
  <2>1. pc'[c] \in {"history", "current"} => event_identity(new, i) = old.key
    BY <1>1
  <2>2. event_identity(new, i) = old.key =>
           Owners(event_identity(new, i)) \subseteq {i}
    BY <1>3, InputAssumption DEF IInv, Unique, Owners
  <2>3. Owners(EffectKey(c))' = Owners(event_identity(new, i))
    BY <1>1, <1>2 DEF Owners
  <2> HIDE DEF old, new
  <2> QED
    BY <1>2, <2>1, <2>2, <2>3 DEF Entitled
<1>6. pc'[c] = "history" => (Changes(c))'
  BY <1>1, <1>2
<1> QED
  BY <1>4, <1>5, <1>6

\* A single crawler keeps its ledger.
LEMMA StepLedger ==
    ASSUME IInv, NEW c \in Crawlers, Ledger(c), Step(c)
    PROVE  Paid(c)' /\ Entitled(c)' /\ (pc[c] = "history" => Changes(c))'
<1> USE DEF IInv
<1>1. ASSUME pc[c] # "current", pc'[c] \notin Updating,
             UNCHANGED <<leak_history, moved, faults>>
      PROVE  Paid(c)' /\ Entitled(c)' /\ (pc[c] = "history" => Changes(c))'
  <2>1. ~ Gone(c)' /\ Entitled(c)' /\ pc'[c] # "history"
    BY <1>1 DEF Gone, Entitled, Updating
  <2> QED
    BY <1>1, <2>1, QuietLedger
<1>2. ASSUME pc[c] # "current", Fail(c)
      PROVE  Paid(c)' /\ Entitled(c)' /\ (pc[c] = "history" => Changes(c))'
  BY <1>1, <1>2 DEF Fail, Exit, Goto, Updating, TypeOK, mongo
<1>3. ASSUME NEW phase \in Finding, pc[c] # "current", Continue(c, phase)
      PROVE  Paid(c)' /\ Entitled(c)' /\ (pc[c] = "history" => Changes(c))'
  BY <1>1, <1>3 DEF Continue, Goto, Finding, Updating, TypeOK, mongo
<1>4. CASE save_records(c)
  BY <1>1, <1>4 DEF save_records, Goto, Updating, TypeOK, mongo
<1>5. CASE AllSaved(c)
  BY <1>1, <1>5 DEF AllSaved, Exit, Goto, Updating, TypeOK, mongo
<1>6. CASE \E r \in todo[c] : save_record(c, r)
  BY <1>1, <1>6 DEF save_record, Goto, Updating, TypeOK, mongo
<1>7. CASE FindByKey(c)
  BY <1>2, <1>3, <1>7, FoundLedger DEF FindByKey, Owners, Finding
<1>8. CASE FindById(c)
  BY <1>2, <1>3, <1>8, FoundLedger DEF FindById, Finding
<1>9. CASE FindByScan(c)
  <2>1. Fail(c) \/ Continue(c, "insert") \/ \E i \in DOMAIN leaked_data : Found(c, i)
    BY <1>9 DEF FindByScan
  <2>2. pc[c] = "scan"
    BY <1>9 DEF FindByScan
  <2> QED
    BY <1>2, <1>3, <2>1, <2>2, FoundLedger DEF Finding
<1>10. CASE Insert(c)
  <2>1. pc[c] = "insert" /\ UNCHANGED <<leak_history, moved, faults>>
    BY <1>10 DEF Insert
  <2>2. pc'[c] \in {"next", "key"}
    BY <1>10 DEF Insert, Saved, Goto, TypeOK
  <2> QED
    BY <1>1, <2>1, <2>2 DEF Updating
<1>11. CASE CheckOwner(c)
  <2>1. pc[c] = "owner"
    BY <1>11 DEF CheckOwner
  <2>2. CASE Fail(c)
    BY <1>2, <2>1, <2>2
  <2>3. CASE /\ Owners(EffectKey(c)) \subseteq {existing[c].id}
             /\ Continue(c, IF Changes(c) THEN "history" ELSE "current")
    <3>1. /\ pc'[c] = (IF Changes(c) THEN "history" ELSE "current")
          /\ UNCHANGED <<leaked_data, leak_history, moved, faults, record, existing>>
      BY <2>3 DEF Continue, Goto, TypeOK, mongo, crawl
    <3>2. (Gone(c)' => Gone(c)) /\ Owners(EffectKey(c))' = Owners(EffectKey(c))
      BY <2>1, <3>1 DEF Gone, Updating, Owners, EffectKey, Effect
    <3>3. Changes(c)' = Changes(c)
      BY <3>1 DEF Changes, Effect
    <3>4. Paid(c)'
      BY <2>1, <3>1, <3>2, QuietLedger
    <3> QED
      BY <2>3, <3>1, <3>2, <3>3, <3>4 DEF Entitled
  <2> QED
    BY <1>11, <2>2, <2>3 DEF CheckOwner
<1>12. CASE RecordChange(c)
  <2>1. /\ pc[c] = "history" /\ pc'[c] = "current"
        /\ leak_history' = leak_history \cup {Change(c)}
        /\ UNCHANGED <<leaked_data, moved, faults, record, existing>>
    BY <1>12 DEF RecordChange, Goto, TypeOK, crawl
  <2>2. /\ Change(c)' = Change(c) /\ Changes(c)' = Changes(c)
        /\ Owners(EffectKey(c))' = Owners(EffectKey(c))
    BY <2>1 DEF Change, Changes, Effect, EffectKey, Owners
  <2>3. Stranded(c)' \subseteq Stranded(c)
    BY <2>1, <2>2 DEF Stranded, Pending, Ledger
  <2>4. IsFiniteSet(leak_history')
    BY <2>1, FS_AddElement DEF Ledger, Paid
  <2>5. Gone(c)' => Gone(c)
    BY <2>1 DEF Gone, Updating
  <2>6. Paid(c)'
    BY <2>1, <2>3, <2>4, <2>5, NothingStranded DEF Ledger
  <2> QED
    BY <2>1, <2>2, <2>6 DEF Entitled, Ledger
<1>13. CASE UpdateCurrent(c)
  <2>1. pc[c] = "current"
    BY <1>13 DEF UpdateCurrent
  <2>2. ASSUME pc'[c] \notin Updating
        PROVE  Entitled(c)' /\ ~ Gone(c)' /\ ~ Pending(c)' /\ pc'[c] # "history"
    BY <2>2 DEF Entitled, Gone, Pending, Updating
  <2>3. CASE /\ moved' = IF Changes(c) THEN moved \cup {Change(c)} ELSE moved
             /\ Saved(c)
             /\ UNCHANGED <<leak_history, faults>>
    <3>1. pc'[c] \notin Updating
      BY <2>3 DEF Saved, Goto, Updating, TypeOK
    <3>2. Stranded(c)' \subseteq Stranded(c)
      BY <2>3, <2>2, <3>1 DEF Stranded, Pending
    <3>3. Paid(c)'
      BY <2>2, <2>3, <3>1, <3>2, NothingStranded DEF Ledger, Paid
    <3> QED
      BY <2>2, <3>1, <3>3
  <2>4. CASE /\ ~ (/\ existing[c].id \in DOMAIN leaked_data
                   /\ Owners(EffectKey(c)) \subseteq {existing[c].id})
             /\ Fail(c)
    <3>1. pc'[c] \notin Updating /\ UNCHANGED <<leak_history, moved, faults>>
      BY <2>4 DEF Fail, Exit, Goto, Updating, TypeOK, mongo
    <3>2. Gone(c)
      BY <2>1, <2>4 DEF Gone, Ledger, Entitled, Updating
    <3>3. Stranded(c)' \subseteq Stranded(c) \cup {Change(c)}
      BY <3>1 DEF Stranded
    <3>4. Paid(c)'
      BY <2>2, <3>1, <3>2, <3>3, OneStranded DEF Ledger
    <3> QED
      BY <2>2, <3>1, <3>4
  <2> QED
    BY <1>13, <2>3, <2>4 DEF UpdateCurrent
<1> QED
  BY <1>4, <1>5, <1>6, <1>7, <1>8, <1>9, <1>10, <1>11, <1>12, <1>13 DEF Step

\* Faults pay for the row they strand, and for the one a deletion will strand.
LEMMA FaultLedger ==
    ASSUME IInv, NEW c \in Crawlers, Ledger(c),
           \/ Killed(c) \/ \E i \in Ids : ExpireEvent(i)
           \/ \E row \in leak_history : ExpireRow(row)
    PROVE  Paid(c)' /\ Entitled(c)' /\ (pc[c] = "history" => Changes(c))'
<1>1. CASE Killed(c)
  <2>1. /\ pc'[c] \notin Updating /\ faults' = faults + 1
        /\ UNCHANGED <<leak_history, moved>>
    BY <1>1 DEF Killed, Fault, Exit, Goto, Updating, IInv, TypeOK, mongo
  <2>2. Entitled(c)' /\ ~ Gone(c)' /\ pc'[c] # "history"
    BY <2>1 DEF Entitled, Gone, Updating
  <2>3. Stranded(c)' \subseteq Stranded(c) \cup {Change(c)}
    BY <2>1 DEF Stranded
  <2>4. Paid(c)'
    BY <2>1, <2>2, <2>3, OneStranded DEF Ledger, IInv
  <2> QED
    BY <2>2, <2>4
<1>2. ASSUME NEW i \in Ids, ExpireEvent(i)
      PROVE  Paid(c)' /\ Entitled(c)' /\ (pc[c] = "history" => Changes(c))'
  <2>1. /\ leaked_data' = [j \in DOMAIN leaked_data \ {i} |-> leaked_data[j]]
        /\ faults' = faults + 1
        /\ UNCHANGED <<leak_history, moved, pc, record, existing>>
    BY <1>2 DEF ExpireEvent, Fault, crawl
  <2>2. /\ Change(c)' = Change(c) /\ Changes(c)' = Changes(c)
        /\ EffectKey(c)' = EffectKey(c)
    BY <2>1 DEF Change, Changes, Effect, EffectKey
  <2>3. Stranded(c)' = Stranded(c)
    BY <2>1, <2>2 DEF Stranded, Pending
  <2>4. Paid(c)'
    <3>1. Cardinality(Stranded(c)) \in Nat /\ faults \in Nat
      BY FS_Subset, FS_CardinalityType, InputAssumption
         DEF Ledger, Paid, Stranded, IInv, TypeOK
    <3> QED
      BY <2>1, <2>3, <3>1 DEF Ledger, Paid
  <2>5. Owners(EffectKey(c))' \subseteq Owners(EffectKey(c))
    BY <2>1, <2>2 DEF Owners
  <2>6. Entitled(c)'
    BY <2>1, <2>5 DEF Entitled, Ledger
  <2> QED
    BY <2>1, <2>2, <2>4, <2>6 DEF Ledger
<1>3. ASSUME NEW row \in leak_history, ExpireRow(row)
      PROVE  Paid(c)' /\ Entitled(c)' /\ (pc[c] = "history" => Changes(c))'
  <2>1. /\ leak_history' = leak_history \ {row} /\ faults' = faults + 1
        /\ UNCHANGED <<leaked_data, moved, pc, record, existing>>
    BY <1>3 DEF ExpireRow, Fault, crawl
  <2>2. /\ Change(c)' = Change(c) /\ Changes(c)' = Changes(c)
        /\ Owners(EffectKey(c))' = Owners(EffectKey(c))
    BY <2>1 DEF Change, Changes, Effect, EffectKey, Owners
  <2>3. Stranded(c)' \subseteq Stranded(c) /\ Gone(c)' = Gone(c)
    BY <2>1, <2>2 DEF Stranded, Pending, Gone
  <2>4. IsFiniteSet(leak_history') /\ IsFiniteSet(Stranded(c))
    BY <2>1, FS_Subset DEF Ledger, Paid, Stranded
  <2>5. /\ Cardinality(Stranded(c)) \in Nat /\ Cardinality(Stranded(c)') \in Nat
        /\ Cardinality(Stranded(c)') <= Cardinality(Stranded(c)) /\ faults \in Nat
    BY <2>3, <2>4, FS_CardinalityType, FS_Subset, InputAssumption DEF IInv, TypeOK
  <2>6. Paid(c)'
    BY <2>1, <2>4, <2>5 DEF Ledger, Paid
  <2> QED
    BY <2>1, <2>2, <2>6 DEF Ledger, Entitled
<1> QED
  BY <1>1, <1>2, <1>3

\* The others are not running: c has the ledger.
Only(c) == \A d \in Crawlers : d # c => pc[d] = "idle"

SomeLedger ==
    /\ \A c \in Crawlers : Unchanged(c)
    /\ \E c \in Crawlers : Only(c) /\ Ledger(c)

\* The one that is running goes on, and the others do not run.
LEMMA OnlyStays ==
    ASSUME TypeOK, NEW c \in Crawlers, Only(c), Step(c) \/ Killed(c)
    PROVE  Only(c)'
  BY OthersStay DEF Only

\* When another starts, none is running, and it takes the ledger over.
LEMMA LedgerPassesOn ==
    ASSUME OneAtATime', IInv, NEW c \in Crawlers, Only(c), Ledger(c),
           NEW d \in Crawlers, d # c, Step(d) \/ Killed(d), Unchanged(d)'
    PROVE  Only(d)' /\ Ledger(d)'
<1>1. save_records(d)
  BY IdleStarts DEF Only
<1>2. /\ pc'[d] = "next"
      /\ UNCHANGED <<leaked_data, leak_history, moved, faults, record, existing>>
  BY <1>1 DEF save_records, Goto, mongo, IInv, TypeOK
<1>3. \A e \in Crawlers : e # d => pc'[e] = pc[e]
  BY OthersStay DEF IInv
<1>4. pc[c] = "idle"
  BY <1>2, <1>3 DEF OneAtATime
<1>5. Only(d)'
  BY <1>3, <1>4 DEF Only
<1>6. Stranded(d)' = Stranded(c)
  BY <1>2, <1>4 DEF Stranded, Pending
<1>7. Paid(d)' /\ Entitled(d)'
  BY <1>2, <1>6 DEF Ledger, Paid, Gone, Entitled, Updating
<1> QED
  BY <1>2, <1>5, <1>7 DEF Ledger

\* Every step of the system keeps a ledger.
LEMMA NextLedger ==
    ASSUME OneAtATime, OneAtATime', IInv, SomeLedger, [Next]_vars
    PROVE  SomeLedger'
<1>1. \A d \in Crawlers : Unchanged(d)'
  BY UnchangedInv DEF SomeLedger
<1>2. PICK c \in Crawlers : Only(c) /\ Ledger(c)
  BY DEF SomeLedger
<1>3. ASSUME Publish \/ UNCHANGED vars PROVE Ledger(c)' /\ Only(c)'
  <2>1. UNCHANGED <<leaked_data, leak_history, moved, pc, record, existing, faults>>
    BY <1>3 DEF Publish, mongo, crawl, vars
  <2>2. /\ Change(c)' = Change(c) /\ Changes(c)' = Changes(c)
        /\ Owners(EffectKey(c))' = Owners(EffectKey(c))
    BY <2>1 DEF Change, Changes, Effect, EffectKey, Owners
  <2>3. Stranded(c)' = Stranded(c) /\ Gone(c)' = Gone(c)
    BY <2>1, <2>2 DEF Stranded, Pending, Gone
  <2> QED
    BY <1>1, <1>2, <2>1, <2>2, <2>3 DEF Ledger, Paid, Entitled, Only
<1>4. ASSUME Step(c) \/ Killed(c) PROVE Ledger(c)' /\ Only(c)'
  BY <1>1, <1>2, <1>4, StepLedger, FaultLedger, OnlyStays DEF Ledger, IInv
<1>5. ASSUME \/ \E i \in Ids : ExpireEvent(i)
             \/ \E row \in leak_history : ExpireRow(row)
      PROVE  Ledger(c)' /\ Only(c)'
  <2>1. pc' = pc
    BY <1>5 DEF ExpireEvent, ExpireRow
  <2> QED
    BY <1>1, <1>2, <1>5, <2>1, FaultLedger DEF Ledger, Only
<1>6. ASSUME NEW d \in Crawlers, d # c, Step(d) \/ Killed(d)
      PROVE  Only(d)' /\ Ledger(d)'
  BY <1>1, <1>2, <1>6, LedgerPassesOn
<1> QED
  BY <1>1, <1>3, <1>4, <1>5, <1>6 DEF Next, SomeLedger

\* At first nothing is stranded.
LEMMA InitLedger == Init => SomeLedger
<1> SUFFICES ASSUME Init PROVE SomeLedger
  OBVIOUS
<1>1. PICK c \in Crawlers : TRUE
  BY InputAssumption
<1>2. Stranded(c) = {} /\ faults = 0 /\ leak_history = {}
  BY DEF Init, Stranded
<1>3. \A d \in Crawlers : pc[d] = "idle"
  BY DEF Init
<1> QED
  BY <1>2, <1>3, FS_EmptySet
     DEF SomeLedger, Only, Ledger, Unchanged, Paid, Gone, Entitled, Updating

\* With one crawler at a time somebody keeps a ledger.
LEMMA LedgerKept == Spec /\ []OneAtATime => []SomeLedger
<1>1. OneAtATime /\ OneAtATime' /\ IInv /\ SomeLedger /\ [Next]_vars => SomeLedger'
  BY NextLedger
<1> QED
  BY <1>1, InitLedger, Invariance, PTL DEF Spec

\* With one crawler at a time there are no more rows of changes that were not made
\* than faults, but for the row whose document is about to follow.
THEOREM FalseRowsAreFaults == Spec /\ []OneAtATime => []NoFalseHistory
<1>1. IInv /\ SomeLedger => NoFalseHistory
  <2> SUFFICES ASSUME IInv, SomeLedger PROVE NoFalseHistory
    OBVIOUS
  <2> PICK c \in Crawlers : Only(c) /\ Ledger(c)
    BY DEF SomeLedger
  <2> DEFINE open == {d \in Crawlers : pc[d] = "current"}
             extra == leak_history \ moved
  <2>1. IsFiniteSet(Stranded(c)) /\ faults \in Nat /\ Cardinality(Stranded(c)) <= faults
    BY FS_Subset, InputAssumption DEF Ledger, Paid, Stranded, IInv, TypeOK
  <2>2. CASE pc[c] = "current"
    <3>1. open = {c} /\ Cardinality(open) = 1
      <4>1. open = {c}
        BY <2>2 DEF Only
      <4> HIDE DEF open
      <4> QED
        BY <4>1, FS_Singleton
    <3>2. extra \subseteq Stranded(c) \cup {Change(c)}
      BY DEF Stranded
    <3>3. /\ Cardinality(extra) \in Nat /\ Cardinality(Stranded(c)) \in Nat
          /\ Cardinality(extra) <= Cardinality(Stranded(c)) + 1
      BY <2>1, <3>2, Parts
    <3> HIDE DEF open, extra
    <3>4. Cardinality(extra) <= faults + Cardinality(open)
      BY <2>1, <3>1, <3>3
    <3> QED
      BY <3>4 DEF NoFalseHistory, open, extra
  <2>3. CASE pc[c] # "current"
    <3>1. open = {} /\ Cardinality(open) = 0
      BY <2>3, FS_EmptySet DEF Only
    <3>2. extra = Stranded(c)
      BY <2>3 DEF Stranded, Pending
    <3>3. Cardinality(extra) <= faults + Cardinality(open)
      BY <2>1, <3>1, <3>2
    <3> QED
      BY <3>3 DEF NoFalseHistory
  <2> QED
    BY <2>2, <2>3
<1> QED
  BY <1>1, LedgerKept, Invariance, PTL

-----------------------------------------------------------------------------
(* The contract.  Every call of a save is a step of EventContract or none.  *)

Current == [i \in DOMAIN leaked_data |-> leaked_data[i].content]

Underway ==
    {[event |-> existing[c].id, row |-> Change(c)] : c \in {d \in Crawlers : Pending(d)}}

\* What stands for the contract's variables does not change, or a change is given up.
LEMMA GivesUp ==
    ASSUME UNCHANGED <<Current, inserted, Written, leak_history>>, Underway' \in {Underway, {}}
    PROVE  [Contract!Next]_(Contract!vars)
  BY DEF Contract!Next, Contract!GiveUp, Contract!vars, Current, Underway

\* An event is added.
LEMMA Adds ==
    ASSUME NEW i \in Ids, i \notin DOMAIN leaked_data, NEW content \in Content,
           inserted' = inserted \cup {content},
           Current' = [j \in DOMAIN leaked_data \cup {i} |->
                          IF j = i THEN content ELSE Current[j]],
           UNCHANGED <<Written, leak_history, Underway>>
    PROVE  Contract!Next
<1>1. content \in Content \cap inserted' /\ DOMAIN Current = DOMAIN leaked_data
  BY DEF Current
<1>2. Contract!Add(i)
  BY <1>1 DEF Contract!Add, Current, Underway
<1> QED
  BY <1>2 DEF Contract!Next

\* An event is removed.
LEMMA Removes ==
    ASSUME NEW i \in Ids, i \in DOMAIN leaked_data,
           Current' = [j \in DOMAIN leaked_data \ {i} |-> Current[j]],
           UNCHANGED <<inserted, Written, leak_history, Underway>>
    PROVE  Contract!Next
<1>1. DOMAIN Current = DOMAIN leaked_data
  BY DEF Current
<1>2. Contract!Remove(i)
  BY <1>1 DEF Contract!Remove, Current, Underway
<1> QED
  BY <1>2 DEF Contract!Next

\* A row is removed, and stays written.
LEMMA RemovesRow ==
    ASSUME NEW row \in leak_history, leak_history' = leak_history \ {row},
           UNCHANGED <<Current, inserted, Written, Underway>>
    PROVE  Contract!Next
<1>1. Contract!RemoveRow
  BY DEF Contract!RemoveRow, Current, Underway
<1> QED
  BY <1>1 DEF Contract!Next

\* A change is announced by a row of its own, or by one that is there already.
LEMMA Announces ==
    ASSUME NEW i \in Ids, NEW row, Underway = {},
           leak_history' = leak_history \cup {row}, Written' = Written \cup {row},
           Underway' = {[event |-> i, row |-> row]},
           row.before # row.after, <<row.before, row.after>> \in Merges,
           Explained(row.before),
           i \in DOMAIN leaked_data => Current[i] = row.before,
           UNCHANGED <<Current, inserted>>
    PROVE  Contract!Next
<1>1. DOMAIN Current = DOMAIN leaked_data
  BY DEF Current
<1>2. Contract!Traced(row.before)
  BY DEF Contract!Traced, Explained
<1>3. Contract!Begin(i, row)
  BY <1>1, <1>2 DEF Contract!Begin, Current, Underway
<1>4. CASE row \in leak_history
  <2>1. UNCHANGED <<leak_history, Written>>
    BY <1>4 DEF Written
  <2>2. Contract!Repeat(i)
    BY <1>3, <1>4, <2>1 DEF Contract!Repeat
  <2> QED
    BY <2>2 DEF Contract!Next
<1>5. CASE row \notin leak_history
  <2>1. row \in leak_history' \ leak_history
    BY <1>5
  <2>2. Contract!Announce(i)
    BY <1>3, <2>1 DEF Contract!Announce
  <2> QED
    BY <2>2 DEF Contract!Next
<1> QED
  BY <1>4, <1>5

\* A change is made.
LEMMA Changed ==
    ASSUME NEW i \in DOMAIN leaked_data, NEW row, Underway = {[event |-> i, row |-> row]},
           Underway' = {}, Current[i] = row.before,
           Current' = [Current EXCEPT ![i] = row.after],
           UNCHANGED <<inserted, Written, leak_history>>
    PROVE  Contract!Next
<1>1. DOMAIN Current = DOMAIN leaked_data
  BY DEF Current
<1>2. Contract!Change
  BY <1>1 DEF Contract!Change, Current, Underway
<1> QED
  BY <1>2 DEF Contract!Next

\* While only c runs, the change under way is its own.
LEMMA UnderwayIsOwn ==
    ASSUME NEW c \in Crawlers, Only(c)
    PROVE  Underway = IF Pending(c) THEN {[event |-> existing[c].id, row |-> Change(c)]} ELSE {}
<1>1. \A d \in Crawlers : Pending(d) => d = c
  BY DEF Only, Pending
<1>2. CASE Pending(c)
  <2>1. {d \in Crawlers : Pending(d)} = {c}
    BY <1>1, <1>2
  <2> QED
    BY <1>2, <2>1 DEF Underway
<1>3. CASE ~ Pending(c)
  <2>1. {d \in Crawlers : Pending(d)} = {}
    BY <1>1, <1>3
  <2> QED
    BY <1>3, <2>1 DEF Underway
<1> QED
  BY <1>2, <1>3

\* The same after a step.
LEMMA UnderwayIsOwnNext ==
    ASSUME NEW c \in Crawlers, Only(c)'
    PROVE  Underway' = IF Pending(c)' THEN {[event |-> existing[c].id, row |-> Change(c)]'} ELSE {}
<1>1. \A d \in Crawlers : Pending(d)' => d = c
  BY DEF Only, Pending
<1>2. CASE Pending(c)'
  <2>1. {d \in Crawlers : Pending(d)'} = {c}
    BY <1>1, <1>2
  <2> QED
    BY <1>2, <2>1 DEF Underway
<1>3. CASE ~ Pending(c)'
  <2>1. {d \in Crawlers : Pending(d)'} = {}
    BY <1>1, <1>3
  <2> QED
    BY <1>3, <2>1 DEF Underway
<1> QED
  BY <1>2, <1>3

\* A step of the crawler that runs.
LEMMA StepKeepsContract ==
    ASSUME IInv, NEW c \in Crawlers, Only(c), Ledger(c), Step(c)
    PROVE  [Contract!Next]_(Contract!vars)
<1> DEFINE mine == [event |-> existing[c].id, row |-> Change(c)]
<1>1. Only(c)'
  BY OnlyStays DEF IInv
<1>2. Underway = IF Pending(c) THEN {mine} ELSE {}
  BY UnderwayIsOwn
<1>3. Underway' = IF Pending(c)' THEN {mine'} ELSE {}
  BY <1>1, UnderwayIsOwnNext
<1> HIDE DEF mine
<1>4. ASSUME UNCHANGED <<leaked_data, leak_history, Written, inserted>>, pc[c] # "current",
             pc'[c] = "current" => ~ Changes(c)'
      PROVE  [Contract!Next]_(Contract!vars)
  <2>1. Underway' = Underway
    BY <1>2, <1>3, <1>4 DEF Pending
  <2> QED
    BY <1>4, <2>1, GivesUp DEF Current
<1>5. ASSUME pc[c] # "current", Fail(c) PROVE [Contract!Next]_(Contract!vars)
  BY <1>4, <1>5 DEF Fail, Exit, Goto, IInv, TypeOK, mongo, Written
<1>6. ASSUME pc[c] # "current", NEW phase, Continue(c, phase),
             phase = "current" => ~ Changes(c)
      PROVE  [Contract!Next]_(Contract!vars)
  <2>1. /\ pc'[c] = phase
        /\ UNCHANGED <<leaked_data, leak_history, Written, inserted, record, existing>>
    BY <1>6 DEF Continue, Goto, IInv, TypeOK, mongo, crawl, Written
  <2>2. Changes(c)' = Changes(c)
    BY <2>1 DEF Changes, Effect
  <2> QED
    BY <1>4, <1>6, <2>1, <2>2
<1>7. ASSUME NEW i \in DOMAIN leaked_data, pc[c] \in Finding, Found(c, i)
      PROVE  [Contract!Next]_(Contract!vars)
  <2> DEFINE old == leaked_data[i]
             new == Effective(old.content, record[c].content)
  <2>1. /\ pc'[c] = (IF event_identity(new, i) # old.key THEN "owner"
                     ELSE IF new # old.content THEN "history" ELSE "current")
        /\ existing'[c] = [id |-> i, document |-> old]
        /\ UNCHANGED <<leaked_data, leak_history, Written, inserted, record>>
    BY <1>7 DEF Found, Goto, IInv, TypeOK, mongo, Written
  <2>2. (Changes(c))' = (new # old.content)
    BY <2>1 DEF Effect, Changes
  <2>3. pc[c] # "current"
    BY <1>7 DEF Finding
  <2> QED
    BY <1>4, <2>1, <2>2, <2>3
<1>8. CASE save_records(c) \/ (\E r \in todo[c] : save_record(c, r)) \/ AllSaved(c)
  BY <1>4, <1>8 DEF save_records, save_record, AllSaved, Exit, Goto, IInv, TypeOK, mongo, Written
<1>9. CASE FindByKey(c)
  BY <1>5, <1>6, <1>7, <1>9 DEF FindByKey, Owners, Finding
<1>10. CASE FindById(c)
  BY <1>5, <1>6, <1>7, <1>10 DEF FindById, Finding
<1>11. CASE FindByScan(c)
  <2>1. Fail(c) \/ Continue(c, "insert") \/ \E i \in DOMAIN leaked_data : Found(c, i)
    BY <1>11 DEF FindByScan
  <2>2. pc[c] = "scan"
    BY <1>11 DEF FindByScan
  <2> QED
    BY <1>5, <1>6, <1>7, <2>1, <2>2 DEF Finding
<1>12. CASE Insert(c)
  <2> DEFINE id == record[c].id
  <2>1. pc[c] = "insert" /\ pc'[c] \in {"next", "key"} /\ UNCHANGED <<leak_history, Written>>
    BY <1>12 DEF Insert, Saved, Goto, IInv, TypeOK, Written
  <2>2. CASE UNCHANGED <<leaked_data, inserted>>
    BY <1>4, <2>1, <2>2
  <2>3. CASE /\ id \notin DOMAIN leaked_data
             /\ leaked_data' = Put(id, [key |-> Incoming(c), content |-> record[c].content])
             /\ inserted' = inserted \cup {record[c].content}
    <3>1. id \in Ids /\ record[c].content \in Content
      BY <2>1 DEF IInv, TypeOK, Finding, Record
    <3>2. Underway' = Underway
      BY <1>2, <1>3, <2>1 DEF Pending
    <3>3. Current' = [j \in DOMAIN leaked_data \cup {id} |->
                         IF j = id THEN record[c].content ELSE Current[j]]
      BY <2>3 DEF Put, Current
    <3> QED
      BY <2>1, <2>3, <3>1, <3>2, <3>3, Adds
  <2> QED
    BY <1>12, <2>2, <2>3 DEF Insert
<1>13. CASE CheckOwner(c)
  <2>1. \/ Fail(c)
        \/ Continue(c, IF Changes(c) THEN "history" ELSE "current")
    BY <1>13 DEF CheckOwner
  <2>2. pc[c] # "current"
    BY <1>13 DEF CheckOwner
  <2> QED
    BY <1>5, <1>6, <2>1, <2>2
<1>14. CASE RecordChange(c)
  <2> DEFINE row == Change(c)
             before == existing[c].document.content
  <2>1. /\ pc[c] = "history" /\ pc'[c] = "current"
        /\ leak_history' = leak_history \cup {row} /\ Written' = Written \cup {row}
        /\ UNCHANGED <<leaked_data, inserted, record, existing>>
    BY <1>14 DEF RecordChange, Goto, IInv, TypeOK, crawl, Written
  <2>2. /\ Change(c)' = row /\ Changes(c)' = Changes(c) /\ Changes(c)
    BY <2>1 DEF Change, Changes, Effect, EffectKey, Ledger
  <2>3. Underway = {} /\ Underway' = {[event |-> existing[c].id, row |-> row]}
    BY <1>2, <1>3, <2>1, <2>2 DEF Pending, mine
  <2>4. /\ existing[c].id \in Ids /\ before \in Content /\ record[c].content \in Content
        /\ Explained(before) /\ Compatible(before, record[c].content, TRUE)
    BY <2>1 DEF IInv, TypeOK, Updating, Document, Record, ReadsWell
  <2>5. row.before = before /\ row.after = Effective(before, record[c].content)
    BY DEF Change, Effect
  <2>6. <<row.before, row.after>> \in Merges
    BY <2>4, <2>5, EffectiveType DEF Merges
  <2>7. row.before # row.after
    BY <2>2, <2>5 DEF Changes, Effect
  <2>8. existing[c].id \in DOMAIN leaked_data => Current[existing[c].id] = row.before
    BY <2>1, <2>5 DEF Ledger, Unchanged, Updating, Current
  <2>9. UNCHANGED <<Current, inserted>>
    BY <2>1 DEF Current
  <2> HIDE DEF row, before
  <2> QED
    BY <2>1, <2>3, <2>4, <2>5, <2>6, <2>7, <2>8, <2>9, Announces
<1>15. CASE UpdateCurrent(c)
  <2> DEFINE id == existing[c].id
  <2>1. pc[c] = "current"
    BY <1>15 DEF UpdateCurrent
  <2>2. ASSUME pc'[c] # "current" PROVE Underway' = {}
    BY <1>3, <2>2 DEF Pending
  <2>3. CASE Fail(c)
    BY <2>2, <2>3, GivesUp DEF Fail, Exit, Goto, IInv, TypeOK, mongo, Current, Written
  <2>4. CASE /\ id \in DOMAIN leaked_data
             /\ leaked_data' = Put(id, [key |-> EffectKey(c), content |-> Effect(c)])
             /\ Saved(c)
             /\ UNCHANGED <<leak_history, Written, inserted>>
    <3>1. Underway' = {}
      BY <2>2, <2>4 DEF Saved, Goto, IInv, TypeOK
    <3>2. leaked_data[id] = existing[c].document
      BY <2>1, <2>4 DEF Ledger, Unchanged, Updating
    <3>3. Current[id] = existing[c].document.content
      BY <2>4, <3>2 DEF Current
    <3>4. Current' = [Current EXCEPT ![id] = Effect(c)]
      BY <2>4 DEF Current, Put
    <3>5. CASE Changes(c)
      <4>1. Underway = {[event |-> id, row |-> Change(c)]}
        BY <1>2, <2>1, <3>5 DEF Pending, mine
      <4>2. Change(c).before = Current[id] /\ Change(c).after = Effect(c)
        BY <3>3 DEF Change
      <4> QED
        BY <2>4, <3>1, <3>4, <4>1, <4>2, Changed
    <3>6. CASE ~ Changes(c)
      <4>1. Effect(c) = Current[id]
        BY <3>3, <3>6 DEF Changes
      <4>2. Current' = Current
        BY <3>4, <4>1 DEF Current
      <4> QED
        BY <2>4, <3>1, <4>2, GivesUp
    <3> QED
      BY <3>5, <3>6
  <2> QED
    BY <1>15, <2>3, <2>4 DEF UpdateCurrent, Written
<1> QED
  BY <1>8, <1>9, <1>10, <1>11, <1>12, <1>13, <1>14, <1>15 DEF Step

\* A step of the others, or of none.
LEMMA NextKeepsContract ==
    ASSUME OneAtATime', IInv, SomeLedger, [Next]_vars
    PROVE  [Contract!Next]_(Contract!vars)
<1>1. PICK c \in Crawlers : Only(c) /\ Ledger(c)
  BY DEF SomeLedger
<1>2. ASSUME Killed(c) PROVE [Contract!Next]_(Contract!vars)
  <2>1. UNCHANGED <<leaked_data, leak_history, Written, inserted>> /\ pc'[c] = "idle"
    BY <1>2 DEF Killed, Exit, Goto, IInv, TypeOK, mongo, Written
  <2>2. Only(c)'
    BY <1>1, <1>2, OnlyStays DEF IInv
  <2>3. Underway' = {}
    BY <2>1, <2>2, UnderwayIsOwnNext DEF Pending
  <2> QED
    BY <2>1, <2>3, GivesUp DEF Current
<1>3. ASSUME UNCHANGED <<pc, record, existing>> PROVE Underway' = Underway
  <2>1. \A d \in Crawlers : Change(d)' = Change(d) /\ Pending(d)' = Pending(d)
    BY <1>3 DEF Change, EffectKey, Effect, Pending, Changes
  <2> QED
    BY <1>3, <2>1 DEF Underway
<1>4. ASSUME NEW i \in Ids, ExpireEvent(i) PROVE [Contract!Next]_(Contract!vars)
  <2>1. /\ i \in DOMAIN leaked_data
        /\ leaked_data' = [j \in DOMAIN leaked_data \ {i} |-> leaked_data[j]]
        /\ UNCHANGED <<leak_history, Written, inserted, pc, record, existing>>
    BY <1>4 DEF ExpireEvent, crawl, Written
  <2>2. Current' = [j \in DOMAIN leaked_data \ {i} |-> Current[j]]
    BY <2>1 DEF Current
  <2> QED
    BY <1>3, <2>1, <2>2, Removes
<1>5. ASSUME Publish \/ UNCHANGED vars PROVE [Contract!Next]_(Contract!vars)
  <2>1. UNCHANGED <<leaked_data, leak_history, Written, inserted, pc, record, existing>>
    BY <1>5 DEF Publish, mongo, crawl, vars, Written
  <2> QED
    BY <1>3, <2>1, GivesUp DEF Current
<1>6. ASSUME NEW d \in Crawlers, d # c, Step(d) \/ Killed(d)
      PROVE  [Contract!Next]_(Contract!vars)
  <2>1. save_records(d)
    BY <1>1, <1>6, IdleStarts DEF Only
  <2>2. /\ pc'[d] = "next"
        /\ UNCHANGED <<leaked_data, leak_history, Written, inserted, record, existing>>
    BY <2>1 DEF save_records, Goto, mongo, IInv, TypeOK, Written
  <2>3. \A e \in Crawlers : e # d => pc'[e] = pc[e]
    BY <1>6, OthersStay DEF IInv
  <2>4. \A e \in Crawlers : Pending(e)' => FALSE
    BY <2>2, <2>3 DEF Pending, OneAtATime
  <2>5. Underway' = {}
    BY <2>4 DEF Underway
  <2> QED
    BY <2>2, <2>5, GivesUp DEF Current
<1>7. ASSUME Step(c) PROVE [Contract!Next]_(Contract!vars)
  BY <1>1, <1>7, StepKeepsContract
<1>8. ASSUME NEW row \in leak_history, ExpireRow(row)
      PROVE  [Contract!Next]_(Contract!vars)
  <2>1. /\ leak_history' = leak_history \ {row} /\ Written' = Written
        /\ UNCHANGED <<leaked_data, inserted, pc, record, existing>>
    BY <1>8 DEF ExpireRow, crawl, Written
  <2> QED
    BY <1>3, <2>1, RemovesRow DEF Current
<1> QED
  BY <1>2, <1>4, <1>5, <1>6, <1>7, <1>8 DEF Next

\* At first there are the documents of schema v1, and nothing is under way.
LEMMA InitKeepsContract == Init => Contract!Init
<1> SUFFICES ASSUME Init PROVE Contract!Init
  OBVIOUS
<1>1. DOMAIN Current = DOMAIN leaked_data /\ DOMAIN leaked_data \subseteq Ids
  BY InitInv DEF Current, IInv, TypeOK
<1>2. Current \in [DOMAIN leaked_data -> Content]
  <2>1. \A i \in DOMAIN leaked_data : leaked_data[i].content \in Content
    BY InitInv DEF IInv, TypeOK, Document
  <2> QED
    BY <2>1 DEF Current
<1>3. inserted = {Current[e] : e \in DOMAIN Current}
  <2>1. \A r, s \in Legacy : r.id = s.id => r = s
    BY InputAssumption
  <2>2. \A r \in Legacy : (CHOOSE s \in Legacy : s.id = r.id) = r
    BY <2>1
  <2>3. \A r \in Legacy : r.id \in DOMAIN leaked_data /\ leaked_data[r.id].content = r.content
    BY <2>2 DEF Init
  <2>4. DOMAIN leaked_data = {r.id : r \in Legacy} /\ inserted = {r.content : r \in Legacy}
    BY DEF Init
  <2>5. \A q \in Legacy : Current[q.id] = q.content
    BY <2>3 DEF Current
  <2> QED
    BY <1>1, <2>4, <2>5
<1>4. Underway = {} /\ leak_history = {} /\ Written = {}
  BY DEF Init, Underway, Pending, Written
<1> QED
  BY <1>1, <1>2, <1>3, <1>4 DEF Contract!Init, Current, Underway

\* Crawls one at a time implement EventContract: a change is announced by its row
\* and then made as announced or given up, whatever kills a crawl and whatever events
\* and rows are deleted between its calls (KeepsContract).
THEOREM StorageKeepsContract == Spec /\ []OneAtATime => KeepsContract
<1>1. OneAtATime' /\ IInv /\ SomeLedger /\ [Next]_vars => [Contract!Next]_(Contract!vars)
  BY NextKeepsContract
<1> QED
  BY <1>1, InitKeepsContract, LedgerKept, Invariance, PTL
     DEF Spec, KeepsContract, Contract!Spec

=============================================================================
