------------------------------- MODULE ElkSetup -------------------------------
(***************************************************************************)
(* The set-up of Elasticsearch and Kibana (src/elk/setup.py: setup,        *)
(* existing_mapping, find_view) for one index prefix.                      *)
(*                                                                         *)
(* A set-up is a script run by hand.  It makes sure that each of the three *)
(* collections has a template, an index with the mapping of its database,  *)
(* and a data view.  It may be run again at any time, several may overlap, *)
(* and they may be configured for different databases by mistake.  Nothing *)
(* is ever deleted, and neither service has transactions: each request is  *)
(* an action, and between any two of them another set-up, Monstache or a   *)
(* user of Kibana may act.                                                 *)
(*                                                                         *)
(* A mapping is the database it names as its source, or Alien: a mapping   *)
(* that fits no database's (another prefix, version or set of fields).     *)
(***************************************************************************)
EXTENDS Naturals, Sequences, FiniteSets

CONSTANTS
    Setups,     \* set-ups, each with its configuration
    Databases,
    Configurations, \* the databases the set-ups may be configured for
    None,       \* no template or index
    Alien,
    MaxManual,  \* bound: data views made by users
    MaxFaults   \* bound: requests that fail, and set-ups that die

\* COLLECTIONS, in the order the loops take it.
Collections == <<"events", "history", "alerts">>
Kinds == 1 .. 3

ASSUME ElkAssumption ==
    /\ Configurations \subseteq [Setups -> Databases]
    /\ None \notin Databases /\ Alien \notin Databases /\ None # Alien
    /\ MaxManual \in Nat /\ MaxFaults \in Nat

(***************************************************************************)
(* The data views of an index, as far as find_view and Kibana distinguish  *)
(* them.  Only installed and altered have the id a set-up uses, and only   *)
(* installed and manual have the title and the time field it wants.        *)
(*                                                                         *)
(* installed   made by a set-up          mistimed   the title, but another *)
(* altered     its id, but another                  time field             *)
(*             title or time field       namesake   another title, but the *)
(* manual      made by a user                       name a set-up uses     *)
(***************************************************************************)
Views == {"installed", "altered", "manual", "mistimed", "namesake"}

(***************************************************************************)
(* The request a set-up makes next; in all but the first two and the last  *)
(* four it is for its kind.                                                *)
(*                                                                         *)
(* start      wait for Elasticsearch       find      GET view by its id    *)
(* check      GET mapping, before writing  list      GET views by title    *)
(* template   PUT template                 post      POST view             *)
(* look       GET mapping                  find_again GET view after a 409 *)
(* create     PUT index                    passed    reported PASS         *)
(* verify     GET mapping after creation   failed    reported FAIL, or died*)
(* kibana     wait for Kibana                                              *)
(***************************************************************************)
IndexPhases == {"template", "look", "create", "verify"}
ViewPhases == {"find", "list", "post", "find_again"}
Phases == {"start", "check", "kibana", "passed", "failed"} \cup IndexPhases \cup ViewPhases

VARIABLES
    database,  \* config.database of each set-up
    template,  \* the index template of each kind: the database it names
    index,     \* the mapping of the index of each kind
    views,     \* the data views of each kind
    pc,        \* the phase of each set-up
    kind,      \* the kind it is at
    passed,    \* the set-ups that have reported PASS (history)
    manual,    \* views made by users so far
    faults     \* faults so far

services == <<template, index, views>>
rest == <<database, manual, faults>>
vars == <<template, index, views, pc, kind, passed, database, manual, faults>>

Mapping == Databases \cup {Alien}

TypeOK ==
    /\ database \in [Setups -> Databases]
    /\ template \in [Kinds -> Databases \cup {None}]
    /\ index \in [Kinds -> Mapping \cup {None}]
    /\ views \in [Kinds -> SUBSET Views]
    /\ pc \in [Setups -> Phases]
    /\ kind \in [Setups -> Kinds]
    /\ passed \subseteq Setups
    /\ manual \in 0 .. MaxManual
    /\ faults \in 0 .. MaxFaults

Init ==
    /\ database \in Configurations
    /\ template = [k \in Kinds |-> None]
    /\ index = [k \in Kinds |-> None]
    /\ views = [k \in Kinds |-> {}]
    /\ pc = [s \in Setups |-> "start"]
    /\ kind = [s \in Setups |-> 1]
    /\ passed = {}
    /\ manual = 0
    /\ faults = 0

-----------------------------------------------------------------------------
Goto(s, phase) == pc' = [pc EXCEPT ![s] = phase] /\ UNCHANGED kind

\* Mutant: the loop goes on after its last kind.
NextKindBeyond(s, phase, after) ==
    /\ kind' = [kind EXCEPT ![s] = @ + 1]
    /\ pc' = [pc EXCEPT ![s] = IF kind[s] = 3 THEN after ELSE phase]

\* On to this phase of the next kind, or after the last kind to another.
NextKind(s, phase, after) ==
    /\ kind' = [kind EXCEPT ![s] = IF @ = 3 THEN 1 ELSE @ + 1]
    /\ pc' = [pc EXCEPT ![s] = IF kind[s] = 3 THEN after ELSE phase]

\* existing_mapping: there is none, it is what s wants, or it raises.
Missing(s) == index[kind[s]] = None
Mine(s) == index[kind[s]] = database[s]
Conflict(s) == ~ Missing(s) /\ ~ Mine(s)

\* view_matches, of the views that exist.
Fitting(k) == views[k] \cap {"installed", "manual"}

-----------------------------------------------------------------------------
(* Elasticsearch.                                                          *)

Ready(s) ==
    /\ pc[s] = "start"
    /\ Goto(s, "check")
    /\ UNCHANGED <<services, passed, rest>>

\* Mutant: any index that is there already is a conflict.
CheckNothingThere(s) ==
    /\ pc[s] = "check"
    /\ \/ Missing(s) /\ NextKind(s, "check", "template")
       \/ ~ Missing(s) /\ Goto(s, "failed")
    /\ UNCHANGED <<services, passed, rest>>

Check(s) ==
    /\ pc[s] = "check"
    /\ \/ ~ Conflict(s) /\ NextKind(s, "check", "template")
       \/ Conflict(s) /\ Goto(s, "failed")
    /\ UNCHANGED <<services, passed, rest>>

PutTemplate(s) == template' = [template EXCEPT ![kind[s]] = database[s]]

Template(s) ==
    /\ pc[s] = "template"
    /\ PutTemplate(s)
    /\ Goto(s, "look")
    /\ UNCHANGED <<index, views, passed, rest>>

Look(s) ==
    /\ pc[s] = "look"
    /\ \/ Missing(s) /\ Goto(s, "create")
       \/ Mine(s) /\ NextKind(s, "template", "kibana")
       \/ Conflict(s) /\ Goto(s, "failed")
    /\ UNCHANGED <<services, passed, rest>>

\* Elasticsearch gives a new index the mapping of the template as it is now.
\* An index that exists stays (400).
PutIndex(s) ==
    index' = [index EXCEPT ![kind[s]] = IF @ = None THEN template[kind[s]] ELSE @]

\* Mutant: what has been created, by whomever, is not looked at again.
CreateUnverified(s) ==
    /\ pc[s] = "create"
    /\ PutIndex(s)
    /\ NextKind(s, "template", "kibana")
    /\ UNCHANGED <<template, views, passed, rest>>

\* The index is created, or somebody else has done so (400 and 409 are passed).
Create(s) ==
    /\ pc[s] = "create"
    /\ PutIndex(s)
    /\ Goto(s, "verify")
    /\ UNCHANGED <<template, views, passed, rest>>

Verify(s) ==
    /\ pc[s] = "verify"
    /\ \/ Mine(s) /\ NextKind(s, "template", "kibana")
       \/ ~ Mine(s) /\ Goto(s, "failed")
    /\ UNCHANGED <<services, passed, rest>>

-----------------------------------------------------------------------------
(* Kibana.                                                                 *)

KibanaReady(s) ==
    /\ pc[s] = "kibana"
    /\ Goto(s, "find")
    /\ UNCHANGED <<services, passed, rest>>

\* The view of this kind is there; after the last kind, "ELK_SETUP: PASS".
ViewDone(s) ==
    /\ NextKind(s, "find", "passed")
    /\ passed' = IF kind[s] = 3 THEN passed \cup {s} ELSE passed

ViewFails(s) == Goto(s, "failed") /\ UNCHANGED passed

Find(s) ==
    /\ pc[s] = "find"
    /\ LET there == views[kind[s]] IN
       \/ "installed" \in there /\ ViewDone(s)
       \/ "altered" \in there /\ ViewFails(s)
       \/ there \cap {"installed", "altered"} = {} /\ Goto(s, "list") /\ UNCHANGED passed
    /\ UNCHANGED <<services, rest>>

\* Mutant: the first view with the title will do.
ListTitles(s) ==
    /\ pc[s] = "list"
    /\ LET titled == views[kind[s]] \cap {"installed", "manual", "mistimed"} IN
       \/ titled # {} /\ ViewDone(s)
       \/ titled = {} /\ Goto(s, "post") /\ UNCHANGED passed
    /\ UNCHANGED <<services, rest>>

\* The list and the view of its first entry with the title, whose time field
\* decides.  The order of the list is Kibana's.  Views are not edited or
\* deleted, so that the two requests may be one step.
List(s) ==
    /\ pc[s] = "list"
    /\ LET titled == views[kind[s]] \cap {"installed", "manual", "mistimed"} IN
       \/ titled \cap Fitting(kind[s]) # {} /\ ViewDone(s)
       \/ "mistimed" \in titled /\ ViewFails(s)
       \/ titled = {} /\ Goto(s, "post") /\ UNCHANGED passed
    /\ UNCHANGED <<services, rest>>

\* Kibana refuses an id it has (409), and a name it has (400).  If it has both,
\* which of the two it says is up to Kibana.
Clash(s) == views[kind[s]] \cap {"installed", "altered"} # {}
Duplicate(s) == views[kind[s]] \cap {"installed", "namesake"} # {}

PostView(s) ==
    views' = IF Clash(s) \/ Duplicate(s) THEN views
             ELSE [views EXCEPT ![kind[s]] = @ \cup {"installed"}]

Post(s) ==
    /\ pc[s] = "post"
    /\ PostView(s)
    /\ \/ ~ Clash(s) /\ ~ Duplicate(s) /\ ViewDone(s)
       \/ Clash(s) /\ Goto(s, "find_again") /\ UNCHANGED passed
       \/ Duplicate(s) /\ ViewFails(s)
    /\ UNCHANGED <<template, index, rest>>

\* After a 409 the id exists, and find_view does not come to its list.
FindAgain(s) ==
    /\ pc[s] = "find_again"
    /\ \/ "installed" \in views[kind[s]] /\ ViewDone(s)
       \/ "installed" \notin views[kind[s]] /\ ViewFails(s)
    /\ UNCHANGED <<services, rest>>

-----------------------------------------------------------------------------
(* Failures, and running the script again.                                 *)

\* A request fails or its reply is lost, a service is not ready in time, or the
\* process dies: the set-up ends, and what it last asked for may yet be done.
Fails(s) ==
    /\ pc[s] \notin {"passed", "failed"}
    /\ faults < MaxFaults /\ faults' = faults + 1
    /\ Goto(s, "failed")
    /\ \/ UNCHANGED services
       \/ pc[s] = "template" /\ PutTemplate(s) /\ UNCHANGED <<index, views>>
       \/ pc[s] = "create" /\ PutIndex(s) /\ UNCHANGED <<template, views>>
       \/ pc[s] = "post" /\ PostView(s) /\ UNCHANGED <<template, index>>
    /\ UNCHANGED <<passed, database, manual>>

RunAgain(s) ==
    /\ pc[s] \in {"passed", "failed"}
    /\ pc' = [pc EXCEPT ![s] = "start"]
    /\ kind' = [kind EXCEPT ![s] = 1]
    /\ UNCHANGED <<services, passed, rest>>

-----------------------------------------------------------------------------
(* The others.                                                             *)

\* Monstache writes a document to an index that does not exist.  Elasticsearch
\* makes it from the template, or without one from the document.
AutoCreate(k) ==
    /\ index[k] = None
    /\ index' = [index EXCEPT ![k] = IF template[k] = None THEN Alien ELSE template[k]]
    /\ UNCHANGED <<template, views, pc, kind, passed, rest>>

\* A user of Kibana makes a data view.  Ids are unique there.
MakeView(k) ==
    /\ manual < MaxManual /\ manual' = manual + 1
    /\ \E v \in Views \ {"installed"} :
          /\ v = "altered" => "installed" \notin views[k]
          /\ views' = [views EXCEPT ![k] = @ \cup {v}]
    /\ UNCHANGED <<template, index, pc, kind, passed, database, faults>>

-----------------------------------------------------------------------------
Request(s) ==
    \/ Ready(s) \/ Check(s) \/ Template(s) \/ Look(s) \/ Create(s) \/ Verify(s)
    \/ KibanaReady(s) \/ Find(s) \/ List(s) \/ Post(s) \/ FindAgain(s)

Next ==
    \/ \E s \in Setups : Request(s) \/ Fails(s) \/ RunAgain(s)
    \/ \E k \in Kinds : AutoCreate(k) \/ MakeView(k)

Spec == Init /\ [][Next]_vars

\* A set-up that has begun goes on, since every request has a timeout, and
\* whoever runs it runs it until it has passed.
Completes(s) == Request(s) \/ (s \notin passed /\ RunAgain(s))

FairSpec == Spec /\ \A s \in Setups : WF_vars(Completes(s))

-----------------------------------------------------------------------------
(* Properties.                                                             *)

\* The prefix has one owner: the database of its first index.  However many
\* set-ups for whichever databases overlap, no other index names another, and
\* nor does the template another would be made of (setup.py:53-71).  Only the
\* first template may be that of a set-up which then lost.
OneOwner ==
    \A k \in Kinds \ {1} : {template[k], index[k]} \subseteq {None, Alien, index[1]}

\* "ELK_SETUP: PASS" (setup.py:87) means that all is there and stays so: the
\* three indices have the mapping of this database, whoever created them, and
\* each has a data view with the title and the time field that were wanted.
PassIsComplete ==
    \A s \in passed : \A k \in Kinds : index[k] = database[s] /\ Fitting(k) # {}

\* What no set-up can put right: "mapping_or_database_conflict", a view that
\* is in the way, and the duplicate name of mappings.py:58-60.
Blocked ==
    \E k \in Kinds : index[k] = Alien \/ views[k] \cap {"altered", "mistimed", "namesake"} # {}

\* "Idempotent" (setup.py:1): whatever its earlier runs or others have left
\* behind, the database that has got the first index completes its set-up.
OwnerPasses ==
    \A s \in Setups : index[1] = database[s] ~> s \in passed \/ Blocked

=============================================================================
