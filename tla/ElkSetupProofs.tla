---------------------------- MODULE ElkSetupProofs ----------------------------
(***************************************************************************)
(* Theorems of ElkSetup, for any number of set-ups and databases.          *)
(*                                                                         *)
(* What a set-up has looked at remains true, since indices and views only  *)
(* appear (Grows).  So its place in the loops tells what is there          *)
(* (Progress), and a set-up that is past the first kind is one of the      *)
(* owner's: only the owner writes the later templates.                     *)
(***************************************************************************)
EXTENDS ElkSetup, TLAPS

\* What a set-up knows by its place: the indices and views it is past.
Progress(s) ==
    /\ pc[s] = "kibana" => kind[s] = 1
    /\ pc[s] \in IndexPhases => \A k \in 1 .. (kind[s] - 1) : index[k] = database[s]
    /\ pc[s] \in {"kibana"} \cup ViewPhases => \A k \in Kinds : index[k] = database[s]
    /\ pc[s] \in ViewPhases => \A k \in 1 .. (kind[s] - 1) : Fitting(k) # {}

IInv ==
    /\ TypeOK
    /\ OneOwner
    /\ PassIsComplete
    /\ \A s \in Setups : Progress(s)

\* A step leaves an index, and a fitting view, where there is one.
Grown ==
    /\ database' = database
    /\ \A k \in Kinds : index[k] # None => index'[k] = index[k]
    /\ \A k \in Kinds : Fitting(k) # {} => Fitting(k)' # {}

-----------------------------------------------------------------------------
(* Types.                                                                  *)

\* Phases and kinds stay within their sets (Goto, NextKind).
LEMMA PlacesTyped ==
    ASSUME TypeOK, NEW s \in Setups, NEW phase \in Phases, NEW after \in Phases,
           Goto(s, phase) \/ NextKind(s, phase, after)
    PROVE  pc' \in [Setups -> Phases] /\ kind' \in [Setups -> Kinds]
<1>1. CASE Goto(s, phase)
  BY <1>1 DEF TypeOK, Goto
<1>2. CASE NextKind(s, phase, after)
  <2>1. (IF kind[s] = 3 THEN 1 ELSE kind[s] + 1) \in Kinds
    BY DEF TypeOK, Kinds
  <2>2. (IF kind[s] = 3 THEN after ELSE phase) \in Phases
    OBVIOUS
  <2> QED BY <1>2, <2>1, <2>2 DEF TypeOK, NextKind
<1> QED BY <1>1, <1>2

\* A template is given to a kind by a set-up, and an index by a template.
LEMMA WritesTyped ==
    ASSUME TypeOK, NEW s \in Setups
    PROVE  /\ PutTemplate(s) => template' \in [Kinds -> Databases \cup {None}]
           /\ PutIndex(s) => index' \in [Kinds -> Mapping \cup {None}]
           /\ PostView(s) => views' \in [Kinds -> SUBSET Views]
<1>1. ASSUME PutTemplate(s) PROVE template' \in [Kinds -> Databases \cup {None}]
  BY <1>1 DEF TypeOK, PutTemplate
<1>2. ASSUME PutIndex(s) PROVE index' \in [Kinds -> Mapping \cup {None}]
  BY <1>2 DEF TypeOK, PutIndex, Mapping
<1>3. ASSUME PostView(s) PROVE views' \in [Kinds -> SUBSET Views]
  BY <1>3 DEF TypeOK, PostView, Views
<1> QED BY <1>1, <1>2, <1>3

\* Every step keeps the types.
LEMMA StepTyped ==
    ASSUME TypeOK, [Next]_vars
    PROVE  TypeOK'
<1> USE DEF services, rest
<1>1. ASSUME NEW s \in Setups, Request(s) PROVE TypeOK'
  <2>1. /\ database' \in [Setups -> Databases] /\ manual' \in 0 .. MaxManual
        /\ faults' \in 0 .. MaxFaults
    BY <1>1 DEF TypeOK, Request, Ready, Check, Template, Look, Create, Verify,
                KibanaReady, Find, List, Post, FindAgain
  <2>2. passed' \subseteq Setups
    BY <1>1 DEF TypeOK, Request, Ready, Check, Template, Look, Create, Verify,
                KibanaReady, Find, List, Post, FindAgain, ViewDone, ViewFails
  <2>3. /\ template' \in [Kinds -> Databases \cup {None}]
        /\ index' \in [Kinds -> Mapping \cup {None}]
        /\ views' \in [Kinds -> SUBSET Views]
    BY <1>1, WritesTyped
       DEF TypeOK, Request, Ready, Check, Template, Look, Create, Verify,
           KibanaReady, Find, List, Post, FindAgain
  <2>4. \E phase, after \in Phases : Goto(s, phase) \/ NextKind(s, phase, after)
    <3>1. {"check", "template", "look", "create", "verify", "kibana", "find", "list",
           "post", "find_again", "passed", "failed"} \subseteq Phases
      BY DEF Phases, IndexPhases, ViewPhases
    <3> QED
      BY <1>1, <3>1
         DEF Request, Ready, Check, Template, Look, Create, Verify,
             KibanaReady, Find, List, Post, FindAgain, ViewDone, ViewFails
  <2>5. pc' \in [Setups -> Phases] /\ kind' \in [Setups -> Kinds]
    BY <2>4, PlacesTyped
  <2> QED BY <2>1, <2>2, <2>3, <2>5 DEF TypeOK
<1>2. ASSUME NEW s \in Setups, Fails(s) PROVE TypeOK'
  <2>1. "failed" \in Phases
    BY DEF Phases
  <2>2. pc' \in [Setups -> Phases] /\ kind' \in [Setups -> Kinds]
    BY <1>2, <2>1, PlacesTyped DEF Fails
  <2>3. faults' \in 0 .. MaxFaults
    BY <1>2, ElkAssumption DEF TypeOK, Fails
  <2> QED BY <1>2, <2>2, <2>3, WritesTyped DEF TypeOK, Fails
<1>3. ASSUME NEW s \in Setups, RunAgain(s) PROVE TypeOK'
  BY <1>3 DEF TypeOK, RunAgain, Phases, Kinds
<1>4. ASSUME NEW k \in Kinds, AutoCreate(k) PROVE TypeOK'
  BY <1>4 DEF TypeOK, AutoCreate, Mapping
<1>5. ASSUME NEW k \in Kinds, MakeView(k) PROVE TypeOK'
  <2>1. manual' \in 0 .. MaxManual
    BY <1>5, ElkAssumption DEF TypeOK, MakeView
  <2>2. views' \in [Kinds -> SUBSET Views]
    BY <1>5 DEF TypeOK, MakeView
  <2> QED BY <1>5, <2>1, <2>2 DEF TypeOK, MakeView
<1>6. ASSUME UNCHANGED vars PROVE TypeOK'
  BY <1>6 DEF TypeOK, vars
<1> QED BY <1>1, <1>2, <1>3, <1>4, <1>5, <1>6 DEF Next

\* Every variable keeps its type: phases are named, kinds are within the three.
THEOREM TypeCorrectness == Spec => []TypeOK
<1>1. Init => TypeOK
  BY ElkAssumption DEF Init, TypeOK, Phases, Kinds
<1>2. TypeOK /\ [Next]_vars => TypeOK'
  BY StepTyped
<1> QED BY <1>1, <1>2, PTL DEF Spec

-----------------------------------------------------------------------------
(* What is there stays.                                                    *)

\* No step takes an index or a fitting view away, or changes an index.
LEMMA StepGrows ==
    ASSUME TypeOK, [Next]_vars
    PROVE  Grown
<1> USE DEF services, rest
<1>1. ASSUME NEW s \in Setups, PutIndex(s)
      PROVE  \A k \in Kinds : index[k] # None => index'[k] = index[k]
  BY <1>1 DEF TypeOK, PutIndex
<1>2. ASSUME NEW s \in Setups, PostView(s)
      PROVE  \A k \in Kinds : Fitting(k) # {} => Fitting(k)' # {}
  <2>1. \A k \in Kinds : views[k] \subseteq views'[k]
    BY <1>2 DEF TypeOK, PostView
  <2> QED BY <2>1 DEF Fitting
<1>3. ASSUME NEW s \in Setups, Request(s) \/ Fails(s) PROVE Grown
  <2>1. database' = database
    BY <1>3 DEF Request, Ready, Check, Template, Look, Create, Verify,
                KibanaReady, Find, List, Post, FindAgain, Fails
  <2>2. index' = index \/ PutIndex(s)
    BY <1>3 DEF Request, Ready, Check, Template, Look, Create, Verify,
                KibanaReady, Find, List, Post, FindAgain, Fails
  <2>3. views' = views \/ PostView(s)
    BY <1>3 DEF Request, Ready, Check, Template, Look, Create, Verify,
                KibanaReady, Find, List, Post, FindAgain, Fails
  <2>4. \A k \in Kinds : index[k] # None => index'[k] = index[k]
    BY <2>2, <1>1
  <2>5. \A k \in Kinds : Fitting(k) # {} => Fitting(k)' # {}
    BY <2>3, <1>2 DEF Fitting
  <2> QED BY <2>1, <2>4, <2>5 DEF Grown
<1>4. ASSUME NEW s \in Setups, RunAgain(s) PROVE Grown
  BY <1>4 DEF RunAgain, Grown, Fitting
<1>5. ASSUME NEW k \in Kinds, AutoCreate(k) PROVE Grown
  BY <1>5 DEF TypeOK, AutoCreate, Grown, Fitting
<1>6. ASSUME NEW k \in Kinds, MakeView(k) PROVE Grown
  <2>1. \A l \in Kinds : views[l] \subseteq views'[l]
    BY <1>6 DEF TypeOK, MakeView
  <2> QED BY <1>6, <2>1 DEF MakeView, Grown, Fitting
<1>7. ASSUME UNCHANGED vars PROVE Grown
  BY <1>7 DEF vars, Grown, Fitting
<1> QED BY <1>3, <1>4, <1>5, <1>6, <1>7 DEF Next

\* So a set-up that does not move knows what it knew.
LEMMA ProgressStays ==
    ASSUME TypeOK, Grown, NEW s \in Setups, Progress(s),
           pc'[s] = pc[s], kind'[s] = kind[s]
    PROVE  Progress(s)'
<1>1. database[s] # None /\ kind[s] \in Kinds
  BY ElkAssumption DEF TypeOK
<1>2. \A k \in Kinds : index[k] = database[s] => index'[k] = database'[s]
  BY <1>1 DEF Grown
<1>3. \A k \in 1 .. (kind[s] - 1) : k \in Kinds
  BY <1>1 DEF Kinds
<1> QED BY <1>2, <1>3 DEF Grown, Progress

\* Going on to the next kind, or out of a loop, a set-up knows of this kind, too.
LEMMA Kinded ==
    ASSUME NEW n \in Kinds
    PROVE  /\ n = 3 => \A k \in Kinds : k = n \/ k \in 1 .. (n - 1)
           /\ n # 3 => \A k \in 1 .. ((n + 1) - 1) : k = n \/ k \in 1 .. (n - 1)
           /\ \A k \in 1 .. (1 - 1) : FALSE
BY DEF Kinds

\* A view is taken as there only when it is, whoever made it.
LEMMA ViewIsThere ==
    ASSUME TypeOK, NEW s \in Setups, NEW k \in Kinds, k = kind[s], ViewDone(s),
           Find(s) \/ List(s) \/ Post(s) \/ FindAgain(s)
    PROVE  Fitting(k)' # {}
<1> USE DEF services, rest
<1>1. pc'[s] \in {"find", "passed"}
  BY DEF TypeOK, ViewDone, NextKind
<1>2. \A phase \in {"list", "post", "find_again", "failed"} : ~ Goto(s, phase)
  BY <1>1 DEF TypeOK, Goto
<1>3. CASE Find(s) \/ FindAgain(s)
  <2>1. "installed" \in views'[k]
    BY <1>2, <1>3 DEF Find, FindAgain, ViewFails
  <2> QED BY <2>1 DEF Fitting
<1>4. CASE List(s)
  <2>1. Fitting(k) # {} /\ views' = views
    BY <1>2, <1>4 DEF List, ViewFails
  <2> QED BY <2>1 DEF Fitting
<1>5. CASE Post(s)
  <2>1. "installed" \in views'[k]
    BY <1>2, <1>5 DEF Post, PostView, ViewFails, TypeOK
  <2> QED BY <2>1 DEF Fitting
<1> QED BY <1>3, <1>4, <1>5

\* A set-up that makes a request knows what it has looked at.
LEMMA RequestProgress ==
    ASSUME IInv, Grown, NEW s \in Setups, Request(s)
    PROVE  Progress(s)'
<1> USE DEF services, rest
<1>1. /\ Progress(s) /\ kind[s] \in Kinds /\ pc \in [Setups -> Phases]
      /\ kind \in [Setups -> Kinds] /\ database[s] # None
  BY ElkAssumption DEF IInv, TypeOK
<1>2. \A k \in Kinds : index[k] = database[s] => index'[k] = database'[s]
  BY <1>1 DEF Grown
<1>3. \A k \in 1 .. (kind[s] - 1) : k \in Kinds
  BY <1>1 DEF Kinds
<1>4. CASE Ready(s) \/ Check(s)
  <2>1. CASE pc'[s] \in {"check", "failed"}
    BY <2>1 DEF Progress, IndexPhases, ViewPhases
  <2>2. CASE pc'[s] = "template"
    <3>1. kind'[s] = 1
      BY <1>1, <1>4, <2>2 DEF Ready, Check, Goto, NextKind
    <3> QED BY <2>2, <3>1, Kinded DEF Progress, IndexPhases, ViewPhases, Kinds
  <2> QED BY <1>1, <1>4, <2>1, <2>2 DEF Ready, Check, Goto, NextKind
<1>5. CASE Template(s) \/ Create(s) \/ (Look(s) /\ Missing(s))
  <2>1. /\ pc[s] \in IndexPhases /\ kind'[s] = kind[s]
        /\ pc'[s] \in {"look", "verify", "create"}
    BY <1>1, <1>5, ElkAssumption
       DEF Template, Create, Look, Goto, IndexPhases, Mine, Conflict, Missing
  <2> QED BY <1>1, <1>2, <1>3, <2>1 DEF Progress, IndexPhases, ViewPhases
<1>6. CASE (Look(s) /\ ~ Missing(s)) \/ Verify(s)
  <2>1. CASE Mine(s)
    <3>1. \A k \in 1 .. (kind[s] - 1) : index[k] = database[s]
      BY <1>1, <1>6 DEF Progress, Look, Verify, IndexPhases
    <3>2. index[kind[s]] = database[s]
      BY <2>1 DEF Mine
    <3>3. NextKind(s, "template", "kibana")
      BY <1>6, <2>1 DEF Look, Verify, Mine, Conflict
    <3>4. CASE kind[s] = 3
      <4>1. pc'[s] = "kibana" /\ kind'[s] = 1
        BY <1>1, <3>3, <3>4 DEF NextKind
      <4>2. \A k \in Kinds : index[k] = database[s]
        BY <1>1, <3>1, <3>2, <3>4, Kinded
      <4> QED BY <1>2, <4>1, <4>2 DEF Progress, IndexPhases, ViewPhases
    <3>5. CASE kind[s] # 3
      <4>1. pc'[s] = "template" /\ kind'[s] = kind[s] + 1
        BY <1>1, <3>3, <3>5 DEF NextKind
      <4>2. \A k \in 1 .. (kind'[s] - 1) : k \in Kinds /\ index[k] = database[s]
        BY <1>1, <1>3, <3>1, <3>2, <3>5, <4>1, Kinded
      <4> QED BY <1>2, <4>1, <4>2 DEF Progress, IndexPhases, ViewPhases
    <3> QED BY <3>4, <3>5
  <2>2. CASE ~ Mine(s)
    <3>1. pc'[s] = "failed"
      BY <1>1, <1>6, <2>2 DEF Look, Verify, Goto, Conflict
    <3> QED BY <3>1 DEF Progress, IndexPhases, ViewPhases
  <2> QED BY <2>1, <2>2
<1>7. CASE KibanaReady(s)
  <2>1. pc[s] = "kibana" /\ pc'[s] = "find" /\ kind'[s] = 1
    BY <1>1, <1>7 DEF KibanaReady, Goto, Progress
  <2> QED BY <1>1, <1>2, <2>1, Kinded DEF Progress, IndexPhases, ViewPhases
<1>8. CASE Find(s) \/ List(s) \/ Post(s) \/ FindAgain(s)
  <2>1. pc[s] \in ViewPhases
    BY <1>8 DEF Find, List, Post, FindAgain, ViewPhases
  <2>2. /\ \A k \in Kinds : index[k] = database[s]
        /\ \A k \in 1 .. (kind[s] - 1) : Fitting(k)' # {}
    BY <1>1, <1>3, <2>1 DEF Progress, Grown
  <2>3. CASE ViewDone(s)
    <3>1. \A k \in Kinds : k = kind[s] => Fitting(k)' # {}
      BY <1>8, <2>3, ViewIsThere DEF IInv
    <3>2. CASE kind[s] = 3
      <4>1. pc'[s] = "passed"
        BY <1>1, <2>3, <3>2 DEF ViewDone, NextKind
      <4> QED BY <4>1 DEF Progress, IndexPhases, ViewPhases
    <3>3. CASE kind[s] # 3
      <4>1. pc'[s] = "find" /\ kind'[s] = kind[s] + 1
        BY <1>1, <2>3, <3>3 DEF ViewDone, NextKind
      <4>2. \A k \in 1 .. (kind'[s] - 1) : k = kind[s] \/ k \in 1 .. (kind[s] - 1)
        BY <1>1, <3>3, <4>1, Kinded
      <4>3. \A k \in 1 .. (kind'[s] - 1) : Fitting(k)' # {}
        BY <1>1, <2>2, <3>1, <4>2
      <4>4. \A k \in Kinds : index'[k] = database'[s]
        BY <1>2, <2>2
      <4> HIDE DEF services
      <4> QED BY <4>1, <4>3, <4>4 DEF Progress, IndexPhases, ViewPhases, Fitting
    <3> QED BY <3>2, <3>3
  <2>4. CASE ViewFails(s)
    <3>1. pc'[s] = "failed"
      BY <1>1, <2>4 DEF ViewFails, Goto
    <3> QED BY <3>1 DEF Progress, IndexPhases, ViewPhases
  <2>5. CASE \E phase \in {"list", "post", "find_again"} : Goto(s, phase)
    <3>1. pc'[s] \in {"list", "post", "find_again"} /\ kind'[s] = kind[s]
      BY <1>1, <2>5 DEF Goto
    <3> QED BY <1>2, <2>2, <3>1 DEF Progress, IndexPhases, ViewPhases, Fitting
  <2> QED BY <1>8, <2>3, <2>4, <2>5 DEF Find, List, Post, FindAgain
<1> QED BY <1>4, <1>5, <1>6, <1>7, <1>8 DEF Request

\* All set-ups know what they have looked at, whoever takes the step.
LEMMA StepProgress ==
    ASSUME IInv, [Next]_vars, NEW t \in Setups
    PROVE  Progress(t)'
<1>1. TypeOK /\ Grown /\ Progress(t)
  BY StepGrows DEF IInv
<1>2. CASE pc'[t] = pc[t] /\ kind'[t] = kind[t]
  BY <1>1, <1>2, ProgressStays
<1>3. CASE Request(t)
  BY <1>1, <1>3, RequestProgress
<1>4. CASE pc'[t] \in {"start", "failed"}
  BY <1>4 DEF Progress, IndexPhases, ViewPhases
<1>5. ASSUME NEW s \in Setups, s # t, Request(s) \/ Fails(s) \/ RunAgain(s)
      PROVE  pc'[t] = pc[t] /\ kind'[t] = kind[t]
  <2>1. /\ \/ pc' = pc
           \/ \E phase : pc' = [pc EXCEPT ![s] = phase]
        /\ \/ kind' = kind
           \/ \E k : kind' = [kind EXCEPT ![s] = k]
    BY <1>5 DEF Request, Ready, Check, Template, Look, Create, Verify,
                KibanaReady, Find, List, Post, FindAgain, ViewDone, ViewFails,
                Fails, RunAgain, Goto, NextKind
  <2> QED BY <1>1, <1>5, <2>1 DEF TypeOK
<1>6. ASSUME Fails(t) \/ RunAgain(t) PROVE pc'[t] \in {"start", "failed"}
  BY <1>1, <1>6 DEF TypeOK, Fails, RunAgain, Goto
<1>7. ASSUME \/ UNCHANGED vars
             \/ \E k \in Kinds : AutoCreate(k) \/ MakeView(k)
      PROVE  pc' = pc /\ kind' = kind
  BY <1>7 DEF vars, AutoCreate, MakeView
<1> QED BY <1>2, <1>3, <1>4, <1>5, <1>6, <1>7 DEF Next

-----------------------------------------------------------------------------
(* One owner.                                                              *)

\* A template beyond the first is written by the owner only, and an index is
\* made of its own kind's template.
LEMMA StepOwner ==
    ASSUME IInv, [Next]_vars
    PROVE  OneOwner'
<1> USE DEF services, rest
<1>1. /\ TypeOK /\ OneOwner /\ Grown
      /\ None \notin Databases /\ Alien \notin Databases
  BY StepGrows, ElkAssumption DEF IInv
<1>2. 1 \in Kinds
  BY DEF Kinds
<1>3. ASSUME NEW k \in Kinds \ {1}, NEW d \in {template[k], index[k]}
      PROVE  d \in {None, Alien, index'[1]}
  <2>1. d \in {None, Alien, index[1]}
    BY <1>1, <1>3 DEF OneOwner
  <2> QED BY <1>1, <1>2, <2>1 DEF Grown
<1>4. ASSUME NEW s \in Setups, pc[s] = "template", PutTemplate(s), UNCHANGED index
      PROVE  OneOwner'
  <2>1. kind[s] \in Kinds
    BY <1>1 DEF TypeOK
  <2>2. ASSUME kind[s] # 1 PROVE index[1] = database[s]
    <3>1. Progress(s) /\ 1 \in 1 .. (kind[s] - 1)
      BY <2>1, <2>2 DEF IInv, Kinds
    <3> QED BY <1>4, <3>1 DEF Progress, IndexPhases
  <2>3. \A k \in Kinds \ {1} : template'[k] \in {template[k], index'[1]}
    BY <1>1, <1>4, <2>1, <2>2 DEF TypeOK, PutTemplate
  <2> QED BY <1>3, <1>4, <2>3 DEF OneOwner
<1>5. ASSUME UNCHANGED template,
             \A k \in Kinds : index'[k] \in {index[k], template[k], Alien}
      PROVE  OneOwner'
  BY <1>3, <1>5 DEF OneOwner
<1>6. ASSUME UNCHANGED <<template, index>> PROVE OneOwner'
  BY <1>1, <1>6 DEF OneOwner
<1>7. ASSUME NEW s \in Setups, Request(s) \/ Fails(s) PROVE OneOwner'
  <2>1. \/ UNCHANGED <<template, index>>
        \/ pc[s] = "template" /\ PutTemplate(s) /\ UNCHANGED index
        \/ PutIndex(s) /\ UNCHANGED template
    BY <1>7 DEF Request, Ready, Check, Template, Look, Create, Verify,
                KibanaReady, Find, List, Post, FindAgain, Fails
  <2>2. PutIndex(s) => \A k \in Kinds : index'[k] \in {index[k], template[k], Alien}
    BY <1>1 DEF TypeOK, PutIndex
  <2> QED BY <1>2, <1>4, <1>5, <1>6, <2>1, <2>2
<1>8. ASSUME NEW k \in Kinds, AutoCreate(k) PROVE OneOwner'
  <2>1. \A l \in Kinds : index'[l] \in {index[l], template[l], Alien}
    BY <1>1, <1>8 DEF TypeOK, AutoCreate
  <2> QED BY <1>5, <1>8, <2>1 DEF AutoCreate
<1> QED BY <1>6, <1>7, <1>8 DEF Next, vars, RunAgain, MakeView

-----------------------------------------------------------------------------
(* What PASS means.                                                        *)

\* A set-up reports PASS past its last view, when it knows of all the rest.
LEMMA StepPassed ==
    ASSUME IInv, [Next]_vars
    PROVE  PassIsComplete'
<1> USE DEF services, rest
<1>1. TypeOK /\ Grown /\ passed \subseteq Setups /\ database \in [Setups -> Databases]
  BY StepGrows DEF IInv, TypeOK
<1>2. ASSUME NEW s \in passed, NEW k \in Kinds
      PROVE  index'[k] = database'[s] /\ Fitting(k)' # {}
  <2>1. index[k] = database[s] /\ Fitting(k) # {} /\ database[s] # None
    BY <1>1, <1>2, ElkAssumption DEF IInv, PassIsComplete
  <2> QED BY <1>1, <2>1 DEF Grown
<1>3. ASSUME NEW s \in Setups, s \in passed', s \notin passed, NEW k \in Kinds
      PROVE  index'[k] = database'[s] /\ Fitting(k)' # {}
  <2>1. PICK t \in Setups : ViewDone(t) /\ (Find(t) \/ List(t) \/ Post(t) \/ FindAgain(t))
    BY <1>3 DEF Next, Request, Ready, Check, Template, Look, Create, Verify,
                KibanaReady, Find, List, Post, FindAgain, ViewFails,
                Fails, RunAgain, AutoCreate, MakeView, vars
  <2>2. t = s /\ kind[s] = 3
    BY <1>3, <2>1 DEF ViewDone
  <2>3. pc[s] \in ViewPhases /\ Progress(s) /\ database[s] # None
    BY <1>1, <2>1, <2>2, ElkAssumption DEF IInv, Find, List, Post, FindAgain, ViewPhases
  <2>4. k = kind[s] \/ k \in 1 .. (kind[s] - 1)
    BY <2>2, Kinded DEF Kinds
  <2>5. index[k] = database[s] /\ (k # kind[s] => Fitting(k) # {})
    BY <2>3, <2>4 DEF Progress
  <2>6. k = kind[s] => Fitting(k)' # {}
    BY <1>1, <2>1, <2>2, ViewIsThere
  <2> QED BY <1>1, <2>3, <2>5, <2>6 DEF Grown
<1>4. passed' \subseteq Setups
  BY <1>1, StepTyped DEF TypeOK
<1>5. \A s \in passed' : \A k \in Kinds : index'[k] = database'[s] /\ Fitting(k)' # {}
  BY <1>2, <1>3, <1>4
<1> QED BY <1>5 DEF PassIsComplete

-----------------------------------------------------------------------------
\* The four together are inductive.
LEMMA Inductive == Spec => []IInv
<1>1. Init => IInv
  <2>1. ASSUME Init PROVE TypeOK
    BY <2>1, ElkAssumption DEF Init, TypeOK, Phases, Kinds
  <2> QED
    BY <2>1 DEF Init, IInv, OneOwner, PassIsComplete, Progress, IndexPhases, ViewPhases
<1>2. IInv /\ [Next]_vars => IInv'
  <2> SUFFICES ASSUME IInv, [Next]_vars PROVE IInv'
    OBVIOUS
  <2>1. TypeOK'
    BY StepTyped DEF IInv
  <2>2. \A s \in Setups : Progress(s)'
    BY StepProgress
  <2> QED BY <2>1, <2>2, StepOwner, StepPassed DEF IInv
<1> QED BY <1>1, <1>2, PTL DEF Spec

\* No index and no later template names a database but that of the first
\* index, however many set-ups for different databases overlap or fail.
THEOREM PrefixHasOneOwner == Spec => []OneOwner
<1>1. IInv => OneOwner
  BY DEF IInv
<1> QED BY <1>1, Inductive, PTL

\* A set-up that has reported PASS has, and keeps, all its indices and views.
THEOREM PassesAreComplete == Spec => []PassIsComplete
<1>1. IInv => PassIsComplete
  BY DEF IInv
<1> QED BY <1>1, Inductive, PTL

=============================================================================
