-------------------------- MODULE LifecycleProofs --------------------------
(***************************************************************************)
(* Theorems about Lifecycle, for any aliases, releases, system types,      *)
(* counters and workers, and any number of faults and deployments.         *)
(***************************************************************************)
EXTENDS Lifecycle, TLAPS

USE DEF Ours, IndexNames

-----------------------------------------------------------------------------
(* The aliases *)

LEMMA AliasInit == Init => AliasInv
BY DEF Init, AliasInv

\* A step that leaves the scripts' state alone, or ends them.
LEMMA AliasIdle ==
    ASSUME AliasInv,
           UNCHANGED <<release, script, schemaOf, aliasOf>>,
           \/ pc' = pc
           \/ pc' = "down"
           \/ /\ pc \notin {"down", "scripts", "create", "aliases", "switch",
                             "compare"}
              /\ pc' \notin {"down", "scripts", "create", "aliases", "switch",
                              "compare"}
    PROVE  AliasInv'
BY DEF AliasInv, Good, script

LEMMA AliasBoot ==
    ASSUME AliasInv, NEW r \in Releases, Boot(r)
    PROVE  AliasInv'
BY DEF AliasInv, Boot, elastic

LEMMA AliasCheckIndex ==
    ASSUME AliasInv, NEW a \in Aliases, CheckIndex(a)
    PROVE  AliasInv'
<1>1. UNCHANGED <<release, using, schemaOf, aliasOf, todo>>
  BY DEF CheckIndex, elastic, Exit
<1>2. CASE pc' = "down"
  BY <1>1, <1>2 DEF AliasInv
<1>3. CASE /\ pc' = IF schemaOf[Ours(a)] # None THEN "aliases" ELSE "create"
           /\ cur' = a
  BY <1>1, <1>3 DEF AliasInv, CheckIndex, Good
<1> QED
  BY <1>2, <1>3 DEF CheckIndex, Exit

LEMMA AliasCreateIndex ==
    ASSUME AliasInv, CreateIndex
    PROVE  AliasInv'
<1>1. /\ pc = "create" /\ cur \in todo /\ cur \in Aliases /\ release \in Releases
      /\ schemaOf[Ours(cur)] = None
  BY DEF AliasInv, CreateIndex
<1>2. UNCHANGED <<release, using, aliasOf, todo, cur>>
  BY DEF CreateIndex, Exit
<1>3. DOMAIN schemaOf' = IndexNames
  BY DEF AliasInv, CreateIndex
<1>4. CASE pc' = "down"
  BY <1>2, <1>3, <1>4 DEF AliasInv
<1>5. CASE /\ schemaOf' = [schemaOf EXCEPT ![Ours(cur)] = Schema[release][cur]]
           /\ pc' = "aliases"
  <2>1. ASSUME NEW a \in Aliases \ todo
        PROVE  Good(a)'
    <3>1. Good(a) /\ Schema[release][a] # None
      BY <1>1, LifecycleAssumption DEF AliasInv
    <3>2. Ours(a) # Ours(cur)
      BY <3>1, <1>1 DEF Good
    <3> QED
      BY <3>1, <3>2, <1>2, <1>5 DEF Good, AliasInv
  <2> QED
    BY <2>1, <1>1, <1>2, <1>3, <1>5 DEF AliasInv
<1> QED
  BY <1>4, <1>5 DEF CreateIndex, Exit

LEMMA AliasReadAliases ==
    ASSUME AliasInv, ReadAliases
    PROVE  AliasInv'
BY DEF AliasInv, ReadAliases, Exit, elastic, Good

LEMMA AliasSwitchAlias ==
    ASSUME AliasInv, SwitchAlias
    PROVE  AliasInv'
<1>1. /\ pc = "switch" /\ cur \in todo /\ cur \in Aliases
      /\ release \in Releases /\ using = aliasOf[cur]
  BY DEF AliasInv, SwitchAlias
<1>2. UNCHANGED <<release, using, schemaOf, todo, cur>>
  BY DEF SwitchAlias, Exit
<1>3. Ours(cur) \in IndexNames
  BY <1>1
<1>4. aliasOf' \in [Aliases -> SUBSET IndexNames]
  BY <1>1, <1>3 DEF AliasInv, SwitchAlias
<1>5. CASE pc' = "down"
  BY <1>2, <1>4, <1>5 DEF AliasInv
<1>6. CASE /\ aliasOf' = [aliasOf EXCEPT ![cur] = (@ \ using) \cup {Ours(cur)}]
           /\ pc' = "compare"
  <2>1. aliasOf'[cur] = {Ours(cur)}
    BY <1>1, <1>6 DEF AliasInv
  <2>2. \A a \in Aliases \ todo : Good(a)'
    BY <1>1, <1>2, <1>6 DEF AliasInv, Good
  <2> QED
    BY <2>1, <2>2, <1>1, <1>2, <1>4, <1>6 DEF AliasInv
<1> QED
  BY <1>5, <1>6 DEF SwitchAlias, Exit

LEMMA AliasCompareSchema ==
    ASSUME AliasInv, CompareSchema
    PROVE  AliasInv'
<1>1. /\ pc = "compare" /\ cur \in todo /\ cur \in Aliases
      /\ aliasOf[cur] = {Ours(cur)}
  BY DEF AliasInv, CompareSchema
<1>2. UNCHANGED <<release, using, schemaOf, aliasOf, cur>>
  BY DEF CompareSchema, Exit, elastic
<1>3. CASE pc' = "down" /\ UNCHANGED todo
  BY <1>2, <1>3 DEF AliasInv
<1>4. CASE /\ \A i \in aliasOf[cur] : schemaOf[i] = Schema[release][cur]
           /\ todo' = todo \ {cur}
           /\ pc' = IF todo' = {} THEN "poll" ELSE "scripts"
  <2>1. Good(cur)
    BY <1>1, <1>4 DEF Good
  <2>2. \A a \in Aliases \ todo' : Good(a)'
    BY <2>1, <1>1, <1>2, <1>4 DEF AliasInv, Good
  <2> QED
    BY <2>2, <1>1, <1>2, <1>4 DEF AliasInv
<1> QED
  BY <1>3, <1>4 DEF CompareSchema, Exit

\* Service.Init, the server, requests and crashes leave the aliases alone.
LEMMA AliasLater ==
    ASSUME AliasInv,
           \/ Poll \/ NameExists \/ GetIDByName \/ StoreType \/ AddMapping
           \/ UndoType \/ InitCron \/ Listen \/ Serve \/ PostRepeatingEvent
           \/ DeleteEvent \/ Crash
    PROVE  AliasInv'
<1>1. CASE Poll
  BY <1>1, AliasIdle DEF Poll, Exit, elastic, script
<1>2. CASE NameExists
  BY <1>2, AliasIdle DEF NameExists, NextType, elastic, script
<1>3. CASE GetIDByName
  BY <1>3, AliasIdle DEF GetIDByName, NextType, InitPanics, elastic, script
<1>4. CASE StoreType
  BY <1>4, AliasIdle DEF StoreType, NextType, script
<1>5. CASE AddMapping
  BY <1>5, AliasIdle DEF AddMapping, NextType, script
<1>6. CASE UndoType
  BY <1>6, AliasIdle DEF UndoType, NextType, InitPanics, script
<1>7. CASE InitCron
  BY <1>7, AliasIdle DEF InitCron, Exit, elastic, script
<1>8. CASE Listen
  BY <1>8, AliasIdle DEF Listen, Exit, elastic, script
<1>9. CASE Serve
  BY <1>9, AliasIdle DEF Serve, elastic, script
<1>10. CASE PostRepeatingEvent \/ DeleteEvent
  BY <1>10, AliasIdle DEF PostRepeatingEvent, DeleteEvent, script
<1>11. CASE Crash
  BY <1>11, AliasIdle DEF Crash, elastic, script
<1> QED
  BY <1>1, <1>2, <1>3, <1>4, <1>5, <1>6, <1>7, <1>8, <1>9, <1>10, <1>11

LEMMA AliasStep == AliasInv /\ [Next]_vars => AliasInv'
<1> SUFFICES ASSUME AliasInv, [Next]_vars PROVE AliasInv'
  OBVIOUS
<1>1. CASE Restart
  <2>1. release \in Releases /\ Boot(release)
    BY <1>1 DEF Restart, AliasInv
  <2> QED
    BY <2>1, AliasBoot
<1>2. CASE \E a \in Aliases : CheckIndex(a)
  BY <1>2, AliasCheckIndex
<1>3. CASE \E r \in Releases : Deploy(r)
  BY <1>3, AliasBoot DEF Deploy
<1>4. CASE CreateIndex \/ ReadAliases \/ SwitchAlias \/ CompareSchema
  BY <1>4, AliasCreateIndex, AliasReadAliases, AliasSwitchAlias,
     AliasCompareSchema
<1>5. CASE \/ Poll \/ NameExists \/ GetIDByName \/ StoreType \/ AddMapping
           \/ UndoType \/ InitCron \/ Listen \/ Serve \/ PostRepeatingEvent
           \/ DeleteEvent \/ Crash
  BY <1>5, AliasLater
<1>6. CASE UNCHANGED vars
  BY <1>6, AliasIdle DEF vars, elastic, script
<1> QED
  BY <1>1, <1>2, <1>3, <1>4, <1>5, <1>6 DEF Next, StartStep

\* Whatever starts were cut short before, and whatever releases ran: a release
\* that serves requests (Kit.Wait) does so with its own indices behind its
\* aliases, and with the schemas makeIndices compared.
THEOREM ServesOwnIndicesHolds == Spec => []ServesOwnIndices
<1>1. AliasInv => ServesOwnIndices
  BY DEF AliasInv, ServesOwnIndices, Good
<1> QED
  BY <1>1, AliasInit, AliasStep, PTL DEF Spec

-----------------------------------------------------------------------------
(* The counters *)

LEMMA CountInit == StatsInit => CountInv
BY StatsAssumption
   DEF StatsInit, CountInv, CountTypes, IncrInv, ReplyInv, CountsBounded, Idle

LEMMA CountReset == ResetStats => CountInv'
BY StatsAssumption
   DEF ResetStats, CountInv, CountTypes, IncrInv, ReplyInv, CountsBounded, Idle

LEMMA CountIdle == CountInv /\ UNCHANGED statsVars => CountInv'
BY DEF statsVars, CountInv, CountTypes, IncrInv, ReplyInv, CountsBounded

LEMMA CountReadCounter ==
    ASSUME CountInv, NEW w \in Workers, NEW c \in Counters, ReadCounter(w, c)
    PROVE  CountInv'
<1> USE StatsAssumption DEF CountInv, CountTypes, ReadCounter, Idle
<1>1. CountTypes'
  OBVIOUS
<1>2. IncrInv'
  BY <1>1 DEF IncrInv, CountsBounded
<1>3. ReplyInv'
  BY DEF ReplyInv
<1>4. CountsBounded'
  BY <1>1 DEF CountsBounded, ReplyInv
<1> QED
  BY <1>1, <1>2, <1>3, <1>4

LEMMA CountWriteCounter ==
    ASSUME CountInv, NEW w \in Workers, WriteCounter(w)
    PROVE  CountInv'
<1> USE StatsAssumption DEF CountInv, CountTypes, WriteCounter
<1>1. PICK c \in Counters : incr[w].on = c
  BY DEF IncrInv
<1>2. /\ incr[w].read \in Nat
      /\ counter' = [counter EXCEPT ![c] = incr[w].read + 1]
      /\ done' = [done EXCEPT ![c] = @ + 1]
  BY <1>1
<1>3. CountTypes'
  BY <1>1, <1>2 DEF Idle
<1>4. IncrInv'
  BY <1>1, <1>2, <1>3 DEF IncrInv, Idle
<1>5. ReplyInv'
  BY <1>1, <1>2, <1>3 DEF ReplyInv
<1>6. CountsBounded'
  BY <1>1, <1>2, <1>3 DEF CountsBounded, IncrInv, ReplyInv
<1> QED
  BY <1>3, <1>4, <1>5, <1>6

\* PostEventType for a system type, before the server runs: no worker is at
\* work, and no GetStats.
LEMMA CountIncrAlone ==
    ASSUME CountInv, NEW c \in Counters, IncrAlone(c),
           \A w \in Workers : incr[w] = Idle
    PROVE  CountInv'
<1> USE StatsAssumption DEF CountInv, CountTypes, IncrAlone, Idle
<1>1. CountTypes'
  OBVIOUS
<1>2. IncrInv'
  BY <1>1 DEF IncrInv
<1>3. ReplyInv'
  BY <1>1 DEF ReplyInv
<1>4. CountsBounded'
  BY <1>1 DEF CountsBounded, ReplyInv
<1> QED
  BY <1>1, <1>2, <1>3, <1>4

LEMMA CountGetStats ==
    ASSUME CountInv,
           LockStats \/ UnlockStats \/ \E c \in Counters : CopyField(c)
    PROVE  CountInv'
<1> USE DEF CountInv, CountTypes
<1>1. CASE LockStats
  BY <1>1 DEF LockStats, IncrInv, ReplyInv, CountsBounded
<1>2. CASE UnlockStats
  BY <1>2 DEF UnlockStats, IncrInv, ReplyInv, CountsBounded
<1>3. ASSUME NEW c \in Counters, CopyField(c) PROVE CountInv'
  <2>1. CountTypes' /\ IncrInv'
    BY <1>3 DEF CopyField, IncrInv
  <2>2. ReplyInv'
    BY <1>3 DEF CopyField, ReplyInv
  <2>3. CountsBounded'
    BY <1>3 DEF CopyField, ReplyInv, CountsBounded
  <2> QED
    BY <2>1, <2>2, <2>3
<1> QED
  BY <1>1, <1>2, <1>3

LEMMA CountServe == CountInv /\ StatsNext => CountInv'
BY CountReadCounter, CountWriteCounter, CountGetStats DEF StatsNext

\* Increments are under way only while the server runs or after its death.
QuietStart ==
    pc \notin {"down", "serving"} => \A w \in Workers : incr[w] = Idle

LEMMA QuietStep == QuietStart /\ [Next]_vars => QuietStart'
<1> SUFFICES ASSUME QuietStart, [Next]_vars PROVE QuietStart'
  OBVIOUS
<1> USE DEF QuietStart
<1>1. CASE \E r \in Releases \cup {release} : Boot(r)
  BY <1>1 DEF Boot, ResetStats
<1>2. CASE pc \notin {"down", "serving"} /\ UNCHANGED incr
  BY <1>2
<1>3. CASE pc' \in {"down", "serving"}
  BY <1>3
<1>4. CASE UNCHANGED vars
  BY <1>4 DEF vars, statsVars
<1> QED
  <2>1. CASE StartStep
    BY <2>1, <1>1, <1>2
       DEF StartStep, Restart, CheckIndex, CreateIndex, ReadAliases,
           SwitchAlias, CompareSchema, Poll, NameExists, GetIDByName,
           StoreType, AddMapping, UndoType, InitCron, Listen, IncrAlone,
           statsVars
  <2>2. CASE \E r \in Releases : Deploy(r)
    BY <2>2, <1>1 DEF Deploy
  <2>3. CASE Serve \/ PostRepeatingEvent \/ DeleteEvent \/ Crash
    BY <2>3, <1>3 DEF Serve, PostRepeatingEvent, DeleteEvent, Crash
  <2> QED
    BY <2>1, <2>2, <2>3, <1>4 DEF Next

LEMMA CountStep == CountInv /\ QuietStart /\ [Next]_vars => CountInv'
<1> SUFFICES ASSUME CountInv, QuietStart, [Next]_vars PROVE CountInv'
  OBVIOUS
<1>1. CASE UNCHANGED statsVars
  BY <1>1, CountIdle
<1>2. CASE \E r \in Releases \cup {release} : Boot(r)
  BY <1>2, CountReset DEF Boot
<1>3. CASE AddMapping
  <2>1. CASE UNCHANGED statsVars
    BY <2>1, <1>1
  <2>2. CASE IncrAlone("NumEventTypes")
    <3>1. \A w \in Workers : incr[w] = Idle
      BY <1>3 DEF AddMapping, QuietStart
    <3> QED
      BY <2>2, <3>1, CountIncrAlone, StatsAssumption
  <2> QED
    BY <1>3, <2>1, <2>2 DEF AddMapping
<1>4. CASE Serve
  BY <1>4, CountServe DEF Serve
<1>5. CASE UNCHANGED vars
  BY <1>5, <1>1 DEF vars
<1> QED
  <2>1. CASE StartStep
    BY <2>1, <1>1, <1>2, <1>3
       DEF StartStep, Restart, CheckIndex, CreateIndex, ReadAliases,
           SwitchAlias, CompareSchema, Poll, NameExists, GetIDByName,
           StoreType, UndoType, InitCron, Listen
  <2>2. CASE \E r \in Releases : Deploy(r)
    BY <2>2, <1>2 DEF Deploy
  <2>3. CASE PostRepeatingEvent \/ DeleteEvent \/ Crash
    BY <2>3, <1>1 DEF PostRepeatingEvent, DeleteEvent, Crash
  <2> QED
    BY <2>1, <2>2, <2>3, <1>4, <1>5 DEF Next

\* The unsynchronised increments of Stats, for any counters and any number of
\* workers and increments: counters are never too high, never zero after an
\* increment, exact without overlap, and GetStats reports no worse.
THEOREM CountsBoundedHolds == Spec => []CountsBounded
<1>1. Init => CountInv /\ QuietStart
  BY CountInit DEF Init, QuietStart
<1>2. CountInv => CountsBounded
  BY DEF CountInv
<1> QED
  BY <1>1, <1>2, QuietStep, CountStep, PTL DEF Spec

-----------------------------------------------------------------------------
(* Types *)

\* PostEventType is at work on a system type.
Creating == {"name", "search", "store", "mapping", "undo"}

\* Service.Init counts no more than one event type for each system type it is
\* done with.
AtInv ==
    /\ pc \in Creating => at <= Len(SystemTypes)
    /\ pc \in {"scripts", "create", "aliases", "switch", "compare", "poll"} =>
          begun["NumEventTypes"] = 0
    /\ pc \in Creating => begun["NumEventTypes"] < at

TypeInv == TypeOK /\ AtInv

LEMMA Lengths ==
    /\ Len(SystemTypes) \in Nat \ {0}
    /\ Len(SystemTypes) <= MaxIncrements
    /\ MaxIncrements \in Nat
    /\ \A i \in 1..Len(SystemTypes) : SystemTypes[i] \in SystemNames
    /\ \A s \in SystemNames : \E i \in 1..Len(SystemTypes) : s = SystemTypes[i]
<1>1. /\ Len(SystemTypes) \in 1..MaxIncrements
      /\ MaxIncrements \in Nat
      /\ DOMAIN SystemTypes = 1..Len(SystemTypes)
  BY LifecycleAssumption, StatsAssumption
<1> QED
  BY <1>1 DEF SystemNames

\* The system type at work is one.
LEMMA AtWork ==
    ASSUME TypeInv, pc \in Creating
    PROVE  /\ at \in 1..Len(SystemTypes)
           /\ SystemType \in SystemNames
<1>1. at \in 1..Len(SystemTypes)
  BY Lengths DEF TypeInv, TypeOK, AtInv
<1> QED
  BY <1>1, Lengths DEF SystemType

LEMMA TypeInit == Init => TypeInv
BY LifecycleAssumption, StatsAssumption, Lengths
   DEF Init, StatsInit, TypeInv, TypeOK, StatsTypeOK, AtInv, Creating, Idle

\* What the types of the counters need of a step.
LEMMA StatsTypeIdle == StatsTypeOK /\ UNCHANGED statsVars => StatsTypeOK'
BY DEF StatsTypeOK, statsVars

LEMMA StatsTypeServe ==
    ASSUME StatsTypeOK, StatsNext
    PROVE  StatsTypeOK'
<1> USE StatsAssumption DEF StatsTypeOK
<1>1. ASSUME NEW w \in Workers, NEW c \in Counters, ReadCounter(w, c)
      PROVE  StatsTypeOK'
  BY <1>1 DEF ReadCounter
<1>2. ASSUME NEW w \in Workers, WriteCounter(w) PROVE StatsTypeOK'
  <2>1. incr' \in [Workers -> [on : Counters \cup {None}, read : Nat]]
    BY <1>2 DEF WriteCounter, Idle
  <2>2. counter' \in [Counters -> Nat] /\ done' \in [Counters -> Nat]
    <3>1. PICK c \in Counters \cup {None}, n \in Nat :
              c = incr[w].on /\ n = incr[w].read
      OBVIOUS
    <3>2. /\ counter' = [counter EXCEPT ![c] = n + 1]
          /\ done' = [done EXCEPT ![c] = done[c] + 1]
      BY <1>2, <3>1 DEF WriteCounter
    <3>3. CASE c = None
      BY <3>2, <3>3
    <3>4. CASE c \in Counters
      BY <3>2, <3>4
    <3> QED
      BY <3>3, <3>4
  <2> QED
    BY <1>2, <2>1, <2>2 DEF WriteCounter
<1>3. CASE LockStats \/ UnlockStats
  BY <1>3 DEF LockStats, UnlockStats
<1>4. ASSUME NEW c \in Counters, CopyField(c) PROVE StatsTypeOK'
  BY <1>4 DEF CopyField
<1> QED
  BY <1>1, <1>2, <1>3, <1>4 DEF StatsNext

\* A step that moves a process not at work on a system type, or ends it.
LEMMA TypeMove ==
    ASSUME TypeInv, TypeOK', UNCHANGED <<at, begun>>,
           \/ pc' \in {"down", "cron", "listen", "serving"}
           \/ /\ pc \in {"scripts", "create", "aliases", "switch", "compare"}
              /\ pc' \in {"scripts", "create", "aliases", "switch", "compare",
                          "poll"}
           \/ pc' = pc
           \/ pc \in Creating /\ pc' \in Creating
    PROVE  TypeInv'
BY DEF TypeInv, AtInv, Creating

LEMMA TypeBoot ==
    ASSUME TypeInv, NEW r \in Releases, Boot(r), deploys' \in 0..MaxDeploys
    PROVE  TypeInv'
<1>1. StatsTypeOK'
  BY StatsAssumption DEF Boot, ResetStats, StatsTypeOK, Idle
<1>2. TypeOK'
  BY <1>1 DEF Boot, TypeInv, TypeOK, elastic
<1>3. AtInv'
  BY StatsAssumption DEF Boot, ResetStats, AtInv, Creating
<1> QED
  BY <1>2, <1>3 DEF TypeInv

LEMMA TypeFault ==
    ASSUME TypeInv, Fault \/ NoFault
    PROVE  faults' \in 0..MaxFaults /\ deploys' \in 0..MaxDeploys
BY LifecycleAssumption DEF TypeInv, TypeOK, Fault, NoFault, bounds

LEMMA TypeScripts ==
    ASSUME TypeInv, AliasInv,
           \/ \E a \in Aliases : CheckIndex(a)
           \/ CreateIndex \/ ReadAliases \/ SwitchAlias \/ CompareSchema
    PROVE  TypeInv'
<1> USE DEF Exit, elastic
<1>1. UNCHANGED <<at, begun>> /\ UNCHANGED statsVars /\ StatsTypeOK'
  BY StatsTypeIdle DEF TypeInv, TypeOK, CheckIndex, CreateIndex, ReadAliases,
     SwitchAlias, CompareSchema, statsVars
<1>2. faults' \in 0..MaxFaults /\ deploys' \in 0..MaxDeploys
  BY TypeFault DEF CheckIndex, CreateIndex, ReadAliases, SwitchAlias,
     CompareSchema
<1>3. UNCHANGED <<release, docs, maps, crons>>
  BY DEF CheckIndex, CreateIndex, ReadAliases, SwitchAlias, CompareSchema
<1>4. ASSUME NEW a \in Aliases, CheckIndex(a) PROVE TypeInv'
  <2>1. TypeOK'
    BY <1>1, <1>2, <1>3, <1>4 DEF CheckIndex, TypeInv, TypeOK
  <2> QED
    BY <1>1, <1>4, <2>1, TypeMove DEF CheckIndex
<1>5. CASE CreateIndex
  <2>1. TypeOK'
    BY <1>1, <1>2, <1>3, <1>5 DEF CreateIndex, TypeInv, TypeOK
  <2> QED
    BY <1>1, <1>5, <2>1, TypeMove DEF CreateIndex
<1>6. CASE ReadAliases
  <2>1. aliasOf[cur] \subseteq IndexNames
    BY <1>6 DEF AliasInv, ReadAliases
  <2>2. /\ pc' \in {"down", "compare", "switch"}
        /\ todo' = todo /\ cur' = cur
        /\ using' \in {using, aliasOf[cur]}
        /\ UNCHANGED aliasOf
    BY <1>6 DEF ReadAliases
  <2>3. TypeOK'
    BY <1>1, <1>2, <1>3, <2>1, <2>2 DEF TypeInv, TypeOK
  <2> QED
    BY <1>1, <1>6, <2>3, TypeMove DEF ReadAliases
<1>7. CASE SwitchAlias
  <2>1. aliasOf' \in [Aliases -> SUBSET IndexNames]
    BY AliasSwitchAlias, <1>7 DEF AliasInv
  <2>2. TypeOK'
    BY <1>1, <1>2, <1>3, <1>7, <2>1 DEF SwitchAlias, TypeInv, TypeOK
  <2> QED
    BY <1>1, <1>7, <2>2, TypeMove DEF SwitchAlias
<1>8. CASE CompareSchema
  <2>1. TypeOK'
    BY <1>1, <1>2, <1>3, <1>8 DEF CompareSchema, TypeInv, TypeOK
  <2> QED
    BY <1>1, <1>8, <2>1, TypeMove DEF CompareSchema
<1> QED
  BY <1>4, <1>5, <1>6, <1>7, <1>8

\* PostEventType goes on to the next system type, or to the end.
LEMMA TypeNextType ==
    ASSUME TypeInv, pc \in Creating, NextType,
           begun'["NumEventTypes"] <= begun["NumEventTypes"] + 1,
           begun'["NumEventTypes"] \in Nat
    PROVE  /\ pc' \in {"name", "cron"}
           /\ at' \in 1..(Len(SystemTypes) + 1)
           /\ AtInv'
<1>1. /\ at \in 1..Len(SystemTypes) /\ begun["NumEventTypes"] < at
      /\ begun["NumEventTypes"] \in Nat
  BY AtWork, StatsAssumption DEF TypeInv, TypeOK, StatsTypeOK, AtInv
<1>2. at' = at + 1 /\ pc' = IF at < Len(SystemTypes) THEN "name" ELSE "cron"
  BY DEF NextType
<1> QED
  BY <1>1, <1>2, Lengths DEF AtInv, Creating

\* The documents and mappings of the system types.
LEMMA TypeDocs ==
    ASSUME TypeInv, pc \in Creating
    PROVE  /\ WithDoc \in [IndexNames -> SUBSET SystemNames]
           /\ WithoutDoc \in [IndexNames -> SUBSET SystemNames]
           /\ WithMap \in [IndexNames -> SUBSET SystemNames]
BY AtWork DEF WithDoc, WithoutDoc, WithMap, TypeInv, TypeOK

LEMMA TypeCreate ==
    ASSUME TypeInv,
           Poll \/ NameExists \/ GetIDByName \/ StoreType \/ AddMapping \/ UndoType
    PROVE  TypeInv'
<1> USE DEF script, elastic
<1>1. faults' \in 0..MaxFaults /\ deploys' \in 0..MaxDeploys
  BY TypeFault DEF Poll, NameExists, GetIDByName, StoreType, AddMapping, UndoType,
     InitPanics
<1>2. /\ UNCHANGED <<release, todo, cur, using, aliasOf, crons>>
      /\ docs' \in [IndexNames -> SUBSET SystemNames]
      /\ maps' \in [IndexNames -> SUBSET SystemNames]
  <2>1. UNCHANGED <<release, todo, cur, using, aliasOf, crons>>
    BY DEF Poll, NameExists, GetIDByName, StoreType, AddMapping, UndoType, Exit
  <2>2. CASE Poll \/ NameExists \/ GetIDByName
    BY <2>1, <2>2 DEF Poll, NameExists, GetIDByName, TypeInv, TypeOK
  <2>3. CASE StoreType \/ UndoType
    BY <2>1, <2>3, TypeDocs
       DEF StoreType, UndoType, Creating, TypeInv, TypeOK
  <2>4. CASE AddMapping
    BY <2>1, <2>4, TypeDocs DEF AddMapping, Creating, TypeInv, TypeOK
  <2> QED
    BY <2>1, <2>2, <2>3, <2>4
<1>3. /\ StatsTypeOK'
      /\ begun'["NumEventTypes"] \in Nat
      /\ begun'["NumEventTypes"] <= begun["NumEventTypes"] + 1
  <2>1. CASE UNCHANGED statsVars
    BY <2>1, StatsTypeIdle, StatsAssumption
       DEF statsVars, TypeInv, TypeOK, StatsTypeOK
  <2>2. CASE AddMapping /\ IncrAlone("NumEventTypes")
    <3>1. at \in 1..Len(SystemTypes) /\ begun["NumEventTypes"] < at
      BY <2>2, AtWork DEF AddMapping, TypeInv, AtInv, Creating
    <3>2. begun["NumEventTypes"] \in Nat /\ begun["NumEventTypes"] < MaxIncrements
      BY <3>1, Lengths, StatsAssumption DEF TypeInv, TypeOK, StatsTypeOK
    <3> QED
      BY <2>2, <3>2, StatsAssumption
         DEF IncrAlone, TypeInv, TypeOK, StatsTypeOK
  <2> QED
    BY <2>1, <2>2 DEF Poll, NameExists, GetIDByName, StoreType, AddMapping,
       UndoType
<1>4. CASE pc \in Creating /\ NextType
  <2>1. /\ pc' \in {"name", "cron"}
        /\ at' \in 1..(Len(SystemTypes) + 1)
        /\ AtInv'
    BY <1>3, <1>4, TypeNextType
  <2> QED
    BY <1>1, <1>2, <1>3, <2>1 DEF TypeInv, TypeOK
<1>5. CASE /\ pc \in Creating /\ UNCHANGED <<at, statsVars>>
           /\ pc' \in Creating \cup {"cron"}
  <2>1. TypeOK'
    BY <1>1, <1>2, <1>3, <1>5 DEF TypeInv, TypeOK, Creating
  <2> QED
    BY <1>5, <2>1, TypeMove DEF statsVars, Creating
<1>6. CASE Poll
  <2>1. CASE Exit /\ UNCHANGED at
    <3>1. TypeOK'
      BY <1>1, <1>2, <1>3, <2>1 DEF TypeInv, TypeOK, Exit
    <3> QED
      BY <2>1, <3>1 DEF TypeInv, AtInv, Creating, Exit
  <2>2. CASE pc' = "name" /\ at' = 1
    <3>1. at' \in 1..(Len(SystemTypes) + 1)
      BY <2>2, Lengths
    <3>2. TypeOK'
      BY <1>1, <1>2, <1>3, <2>2, <3>1 DEF TypeInv, TypeOK
    <3>3. AtInv'
      BY <1>6, <2>2, Lengths DEF Poll, TypeInv, AtInv, Creating, statsVars
    <3> QED
      BY <3>2, <3>3 DEF TypeInv
  <2> QED
    BY <1>6, <2>1, <2>2 DEF Poll
<1> QED
  BY <1>4, <1>5, <1>6 DEF NameExists, GetIDByName, StoreType, AddMapping,
     UndoType, InitPanics, Creating, statsVars

LEMMA TypeServe ==
    ASSUME TypeInv, InitCron \/ Listen \/ Serve \/ Crash
    PROVE  TypeInv'
<1> USE DEF script, elastic
<1>1. faults' \in 0..MaxFaults /\ deploys' \in 0..MaxDeploys
  BY TypeFault DEF InitCron, Listen, Serve, Crash, NoFault
<1>2. /\ UNCHANGED <<release, todo, cur, using, at, aliasOf, docs, maps, crons>>
      /\ pc' \in {"down", "listen", "serving"}
  BY DEF InitCron, Listen, Serve, Crash, Exit
<1>3. StatsTypeOK'
  BY StatsTypeIdle, StatsTypeServe
     DEF InitCron, Listen, Serve, Crash, TypeInv, TypeOK
<1>4. TypeOK'
  BY <1>1, <1>2, <1>3 DEF TypeInv, TypeOK
<1> QED
  BY <1>2, <1>4 DEF TypeInv, AtInv, Creating

\* Clients post and delete repeating events.
LEMMA TypeCrons ==
    ASSUME TypeInv, AliasInv, PostRepeatingEvent \/ DeleteEvent
    PROVE  TypeInv'
<1>1. /\ UNCHANGED <<pc, release, todo, cur, using, at, aliasOf, docs, maps>>
      /\ UNCHANGED <<faults, deploys>> /\ UNCHANGED statsVars
  BY DEF PostRepeatingEvent, DeleteEvent, script, bounds
<1>2. crons' \in [IndexNames -> SUBSET Crons]
  <2> HIDE DEF IndexNames
  <2>1. \A a \in {"crons", "eventtypes", "events"} : aliasOf[a] \subseteq IndexNames
    BY LifecycleAssumption DEF AliasInv
  <2>2. crons \in [IndexNames -> SUBSET Crons]
    BY DEF TypeInv, TypeOK
  <2>3. CASE PostRepeatingEvent
    <3>1. PICK i \in aliasOf["crons"], t \in aliasOf["eventtypes"] \cup {None},
               e \in aliasOf["events"] :
              crons' = [crons EXCEPT ![i] = @ \cup {[type |-> t, event |-> e]}]
      BY <2>3 DEF PostRepeatingEvent
    <3>2. [type |-> t, event |-> e] \in Crons /\ i \in IndexNames
      BY <2>1 DEF Crons
    <3> QED
      BY <2>2, <3>1, <3>2
  <2>4. CASE DeleteEvent
    BY <2>1, <2>2, <2>4 DEF DeleteEvent
  <2> QED
    BY <2>3, <2>4
<1>3. StatsTypeOK'
  BY <1>1, StatsTypeIdle DEF TypeInv, TypeOK
<1>4. TypeOK'
  BY <1>1, <1>2, <1>3 DEF TypeInv, TypeOK
<1> QED
  BY <1>1, <1>4, TypeMove DEF statsVars

LEMMA TypeStep == TypeInv /\ AliasInv /\ [Next]_vars => TypeInv'
<1> SUFFICES ASSUME TypeInv, AliasInv, [Next]_vars PROVE TypeInv'
  OBVIOUS
<1>1. CASE Restart
  <2>1. release \in Releases /\ Boot(release) /\ deploys' \in 0..MaxDeploys
    BY <1>1 DEF Restart, TypeInv, TypeOK
  <2> QED
    BY <2>1, TypeBoot
<1>2. ASSUME NEW r \in Releases, Deploy(r) PROVE TypeInv'
  <2>1. deploys' \in 0..MaxDeploys
    BY <1>2, LifecycleAssumption DEF Deploy, TypeInv, TypeOK
  <2> QED
    BY <1>2, <2>1, TypeBoot DEF Deploy
<1>3. CASE UNCHANGED vars
  <2>1. TypeOK'
    BY <1>3, StatsTypeIdle DEF vars, script, elastic, bounds, TypeInv, TypeOK
  <2> QED
    BY <1>3, <2>1, TypeMove DEF vars, statsVars
<1> QED
  BY <1>1, <1>2, <1>3, TypeScripts, TypeCreate, TypeServe, TypeCrons
     DEF Next, StartStep

\* The state of process, indices and counters keeps its types: Service.Init
\* works on system types only, and counts no more than there are of them.
THEOREM TypeOKHolds == Spec => []TypeOK
<1>1. TypeInv => TypeOK
  BY DEF TypeInv
<1> QED
  BY <1>1, AliasInit, AliasStep, TypeInit, TypeStep, PTL DEF Spec

-----------------------------------------------------------------------------
(* The event types of the system *)

TypesIndex(r)  == IndexName[r]["eventtypes"]
EventsIndex(r) == IndexName[r]["events"]

\* A release that shares both indices or neither with every release started so
\* far finds, of every system type not cut short, the document and the mapping
\* or none of them; PostEventType is between the two at "mapping".
SyncInv ==
    \A r \in Releases : Paired(r) =>
        \A s \in SystemNames \ cut :
            \/ s \in docs[TypesIndex(r)] <=> s \in maps[EventsIndex(r)]
            \/ /\ pc = "mapping" /\ s = SystemType
               /\ TypesIndex(r) = TypesIndex(release)

Complete(s) ==
    Paired(release) =>
        \/ s \in cut \cup skipped
        \/ s \in docs[TypesIndex(release)] /\ s \in maps[EventsIndex(release)]

\* Service.Init has dealt with the system types before the one at work.
DoneInv ==
    /\ pc # "down" => release \in ran
    /\ pc \in Creating => \A j \in 1..Len(SystemTypes) :
          j < at => Complete(SystemTypes[j])
    /\ pc \in {"cron", "listen", "serving"} => \A s \in SystemNames : Complete(s)
    /\ pc = "mapping" => SystemType \in docs[TypesIndex(release)]
    /\ pc = "undo" => SystemType \in cut

SystemInv == SyncInv /\ DoneInv

\* After the scripts the aliases name the indices of the release.
LEMMA AliasKnown ==
    ASSUME AliasInv, pc \in Creating \cup {"cron", "listen", "serving"}
    PROVE  /\ release \in Releases
           /\ aliasOf["eventtypes"] = {TypesIndex(release)}
           /\ aliasOf["events"] = {EventsIndex(release)}
           /\ \A t : HasDoc(t) <=> t \in docs[TypesIndex(release)]
           /\ \A t : HasMap(t) <=> t \in maps[EventsIndex(release)]
<1>1. /\ release \in Releases
      /\ aliasOf["eventtypes"] = {TypesIndex(release)}
      /\ aliasOf["events"] = {EventsIndex(release)}
  BY LifecycleAssumption
     DEF AliasInv, Good, Creating, TypesIndex, EventsIndex
<1> QED
  BY <1>1 DEF HasDoc, HasMap

LEMMA SystemInit == Init => SystemInv
<1> SUFFICES ASSUME Init PROVE SystemInv
  OBVIOUS
<1> HIDE DEF IndexNames
<1>1. \A r \in Releases : /\ TypesIndex(r) \in IndexNames
                          /\ EventsIndex(r) \in IndexNames
  BY LifecycleAssumption DEF TypesIndex, EventsIndex, IndexNames
<1>2. \A r \in Releases : docs[TypesIndex(r)] = {} /\ maps[EventsIndex(r)] = {}
  BY <1>1 DEF Init
<1>3. SyncInv
  BY <1>2 DEF SyncInv
<1>4. DoneInv
  BY DEF Init, DoneInv, Creating
<1> QED
  BY <1>3, <1>4 DEF SystemInv

\* Releases that are started later only make fewer releases paired.
LEMMA PairedGrows ==
    ASSUME NEW r \in Releases, ran \subseteq ran', Paired(r)'
    PROVE  Paired(r)
BY DEF Paired

LEMMA SyncQuiet ==
    ASSUME SyncInv, UNCHANGED <<docs, maps, ran>>, cut \subseteq cut',
           \/ pc # "mapping"
           \/ UNCHANGED <<pc, at, release>>
           \/ SystemType \in cut'
    PROVE  SyncInv'
BY DEF SyncInv, Paired, SystemType

\* Boot and the scripts.
LEMMA SystemStart ==
    ASSUME SystemInv, cut' = cut, docs' = docs, maps' = maps,
           \/ \E r \in Releases \cup {release} : Boot(r)
           \/ /\ pc \in {"scripts", "create", "aliases", "switch", "compare"}
              /\ pc' \in {"down", "scripts", "create", "aliases", "switch",
                           "compare", "poll"}
              /\ UNCHANGED <<ran, release>>
           \/ pc # "mapping" /\ pc' = "down" /\ UNCHANGED ran
    PROVE  SystemInv'
<1>1. pc # "mapping" /\ ran \subseteq ran'
  BY DEF Boot
<1>2. SyncInv'
  BY <1>1, PairedGrows DEF SystemInv, SyncInv
<1>3. DoneInv'
  BY DEF SystemInv, DoneInv, Boot, Creating
<1> QED
  BY <1>2, <1>3 DEF SystemInv

\* PostEventType is done with a system type.
LEMMA DoneNextType ==
    ASSUME TypeInv, DoneInv, pc \in Creating, NextType,
           UNCHANGED <<release, ran>>,
           \A t \in SystemNames : Complete(t) => Complete(t)',
           NEW s \in SystemNames, s = SystemType, Complete(s)'
    PROVE  DoneInv'
<1>1. /\ at \in 1..Len(SystemTypes) /\ Len(SystemTypes) \in Nat
      /\ at' = at + 1 /\ pc' = IF at < Len(SystemTypes) THEN "name" ELSE "cron"
  BY AtWork, Lengths DEF NextType
<1>2. \A j \in 1..Len(SystemTypes) : j <= at => Complete(SystemTypes[j])'
  <2> SUFFICES ASSUME NEW j \in 1..Len(SystemTypes), j <= at
               PROVE  Complete(SystemTypes[j])'
    OBVIOUS
  <2>1. CASE j = at
    BY <2>1 DEF SystemType
  <2>2. CASE j # at
    BY <1>1, <2>2, Lengths DEF DoneInv
  <2> QED
    BY <2>1, <2>2
<1>3. CASE pc' = "name"
  BY <1>1, <1>2, <1>3 DEF DoneInv, Creating
<1>4. CASE pc' = "cron"
  <2>1. \A t \in SystemNames : Complete(t)'
    BY <1>1, <1>2, <1>4, Lengths
  <2> QED
    BY <1>4, <2>1 DEF DoneInv, Creating
<1> QED
  BY <1>1, <1>3, <1>4

\* A call of PostEventType panics; the system types before the i-th are done.
LEMMA DonePanics ==
    ASSUME TypeInv, DoneInv, pc \in Creating, UNCHANGED <<release, ran>>,
           \A t \in SystemNames : Complete(t) => Complete(t)',
           NEW i \in {at, at + 1}, InitPanics(i),
           i = at + 1 => Complete(SystemType)'
    PROVE  DoneInv'
<1>1. /\ at \in 1..Len(SystemTypes) /\ Len(SystemTypes) \in Nat /\ i \in Nat
      /\ pc' = "cron" /\ at' = at
      /\ skipped' = skipped \cup {SystemTypes[j] : j \in i..Len(SystemTypes)}
  BY AtWork, Lengths DEF InitPanics
<1>2. ASSUME NEW t \in SystemNames PROVE Complete(t)'
  <2>1. PICK j \in 1..Len(SystemTypes) : t = SystemTypes[j]
    BY Lengths
  <2>2. CASE j < at
    BY <2>1, <2>2 DEF DoneInv
  <2>3. CASE j = at /\ i = at + 1
    <3>1. t = SystemType /\ SystemType' = SystemType
      BY <1>1, <2>1, <2>3 DEF SystemType
    <3>2. Complete(SystemType)' = Complete(t)'
      BY <3>1 DEF Complete
    <3> QED
      BY <2>3, <3>2
  <2>4. CASE ~(j < i)
    <3>1. t \in skipped'
      BY <1>1, <2>1, <2>4
    <3> QED
      BY <3>1 DEF Complete
  <2> QED
    BY <1>1, <2>2, <2>3, <2>4
<1> QED
  BY <1>1, <1>2 DEF DoneInv, Creating

LEMMA SystemAsk ==
    ASSUME SystemInv, TypeInv, AliasInv, NameExists \/ GetIDByName
    PROVE  SystemInv'
<1> USE DEF SystemInv
<1>1. /\ pc \in Creating /\ pc # "mapping" /\ pc # "undo"
      /\ UNCHANGED <<release, docs, maps, cut, ran>>
      /\ skipped \subseteq skipped'
  BY DEF NameExists, GetIDByName, InitPanics, Creating, elastic
<1>2. PICK s \in SystemNames : s = SystemType
  BY <1>1, AtWork
<1>3. SyncInv'
  BY <1>1, SyncQuiet
<1>4. \A t \in SystemNames : Complete(t) => Complete(t)'
  BY <1>1 DEF Complete, Paired
<1>5. /\ s \in docs[TypesIndex(release)] \/ s \in maps[EventsIndex(release)]
         \/ s \in skipped'
      => Complete(s)'
  BY <1>1, AliasKnown DEF SyncInv, Complete, Paired
<1>6. CASE NextType
  <2>1. Complete(s)'
    BY <1>1, <1>2, <1>5, <1>6, AliasKnown
       DEF NameExists, GetIDByName, NextType, InitPanics
  <2> QED
    BY <1>1, <1>2, <1>3, <1>4, <1>6, <2>1, DoneNextType
<1>7. CASE UNCHANGED at /\ pc' \in {"search", "store"}
  <2>1. DoneInv'
    BY <1>1, <1>4, <1>7, Lengths DEF DoneInv, Creating
  <2> QED
    BY <1>3, <2>1
<1>8. CASE InitPanics(at)
  <2>1. at # at + 1
    BY <1>1, AtWork
  <2>2. DoneInv'
    BY <1>1, <1>4, <1>8, <2>1, DonePanics
  <2> QED
    BY <1>3, <2>2
<1> QED
  BY <1>6, <1>7, <1>8 DEF NameExists, GetIDByName

\* What a write of PostEventType does, index by index.
LEMMA SystemWrites ==
    ASSUME TypeInv, AliasInv, pc \in Creating, NEW r \in Releases
    PROVE  /\ WithDoc[TypesIndex(r)] =
                  IF TypesIndex(r) = TypesIndex(release)
                  THEN docs[TypesIndex(r)] \cup {SystemType}
                  ELSE docs[TypesIndex(r)]
           /\ WithoutDoc[TypesIndex(r)] =
                  IF TypesIndex(r) = TypesIndex(release)
                  THEN docs[TypesIndex(r)] \ {SystemType}
                  ELSE docs[TypesIndex(r)]
           /\ WithMap[EventsIndex(r)] =
                  IF EventsIndex(r) = EventsIndex(release)
                  THEN maps[EventsIndex(r)] \cup {SystemType}
                  ELSE maps[EventsIndex(r)]
<1> HIDE DEF IndexNames
<1>1. /\ TypesIndex(r) \in IndexNames
      /\ EventsIndex(r) \in IndexNames
  BY LifecycleAssumption DEF TypesIndex, EventsIndex, IndexNames
<1> QED
  BY <1>1, AliasKnown DEF WithDoc, WithoutDoc, WithMap

\* A release with the types index of the running one has its events index too.
LEMMA PairedIndices ==
    ASSUME NEW r \in Releases, Paired(r), release \in ran
    PROVE  TypesIndex(release) = TypesIndex(r) <=>
               EventsIndex(release) = EventsIndex(r)
BY DEF Paired, TypesIndex, EventsIndex

\* A failed call, after which the system type counts as cut short.
LEMMA SystemCut ==
    ASSUME SystemInv, TypeInv, AliasInv, pc \in Creating,
           SystemType \in cut', cut \subseteq cut',
           UNCHANGED <<release, ran>>, skipped \subseteq skipped',
           docs' \in {docs, WithDoc, WithoutDoc},
           maps' \in {maps, WithMap},
           NextType \/ (pc' = "undo" /\ UNCHANGED at) \/ InitPanics(at + 1)
    PROVE  SystemInv'
<1>1. PICK s \in SystemNames : s = SystemType
  BY AtWork
<1>2. \A r \in Releases : \A t \in SystemNames \ {s} :
          /\ t \in docs'[TypesIndex(r)] <=> t \in docs[TypesIndex(r)]
          /\ t \in maps'[EventsIndex(r)] <=> t \in maps[EventsIndex(r)]
  BY <1>1, SystemWrites
<1>3. SyncInv'
  BY <1>1, <1>2 DEF SystemInv, SyncInv, Paired
<1>4. Complete(s)' /\ \A t \in SystemNames : Complete(t) => Complete(t)'
  BY <1>1, <1>2, AliasKnown DEF Complete, Paired
<1>5. CASE NextType
  BY <1>1, <1>3, <1>4, <1>5, DoneNextType DEF SystemInv
<1>6. CASE pc' = "undo" /\ UNCHANGED at
  <2>1. SystemType' = SystemType
    BY <1>6 DEF SystemType
  <2>2. \A j \in 1..Len(SystemTypes) : j < at => Complete(SystemTypes[j])'
    BY <1>4, Lengths DEF SystemInv, DoneInv
  <2>3. DoneInv'
    BY <1>6, <2>1, <2>2 DEF SystemInv, DoneInv, Creating
  <2> QED
    BY <1>3, <2>3 DEF SystemInv
<1>7. CASE InitPanics(at + 1)
  <2>1. /\ DoneInv /\ Complete(SystemType)'
        /\ \A t \in SystemNames : Complete(t) => Complete(t)'
    <3>1. SystemType' = SystemType
      BY <1>7 DEF InitPanics, SystemType
    <3> QED
      BY <1>1, <1>4, <3>1 DEF SystemInv
  <2> HIDE DEF Complete
  <2>2. DoneInv'
    BY <1>7, <2>1, DonePanics
  <2> QED
    BY <1>3, <2>2 DEF SystemInv
<1> QED
  BY <1>5, <1>6, <1>7

LEMMA SystemStoreType ==
    ASSUME SystemInv, TypeInv, AliasInv, StoreType
    PROVE  SystemInv'
<1>1. /\ pc = "store" /\ pc \in Creating
      /\ UNCHANGED <<release, ran, skipped, maps>>
  BY DEF StoreType, Creating
<1>2. CASE CutShort /\ NextType /\ docs' \in {docs, WithDoc}
  BY <1>1, <1>2, SystemCut DEF CutShort
<1>3. CASE docs' = WithDoc /\ pc' = "mapping" /\ UNCHANGED <<at, cut>>
  <2>1. PICK s \in SystemNames : s = SystemType /\ s = SystemType'
    BY <1>1, <1>3, AtWork DEF SystemType
  <2>2. release \in ran /\ release \in Releases
    BY <1>1, AliasKnown DEF SystemInv, DoneInv
  <2>3. SyncInv'
    <3> SUFFICES ASSUME NEW r \in Releases, Paired(r), NEW t \in SystemNames \ cut,
                        t # s \/ TypesIndex(r) # TypesIndex(release)
                 PROVE  t \in docs'[TypesIndex(r)] <=> t \in maps[EventsIndex(r)]
      BY <1>1, <1>3, <2>1 DEF SyncInv, Paired
    <3>1. t \in docs'[TypesIndex(r)] <=> t \in docs[TypesIndex(r)]
      BY <1>1, <1>3, <2>1, SystemWrites
    <3> QED
      BY <1>1, <3>1 DEF SystemInv, SyncInv
  <2>4. \A t \in SystemNames : Complete(t) => Complete(t)'
    BY <1>1, <1>3, <2>2, SystemWrites DEF Complete, Paired
  <2>5. SystemType' \in docs'[TypesIndex(release)]
    BY <1>1, <1>3, <2>1, <2>2, SystemWrites
  <2>6. DoneInv'
    BY <1>1, <1>3, <2>2, <2>4, <2>5, Lengths DEF SystemInv, DoneInv, Creating
  <2> QED
    BY <2>3, <2>6 DEF SystemInv
<1> QED
  BY <1>2, <1>3 DEF StoreType

LEMMA SystemAddMapping ==
    ASSUME SystemInv, TypeInv, AliasInv, AddMapping
    PROVE  SystemInv'
<1>1. /\ pc = "mapping" /\ pc \in Creating
      /\ UNCHANGED <<release, ran, skipped, docs>>
  BY DEF AddMapping, Creating
<1>2. CASE CutShort /\ maps' \in {maps, WithMap} /\ pc' = "undo" /\ UNCHANGED at
  BY <1>1, <1>2, SystemCut DEF CutShort
<1>3. CASE maps' = WithMap /\ NextType /\ UNCHANGED cut
  <2>1. PICK s \in SystemNames : s = SystemType
    BY <1>1, AtWork
  <2>2. /\ release \in ran /\ release \in Releases
        /\ s \in docs[TypesIndex(release)]
    BY <1>1, <2>1, AliasKnown DEF SystemInv, DoneInv
  <2>3. SyncInv'
    <3> SUFFICES ASSUME NEW r \in Releases, Paired(r), NEW t \in SystemNames \ cut
                 PROVE  t \in docs[TypesIndex(r)] <=> t \in maps'[EventsIndex(r)]
      BY <1>1, <1>3 DEF SyncInv, Paired
    <3>1. CASE t = s /\ TypesIndex(r) = TypesIndex(release)
      BY <1>1, <1>3, <2>1, <2>2, <3>1, PairedIndices, SystemWrites
    <3>2. CASE t # s \/ TypesIndex(r) # TypesIndex(release)
      <4>1. t \in maps'[EventsIndex(r)] <=> t \in maps[EventsIndex(r)]
        BY <1>1, <1>3, <2>1, <2>2, <3>2, PairedIndices, SystemWrites
      <4> QED
        BY <2>1, <3>2, <4>1 DEF SystemInv, SyncInv
    <3> QED
      BY <3>1, <3>2
  <2>4. Complete(s)' /\ \A t \in SystemNames : Complete(t) => Complete(t)'
    BY <1>1, <1>3, <2>1, <2>2, SystemWrites DEF Complete, Paired
  <2>5. DoneInv'
    BY <1>1, <1>3, <2>1, <2>4, DoneNextType DEF SystemInv
  <2> QED
    BY <2>3, <2>5 DEF SystemInv
<1> QED
  BY <1>2, <1>3 DEF AddMapping

LEMMA SystemUndoType ==
    ASSUME SystemInv, TypeInv, AliasInv, UndoType
    PROVE  SystemInv'
<1>1. /\ pc = "undo" /\ pc \in Creating
      /\ UNCHANGED <<release, ran, cut, maps>> /\ skipped \subseteq skipped'
      /\ docs' \in {docs, WithoutDoc} /\ (NextType \/ InitPanics(at + 1))
  BY DEF UndoType, InitPanics, Creating
<1>2. SystemType \in cut'
  BY <1>1 DEF SystemInv, DoneInv
<1> QED
  BY <1>1, <1>2, SystemCut

\* The start of Service.Init, the steps after it, and the end of the process.
LEMMA SystemLater ==
    ASSUME SystemInv,
           \/ Poll \/ InitCron \/ Listen \/ Serve \/ PostRepeatingEvent
           \/ DeleteEvent \/ Crash
    PROVE  SystemInv'
<1> USE DEF elastic, history
<1>1. /\ UNCHANGED <<release, docs, maps, ran, skipped>>
      /\ cut \subseteq cut'
      /\ pc = "mapping" => SystemType \in cut'
  BY DEF Poll, InitCron, Listen, Serve, PostRepeatingEvent, DeleteEvent, Crash
<1>2. SyncInv'
  BY <1>1, SyncQuiet DEF SystemInv
<1>3. \A t \in SystemNames : Complete(t) => Complete(t)'
  BY <1>1 DEF Complete, Paired
<1>4. ASSUME Poll PROVE DoneInv'
  <2>1. pc' \in {"down", "name"} /\ (pc' = "name" => at' = 1) /\ pc # "down"
    BY <1>4 DEF Poll, Exit
  <2> QED
    BY <1>1, <2>1, Lengths DEF SystemInv, DoneInv, Creating
<1>5. ASSUME \/ InitCron \/ Listen \/ Serve \/ PostRepeatingEvent
             \/ DeleteEvent \/ Crash
      PROVE  DoneInv'
  BY <1>1, <1>3, <1>5 DEF InitCron, Listen, Serve, PostRepeatingEvent,
     DeleteEvent, Crash, Exit, SystemInv, DoneInv, Creating
<1> QED
  BY <1>2, <1>4, <1>5 DEF SystemInv

LEMMA SystemStep ==
    SystemInv /\ TypeInv /\ AliasInv /\ [Next]_vars => SystemInv'
<1> SUFFICES ASSUME SystemInv, TypeInv, AliasInv, [Next]_vars PROVE SystemInv'
  OBVIOUS
<1> USE DEF elastic, history
<1>1. CASE Restart \/ \E r \in Releases : Deploy(r)
  BY <1>1, SystemStart DEF Restart, Deploy, Boot
<1>2. CASE \E a \in Aliases : CheckIndex(a)
  BY <1>2, SystemStart DEF CheckIndex, Exit
<1>3. CASE CreateIndex \/ ReadAliases \/ SwitchAlias \/ CompareSchema
  BY <1>3, SystemStart DEF CreateIndex, ReadAliases, SwitchAlias, CompareSchema,
     Exit
<1>4. CASE UNCHANGED vars
  <2>1. SyncInv'
    BY <1>4, SyncQuiet DEF vars, SystemInv
  <2>2. DoneInv'
    BY <1>4 DEF vars, SystemInv, DoneInv, Complete, Paired, SystemType
  <2> QED
    BY <2>1, <2>2 DEF SystemInv
<1> QED
  BY <1>1, <1>2, <1>3, <1>4, SystemAsk, SystemStoreType, SystemAddMapping,
     SystemUndoType, SystemLater DEF Next, StartStep

\* Service.Init (Service.go:122-191), started again as often as it takes: the
\* document and the mapping of a system type come together, but for the ways
\* SystemTypesComplete names.
THEOREM SystemTypesCompleteHolds == Spec => []SystemTypesComplete
<1>1. SystemInv /\ AliasInv => SystemTypesComplete
  BY AliasKnown DEF SystemInv, DoneInv, Complete, SystemTypesComplete, Creating
<1> QED
  BY <1>1, AliasInit, AliasStep, TypeInit, TypeStep, SystemInit, SystemStep, PTL
     DEF Spec
=============================================================================
