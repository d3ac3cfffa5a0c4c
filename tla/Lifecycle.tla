----------------------------- MODULE Lifecycle -----------------------------
(***************************************************************************)
(* The life of the process: main and NewKit (the scripts that create the   *)
(* indices and switch the aliases, the comparison of the schemas,          *)
(* Service.Init with the event types of the system, InitCron, the server), *)
(* then the requests that are counted in Stats, and its end by a failed    *)
(* start or a crash.  The platform runs one instance and starts it again;  *)
(* a deployment starts another release.                                    *)
(*                                                                         *)
(* Elasticsearch keeps the indices, the aliases and the event types; the   *)
(* counters go with the process.                                           *)
(***************************************************************************)
EXTENDS Stats, Sequences, FiniteSets

CONSTANTS
    Aliases,      \* keyEventTypes, keyEvents, ...: the aliases of the indices
    Releases,     \* releases of the service
    IndexName,    \* release -> alias -> INDEX_NAME of the script in db/
    Schema,       \* release -> alias -> the mapping in that script
    SystemTypes,  \* the names Service.Init posts event types for, in order
    MaxFaults,    \* bound on failed calls and crashes
    MaxDeploys,   \* bound on deployments
    MaxCrons      \* bound on the repeating events of an index told apart

IndexNames == {IndexName[r][a] : r \in Releases, a \in Aliases}
SystemNames == {SystemTypes[i] : i \in DOMAIN SystemTypes}

ASSUME LifecycleAssumption ==
    /\ {"eventtypes", "events", "crons"} \subseteq Aliases
    /\ \A r \in Releases, a \in Aliases : Schema[r][a] # None
    /\ MaxFaults \in Nat
    /\ MaxDeploys \in Nat
    /\ MaxCrons \in Nat
    /\ SystemTypes \in Seq(SystemNames)
    /\ Len(SystemTypes) \in 1..MaxIncrements

VARIABLES
    pc,        \* where the process is: "down", a step of the start, "serving"
    release,   \* the release that runs, or ran last
    todo,      \* makeIndices: the aliases whose script is still to run
    cur,       \* ... and the alias whose script runs
    using,     \* handleAliases: the indices found to use the alias
    at,        \* Service.Init: the system type at work, an index of SystemTypes
    schemaOf,  \* Elasticsearch: per index its schema, None if there is none
    aliasOf,   \* Elasticsearch: per alias the indices it names
    docs,      \* eventtypes indices: the system types with a document
    maps,      \* events indices: the system types with a mapping
    crons,     \* crons indices: the repeating events stored, see Crons
    faults, deploys,
    \* History variables, never read by a guard.
    cut,       \* system types whose creation was cut short half-way
    skipped,   \* ... or given up, in this life, with nothing created
    ran        \* the releases that were started

elastic == <<schemaOf, aliasOf, docs, maps, crons>>
script  == <<todo, cur, using>>
bounds  == <<faults, deploys>>
history == <<cut, skipped, ran>>
vars == <<pc, release, script, at, elastic, bounds, history, statsVars>>

Ours(a) == IndexName[release][a]

\* Of a repeating event matters in which eventtypes index its event type is
\* stored, None if it is stored no more, and in which events index the event.
Crons == [type : IndexNames \cup {None}, event : IndexNames]

\* A failed call, or a kill: counted, so that faults come to an end.
Fault == faults < MaxFaults /\ faults' = faults + 1 /\ UNCHANGED deploys
NoFault == UNCHANGED bounds

-----------------------------------------------------------------------------
(* Start of the process *)

Boot(r) ==
    /\ pc = "down"
    /\ pc' = "scripts"
    /\ release' = r
    /\ todo' = Aliases
    /\ skipped' = {}
    /\ ran' = ran \cup {r}
    /\ ResetStats
    /\ UNCHANGED <<cur, using, at, elastic, faults, cut>>

Restart == Boot(release) /\ UNCHANGED deploys

Deploy(r) ==
    /\ deploys < MaxDeploys
    /\ deploys' = deploys + 1
    /\ Boot(r)

-----------------------------------------------------------------------------
(* makeIndices: the script of each alias, in the order of a Go map *)

Exit == pc' = "down" /\ UNCHANGED <<todo, cur>>

\* Mutant of CheckIndex: an index that exists is an error.
CheckIndexNew(a) ==
    /\ pc = "scripts"
    /\ a \in todo
    /\ \/ /\ schemaOf[Ours(a)] = None
          /\ pc' = "create"
          /\ cur' = a
          /\ UNCHANGED todo
       \/ schemaOf[Ours(a)] # None /\ Exit
    /\ NoFault
    /\ UNCHANGED <<release, using, at, elastic, history, statsVars>>

\* CreateIndex.sh asks whether the index exists.
CheckIndex(a) ==
    /\ pc = "scripts"
    /\ a \in todo
    /\ \/ /\ pc' = IF schemaOf[Ours(a)] # None THEN "aliases" ELSE "create"
          /\ cur' = a
          /\ NoFault
          /\ UNCHANGED todo
       \/ Exit /\ Fault
    /\ UNCHANGED <<release, using, at, elastic, history, statsVars>>

\* A creation that fails may have been carried out.
CreateIndex ==
    /\ pc = "create"
    /\ \/ /\ schemaOf' = [schemaOf EXCEPT ![Ours(cur)] = Schema[release][cur]]
          /\ pc' = "aliases"
          /\ NoFault
          /\ UNCHANGED <<todo, cur>>
       \/ /\ schemaOf' \in
                {schemaOf,
                 [schemaOf EXCEPT ![Ours(cur)] = Schema[release][cur]]}
          /\ Exit /\ Fault
    /\ UNCHANGED <<release, using, at, aliasOf, docs, maps, crons, history,
                   statsVars>>

\* Mutant of ReadAliases: an alias that is set is left as it is.
ReadAliasesLoosely ==
    /\ pc = "aliases"
    /\ using' = aliasOf[cur]
    /\ pc' = IF aliasOf[cur] # {} THEN "compare" ELSE "switch"
    /\ NoFault
    /\ UNCHANGED <<todo, cur, release, at, elastic, history, statsVars>>

\* handleAliases asks which indices use the alias; nothing is to be done if
\* it is this index alone.
ReadAliases ==
    /\ pc = "aliases"
    /\ \/ /\ using' = aliasOf[cur]
          /\ pc' = IF aliasOf[cur] = {Ours(cur)} THEN "compare" ELSE "switch"
          /\ NoFault
          /\ UNCHANGED <<todo, cur>>
       \/ Exit /\ Fault /\ UNCHANGED using
    /\ UNCHANGED <<release, at, elastic, history, statsVars>>

\* Mutant of SwitchAlias: the arguments of the script are swapped.
SwitchAliasSwapped ==
    /\ pc = "switch"
    /\ aliasOf' = [aliasOf EXCEPT ![cur] = (@ \ using) \cup {cur}]
    /\ pc' = "compare"
    /\ NoFault
    /\ UNCHANGED <<todo, cur, release, using, at, schemaOf, docs, maps, crons,
                   history, statsVars>>

\* Removals and the addition are one atomic request.
SwitchAlias ==
    /\ pc = "switch"
    /\ LET switched == [aliasOf EXCEPT ![cur] = (@ \ using) \cup {Ours(cur)}]
       IN  \/ /\ aliasOf' = switched
              /\ pc' = "compare"
              /\ NoFault
              /\ UNCHANGED <<todo, cur>>
           \/ aliasOf' \in {aliasOf, switched} /\ Exit /\ Fault
    /\ UNCHANGED <<release, using, at, schemaOf, docs, maps, crons, history,
                   statsVars>>

\* makeIndices compares the schema behind the alias with that of the script,
\* and ends the process if they differ.
CompareSchema ==
    /\ pc = "compare"
    /\ \/ /\ \A i \in aliasOf[cur] : schemaOf[i] = Schema[release][cur]
          /\ todo' = todo \ {cur}
          /\ pc' = IF todo' = {} THEN "poll" ELSE "scripts"
          /\ NoFault
          /\ UNCHANGED cur
       \/ /\ \E i \in aliasOf[cur] : schemaOf[i] # Schema[release][cur]
          /\ Exit /\ NoFault
       \/ Exit /\ Fault
    /\ UNCHANGED <<release, using, at, elastic, history, statsVars>>

-----------------------------------------------------------------------------
(* Service.Init *)

\* PollFunction waits, up to five seconds, for the eventtypes index.
Poll ==
    /\ pc = "poll"
    /\ \/ pc' = "name" /\ at' = 1 /\ NoFault /\ UNCHANGED <<todo, cur>>
       \/ Exit /\ Fault /\ UNCHANGED at
    /\ UNCHANGED <<release, using, elastic, history, statsVars>>

SystemType == SystemTypes[at]

\* An answer other than 201 is only logged.
NextType ==
    /\ at' = at + 1
    /\ pc' = IF at < Len(SystemTypes) THEN "name" ELSE "cron"

HasMap(s) == \E i \in aliasOf["events"] : s \in maps[i]
HasDoc(s) == \E i \in aliasOf["eventtypes"] : s \in docs[i]

\* Mutant of NameExists: a system type that is there ends Service.Init.
NameExistsEnds ==
    /\ pc = "name"
    /\ \/ HasMap(SystemType) /\ pc' = "cron" /\ UNCHANGED at
       \/ ~ HasMap(SystemType) /\ pc' = "search" /\ UNCHANGED at
    /\ NoFault
    /\ UNCHANGED <<release, script, elastic, history, statsVars>>

\* PostEventType: the name must not be a type of the events index,
NameExists ==
    /\ pc = "name"
    /\ \/ HasMap(SystemType) /\ NextType /\ NoFault /\ UNCHANGED skipped
       \/ /\ ~ HasMap(SystemType)
          /\ pc' = "search"
          /\ NoFault
          /\ UNCHANGED <<at, skipped>>
       \/ NextType /\ Fault /\ skipped' = skipped \cup {SystemType}
    /\ UNCHANGED <<release, script, elastic, cut, ran, statsVars>>

\* A call panics: PostEventType recovers and returns nil, Service.Init panics on
\* it, recovers, and returns no error.  The start goes on without the system
\* types from the i-th on.
InitPanics(i) ==
    /\ pc' = "cron"
    /\ Fault
    /\ skipped' = skipped \cup {SystemTypes[j] : j \in i..Len(SystemTypes)}
    /\ UNCHANGED at

\* ... nor the name of an event type.  GetIDByName panics if its search fails.
GetIDByName ==
    /\ pc = "search"
    /\ \/ HasDoc(SystemType) /\ NextType /\ NoFault /\ UNCHANGED skipped
       \/ /\ ~ HasDoc(SystemType)
          /\ pc' = "store"
          /\ NoFault
          /\ UNCHANGED <<at, skipped>>
       \/ InitPanics(at)
    /\ UNCHANGED <<release, script, elastic, cut, ran, statsVars>>

WithDoc == [i \in IndexNames |-> IF i \in aliasOf["eventtypes"]
                                 THEN docs[i] \cup {SystemType} ELSE docs[i]]
WithMap == [i \in IndexNames |-> IF i \in aliasOf["events"]
                                 THEN maps[i] \cup {SystemType} ELSE maps[i]]
WithoutDoc == [i \in IndexNames |-> IF i \in aliasOf["eventtypes"]
                                    THEN docs[i] \ {SystemType} ELSE docs[i]]
CutShort == cut' = cut \cup {SystemType}

StoreType ==
    /\ pc = "store"
    /\ \/ /\ docs' = WithDoc
          /\ pc' = "mapping"
          /\ NoFault
          /\ UNCHANGED <<at, cut>>
       \/ docs' \in {docs, WithDoc} /\ NextType /\ Fault /\ CutShort
    /\ UNCHANGED <<release, script, schemaOf, aliasOf, maps, crons, skipped, ran,
                   statsVars>>

\* The event type is complete, and counted.
AddMapping ==
    /\ pc = "mapping"
    /\ \/ /\ maps' = WithMap
          /\ NextType
          /\ NoFault
          /\ IncrAlone("NumEventTypes")
          /\ UNCHANGED cut
       \/ /\ maps' \in {maps, WithMap}
          /\ pc' = "undo"
          /\ Fault
          /\ CutShort
          /\ UNCHANGED <<at, statsVars>>
    /\ UNCHANGED <<release, script, schemaOf, aliasOf, docs, crons, skipped, ran>>

\* The document is deleted again.  EventTypeDB.DeleteByID panics if that fails.
UndoType ==
    /\ pc = "undo"
    /\ \/ docs' = WithoutDoc /\ NextType /\ NoFault /\ UNCHANGED skipped
       \/ docs' \in {docs, WithoutDoc} /\ InitPanics(at + 1)
    /\ UNCHANGED <<release, script, schemaOf, aliasOf, maps, crons, cut, ran,
                   statsVars>>

-----------------------------------------------------------------------------
(* The rest of NewKit, service, and the end of the process *)

\* The repeating events that are stored, and whether the event type of one can
\* be read.
StoredCrons == UNION {crons[i] : i \in aliasOf["crons"]}
TypeFound(c) == c.type \in aliasOf["eventtypes"]

\* InitCron (see RepeatingEvents) reads the event type of every repeating event
\* on a page, and whichever of those stored are on it.  If one is not found the
\* process ends, as it does in every start to come.  If a read fails, InitCron
\* panics, recovers and returns no error.  Other failed calls end the process.
InitCron ==
    /\ pc = "cron"
    /\ \/ /\ StoredCrons = {} \/ \E c \in StoredCrons : TypeFound(c)
          /\ pc' = "listen"
          /\ NoFault
          /\ UNCHANGED <<todo, cur>>
       \/ /\ \E c \in StoredCrons : ~ TypeFound(c)
          /\ Exit /\ NoFault
       \/ /\ StoredCrons # {}
          /\ pc' = "listen"
          /\ Fault
          /\ UNCHANGED <<todo, cur>>
       \/ Exit /\ Fault
    /\ UNCHANGED <<release, using, at, elastic, history, statsVars>>

\* Server.Init, GenericServer.Configure and Start.
Listen ==
    /\ pc = "listen"
    /\ \/ pc' = "serving" /\ NoFault /\ UNCHANGED <<todo, cur>>
       \/ Exit /\ Fault
    /\ UNCHANGED <<release, using, at, elastic, history, statsVars>>

Serve ==
    /\ pc = "serving"
    /\ StatsNext
    /\ UNCHANGED <<pc, release, script, at, elastic, bounds, history>>

\* PostRepeatingEvent, and perhaps a DeleteEventType that deletes its event type
\* in a race with it (EventTypes).
PostRepeatingEvent ==
    /\ pc = "serving"
    /\ \E i \in aliasOf["crons"], t \in aliasOf["eventtypes"] \cup {None},
          e \in aliasOf["events"] :
          /\ Cardinality(crons[i]) < MaxCrons
          /\ crons' = [crons EXCEPT ![i] = @ \cup {[type |-> t, event |-> e]}]
    /\ UNCHANGED <<pc, release, script, at, schemaOf, aliasOf, docs, maps, bounds,
                   history, statsVars>>

\* DeleteEvent finds a repeating event by its document in the events index.
DeleteEvent ==
    /\ pc = "serving"
    /\ \E i \in aliasOf["crons"] : \E c \in crons[i] :
          /\ c.event \in aliasOf["events"]
          /\ crons' = [crons EXCEPT ![i] = @ \ {c}]
    /\ UNCHANGED <<pc, release, script, at, schemaOf, aliasOf, docs, maps, bounds,
                   history, statsVars>>

Crash ==
    /\ pc # "down"
    /\ Fault
    /\ pc' = "down"
    /\ cut' = IF pc \in {"mapping", "undo"}
              THEN cut \cup {SystemType} ELSE cut
    /\ UNCHANGED <<release, script, at, elastic, skipped, ran, statsVars>>

Init ==
    /\ pc = "down"
    /\ release \in Releases
    /\ todo = {}
    /\ cur = None
    /\ using = {}
    /\ at = 1
    /\ schemaOf = [i \in IndexNames |-> None]
    /\ aliasOf = [a \in Aliases |-> {}]
    /\ docs = [i \in IndexNames |-> {}]
    /\ maps = [i \in IndexNames |-> {}]
    /\ crons = [i \in IndexNames |-> {}]
    /\ faults = 0
    /\ deploys = 0
    /\ cut = {}
    /\ skipped = {}
    /\ ran = {}
    /\ StatsInit

StartStep ==
    \/ Restart
    \/ \E a \in Aliases : CheckIndex(a)
    \/ CreateIndex \/ ReadAliases \/ SwitchAlias \/ CompareSchema
    \/ Poll \/ NameExists \/ GetIDByName \/ StoreType \/ AddMapping \/ UndoType
    \/ InitCron \/ Listen

Next ==
    \/ StartStep
    \/ \E r \in Releases : Deploy(r)
    \/ Serve \/ PostRepeatingEvent \/ DeleteEvent
    \/ Crash

Spec == Init /\ [][Next]_vars

\* A start goes on, and the platform starts an instance that has ended.
FairSpec == Spec /\ WF_vars(StartStep)

-----------------------------------------------------------------------------
(* Properties *)

\* Type invariant.
TypeOK ==
    /\ StatsTypeOK
    /\ pc \in {"down", "scripts", "create", "aliases", "switch", "compare",
               "poll", "name", "search", "store", "mapping", "undo", "cron",
               "listen", "serving"}
    /\ release \in Releases
    /\ todo \subseteq Aliases
    /\ cur \in Aliases \cup {None}
    /\ using \subseteq IndexNames
    /\ at \in 1..(Len(SystemTypes) + 1)
    /\ aliasOf \in [Aliases -> SUBSET IndexNames]
    /\ docs \in [IndexNames -> SUBSET SystemNames]
    /\ maps \in [IndexNames -> SUBSET SystemNames]
    /\ crons \in [IndexNames -> SUBSET Crons]
    /\ faults \in 0..MaxFaults
    /\ deploys \in 0..MaxDeploys

\* However often a start was cut short, and whatever releases ran before: a
\* release serves requests only when each of its aliases names its own index
\* and no other, and that index has the schema the release was written for.
ServesOwnIndices ==
    pc = "serving" =>
        \A a \in Aliases : /\ aliasOf[a] = {Ours(a)}
                           /\ schemaOf[Ours(a)] = Schema[release][a]

\* A service that runs has the event types of the system, with document and
\* mapping.  The exceptions: a start was cut short between the two, which no
\* later start repairs; a call failed before the first, which the next start
\* repairs; or a release started before, not just the last one, had one of the
\* two indices of this release and not the other.
Paired(r) ==
    \A q \in ran : (IndexName[q]["eventtypes"] = IndexName[r]["eventtypes"])
                 = (IndexName[q]["events"] = IndexName[r]["events"])

SystemTypesComplete ==
    pc = "serving" =>
        \A s \in SystemNames :
            \/ HasDoc(s) /\ HasMap(s)
            \/ s \in cut \cup skipped
            \/ ~ Paired(release)

\* Releases that find one of their indices with another schema.
Mismatched ==
    \E a \in Aliases : schemaOf[Ours(a)] \notin {None, Schema[release][a]}

\* Releases that find a repeating event without its event type.
Orphaned == \E c \in crons[Ours("crons")] : c.type # Ours("eventtypes")

\* When failures, crashes and deployments end, a start succeeds: no state that
\* an interrupted start leaves behind keeps the next one from serving, and
\* nothing else does but an index of another schema and a repeating event
\* whose event type is gone.
Converges == <>[](pc = "serving" \/ Mismatched \/ Orphaned)

-----------------------------------------------------------------------------
\* What makes ServesOwnIndices inductive: while the scripts run, the aliases
\* that are done stay as they must be, and the one at work is what the last
\* request found or made of it.
Good(a) == aliasOf[a] = {Ours(a)} /\ schemaOf[Ours(a)] = Schema[release][a]

AliasInv ==
    /\ release \in Releases
    /\ todo \subseteq Aliases
    /\ aliasOf \in [Aliases -> SUBSET IndexNames]
    /\ DOMAIN schemaOf = IndexNames
    /\ pc \in {"create", "aliases", "switch", "compare"} => cur \in todo
    /\ pc = "create" => schemaOf[Ours(cur)] = None
    /\ pc = "switch" => using = aliasOf[cur]
    /\ pc = "compare" => aliasOf[cur] = {Ours(cur)}
    /\ pc # "down" => \A a \in Aliases \ todo : Good(a)
    /\ pc \notin {"down", "scripts", "create", "aliases", "switch", "compare"}
          => todo = {}
=============================================================================
