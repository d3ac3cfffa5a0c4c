----------------------------- MODULE EventTypes -----------------------------
(***************************************************************************)
(* Event types: PostEventType, DeleteEventType, and the triggers and       *)
(* events that refer to an event type.                                     *)
(*                                                                         *)
(* An event type is a document of the eventtypes index, and its name a     *)
(* type (mapping) of the events index, where its events are stored.  That  *)
(* a name is free, or a type not in use, is checked by searches; an        *)
(* Elasticsearch search sees the documents as of the last refresh, while   *)
(* reads by id and the mappings are up to date.                            *)
(***************************************************************************)
EXTENDS FiniteSets

CONSTANTS
    TypeIds,      \* ids of the event types posted (a fresh id per request)
    NameOf,       \* the name each of them asks for
    Triggers,     \* ids of the triggers posted
    Events,       \* ids of the events posted
    SystemNames,  \* piazza:ingest and piazza:executionComplete
    Deleters,     \* handler goroutines serving DELETE /eventType/:id
    Failures,     \* may calls to Elasticsearch fail?
    Crashes,      \* may the process be killed?
    None          \* "no event type"

Refs  == Triggers \cup Events
Names == {NameOf[x] : x \in TypeIds}

ASSUME EventTypesAssumption ==
    /\ Triggers \cap Events = {}
    /\ Failures \in BOOLEAN
    /\ Crashes \in BOOLEAN
    /\ None \notin TypeIds

VARIABLES
    typeDocs,   \* eventtypes index: the documents
    typesSeen,  \* eventtypes index: what a search sees
    mappings,   \* events index: its types, by name
    refDoc,     \* triggers and events index: the eventTypeId of each document
    refSeen,    \* ... and what a search sees of them
    typePc,     \* per event type: where its PostEventType is
    ref,        \* per trigger or event: where its POST is, and the type it read
    del,        \* per deleter: the DeleteEventType in progress
    \* History variables, never read by a guard.
    before,     \* per event type: those created (201) before it was posted
    shield,     \* per deleter: references a search saw when it began, and
                \* that are stored still
    harmed      \* event types whose creation was cut short by a failed call or
                \* a crash

typeStore == <<typeDocs, mappings>>
refStore  == <<refDoc, refSeen>>
history   == <<before, shield, harmed>>
vars == <<typeStore, typesSeen, refStore, typePc, ref, del, history>>

NoRequest == [pc |-> "idle", type |-> None]
TypeOrNone == TypeIds \cup {None}

TypeOK ==
    /\ typeDocs \subseteq TypeIds
    /\ typesSeen \subseteq TypeIds
    /\ mappings \subseteq Names
    /\ refDoc \in [Refs -> TypeOrNone]
    /\ refSeen \in [Refs -> TypeOrNone]
    /\ typePc \in [TypeIds -> {"idle", "search", "post", "mapping", "undo",
                               "created", "rejected", "lost"}]
    /\ ref \in [Refs -> [pc : {"idle", "verify", "write", "ended"},
                         type : TypeOrNone]]
    /\ del \in [Deleters -> [pc : {"idle", "triggers", "events", "delete"},
                             type : TypeOrNone]]
    /\ before \in [TypeIds -> SUBSET TypeIds]
    /\ shield \in [Deleters -> SUBSET Refs]
    /\ harmed \subseteq TypeIds

Init ==
    /\ typeDocs = {} /\ typesSeen = {} /\ mappings = {}
    /\ refDoc = [r \in Refs |-> None]
    /\ refSeen = [r \in Refs |-> None]
    /\ typePc = [x \in TypeIds |-> "idle"]
    /\ ref = [r \in Refs |-> NoRequest]
    /\ del = [d \in Deleters |-> NoRequest]
    /\ before = [x \in TypeIds |-> {}]
    /\ shield = [d \in Deleters |-> {}]
    /\ harmed = {}

-----------------------------------------------------------------------------
(* PostEventType *)

Post(x, next) == typePc' = [typePc EXCEPT ![x] = next]

\* Mutant of PostEventType: only the search for the name is left.
PostEventTypeSearchOnly(x) ==
    /\ typePc[x] = "idle"
    /\ Post(x, "search")
    /\ before' = [before EXCEPT ![x] = {y \in TypeIds : typePc[y] = "created"}]
    /\ UNCHANGED <<typeStore, typesSeen, refStore, ref, del, shield, harmed>>

\* EventDB.NameExists: is the name a type of the events index?
PostEventType(x) ==
    /\ typePc[x] = "idle"
    /\ \/ NameOf[x] \notin mappings /\ Post(x, "search")
       \/ NameOf[x] \in mappings /\ Post(x, "rejected")
       \/ Failures /\ Post(x, "rejected")
    /\ before' = [before EXCEPT ![x] = {y \in TypeIds : typePc[y] = "created"}]
    /\ UNCHANGED <<typeStore, typesSeen, refStore, ref, del, shield, harmed>>

\* EventTypeDB.GetIDByName, a search; any hit (or several) ends the request,
\* and so does a variable name with a "~".
GetIDByName(x) ==
    /\ typePc[x] = "search"
    /\ \/ /\ \A y \in typesSeen : NameOf[y] # NameOf[x]
          /\ Post(x, "post")
       \/ Post(x, "rejected")
    /\ UNCHANGED <<typeStore, typesSeen, refStore, ref, del, history>>

\* EventTypeDB.PostData refuses unknown mapping types and stores the document.
\* A failing call may have stored it all the same; it is not undone.
StoreType(x) ==
    /\ typePc[x] = "post"
    /\ \/ typeDocs' = typeDocs \cup {x} /\ Post(x, "mapping") /\ UNCHANGED harmed
       \/ Post(x, "rejected") /\ UNCHANGED <<typeDocs, harmed>>
       \/ /\ Failures
          /\ typeDocs' = typeDocs \cup {x}
          /\ Post(x, "rejected")
          /\ harmed' = harmed \cup {x}
    /\ UNCHANGED <<mappings, typesSeen, refStore, ref, del, before, shield>>

\* Mutant of AddMapping: its error is ignored.
AddMappingUnchecked(x) ==
    /\ typePc[x] = "mapping"
    /\ \/ mappings' = mappings \cup {NameOf[x]}
       \/ Failures /\ UNCHANGED mappings
    /\ Post(x, "created")
    /\ UNCHANGED <<typeDocs, typesSeen, refStore, ref, del, history>>

\* Mutant of AddMapping: the mapping is named after the id.
AddMappingById(x) ==
    /\ typePc[x] = "mapping"
    /\ mappings' = mappings \cup {x}
    /\ Post(x, "created")
    /\ UNCHANGED <<typeDocs, typesSeen, refStore, ref, del, history>>

\* EventDB.AddMapping: the name becomes a type of the events index.  If it is
\* one by now, Elasticsearch merges the mappings or refuses a conflicting one.
AddMapping(x) ==
    /\ typePc[x] = "mapping"
    /\ \/ mappings' = mappings \cup {NameOf[x]} /\ Post(x, "created")
       \/ /\ NameOf[x] \in mappings \/ Failures
          /\ mappings' \in {mappings, mappings \cup {NameOf[x]}}
          /\ Post(x, "undo")
    /\ UNCHANGED <<typeDocs, typesSeen, refStore, ref, del, history>>

\* Mutant of UndoType: the document is left behind.
UndoTypeForgotten(x) ==
    /\ typePc[x] = "undo"
    /\ Post(x, "rejected")
    /\ UNCHANGED <<typeStore, typesSeen, refStore, ref, del, history>>

\* After a failed AddMapping the document is deleted.  If that fails too,
\* EventTypeDB.DeleteByID panics, and the handler recovers.
UndoType(x) ==
    /\ typePc[x] = "undo"
    /\ \/ typeDocs' = typeDocs \ {x} /\ UNCHANGED harmed
       \/ /\ Failures
          /\ UNCHANGED typeDocs
          /\ harmed' = harmed \cup {x}
    /\ Post(x, "rejected")
    /\ UNCHANGED <<mappings, typesSeen, refStore, ref, del, before, shield>>

-----------------------------------------------------------------------------
(* Triggers and events that refer to an event type *)

\* PostTrigger and PostEvent read the event type by id.
PostRef(r, x) ==
    /\ ref[r] = NoRequest
    /\ x \in typeDocs
    /\ ref' = [ref EXCEPT ![r] =
                  [pc |-> IF r \in Events THEN "verify" ELSE "write",
                   type |-> x]]
    /\ UNCHANGED <<typeStore, typesSeen, refStore, typePc, del, history>>

\* EventDB.verifyEventReadyToPost reads it again and checks the event's data.
VerifyRef(r) ==
    /\ ref[r].pc = "verify"
    /\ \/ ref[r].type \in typeDocs /\ ref' = [ref EXCEPT ![r].pc = "write"]
       \/ ref' = [ref EXCEPT ![r].pc = "ended"]
    /\ UNCHANGED <<typeStore, typesSeen, refStore, typePc, del, history>>

\* The document is stored; an event only if its type's name has a mapping.
StoreRef(r) ==
    /\ ref[r].pc = "write"
    /\ \/ /\ r \in Events => NameOf[ref[r].type] \in mappings
          /\ refDoc' = [refDoc EXCEPT ![r] = ref[r].type]
       \/ /\ Failures \/ (r \in Events /\ NameOf[ref[r].type] \notin mappings)
          /\ UNCHANGED refDoc
    /\ ref' = [ref EXCEPT ![r].pc = "ended"]
    /\ UNCHANGED <<typeStore, typesSeen, refSeen, typePc, del, history>>

\* DeleteTrigger and DeleteEvent; events of a system type are kept.
DeleteRef(r) ==
    /\ refDoc[r] # None
    /\ r \in Events => NameOf[refDoc[r]] \notin SystemNames
    /\ refDoc' = [refDoc EXCEPT ![r] = None]
    /\ shield' = [d \in Deleters |-> shield[d] \ {r}]
    /\ UNCHANGED <<typeStore, typesSeen, refSeen, typePc, ref, del, before,
                   harmed>>

-----------------------------------------------------------------------------
(* DeleteEventType *)

Hits(refs, x) == {r \in refs : refSeen[r] = x}

Go(d, next) == del' = [del EXCEPT ![d].pc = next]
End(d) == /\ del' = [del EXCEPT ![d] = NoRequest]
          /\ shield' = [shield EXCEPT ![d] = {}]

\* The event type is read; system types are refused.
DeleteEventType(d, x) ==
    /\ del[d] = NoRequest
    /\ x \in typeDocs
    /\ NameOf[x] \notin SystemNames
    /\ del' = [del EXCEPT ![d] = [pc |-> "triggers", type |-> x]]
    /\ shield' = [shield EXCEPT ![d] = {r \in Hits(Refs, x) : refDoc[r] = x}]
    /\ UNCHANGED <<typeStore, typesSeen, refStore, typePc, ref, before, harmed>>

\* TriggerDB.GetTriggersByEventTypeID: 403 if there are any.
CheckTriggers(d) ==
    /\ del[d].pc = "triggers"
    /\ \/ Hits(Triggers, del[d].type) = {} /\ Go(d, "events") /\ UNCHANGED shield
       \/ Hits(Triggers, del[d].type) # {} /\ End(d)
       \/ Failures /\ End(d)
    /\ UNCHANGED <<typeStore, typesSeen, refStore, typePc, ref, before, harmed>>

\* Mutant of CheckEvents: the events are not asked for.
CheckEventsSkipped(d) ==
    /\ del[d].pc = "events"
    /\ \/ NameOf[del[d].type] \in mappings /\ Go(d, "delete") /\ UNCHANGED shield
       \/ NameOf[del[d].type] \notin mappings /\ End(d)
    /\ UNCHANGED <<typeStore, typesSeen, refStore, typePc, ref, before, harmed>>

\* EventDB.GetEventsByEventTypeID: 403 if there are any, 400 if the type's name
\* has no mapping.
CheckEvents(d) ==
    /\ del[d].pc = "events"
    /\ \/ /\ NameOf[del[d].type] \in mappings
          /\ Hits(Events, del[d].type) = {}
          /\ Go(d, "delete")
          /\ UNCHANGED shield
       \/ /\ \/ NameOf[del[d].type] \notin mappings
             \/ Hits(Events, del[d].type) # {}
             \/ Failures
          /\ End(d)
    /\ UNCHANGED <<typeStore, typesSeen, refStore, typePc, ref, before, harmed>>

\* The document is deleted; the mapping of the events index stays.
DeleteTypeDoc(d) ==
    /\ del[d].pc = "delete"
    /\ \/ typeDocs' = typeDocs \ {del[d].type}
       \/ Failures /\ UNCHANGED typeDocs
    /\ End(d)
    /\ UNCHANGED <<mappings, typesSeen, refStore, typePc, ref, before, harmed>>

-----------------------------------------------------------------------------
\* Elasticsearch refreshes an index: searches see its documents.
RefreshTypes ==
    /\ typesSeen' = typeDocs
    /\ UNCHANGED <<typeStore, refStore, typePc, ref, del, history>>

RefreshRefs(refs) ==
    /\ refSeen' = [r \in Refs |-> IF r \in refs THEN refDoc[r] ELSE refSeen[r]]
    /\ UNCHANGED <<typeStore, typesSeen, refDoc, typePc, ref, del, history>>

\* The process dies; the stores stay.
Crash ==
    /\ Crashes
    /\ typePc' = [x \in TypeIds |->
                     IF typePc[x] \in {"idle", "created", "rejected"}
                     THEN typePc[x] ELSE "lost"]
    /\ ref' = [r \in Refs |-> IF ref[r].pc = "idle" THEN ref[r]
                              ELSE [ref[r] EXCEPT !.pc = "ended"]]
    /\ del' = [d \in Deleters |-> NoRequest]
    /\ shield' = [d \in Deleters |-> {}]
    /\ harmed' = harmed \cup
                   {x \in TypeIds : typePc[x] \in {"mapping", "undo"}}
    /\ UNCHANGED <<typeStore, typesSeen, refStore, before>>

PostStep(x) ==
    GetIDByName(x) \/ StoreType(x) \/ AddMapping(x) \/ UndoType(x)

DeleteStep(d) == CheckTriggers(d) \/ CheckEvents(d) \/ DeleteTypeDoc(d)

Next ==
    \/ \E x \in TypeIds : PostEventType(x) \/ PostStep(x)
    \/ \E r \in Refs, x \in TypeIds : PostRef(r, x)
    \/ \E r \in Refs : VerifyRef(r) \/ StoreRef(r) \/ DeleteRef(r)
    \/ \E d \in Deleters, x \in TypeIds : DeleteEventType(d, x)
    \/ \E d \in Deleters : DeleteStep(d)
    \/ RefreshTypes \/ RefreshRefs(Triggers) \/ RefreshRefs(Events)
    \/ Crash

Spec == Init /\ [][Next]_vars

-----------------------------------------------------------------------------
(* Properties *)

\* Requests one after the other never share a name: once an event type was
\* created (201), no request that begins later creates another one with its
\* name, although the search for the name may be stale, and even after the
\* first one was deleted (Service.go:457-471, 500).
NamesStayTaken ==
    \A x \in TypeIds : typePc[x] = "created" =>
        \A y \in before[x] : NameOf[y] # NameOf[x]

\* A refused event type leaves no document behind, unless a failed call or a
\* crash cut the request short.
RefusedLeavesNothing ==
    \A x \in TypeIds \ harmed :
        typePc[x] \in {"rejected", "lost"} => x \notin typeDocs

\* The two checks of DeleteEventType protect every trigger and event that a
\* search could see when the request began and that is stored still.
VisibleRefsProtect ==
    \A d \in Deleters : del[d].pc = "delete" => shield[d] = {}

\* A stored event type has its mapping in the events index (without it the type
\* accepts no event and DeleteEventType answers 400 for ever), unless its
\* creation is at work or was cut short.
TypesHaveMapping ==
    \A x \in typeDocs \ harmed :
        typePc[x] \notin {"mapping", "undo"} => NameOf[x] \in mappings
=============================================================================
