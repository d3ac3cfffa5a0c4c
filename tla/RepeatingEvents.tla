-------------------------- MODULE RepeatingEvents --------------------------
(***************************************************************************)
(* Repeating (cron) events: PostRepeatingEvent, DeleteEvent, InitCron and  *)
(* the scheduler of the vendored cron package.                             *)
(*                                                                         *)
(* A repeating event lives in three places: an entry of the in-memory      *)
(* scheduler, a document of the crons index and a document of the events   *)
(* index.  The handlers update them one call at a time, every call can     *)
(* fail, and a crash forgets the first and keeps the other two; InitCron   *)
(* then rebuilds the scheduler from the crons index.                       *)
(***************************************************************************)
EXTENDS Naturals, FiniteSets

CONSTANTS
    Crons,        \* ids of the repeating events posted
    Types,        \* event types
    TypeOf,       \* the event type of each repeating event
    SystemTypes,  \* piazza:ingest and piazza:executionComplete
    Bare,         \* event types without variables
    Once,         \* repeating events whose schedule ends after one run (@now)
    Deleters,     \* handler goroutines serving DELETE /event/:id
    TypeDeleters, \* handler goroutines serving DELETE /eventType/:id
    PageSize,     \* hits of an Elasticsearch search without a size
    Failures,     \* may calls to Elasticsearch fail?
    Crashes,      \* may the process be killed?
    None          \* "no such thing"

ASSUME CronAssumption ==
    /\ TypeOf \in [Crons -> Types]
    /\ SystemTypes \subseteq Types
    /\ Bare \subseteq Types
    /\ Once \subseteq Crons
    /\ PageSize \in Nat \ {0}
    /\ Failures \in BOOLEAN
    /\ Crashes \in BOOLEAN
    /\ None \notin Crons \cup Types

VARIABLES
    eventTypes,  \* eventtypes index
    events,      \* events index: repeating events
    children,    \* events index: events posted by a run, <<schedule, createdBy>>
    cronDB,      \* crons index
    up,          \* is the process serving requests?
    running,     \* Cron.running: was the scheduler started?
    entries,     \* Cron.entries: for each schedule, the event its job posts
    removes,     \* Cron.removes: keys to remove when their entry is next due
    runs,        \* jobs being run, <<schedule, event of the job>>
    postPc,      \* per repeating event: where its PostRepeatingEvent is
    del,         \* per deleter: the DeleteEvent in progress
    typeDel,     \* per type deleter: the DeleteEventType in progress
    \* History variables, never read by a guard.
    stopped,     \* repeating events whose deletion was answered 200
    deletes,     \* repeating events a DeleteEvent has started on
    harmed       \* repeating events whose update was cut short by a failed
                 \* call or a crash

index     == <<eventTypes, events, children, cronDB>>
scheduler == <<running, entries, removes, runs>>
history   == <<stopped, deletes, harmed>>
vars      == <<index, up, scheduler, postPc, del, typeDel, history>>

NoDelete     == [pc |-> "idle", cron |-> None]
NoTypeDelete == [pc |-> "idle", type |-> None]

PostPcs == {"idle", "add", "cron", "verify", "event", "undoCron", "undoJob",
            "created", "rejected", "lost"}

TypeOK ==
    /\ eventTypes \subseteq Types
    /\ events \subseteq Crons
    /\ children \subseteq Crons \X Crons
    /\ cronDB \subseteq Crons
    /\ up \in BOOLEAN
    /\ running \in BOOLEAN
    /\ entries \in [Crons -> Crons \cup {None}]
    /\ removes \subseteq Crons
    /\ runs \subseteq Crons \X Crons
    /\ postPc \in [Crons -> PostPcs]
    /\ del \in [Deleters -> [pc : {"idle", "event", "exists", "cron", "remove"},
                             cron : Crons \cup {None}]]
    /\ typeDel \in [TypeDeleters -> [pc : {"idle", "delete"},
                                     type : Types \cup {None}]]
    /\ stopped \subseteq Crons
    /\ deletes \subseteq Crons
    /\ harmed \subseteq Crons

\* The first start: InitCron found no crons type and started the scheduler.
Init ==
    /\ eventTypes = Types
    /\ events = {} /\ children = {} /\ cronDB = {}
    /\ up = TRUE /\ running = TRUE
    /\ entries = [c \in Crons |-> None]
    /\ removes = {} /\ runs = {}
    /\ postPc = [c \in Crons |-> "idle"]
    /\ del = [d \in Deleters |-> NoDelete]
    /\ typeDel = [d \in TypeDeleters |-> NoTypeDelete]
    /\ stopped = {} /\ deletes = {} /\ harmed = {}

-----------------------------------------------------------------------------
(* PostRepeatingEvent *)

Post(c, next) == postPc' = [postPc EXCEPT ![c] = next]

\* The event type is read and the schedule parsed; either may be refused.
PostRepeatingEvent(c) ==
    /\ up
    /\ postPc[c] = "idle"
    /\ \/ TypeOf[c] \in eventTypes /\ Post(c, "add")
       \/ Post(c, "rejected")
    /\ UNCHANGED <<index, up, scheduler, del, typeDel, history>>

\* The job is handed to the scheduler before anything is stored.
AddJob(c) ==
    /\ postPc[c] = "add"
    /\ entries' = [entries EXCEPT ![c] = c]
    /\ Post(c, "cron")
    /\ UNCHANGED <<index, up, running, removes, runs, del, typeDel, history>>

\* Mutant of StoreCron: a failed write of the crons index is not noticed.
StoreCronUnchecked(c) ==
    /\ postPc[c] = "cron"
    /\ cronDB' = cronDB \cup {c} \/ (Failures /\ UNCHANGED cronDB)
    /\ Post(c, "verify")
    /\ UNCHANGED <<eventTypes, events, children, up, scheduler, del, typeDel,
                   history>>

\* CronDB.PostData.  If it fails the handler answers 500 and leaves the job in
\* the scheduler.
StoreCron(c) ==
    /\ postPc[c] = "cron"
    /\ \/ /\ cronDB' = cronDB \cup {c}
          /\ Post(c, "verify")
          /\ UNCHANGED harmed
       \/ /\ Failures
          /\ cronDB' \in {cronDB, cronDB \cup {c}}
          /\ Post(c, "rejected")
          /\ harmed' = harmed \cup {c}
    /\ UNCHANGED <<eventTypes, events, children, up, scheduler, del, typeDel,
                   stopped, deletes>>

\* EventDB.verifyEventReadyToPost reads the event type again and compares the
\* data with its mapping.  If the read fails, EventTypeDB.GetOne panics,
\* GetEventType recovers and returns nil, verifyEventReadyToPost panics on it
\* and PostRepeatingEvent recovers: it undoes nothing.
VerifyEvent(c) ==
    /\ postPc[c] = "verify"
    /\ \/ TypeOf[c] \in eventTypes /\ Post(c, "event") /\ UNCHANGED harmed
       \/ Post(c, "undoCron") /\ UNCHANGED harmed
       \/ Failures /\ Post(c, "rejected") /\ harmed' = harmed \cup {c}
    /\ UNCHANGED <<index, up, scheduler, del, typeDel, stopped, deletes>>

\* EventDB.PostData.  A failing call may have stored the event all the same.
StoreEvent(c) ==
    /\ postPc[c] = "event"
    /\ \/ events' = events \cup {c} /\ Post(c, "created") /\ UNCHANGED harmed
       \/ /\ Failures
          /\ events' \in {events, events \cup {c}}
          /\ Post(c, "undoCron")
          /\ harmed' = IF events' = events THEN harmed ELSE harmed \cup {c}
    /\ UNCHANGED <<eventTypes, children, cronDB, up, scheduler, del, typeDel,
                   stopped, deletes>>

\* Mutant of UndoCron: the job stays in the scheduler.
UndoCronOnly(c) ==
    /\ postPc[c] = "undoCron"
    /\ cronDB' = cronDB \ {c}
    /\ Post(c, "rejected")
    /\ UNCHANGED <<eventTypes, events, children, up, scheduler, del, typeDel,
                   history>>

\* The document of the crons index is deleted again.  A failing call panics in
\* CronDB.DeleteByID; the handler recovers, and does not get to cron.Remove.
UndoCron(c) ==
    /\ postPc[c] = "undoCron"
    /\ \/ cronDB' = cronDB \ {c} /\ Post(c, "undoJob") /\ UNCHANGED harmed
       \/ /\ Failures
          /\ cronDB' \in {cronDB, cronDB \ {c}}
          /\ Post(c, "rejected")
          /\ harmed' = harmed \cup {c}
    /\ UNCHANGED <<eventTypes, events, children, up, scheduler, del, typeDel,
                   stopped, deletes>>

\* Cron.Remove only notes the key; the entry goes when it is next due.
UndoJob(c) ==
    /\ postPc[c] = "undoJob"
    /\ removes' = removes \cup {c}
    /\ Post(c, "rejected")
    /\ UNCHANGED <<index, up, running, entries, runs, del, typeDel, history>>

-----------------------------------------------------------------------------
(* DeleteEvent *)

Step(d, next) == del' = [del EXCEPT ![d].pc = next]
End(d) == del' = [del EXCEPT ![d] = NoDelete]

\* The event is looked up; events of a system type are refused.
DeleteEvent(d, c) ==
    /\ up
    /\ del[d] = NoDelete
    /\ c \in events
    /\ TypeOf[c] \notin SystemTypes
    /\ del' = [del EXCEPT ![d] = [pc |-> "event", cron |-> c]]
    /\ deletes' = deletes \cup {c}
    /\ UNCHANGED <<index, up, scheduler, postPc, typeDel, stopped, harmed>>

\* The document of the events index goes first.
DeleteEventDoc(d) ==
    LET c == del[d].cron IN
    /\ del[d].pc = "event"
    /\ \/ c \in events /\ events' = events \ {c} /\ Step(d, "exists")
          /\ UNCHANGED harmed
       \/ c \notin events /\ End(d) /\ UNCHANGED <<events, harmed>>
       \/ /\ Failures
          /\ events' \in {events, events \ {c}}
          /\ End(d)
          /\ harmed' = harmed \cup {c}
    /\ UNCHANGED <<eventTypes, children, cronDB, up, scheduler, postPc, typeDel,
                   stopped, deletes>>

\* Is it a repeating event?  If not the request is done.
CronExists(d) ==
    LET c == del[d].cron IN
    /\ del[d].pc = "exists"
    /\ \/ c \in cronDB /\ Step(d, "cron") /\ UNCHANGED <<stopped, harmed>>
       \/ /\ c \notin cronDB
          /\ End(d)
          /\ stopped' = stopped \cup {c}
          /\ UNCHANGED harmed
       \/ /\ Failures
          /\ End(d)
          /\ harmed' = harmed \cup {c}
          /\ UNCHANGED stopped
    /\ UNCHANGED <<index, up, scheduler, postPc, typeDel, deletes>>

\* Mutant of DeleteCron: the document of the crons index is not deleted.
DeleteCronSkipped(d) ==
    /\ del[d].pc = "cron"
    /\ Step(d, "remove")
    /\ UNCHANGED <<index, up, scheduler, postPc, typeDel, history>>

\* The document of the crons index.
DeleteCron(d) ==
    LET c == del[d].cron IN
    /\ del[d].pc = "cron"
    /\ \/ c \in cronDB /\ cronDB' = cronDB \ {c} /\ Step(d, "remove")
          /\ UNCHANGED harmed
       \/ c \notin cronDB /\ End(d) /\ UNCHANGED <<cronDB, harmed>>
       \/ /\ Failures
          /\ cronDB' \in {cronDB, cronDB \ {c}}
          /\ End(d)
          /\ harmed' = harmed \cup {c}
    /\ UNCHANGED <<eventTypes, events, children, up, scheduler, postPc, typeDel,
                   stopped, deletes>>

\* Mutant of RemoveJob: the scheduler is not told.
RemoveJobForgotten(d) ==
    /\ del[d].pc = "remove"
    /\ stopped' = stopped \cup {del[d].cron}
    /\ End(d)
    /\ UNCHANGED <<index, up, scheduler, postPc, typeDel, deletes, harmed>>

\* Mutant of RemoveJob: the request is cleared before its key is used.
RemoveJobCleared(d) ==
    /\ del[d].pc = "remove"
    /\ removes' = removes \cup {NoDelete.cron}
    /\ stopped' = stopped \cup {del[d].cron}
    /\ End(d)
    /\ UNCHANGED <<index, up, running, entries, runs, postPc, typeDel, deletes,
                   harmed>>

\* The scheduler is told last, and the client gets its 200.
RemoveJob(d) ==
    /\ del[d].pc = "remove"
    /\ removes' = removes \cup {del[d].cron}
    /\ stopped' = stopped \cup {del[d].cron}
    /\ End(d)
    /\ UNCHANGED <<index, up, running, entries, runs, postPc, typeDel, deletes,
                   harmed>>

\* Deleting an event that a run posted: it has no document in the crons index.
DeleteChild(k) ==
    /\ up
    /\ k \in children
    /\ TypeOf[k[2]] \notin SystemTypes
    /\ children' = children \ {k}
    /\ UNCHANGED <<eventTypes, events, cronDB, up, scheduler, postPc, del,
                   typeDel, history>>

-----------------------------------------------------------------------------
(* DeleteEventType, as far as repeating events are concerned (no triggers). *)

\* An event type that some event refers to is not deleted.  The search is taken
\* to be up to date here; EventTypes has the stale ones.
DeleteEventType(d, type) ==
    /\ up
    /\ typeDel[d] = NoTypeDelete
    /\ type \in eventTypes \ SystemTypes
    /\ \A c \in events : TypeOf[c] # type
    /\ \A k \in children : TypeOf[k[2]] # type
    /\ typeDel' = [typeDel EXCEPT ![d] = [pc |-> "delete", type |-> type]]
    /\ UNCHANGED <<index, up, scheduler, postPc, del, history>>

\* The deletion comes later than the check.
DeleteTypeDoc(d) ==
    /\ typeDel[d].pc = "delete"
    /\ \/ eventTypes' = eventTypes \ {typeDel[d].type}
       \/ Failures /\ UNCHANGED eventTypes
    /\ typeDel' = [typeDel EXCEPT ![d] = NoTypeDelete]
    /\ UNCHANGED <<events, children, cronDB, up, scheduler, postPc, del,
                   history>>

-----------------------------------------------------------------------------
(* The scheduler goroutine (Cron.run) *)

\* Mutant of Tick: a removed entry only skips one run.
TickSkipsOnce(c) ==
    LET key == entries[c] IN
    /\ up /\ running
    /\ key # None
    /\ removes' = removes \ {key}
    /\ runs' = IF key \in removes THEN runs ELSE runs \cup {<<c, key>>}
    /\ entries' = IF c \in Once THEN [entries EXCEPT ![c] = None] ELSE entries
    /\ UNCHANGED <<index, up, running, postPc, del, typeDel, history>>

\* An entry is due.  If its key is to be removed, entry and key go (one entry
\* per key); otherwise its job is run in a goroutine, and an entry whose
\* schedule has ended goes too.  Entries due at the same time are handled one
\* after the other.
Tick(c) ==
    LET key == entries[c]
        drop == [entries EXCEPT ![c] = None]
    IN
    /\ up /\ running
    /\ key # None
    /\ \/ /\ key \in removes
          /\ entries' = drop
          /\ removes' = removes \ {key}
          /\ UNCHANGED runs
       \/ /\ key \notin removes
          /\ runs' = runs \cup {<<c, key>>}
          /\ entries' = IF c \in Once THEN drop ELSE entries
          /\ UNCHANGED removes
    /\ UNCHANGED <<index, up, running, postPc, del, typeDel, history>>

\* cronEvent.Run posts an event whose createdBy is the id of the job's event.
\* Its data is looked up under the name of the event type that came with the
\* schedule, and is empty if the job's event is of another type.  PostEvent
\* refuses it if the event type is gone or has variables the data lacks.
Accepted(r) ==
    /\ TypeOf[r[2]] \in eventTypes
    /\ TypeOf[r[1]] = TypeOf[r[2]] \/ TypeOf[r[2]] \in Bare

RunJob(r) ==
    /\ r \in runs
    /\ runs' = runs \ {r}
    /\ \/ Accepted(r) /\ children' = children \cup {r}
       \/ ~ Accepted(r) /\ UNCHANGED children
       \/ Failures /\ UNCHANGED children
    /\ UNCHANGED <<eventTypes, events, cronDB, up, running, entries, removes,
                   postPc, del, typeDel, history>>

-----------------------------------------------------------------------------
(* Crash and restart *)

Crash ==
    /\ Crashes /\ up
    /\ up' = FALSE /\ running' = FALSE
    /\ entries' = [c \in Crons |-> None]
    /\ removes' = {} /\ runs' = {}
    /\ postPc' = [c \in Crons |->
                     IF postPc[c] \in {"idle", "created", "rejected"}
                     THEN postPc[c] ELSE "lost"]
    /\ del' = [d \in Deleters |-> NoDelete]
    /\ typeDel' = [d \in TypeDeleters |-> NoTypeDelete]
    /\ harmed' = harmed
         \cup {c \in Crons : postPc[c] \in {"verify", "event", "undoCron"}}
         \cup {c \in Crons : \E d \in Deleters :
                  del[d].cron = c /\ del[d].pc \in {"exists", "cron"}}
    /\ UNCHANGED <<index, stopped, deletes>>

\* The documents CronDB.GetAll returns: one page of them, in any order.
Pages == {p \in SUBSET cronDB :
             \/ p = cronDB /\ Cardinality(p) <= PageSize
             \/ Cardinality(p) = PageSize}

\* Mutant of InitCron: the last document is left out.
InitCronOffByOne ==
    /\ ~up
    /\ \E page \in Pages :
          /\ \A c \in page : TypeOf[c] \in eventTypes
          /\ \E last \in IF page = {} THEN {None} ELSE page :
                entries' = [c \in Crons |->
                               IF c \in page \ {last} THEN last ELSE None]
    /\ up' = TRUE /\ running' = TRUE
    /\ UNCHANGED <<index, removes, runs, postPc, del, typeDel, history>>

\* InitCron.  All jobs take the address of the one loop variable, so in the end
\* every entry runs the event that came last.
InitCron ==
    /\ ~up
    /\ \E page \in Pages :
          /\ \A c \in page : TypeOf[c] \in eventTypes
          /\ \E last \in IF page = {} THEN {None} ELSE page :
                entries' = [c \in Crons |-> IF c \in page THEN last ELSE None]
    /\ up' = TRUE /\ running' = TRUE
    /\ UNCHANGED <<index, removes, runs, postPc, del, typeDel, history>>

\* If reading an event type fails, InitCron panics, recovers and returns no
\* error: the service runs with a scheduler that was never started, and with
\* the entries added before, whose variable now holds the event at work.
InitCronPanics ==
    /\ ~up
    /\ Failures
    /\ \E page \in Pages : \E last \in page :
          \E added \in SUBSET {c \in page \ {last} : TypeOf[c] \in eventTypes} :
              entries' = [c \in Crons |-> IF c \in added THEN last ELSE None]
    /\ up' = TRUE
    /\ UNCHANGED <<index, running, removes, runs, postPc, del, typeDel, history>>

-----------------------------------------------------------------------------
PostStep(c) ==
    \/ AddJob(c) \/ StoreCron(c) \/ VerifyEvent(c) \/ StoreEvent(c)
    \/ UndoCron(c) \/ UndoJob(c)

DeleteStep(d) ==
    DeleteEventDoc(d) \/ CronExists(d) \/ DeleteCron(d) \/ RemoveJob(d)

Next ==
    \/ \E c \in Crons : PostRepeatingEvent(c) \/ PostStep(c) \/ Tick(c)
    \/ \E d \in Deleters, c \in Crons : DeleteEvent(d, c)
    \/ \E d \in Deleters : DeleteStep(d)
    \/ \E d \in TypeDeleters, type \in Types : DeleteEventType(d, type)
    \/ \E d \in TypeDeleters : DeleteTypeDoc(d)
    \/ \E r \in Crons \X Crons : RunJob(r) \/ DeleteChild(r)
    \/ Crash \/ InitCron \/ InitCronPanics

Spec == Init /\ [][Next]_vars

\* Handlers run on, entries come due again and again, and runs end.
Fairness ==
    /\ \A c \in Crons : WF_vars(PostStep(c)) /\ WF_vars(Tick(c))
    /\ \A d \in Deleters : WF_vars(DeleteStep(d))
    /\ \A r \in Crons \X Crons : WF_vars(RunJob(r))

FairSpec == Spec /\ Fairness

-----------------------------------------------------------------------------
(* Properties *)

\* A repeating event answered with 201 keeps both documents until somebody
\* deletes it: no crash, restart or failure elsewhere loses it.
CreatedIsPersistent ==
    \A c \in Crons : postPc[c] = "created" /\ c \notin deletes =>
        c \in events /\ c \in cronDB

\* DeleteEvent finds the event and does not refuse it.
Deletable(c) == c \in events /\ TypeOf[c] \notin SystemTypes

\* Every job the scheduler will go on running belongs to an event a client can
\* still delete or to a request at work: there is no job that nobody can stop.
\* The exceptions: a failed call or a crash cut an update short; and events of a
\* system type, which PostRepeatingEvent accepts and DeleteEvent refuses.
JobsCanBeStopped ==
    \A c \in Crons :
        LET j == entries[c] IN
        (/\ j # None /\ j \notin removes /\ j \notin harmed
         /\ TypeOf[j] \notin SystemTypes) =>
            \/ Deletable(j)
            \/ postPc[j] \in {"cron", "verify", "event", "undoCron", "undoJob"}
            \/ \E d \in Deleters : del[d].cron = j /\ del[d].pc # "event"

\* After the 200 of DeleteEvent the scheduler starts no more runs of the event
\* (Service.go:942 "remove from cronDB, stop cronjob").
StoppedStaysStopped ==
    [][\A r \in runs' \ runs : r[2] \notin stopped \ harmed]_vars

\* ... and InitCron does not bring it back: what the crons index holds after a
\* 200 is nothing of the deleted event, whatever failed before.
StoppedIsForgotten == \A c \in stopped : c \notin cronDB

\* While the scheduler runs, every repeating event that can be deleted is on
\* its own schedule: created events are not silently dropped from it.
CreatedIsScheduled ==
    \A c \in Crons \ Once :
        running /\ postPc[c] = "created" /\ c \notin deletes =>
            entries[c] # None

\* The lazily removed entry does go, if the process lives on.
RemovedEntryGoes ==
    \A c \in Crons :
        c \in stopped \ harmed /\ entries[c] = c ~> entries[c] = None

\* Service.go:669: "The createdBy field of each subsequent event is filled with
\* the eventId of this initial event": what a schedule posts is created by the
\* event posted with that schedule.
ChildrenNameTheirEvent == \A k \in children : k[1] = k[2]
=============================================================================
