--------------------------- MODULE TriggerFiring ---------------------------
(***************************************************************************)
(* How a posted event fires triggers in pz-workflow (workflow/Service.go,  *)
(* TriggerDB.go, EventDB.go, AlertDB.go).                                  *)
(*                                                                         *)
(* A trigger lives in two stores: its document in the triggers index and   *)
(* its condition as a percolation query in the events index.  PostEvent    *)
(* stores the event, percolates it against the queries and starts one      *)
(* goroutine per match; each goroutine re-reads the trigger document, asks *)
(* IDAM, publishes a job to RabbitMQ and records an alert.  PostTrigger,   *)
(* PutTrigger and DeleteTrigger run concurrently with it, every call to    *)
(* Elasticsearch, IDAM or RabbitMQ can fail, and the process can die       *)
(* between any two calls.                                                  *)
(*                                                                         *)
(* One step of the model is one call to an external store or service.      *)
(***************************************************************************)
EXTENDS Naturals, FiniteSets

CONSTANTS
    Events,         \* ids of the events posted (a fresh id per PostEvent)
    Triggers,       \* ids of the triggers posted (a fresh id per PostTrigger)
    Editors,        \* handler goroutines serving PUT and DELETE /trigger/:id
    EventTypeOf,    \* the event type an event is posted under
    TriggerTypeOf,  \* the event type a trigger is posted under
    Matches,        \* <<e, t>>: the data of e satisfies the condition of t
    Failures,       \* may calls to other services fail?
    Crashes,        \* may the process be killed from outside?
    NoTrigger       \* "no trigger", for an idle editor

ASSUME ConstantsAssumption ==
    /\ Matches \subseteq Events \X Triggers
    /\ Failures \in BOOLEAN
    /\ Crashes \in BOOLEAN
    /\ NoTrigger \notin Triggers

VARIABLES
    events,    \* events index: ids of the events stored so far (deleting an
               \* event does nothing to its goroutines, jobs and alerts)
    queries,   \* events index, .percolator: ids of the percolation queries
    trigDoc,   \* triggers index: "absent", or the Enabled field of the document
    alerts,    \* alerts index: the alert the goroutine of <<e, t>> stored;
               \* "deleted" if a client deleted it since
    jobs,      \* RabbitMQ: pairs <<e, t>> for which Publish returned no error
    evPc,      \* per event: where its PostEvent is
    evResp,    \* per event: the response of PostEvent
    gor,       \* per event and trigger: where the goroutine is
    outcome,   \* per event and trigger: why the goroutine failed
    results,   \* per event: keys of the shared "results" map
    trigPc,    \* per trigger: where its PostTrigger is
    edit,      \* per editor: the PutTrigger or DeleteTrigger in progress
    \* History variables: they record the past for the properties and are
    \* never read by a guard.
    armed,         \* per event: triggers stored, enabled and with a query
                   \* ever since its PostEvent began
    deletedBefore, \* per event: triggers deleted (with a 200) before it began
    deletes,       \* triggers a DeleteTrigger has started on
    deleted,       \* triggers for which a DeleteTrigger answered 200
    harmed         \* triggers for which a two-store update was cut short by a
                   \* failed call or a crash

stores  == <<events, queries, trigDoc, alerts, jobs>>
posting == <<evPc, evResp, gor, outcome, results>>
history == <<armed, deletedBefore, deletes, deleted, harmed>>
vars    == <<stores, posting, trigPc, edit, history>>

-----------------------------------------------------------------------------
(* States of the request handlers and of the goroutines. *)

ActivePosts == {"store", "percolate", "wait"}
EventPcs    == ActivePosts \cup {"idle", "done", "lost"}
Responses   == {"none", "created", "badRequest", "forbidden", "internalError",
                "panic"}

ActiveGoroutines == {"exists", "get", "auth", "publish", "alert", "write"}
EndedGoroutines  == {"fired", "skipped", "failed"}
GoroutineStates  == ActiveGoroutines \cup EndedGoroutines \cup {"none", "dead"}

Outcomes == {"nil", "missing", "getError", "idamError", "denied",
             "publishError", "alertError"}

TriggerPcs == {"idle", "query", "doc", "rollback", "created", "rejected",
               "lost"}
DocStates  == {"absent", "enabled", "disabled"}

EditPcs  == {"put", "deleteDoc", "deleteQuery"}
Idle     == [pc |-> "idle", trig |-> NoTrigger, enabled |-> FALSE]
Requests == {Idle} \cup [pc : EditPcs, trig : Triggers, enabled : BOOLEAN]

\* The HTTP status a goroutine stores in "results" for each way to fail.
StatusOf(o) ==
    CASE o \in {"missing", "getError"}                     -> "badRequest"
      [] o = "denied"                                      -> "forbidden"
      [] OTHER                                             -> "internalError"

\* Mutant of Doc: the Enabled field is written as text.
DocAsText(enabled) == IF enabled THEN "true" ELSE "false"

Doc(enabled) == IF enabled THEN "enabled" ELSE "disabled"

TypeOK ==
    /\ events \subseteq Events
    /\ queries \subseteq Triggers
    /\ trigDoc \in [Triggers -> DocStates]
    /\ alerts \in [Events -> [Triggers -> {"none", "stored", "deleted"}]]
    /\ jobs \subseteq Events \X Triggers
    /\ evPc \in [Events -> EventPcs]
    /\ evResp \in [Events -> Responses]
    /\ gor \in [Events -> [Triggers -> GoroutineStates]]
    /\ outcome \in [Events -> [Triggers -> Outcomes]]
    /\ results \in [Events -> SUBSET Triggers]
    /\ trigPc \in [Triggers -> TriggerPcs]
    /\ edit \in [Editors -> Requests]
    /\ armed \in [Events -> SUBSET Triggers]
    /\ deletedBefore \in [Events -> SUBSET Triggers]
    /\ deletes \subseteq Triggers
    /\ deleted \subseteq Triggers
    /\ harmed \subseteq Triggers

Init ==
    /\ events = {} /\ queries = {} /\ jobs = {}
    /\ trigDoc = [t \in Triggers |-> "absent"]
    /\ alerts = [e \in Events |-> [t \in Triggers |-> "none"]]
    /\ evPc = [e \in Events |-> "idle"]
    /\ evResp = [e \in Events |-> "none"]
    /\ gor = [e \in Events |-> [t \in Triggers |-> "none"]]
    /\ outcome = [e \in Events |-> [t \in Triggers |-> "nil"]]
    /\ results = [e \in Events |-> {}]
    /\ trigPc = [t \in Triggers |-> "idle"]
    /\ edit = [c \in Editors |-> Idle]
    /\ armed = [e \in Events |-> {}]
    /\ deletedBefore = [e \in Events |-> {}]
    /\ deletes = {} /\ deleted = {} /\ harmed = {}

-----------------------------------------------------------------------------
(* PostTrigger *)

\* The event type is looked up, the condition rewritten and the service
\* checked; nothing is stored yet.  A trigger that fails a check is refused.
PostTrigger(t) ==
    /\ trigPc[t] = "idle"
    /\ \E next \in {"query", "rejected"} :
          trigPc' = [trigPc EXCEPT ![t] = next]
    /\ UNCHANGED <<stores, posting, edit, history>>

\* The condition becomes a percolation query.  If the call fails the handler
\* returns 400 and does not undo it, even if Elasticsearch did apply it.
AddPercolationQuery(t) ==
    /\ trigPc[t] = "query"
    /\ \/ /\ queries' = queries \cup {t}
          /\ trigPc' = [trigPc EXCEPT ![t] = "doc"]
          /\ UNCHANGED harmed
       \/ /\ Failures
          /\ queries' \in {queries, queries \cup {t}}
          /\ trigPc' = [trigPc EXCEPT ![t] = "rejected"]
          /\ harmed' = harmed \cup {t}
    /\ UNCHANGED <<events, trigDoc, alerts, jobs, posting, edit, armed,
                   deletedBefore, deletes, deleted>>

\* The document is stored with the client's Enabled field.
StoreTrigger(t) ==
    /\ trigPc[t] = "doc"
    /\ \E enabled \in BOOLEAN :
          \/ /\ trigDoc' = [trigDoc EXCEPT ![t] = Doc(enabled)]
             /\ trigPc' = [trigPc EXCEPT ![t] = "created"]
             /\ UNCHANGED harmed
          \/ /\ Failures
             /\ trigDoc' \in {trigDoc, [trigDoc EXCEPT ![t] = Doc(enabled)]}
             /\ trigPc' = [trigPc EXCEPT ![t] = "rollback"]
             /\ harmed' = IF trigDoc' = trigDoc THEN harmed ELSE harmed \cup {t}
    /\ UNCHANGED <<events, queries, alerts, jobs, posting, edit, armed,
                   deletedBefore, deletes, deleted>>

\* History: of the triggers armed since an event was posted, keep those that
\* still are after this step.
TrackArmed ==
    armed' = [e \in Events |->
                 {t \in armed[e] : trigDoc'[t] = "enabled" /\ t \in queries'}]

\* Mutant of RollbackQuery: the percolation query is left behind.
RollbackForgotten(t) ==
    /\ trigPc[t] = "rollback"
    /\ trigPc' = [trigPc EXCEPT ![t] = "rejected"]
    /\ UNCHANGED <<stores, posting, edit, history>>

\* After a failed store of the document the query is deleted again; an error
\* of that call is ignored.
RollbackQuery(t) ==
    /\ trigPc[t] = "rollback"
    /\ \/ /\ queries' = queries \ {t}
          /\ UNCHANGED harmed
       \/ /\ Failures
          /\ queries' \in {queries, queries \ {t}}
          /\ harmed' = harmed \cup {t}
    /\ trigPc' = [trigPc EXCEPT ![t] = "rejected"]
    /\ UNCHANGED <<events, trigDoc, alerts, jobs, posting, edit,
                   deletedBefore, deletes, deleted>>
    /\ TrackArmed

-----------------------------------------------------------------------------
(* PutTrigger and DeleteTrigger, each served by an editor.  A request that  *)
(* does not find the document is answered 404 and changes nothing.          *)

\* PutTrigger reads the document it is going to write back.
PutTrigger(c, t, enabled) ==
    /\ edit[c] = Idle
    /\ trigDoc[t] # "absent"
    /\ edit' = [edit EXCEPT ![c] = [pc |-> "put", trig |-> t,
                                    enabled |-> enabled]]
    /\ UNCHANGED <<stores, posting, trigPc, history>>

\* Mutant of SaveTrigger: disabling a trigger takes its query away.
SaveDropsQuery(c) ==
    /\ edit[c].pc = "put"
    /\ trigDoc' = [trigDoc EXCEPT ![edit[c].trig] = Doc(edit[c].enabled)]
    /\ queries' = IF edit[c].enabled THEN queries ELSE queries \ {edit[c].trig}
    /\ edit' = [edit EXCEPT ![c] = Idle]
    /\ UNCHANGED <<events, alerts, jobs, posting, trigPc,
                   deletedBefore, deletes, deleted, harmed>>
    /\ TrackArmed

\* TriggerDB.PutTrigger writes the whole document with an upsert: whatever
\* happened to it since it was read is overwritten, a deletion included.
SaveTrigger(c) ==
    /\ edit[c].pc = "put"
    /\ \/ trigDoc' = [trigDoc EXCEPT ![edit[c].trig] = Doc(edit[c].enabled)]
       \/ Failures /\ UNCHANGED trigDoc
    /\ edit' = [edit EXCEPT ![c] = Idle]
    /\ UNCHANGED <<events, queries, alerts, jobs, posting, trigPc,
                   deletedBefore, deletes, deleted, harmed>>
    /\ TrackArmed

\* DeleteTrigger first reads the trigger, for its percolation id.
DeleteTrigger(c, t) ==
    /\ edit[c] = Idle
    /\ trigDoc[t] # "absent"
    /\ edit' = [edit EXCEPT ![c] = [pc |-> "deleteDoc", trig |-> t,
                                    enabled |-> FALSE]]
    /\ deletes' = deletes \cup {t}
    /\ UNCHANGED <<stores, posting, trigPc, armed, deletedBefore, deleted,
                   harmed>>

\* The document goes first.  Somebody else may have deleted it meanwhile: the
\* answer is then 404.  A failing call ends the request with a panic that the
\* handler recovers from.
DeleteDoc(c) ==
    /\ edit[c].pc = "deleteDoc"
    /\ LET t == edit[c].trig
           gone == [trigDoc EXCEPT ![t] = "absent"]
       IN  \/ /\ trigDoc[t] # "absent"
              /\ trigDoc' = gone
              /\ edit' = [edit EXCEPT ![c].pc = "deleteQuery"]
              /\ UNCHANGED harmed
           \/ /\ trigDoc[t] = "absent"
              /\ edit' = [edit EXCEPT ![c] = Idle]
              /\ UNCHANGED <<trigDoc, harmed>>
           \/ /\ Failures
              /\ trigDoc' \in {trigDoc, gone}
              /\ edit' = [edit EXCEPT ![c] = Idle]
              /\ harmed' = harmed \cup {t}
    /\ UNCHANGED <<events, queries, alerts, jobs, posting, trigPc,
                   deletedBefore, deletes, deleted>>
    /\ TrackArmed

\* Mutant of DeleteQuery: 200 although the query is still there.
DeleteQuerySkipped(c) ==
    /\ edit[c].pc = "deleteQuery"
    /\ deleted' = deleted \cup {edit[c].trig}
    /\ edit' = [edit EXCEPT ![c] = Idle]
    /\ UNCHANGED <<stores, posting, trigPc, armed, deletedBefore, deletes,
                   harmed>>

\* Then the query; only if it was there is the answer 200.
DeleteQuery(c) ==
    /\ edit[c].pc = "deleteQuery"
    /\ LET t == edit[c].trig
       IN  \/ /\ t \in queries
              /\ queries' = queries \ {t}
              /\ deleted' = deleted \cup {t}
              /\ UNCHANGED harmed
           \/ /\ t \notin queries
              /\ UNCHANGED <<queries, deleted, harmed>>
           \/ /\ Failures
              /\ queries' \in {queries, queries \ {t}}
              /\ harmed' = harmed \cup {t}
              /\ UNCHANGED deleted
    /\ edit' = [edit EXCEPT ![c] = Idle]
    /\ UNCHANGED <<events, trigDoc, alerts, jobs, posting, trigPc,
                   deletedBefore, deletes>>
    /\ TrackArmed

-----------------------------------------------------------------------------
(* PostEvent: the handler, up to the start of the goroutines *)

\* The handler answers and is done.
Respond(e, status) ==
    /\ evPc' = [evPc EXCEPT ![e] = "done"]
    /\ evResp' = [evResp EXCEPT ![e] = status]

\* The event type is read.  An unknown event type is refused; a failing read
\* panics in EventTypeDB.GetOne, which the handler recovers from.
PostEvent(e) ==
    /\ evPc[e] = "idle"
    /\ \/ /\ evPc' = [evPc EXCEPT ![e] = "store"]
          /\ UNCHANGED evResp
       \/ Respond(e, "badRequest")
       \/ Failures /\ Respond(e, "panic")
    /\ armed' = [armed EXCEPT ![e] =
                    {t \in queries : trigDoc[t] = "enabled"}]
    /\ deletedBefore' = [deletedBefore EXCEPT ![e] = deleted]
    /\ UNCHANGED <<stores, gor, outcome, results, trigPc, edit, deletes,
                   deleted, harmed>>

\* EventDB.PostData: the data is verified against the event type, then stored.
\* The event type is read again for it; verifyEventReadyToPost panics if that
\* fails, and the handler recovers.
StoreEvent(e) ==
    /\ evPc[e] = "store"
    /\ \/ /\ events' = events \cup {e}
          /\ evPc' = [evPc EXCEPT ![e] = "percolate"]
          /\ UNCHANGED evResp
       \/ UNCHANGED events /\ Respond(e, "badRequest")
       \/ Failures /\ UNCHANGED events /\ Respond(e, "panic")
       \/ /\ Failures
          /\ events' = events \cup {e}
          /\ Respond(e, "badRequest")
    /\ UNCHANGED <<queries, trigDoc, alerts, jobs, gor, outcome, results,
                   trigPc, edit, history>>

\* The queries that match the event at this moment, and a goroutine for each.
PercolateEventData(e) ==
    /\ evPc[e] = "percolate"
    /\ \/ /\ gor' = [gor EXCEPT ![e] = [t \in Triggers |->
                        IF t \in queries /\ <<e, t>> \in Matches
                        THEN "exists" ELSE "none"]]
          /\ evPc' = [evPc EXCEPT ![e] = "wait"]
          /\ UNCHANGED evResp
       \/ /\ Failures
          /\ Respond(e, "badRequest")
          /\ UNCHANGED gor
    /\ UNCHANGED <<stores, outcome, results, trigPc, edit, history>>

-----------------------------------------------------------------------------
(* The process dies: every handler and goroutine with it, the stores stay. *)

Crash ==
    /\ evPc' = [e \in Events |->
                   IF evPc[e] \in ActivePosts THEN "lost" ELSE evPc[e]]
    /\ gor' = [e \in Events |-> [t \in Triggers |->
                   IF gor[e][t] \in ActiveGoroutines THEN "dead"
                   ELSE gor[e][t]]]
    /\ trigPc' = [t \in Triggers |->
                   IF trigPc[t] \in {"query", "doc", "rollback"} THEN "lost"
                   ELSE trigPc[t]]
    /\ edit' = [c \in Editors |-> Idle]
    /\ harmed' = harmed
                   \cup {t \in Triggers : trigPc[t] \in {"doc", "rollback"}}
                   \cup {t \in Triggers : \E c \in Editors :
                            edit[c].pc = "deleteQuery" /\ edit[c].trig = t}
    /\ UNCHANGED <<stores, evResp, outcome, results, armed, deletedBefore,
                   deletes, deleted>>

\* The process is killed from outside (its host, a redeploy).
Kill == Crashes /\ Crash

-----------------------------------------------------------------------------
(* The goroutine of trigger t in the PostEvent of e *)

Goto(e, t, state) == gor' = [gor EXCEPT ![e][t] = state]

\* The goroutine failed: next it stores a response in the shared map.
Fail(e, t, why) ==
    /\ Goto(e, t, "write")
    /\ outcome' = [outcome EXCEPT ![e][t] = why]

others == <<evPc, evResp, results, trigPc, edit, history>>

\* TriggerDB.GetOne, Index.GetByID: is there a document with this id?  If not,
\* GetByID returns an error, and the goroutine takes the error path.
TriggerExists(e, t) ==
    /\ gor[e][t] = "exists"
    /\ \/ trigDoc[t] # "absent" /\ Goto(e, t, "get") /\ UNCHANGED outcome
       \/ trigDoc[t] = "absent" /\ Fail(e, t, "missing")
       \/ Failures /\ Fail(e, t, "getError")
    /\ UNCHANGED <<stores, others>>

\* Mutant of GetTrigger: the event types are not compared.
GetTriggerAnyType(e, t) ==
    /\ gor[e][t] = "get"
    /\ trigDoc[t] # "absent"
    /\ Goto(e, t, IF trigDoc[t] = "enabled" THEN "auth" ELSE "skipped")
    /\ UNCHANGED <<stores, outcome, others>>

\* GetByID then reads the document: a disabled trigger and a trigger of another
\* event type are left alone.
GetTrigger(e, t) ==
    /\ gor[e][t] = "get"
    /\ trigDoc[t] # "absent"
    /\ Goto(e, t, IF trigDoc[t] = "enabled" /\ EventTypeOf[e] = TriggerTypeOf[t]
                  THEN "auth" ELSE "skipped")
    /\ UNCHANGED <<stores, outcome, others>>

\* If the document vanished since GetByID saw it, or the read fails, GetByID
\* dereferences a nil result.  The goroutine does not recover: the process dies.
GetTriggerPanics(e, t) ==
    /\ gor[e][t] = "get"
    /\ trigDoc[t] = "absent" \/ Failures
    /\ Crash

\* IDAM is asked whether the creator of the event type may create jobs.
RequestAuthZAccess(e, t) ==
    /\ gor[e][t] = "auth"
    /\ \/ Goto(e, t, "publish") /\ UNCHANGED outcome
       \/ Fail(e, t, "denied")
       \/ Failures /\ Fail(e, t, "idamError")
    /\ UNCHANGED <<stores, others>>

\* The job is published under a fresh job id.
SendToRabbitMQ(e, t) ==
    /\ gor[e][t] = "publish"
    /\ \/ /\ jobs' = jobs \cup {<<e, t>>}
          /\ Goto(e, t, "alert")
          /\ UNCHANGED outcome
       \/ /\ Failures
          /\ Fail(e, t, "publishError")
          /\ UNCHANGED jobs
    /\ UNCHANGED <<events, queries, trigDoc, alerts, others>>

\* Mutant of PostAlert: an alert that could not be stored is not reported.
PostAlertQuietly(e, t) ==
    /\ gor[e][t] = "alert"
    /\ \/ alerts' = [alerts EXCEPT ![e][t] = "stored"]
       \/ Failures /\ UNCHANGED alerts
    /\ Goto(e, t, "fired")
    /\ UNCHANGED <<events, queries, trigDoc, jobs, outcome, others>>

\* The alert is recorded.  A failing call may have stored it all the same.
PostAlert(e, t) ==
    /\ gor[e][t] = "alert"
    /\ \/ /\ alerts' = [alerts EXCEPT ![e][t] = "stored"]
          /\ Goto(e, t, "fired")
          /\ UNCHANGED outcome
       \/ /\ Failures
          /\ alerts' \in {alerts, [alerts EXCEPT ![e][t] = "stored"]}
          /\ Fail(e, t, "alertError")
    /\ UNCHANGED <<events, queries, trigDoc, jobs, others>>

\* results[triggerID] = ...: an unsynchronised write to a map that the other
\* goroutines of the event write too.
WriteResult(e, t) ==
    /\ gor[e][t] = "write"
    /\ results' = [results EXCEPT ![e] = @ \cup {t}]
    /\ Goto(e, t, "failed")
    /\ UNCHANGED <<stores, evPc, evResp, outcome, trigPc, edit, history>>

\* Two writes at the same time: one of the two entries is lost ...
LoseResult(e, t, u) ==
    /\ t # u
    /\ gor[e][t] = "write" /\ gor[e][u] = "write"
    /\ results' = [results EXCEPT ![e] = @ \cup {t}]
    /\ gor' = [gor EXCEPT ![e][t] = "failed", ![e][u] = "failed"]
    /\ UNCHANGED <<stores, evPc, evResp, outcome, trigPc, edit, history>>

\* ... or the Go runtime notices and aborts ("concurrent map writes").
AbortOnConcurrentWrite(e, t, u) ==
    /\ t # u
    /\ gor[e][t] = "write" /\ gor[e][u] = "write"
    /\ Crash

\* Mutant of FinishPostEvent: it does not wait for the goroutines.
FinishEarly(e) ==
    /\ evPc[e] = "wait"
    /\ \/ \E t \in results[e] : Respond(e, StatusOf(outcome[e][t]))
       \/ results[e] = {} /\ Respond(e, "created")
    /\ UNCHANGED <<stores, gor, outcome, results, trigPc, edit, history>>

\* Mutant of FinishPostEvent: one trigger that fired is good enough.
FinishIfAnyFired(e) ==
    /\ evPc[e] = "wait"
    /\ \A t \in Triggers : gor[e][t] \notin ActiveGoroutines
    /\ \/ \E t \in results[e] : Respond(e, StatusOf(outcome[e][t]))
       \/ /\ results[e] = {} \/ \E t \in Triggers : gor[e][t] = "fired"
          /\ Respond(e, "created")
    /\ UNCHANGED <<stores, gor, outcome, results, trigPc, edit, history>>

\* Mutant of FinishPostEvent: the early returns forget waitGroup.Done.
FinishMissesDone(e) ==
    /\ evPc[e] = "wait"
    /\ \A t \in Triggers : gor[e][t] \in {"none", "fired", "failed"}
    /\ \/ \E t \in results[e] : Respond(e, StatusOf(outcome[e][t]))
       \/ results[e] = {} /\ Respond(e, "created")
    /\ UNCHANGED <<stores, gor, outcome, results, trigPc, edit, history>>

\* waitGroup.Wait returns; any entry of results becomes the response (the
\* iteration order of a map is random), and 201 if there is none.
FinishPostEvent(e) ==
    /\ evPc[e] = "wait"
    /\ \A t \in Triggers : gor[e][t] \notin ActiveGoroutines
    /\ \/ \E t \in results[e] : Respond(e, StatusOf(outcome[e][t]))
       \/ results[e] = {} /\ Respond(e, "created")
    /\ UNCHANGED <<stores, gor, outcome, results, trigPc, edit, history>>

-----------------------------------------------------------------------------
\* A client deletes an alert.
DeleteAlert(e, t) ==
    /\ alerts[e][t] = "stored"
    /\ alerts' = [alerts EXCEPT ![e][t] = "deleted"]
    /\ UNCHANGED <<events, queries, trigDoc, jobs, posting, trigPc, edit,
                   history>>

TriggerPostStep(t) ==
    AddPercolationQuery(t) \/ StoreTrigger(t) \/ RollbackQuery(t)

EditStep(c) == SaveTrigger(c) \/ DeleteDoc(c) \/ DeleteQuery(c)

GoroutineStep(e, t) ==
    \/ TriggerExists(e, t) \/ GetTrigger(e, t) \/ GetTriggerPanics(e, t)
    \/ RequestAuthZAccess(e, t) \/ SendToRabbitMQ(e, t) \/ PostAlert(e, t)
    \/ WriteResult(e, t)

Race(e) == \E t, u \in Triggers :
              LoseResult(e, t, u) \/ AbortOnConcurrentWrite(e, t, u)

EventStep(e) == StoreEvent(e) \/ PercolateEventData(e) \/ FinishPostEvent(e)

Next ==
    \/ \E t \in Triggers : PostTrigger(t) \/ TriggerPostStep(t)
    \/ \E c \in Editors, t \in Triggers :
          \/ \E enabled \in BOOLEAN : PutTrigger(c, t, enabled)
          \/ DeleteTrigger(c, t)
    \/ \E c \in Editors : EditStep(c)
    \/ \E e \in Events : PostEvent(e) \/ EventStep(e) \/ Race(e)
    \/ \E e \in Events, t \in Triggers : GoroutineStep(e, t) \/ DeleteAlert(e, t)
    \/ Kill

Spec == Init /\ [][Next]_vars

\* Clients need not send anything; once a request is being served the Go
\* scheduler runs its handler and goroutines, and every call returns.
Fairness ==
    /\ \A t \in Triggers : WF_vars(TriggerPostStep(t))
    /\ \A c \in Editors : WF_vars(EditStep(c))
    /\ \A e \in Events : WF_vars(EventStep(e))
    /\ \A e \in Events, t \in Triggers : WF_vars(GoroutineStep(e, t))

FairSpec == Spec /\ Fairness

-----------------------------------------------------------------------------
(* Properties *)

\* A 201 for an event means the whole fan-out happened (Service.go:841-854):
\* every trigger of the event's type that matches it and was stored, enabled
\* and percolated since the request began has its job published, and no job
\* went out without its alert, whatever was edited, failed or raced meanwhile.
CreatedMeansFired ==
    \A e \in Events, t \in Triggers :
        evResp[e] = "created" =>
            /\ ( /\ t \in armed[e]
                 /\ <<e, t>> \in Matches
                 /\ EventTypeOf[e] = TriggerTypeOf[t] ) => <<e, t>> \in jobs
            /\ <<e, t>> \in jobs => alerts[e][t] # "none"

\* An alert is written only after its job was published, and a job only for a
\* stored event and a trigger of the event's type (Service.go:785, 824-835).
AlertsFollowJobs ==
    \A e \in Events, t \in Triggers :
        /\ alerts[e][t] # "none" => <<e, t>> \in jobs
        /\ <<e, t>> \in jobs =>
              e \in events /\ EventTypeOf[e] = TriggerTypeOf[t]

\* A trigger whose deletion was answered 200 before an event was posted does
\* not fire for that event, even if a concurrent PutTrigger wrote the document
\* back after the deletion.
DeletedStaysSilent ==
    \A e \in Events : \A t \in deletedBefore[e] : <<e, t>> \notin jobs

\* Nothing of a PostEvent goes on after its response (waitGroup.Wait).
NothingAfterResponse ==
    \A e \in Events, t \in Triggers :
        evPc[e] \notin ActivePosts => gor[e][t] \notin ActiveGoroutines

\* A failed goroutine is reported: the response of the event is an error, even
\* if the write to the results map raced with another one and was lost.
FailureReported ==
    \A e \in Events, t \in Triggers :
        evPc[e] = "done" /\ gor[e][t] = "failed" => evResp[e] # "created"

\* The two stores of a trigger agree, up to an update in progress: a query
\* without document belongs to a PostTrigger or DeleteTrigger at work, a
\* document without query to a trigger somebody began to delete; everything
\* else takes a failed call or a crash.
StoresAgree ==
    \A t \in Triggers \ harmed :
        /\ t \in queries /\ trigDoc[t] = "absent" =>
              \/ trigPc[t] \in {"doc", "rollback"}
              \/ \E c \in Editors :
                    edit[c].pc = "deleteQuery" /\ edit[c].trig = t
        /\ t \notin queries /\ trigDoc[t] # "absent" => t \in deletes

\* A trigger answered with 201 stays armed until somebody deletes it: no
\* rollback, edit, crash or failure elsewhere takes its query or document away.
CreatedStaysArmed ==
    \A t \in Triggers :
        trigPc[t] = "created" /\ t \notin deletes =>
            t \in queries /\ trigDoc[t] # "absent"

\* Every PostEvent that is being served is answered, unless the process dies.
EventsAnswered ==
    \A e \in Events : evPc[e] = "store" ~> evPc[e] \in {"done", "lost"}

\* Service.go:769: "Don't fail for this, just log something and continue to the
\* next trigger id" -- if the only thing that went wrong is that matched
\* triggers do not exist, the event is created.
MissingTriggerIsNoFailure ==
    \A e \in Events :
        ( /\ evPc[e] = "done" /\ e \in events
          /\ \A t \in Triggers : outcome[e][t] \in {"nil", "missing"} )
        => evResp[e] = "created"

-----------------------------------------------------------------------------
(* The inductive invariant behind the properties above *)

\* Nobody can have read t: it has no document and no editor works on it.
Unborn(t) == trigDoc[t] = "absent" /\ \A c \in Editors : edit[c].trig # t

Deleting(t) ==
    \E c \in Editors : edit[c].pc = "deleteQuery" /\ edit[c].trig = t

\* Of one trigger: how far its PostTrigger got tells what is in the two stores.
TriggerInv(t) ==
    /\ trigPc[t] \in {"idle", "query"} => Unborn(t) /\ t \notin queries
    /\ trigPc[t] = "doc" => Unborn(t) /\ t \in queries
    /\ trigPc[t] = "rollback" /\ t \notin harmed => Unborn(t)
    /\ trigPc[t] \in {"rejected", "lost"} /\ t \notin harmed =>
          Unborn(t) /\ t \notin queries
    /\ trigPc[t] = "created" /\ t \notin deletes =>
          t \in queries /\ trigDoc[t] # "absent"
    /\ trigPc[t] = "created" /\ t \notin harmed =>
          (t \in queries /\ trigDoc[t] = "absent" => Deleting(t))
    /\ t \in deleted => t \notin queries /\ trigPc[t] \notin {"idle", "query"}

EditInv ==
    \A c \in Editors :
        edit[c].pc \in {"deleteDoc", "deleteQuery"} => edit[c].trig \in deletes

ArmedInv ==
    \A e \in Events : \A t \in armed[e] :
        t \in queries /\ trigDoc[t] = "enabled"

StoreInv == (\A t \in Triggers : TriggerInv(t)) /\ EditInv /\ ArmedInv

\* Of one event and one trigger: how far the goroutine got tells what was sent
\* and recorded.
FireInv(e, t) ==
    /\ evPc[e] \in {"idle", "store", "percolate"} => gor[e][t] = "none"
    /\ gor[e][t] \in ActiveGoroutines => evPc[e] = "wait"
    /\ gor[e][t] = "dead" => evPc[e] = "lost"
    /\ evPc[e] \in {"percolate", "wait"} => e \in events
    /\ gor[e][t] \in {"auth", "publish", "alert"} =>
          EventTypeOf[e] = TriggerTypeOf[t]
    /\ gor[e][t] \in {"none", "exists", "get", "auth", "publish", "skipped"} =>
          <<e, t>> \notin jobs
    /\ gor[e][t] \in {"alert", "fired"} => <<e, t>> \in jobs
    /\ gor[e][t] = "fired" => alerts[e][t] # "none"
    /\ gor[e][t] = "failed" => results[e] # {}
    /\ gor[e][t] = "skipped" /\ t \in armed[e] =>
          EventTypeOf[e] # TriggerTypeOf[t]
    /\ alerts[e][t] # "none" => <<e, t>> \in jobs
    /\ <<e, t>> \in jobs => e \in events /\ EventTypeOf[e] = TriggerTypeOf[t]
    /\ t \in deletedBefore[e] => t \in deleted /\ gor[e][t] = "none"
    /\ evPc[e] = "wait" /\ t \in armed[e] /\ <<e, t>> \in Matches =>
          gor[e][t] # "none"
    /\ evResp[e] = "created" =>
          /\ evPc[e] = "done"
          /\ gor[e][t] \in {"none", "fired", "skipped"}
          /\ t \in armed[e] /\ <<e, t>> \in Matches => gor[e][t] # "none"
    /\ evPc[e] # "done" => evResp[e] = "none"

FiringInv == \A e \in Events, t \in Triggers : FireInv(e, t)

\* Of one event: an unanswered one has no response, and one that fires is stored.
AnswerInv ==
    \A e \in Events :
        /\ evPc[e] # "done" => evResp[e] = "none"
        /\ evPc[e] \in {"percolate", "wait"} => e \in events

-----------------------------------------------------------------------------
(* TriggerFiring implements FiringContract. *)

firingOf ==
    [e \in Events |-> [t \in Triggers |->
        IF alerts[e][t] # "none" THEN "alerted"
        ELSE IF <<e, t>> \in jobs THEN "sent" ELSE "no"]]

answerOf ==
    [e \in Events |->
        IF evPc[e] = "lost" THEN "lost"
        ELSE IF evResp[e] \in {"none", "created"} THEN evResp[e] ELSE "error"]

Contract == INSTANCE FiringContract
                WITH accepted <- events, firing <- firingOf, answer <- answerOf

\* The steps of PostEvent and of its goroutines, under every interleaving with
\* edits, failures and crashes, are steps of the contract (or invisible to it).
HonoursContract == Contract!Spec
=============================================================================
