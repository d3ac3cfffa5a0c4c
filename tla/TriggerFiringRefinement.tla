---------------------- MODULE TriggerFiringRefinement ----------------------
(***************************************************************************)
(* TriggerFiring implements FiringContract, for any constants: every step  *)
(* of a handler, a goroutine, an editor or a crash is a step of the        *)
(* contract or leaves what the contract sees alone.                        *)
(***************************************************************************)
EXTENDS TriggerFiringProofs

-----------------------------------------------------------------------------
(* An unanswered event has no response, and one that fires is stored. *)

\* Of the steps, only those of the handler of an event touch what AnswerInv
\* says.
LEMMA AnswerNext ==
    ASSUME TypeOK, AnswerInv, [Next]_vars PROVE AnswerInv'
<1>1. CASE UNCHANGED <<events, evPc, evResp>>
  BY <1>1 DEF AnswerInv
<1>2. ASSUME Crash PROVE AnswerInv'
  BY <1>2 DEF Crash, AnswerInv, TypeOK, ActivePosts, stores
<1>3. ASSUME NEW e \in Events, PostEvent(e) \/ EventStep(e) PROVE AnswerInv'
  BY <1>3 DEF PostEvent, EventStep, StoreEvent, PercolateEventData,
     FinishPostEvent, Respond, AnswerInv, TypeOK, stores
<1>4. ASSUME NEW t \in Triggers, PostTrigger(t) \/ TriggerPostStep(t)
      PROVE  UNCHANGED <<events, evPc, evResp>>
  BY <1>4 DEF TriggerPostStep, PostTrigger, AddPercolationQuery, StoreTrigger,
     RollbackQuery, stores, posting
<1>5. ASSUME NEW c \in Editors, NEW t \in Triggers,
             (\E en \in BOOLEAN : PutTrigger(c, t, en)) \/ DeleteTrigger(c, t)
      PROVE  UNCHANGED <<events, evPc, evResp>>
  BY <1>5 DEF PutTrigger, DeleteTrigger, stores, posting
<1>6. ASSUME NEW c \in Editors, EditStep(c)
      PROVE  UNCHANGED <<events, evPc, evResp>>
  BY <1>6 DEF EditStep, SaveTrigger, DeleteDoc, DeleteQuery, posting
<1>7. ASSUME NEW e \in Events, NEW t \in Triggers,
             GoroutineStep(e, t) \/ DeleteAlert(e, t)
      PROVE  Crash \/ UNCHANGED <<events, evPc, evResp>>
  BY <1>7 DEF GoroutineStep, TriggerExists, GetTrigger, GetTriggerPanics,
     RequestAuthZAccess, SendToRabbitMQ, PostAlert, WriteResult, DeleteAlert,
     stores, posting, others
<1>8. ASSUME NEW e \in Events, Race(e)
      PROVE  Crash \/ UNCHANGED <<events, evPc, evResp>>
  BY <1>8 DEF Race, LoseResult, AbortOnConcurrentWrite, stores
<1>9. CASE UNCHANGED vars
  BY <1>1, <1>9 DEF vars, stores, posting
<1> QED BY <1>1, <1>2, <1>3, <1>4, <1>5, <1>6, <1>7, <1>8, <1>9 DEF Next, Kill

\* AnswerInv holds in every reachable state.
LEMMA AnswerCorrect == Spec => []AnswerInv
<1>1. Init => AnswerInv
  BY DEF Init, AnswerInv
<1>2. TypeOK /\ AnswerInv /\ [Next]_vars => AnswerInv'
  BY AnswerNext
<1> QED BY <1>1, <1>2, TypeCorrect, PTL DEF Spec

-----------------------------------------------------------------------------
(* What a step does to the three variables of the contract *)

\* A step that leaves the stores and responses alone is invisible.
LEMMA Invisible ==
    ASSUME UNCHANGED <<events, alerts, jobs, evPc, evResp>>
    PROVE  UNCHANGED <<events, firingOf, answerOf>>
BY DEF firingOf, answerOf

\* firingOf depends on alerts and jobs only.
LEMMA SameFiring ==
    ASSUME UNCHANGED <<alerts, jobs>> PROVE UNCHANGED firingOf
BY DEF firingOf

\* The death of the process leaves the clients at work without an answer.
LEMMA CrashLoses ==
    ASSUME TypeOK, AnswerInv, Crash PROVE Contract!Lose
<1> DEFINE lost == {e \in Events : evPc[e] \in ActivePosts}
<1>1. UNCHANGED <<events, alerts, jobs, evResp>>
  BY DEF Crash, stores
<1>2. \A e \in lost : answerOf[e] = "none"
  BY DEF answerOf, AnswerInv, ActivePosts
<1>3. lost \in SUBSET {e \in Events : answerOf[e] = "none"}
  BY <1>2
<1>4. answerOf' = [e \in Events |-> IF e \in lost THEN "lost" ELSE answerOf[e]]
  <2>1. \A e \in Events : evPc'[e] = IF evPc[e] \in ActivePosts THEN "lost"
                                     ELSE evPc[e]
    BY DEF Crash
  <2> QED BY <1>1, <2>1 DEF answerOf
<1>5. UNCHANGED firingOf
  BY <1>1, SameFiring
<1> QED BY <1>1, <1>3, <1>4, <1>5 DEF Contract!Lose

\* An error response is an error of the contract.
LEMMA RespondError ==
    ASSUME TypeOK, AnswerInv, NEW e \in Events, NEW status,
           evPc[e] \notin {"done", "lost"},
           Respond(e, status), status \notin {"none", "created"},
           events' \in {events, events \cup {e}}, UNCHANGED <<alerts, jobs>>
    PROVE  Contract!AnswerError(e)
<1>1. answerOf[e] = "none"
  BY DEF answerOf, AnswerInv
<1>2. answerOf' = [answerOf EXCEPT ![e] = "error"]
  BY DEF answerOf, Respond, TypeOK
<1> QED BY <1>1, <1>2, SameFiring DEF Contract!AnswerError

\* PostEvent begins, or refuses.
LEMMA PostEventStep ==
    ASSUME TypeOK, AnswerInv, NEW e \in Events, PostEvent(e)
    PROVE  Contract!AnswerError(e) \/ UNCHANGED <<events, firingOf, answerOf>>
<1>1. UNCHANGED <<events, alerts, jobs>> /\ evPc[e] = "idle"
  BY DEF PostEvent, stores
<1>2. CASE evPc' = [evPc EXCEPT ![e] = "store"] /\ UNCHANGED evResp
  <2>1. answerOf' = answerOf
    BY <1>1, <1>2 DEF answerOf, TypeOK
  <2> QED BY <1>1, <2>1, SameFiring
<1>3. CASE Respond(e, "badRequest") \/ Respond(e, "panic")
  BY <1>1, <1>3, RespondError
<1> QED BY <1>2, <1>3 DEF PostEvent

\* The event is stored: accepted, or an error that may have stored it.
LEMMA StoreEventStep ==
    ASSUME TypeOK, AnswerInv, NEW e \in Events, StoreEvent(e)
    PROVE  Contract!Accept(e) \/ Contract!AnswerError(e)
<1>1. UNCHANGED <<alerts, jobs>> /\ evPc[e] = "store"
  BY DEF StoreEvent
<1>2. CASE /\ events' = events \cup {e} /\ UNCHANGED evResp
           /\ evPc' = [evPc EXCEPT ![e] = "percolate"]
  <2>1. answerOf' = answerOf /\ answerOf[e] = "none"
    BY <1>1, <1>2 DEF answerOf, TypeOK, AnswerInv
  <2> QED BY <1>1, <1>2, <2>1, SameFiring DEF Contract!Accept
<1>3. CASE Respond(e, "badRequest") /\ events' \in {events, events \cup {e}}
  BY <1>1, <1>3, RespondError
<1>4. CASE Respond(e, "panic") /\ UNCHANGED events
  BY <1>1, <1>4, RespondError
<1> QED BY <1>2, <1>3, <1>4 DEF StoreEvent

\* The goroutines start, or percolation fails.
LEMMA PercolateStep ==
    ASSUME TypeOK, AnswerInv, NEW e \in Events, PercolateEventData(e)
    PROVE  Contract!AnswerError(e) \/ UNCHANGED <<events, firingOf, answerOf>>
<1>1. UNCHANGED <<events, alerts, jobs>> /\ evPc[e] = "percolate"
  BY DEF PercolateEventData, stores
<1>2. CASE evPc' = [evPc EXCEPT ![e] = "wait"] /\ UNCHANGED evResp
  <2>1. answerOf' = answerOf
    BY <1>1, <1>2 DEF answerOf, TypeOK
  <2> QED BY <1>1, <2>1, SameFiring
<1>3. CASE Respond(e, "badRequest")
  BY <1>1, <1>3, RespondError
<1> QED BY <1>2, <1>3 DEF PercolateEventData

\* The response: 201 only if no trigger is left between its job and its alert.
LEMMA FinishStep ==
    ASSUME TypeOK, AnswerInv, FiringInv, FiringInv', NEW e \in Events,
           FinishPostEvent(e)
    PROVE  Contract!AnswerError(e) \/ Contract!AnswerCreated(e)
<1>1. UNCHANGED <<events, alerts, jobs>> /\ evPc[e] = "wait"
  BY DEF FinishPostEvent, stores
<1>2. CASE Respond(e, "created")
  <2>1. answerOf[e] = "none" /\ e \in events
    BY <1>1 DEF answerOf, AnswerInv
  <2>2. answerOf' = [answerOf EXCEPT ![e] = "created"]
    BY <1>2 DEF answerOf, Respond, TypeOK
  <2>3. evResp'[e] = "created"
    BY <1>2 DEF Respond, TypeOK
  <2>4. ASSUME NEW t \in Triggers PROVE firingOf[e][t] # "sent"
    <3>1. FireInv(e, t)'
      BY DEF FiringInv
    <3>2. <<e, t>> \in jobs => alerts[e][t] # "none"
      BY <1>1, <2>3, <3>1 DEF FireInv
    <3> QED BY <3>2 DEF firingOf
  <2> QED BY <1>1, <2>1, <2>2, <2>4, SameFiring DEF Contract!AnswerCreated
<1>3. ASSUME NEW t \in results[e], Respond(e, StatusOf(outcome[e][t]))
      PROVE  Contract!AnswerError(e)
  <2>1. StatusOf(outcome[e][t]) \notin {"none", "created"}
    BY DEF StatusOf
  <2> QED BY <1>1, <1>3, <2>1, RespondError
<1> QED BY <1>2, <1>3 DEF FinishPostEvent

\* The contract's view of the firings is a table over events and triggers.
LEMMA FiringShape ==
    ASSUME NEW e \in Events, NEW t \in Triggers, NEW v,
           firingOf'[e][t] = v,
           \A f \in Events, s \in Triggers :
              f # e \/ s # t => firingOf'[f][s] = firingOf[f][s]
    PROVE  firingOf' = [firingOf EXCEPT ![e][t] = v]
<1> DEFINE row(f) == [s \in Triggers |-> firingOf'[f][s]]
<1>1. firingOf' = [f \in Events |-> row(f)]
  BY DEF firingOf
<1>2. firingOf = [f \in Events |-> [s \in Triggers |-> firingOf[f][s]]]
  BY DEF firingOf
<1> QED BY <1>1, <1>2

\* A goroutine sends a job once, and records an alert for a job it sent.
LEMMA GoroutineContract ==
    ASSUME TypeOK, AnswerInv, FiringInv, NEW e \in Events, NEW t \in Triggers,
           GoroutineStep(e, t)
    PROVE  \/ Contract!Send(e, t) \/ Contract!Record(e, t) \/ Contract!Lose
           \/ UNCHANGED <<events, firingOf, answerOf>>
<1>f. FireInv(e, t)
  BY DEF FiringInv
<1>1. CASE SendToRabbitMQ(e, t) /\ jobs' = jobs \cup {<<e, t>>}
  <2>1. gor[e][t] = "publish" /\ UNCHANGED <<events, alerts, evPc, evResp>>
    BY <1>1 DEF SendToRabbitMQ, others
  <2>2. /\ evPc[e] = "wait" /\ <<e, t>> \notin jobs /\ alerts[e][t] = "none"
        /\ e \in events /\ evResp[e] = "none"
    BY <1>f, <2>1 DEF FireInv, ActiveGoroutines
  <2>3. answerOf[e] = "none" /\ UNCHANGED answerOf
    BY <2>1, <2>2 DEF answerOf
  <2>4. firingOf[e][t] = "no"
    BY <2>2 DEF firingOf
  <2>5. /\ firingOf'[e][t] = "sent"
        /\ \A f \in Events, s \in Triggers :
              f # e \/ s # t => firingOf'[f][s] = firingOf[f][s]
    <3>1. <<e, t>> \in jobs'
      BY <1>1
    <3>2. \A f \in Events, s \in Triggers :
             f # e \/ s # t => (<<f, s>> \in jobs' <=> <<f, s>> \in jobs)
      BY <1>1
    <3> QED BY <2>1, <2>2, <3>1, <3>2 DEF firingOf
  <2>6. firingOf' = [firingOf EXCEPT ![e][t] = "sent"]
    BY <2>5, FiringShape
  <2> QED BY <2>1, <2>2, <2>3, <2>4, <2>6 DEF Contract!Send
<1>2. CASE /\ PostAlert(e, t)
           /\ alerts' = [alerts EXCEPT ![e][t] = "stored"]
  <2>1. gor[e][t] = "alert" /\ UNCHANGED <<events, jobs, evPc, evResp>>
    BY <1>2 DEF PostAlert, others
  <2>2. evPc[e] = "wait" /\ <<e, t>> \in jobs /\ evResp[e] = "none"
    BY <1>f, <2>1 DEF FireInv, ActiveGoroutines
  <2>3. answerOf[e] = "none" /\ UNCHANGED answerOf
    BY <2>1, <2>2 DEF answerOf
  <2>4. /\ alerts'[e][t] = "stored"
        /\ \A f \in Events, s \in Triggers :
              f # e \/ s # t => alerts'[f][s] = alerts[f][s]
    BY <1>2 DEF TypeOK
  <2>5. CASE alerts[e][t] = "none"
    <3>1. firingOf[e][t] = "sent"
      BY <2>2, <2>5 DEF firingOf
    <3>2. /\ firingOf'[e][t] = "alerted"
          /\ \A f \in Events, s \in Triggers :
                f # e \/ s # t => firingOf'[f][s] = firingOf[f][s]
      BY <2>1, <2>4 DEF firingOf
    <3>3. firingOf' = [firingOf EXCEPT ![e][t] = "alerted"]
      BY <3>2, FiringShape
    <3> QED BY <2>1, <2>3, <3>1, <3>3 DEF Contract!Record
  <2>6. CASE alerts[e][t] # "none"
    <3>1. firingOf' = firingOf
      BY <2>1, <2>4, <2>6 DEF firingOf
    <3> QED BY <2>1, <2>3, <3>1
  <2> QED BY <2>5, <2>6
<1>3. CASE UNCHANGED <<events, alerts, jobs, evPc, evResp>>
  BY <1>3, Invisible
<1>4. CASE Crash
  BY <1>4, CrashLoses
<1> QED BY <1>1, <1>2, <1>3, <1>4 DEF GoroutineStep, TriggerExists, GetTrigger,
    GetTriggerPanics, RequestAuthZAccess, SendToRabbitMQ, PostAlert, WriteResult,
    stores, others

\* Trigger posts, edits and the write race are invisible or lose answers, and
\* so is the deletion of an alert.
LEMMA OtherSteps ==
    ASSUME TypeOK, AnswerInv,
           \/ \E t \in Triggers : PostTrigger(t) \/ TriggerPostStep(t)
           \/ \E c \in Editors, t \in Triggers :
                 \/ \E en \in BOOLEAN : PutTrigger(c, t, en)
                 \/ DeleteTrigger(c, t)
           \/ \E c \in Editors : EditStep(c)
           \/ \E e \in Events : Race(e)
           \/ Kill
    PROVE  Contract!Lose \/ UNCHANGED <<events, firingOf, answerOf>>
<1>1. Crash \/ UNCHANGED <<events, alerts, jobs, evPc, evResp>>
  <2>1. CASE \E t \in Triggers : PostTrigger(t) \/ TriggerPostStep(t)
    BY <2>1 DEF TriggerPostStep, PostTrigger, AddPercolationQuery, StoreTrigger,
       RollbackQuery, stores, posting
  <2>2. CASE \E c \in Editors, t \in Triggers :
                \/ \E en \in BOOLEAN : PutTrigger(c, t, en)
                \/ DeleteTrigger(c, t)
    BY <2>2 DEF PutTrigger, DeleteTrigger, stores, posting
  <2>3. CASE \E c \in Editors : EditStep(c)
    BY <2>3 DEF EditStep, SaveTrigger, DeleteDoc, DeleteQuery, stores, posting
  <2>4. CASE \E e \in Events : Race(e)
    BY <2>4 DEF Race, LoseResult, AbortOnConcurrentWrite, stores, posting
  <2>5. CASE Kill
    BY <2>5 DEF Kill
  <2> QED BY <2>1, <2>2, <2>3, <2>4, <2>5
<1> QED BY <1>1, Invisible, CrashLoses

\* A deleted alert stays recorded for the contract.
LEMMA DeleteAlertStep ==
    ASSUME TypeOK, NEW e \in Events, NEW t \in Triggers, DeleteAlert(e, t)
    PROVE  UNCHANGED <<events, firingOf, answerOf>>
<1>1. /\ alerts[e][t] = "stored" /\ alerts'[e][t] = "deleted"
      /\ \A f \in Events, s \in Triggers :
            f # e \/ s # t => alerts'[f][s] = alerts[f][s]
      /\ UNCHANGED <<events, jobs, evPc, evResp>>
  BY DEF DeleteAlert, TypeOK, posting
<1>2. firingOf' = firingOf
  BY <1>1 DEF firingOf
<1> QED BY <1>1, <1>2 DEF answerOf

\* TriggerFiring implements FiringContract: whatever fails, races or crashes, a
\* job is sent at most once per event and trigger, only for an accepted event
\* and before its answer, and "created" leaves no job without alert.
THEOREM ContractHonoured == Spec => HonoursContract
<1>1. Init => Contract!Init
  BY DEF Init, Contract!Init, firingOf, answerOf
<1>2. TypeOK /\ AnswerInv /\ FiringInv /\ FiringInv' /\ [Next]_vars
         => [Contract!Next]_(Contract!contract)
  <2> SUFFICES ASSUME TypeOK, AnswerInv, FiringInv, FiringInv', [Next]_vars
               PROVE  Contract!Next \/ UNCHANGED <<events, firingOf, answerOf>>
    BY DEF Contract!contract
  <2>1. CASE UNCHANGED vars
    BY <2>1, Invisible DEF vars, stores, posting
  <2>2. CASE Next
    BY <2>2, PostEventStep, StoreEventStep, PercolateStep, FinishStep,
       GoroutineContract, OtherSteps, DeleteAlertStep
       DEF Next, EventStep, Contract!Next
  <2> QED BY <2>1, <2>2
<1> QED BY <1>1, <1>2, FiringCorrect, AnswerCorrect, PTL
        DEF Spec, HonoursContract, Contract!Spec
=============================================================================
