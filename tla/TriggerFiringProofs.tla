------------------------ MODULE TriggerFiringProofs ------------------------
(***************************************************************************)
(* Theorems about TriggerFiring, for any sets of events, triggers and      *)
(* editors, any matching of conditions, with and without failures and      *)
(* crashes.                                                                *)
(***************************************************************************)
EXTENDS TriggerFiring, TLAPS

\* Every status a failed goroutine stores is a response of PostEvent.
LEMMA StatusIsResponse == ASSUME NEW o PROVE StatusOf(o) \in Responses
BY DEF StatusOf, Responses

\* The empty indexes at the first start have the right types.
LEMMA TypeInit == Init => TypeOK
BY DEF Init, TypeOK, Requests, DocStates, EventPcs, Responses,
       GoroutineStates, Outcomes, TriggerPcs

\* Steps of PostTrigger preserve the types.
LEMMA TypeTriggerStep ==
    ASSUME TypeOK, NEW t \in Triggers,
           PostTrigger(t) \/ TriggerPostStep(t)
    PROVE  TypeOK'
<1>1. CASE PostTrigger(t)
  BY <1>1 DEF TypeOK, PostTrigger, TriggerPcs, stores, posting, history
<1>2. CASE AddPercolationQuery(t)
  BY <1>2 DEF TypeOK, AddPercolationQuery, TriggerPcs, posting
<1>3. CASE StoreTrigger(t)
  <2>1. \A en \in BOOLEAN : Doc(en) \in DocStates
    BY DEF Doc, DocStates
  <2>2. trigDoc' \in [Triggers -> DocStates]
    BY <1>3, <2>1 DEF TypeOK, StoreTrigger
  <2>3. trigPc' \in [Triggers -> TriggerPcs] /\ harmed' \subseteq Triggers
    BY <1>3 DEF TypeOK, StoreTrigger, TriggerPcs
  <2> QED BY <1>3, <2>2, <2>3 DEF TypeOK, StoreTrigger, posting
<1>4. CASE RollbackQuery(t)
  BY <1>4 DEF TypeOK, RollbackQuery, TriggerPcs, TrackArmed, posting
<1> QED BY <1>1, <1>2, <1>3, <1>4 DEF TriggerPostStep

\* An editor that is not idle works on a trigger.
LEMMA EditorBusy ==
    ASSUME TypeOK, NEW c \in Editors, edit[c].pc # "idle"
    PROVE  /\ edit[c] \in [pc : EditPcs, trig : Triggers, enabled : BOOLEAN]
           /\ [edit EXCEPT ![c] = Idle] \in [Editors -> Requests]
BY DEF TypeOK, Requests, Idle

\* Steps of PutTrigger and DeleteTrigger preserve the types.
LEMMA TypeEditStep ==
    ASSUME TypeOK, NEW c \in Editors,
           \/ \E t \in Triggers : \/ \E en \in BOOLEAN : PutTrigger(c, t, en)
                                  \/ DeleteTrigger(c, t)
           \/ EditStep(c)
    PROVE  TypeOK'
<1>1. ASSUME NEW t \in Triggers, NEW en \in BOOLEAN, PutTrigger(c, t, en)
      PROVE  TypeOK'
  BY <1>1 DEF TypeOK, PutTrigger, Requests, EditPcs, stores, posting, history
<1>2. ASSUME NEW t \in Triggers, DeleteTrigger(c, t)
      PROVE  TypeOK'
  BY <1>2 DEF TypeOK, DeleteTrigger, Requests, EditPcs, stores, posting
<1>3. CASE SaveTrigger(c)
  <2>1. trigDoc' \in [Triggers -> DocStates]
    BY <1>3 DEF TypeOK, SaveTrigger, DocStates, Doc
  <2>2. edit' \in [Editors -> Requests]
    BY <1>3, EditorBusy DEF SaveTrigger
  <2> QED BY <1>3, <2>1, <2>2 DEF TypeOK, SaveTrigger, TrackArmed, posting
<1>4. CASE DeleteDoc(c)
  <2>1. edit[c] \in [pc : EditPcs, trig : Triggers, enabled : BOOLEAN]
    BY <1>4, EditorBusy DEF DeleteDoc
  <2>2. trigDoc' \in [Triggers -> DocStates] /\ harmed' \subseteq Triggers
    BY <1>4, <2>1 DEF TypeOK, DeleteDoc, DocStates
  <2>3. [edit EXCEPT ![c].pc = "deleteQuery"] \in [Editors -> Requests]
    BY <2>1 DEF TypeOK, Requests, EditPcs
  <2>4. edit' \in [Editors -> Requests]
    BY <1>4, <2>3, EditorBusy DEF DeleteDoc
  <2> QED BY <1>4, <2>2, <2>4 DEF TypeOK, DeleteDoc, TrackArmed, posting
<1>5. CASE DeleteQuery(c)
  <2>1. edit[c] \in [pc : EditPcs, trig : Triggers, enabled : BOOLEAN]
    BY <1>5, EditorBusy DEF DeleteQuery
  <2>2. /\ queries' \subseteq Triggers
        /\ deleted' \subseteq Triggers
        /\ harmed' \subseteq Triggers
    BY <1>5, <2>1 DEF TypeOK, DeleteQuery
  <2>3. edit' \in [Editors -> Requests]
    BY <1>5, EditorBusy DEF DeleteQuery
  <2> QED BY <1>5, <2>2, <2>3 DEF TypeOK, DeleteQuery, TrackArmed, posting
<1> QED BY <1>1, <1>2, <1>3, <1>4, <1>5 DEF EditStep

\* So does the death of the process,
LEMMA TypeCrash == ASSUME TypeOK, Crash PROVE TypeOK'
BY DEF TypeOK, Crash, Requests, stores, EventPcs, GoroutineStates, TriggerPcs

\* a step of the handler of PostEvent,
LEMMA TypeEventStep ==
    ASSUME TypeOK, NEW e \in Events, PostEvent(e) \/ EventStep(e)
    PROVE  TypeOK'
<1>1. CASE PostEvent(e)
  BY <1>1 DEF TypeOK, PostEvent, EventPcs, ActivePosts, Responses, Respond, stores
<1>2. CASE StoreEvent(e)
  BY <1>2 DEF TypeOK, StoreEvent, EventPcs, ActivePosts, Responses, Respond, history
<1>3. CASE PercolateEventData(e)
  <2> DEFINE spawned == [t \in Triggers |->
                            IF t \in queries /\ <<e, t>> \in Matches
                            THEN "exists" ELSE "none"]
  <2>0. spawned \in [Triggers -> GoroutineStates]
    BY DEF GoroutineStates, ActiveGoroutines
  <2>1. gor' \in [Events -> [Triggers -> GoroutineStates]]
    BY <1>3, <2>0 DEF TypeOK, PercolateEventData
  <2>2. evPc' \in [Events -> EventPcs] /\ evResp' \in [Events -> Responses]
    BY <1>3 DEF TypeOK, PercolateEventData, Respond, EventPcs, ActivePosts,
                Responses
  <2> QED BY <1>3, <2>1, <2>2 DEF TypeOK, PercolateEventData, stores, history
<1>4. CASE FinishPostEvent(e)
  <2>1. \E s \in Responses : Respond(e, s)
    BY <1>4, StatusIsResponse DEF FinishPostEvent, Responses
  <2> QED BY <2>1, <1>4 DEF TypeOK, FinishPostEvent, EventPcs, Respond, stores, history
<1> QED BY <1>1, <1>2, <1>3, <1>4 DEF EventStep

\* A goroutine moves to a state of its own, or fails with an outcome.
LEMMA MoveType ==
    ASSUME TypeOK, NEW e \in Events, NEW t \in Triggers,
           \/ \E s \in GoroutineStates : Goto(e, t, s) /\ UNCHANGED outcome
           \/ \E why \in Outcomes : Fail(e, t, why)
    PROVE  /\ gor' \in [Events -> [Triggers -> GoroutineStates]]
           /\ outcome' \in [Events -> [Triggers -> Outcomes]]
<1>1. ASSUME NEW s \in GoroutineStates, Goto(e, t, s)
      PROVE  gor' \in [Events -> [Triggers -> GoroutineStates]]
  BY <1>1 DEF TypeOK, Goto
<1>2. "write" \in GoroutineStates
  BY DEF GoroutineStates, ActiveGoroutines
<1>3. ASSUME NEW why \in Outcomes, Fail(e, t, why)
      PROVE  outcome' \in [Events -> [Triggers -> Outcomes]]
  BY <1>3 DEF TypeOK, Fail
<1> QED BY <1>1, <1>2, <1>3 DEF Fail, TypeOK

\* a step of one of its goroutines,
LEMMA TypeGoroutineStep ==
    ASSUME TypeOK, NEW e \in Events, NEW t \in Triggers, GoroutineStep(e, t)
    PROVE  TypeOK'
<1> DEFINE Moves == \/ \E s \in GoroutineStates :
                          Goto(e, t, s) /\ UNCHANGED outcome
                    \/ \E why \in Outcomes : Fail(e, t, why)
<1>s. /\ {"get", "auth", "publish", "alert", "fired", "skipped", "failed"}
           \subseteq GoroutineStates
      /\ {"missing", "getError", "denied", "idamError", "publishError",
          "alertError"} \subseteq Outcomes
  BY DEF GoroutineStates, ActiveGoroutines, EndedGoroutines, Outcomes
<1>1. CASE TriggerExists(e, t)
  <2>1. Moves BY <1>1, <1>s DEF TriggerExists
  <2> QED BY <1>1, <2>1, MoveType DEF TypeOK, TriggerExists, stores, others, history
<1>2. CASE GetTrigger(e, t)
  <2>1. Moves BY <1>2, <1>s DEF GetTrigger
  <2> QED BY <1>2, <2>1, MoveType DEF TypeOK, GetTrigger, stores, others, history
<1>3. CASE GetTriggerPanics(e, t)
  BY <1>3, TypeCrash DEF GetTriggerPanics
<1>4. CASE RequestAuthZAccess(e, t)
  <2>1. Moves BY <1>4, <1>s DEF RequestAuthZAccess
  <2> QED BY <1>4, <2>1, MoveType
          DEF TypeOK, RequestAuthZAccess, stores, others, history
<1>5. CASE SendToRabbitMQ(e, t)
  <2>1. Moves BY <1>5, <1>s DEF SendToRabbitMQ
  <2>2. jobs' \subseteq Events \X Triggers
    BY <1>5 DEF TypeOK, SendToRabbitMQ
  <2> QED BY <1>5, <2>1, <2>2, MoveType
          DEF TypeOK, SendToRabbitMQ, others, history
<1>6. CASE PostAlert(e, t)
  <2>1. Moves BY <1>6, <1>s DEF PostAlert
  <2>2. [alerts EXCEPT ![e][t] = "stored"]
           \in [Events -> [Triggers -> {"none", "stored", "deleted"}]]
    BY DEF TypeOK
  <2>3. alerts' \in {alerts, [alerts EXCEPT ![e][t] = "stored"]}
    BY <1>6 DEF PostAlert
  <2> QED BY <1>6, <2>1, <2>2, <2>3, MoveType
          DEF TypeOK, PostAlert, others, history
<1>7. CASE WriteResult(e, t)
  <2>1. Moves BY <1>7, <1>s DEF WriteResult
  <2> QED BY <1>7, <2>1, MoveType DEF TypeOK, WriteResult, stores, history
<1> QED BY <1>1, <1>2, <1>3, <1>4, <1>5, <1>6, <1>7 DEF GoroutineStep

\* two concurrent writes to its results map,
LEMMA TypeRace ==
    ASSUME TypeOK, NEW e \in Events, Race(e)
    PROVE  TypeOK'
<1> PICK t \in Triggers, u \in Triggers :
       LoseResult(e, t, u) \/ AbortOnConcurrentWrite(e, t, u)
  BY DEF Race
<1>1. CASE LoseResult(e, t, u)
  BY <1>1 DEF TypeOK, LoseResult, GoroutineStates, EndedGoroutines, stores, history
<1>2. CASE AbortOnConcurrentWrite(e, t, u)
  BY <1>2, TypeCrash DEF AbortOnConcurrentWrite
<1> QED BY <1>1, <1>2

\* and the deletion of an alert.
LEMMA TypeDeleteAlert ==
    ASSUME TypeOK, NEW e \in Events, NEW t \in Triggers, DeleteAlert(e, t)
    PROVE  TypeOK'
BY DEF TypeOK, DeleteAlert, posting, history

\* Together: every step preserves the types.
LEMMA TypeNext == TypeOK /\ [Next]_vars => TypeOK'
<1> SUFFICES ASSUME TypeOK, [Next]_vars PROVE TypeOK'
  OBVIOUS
<1>1. CASE UNCHANGED vars
  BY <1>1 DEF TypeOK, vars, stores, posting, history
<1>2. CASE Next
  BY <1>2, TypeTriggerStep, TypeEditStep, TypeCrash, TypeEventStep,
     TypeGoroutineStep, TypeRace, TypeDeleteAlert DEF Next, Kill
<1> QED BY <1>1, <1>2

\* Every variable of TriggerFiring keeps its type.
THEOREM TypeCorrect == Spec => []TypeOK
<1> QED BY TypeInit, TypeNext, PTL DEF Spec

-----------------------------------------------------------------------------
(* The stores of a trigger: StoreInv is inductive. *)

storeVars == <<trigPc, trigDoc, queries, edit, harmed, deletes, deleted, armed>>

\* Steps that do not touch the stores of triggers.
LEMMA StoreFrame ==
    ASSUME StoreInv, UNCHANGED storeVars
    PROVE  StoreInv'
BY DEF StoreInv, storeVars, TriggerInv, Unborn, Deleting, EditInv, ArmedInv

\* Without triggers the two stores agree.
LEMMA StoreInit == Init => StoreInv
BY ConstantsAssumption
   DEF Init, StoreInv, TriggerInv, Unborn, Deleting, EditInv, ArmedInv, Idle

\* Steps of PostTrigger keep the two stores of the triggers as StoreInv says.
LEMMA StoreTriggerStep ==
    ASSUME TypeOK, StoreInv, NEW t \in Triggers,
           PostTrigger(t) \/ TriggerPostStep(t)
    PROVE  StoreInv'
<1> USE DEF TriggerInv, Unborn, Deleting
<1>1. CASE PostTrigger(t)
  <2>1. ASSUME NEW s \in Triggers PROVE TriggerInv(s)'
    BY <1>1 DEF PostTrigger, StoreInv, TypeOK, stores, history
  <2> QED BY <1>1, <2>1
          DEF PostTrigger, StoreInv, EditInv, ArmedInv, stores, history
<1>2. CASE AddPercolationQuery(t)
  <2>1. ASSUME NEW s \in Triggers PROVE TriggerInv(s)'
    BY <1>2 DEF AddPercolationQuery, StoreInv, TypeOK
  <2>2. ArmedInv'
    BY <1>2 DEF AddPercolationQuery, StoreInv, ArmedInv
  <2> QED BY <1>2, <2>1, <2>2 DEF AddPercolationQuery, StoreInv, EditInv
<1>3. CASE StoreTrigger(t)
  <2>1. \A en \in BOOLEAN : Doc(en) # "absent"
    BY DEF Doc
  <2>2. /\ \A s \in Triggers \ {t} : trigDoc'[s] = trigDoc[s]
        /\ trigPc'[t] \in {"created", "rollback"}
        /\ \A s \in Triggers \ {t} : trigPc'[s] = trigPc[s]
        /\ trigPc'[t] = "created" => trigDoc'[t] # "absent"
        /\ trigDoc[t] = "absent"
        /\ trigDoc'[t] # "absent" /\ trigPc'[t] = "rollback" => t \in harmed'
        /\ harmed \subseteq harmed' /\ harmed' \subseteq harmed \cup {t}
    BY <1>3, <2>1 DEF StoreTrigger, StoreInv, TypeOK
  <2>3. ASSUME NEW s \in Triggers PROVE TriggerInv(s)'
    BY <1>3, <2>2 DEF StoreTrigger, StoreInv
  <2>4. ArmedInv'
    BY <1>3, <2>2 DEF StoreTrigger, StoreInv, ArmedInv, TypeOK
  <2> QED BY <1>3, <2>3, <2>4 DEF StoreTrigger, StoreInv, EditInv
<1>4. CASE RollbackQuery(t)
  <2>1. ASSUME NEW s \in Triggers PROVE TriggerInv(s)'
    BY <1>4 DEF RollbackQuery, StoreInv, TypeOK
  <2>2. ArmedInv'
    BY <1>4 DEF RollbackQuery, TrackArmed, ArmedInv
  <2> QED BY <1>4, <2>1, <2>2 DEF RollbackQuery, StoreInv, EditInv
<1> QED BY <1>1, <1>2, <1>3, <1>4 DEF TriggerPostStep

\* Steps of PutTrigger and DeleteTrigger keep StoreInv.
LEMMA StoreEditStep ==
    ASSUME TypeOK, StoreInv, NEW c \in Editors,
           \/ \E t \in Triggers : \/ \E en \in BOOLEAN : PutTrigger(c, t, en)
                                  \/ DeleteTrigger(c, t)
           \/ EditStep(c)
    PROVE  StoreInv'
<1> USE DEF TriggerInv, Unborn, Deleting
<1>1. ASSUME NEW t \in Triggers, NEW en \in BOOLEAN, PutTrigger(c, t, en)
      PROVE  StoreInv'
  <2>1. ASSUME NEW s \in Triggers PROVE TriggerInv(s)'
    BY <1>1 DEF PutTrigger, StoreInv, TypeOK, Idle, stores, history
  <2>2. EditInv'
    BY <1>1 DEF PutTrigger, StoreInv, EditInv, TypeOK, history
  <2> QED BY <1>1, <2>1, <2>2
          DEF PutTrigger, StoreInv, ArmedInv, stores, history
<1>2. ASSUME NEW t \in Triggers, DeleteTrigger(c, t)
      PROVE  StoreInv'
  <2>1. ASSUME NEW s \in Triggers PROVE TriggerInv(s)'
    BY <1>2 DEF DeleteTrigger, StoreInv, TypeOK, Idle, stores
  <2>2. EditInv'
    BY <1>2 DEF DeleteTrigger, StoreInv, EditInv, TypeOK
  <2> QED BY <1>2, <2>1, <2>2 DEF DeleteTrigger, StoreInv, ArmedInv, stores
<1>b. edit[c].pc # "idle" =>
         edit[c] \in [pc : EditPcs, trig : Triggers, enabled : BOOLEAN]
  BY EditorBusy
<1>i. NoTrigger \notin Triggers /\ Idle.trig = NoTrigger /\ Idle.pc = "idle"
  BY ConstantsAssumption DEF Idle
<1>3. CASE SaveTrigger(c)
  <2>1. ASSUME NEW s \in Triggers PROVE TriggerInv(s)'
    BY <1>3, <1>b, <1>i DEF SaveTrigger, StoreInv, TypeOK, Doc
  <2>2. EditInv'
    BY <1>3, <1>i DEF SaveTrigger, StoreInv, EditInv, TypeOK
  <2>3. ArmedInv'
    BY <1>3 DEF SaveTrigger, TrackArmed, ArmedInv
  <2> QED BY <2>1, <2>2, <2>3 DEF StoreInv
<1>4. CASE DeleteDoc(c)
  <2> DEFINE t == edit[c].trig
  <2>b. edit[c] \in [pc : EditPcs, trig : Triggers, enabled : BOOLEAN]
    BY <1>4, <1>b DEF DeleteDoc
  <2>d. t \in deletes
    BY <1>4 DEF DeleteDoc, StoreInv, EditInv
  <2>e. /\ \A d \in Editors \ {c} : edit'[d] = edit[d]
        /\ edit'[c] = Idle \/ (edit'[c].pc = "deleteQuery" /\ edit'[c].trig = t)
    BY <1>4, <2>b DEF DeleteDoc, TypeOK
  <2>t. /\ \A s \in Triggers \ {t} : trigDoc'[s] = trigDoc[s]
        /\ trigDoc'[t] \in {trigDoc[t], "absent"}
        /\ \/ edit'[c] # Idle
           \/ trigDoc'[t] = trigDoc[t] /\ harmed' = harmed
           \/ t \in harmed'
        /\ harmed \subseteq harmed' /\ harmed' \subseteq harmed \cup {t}
        /\ UNCHANGED <<queries, trigPc, deletes, deleted>>
    <3>t. trigDoc \in [Triggers -> DocStates] /\ t \in Triggers
      BY <2>b DEF TypeOK
    <3>1. UNCHANGED <<queries, trigPc, deletes, deleted>>
      BY <1>4 DEF DeleteDoc
    <3>2. trigDoc' \in {trigDoc, [trigDoc EXCEPT ![t] = "absent"]}
      BY <1>4 DEF DeleteDoc
    <3>3. harmed' \in {harmed, harmed \cup {t}}
      BY <1>4 DEF DeleteDoc
    <3>4. \/ edit'[c] # Idle
          \/ trigDoc' = trigDoc /\ harmed' = harmed
          \/ t \in harmed'
      <4>1. edit' = [edit EXCEPT ![c].pc = "deleteQuery"]
              => edit'[c].pc = "deleteQuery"
        BY <2>b DEF TypeOK
      <4>2. edit' = [edit EXCEPT ![c].pc = "deleteQuery"] => edit'[c] # Idle
        BY <4>1, <1>i
      <4> QED BY <1>4, <4>2 DEF DeleteDoc
    <3> HIDE DEF t
    <3> QED BY <3>t, <3>1, <3>2, <3>3, <3>4
  <2>1. ASSUME NEW s \in Triggers PROVE TriggerInv(s)'
    <3>1. \A d \in Editors : edit'[d].trig = s => edit[d].trig = s
      BY <1>i, <2>e
    <3>2. CASE s # t
      <4>1. Deleting(s) => Deleting(s)'
        BY <2>e, <3>2
      <4> QED BY <2>t, <3>1, <3>2, <4>1 DEF StoreInv
    <3>3. CASE s = t
      <4>1. edit'[c] # Idle => Deleting(s)'
        BY <2>e, <3>3
      <4>2. edit'[c] = Idle /\ Deleting(s) => Deleting(s)'
        BY <1>4, <2>e, <3>3 DEF DeleteDoc
      <4>3. TriggerInv(s) /\ ~ Unborn(s) /\ s \in deletes
        BY <2>b, <2>d, <3>3 DEF StoreInv
      <4>t. /\ trigDoc'[s] \in {trigDoc[s], "absent"}
            /\ \/ edit'[c] # Idle
               \/ trigDoc'[s] = trigDoc[s] /\ harmed' = harmed
               \/ s \in harmed'
            /\ harmed \subseteq harmed'
            /\ UNCHANGED <<queries, trigPc, deletes, deleted>>
        BY <2>t, <3>3
      <4> HIDE DEF Unborn, Deleting
      <4> QED BY <4>t, <4>1, <4>2, <4>3
    <3> QED BY <3>2, <3>3
  <2>2. EditInv'
    BY <1>i, <2>d, <2>e, <2>t DEF StoreInv, EditInv
  <2>3. ArmedInv'
    BY <1>4 DEF DeleteDoc, TrackArmed, ArmedInv
  <2> QED BY <2>1, <2>2, <2>3 DEF StoreInv
<1>5. CASE DeleteQuery(c)
  <2>1. ASSUME NEW s \in Triggers PROVE TriggerInv(s)'
    BY <1>5, <1>b, <1>i DEF DeleteQuery, StoreInv, EditInv, TypeOK
  <2>2. EditInv'
    BY <1>5, <1>i DEF DeleteQuery, StoreInv, EditInv, TypeOK
  <2>3. ArmedInv'
    BY <1>5 DEF DeleteQuery, TrackArmed, ArmedInv
  <2> QED BY <2>1, <2>2, <2>3 DEF StoreInv
<1> QED BY <1>1, <1>2, <1>3, <1>4, <1>5 DEF EditStep

\* A crash keeps StoreInv: whatever it cut short counts as harmed.
LEMMA StoreCrash == ASSUME TypeOK, StoreInv, Crash PROVE StoreInv'
<1>i. NoTrigger \notin Triggers /\ Idle.trig = NoTrigger /\ Idle.pc = "idle"
  BY ConstantsAssumption DEF Idle
<1>1. ASSUME NEW s \in Triggers PROVE TriggerInv(s)'
  BY <1>i DEF Crash, StoreInv, TypeOK, TriggerPcs, TriggerInv, Unborn, Deleting,
              stores
<1>2. EditInv'
  BY <1>i DEF Crash, EditInv
<1> QED BY <1>1, <1>2 DEF Crash, StoreInv, ArmedInv, stores

\* Every step keeps StoreInv.
LEMMA StoreNext == TypeOK /\ StoreInv /\ [Next]_vars => StoreInv'
<1> SUFFICES ASSUME TypeOK, StoreInv, [Next]_vars PROVE StoreInv'
  OBVIOUS
<1>1. CASE UNCHANGED vars
  BY <1>1, StoreFrame DEF vars, storeVars, stores, history
<1>2. ASSUME NEW e \in Events, PostEvent(e)
      PROVE  StoreInv'
  BY <1>2 DEF PostEvent, StoreInv, TriggerInv, Unborn, Deleting, EditInv,
              ArmedInv, TypeOK, stores
<1>3. ASSUME NEW e \in Events, EventStep(e)
      PROVE  StoreInv'
  BY <1>3, StoreFrame DEF EventStep, StoreEvent, PercolateEventData,
     FinishPostEvent, storeVars, stores, history
<1>4. ASSUME NEW e \in Events, NEW t \in Triggers, GoroutineStep(e, t)
      PROVE  StoreInv'
  BY <1>4, StoreFrame, StoreCrash DEF GoroutineStep, TriggerExists, GetTrigger,
     GetTriggerPanics, RequestAuthZAccess, SendToRabbitMQ, PostAlert,
     WriteResult, storeVars, stores, others, history
<1>5. ASSUME NEW e \in Events, Race(e)
      PROVE  StoreInv'
  BY <1>5, StoreFrame, StoreCrash DEF Race, LoseResult, AbortOnConcurrentWrite,
     storeVars, stores, history
<1>6. ASSUME NEW e \in Events, NEW t \in Triggers, DeleteAlert(e, t)
      PROVE  StoreInv'
  BY <1>6, StoreFrame DEF DeleteAlert, storeVars, history
<1>7. CASE Next
  BY <1>2, <1>3, <1>4, <1>5, <1>6, <1>7, StoreTriggerStep, StoreEditStep,
     StoreCrash DEF Next, Kill
<1> QED BY <1>1, <1>7

\* StoreInv holds in every reachable state.
LEMMA StoreCorrect == Spec => [](TypeOK /\ StoreInv)
<1>1. Init => TypeOK /\ StoreInv
  BY TypeInit, StoreInit
<1>2. TypeOK /\ StoreInv /\ [Next]_vars => (TypeOK /\ StoreInv)'
  BY TypeNext, StoreNext
<1> QED BY <1>1, <1>2, PTL DEF Spec

\* For every trigger that no failed call or crash harmed, the document and the
\* percolation query agree up to a request at work.
THEOREM StoresAgreeHolds == Spec => []StoresAgree
<1>1. TypeOK /\ StoreInv => StoresAgree
  BY DEF StoreInv, TriggerInv, Unborn, Deleting, StoresAgree, TypeOK, TriggerPcs
<1> QED BY <1>1, StoreCorrect, PTL

\* A trigger answered with 201 keeps document and query until a DeleteTrigger.
THEOREM CreatedStaysArmedHolds == Spec => []CreatedStaysArmed
<1>1. StoreInv => CreatedStaysArmed
  BY DEF StoreInv, TriggerInv, CreatedStaysArmed
<1> QED BY <1>1, StoreCorrect, PTL
-----------------------------------------------------------------------------
(* The firing half of the inductive invariant *)

\* What FireInv is about, of one event and one trigger.
LEMMA FireFrame ==
    ASSUME TypeOK, NEW e \in Events, NEW t \in Triggers, FireInv(e, t),
           evPc'[e] = evPc[e], evResp'[e] = evResp[e],
           gor'[e][t] = gor[e][t], alerts'[e][t] = alerts[e][t],
           results[e] \subseteq results'[e], results[e] = {} => results'[e] = {},
           <<e, t>> \in jobs' <=> <<e, t>> \in jobs,
           e \in events' <=> e \in events,
           armed'[e] \subseteq armed[e], deletedBefore'[e] = deletedBefore[e],
           deleted \subseteq deleted'
    PROVE  FireInv(e, t)'
BY DEF FireInv

\* Before any event is posted FiringInv holds.
LEMMA FireInit == Init => FiringInv
BY DEF Init, FiringInv, FireInv, ActiveGoroutines

\* The armed triggers of an event only become fewer.
LEMMA ArmedShrinks ==
    ASSUME TypeOK, TrackArmed PROVE \A e \in Events : armed'[e] \subseteq armed[e]
BY DEF TypeOK, TrackArmed

\* Posting, editing and deleting triggers leave the goroutines alone.
LEMMA FireTriggerStep ==
    ASSUME TypeOK, FiringInv,
           \/ \E t \in Triggers : PostTrigger(t) \/ TriggerPostStep(t)
           \/ \E c \in Editors, t \in Triggers :
                 \/ \E en \in BOOLEAN : PutTrigger(c, t, en)
                 \/ DeleteTrigger(c, t)
           \/ \E c \in Editors : EditStep(c)
    PROVE  FiringInv'
<1>1. /\ UNCHANGED <<events, alerts, jobs, posting, deletedBefore>>
      /\ armed' = armed \/ TrackArmed
      /\ deleted \subseteq deleted'
  BY DEF TriggerPostStep, EditStep, PostTrigger, AddPercolationQuery,
     StoreTrigger, RollbackQuery, PutTrigger, SaveTrigger, DeleteTrigger,
     DeleteDoc, DeleteQuery, stores, history
<1>2. \A e \in Events : armed'[e] \subseteq armed[e]
  BY <1>1, ArmedShrinks
<1>3. ASSUME NEW e \in Events, NEW t \in Triggers PROVE FireInv(e, t)'
  BY <1>1, <1>2, FireFrame DEF FiringInv, posting
<1> QED BY <1>3 DEF FiringInv

\* A crash ends the goroutines together with their PostEvent.
LEMMA FireCrash == ASSUME TypeOK, FiringInv, Crash PROVE FiringInv'
<1>1. ASSUME NEW e \in Events, NEW t \in Triggers PROVE FireInv(e, t)'
  <2>1. /\ evPc'[e] = IF evPc[e] \in ActivePosts THEN "lost" ELSE evPc[e]
        /\ gor'[e][t] = IF gor[e][t] \in ActiveGoroutines THEN "dead"
                        ELSE gor[e][t]
        /\ UNCHANGED <<stores, evResp, results, armed, deletedBefore, deleted>>
    BY DEF Crash, stores
  <2>2. FireInv(e, t)
    BY DEF FiringInv
  <2> QED BY <2>1, <2>2 DEF FireInv, ActivePosts, ActiveGoroutines, stores
<1> QED BY <1>1 DEF FiringInv

\* A PostEvent begins without goroutines and with the deletions so far.
LEMMA FirePostEvent ==
    ASSUME TypeOK, FiringInv, NEW e \in Events, PostEvent(e)
    PROVE  FiringInv'
<1>1. ASSUME NEW f \in Events \ {e}, NEW t \in Triggers PROVE FireInv(f, t)'
  <2>1. /\ evPc'[f] = evPc[f] /\ evResp'[f] = evResp[f]
        /\ armed'[f] = armed[f] /\ deletedBefore'[f] = deletedBefore[f]
        /\ UNCHANGED <<stores, gor, results, deleted>>
    BY DEF PostEvent, Respond, TypeOK
  <2> QED BY <2>1, FireFrame DEF FiringInv, stores
<1>2. ASSUME NEW t \in Triggers PROVE FireInv(e, t)'
  <2>1. /\ evPc'[e] \in {"store", "done"}
        /\ evResp'[e] # "created" /\ (evPc'[e] # "done" => evResp'[e] = "none")
        /\ deletedBefore'[e] = deleted
        /\ gor[e][t] = "none"
        /\ UNCHANGED <<stores, gor, results, deleted>>
    <3>1. evPc[e] = "idle" /\ evResp[e] = "none" /\ gor[e][t] = "none"
      BY DEF PostEvent, FiringInv, FireInv
    <3> QED BY <3>1 DEF PostEvent, Respond, TypeOK
  <2> QED BY <2>1 DEF FiringInv, FireInv, ActiveGoroutines, stores
<1> QED BY <1>1, <1>2 DEF FiringInv

\* The event is stored before its goroutines start.
LEMMA FireStoreEvent ==
    ASSUME TypeOK, FiringInv, NEW e \in Events, StoreEvent(e)
    PROVE  FiringInv'
<1>0. UNCHANGED <<gor, alerts, jobs, results, armed, deletedBefore, deleted>>
  BY DEF StoreEvent, history
<1>1. ASSUME NEW f \in Events \ {e}, NEW t \in Triggers PROVE FireInv(f, t)'
  <2>1. /\ evPc'[f] = evPc[f] /\ evResp'[f] = evResp[f]
        /\ f \in events' <=> f \in events
    BY DEF StoreEvent, Respond, TypeOK
  <2> QED BY <1>0, <2>1, FireFrame DEF FiringInv
<1>2. ASSUME NEW t \in Triggers PROVE FireInv(e, t)'
  <2>1. /\ evPc'[e] \in {"percolate", "done"}
        /\ evPc'[e] = "percolate" => e \in events' /\ evResp'[e] = "none"
        /\ evResp'[e] # "created"
        /\ gor[e][t] = "none" /\ events \subseteq events'
    <3>1. evPc[e] = "store" /\ evResp[e] = "none" /\ gor[e][t] = "none"
      BY DEF StoreEvent, FiringInv, FireInv
    <3> QED BY <3>1 DEF StoreEvent, Respond, TypeOK
  <2> QED BY <1>0, <2>1 DEF FiringInv, FireInv, ActiveGoroutines
<1> QED BY <1>1, <1>2 DEF FiringInv

\* A deleted trigger has no query any more, an armed one has: the goroutines
\* started are the right ones.
LEMMA FirePercolate ==
    ASSUME TypeOK, StoreInv, FiringInv, NEW e \in Events, PercolateEventData(e)
    PROVE  FiringInv'
<1>0. UNCHANGED <<stores, results, armed, deletedBefore, deleted>>
  BY DEF PercolateEventData, history
<1>1. ASSUME NEW f \in Events \ {e}, NEW t \in Triggers PROVE FireInv(f, t)'
  <2>1. /\ evPc'[f] = evPc[f] /\ evResp'[f] = evResp[f]
        /\ gor'[f][t] = gor[f][t]
    BY DEF PercolateEventData, Respond, TypeOK
  <2> QED BY <1>0, <2>1, FireFrame DEF FiringInv, stores
<1>2. ASSUME NEW t \in Triggers PROVE FireInv(e, t)'
  <2>1. /\ gor[e][t] = "none" /\ evPc[e] = "percolate" /\ e \in events
        /\ evResp[e] = "none"
    BY DEF PercolateEventData, FiringInv, FireInv
  <2>2. /\ t \in armed[e] => t \in queries
        /\ t \in deleted => t \notin queries
    BY DEF StoreInv, ArmedInv, TriggerInv
  <2>3. \/ /\ gor'[e][t] = IF t \in queries /\ <<e, t>> \in Matches
                           THEN "exists" ELSE "none"
           /\ evPc'[e] = "wait" /\ evResp'[e] = "none"
        \/ gor'[e][t] = "none" /\ evPc'[e] = "done" /\ evResp'[e] = "badRequest"
    BY <2>1 DEF PercolateEventData, Respond, TypeOK
  <2> QED BY <1>0, <2>1, <2>2, <2>3 DEF FiringInv, FireInv, ActiveGoroutines,
             stores
<1> QED BY <1>1, <1>2 DEF FiringInv

\* waitGroup.Wait has seen every goroutine end: none is active, none is dead,
\* and if results is empty none has failed.
LEMMA FireFinish ==
    ASSUME TypeOK, FiringInv, NEW e \in Events, FinishPostEvent(e)
    PROVE  FiringInv'
<1>0. UNCHANGED <<stores, gor, results, armed, deletedBefore, deleted>>
  BY DEF FinishPostEvent, history
<1>1. ASSUME NEW f \in Events \ {e}, NEW t \in Triggers PROVE FireInv(f, t)'
  <2>1. evPc'[f] = evPc[f] /\ evResp'[f] = evResp[f]
    BY DEF FinishPostEvent, Respond, TypeOK
  <2> QED BY <1>0, <2>1, FireFrame DEF FiringInv, stores
<1>2. ASSUME NEW t \in Triggers PROVE FireInv(e, t)'
  <2>1. /\ evPc'[e] = "done"
        /\ evResp'[e] = "created" => results[e] = {}
    <3>1. \A o : StatusOf(o) # "created"
      BY DEF StatusOf
    <3> QED BY <3>1 DEF FinishPostEvent, Respond, TypeOK
  <2>2. evPc[e] = "wait" /\ gor[e][t] \notin ActiveGoroutines
    BY DEF FinishPostEvent
  <2>3. results[e] = {} => gor[e][t] \in {"none", "fired", "skipped"}
    <3>1. gor[e][t] \in GoroutineStates
      BY DEF TypeOK
    <3> QED BY <2>2, <3>1
            DEF FiringInv, FireInv, GoroutineStates, EndedGoroutines
  <2> QED BY <1>0, <2>1, <2>2, <2>3 DEF FiringInv, FireInv, stores
<1> QED BY <1>1, <1>2 DEF FiringInv
\* Goto moves one goroutine and no other.
LEMMA GotoMoves ==
    ASSUME TypeOK, NEW e \in Events, NEW t \in Triggers, NEW state,
           Goto(e, t, state)
    PROVE  /\ gor'[e][t] = state
           /\ \A f \in Events, s \in Triggers :
                 f # e \/ s # t => gor'[f][s] = gor[f][s]
BY DEF TypeOK, Goto

\* A step of goroutine t of event e: only FireInv(e, t) is to be shown.
LEMMA FireOthers ==
    ASSUME TypeOK, FiringInv, NEW e \in Events, NEW t \in Triggers,
           UNCHANGED <<events, evPc, evResp, armed, deletedBefore, deleted>>,
           \A f \in Events, s \in Triggers : f # e \/ s # t =>
               /\ gor'[f][s] = gor[f][s] /\ alerts'[f][s] = alerts[f][s]
               /\ <<f, s>> \in jobs' <=> <<f, s>> \in jobs,
           \A f \in Events : results[f] \subseteq results'[f],
           \A f \in Events \ {e} : results'[f] = results[f],
           FireInv(e, t)'
    PROVE  FiringInv'
<1>1. ASSUME NEW f \in Events, NEW s \in Triggers, f # e \/ s # t
      PROVE  FireInv(f, s)'
  <2>1. FireInv(f, s) BY DEF FiringInv
  <2>2. gor'[f][s] = gor[f][s] /\ alerts'[f][s] = alerts[f][s]
        /\ (<<f, s>> \in jobs' <=> <<f, s>> \in jobs)
        /\ results[f] \subseteq results'[f]
    BY <1>1
  <2> QED BY <2>1, <2>2 DEF FireInv
<1> QED BY <1>1 DEF FiringInv

\* Each step of a goroutine keeps FiringInv; GetTrigger needs StoreInv, since an
\* armed trigger is still enabled when its document is read.
LEMMA FireGoroutineStep ==
    ASSUME TypeOK, StoreInv, FiringInv, NEW e \in Events, NEW t \in Triggers,
           GoroutineStep(e, t)
    PROVE  FiringInv'
<1>f. FireInv(e, t)
  BY DEF FiringInv
<1>1. CASE TriggerExists(e, t)
  <2>1. /\ gor'[e][t] \in {"get", "write"}
        /\ \A f \in Events, s \in Triggers :
              f # e \/ s # t => gor'[f][s] = gor[f][s]
        /\ gor[e][t] = "exists"
    BY <1>1, GotoMoves DEF TriggerExists, Fail
  <2>2. UNCHANGED <<stores, others>>
    BY <1>1 DEF TriggerExists
  <2>3. FireInv(e, t)'
    BY <1>f, <2>1, <2>2 DEF FireInv, ActiveGoroutines, stores, others, history
  <2> QED BY <2>1, <2>2, <2>3, FireOthers DEF stores, others, history
<1>2. CASE GetTrigger(e, t)
  <2>1. /\ gor'[e][t] = IF /\ trigDoc[t] = "enabled"
                           /\ EventTypeOf[e] = TriggerTypeOf[t]
                        THEN "auth" ELSE "skipped"
        /\ \A f \in Events, s \in Triggers :
              f # e \/ s # t => gor'[f][s] = gor[f][s]
        /\ gor[e][t] = "get"
    BY <1>2, GotoMoves DEF GetTrigger
  <2>2. UNCHANGED <<stores, others>>
    BY <1>2 DEF GetTrigger
  <2>3. t \in armed[e] => trigDoc[t] = "enabled"
    BY DEF StoreInv, ArmedInv
  <2>4. FireInv(e, t)'
    BY <1>f, <2>1, <2>2, <2>3
       DEF FireInv, ActiveGoroutines, stores, others, history
  <2> QED BY <2>1, <2>2, <2>4, FireOthers DEF stores, others, history
<1>3. CASE RequestAuthZAccess(e, t)
  <2>1. /\ gor'[e][t] \in {"publish", "write"}
        /\ \A f \in Events, s \in Triggers :
              f # e \/ s # t => gor'[f][s] = gor[f][s]
        /\ gor[e][t] = "auth"
    BY <1>3, GotoMoves DEF RequestAuthZAccess, Fail
  <2>2. UNCHANGED <<stores, others>>
    BY <1>3 DEF RequestAuthZAccess
  <2>3. FireInv(e, t)'
    BY <1>f, <2>1, <2>2 DEF FireInv, ActiveGoroutines, stores, others, history
  <2> QED BY <2>1, <2>2, <2>3, FireOthers DEF stores, others, history
<1>4. CASE SendToRabbitMQ(e, t)
  <2>1. /\ \/ gor'[e][t] = "alert" /\ jobs' = jobs \cup {<<e, t>>}
           \/ gor'[e][t] = "write" /\ jobs' = jobs
        /\ \A f \in Events, s \in Triggers :
              f # e \/ s # t => gor'[f][s] = gor[f][s]
        /\ gor[e][t] = "publish"
    BY <1>4, GotoMoves DEF SendToRabbitMQ, Fail
  <2>2. UNCHANGED <<events, queries, trigDoc, alerts, others>>
    BY <1>4 DEF SendToRabbitMQ
  <2>3. FireInv(e, t)'
    BY <1>f, <2>1, <2>2 DEF FireInv, ActiveGoroutines, others, history
  <2>4. \A f \in Events, s \in Triggers :
           f # e \/ s # t => (<<f, s>> \in jobs' <=> <<f, s>> \in jobs)
    BY <2>1
  <2> QED BY <2>1, <2>2, <2>3, <2>4, FireOthers DEF others, history
<1>5. CASE PostAlert(e, t)
  <2>1. /\ gor'[e][t] \in {"fired", "write"}
        /\ \A f \in Events, s \in Triggers :
              f # e \/ s # t => gor'[f][s] = gor[f][s]
        /\ gor[e][t] = "alert"
    BY <1>5, GotoMoves DEF PostAlert, Fail
  <2>2. UNCHANGED <<events, queries, trigDoc, jobs, others>>
    BY <1>5 DEF PostAlert
  <2>3. /\ gor'[e][t] = "fired" => alerts'[e][t] = "stored"
        /\ \A f \in Events, s \in Triggers :
              f # e \/ s # t => alerts'[f][s] = alerts[f][s]
    BY <1>5, GotoMoves DEF PostAlert, Fail, TypeOK
  <2>4. FireInv(e, t)'
    BY <1>f, <2>1, <2>2, <2>3 DEF FireInv, ActiveGoroutines, others, history
  <2> QED BY <2>1, <2>2, <2>3, <2>4, FireOthers DEF others, history
<1>6. CASE WriteResult(e, t)
  <2>1. /\ gor'[e][t] = "failed"
        /\ \A f \in Events, s \in Triggers :
              f # e \/ s # t => gor'[f][s] = gor[f][s]
        /\ gor[e][t] = "write"
    BY <1>6, GotoMoves DEF WriteResult
  <2>2. UNCHANGED <<stores, evPc, evResp, history>>
    BY <1>6 DEF WriteResult
  <2>3. /\ t \in results'[e]
        /\ \A f \in Events : results[f] \subseteq results'[f]
        /\ \A f \in Events \ {e} : results'[f] = results[f]
    BY <1>6 DEF WriteResult, TypeOK
  <2>4. FireInv(e, t)'
    BY <1>f, <2>1, <2>2, <2>3 DEF FireInv, ActiveGoroutines, stores, history
  <2> QED BY <2>1, <2>2, <2>3, <2>4, FireOthers DEF stores, history
<1> QED BY <1>1, <1>2, <1>3, <1>4, <1>5, <1>6, FireCrash
        DEF GoroutineStep, GetTriggerPanics

\* A lost write leaves an entry of the other writer: results is not empty.
LEMMA FireRace ==
    ASSUME TypeOK, FiringInv, NEW e \in Events, Race(e)
    PROVE  FiringInv'
<1>1. ASSUME NEW t \in Triggers, NEW u \in Triggers, LoseResult(e, t, u)
      PROVE  FiringInv'
  <2>1. UNCHANGED <<stores, evPc, evResp, history>>
    BY <1>1 DEF LoseResult
  <2>2. /\ t \in results'[e]
        /\ \A f \in Events : results[f] \subseteq results'[f]
        /\ \A f \in Events \ {e} : results'[f] = results[f]
    BY <1>1 DEF LoseResult, TypeOK
  <2>3. /\ gor[e][t] = "write" /\ gor[e][u] = "write"
        /\ gor'[e][t] = "failed" /\ gor'[e][u] = "failed"
        /\ \A f \in Events, s \in Triggers :
              f # e \/ s \notin {t, u} => gor'[f][s] = gor[f][s]
    BY <1>1 DEF LoseResult, TypeOK
  <2>4. ASSUME NEW f \in Events, NEW s \in Triggers PROVE FireInv(f, s)'
    <3>1. FireInv(f, s) BY DEF FiringInv
    <3>2. CASE f # e \/ s \notin {t, u}
      <4>1. gor'[f][s] = gor[f][s] /\ results[f] \subseteq results'[f]
        BY <2>2, <2>3, <3>2
      <4> QED BY <2>1, <3>1, <4>1 DEF FireInv, stores, history
    <3>3. CASE f = e /\ s \in {t, u}
      <4>1. gor[f][s] = "write" /\ gor'[f][s] = "failed" /\ results'[f] # {}
        BY <2>2, <2>3, <3>3
      <4> QED BY <2>1, <3>1, <4>1 DEF FireInv, ActiveGoroutines, stores, history
    <3> QED BY <3>2, <3>3
  <2> QED BY <2>4 DEF FiringInv
<1> QED BY <1>1, FireCrash DEF Race, AbortOnConcurrentWrite

\* A deleted alert still counts as recorded.
LEMMA FireDeleteAlert ==
    ASSUME TypeOK, FiringInv, NEW e \in Events, NEW t \in Triggers,
           DeleteAlert(e, t)
    PROVE  FiringInv'
<1>1. /\ alerts[e][t] = "stored" /\ alerts'[e][t] = "deleted"
      /\ \A f \in Events, s \in Triggers :
            f # e \/ s # t => alerts'[f][s] = alerts[f][s]
      /\ UNCHANGED <<events, jobs, posting, history>>
  BY DEF DeleteAlert, TypeOK
<1>2. FireInv(e, t)'
  BY <1>1 DEF FiringInv, FireInv, posting, history
<1> QED BY <1>1, <1>2, FireOthers DEF posting, history

\* Every step keeps FiringInv.
LEMMA FireNext == TypeOK /\ StoreInv /\ FiringInv /\ [Next]_vars => FiringInv'
<1> SUFFICES ASSUME TypeOK, StoreInv, FiringInv, [Next]_vars PROVE FiringInv'
  OBVIOUS
<1>1. CASE UNCHANGED vars
  <2>1. ASSUME NEW e \in Events, NEW t \in Triggers PROVE FireInv(e, t)'
    BY <1>1, FireFrame DEF vars, stores, posting, history, FiringInv
  <2> QED BY <2>1 DEF FiringInv
<1>2. CASE Next
  BY <1>2, FireTriggerStep, FirePostEvent, FireStoreEvent, FirePercolate,
     FireFinish, FireRace, FireGoroutineStep, FireDeleteAlert, FireCrash
     DEF Next, EventStep, Kill
<1> QED BY <1>1, <1>2

\* The inductive invariant holds in every reachable state.
LEMMA FiringCorrect == Spec => [](TypeOK /\ StoreInv /\ FiringInv)
<1>1. Init => TypeOK /\ StoreInv /\ FiringInv
  BY TypeInit, StoreInit, FireInit
<1>2. TypeOK /\ StoreInv /\ FiringInv /\ [Next]_vars
         => (TypeOK /\ StoreInv /\ FiringInv)'
  BY TypeNext, StoreNext, FireNext
<1> QED BY <1>1, <1>2, PTL DEF Spec

\* A 201 for an event means that every trigger armed throughout has its job and
\* every job its alert.
THEOREM CreatedMeansFiredHolds == Spec => []CreatedMeansFired
<1>1. FiringInv => CreatedMeansFired
  <2> SUFFICES ASSUME FiringInv, NEW e \in Events, NEW t \in Triggers,
                      evResp[e] = "created"
               PROVE  /\ ( /\ t \in armed[e] /\ <<e, t>> \in Matches
                           /\ EventTypeOf[e] = TriggerTypeOf[t] )
                         => <<e, t>> \in jobs
                      /\ <<e, t>> \in jobs => alerts[e][t] # "none"
    BY DEF CreatedMeansFired
  <2>1. FireInv(e, t)
    BY DEF FiringInv
  <2> QED BY <2>1 DEF FireInv
<1> QED BY <1>1, FiringCorrect, PTL

\* No alert without a job, no job without a stored event of the trigger's type.
THEOREM AlertsFollowJobsHolds == Spec => []AlertsFollowJobs
<1>1. FiringInv => AlertsFollowJobs
  BY DEF FiringInv, FireInv, AlertsFollowJobs
<1> QED BY <1>1, FiringCorrect, PTL

\* A trigger deleted (200) before an event was posted does not fire for it.
THEOREM DeletedStaysSilentHolds == Spec => []DeletedStaysSilent
<1>1. TypeOK /\ FiringInv => DeletedStaysSilent
  BY DEF TypeOK, FiringInv, FireInv, DeletedStaysSilent
<1> QED BY <1>1, FiringCorrect, PTL

\* No goroutine of an event is at work once its handler has answered.
THEOREM NothingAfterResponseHolds == Spec => []NothingAfterResponse
<1>1. FiringInv => NothingAfterResponse
  BY DEF FiringInv, FireInv, NothingAfterResponse, ActivePosts
<1> QED BY <1>1, FiringCorrect, PTL

\* An event with a failed goroutine is not answered 201, lost writes or not.
THEOREM FailureReportedHolds == Spec => []FailureReported
<1>1. FiringInv => FailureReported
  BY DEF FiringInv, FireInv, FailureReported
<1> QED BY <1>1, FiringCorrect, PTL
=============================================================================
