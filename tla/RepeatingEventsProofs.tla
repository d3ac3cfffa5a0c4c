----------------------- MODULE RepeatingEventsProofs -----------------------
(***************************************************************************)
(* Theorems about RepeatingEvents, for any repeating events, event types   *)
(* and deleters, with and without failing calls and crashes.               *)
(*                                                                         *)
(* What is said of the documents of the two indices holds always.  What is *)
(* said of the scheduler's jobs holds as long as every job is of its own   *)
(* event (OwnJobs), which InitCron breaks for two repeating events: all    *)
(* its jobs share one loop variable.                                       *)
(***************************************************************************)
EXTENDS RepeatingEvents, FiniteSetTheorems, TLAPS

NotStored == {"idle", "add", "cron", "verify", "event"}
PastEvent == {"exists", "cron", "remove"}

\* No process is killed, or there are no two repeating events.
OwnJobs == ~Crashes \/ \A a, b \in Crons : a = b

-----------------------------------------------------------------------------
(* The documents *)

\* Before StoreEvent nobody can have deleted the event.
FreshInv ==
    \A c \in Crons : postPc[c] \in NotStored => c \notin events /\ c \notin deletes

\* The document of the crons index is there before that of the events index.
StoredInv ==
    /\ \A c \in Crons : postPc[c] \in {"verify", "event"} => c \in cronDB
    /\ CreatedIsPersistent

\* What is being deleted was asked for, and so was what is stopped; and the
\* crons index has forgotten it by then.
DeleteInv ==
    /\ \A d \in Deleters : del[d].pc # "idle" => del[d].cron \in deletes
    /\ \A d \in Deleters : del[d].pc = "remove" => del[d].cron \notin cronDB
    /\ stopped \subseteq deletes
    /\ StoppedIsForgotten

\* An event no update of which was cut short: it was created; it has both its
\* documents, or one DeleteEvent has deleted the first and is about to delete
\* the second, or neither.
PairInv ==
    /\ \A c \in (events \cup deletes) \ harmed : postPc[c] = "created"
    /\ events \ harmed \subseteq cronDB
    /\ \A d \in Deleters :
          del[d].pc \in PastEvent /\ del[d].cron \notin harmed =>
              /\ del[d].cron \notin events
              /\ del[d].pc # "remove" => del[d].cron \in cronDB
              /\ \A e \in Deleters :
                    del[e].pc \in PastEvent /\ del[e].cron = del[d].cron => e = d
    /\ \A c \in cronDB \ harmed :
          \/ c \in events
          \/ postPc[c] \in {"verify", "event", "undoCron"}
          \/ \E d \in Deleters :
                del[d].cron = c /\ del[d].pc \in {"exists", "cron"}

\* A process that is down runs no scheduler and serves no request; and keys to
\* be removed are those of deleted or refused events.
DownInv ==
    /\ ~up => ~running
    /\ ~up => \A c \in Crons : postPc[c] \notin NotStored \ {"idle"}
    /\ \A c \in removes : c \in deletes \/ postPc[c] = "rejected"

DocsInv == TypeOK /\ FreshInv /\ StoredInv /\ DeleteInv /\ PairInv /\ DownInv

-----------------------------------------------------------------------------
(* The jobs *)

\* Every job, and every run, is of the event its schedule came with.
OwnInv ==
    /\ ~Crashes => up
    /\ \A c \in Crons : entries[c] \in {None, c}
    /\ \A r \in runs : r[1] = r[2]
    /\ ChildrenNameTheirEvent

\* The scheduler has been told of every stopped event it still has a job of.
ToldInv ==
    \A c \in stopped \ harmed : entries[c] # None => c \in removes

\* What is created, or about to be, is on its schedule.
OnScheduleInv ==
    \A c \in Crons \ Once :
        /\ running
        /\ \/ postPc[c] \in {"cron", "verify", "event"}
           \/ postPc[c] = "created" /\ c \notin deletes
        => entries[c] # None

\* Every job belongs to an event that is stored, to a PostRepeatingEvent that
\* will store or undo it, or to a DeleteEvent that will remove it.
StoppableInv ==
    \A c \in Crons : entries[c] # None /\ c \notin removes /\ c \notin harmed =>
        \/ c \in events
        \/ postPc[c] \in {"cron", "verify", "event", "undoCron", "undoJob"}
        \/ \E d \in Deleters : del[d].cron = c /\ del[d].pc \in PastEvent

JobsInv == DocsInv /\ OwnInv /\ ToldInv /\ OnScheduleInv /\ StoppableInv

-----------------------------------------------------------------------------
LEMMA DocsInit == Init => DocsInv
<1> SUFFICES ASSUME Init PROVE DocsInv
  OBVIOUS
<1>1. TypeOK
  BY DEF Init, TypeOK, NoDelete, NoTypeDelete, PostPcs
<1>2. FreshInv /\ StoredInv /\ DownInv
  BY DEF Init, FreshInv, StoredInv, CreatedIsPersistent, DownInv, NotStored
<1>3. DeleteInv /\ PairInv
  BY DEF Init, DeleteInv, StoppedIsForgotten, PairInv, NoDelete, PastEvent
<1> QED
  BY <1>1, <1>2, <1>3 DEF DocsInv

\* A step that leaves both documents, the requests and the history alone.
LEMMA DocsQuiet ==
    ASSUME DocsInv, TypeOK',
           UNCHANGED <<events, cronDB, postPc, del, stopped, deletes, harmed>>,
           removes' \subseteq removes,
           up' = TRUE \/ (up' = up /\ running' = running)
    PROVE  DocsInv'
<1> USE DEF DocsInv
<1>1. FreshInv' /\ StoredInv' /\ DeleteInv'
  BY DEF FreshInv, StoredInv, CreatedIsPersistent, DeleteInv,
         StoppedIsForgotten
<1>2. PairInv'
  BY DEF PairInv
<1>3. DownInv'
  BY DEF DownInv
<1> QED
  BY <1>1, <1>2, <1>3

LEMMA DocsOther ==
    ASSUME DocsInv,
           \/ \E c \in Crons : Tick(c)
           \/ \E d \in TypeDeleters, type \in Types : DeleteEventType(d, type)
           \/ \E d \in TypeDeleters : DeleteTypeDoc(d)
           \/ \E r \in Crons \X Crons : RunJob(r) \/ DeleteChild(r)
           \/ InitCron \/ InitCronPanics
    PROVE  DocsInv'
<1> USE DEF index, scheduler, history
<1>1. ASSUME NEW c \in Crons, Tick(c) PROVE DocsInv'
  <2>1. TypeOK'
    BY <1>1 DEF Tick, DocsInv, TypeOK
  <2> QED
    BY <1>1, <2>1, DocsQuiet DEF Tick
<1>2. ASSUME NEW d \in TypeDeleters, NEW type \in Types,
             DeleteEventType(d, type)
      PROVE  DocsInv'
  <2>1. TypeOK'
    BY <1>2 DEF DeleteEventType, DocsInv, TypeOK
  <2> QED
    BY <1>2, <2>1, DocsQuiet DEF DeleteEventType
<1>3. ASSUME NEW d \in TypeDeleters, DeleteTypeDoc(d) PROVE DocsInv'
  <2>1. TypeOK'
    BY <1>3 DEF DeleteTypeDoc, NoTypeDelete, DocsInv, TypeOK
  <2> QED
    BY <1>3, <2>1, DocsQuiet DEF DeleteTypeDoc
<1>4. ASSUME NEW r \in Crons \X Crons, RunJob(r) \/ DeleteChild(r)
      PROVE  DocsInv'
  <2>1. TypeOK'
    BY <1>4 DEF RunJob, DeleteChild, DocsInv, TypeOK
  <2> QED
    BY <1>4, <2>1, DocsQuiet DEF RunJob, DeleteChild
<1>5. CASE InitCron
  <2>1. TypeOK'
    BY <1>5 DEF InitCron, Pages, DocsInv, TypeOK
  <2> QED
    BY <1>5, <2>1, DocsQuiet DEF InitCron
<1>6. CASE InitCronPanics
  <2>1. TypeOK'
    BY <1>6 DEF InitCronPanics, Pages, DocsInv, TypeOK
  <2> QED
    BY <1>6, <2>1, DocsQuiet DEF InitCronPanics
<1> QED
  BY <1>1, <1>2, <1>3, <1>4, <1>5, <1>6

LEMMA DocsPost ==
    ASSUME DocsInv, NEW c \in Crons, PostRepeatingEvent(c) \/ PostStep(c)
    PROVE  DocsInv'
<1> USE DEF DocsInv, Post, index, scheduler, history
<1>1. CASE PostRepeatingEvent(c)
  <2> USE <1>1 DEF PostRepeatingEvent
  <2>1. TypeOK'
    BY DEF TypeOK, PostPcs
  <2>2. FreshInv' /\ StoredInv'
    BY DEF TypeOK, FreshInv, StoredInv, CreatedIsPersistent, NotStored
  <2>3. DeleteInv'
    BY DEF TypeOK, DeleteInv, StoppedIsForgotten, FreshInv, NotStored
  <2>4. PairInv'
    BY DEF TypeOK, PairInv, FreshInv, StoredInv, DeleteInv, NotStored, PastEvent
  <2>5. DownInv'
    BY DEF TypeOK, DownInv, NotStored
  <2> QED
    BY <2>1, <2>2, <2>3, <2>4, <2>5
<1>2. CASE AddJob(c)
  <2> USE <1>2 DEF AddJob
  <2>1. TypeOK'
    BY DEF TypeOK, PostPcs
  <2>2. FreshInv' /\ StoredInv'
    BY DEF TypeOK, FreshInv, StoredInv, CreatedIsPersistent, NotStored
  <2>3. DeleteInv'
    BY DEF TypeOK, DeleteInv, StoppedIsForgotten, FreshInv, NotStored
  <2>4. PairInv'
    BY DEF TypeOK, PairInv, FreshInv, StoredInv, DeleteInv, NotStored, PastEvent
  <2>5. DownInv'
    BY DEF TypeOK, DownInv, NotStored
  <2> QED
    BY <2>1, <2>2, <2>3, <2>4, <2>5
<1>3. CASE StoreCron(c)
  <2> USE <1>3 DEF StoreCron
  <2>1. TypeOK'
    BY DEF TypeOK, PostPcs
  <2>2. FreshInv' /\ StoredInv'
    BY DEF TypeOK, FreshInv, StoredInv, CreatedIsPersistent, NotStored
  <2>3. DeleteInv'
    BY DEF TypeOK, DeleteInv, StoppedIsForgotten, FreshInv, NotStored
  <2>4. PairInv'
    BY DEF TypeOK, PairInv, FreshInv, StoredInv, DeleteInv, NotStored, PastEvent
  <2>5. DownInv'
    BY DEF TypeOK, DownInv, NotStored
  <2> QED
    BY <2>1, <2>2, <2>3, <2>4, <2>5
<1>4. CASE VerifyEvent(c)
  <2> USE <1>4 DEF VerifyEvent
  <2>1. TypeOK'
    BY DEF TypeOK, PostPcs
  <2>2. FreshInv' /\ StoredInv'
    BY DEF TypeOK, FreshInv, StoredInv, CreatedIsPersistent, NotStored
  <2>3. DeleteInv'
    BY DEF TypeOK, DeleteInv, StoppedIsForgotten, FreshInv, NotStored
  <2>4. PairInv'
    BY DEF TypeOK, PairInv, FreshInv, StoredInv, DeleteInv, NotStored, PastEvent
  <2>5. DownInv'
    BY DEF TypeOK, DownInv, NotStored
  <2> QED
    BY <2>1, <2>2, <2>3, <2>4, <2>5
<1>5. CASE StoreEvent(c)
  <2> USE <1>5 DEF StoreEvent
  <2>1. TypeOK'
    BY DEF TypeOK, PostPcs
  <2>2. FreshInv' /\ StoredInv'
    BY DEF TypeOK, FreshInv, StoredInv, CreatedIsPersistent, NotStored
  <2>3. DeleteInv'
    BY DEF TypeOK, DeleteInv, StoppedIsForgotten, FreshInv, NotStored
  <2>4. PairInv'
    BY DEF TypeOK, PairInv, FreshInv, StoredInv, DeleteInv, NotStored, PastEvent
  <2>5. DownInv'
    BY DEF TypeOK, DownInv, NotStored
  <2> QED
    BY <2>1, <2>2, <2>3, <2>4, <2>5
<1>6. CASE UndoCron(c)
  <2> USE <1>6 DEF UndoCron
  <2>1. TypeOK'
    BY DEF TypeOK, PostPcs
  <2>2. FreshInv' /\ StoredInv'
    BY DEF TypeOK, FreshInv, StoredInv, CreatedIsPersistent, NotStored
  <2>3. DeleteInv'
    BY DEF TypeOK, DeleteInv, StoppedIsForgotten, FreshInv, NotStored
  <2>4. PairInv'
    BY DEF TypeOK, PairInv, FreshInv, StoredInv, DeleteInv, NotStored, PastEvent
  <2>5. DownInv'
    BY DEF TypeOK, DownInv, NotStored
  <2> QED
    BY <2>1, <2>2, <2>3, <2>4, <2>5
<1>7. CASE UndoJob(c)
  <2> USE <1>7 DEF UndoJob
  <2>1. TypeOK'
    BY DEF TypeOK, PostPcs
  <2>2. FreshInv' /\ StoredInv'
    BY DEF TypeOK, FreshInv, StoredInv, CreatedIsPersistent, NotStored
  <2>3. DeleteInv'
    BY DEF TypeOK, DeleteInv, StoppedIsForgotten, FreshInv, NotStored
  <2>4. PairInv'
    BY DEF TypeOK, PairInv, FreshInv, StoredInv, DeleteInv, NotStored, PastEvent
  <2>5. DownInv'
    BY DEF TypeOK, DownInv, NotStored
  <2> QED
    BY <2>1, <2>2, <2>3, <2>4, <2>5
<1> QED
  BY <1>1, <1>2, <1>3, <1>4, <1>5, <1>6, <1>7 DEF PostStep

\* What the two ways a step of DeleteEvent ends do to the deleters.
LEMMA DeleterMoves ==
    ASSUME TypeOK, NEW d \in Deleters,
           NEW next \in {"exists", "cron", "remove"}, Step(d, next) \/ End(d)
    PROVE  /\ \A e \in Deleters : e # d => del'[e] = del[e]
           /\ End(d) => del'[d].pc = "idle" /\ del'[d].cron = None
           /\ Step(d, next) => del'[d].pc = next /\ del'[d].cron = del[d].cron
           /\ del' \in [Deleters -> [pc : {"idle", "event", "exists", "cron",
                                           "remove"},
                                    cron : Crons \cup {None}]]
BY DEF Step, End, NoDelete, TypeOK

LEMMA DocsDelete ==
    ASSUME DocsInv, NEW d \in Deleters,
           \/ \E c \in Crons : DeleteEvent(d, c)
           \/ DeleteStep(d)
    PROVE  DocsInv'
<1> USE DEF DocsInv, index, scheduler, history
<1>1. ASSUME NEW c \in Crons, DeleteEvent(d, c) PROVE DocsInv'
  <2> USE <1>1 DEF DeleteEvent
  <2>1. TypeOK'
    BY DEF TypeOK
  <2>2. /\ \A e \in Deleters : e # d => del'[e] = del[e]
        /\ del'[d].pc = "event" /\ del'[d].cron = c
    BY DEF TypeOK
  <2>3. FreshInv' /\ StoredInv' /\ DownInv'
    BY DEF TypeOK, FreshInv, StoredInv, CreatedIsPersistent, DownInv
  <2>4. DeleteInv'
    BY <2>2 DEF DeleteInv, StoppedIsForgotten
  <2>5. PairInv'
    BY <2>2 DEF PairInv, PastEvent, NoDelete
  <2> QED
    BY <2>1, <2>3, <2>4, <2>5
<1>2. CASE DeleteEventDoc(d)
  <2> USE <1>2 DEF DeleteEventDoc
  <2> DEFINE c == del[d].cron
  <2>1. /\ \A e \in Deleters : e # d => del'[e] = del[e]
        /\ End(d) => del'[d].pc = "idle" /\ del'[d].cron = None
        /\ Step(d, "exists") => del'[d].pc = "exists" /\ del'[d].cron = c
        /\ c \in Crons
    BY DeleterMoves, CronAssumption DEF TypeOK, PairInv, DeleteInv
  <2>2. TypeOK'
    BY DeleterMoves, <2>1 DEF TypeOK
  <2>3. FreshInv' /\ StoredInv' /\ DownInv'
    BY <2>1 DEF TypeOK, FreshInv, StoredInv, CreatedIsPersistent, DeleteInv,
                DownInv, NotStored
  <2>4. DeleteInv'
    BY <2>1 DEF DeleteInv, StoppedIsForgotten
  <2>5. PairInv'
    BY <2>1 DEF PairInv, PastEvent, DeleteInv, FreshInv, NotStored
  <2> QED
    BY <2>2, <2>3, <2>4, <2>5
<1>3. CASE CronExists(d)
  <2> USE <1>3 DEF CronExists
  <2> DEFINE c == del[d].cron
  <2>1. /\ \A e \in Deleters : e # d => del'[e] = del[e]
        /\ End(d) => del'[d].pc = "idle" /\ del'[d].cron = None
        /\ Step(d, "cron") => del'[d].pc = "cron" /\ del'[d].cron = c
        /\ c \in Crons
    BY DeleterMoves, CronAssumption DEF TypeOK, PairInv, DeleteInv
  <2>2. TypeOK'
    BY DeleterMoves, <2>1 DEF TypeOK
  <2>3. FreshInv' /\ StoredInv' /\ DownInv'
    BY <2>1 DEF TypeOK, FreshInv, StoredInv, CreatedIsPersistent, DeleteInv,
                DownInv, NotStored
  <2>4. DeleteInv'
    BY <2>1 DEF DeleteInv, StoppedIsForgotten
  <2>5. PairInv'
    BY <2>1 DEF PairInv, PastEvent, DeleteInv, FreshInv, NotStored
  <2> QED
    BY <2>2, <2>3, <2>4, <2>5
<1>4. CASE DeleteCron(d)
  <2> USE <1>4 DEF DeleteCron
  <2> DEFINE c == del[d].cron
  <2>1. /\ \A e \in Deleters : e # d => del'[e] = del[e]
        /\ End(d) => del'[d].pc = "idle" /\ del'[d].cron = None
        /\ Step(d, "remove") => del'[d].pc = "remove" /\ del'[d].cron = c
        /\ c \in Crons
    BY DeleterMoves, CronAssumption DEF TypeOK, PairInv, DeleteInv
  <2>2. TypeOK'
    BY DeleterMoves, <2>1 DEF TypeOK
  <2>3. FreshInv' /\ StoredInv' /\ DownInv'
    BY <2>1 DEF TypeOK, FreshInv, StoredInv, CreatedIsPersistent, DeleteInv,
                DownInv, NotStored
  <2>4. DeleteInv'
    BY <2>1 DEF DeleteInv, StoppedIsForgotten
  <2>5. PairInv'
    BY <2>1 DEF PairInv, PastEvent, DeleteInv, FreshInv, NotStored
  <2> QED
    BY <2>2, <2>3, <2>4, <2>5
<1>5. CASE RemoveJob(d)
  <2> USE <1>5 DEF RemoveJob
  <2> DEFINE c == del[d].cron
  <2>1. /\ \A e \in Deleters : e # d => del'[e] = del[e]
        /\ End(d) => del'[d].pc = "idle" /\ del'[d].cron = None
        /\ Step(d, "remove") => del'[d].pc = "remove" /\ del'[d].cron = c
        /\ c \in Crons
    BY DeleterMoves, CronAssumption DEF TypeOK, PairInv, DeleteInv
  <2>2. TypeOK'
    BY DeleterMoves, <2>1 DEF TypeOK
  <2>3. FreshInv' /\ StoredInv' /\ DownInv'
    BY <2>1 DEF TypeOK, FreshInv, StoredInv, CreatedIsPersistent, DeleteInv,
                DownInv, NotStored
  <2>4. DeleteInv'
    BY <2>1 DEF DeleteInv, StoppedIsForgotten
  <2>5. PairInv'
    BY <2>1 DEF PairInv, PastEvent, DeleteInv, FreshInv, NotStored
  <2> QED
    BY <2>2, <2>3, <2>4, <2>5
<1> QED
  BY <1>1, <1>2, <1>3, <1>4, <1>5 DEF DeleteStep

LEMMA DocsCrash ==
    ASSUME DocsInv, Crash
    PROVE  DocsInv'
<1> USE DEF DocsInv, Crash, index
<1>1. TypeOK'
  BY DEF TypeOK, NoDelete, NoTypeDelete, PostPcs
<1>2. FreshInv' /\ StoredInv' /\ DownInv'
  BY DEF TypeOK, FreshInv, StoredInv, CreatedIsPersistent, DownInv, NotStored
<1>3. DeleteInv'
  BY DEF TypeOK, DeleteInv, StoppedIsForgotten, NoDelete
<1>4. PairInv'
  BY DEF TypeOK, PairInv, NoDelete, PastEvent
<1> QED
  BY <1>1, <1>2, <1>3, <1>4

\* What holds of the two documents of every repeating event, in whatever order
\* requests, failures, crashes and restarts come.
THEOREM DocsInvHolds == Spec => []DocsInv
<1>1. DocsInv /\ [Next]_vars => DocsInv'
  <2> SUFFICES ASSUME DocsInv, [Next]_vars PROVE DocsInv'
    OBVIOUS
  <2>1. CASE UNCHANGED vars
    <3>1. TypeOK'
      BY <2>1 DEF vars, index, scheduler, history, DocsInv, TypeOK
    <3> QED
      BY <2>1, <3>1, DocsQuiet DEF vars, index, scheduler, history
  <2> QED
    BY <2>1, DocsPost, DocsDelete, DocsCrash, DocsOther DEF Next
<1> QED
  BY <1>1, DocsInit, PTL DEF Spec

\* Indices, scheduler and requests keep their types.
THEOREM TypeOKHolds == Spec => []TypeOK
BY DocsInvHolds, PTL DEF DocsInv

\* A repeating event that was answered with 201 keeps both documents until a
\* DeleteEvent begins on it (Service.go:672-720).
THEOREM CreatedIsPersistentHolds == Spec => []CreatedIsPersistent
<1>1. DocsInv => CreatedIsPersistent
  BY DEF DocsInv, StoredInv
<1> QED
  BY <1>1, DocsInvHolds, PTL

\* The 200 of DeleteEvent is final for the crons index, so for InitCron
\* (Service.go:943-960).
THEOREM StoppedIsForgottenHolds == Spec => []StoppedIsForgotten
<1>1. DocsInv => StoppedIsForgotten
  BY DEF DocsInv, DeleteInv
<1> QED
  BY <1>1, DocsInvHolds, PTL

-----------------------------------------------------------------------------
LEMMA JobsInit == Init => JobsInv
<1> SUFFICES ASSUME Init PROVE JobsInv
  OBVIOUS
<1>1. OwnInv
  BY DEF Init, OwnInv, ChildrenNameTheirEvent
<1>2. ToldInv /\ OnScheduleInv /\ StoppableInv
  BY DEF Init, ToldInv, OnScheduleInv, StoppableInv
<1> QED
  BY <1>1, <1>2, DocsInit DEF JobsInv

\* A step that leaves the jobs and what they depend on alone.
LEMMA JobsQuiet ==
    ASSUME JobsInv, DocsInv', OwnInv',
           UNCHANGED <<running, entries, removes, events, postPc, del, stopped,
                       deletes, harmed>>
    PROVE  JobsInv'
BY DEF JobsInv, ToldInv, OnScheduleInv, StoppableInv

LEMMA JobsOther ==
    ASSUME JobsInv, DocsInv',
           \/ \E d \in TypeDeleters, type \in Types : DeleteEventType(d, type)
           \/ \E d \in TypeDeleters : DeleteTypeDoc(d)
           \/ \E r \in Crons \X Crons : RunJob(r) \/ DeleteChild(r)
    PROVE  JobsInv'
<1> USE DEF index, scheduler, history
<1>1. OwnInv'
  BY DEF JobsInv, OwnInv, ChildrenNameTheirEvent, DeleteEventType,
         DeleteTypeDoc, RunJob, DeleteChild
<1> QED
  BY <1>1, JobsQuiet DEF DeleteEventType, DeleteTypeDoc, RunJob, DeleteChild

LEMMA JobsPost ==
    ASSUME JobsInv, DocsInv', NEW c \in Crons,
           PostRepeatingEvent(c) \/ PostStep(c)
    PROVE  JobsInv'
<1> USE DEF JobsInv, Post, index, scheduler, history
<1>1. CASE PostRepeatingEvent(c)
  <2> USE <1>1 DEF PostRepeatingEvent
  <2>1. OwnInv'
    BY DEF DocsInv, TypeOK, OwnInv, ChildrenNameTheirEvent
  <2>2. ToldInv'
    BY DEF DocsInv, TypeOK, ToldInv, FreshInv, DeleteInv, NotStored
  <2>3. OnScheduleInv'
    BY CronAssumption DEF DocsInv, TypeOK, OnScheduleInv
  <2>4. StoppableInv'
    BY DEF DocsInv, TypeOK, StoppableInv
  <2> QED
    BY <2>1, <2>2, <2>3, <2>4
<1>2. CASE AddJob(c)
  <2> USE <1>2 DEF AddJob
  <2>1. OwnInv'
    BY DEF DocsInv, TypeOK, OwnInv, ChildrenNameTheirEvent
  <2>2. ToldInv'
    BY DEF DocsInv, TypeOK, ToldInv, FreshInv, DeleteInv, NotStored
  <2>3. OnScheduleInv'
    BY CronAssumption DEF DocsInv, TypeOK, OnScheduleInv
  <2>4. StoppableInv'
    BY DEF DocsInv, TypeOK, StoppableInv
  <2> QED
    BY <2>1, <2>2, <2>3, <2>4
<1>3. CASE StoreCron(c)
  <2> USE <1>3 DEF StoreCron
  <2>1. OwnInv'
    BY DEF DocsInv, TypeOK, OwnInv, ChildrenNameTheirEvent
  <2>2. ToldInv'
    BY DEF DocsInv, TypeOK, ToldInv, FreshInv, DeleteInv, NotStored
  <2>3. OnScheduleInv'
    BY CronAssumption DEF DocsInv, TypeOK, OnScheduleInv
  <2>4. StoppableInv'
    BY DEF DocsInv, TypeOK, StoppableInv
  <2> QED
    BY <2>1, <2>2, <2>3, <2>4
<1>4. CASE VerifyEvent(c)
  <2> USE <1>4 DEF VerifyEvent
  <2>1. OwnInv'
    BY DEF DocsInv, TypeOK, OwnInv, ChildrenNameTheirEvent
  <2>2. ToldInv'
    BY DEF DocsInv, TypeOK, ToldInv, FreshInv, DeleteInv, NotStored
  <2>3. OnScheduleInv'
    BY CronAssumption DEF DocsInv, TypeOK, OnScheduleInv
  <2>4. StoppableInv'
    BY DEF DocsInv, TypeOK, StoppableInv
  <2> QED
    BY <2>1, <2>2, <2>3, <2>4
<1>5. CASE StoreEvent(c)
  <2> USE <1>5 DEF StoreEvent
  <2>1. OwnInv'
    BY DEF DocsInv, TypeOK, OwnInv, ChildrenNameTheirEvent
  <2>2. ToldInv'
    BY DEF DocsInv, TypeOK, ToldInv, FreshInv, DeleteInv, NotStored
  <2>3. OnScheduleInv'
    BY CronAssumption DEF DocsInv, TypeOK, OnScheduleInv
  <2>4. StoppableInv'
    BY DEF DocsInv, TypeOK, StoppableInv
  <2> QED
    BY <2>1, <2>2, <2>3, <2>4
<1>6. CASE UndoCron(c)
  <2> USE <1>6 DEF UndoCron
  <2>1. OwnInv'
    BY DEF DocsInv, TypeOK, OwnInv, ChildrenNameTheirEvent
  <2>2. ToldInv'
    BY DEF DocsInv, TypeOK, ToldInv, FreshInv, DeleteInv, NotStored
  <2>3. OnScheduleInv'
    BY CronAssumption DEF DocsInv, TypeOK, OnScheduleInv
  <2>4. StoppableInv'
    BY DEF DocsInv, TypeOK, StoppableInv
  <2> QED
    BY <2>1, <2>2, <2>3, <2>4
<1>7. CASE UndoJob(c)
  <2> USE <1>7 DEF UndoJob
  <2>1. OwnInv'
    BY DEF DocsInv, TypeOK, OwnInv, ChildrenNameTheirEvent
  <2>2. ToldInv'
    BY DEF DocsInv, TypeOK, ToldInv, FreshInv, DeleteInv, NotStored
  <2>3. OnScheduleInv'
    BY CronAssumption DEF DocsInv, TypeOK, OnScheduleInv
  <2>4. StoppableInv'
    BY DEF DocsInv, TypeOK, StoppableInv
  <2> QED
    BY <2>1, <2>2, <2>3, <2>4
<1> QED
  BY <1>1, <1>2, <1>3, <1>4, <1>5, <1>6, <1>7 DEF PostStep

LEMMA JobsDelete ==
    ASSUME JobsInv, DocsInv', NEW d \in Deleters,
           \/ \E c \in Crons : DeleteEvent(d, c)
           \/ DeleteStep(d)
    PROVE  JobsInv'
<1> USE DEF JobsInv, index, scheduler, history
<1>1. OwnInv'
  BY DEF OwnInv, ChildrenNameTheirEvent, DeleteEvent, DeleteStep,
         DeleteEventDoc, CronExists, DeleteCron, RemoveJob
<1>2. OnScheduleInv'
  BY DEF OnScheduleInv, DeleteEvent, DeleteStep, DeleteEventDoc, CronExists,
         DeleteCron, RemoveJob
<1>3. ASSUME NEW c \in Crons, DeleteEvent(d, c) PROVE JobsInv'
  <2> USE <1>3 DEF DeleteEvent
  <2>1. \A e \in Deleters : del[e].pc \in PastEvent => del'[e] = del[e]
    BY DEF DocsInv, TypeOK, PastEvent, NoDelete
  <2>2. ToldInv' /\ StoppableInv'
    BY <2>1 DEF ToldInv, StoppableInv
  <2> QED
    BY <1>1, <1>2, <2>2
<1>4. CASE DeleteEventDoc(d)
  <2> USE <1>4 DEF DeleteEventDoc
  <2> DEFINE c == del[d].cron
  <2>1. /\ \A e \in Deleters : e # d => del'[e] = del[e]
        /\ End(d) => del'[d].pc = "idle" /\ del'[d].cron = None
        /\ Step(d, "exists") => del'[d].pc = "exists" /\ del'[d].cron = c
    BY DeleterMoves DEF DocsInv
  <2>2. ToldInv'
    BY DEF ToldInv, DocsInv, PairInv, PastEvent
  <2>3. StoppableInv'
    BY <2>1 DEF StoppableInv, DocsInv, PairInv, PastEvent
  <2> QED
    BY <1>1, <1>2, <2>2, <2>3
<1>5. CASE CronExists(d)
  <2> USE <1>5 DEF CronExists
  <2> DEFINE c == del[d].cron
  <2>1. /\ \A e \in Deleters : e # d => del'[e] = del[e]
        /\ End(d) => del'[d].pc = "idle" /\ del'[d].cron = None
        /\ Step(d, "cron") => del'[d].pc = "cron" /\ del'[d].cron = c
    BY DeleterMoves DEF DocsInv
  <2>2. ToldInv'
    BY DEF ToldInv, DocsInv, PairInv, PastEvent
  <2>3. StoppableInv'
    BY <2>1 DEF StoppableInv, DocsInv, PairInv, PastEvent
  <2> QED
    BY <1>1, <1>2, <2>2, <2>3
<1>6. CASE DeleteCron(d)
  <2> USE <1>6 DEF DeleteCron
  <2> DEFINE c == del[d].cron
  <2>1. /\ \A e \in Deleters : e # d => del'[e] = del[e]
        /\ End(d) => del'[d].pc = "idle" /\ del'[d].cron = None
        /\ Step(d, "remove") => del'[d].pc = "remove" /\ del'[d].cron = c
    BY DeleterMoves DEF DocsInv
  <2>2. ToldInv'
    BY DEF ToldInv, DocsInv, PairInv, PastEvent
  <2>3. StoppableInv'
    BY <2>1 DEF StoppableInv, DocsInv, PairInv, PastEvent
  <2> QED
    BY <1>1, <1>2, <2>2, <2>3
<1>7. CASE RemoveJob(d)
  <2> USE <1>7 DEF RemoveJob
  <2> DEFINE c == del[d].cron
  <2>1. /\ \A e \in Deleters : e # d => del'[e] = del[e]
        /\ End(d) => del'[d].pc = "idle" /\ del'[d].cron = None
        /\ Step(d, "remove") => del'[d].pc = "remove" /\ del'[d].cron = c
    BY DeleterMoves DEF DocsInv
  <2>2. ToldInv'
    BY DEF ToldInv, DocsInv, PairInv, PastEvent
  <2>3. StoppableInv'
    BY <2>1 DEF StoppableInv, DocsInv, PairInv, PastEvent
  <2> QED
    BY <1>1, <1>2, <2>2, <2>3
<1> QED
  BY <1>3, <1>4, <1>5, <1>6, <1>7 DEF DeleteStep

LEMMA JobsTick ==
    ASSUME JobsInv, DocsInv', NEW c \in Crons, Tick(c)
    PROVE  JobsInv'
<1> USE DEF JobsInv, Tick, index, history
<1>1. entries[c] = c
  BY DEF OwnInv
<1>2. OwnInv'
  BY <1>1 DEF DocsInv, TypeOK, OwnInv, ChildrenNameTheirEvent
<1>3. ToldInv'
  BY <1>1 DEF DocsInv, TypeOK, ToldInv
<1>4. OnScheduleInv'
  BY <1>1 DEF DocsInv, TypeOK, DownInv, OnScheduleInv, FreshInv, NotStored
<1>5. StoppableInv'
  BY <1>1 DEF DocsInv, TypeOK, StoppableInv
<1> QED
  BY <1>2, <1>3, <1>4, <1>5

LEMMA JobsCrash ==
    ASSUME JobsInv, DocsInv', Crash
    PROVE  JobsInv'
<1> USE DEF JobsInv, Crash, index
<1>1. OwnInv'
  BY CronAssumption DEF OwnInv, ChildrenNameTheirEvent
<1>2. ToldInv' /\ OnScheduleInv' /\ StoppableInv'
  BY DEF ToldInv, OnScheduleInv, StoppableInv, DocsInv, DeleteInv, TypeOK
<1> QED
  BY <1>1, <1>2

LEMMA JobsInitCron ==
    ASSUME OwnJobs, JobsInv, DocsInv', InitCron
    PROVE  JobsInv'
<1> USE DEF JobsInv, InitCron, index, history
<1>1. \A a, b \in Crons : a = b
  BY DEF OwnJobs, OwnInv
<1>2. PICK page \in Pages :
          \E last \in IF page = {} THEN {None} ELSE page :
              entries' = [c \in Crons |-> IF c \in page THEN last ELSE None]
  OBVIOUS
<1>3. page \subseteq cronDB /\ cronDB \subseteq Crons
  BY DEF Pages, DocsInv, TypeOK
<1>4. \A c \in Crons : entries'[c] = IF c \in page THEN c ELSE None
  BY <1>1, <1>2, <1>3
<1>5. page = cronDB
  <2>1. page # {} => page = cronDB
    BY <1>1, <1>3
  <2>2. page = {} => Cardinality(page) = 0
    BY FS_EmptySet
  <2> QED
    BY <2>1, <2>2, CronAssumption DEF Pages
<1>6. OwnInv'
  BY <1>4 DEF OwnInv, ChildrenNameTheirEvent
<1>7. ToldInv'
  BY <1>4, <1>5 DEF ToldInv, DocsInv, DeleteInv, StoppedIsForgotten, TypeOK
<1>8. OnScheduleInv'
  BY <1>4, <1>5, CronAssumption DEF OnScheduleInv, DocsInv, StoredInv,
     CreatedIsPersistent, DownInv, NotStored
<1>9. StoppableInv'
  BY <1>4, <1>5 DEF StoppableInv, DocsInv, PairInv, PastEvent
<1> QED
  BY <1>6, <1>7, <1>8, <1>9

\* With a single repeating event nothing was added before the panic.
LEMMA JobsInitCronPanics ==
    ASSUME OwnJobs, JobsInv, DocsInv', InitCronPanics
    PROVE  JobsInv'
<1> USE DEF JobsInv, InitCronPanics, index, history
<1>1. \A a, b \in Crons : a = b
  BY DEF OwnJobs, OwnInv
<1>2. PICK page \in Pages : \E last \in page :
          \E added \in SUBSET {c \in page \ {last} : TypeOf[c] \in eventTypes} :
              entries' = [c \in Crons |-> IF c \in added THEN last ELSE None]
  OBVIOUS
<1>3. page \subseteq Crons
  BY DEF Pages, DocsInv, TypeOK
<1>4. \A c \in Crons : entries'[c] = None
  BY <1>1, <1>2, <1>3
<1>5. OwnInv'
  BY <1>4 DEF OwnInv, ChildrenNameTheirEvent
<1>6. ToldInv' /\ StoppableInv'
  BY <1>4, CronAssumption DEF ToldInv, StoppableInv, DocsInv, DeleteInv, TypeOK
<1>7. OnScheduleInv'
  BY <1>4 DEF OnScheduleInv, DocsInv, DownInv
<1> QED
  BY <1>5, <1>6, <1>7

\* What holds of the jobs, as long as every job is of its own event.
THEOREM JobsInvHolds ==
    ASSUME OwnJobs
    PROVE  Spec => []JobsInv
<1>1. JobsInv /\ DocsInv' /\ [Next]_vars => JobsInv'
  <2> SUFFICES ASSUME JobsInv, DocsInv', [Next]_vars PROVE JobsInv'
    OBVIOUS
  <2>1. CASE UNCHANGED vars
    <3>1. OwnInv'
      BY <2>1 DEF vars, index, scheduler, JobsInv, OwnInv,
                  ChildrenNameTheirEvent
    <3> QED
      BY <2>1, <3>1, JobsQuiet DEF vars, index, scheduler, history
  <2> QED
    BY <2>1, JobsPost, JobsDelete, JobsTick, JobsOther, JobsCrash, JobsInitCron,
       JobsInitCronPanics DEF Next
<1> QED
  BY <1>1, JobsInit, DocsInvHolds, PTL DEF Spec

\* No job of a type of the users that nobody can stop: no PostRepeatingEvent and
\* no DeleteEvent all of whose calls succeed leaves one in the scheduler
\* (Service.go:710, 959).
THEOREM JobsCanBeStoppedHolds ==
    ASSUME OwnJobs
    PROVE  Spec => []JobsCanBeStopped
<1>1. JobsInv => JobsCanBeStopped
  BY CronAssumption DEF JobsInv, OwnInv, StoppableInv, JobsCanBeStopped,
     Deletable, PastEvent
<1> QED
  BY <1>1, JobsInvHolds, PTL

\* Neither the scheduler's lazy removal nor a restart drops the entry of a
\* repeating event that nobody deletes (Service.go:1382-1410).
THEOREM CreatedIsScheduledHolds ==
    ASSUME OwnJobs
    PROVE  Spec => []CreatedIsScheduled
<1>1. JobsInv => CreatedIsScheduled
  BY DEF JobsInv, OnScheduleInv, CreatedIsScheduled
<1> QED
  BY <1>1, JobsInvHolds, PTL

\* A schedule posts events created by its own event (Service.go:669): what
\* RE_children refutes for two repeating events and a restart holds otherwise.
THEOREM ChildrenNameTheirEventHolds ==
    ASSUME OwnJobs
    PROVE  Spec => []ChildrenNameTheirEvent
<1>1. JobsInv => ChildrenNameTheirEvent
  BY DEF JobsInv, OwnInv
<1> QED
  BY <1>1, JobsInvHolds, PTL

\* After the 200 of DeleteEvent the scheduler starts no more runs of the event:
\* only Tick starts one, and it knows of every stopped event (Service.go:959).
THEOREM StoppedStaysStoppedHolds ==
    ASSUME OwnJobs
    PROVE  Spec => StoppedStaysStopped
<1>1. JobsInv /\ [Next]_vars =>
        [\A r \in runs' \ runs : r[2] \notin stopped \ harmed]_vars
  <2> SUFFICES ASSUME JobsInv, Next, NEW r \in runs' \ runs
               PROVE  r[2] \notin stopped \ harmed
    OBVIOUS
  <2>1. PICK c \in Crons : Tick(c)
    BY DEF Next, PostRepeatingEvent, PostStep, AddJob, StoreCron, VerifyEvent,
       StoreEvent, UndoCron, UndoJob, DeleteEvent, DeleteStep, DeleteEventDoc,
       CronExists, DeleteCron, RemoveJob, DeleteEventType, DeleteTypeDoc,
       RunJob, DeleteChild, Crash, InitCron, InitCronPanics, scheduler
  <2>2. entries[c] = c /\ c \notin removes /\ r[2] = c
    BY <2>1 DEF Tick, JobsInv, OwnInv
  <2> QED
    BY <2>2, CronAssumption DEF JobsInv, ToldInv
<1> QED
  BY <1>1, JobsInvHolds, PTL DEF Spec, StoppedStaysStopped
=============================================================================
