-------------------------- MODULE EventTypesProofs --------------------------
(***************************************************************************)
(* Theorems about EventTypes, for any event types, names, triggers, events *)
(* and deleters, with and without failing calls and crashes.               *)
(***************************************************************************)
EXTENDS EventTypes, TLAPS

AtWork == {"search", "post", "mapping", "undo", "created"}

\* A created event type's name is taken for good; what was created before a
\* request began is created still; and a request that passed NameExists asks
\* for a name none of them has.
NamesInv ==
    /\ \A x \in TypeIds : typePc[x] = "created" => NameOf[x] \in mappings
    /\ \A x \in TypeIds : \A y \in before[x] : typePc[y] = "created"
    /\ \A x \in TypeIds : typePc[x] \in AtWork =>
          \A y \in before[x] : NameOf[y] # NameOf[x]

\* A document that no cut short request left belongs to a request past PostData.
DocsInv ==
    \A x \in typeDocs \ harmed : typePc[x] \in {"mapping", "undo", "created"}

\* Nothing is stored for a request that has not ended.
RefsInv ==
    \A r \in Refs : ref[r].pc # "ended" => refDoc[r] = None

\* The references a search saw when a deletion began and that are stored still
\* are seen by every search until it ends.
ShieldInv ==
    /\ \A d \in Deleters : \A r \in shield[d] :
          /\ del[d].type \in TypeIds
          /\ refDoc[r] = del[d].type
          /\ refSeen[r] = del[d].type
    /\ \A d \in Deleters : del[d].pc \in {"events", "delete"} =>
          shield[d] \cap Triggers = {}
    /\ VisibleRefsProtect

TypesInv == TypeOK /\ NamesInv /\ DocsInv /\ RefsInv /\ ShieldInv

-----------------------------------------------------------------------------
LEMMA TypesInit == Init => TypesInv
<1> SUFFICES ASSUME Init PROVE TypesInv
  OBVIOUS
<1>1. TypeOK
  BY DEF Init, TypeOK, NoRequest, TypeOrNone
<1>2. NamesInv /\ DocsInv
  BY DEF Init, NamesInv, DocsInv, AtWork
<1>3. RefsInv
  BY DEF Init, RefsInv
<1>4. ShieldInv
  BY DEF Init, ShieldInv, VisibleRefsProtect, NoRequest
<1> QED
  BY <1>1, <1>2, <1>3, <1>4 DEF TypesInv

\* Every step of PostEventType leaves the references and the deleters alone.
LEMMA RefsQuiet ==
    ASSUME TypesInv, UNCHANGED <<refStore, ref, del, shield>>
    PROVE  RefsInv' /\ ShieldInv'
BY DEF TypesInv, RefsInv, ShieldInv, VisibleRefsProtect, refStore

\* Every step of the others leaves the creation of event types alone, and
\* stores no event type.
LEMMA NamesQuiet ==
    ASSUME TypesInv, UNCHANGED <<mappings, typePc, before, harmed>>,
           typeDocs' \subseteq typeDocs
    PROVE  NamesInv' /\ DocsInv'
BY DEF TypesInv, NamesInv, DocsInv

LEMMA PostStepNames ==
    ASSUME TypesInv, NEW x \in TypeIds, PostEventType(x) \/ PostStep(x)
    PROVE  TypesInv'
<1> USE DEF TypesInv
<1>1. RefsInv' /\ ShieldInv'
  BY RefsQuiet DEF PostEventType, PostStep, GetIDByName, StoreType, AddMapping,
                   UndoType, refStore, history
<1>2. CASE PostEventType(x)
  <2> USE <1>2 DEF PostEventType, Post, typeStore
  <2>1. TypeOK'
    BY DEF TypeOK, refStore
  <2>2. NamesInv'
    BY DEF TypeOK, NamesInv, AtWork
  <2>3. DocsInv'
    BY DEF TypeOK, DocsInv
  <2> QED
    BY <1>1, <2>1, <2>2, <2>3
<1>3. CASE GetIDByName(x)
  <2> USE <1>3 DEF GetIDByName, Post, typeStore, history
  <2>1. TypeOK'
    BY DEF TypeOK, refStore
  <2>2. NamesInv'
    BY DEF TypeOK, NamesInv, AtWork
  <2>3. DocsInv'
    BY DEF TypeOK, DocsInv
  <2> QED
    BY <1>1, <2>1, <2>2, <2>3
<1>4. CASE StoreType(x)
  <2> USE <1>4 DEF StoreType, Post
  <2>1. TypeOK'
    BY DEF TypeOK, refStore
  <2>2. NamesInv'
    BY DEF TypeOK, NamesInv, AtWork
  <2>3. DocsInv'
    BY DEF TypeOK, DocsInv
  <2> QED
    BY <1>1, <2>1, <2>2, <2>3
<1>5. CASE AddMapping(x)
  <2> USE <1>5 DEF AddMapping, Post, history
  <2>1. TypeOK'
    BY DEF TypeOK, refStore, Names
  <2>2. NamesInv'
    BY DEF TypeOK, NamesInv, AtWork
  <2>3. DocsInv'
    BY DEF TypeOK, DocsInv
  <2> QED
    BY <1>1, <2>1, <2>2, <2>3
<1>6. CASE UndoType(x)
  <2> USE <1>6 DEF UndoType, Post
  <2>1. TypeOK'
    BY DEF TypeOK, refStore
  <2>2. NamesInv'
    BY DEF TypeOK, NamesInv, AtWork
  <2>3. DocsInv'
    BY DEF TypeOK, DocsInv
  <2> QED
    BY <1>1, <2>1, <2>2, <2>3
<1> QED
  BY <1>2, <1>3, <1>4, <1>5, <1>6 DEF PostStep

LEMMA RefStep ==
    ASSUME TypesInv, NEW r \in Refs,
           \/ \E x \in TypeIds : PostRef(r, x)
           \/ VerifyRef(r) \/ StoreRef(r) \/ DeleteRef(r)
    PROVE  TypesInv'
<1> USE DEF TypesInv
<1>1. NamesInv' /\ DocsInv'
  BY NamesQuiet DEF PostRef, VerifyRef, StoreRef, DeleteRef, typeStore, history
<1>2. ASSUME NEW x \in TypeIds, PostRef(r, x) PROVE TypesInv'
  <2> USE <1>2 DEF PostRef, history, typeStore, refStore
  <2>1. TypeOK'
    BY DEF TypeOK, TypeOrNone
  <2>2. RefsInv'
    BY DEF TypeOK, RefsInv, NoRequest
  <2>3. ShieldInv'
    BY DEF ShieldInv, VisibleRefsProtect
  <2> QED
    BY <1>1, <2>1, <2>2, <2>3
<1>3. CASE VerifyRef(r)
  <2> USE <1>3 DEF VerifyRef, history, typeStore, refStore
  <2>1. TypeOK'
    BY DEF TypeOK
  <2>2. RefsInv'
    BY DEF TypeOK, RefsInv
  <2>3. ShieldInv'
    BY DEF ShieldInv, VisibleRefsProtect
  <2> QED
    BY <1>1, <2>1, <2>2, <2>3
<1>4. CASE StoreRef(r)
  <2> USE <1>4 DEF StoreRef, history, typeStore
  <2>1. TypeOK'
    BY DEF TypeOK
  <2>2. RefsInv'
    BY DEF TypeOK, RefsInv
  <2>3. \A d \in Deleters : r \notin shield[d]
    BY EventTypesAssumption DEF RefsInv, ShieldInv
  <2>4. ShieldInv'
    BY <2>3 DEF TypeOK, ShieldInv, VisibleRefsProtect
  <2> QED
    BY <1>1, <2>1, <2>2, <2>4
<1>5. CASE DeleteRef(r)
  <2> USE <1>5 DEF DeleteRef, typeStore
  <2>1. TypeOK'
    BY DEF TypeOK, TypeOrNone
  <2>2. RefsInv'
    BY DEF TypeOK, RefsInv
  <2>3. ShieldInv'
    BY DEF TypeOK, ShieldInv, VisibleRefsProtect
  <2> QED
    BY <1>1, <2>1, <2>2, <2>3
<1> QED
  BY <1>2, <1>3, <1>4, <1>5

LEMMA DeleteTypeStep ==
    ASSUME TypesInv, NEW d \in Deleters,
           \/ \E x \in TypeIds : DeleteEventType(d, x)
           \/ DeleteStep(d)
    PROVE  TypesInv'
<1> USE DEF TypesInv
<1>1. NamesInv' /\ DocsInv'
  BY NamesQuiet DEF DeleteEventType, DeleteStep, CheckTriggers, CheckEvents,
                    DeleteTypeDoc, typeStore
<1>2. RefsInv'
  BY DEF RefsInv, DeleteEventType, DeleteStep, CheckTriggers, CheckEvents,
         DeleteTypeDoc, refStore
<1>3. ASSUME NEW x \in TypeIds, DeleteEventType(d, x) PROVE TypesInv'
  <2> USE <1>3 DEF DeleteEventType, typeStore, refStore
  <2>1. TypeOK'
    BY DEF TypeOK, TypeOrNone, Hits
  <2>2. ShieldInv'
    BY DEF TypeOK, ShieldInv, VisibleRefsProtect, Hits
  <2> QED
    BY <1>1, <1>2, <2>1, <2>2
<1>4. ASSUME End(d), UNCHANGED <<typesSeen, refStore, typePc, ref, before, harmed>>,
             UNCHANGED mappings, typeDocs' \subseteq typeDocs
      PROVE  TypesInv'
  <2> USE <1>4 DEF End, refStore, NoRequest
  <2>1. TypeOK'
    BY DEF TypeOK, TypeOrNone
  <2>2. ShieldInv'
    BY DEF TypeOK, ShieldInv, VisibleRefsProtect
  <2> QED
    BY <1>1, <1>2, <2>1, <2>2
<1>5. CASE CheckTriggers(d) /\ Hits(Triggers, del[d].type) = {} /\ Go(d, "events")
           /\ UNCHANGED shield
  <2> USE <1>5 DEF CheckTriggers, Go, typeStore, refStore
  <2>1. TypeOK'
    BY DEF TypeOK
  <2>2. shield[d] \cap Triggers = {}
    BY DEF ShieldInv, Hits
  <2>3. ShieldInv'
    BY <2>2 DEF TypeOK, ShieldInv, VisibleRefsProtect
  <2> QED
    BY <1>1, <1>2, <2>1, <2>3
<1>6. CASE CheckEvents(d) /\ Hits(Events, del[d].type) = {} /\ Go(d, "delete")
           /\ UNCHANGED shield
  <2> USE <1>6 DEF CheckEvents, Go, typeStore, refStore
  <2>1. TypeOK'
    BY DEF TypeOK
  <2>2. shield[d] = {}
    BY DEF TypeOK, ShieldInv, Hits, Refs
  <2>3. ShieldInv'
    BY <2>2 DEF TypeOK, ShieldInv, VisibleRefsProtect
  <2> QED
    BY <1>1, <1>2, <2>1, <2>3
<1> QED
  BY <1>3, <1>4, <1>5, <1>6 DEF DeleteStep, CheckTriggers, CheckEvents,
     DeleteTypeDoc, typeStore

LEMMA RefreshStep ==
    ASSUME TypesInv,
           RefreshTypes \/ RefreshRefs(Triggers) \/ RefreshRefs(Events)
    PROVE  TypesInv'
<1> USE DEF TypesInv, RefreshTypes, RefreshRefs, history, typeStore
<1>1. TypeOK'
  BY DEF TypeOK, refStore
<1>2. NamesInv' /\ DocsInv'
  BY NamesQuiet
<1>3. RefsInv'
  BY DEF RefsInv, refStore
<1>4. ShieldInv'
  BY DEF TypeOK, ShieldInv, VisibleRefsProtect, refStore
<1> QED
  BY <1>1, <1>2, <1>3, <1>4

LEMMA CrashStep ==
    ASSUME TypesInv, Crash
    PROVE  TypesInv'
<1> USE DEF TypesInv, Crash, typeStore
<1>1. TypeOK'
  BY DEF TypeOK, refStore, NoRequest, TypeOrNone
<1>2. NamesInv' /\ DocsInv'
  BY DEF TypeOK, NamesInv, DocsInv, AtWork
<1>3. RefsInv'
  BY DEF TypeOK, RefsInv, refStore
<1>4. ShieldInv'
  BY DEF TypeOK, ShieldInv, VisibleRefsProtect, NoRequest
<1> QED
  BY <1>1, <1>2, <1>3, <1>4

\* The inductive invariant: types of the state, what is known of names and
\* documents of requests under way, and what the searches of a deletion see.
THEOREM TypesInvHolds == Spec => []TypesInv
<1>1. TypesInv /\ [Next]_vars => TypesInv'
  <2> SUFFICES ASSUME TypesInv, [Next]_vars PROVE TypesInv'
    OBVIOUS
  <2>1. CASE UNCHANGED vars
    BY <2>1 DEF vars, typeStore, refStore, history, TypesInv, TypeOK, NamesInv,
                DocsInv, RefsInv, ShieldInv, VisibleRefsProtect
  <2> QED
    BY <2>1, PostStepNames, RefStep, DeleteTypeStep, RefreshStep, CrashStep
       DEF Next
<1> QED
  BY <1>1, TypesInit, PTL DEF Spec

\* The stores, the searches and the requests keep their types.
THEOREM TypeOKHolds == Spec => []TypeOK
BY TypesInvHolds, PTL DEF TypesInv

\* An event type's name stays taken for every later POST /eventType, stale
\* searches, failing calls, crashes and deletions notwithstanding
\* (Service.go:457-471).
THEOREM NamesStayTakenHolds == Spec => []NamesStayTaken
<1>1. TypesInv => NamesStayTaken
  BY DEF TypesInv, NamesInv, NamesStayTaken, AtWork
<1> QED
  BY <1>1, TypesInvHolds, PTL

\* PostEventType undoes what it stored before it refuses (Service.go:500-504).
THEOREM RefusedLeavesNothingHolds == Spec => []RefusedLeavesNothing
<1>1. TypesInv => RefusedLeavesNothing
  BY DEF TypesInv, DocsInv, RefusedLeavesNothing
<1> QED
  BY <1>1, TypesInvHolds, PTL

\* A stored event type can take events and be deleted again: its mapping is
\* there (Service.go:492-504).
THEOREM TypesHaveMappingHolds == Spec => []TypesHaveMapping
<1>1. TypesInv => TypesHaveMapping
  BY DEF TypesInv, TypeOK, NamesInv, DocsInv, TypesHaveMapping
<1> QED
  BY <1>1, TypesInvHolds, PTL

\* No number of refreshes, posts and deletions between the two searches of
\* DeleteEventType hides a reference that the first moment saw
\* (Service.go:540-558).
THEOREM VisibleRefsProtectHolds == Spec => []VisibleRefsProtect
<1>1. TypesInv => VisibleRefsProtect
  BY DEF TypesInv, ShieldInv
<1> QED
  BY <1>1, TypesInvHolds, PTL
=============================================================================
