----------------------------- MODULE WipeProofs -----------------------------
(***************************************************************************)
(* Theorems about Wipe, for any populations, sizes of pages and numbers of *)
(* goroutines.                                                             *)
(***************************************************************************)
EXTENDS Wipe, SequenceFacts, FiniteSetTheorems

LEMMA WipeInit == Init => WipeInv
<1> SUFFICES ASSUME Init PROVE WipeInv
  OBVIOUS
<1>1. SeenInv
  BY DEF Init, SeenInv
<1>2. CheckedInv
  BY DEF Init, CheckedInv, Idle, Kinds
<1>3. NothingDangles
  BY WipeAssumption DEF Init, NothingDangles, Objects, Kinds
<1> QED
  BY <1>1, <1>2, <1>3 DEF WipeInv

\* A step after which no goroutine has newly found a type not in use, and no
\* type is deleted.
LEMMA WipeQuiet ==
    ASSUME WipeInv, SeenInv', docs["types"] \subseteq docs'["types"],
           \A k \in Kinds : docs'[k] \subseteq docs[k],
           \A id \in PageIds :
               page'["types"][id].pc = "checked" =>
                   page'["types"][id] = page["types"][id]
    PROVE  WipeInv'
<1>1. CheckedInv'
  BY DEF WipeInv, CheckedInv, Object, Kinds
<1>2. NothingDangles'
  BY DEF WipeInv, NothingDangles, Kinds
<1> QED
  BY <1>1, <1>2 DEF WipeInv

\* What GoOn does to the goroutines of event types.
LEMMA GoOnPages ==
    ASSUME SeenInv, NEW k \in Kinds, NEW id \in PageIds, NEW next, NEW left,
           GoOn(k, id, next, left)
    PROVE  /\ DOMAIN page' = Kinds
           /\ \A x \in Kinds : DOMAIN page'[x] = PageIds
           /\ \A x \in Kinds : \A i \in PageIds :
                 (x # k \/ i # id) => page'[x][i] = page[x][i]
           /\ page'[k][id].pc \in {"idle", next}
           /\ page'[k][id].pc = "idle" \/ page'[k][id].left = left
<1>1. page'[k][id] = IF left = << >> THEN Idle ELSE [pc |-> next, left |-> left]
  BY DEF GoOn, SeenInv
<1>2. /\ page'[k][id].pc \in {"idle", next}
      /\ page'[k][id].pc = "idle" \/ page'[k][id].left = left
  BY <1>1 DEF Idle
<1> QED
  BY <1>2 DEF GoOn, SeenInv

LEMMA WipeTool ==
    ASSUME WipeInv, NEW k \in Kinds,
           GetNumObjects(k) \/ StartBatch(k) \/ EndBatch(k)
    PROVE  WipeInv'
<1>1. UNCHANGED <<order, docs, seen>>
  BY DEF GetNumObjects, StartBatch, Start, EndBatch, stores
<1>2. CASE UNCHANGED page
  <2>1. SeenInv'
    BY <1>1, <1>2 DEF WipeInv, SeenInv, Objects
  <2> QED
    BY <1>1, <1>2, <2>1, WipeQuiet
<1>3. CASE StartBatch(k)
  <2>1. page' = [page EXCEPT ![k] =
                   [id \in PageIds |-> IF id \in Batch(k)
                        THEN [pc |-> "list", left |-> << >>] ELSE @[id]]]
    BY <1>3 DEF StartBatch, Start
  <2>2. SeenInv'
    BY <1>1, <2>1 DEF WipeInv, SeenInv, Objects
  <2>3. \A id \in PageIds : page'["types"][id].pc = "checked" =>
            page'["types"][id] = page["types"][id]
    BY <2>1 DEF WipeInv, SeenInv, Kinds
  <2> QED
    BY <1>1, <2>2, <2>3, WipeQuiet
<1> QED
  BY <1>2, <1>3 DEF GetNumObjects, EndBatch

LEMMA WipeListPage ==
    ASSUME WipeInv, NEW k \in Kinds, NEW id \in PageIds,
           ListPage(k, id) \/ (k = "events" /\ ReadTypes(id))
    PROVE  WipeInv'
<1>1. UNCHANGED <<order, docs, seen>>
  BY DEF ListPage, ReadTypes, stores
<1>2. PICK next \in {"types", "delete"} : \E left : GoOn(k, id, next, left)
  BY DEF ListPage, ReadTypes
<1>3. PICK left : GoOn(k, id, next, left)
  BY <1>2
<1>4. SeenInv'
  BY <1>1, <1>3, GoOnPages DEF WipeInv, SeenInv, Objects
<1>5. \A i \in PageIds : page'["types"][i].pc = "checked" =>
          page'["types"][i] = page["types"][i]
  BY <1>3, GoOnPages DEF WipeInv, Kinds
<1> QED
  BY <1>1, <1>4, <1>5, WipeQuiet

LEMMA WipeDelete ==
    ASSUME WipeInv, NEW k \in Kinds, NEW id \in PageIds,
           DeleteObject(k, id) \/ (k = "events" /\ DeleteEvent(id))
    PROVE  WipeInv'
<1>1. UNCHANGED <<order, seen>> /\ k # "types"
  BY DEF DeleteObject, DeleteEvent
<1>2. \/ UNCHANGED docs
      \/ \E x : docs' = [docs EXCEPT ![k] = @ \ {x}]
  BY DEF DeleteObject, DeleteEvent
<1>3. PICK left : GoOn(k, id, "delete", left)
  BY DEF DeleteObject, DeleteEvent
<1>4. /\ DOMAIN docs' = Kinds
      /\ \A x \in Kinds : docs'[x] \subseteq docs[x]
      /\ docs'["types"] = docs["types"]
  BY <1>1, <1>2 DEF WipeInv, SeenInv, Kinds
<1>5. SeenInv'
  BY <1>1, <1>3, <1>4, GoOnPages DEF WipeInv, SeenInv, Objects
<1>6. \A i \in PageIds : page'["types"][i].pc = "checked" =>
          page'["types"][i] = page["types"][i]
  BY <1>3, GoOnPages DEF WipeInv, Kinds
<1> QED
  BY <1>4, <1>5, <1>6, WipeQuiet

LEMMA WipeCheckType ==
    ASSUME WipeInv, NEW id \in PageIds, CheckType(id)
    PROVE  WipeInv'
<1>1. UNCHANGED <<order, docs, seen>>
  BY DEF CheckType, stores
<1>2. "types" \in Kinds
  BY DEF Kinds
<1>3. CASE GoOn("types", id, "delete", Rest("types", id))
  <2>1. SeenInv'
    BY <1>1, <1>2, <1>3, GoOnPages DEF WipeInv, SeenInv, Objects
  <2>2. \A i \in PageIds : page'["types"][i].pc = "checked" =>
            page'["types"][i] = page["types"][i]
    BY <1>2, <1>3, GoOnPages DEF WipeInv
  <2> QED
    BY <1>1, <2>1, <2>2, WipeQuiet
<1>4. CASE /\ ~ InUse(Object("types", id))
           /\ GoOn("types", id, "checked", page["types"][id].left)
  <2>1. SeenInv'
    BY <1>1, <1>2, <1>4, GoOnPages DEF WipeInv, SeenInv, Objects
  <2>2. \A r \in docs["events"] \cup docs["triggers"] :
            TypeOf[r] # Object("types", id)
    BY <1>4 DEF InUse, Refs, WipeInv, SeenInv, Kinds
  <2>3. CheckedInv'
    <3> SUFFICES ASSUME NEW i \in PageIds, page'["types"][i].pc = "checked",
                        NEW r \in docs["events"] \cup docs["triggers"]
                 PROVE  TypeOf[r] # Object("types", i)'
      BY <1>1 DEF CheckedInv
    <3>1. CASE i = id
      BY <3>1, <1>2, <1>4, <2>2, GoOnPages DEF Object, WipeInv
    <3>2. CASE i # id
      BY <3>2, <1>2, <1>4, GoOnPages DEF Object, WipeInv, CheckedInv
    <3> QED
      BY <3>1, <3>2
  <2>4. NothingDangles'
    BY <1>1 DEF WipeInv, NothingDangles
  <2> QED
    BY <2>1, <2>3, <2>4 DEF WipeInv
<1> QED
  BY <1>3, <1>4 DEF CheckType

LEMMA WipeDeleteType ==
    ASSUME WipeInv, NEW id \in PageIds, DeleteType(id)
    PROVE  WipeInv'
<1> DEFINE t == Object("types", id)
<1>1. /\ UNCHANGED <<order, seen>>
      /\ GoOn("types", id, "delete", Rest("types", id))
      /\ page["types"][id].pc = "checked"
  BY DEF DeleteType, At
<1>2. "types" \in Kinds /\ "events" \in Kinds /\ "triggers" \in Kinds
  BY DEF Kinds
<1>3. /\ DOMAIN docs' = Kinds
      /\ \A k \in Kinds : docs'[k] \subseteq docs[k]
      /\ docs'["events"] = docs["events"] /\ docs'["triggers"] = docs["triggers"]
      /\ docs["types"] \ {t} \subseteq docs'["types"]
  BY <1>2 DEF DeleteType, WipeInv, SeenInv
<1>4. SeenInv'
  BY <1>1, <1>2, <1>3, GoOnPages DEF WipeInv, SeenInv, Objects
<1>5. \A i \in PageIds : page'["types"][i].pc = "checked" =>
          page'["types"][i] = page["types"][i]
  BY <1>1, <1>2, GoOnPages DEF WipeInv
<1>6. CheckedInv'
  BY <1>3, <1>5 DEF WipeInv, CheckedInv, Object
<1>7. NothingDangles'
  BY <1>1, <1>3 DEF WipeInv, CheckedInv, NothingDangles
<1> QED
  BY <1>4, <1>6, <1>7 DEF WipeInv

LEMMA WipeRefresh ==
    ASSUME WipeInv, NEW k \in Kinds, Refresh(k)
    PROVE  WipeInv'
<1>1. UNCHANGED <<order, docs, page>>
  BY DEF Refresh
<1>2. SeenInv'
  BY <1>1 DEF Refresh, WipeInv, SeenInv, Objects
<1> QED
  BY <1>1, <1>2, WipeQuiet

LEMMA WipeStep == WipeInv /\ [Next]_vars => WipeInv'
<1> SUFFICES ASSUME WipeInv, [Next]_vars PROVE WipeInv'
  OBVIOUS
<1>1. ASSUME NEW k \in Kinds, ToolStep(k) PROVE WipeInv'
  <2>1. CASE GetNumObjects(k) \/ StartBatch(k) \/ EndBatch(k)
    BY <2>1, WipeTool
  <2>2. ASSUME NEW id \in PageIds, PageStep(k, id) PROVE WipeInv'
    BY <2>2, WipeListPage, WipeDelete, WipeCheckType, WipeDeleteType
       DEF PageStep
  <2> QED
    BY <1>1, <2>1, <2>2 DEF ToolStep
<1>2. ASSUME NEW k \in Kinds, Refresh(k) PROVE WipeInv'
  BY <1>2, WipeRefresh
<1>3. CASE UNCHANGED vars
  <2>1. SeenInv'
    BY <1>3 DEF vars, WipeInv, SeenInv, Objects
  <2> QED
    BY <1>3, <2>1, WipeQuiet DEF vars
<1> QED
  BY <1>1, <1>2, <1>3 DEF Next

\* However the goroutines of the tool interleave, whatever calls fail and
\* however far searches lag behind: DeleteEventType never takes the type from
\* an event or a trigger that is still stored.
THEOREM NothingDanglesHolds == Spec => []NothingDangles
<1>1. WipeInv => NothingDangles
  BY DEF WipeInv
<1> QED
  BY <1>1, WipeInit, WipeStep, PTL DEF Spec

-----------------------------------------------------------------------------
(* The wait groups *)

\* The goroutines at work, those of the batch that were started, and the pages
\* a full batch has.
Active(k)  == {id \in PageIds : page[k][id].pc # "idle"}
Started(k) == Batch(k) \cap PageIds
Slots(k)   == first[k]..(first[k] + MaxThreads - 1)

\* A batch is waited for until maxThreads goroutines have ended, so only a full
\* one comes to its end.
GroupInv ==
    /\ wg \in [Kinds -> 0..MaxThreads]
    /\ tool \in [Kinds -> {"count", "batch", "wait", "done", "dead"}]
    /\ numPages \in [Kinds -> Nat]
    /\ first \in [Kinds -> Nat]
    /\ \A k \in Kinds :
          /\ tool[k] \in {"count", "batch"} => Active(k) = {}
          /\ tool[k] = "wait" =>
                /\ first[k] < numPages[k]
                /\ Active(k) \subseteq Started(k)
                /\ wg[k] + Cardinality(Started(k) \ Active(k)) = MaxThreads
    /\ shifted \subseteq Kinds /\ failed \subseteq Kinds

\* Arithmetic of pages.
LEMMA NumberOfPages ==
    ASSUME NEW n \in Nat
    PROVE  Pages(n) \in Nat /\ (n = 0 => Pages(n) = 0)
BY WipeAssumption DEF Pages

\* The hits of a search are counted.
LEMMA Counted ==
    ASSUME SeenInv, NEW k \in Kinds
    PROVE  ObjectCount(k) \in Nat
<1>1. order[k] \in Seq(Objects(k))
  BY WipeAssumption DEF SeenInv, Objects
<1>2. /\ IsFiniteSet(DOMAIN order[k])
      /\ order[k] \in Surjection(DOMAIN order[k], Objects(k))
  <2>1. Len(order[k]) \in Nat /\ DOMAIN order[k] = 1..Len(order[k])
    BY <1>1
  <2>2. IsFiniteSet(1..Len(order[k]))
    BY <2>1, FS_Interval
  <2>3. order[k] \in [DOMAIN order[k] -> Objects(k)]
    BY <1>1
  <2> QED
    BY <2>1, <2>2, <2>3 DEF Surjection, Objects, ToSet
<1>3. IsFiniteSet(Objects(k))
  BY <1>2, FS_Surjection
<1>4. IsFiniteSet(seen[k])
  BY <1>3, FS_Subset DEF SeenInv
<1> QED
  BY <1>4, FS_CardinalityType DEF ObjectCount

\* The pages of a batch that are done with are no more than its slots, and
\* only if the batch is full they are as many.
LEMMA BatchSlots ==
    ASSUME GroupInv, NEW k \in Kinds, NEW S \in SUBSET Started(k)
    PROVE  /\ IsFiniteSet(S)
           /\ Cardinality(S) \in 0..MaxThreads
           /\ Cardinality(S) = MaxThreads => S = Slots(k)
<1>1. first[k] \in Nat /\ MaxThreads \in Nat \ {0}
  BY WipeAssumption DEF GroupInv
<1>2. IsFiniteSet(Slots(k)) /\ Cardinality(Slots(k)) = MaxThreads
  BY <1>1, FS_Interval, SMTT(30) DEF Slots
<1>3. S \in SUBSET Slots(k)
  BY DEF Started, Batch, Slots
<1>4. /\ IsFiniteSet(S) /\ Cardinality(S) <= MaxThreads
      /\ MaxThreads = Cardinality(S) => Slots(k) = S
  BY <1>2, <1>3, FS_Subset
<1>5. Cardinality(S) \in Nat
  BY <1>4, FS_CardinalityType
<1> QED
  BY <1>1, <1>4, <1>5

LEMMA GroupInit == Init => GroupInv
<1> SUFFICES ASSUME Init PROVE GroupInv
  OBVIOUS
<1>1. \A k \in Kinds : Active(k) = {}
  BY DEF Init, Active, Idle
<1> QED
  BY <1>1, WipeAssumption DEF Init, GroupInv

\* A step of one kind leaves the others alone.
LEMMA GroupOf ==
    ASSUME GroupInv, NEW k \in Kinds,
           wg' \in [Kinds -> 0..MaxThreads],
           tool' \in [Kinds -> {"count", "batch", "wait", "done", "dead"}],
           numPages' \in [Kinds -> Nat], first' \in [Kinds -> Nat],
           shifted' \subseteq Kinds, failed' \subseteq Kinds,
           \A x \in Kinds \ {k} :
              /\ wg'[x] = wg[x] /\ tool'[x] = tool[x]
              /\ numPages'[x] = numPages[x] /\ first'[x] = first[x]
              /\ Active(x)' = Active(x),
           tool'[k] \in {"count", "batch"} => Active(k)' = {},
           tool'[k] = "wait" =>
                /\ first'[k] < numPages'[k]
                /\ Active(k)' \subseteq Started(k)'
                /\ wg'[k] + Cardinality(Started(k) \ Active(k))' = MaxThreads
    PROVE  GroupInv'
<1>1. \A x \in Kinds \ {k} : Started(x)' = Started(x)
  BY DEF Started, Batch
<1>2. ASSUME NEW x \in Kinds \ {k}, tool'[x] = "wait"
      PROVE  /\ first'[x] < numPages'[x]
             /\ Active(x)' \subseteq Started(x)'
             /\ wg'[x] + Cardinality(Started(x) \ Active(x))' = MaxThreads
  BY <1>1, <1>2 DEF GroupInv
<1>3. ASSUME NEW x \in Kinds \ {k}
      PROVE  tool'[x] \in {"count", "batch"} => Active(x)' = {}
  BY DEF GroupInv
<1> QED
  BY <1>2, <1>3 DEF GroupInv

LEMMA GroupGetNumObjects ==
    ASSUME GroupInv, WipeInv, NEW k \in Kinds, GetNumObjects(k)
    PROVE  GroupInv'
<1>1. /\ tool[k] = "count" /\ UNCHANGED <<first, wg, page, shifted>>
      /\ failed' \subseteq Kinds
  BY DEF GetNumObjects, GroupInv
<1>2. \A x \in Kinds : Active(x)' = Active(x)
  BY <1>1 DEF Active
<1>3. ObjectCount(k) \in Nat /\ Pages(ObjectCount(k)) \in Nat
  BY Counted, NumberOfPages DEF WipeInv
<1>4. CASE /\ numPages' = [numPages EXCEPT ![k] = Pages(ObjectCount(k))]
           /\ tool' = [tool EXCEPT ![k] =
                          IF ObjectCount(k) = 0 THEN "done" ELSE "batch"]
  <2>1. tool'[k] \in {"done", "batch"}
    BY <1>4 DEF GroupInv
  <2> QED
    BY <1>1, <1>2, <1>3, <1>4, <2>1, GroupOf DEF GroupInv
<1>5. CASE tool' = [tool EXCEPT ![k] = "done"] /\ UNCHANGED numPages
  <2>1. tool'[k] = "done"
    BY <1>1, <1>5 DEF GroupInv
  <2> QED
    BY <1>1, <1>2, <1>5, <2>1, GroupOf DEF GroupInv
<1>6. CASE tool' = [x \in Kinds |-> "dead"] /\ UNCHANGED numPages
  BY <1>1, <1>6 DEF GroupInv
<1> QED
  BY <1>4, <1>5, <1>6 DEF GetNumObjects

LEMMA GroupStartBatch ==
    ASSUME GroupInv, WipeInv, NEW k \in Kinds, StartBatch(k)
    PROVE  GroupInv'
<1>1. /\ tool[k] = "batch" /\ first[k] < numPages[k]
      /\ page' = [page EXCEPT ![k] =
                     [id \in PageIds |-> IF id \in Batch(k)
                          THEN [pc |-> "list", left |-> << >>] ELSE @[id]]]
      /\ wg' = [wg EXCEPT ![k] = MaxThreads]
      /\ tool' = [tool EXCEPT ![k] = "wait"]
      /\ UNCHANGED <<numPages, first, shifted, failed>>
  BY DEF StartBatch, Start
<1>2. \A x \in Kinds \ {k} : Active(x)' = Active(x)
  BY <1>1 DEF Active, WipeInv, SeenInv
<1>3. Active(k)' = Started(k)
  <2>1. Active(k) = {}
    BY <1>1 DEF GroupInv
  <2>2. \A id \in PageIds : page'[k][id] =
            IF id \in Batch(k) THEN [pc |-> "list", left |-> << >>]
                               ELSE page[k][id]
    BY <1>1 DEF WipeInv, SeenInv
  <2> QED
    BY <2>1, <2>2 DEF Active, Started
<1>4. Started(k)' = Started(k)
  BY <1>1 DEF Started, Batch
<1>5. Cardinality(Started(k) \ Active(k))' = 0
  BY <1>3, <1>4, FS_EmptySet
<1>6. /\ wg' \in [Kinds -> 0..MaxThreads] /\ wg'[k] = MaxThreads
      /\ tool' \in [Kinds -> {"count", "batch", "wait", "done", "dead"}]
      /\ tool'[k] = "wait"
      /\ \A x \in Kinds \ {k} : wg'[x] = wg[x] /\ tool'[x] = tool[x]
  BY <1>1, WipeAssumption DEF GroupInv
<1>7. /\ numPages' \in [Kinds -> Nat] /\ first' \in [Kinds -> Nat]
      /\ shifted' \subseteq Kinds /\ failed' \subseteq Kinds
  BY <1>1 DEF GroupInv
<1>8. wg'[k] + Cardinality(Started(k) \ Active(k))' = MaxThreads
  BY <1>5, <1>6, WipeAssumption
<1>9. Active(k)' \subseteq Started(k)'
  BY <1>3, <1>4
<1>10. \A x \in Kinds \ {k} :
          /\ wg'[x] = wg[x] /\ tool'[x] = tool[x]
          /\ numPages'[x] = numPages[x] /\ first'[x] = first[x]
          /\ Active(x)' = Active(x)
  BY <1>1, <1>2, <1>6
<1>11. first'[k] < numPages'[k]
  BY <1>1
<1> QED
  BY <1>6, <1>7, <1>8, <1>9, <1>10, <1>11, GroupOf

\* Only a full batch comes to its end, and then none of it is at work.
LEMMA BatchOver ==
    ASSUME GroupInv, NEW k \in Kinds, tool[k] = "wait", wg[k] = 0
    PROVE  Started(k) \ Active(k) = Slots(k) /\ Active(k) = {}
<1>1. MaxThreads \in Nat \ {0} /\ Active(k) \subseteq Started(k)
  BY WipeAssumption DEF GroupInv
<1>2. Cardinality(Started(k) \ Active(k)) \in 0..MaxThreads
  BY BatchSlots
<1>3. wg[k] + Cardinality(Started(k) \ Active(k)) = MaxThreads
  BY DEF GroupInv
<1>4. Cardinality(Started(k) \ Active(k)) = MaxThreads
  BY <1>1, <1>2, <1>3
<1>5. Started(k) \ Active(k) = Slots(k)
  BY <1>4, BatchSlots
<1>6. Active(k) = {}
  BY <1>1, <1>5 DEF Started, Batch, Slots
<1> QED
  BY <1>5, <1>6

LEMMA GroupEndBatch ==
    ASSUME GroupInv, WipeInv, NEW k \in Kinds, EndBatch(k)
    PROVE  GroupInv'
<1>1. /\ tool[k] = "wait" /\ wg[k] = 0
      /\ first' = [first EXCEPT ![k] = @ + MaxThreads]
      /\ tool' = [tool EXCEPT ![k] = IF first'[k] < numPages[k]
                                     THEN "batch" ELSE "done"]
      /\ UNCHANGED <<numPages, wg, page, shifted, failed>>
  BY DEF EndBatch
<1>2. \A x \in Kinds : Active(x)' = Active(x)
  BY <1>1 DEF Active
<1>3. /\ MaxThreads \in Nat \ {0} /\ first[k] \in Nat /\ numPages[k] \in Nat
      /\ first'[k] = first[k] + MaxThreads
      /\ first[k] < numPages[k] /\ Active(k) \subseteq Started(k)
  BY <1>1, WipeAssumption DEF GroupInv
<1>4. Active(k) = {}
  BY <1>1, BatchOver
<1>5. tool'[k] \in {"batch", "done"}
  BY <1>1 DEF GroupInv
<1>6. /\ first' \in [Kinds -> Nat]
      /\ tool' \in [Kinds -> {"count", "batch", "wait", "done", "dead"}]
      /\ \A x \in Kinds \ {k} : first'[x] = first[x] /\ tool'[x] = tool[x]
  BY <1>1, <1>3 DEF GroupInv
<1>7. /\ wg' \in [Kinds -> 0..MaxThreads] /\ numPages' \in [Kinds -> Nat]
      /\ shifted' \subseteq Kinds /\ failed' \subseteq Kinds
      /\ \A x \in Kinds \ {k} : wg'[x] = wg[x] /\ numPages'[x] = numPages[x]
  BY <1>1 DEF GroupInv
<1>8. Active(k)' = {}
  BY <1>2, <1>4
<1> QED
  BY <1>2, <1>5, <1>6, <1>7, <1>8, GroupOf

\* A goroutine goes on, or ends and tells the wait group.
LEMMA GroupGoOn ==
    ASSUME GroupInv, WipeInv, NEW k \in Kinds, NEW id \in PageIds,
           NEW next, next # "idle", NEW left, GoOn(k, id, next, left),
           tool[k] = "wait", page[k][id].pc # "idle",
           UNCHANGED loop, shifted' \subseteq Kinds, failed' \subseteq Kinds
    PROVE  GroupInv'
<1>1. /\ UNCHANGED <<tool, numPages, first>>
      /\ MaxThreads \in Nat \ {0} /\ wg \in [Kinds -> 0..MaxThreads]
      /\ first[k] < numPages[k] /\ Active(k) \subseteq Started(k)
      /\ wg[k] + Cardinality(Started(k) \ Active(k)) = MaxThreads
  BY WipeAssumption DEF loop, GroupInv
<1>2. /\ \A x \in Kinds \ {k} : page'[x] = page[x]
      /\ \A i \in PageIds \ {id} : page'[k][i] = page[k][i]
      /\ page'[k][id] = IF left = << >> THEN Idle ELSE [pc |-> next, left |-> left]
  BY DEF GoOn, WipeInv, SeenInv
<1>3. /\ \A x \in Kinds \ {k} : Active(x)' = Active(x)
      /\ \A x \in Kinds : Started(x)' = Started(x)
  BY <1>1, <1>2 DEF Active, Started, Batch
<1>4. /\ tool' \in [Kinds -> {"count", "batch", "wait", "done", "dead"}]
      /\ numPages' \in [Kinds -> Nat] /\ first' \in [Kinds -> Nat]
      /\ tool'[k] = "wait" /\ first'[k] < numPages'[k]
      /\ \A x \in Kinds \ {k} : /\ tool'[x] = tool[x] /\ first'[x] = first[x]
                               /\ numPages'[x] = numPages[x]
  BY <1>1 DEF GroupInv
<1>5. CASE left = << >>
  <2>1. Active(k)' = Active(k) \ {id} /\ id \in Active(k)
    BY <1>2, <1>5 DEF Active, Idle
  <2>2. /\ (Started(k) \ Active(k))' = (Started(k) \ Active(k)) \cup {id}
        /\ id \notin Started(k) \ Active(k)
        /\ (Started(k) \ Active(k)) \cup {id} \subseteq Started(k)
    BY <1>1, <1>3, <2>1
  <2>3. Cardinality(Started(k) \ Active(k))' =
            Cardinality(Started(k) \ Active(k)) + 1
    BY <2>2, BatchSlots, FS_AddElement
  <2>4. /\ Cardinality(Started(k) \ Active(k)) \in Nat
        /\ Cardinality(Started(k) \ Active(k)) + 1 <= MaxThreads
    BY <2>2, <2>3, BatchSlots
  <2>5. wg'[k] = wg[k] - 1 /\ \A x \in Kinds \ {k} : wg'[x] = wg[x]
    BY <1>1, <1>5 DEF GoOn
  <2>6. wg' \in [Kinds -> 0..MaxThreads]
    BY <1>1, <1>5, <2>4 DEF GoOn
  <2>7. wg'[k] + Cardinality(Started(k) \ Active(k))' = MaxThreads
    BY <1>1, <2>3, <2>4, <2>5
  <2>8. Active(k)' \subseteq Started(k)'
    BY <1>1, <1>3, <2>1
  <2> QED
    BY <1>3, <1>4, <2>5, <2>6, <2>7, <2>8, GroupOf
<1>6. CASE left # << >>
  <2>1. page'[k][id].pc # "idle"
    BY <1>2, <1>6
  <2>2. Active(k)' = Active(k)
    BY <1>2, <2>1 DEF Active
  <2>3. UNCHANGED wg
    BY <1>1, <1>6 DEF GoOn
  <2>4. /\ Active(k)' \subseteq Started(k)'
        /\ wg'[k] + Cardinality(Started(k) \ Active(k))' = MaxThreads
    BY <1>1, <1>3, <2>2, <2>3
  <2> QED
    BY <1>1, <1>3, <1>4, <2>3, <2>4, GroupOf
<1> QED
  BY <1>5, <1>6

LEMMA GroupPage ==
    ASSUME GroupInv, WipeInv, NEW k \in Kinds, NEW id \in PageIds, PageStep(k, id)
    PROVE  GroupInv'
<1>1. /\ tool[k] = "wait" /\ page[k][id].pc # "idle" /\ UNCHANGED loop
      /\ shifted' \subseteq Kinds /\ failed' \subseteq Kinds
  BY DEF PageStep, ListPage, DeleteObject, ReadTypes, DeleteEvent, CheckType,
         DeleteType, At, loop, GroupInv
<1>2. PICK next \in {"types", "delete", "checked"} : \E left : GoOn(k, id, next, left)
  BY DEF PageStep, ListPage, DeleteObject, ReadTypes, DeleteEvent, CheckType,
         DeleteType
<1> QED
  BY <1>1, <1>2, GroupGoOn

LEMMA GroupStep == GroupInv /\ WipeInv /\ [Next]_vars => GroupInv'
<1> SUFFICES ASSUME GroupInv, WipeInv, [Next]_vars PROVE GroupInv'
  OBVIOUS
<1>1. ASSUME NEW k \in Kinds, ToolStep(k) PROVE GroupInv'
  BY <1>1, GroupGetNumObjects, GroupStartBatch, GroupEndBatch, GroupPage
     DEF ToolStep
<1>2. CASE \/ \E k \in Kinds : Refresh(k)
           \/ UNCHANGED vars
  <2>1. UNCHANGED <<tool, numPages, first, wg, page, shifted, failed>>
    BY <1>2 DEF Refresh, loop, vars
  <2> QED
    BY <2>1 DEF GroupInv, Active, Started, Batch
<1> QED
  BY <1>1, <1>2 DEF Next

\* The tool's state keeps its types: a wait group never goes below zero, which
\* in Go is a panic, and searches see too much, never too little.
THEOREM TypeOKHolds == Spec => []TypeOK
<1>1. WipeInv /\ GroupInv => TypeOK
  BY DEF WipeInv, SeenInv, GroupInv, TypeOK
<1> QED
  BY <1>1, WipeInit, WipeStep, GroupInit, GroupStep, PTL DEF Spec

-----------------------------------------------------------------------------
(* What is left *)

\* The page that the i-th object is on, as long as no deletion shows.
PageOf(i) == (i - 1) \div PageSize

\* A search up to the end of the page is answered.
InWindow(i) == i <= (Window \div PageSize) * PageSize

\* A page whose goroutine is still to be started.
Pending(k, id) ==
    id >= first[k] /\ (tool[k] = "batch" \/ id >= first[k] + MaxThreads)

\* The i-th object is one its goroutine will come to.
OnPage(k, i) ==
    /\ tool[k] = "wait"
    /\ LET g == page[k][PageOf(i)]
       IN  g.pc = "list" \/ (g.pc # "idle" /\ order[k][i] \in ToSet(g.left))

\* Why the i-th object is there, if it is.
Accounted(k, i) ==
    \/ order[k][i] \notin docs[k] \ refused
    \/ ~ InWindow(i)
    \/ Pending(k, PageOf(i))
    \/ OnPage(k, i)

\* A goroutine that has listed its page has objects left.
PageTyped(k) ==
    \A id \in PageIds :
        /\ page[k][id].left \in Seq(Objects(k))
        /\ page[k][id].pc \notin {"idle", "list"} => page[k][id].left # << >>

\* Every object of a kind is accounted for, and the number of pages is that of
\* all objects.
KindLeft(k) ==
    tool[k] \in {"batch", "wait", "done"} =>
        /\ numPages[k] = Pages(Len(order[k]))
        /\ tool[k] = "done" => numPages[k] <= first[k]
        /\ \A i \in DOMAIN order[k] : Accounted(k, i)

\* As long as no page was listed after deletions showed and no call failed, every
\* object is deleted or refused, or on a page that is still to be started, or
\* with the goroutine of its page.
LeftInv ==
    /\ \A k \in Kinds : tool[k] = "count" => docs[k] = Objects(k) /\ first[k] = 0
    /\ \A k \in Kinds : PageTyped(k)
    /\ \A k \in Kinds \ (shifted \cup failed) : KindLeft(k)

\* Arithmetic of pages.
LEMMA Division ==
    ASSUME NEW a \in Nat, NEW b \in Nat \ {0}
    PROVE  /\ a \div b \in Nat
           /\ (a \div b) * b <= a /\ a < (a \div b) * b + b
OBVIOUS

\* Multiples are ordered like their factors.
LEMMA Multiples ==
    ASSUME NEW q \in Nat, NEW r \in Nat, NEW b \in Nat, q <= r
    PROVE  q * b \in Nat /\ r * b \in Nat /\ q * b <= r * b
OBVIOUS

\* The page of an object is one of the pages counted, the object is among its
\* objects, and if it lies in the window so does the page.
LEMMA PageOfFacts ==
    ASSUME NEW n \in Nat, NEW i \in 1..n
    PROVE  /\ PageOf(i) \in Nat /\ PageOf(i) < Pages(n)
           /\ PageOf(i) * PageSize \in Nat
           /\ PageOf(i) * PageSize + 1 <= i /\ i <= (PageOf(i) + 1) * PageSize
           /\ InWindow(i) => (PageOf(i) + 1) * PageSize <= Window
<1>1. PageSize \in Nat \ {0} /\ Window \in Nat /\ i - 1 \in Nat
  BY WipeAssumption
<1> DEFINE q == PageOf(i)
           w == Window \div PageSize
           m == Pages(n)
<1>2. q \in Nat /\ q * PageSize <= i - 1 /\ i - 1 < q * PageSize + PageSize
  BY <1>1, Division DEF PageOf
<1>3. w \in Nat /\ w * PageSize <= Window
  BY <1>1, Division
<1>4. m \in Nat /\ n + PageSize - 1 < m * PageSize + PageSize
  <2>1. n + PageSize - 1 \in Nat
    BY <1>1
  <2> QED BY <1>1, <2>1, Division DEF Pages
<1>5. (q + 1) * PageSize = q * PageSize + PageSize
  BY <1>1, <1>2
<1>6. q * PageSize \in Nat /\ m * PageSize \in Nat /\ w * PageSize \in Nat
  BY <1>1, <1>2, <1>3, <1>4
<1> HIDE DEF q, w, m
<1>7. q < m
  <2> SUFFICES ASSUME m <= q PROVE FALSE
    BY <1>2, <1>4
  <2>1. m * PageSize <= q * PageSize
    BY <1>1, <1>2, <1>4, Multiples
  <2> DEFINE x == m * PageSize
             y == q * PageSize
  <2>2. x \in Nat /\ y \in Nat /\ x <= y /\ y <= i - 1 /\ n + PageSize - 1 < x + PageSize
    BY <1>2, <1>4, <1>6, <2>1
  <2> HIDE DEF x, y
  <2> QED BY <1>1, <2>2
<1>8. q * PageSize + 1 <= i /\ i <= (q + 1) * PageSize
  <2> DEFINE y == q * PageSize
  <2>1. /\ y \in Nat /\ y <= i - 1 /\ i - 1 < y + PageSize
        /\ (q + 1) * PageSize = y + PageSize
    BY <1>2, <1>5, <1>6
  <2> HIDE DEF y
  <2>2. y + 1 <= i /\ i <= y + PageSize
    BY <1>1, <2>1
  <2> QED BY <2>1, <2>2 DEF y
<1>9. ASSUME i <= w * PageSize PROVE (q + 1) * PageSize <= Window
  <2>1. q < w
    <3> SUFFICES ASSUME w <= q PROVE FALSE
      BY <1>2, <1>3
    <3>1. w * PageSize <= q * PageSize
      BY <1>1, <1>2, <1>3, Multiples
    <3> QED BY <1>1, <1>2, <1>6, <1>9, <3>1
  <2>2. (q + 1) * PageSize <= w * PageSize
    <3>1. q + 1 \in Nat /\ q + 1 <= w
      BY <1>2, <1>3, <2>1
    <3> QED BY <1>1, <1>3, <3>1, Multiples
  <2> DEFINE x == (q + 1) * PageSize
             y == w * PageSize
  <2>3. x \in Nat /\ y \in Nat /\ x <= y /\ y <= Window
    BY <1>1, <1>2, <1>3, <1>5, <1>6, <2>2
  <2> HIDE DEF x, y
  <2>4. x <= Window
    BY <1>1, <2>3
  <2> QED BY <2>4 DEF x
<1> QED BY <1>2, <1>6, <1>7, <1>8, <1>9 DEF q, w, m, InWindow

\* The objects stored at first, in order, each once.
LEMMA OrderFacts ==
    ASSUME SeenInv, NEW k \in Kinds
    PROVE  /\ order[k] \in Seq(Objects(k)) /\ Len(order[k]) \in Nat
           /\ DOMAIN order[k] = 1..Len(order[k])
           /\ \A i \in DOMAIN order[k] : order[k][i] \in Objects(k)
           /\ \A x \in Objects(k) : \E i \in DOMAIN order[k] : order[k][i] = x
           /\ \A i, j \in DOMAIN order[k] : order[k][i] = order[k][j] => i = j
           /\ 0..Pages(Len(order[k])) \subseteq PageIds
<1>1. order \in Populations
  BY DEF SeenInv
<1>2. /\ order[k] \in Seq(Objects(k)) /\ IsInjective(order[k])
      /\ 0..Pages(Len(order[k])) \subseteq PageIds
  BY <1>1, WipeAssumption DEF Objects
<1>3. Objects(k) = {order[k][i] : i \in DOMAIN order[k]}
  BY DEF Objects, ToSet
<1> DEFINE s == order[k]
           S == Objects(k)
<1>4. s \in Seq(S)
  BY <1>2
<1> HIDE DEF s, S
<1>5. Len(s) \in Nat /\ DOMAIN s = 1..Len(s) /\ \A i \in DOMAIN s : s[i] \in S
  BY <1>4
<1> QED BY <1>2, <1>3, <1>5 DEF s, S, IsInjective

\* Of a kind nothing of which is deleted, every object is counted.
LEMMA AllCounted ==
    ASSUME SeenInv, NEW k \in Kinds, seen[k] = Objects(k)
    PROVE  ObjectCount(k) = Len(order[k])
<1> DEFINE s == order[k]
           S == Objects(k)
           n == Len(s)
<1>1. /\ n \in Nat /\ s \in Seq(S) /\ DOMAIN s = 1..n
      /\ \A i \in DOMAIN s : s[i] \in S
      /\ \A x \in S : \E i \in DOMAIN s : s[i] = x
      /\ \A i, j \in DOMAIN s : s[i] = s[j] => i = j
  BY OrderFacts
<1> HIDE DEF s, S, n
<1>2. s \in [1..n -> S]
  BY <1>1
<1>3. s \in Injection(1..n, S) /\ s \in Surjection(1..n, S)
  BY <1>1, <1>2 DEF Injection, Surjection, IsInjective
<1>4. ExistsBijection(1..n, S)
  BY <1>3 DEF ExistsBijection, Bijection
<1>5. Cardinality(S) = n
  BY <1>1, <1>4, FS_CountingElements
<1> QED BY <1>5 DEF s, S, n, ObjectCount

\* What a search lists are objects, and all of them if it sees all of them.
LEMMA HitsFacts ==
    ASSUME SeenInv, NEW k \in Kinds
    PROVE  /\ Hits(k) \in Seq(Objects(k))
           /\ seen[k] = Objects(k) => Hits(k) = order[k]
<1> DEFINE s == order[k]
           S == Objects(k)
           w == [i \in DOMAIN s |-> IF s[i] \in seen[k] THEN <<s[i]>> ELSE << >>]
<1>1. /\ s \in Seq(S) /\ Len(s) \in Nat /\ DOMAIN s = 1..Len(s)
      /\ \A i \in DOMAIN s : s[i] \in S
  BY OrderFacts
<1>2. Hits(k) = FlattenSeq(w)
  BY DEF Hits
<1> HIDE DEF s, S
<1>3. \A i \in 1..Len(s) : w[i] \in Seq(S)
  BY <1>1
<1>4. w \in Seq(Seq(S))
  <2> DEFINE U == Seq(S)
  <2>1. w = [i \in 1..Len(s) |-> w[i]] /\ \A i \in 1..Len(s) : w[i] \in U
    BY <1>1, <1>3
  <2> HIDE DEF U, w
  <2>2. w \in Seq(U)
    BY <1>1, <2>1
  <2> QED BY <2>2 DEF U
<1>5. Hits(k) \in Seq(S)
  <2> HIDE DEF w
  <2> QED BY <1>2, <1>4, FlattenType
<1>6. ASSUME seen[k] = S PROVE Hits(k) = s
  <2>1. w = [i \in DOMAIN s |-> <<s[i]>>]
    BY <1>1, <1>6
  <2>2. FlattenSeq([i \in DOMAIN s |-> <<s[i]>>]) = s
    BY <1>1, FlattenOnes
  <2> HIDE DEF w
  <2> QED BY <1>2, <2>1, <2>2
<1> QED BY <1>5, <1>6 DEF s, S

LEMMA ListedType ==
    ASSUME SeenInv, NEW k \in Kinds, NEW id \in Nat
    PROVE  Listed(k, id, PageSize) \in Seq(Objects(k))
<1> DEFINE h == Hits(k)
           a == id * PageSize + 1
           last == (id + 1) * PageSize
           b == IF last < Len(h) THEN last ELSE Len(h)
<1>1. h \in Seq(Objects(k)) /\ PageSize \in Nat \ {0}
  BY HitsFacts, WipeAssumption
<1>2. a \in Nat /\ a >= 1 /\ last \in Nat
  BY <1>1
<1> HIDE DEF h, a, last
<1>3. Len(h) \in Nat /\ b \in Nat /\ b <= Len(h)
  BY <1>1, <1>2
<1> HIDE DEF b
<1>4. \A i \in a..b : h[i] \in Objects(k)
  BY <1>1, <1>2, <1>3
<1>5. SubSeq(h, a, b) \in Seq(Objects(k))
  <2>1. a \in Int /\ b \in Int
    BY <1>2, <1>3
  <2> QED BY <1>4, <2>1, SubSeqProperties
<1> DEFINE l == Listed(k, id, PageSize)
           u == SubSeq(h, a, b)
           S == Seq(Objects(k))
<1>6. l = <<>> \/ l = u
  BY DEF Listed, h, a, b, last
<1>7. u \in S /\ <<>> \in S
  BY <1>5
<1> HIDE DEF l, u, S
<1>8. l \in S
  BY <1>6, <1>7
<1> QED BY <1>8 DEF l, S

\* A page that is listed before any deletion shows has the objects of the page.
LEMMA ListedPage ==
    ASSUME SeenInv, NEW k \in Kinds, seen[k] = Objects(k),
           NEW i \in DOMAIN order[k], InWindow(i)
    PROVE  order[k][i] \in ToSet(Listed(k, PageOf(i), PageSize))
<1> DEFINE s == order[k]
           id == PageOf(i)
           x == id * PageSize
           a == x + 1
           last == (id + 1) * PageSize
           b == IF last < Len(s) THEN last ELSE Len(s)
           u == SubSeq(s, a, b)
<1>1. /\ s \in Seq(Objects(k)) /\ Len(s) \in Nat /\ DOMAIN s = 1..Len(s)
      /\ \A j \in DOMAIN s : s[j] \in Objects(k)
  BY OrderFacts
<1>2. /\ id \in Nat /\ x \in Nat /\ a <= i /\ i <= last /\ last <= Window
      /\ PageSize \in Nat \ {0} /\ last \in Nat
  <2>1. i \in 1..Len(s)
    BY <1>1
  <2>2. /\ id \in Nat /\ x \in Nat /\ a <= i /\ i <= last /\ last <= Window
    BY <1>1, <2>1, PageOfFacts
  <2>3. PageSize \in Nat \ {0}
    BY WipeAssumption
  <2>4. last \in Nat
    <3> HIDE DEF id
    <3> QED BY <2>2, <2>3
  <2> HIDE DEF id, x, last
  <2> QED BY <2>2, <2>3, <2>4
<1>3. Hits(k) = s
  BY HitsFacts
<1>4. Window \in Nat
  BY WipeAssumption
<1>5. Listed(k, id, PageSize) = u
  <2>1. ~ (last > Window)
    <3> HIDE DEF last
    <3> QED BY <1>2, <1>4
  <2> QED BY <1>3, <2>1 DEF Listed
<1> HIDE DEF s, id, x, last
<1>6. a \in Int /\ b \in Int /\ a <= i /\ i <= b /\ a >= 1 /\ b <= Len(s) /\ i \in Nat
  BY <1>1, <1>2 DEF s
<1> HIDE DEF a, b
<1>7. \A j \in a..b : s[j] \in Objects(k)
  BY <1>1, <1>6
<1>8. /\ u \in Seq(Objects(k))
      /\ Len(u) = IF a <= b THEN b - a + 1 ELSE 0
      /\ \A j \in 1..b-a+1 : u[j] = s[a + j - 1]
  BY <1>6, <1>7, SubSeqProperties
<1> HIDE DEF u
<1>9. i - a + 1 \in 1..b-a+1 /\ a + (i - a + 1) - 1 = i /\ Len(u) = b - a + 1
  BY <1>6, <1>8
<1>10. i - a + 1 \in DOMAIN u /\ u[i - a + 1] = s[i]
  BY <1>8, <1>9
<1>11. s[i] \in ToSet(u)
  BY <1>10 DEF ToSet
<1> QED BY <1>5, <1>11 DEF s, id

LEMMA LeftInit == Init => LeftInv
<1> SUFFICES ASSUME Init PROVE LeftInv
  OBVIOUS
<1>1. \A k \in Kinds : tool[k] = "count" /\ docs[k] = Objects(k) /\ first[k] = 0
  BY DEF Init
<1>2. \A k \in Kinds : \A id \in PageIds : page[k][id] = Idle
  BY DEF Init
<1>3. \A k \in Kinds : << >> \in Seq(Objects(k))
  OBVIOUS
<1>4. \A k \in Kinds : \A id \in PageIds :
          /\ page[k][id].left \in Seq(Objects(k))
          /\ page[k][id].pc \notin {"idle", "list"} => page[k][id].left # << >>
  <2>1. Idle.left = << >> /\ Idle.pc = "idle"
    BY DEF Idle
  <2> QED BY <1>2, <1>3, <2>1
<1> QED BY <1>1, <1>4 DEF LeftInv, KindLeft, PageTyped

\* A step of one kind leaves the others alone.
LEMMA LeftOf ==
    ASSUME LeftInv, NEW k \in Kinds, order' = order, refused \subseteq refused',
           shifted \subseteq shifted', failed \subseteq failed',
           \A x \in Kinds \ {k} :
              /\ tool'[x] = tool[x] /\ docs'[x] = docs[x] /\ page'[x] = page[x]
              /\ numPages'[x] = numPages[x] /\ first'[x] = first[x],
           tool'[k] = "count" => docs'[k] = Objects(k) /\ first'[k] = 0,
           PageTyped(k)',
           k \notin shifted' \cup failed' => KindLeft(k)'
    PROVE  LeftInv'
<1>1. \A x \in Kinds : Objects(x)' = Objects(x)
  BY DEF Objects
<1>2. ASSUME NEW x \in Kinds \ {k}, x \notin shifted' \cup failed'
      PROVE  KindLeft(x)'
  <2>1. KindLeft(x)
    BY <1>2 DEF LeftInv
  <2>2. \A i : OnPage(x, i) => OnPage(x, i)'
    BY <1>2 DEF OnPage
  <2>3. \A i : Pending(x, PageOf(i)) => Pending(x, PageOf(i))'
    BY <1>2 DEF Pending, PageOf
  <2>4. \A i : Accounted(x, i) => Accounted(x, i)'
    BY <1>2, <2>2, <2>3 DEF Accounted, InWindow
  <2> QED BY <1>2, <2>1, <2>4 DEF KindLeft
<1>3. \A x \in Kinds \ {k} : PageTyped(x)'
  BY <1>1 DEF LeftInv, PageTyped
<1>4. \A x \in Kinds : tool'[x] = "count" => docs'[x] = Objects(x)' /\ first'[x] = 0
  BY <1>1 DEF LeftInv
<1> QED BY <1>2, <1>3, <1>4 DEF LeftInv, PageTyped

LEMMA LeftGetNumObjects ==
    ASSUME LeftInv, GroupInv, WipeInv, NEW k \in Kinds, GetNumObjects(k)
    PROVE  LeftInv'
<1>1. /\ tool[k] = "count" /\ docs[k] = Objects(k) /\ first[k] = 0
      /\ UNCHANGED <<order, docs, seen, first, wg, page, shifted, refused>>
      /\ failed \subseteq failed'
  BY DEF GetNumObjects, stores, LeftInv
<1>2. PageTyped(k)' /\ PageTyped(k)
  BY <1>1 DEF LeftInv, PageTyped, Objects
<1>3. CASE /\ numPages' = [numPages EXCEPT ![k] = Pages(ObjectCount(k))]
           /\ tool' = [tool EXCEPT ![k] =
                          IF ObjectCount(k) = 0 THEN "done" ELSE "batch"]
  <2>1. ObjectCount(k) = Len(order[k]) /\ Len(order[k]) \in Nat
    <3>1. SeenInv /\ seen[k] = Objects(k)
      BY <1>1 DEF WipeInv, SeenInv
    <3> QED BY <3>1, AllCounted, OrderFacts
  <2>2. /\ numPages'[k] = Pages(Len(order[k]))
        /\ tool'[k] = IF Len(order[k]) = 0 THEN "done" ELSE "batch"
        /\ \A x \in Kinds \ {k} : numPages'[x] = numPages[x] /\ tool'[x] = tool[x]
    BY <1>3, <2>1 DEF GroupInv
  <2>3. tool'[k] = "done" => numPages'[k] <= first'[k]
    BY <1>1, <2>1, <2>2, NumberOfPages
  <2>4. ASSUME NEW i \in DOMAIN order[k] PROVE Accounted(k, i)'
    <3>1. i \in 1..Len(order[k])
      BY OrderFacts DEF WipeInv
    <3>2. PageOf(i) \in Nat /\ Len(order[k]) # 0
      <4> DEFINE n == Len(order[k])
      <4>1. n \in Nat /\ i \in 1..n
        BY <2>1, <3>1
      <4> HIDE DEF n
      <4>2. PageOf(i) \in Nat /\ n # 0
        BY <4>1, PageOfFacts
      <4> QED BY <4>2 DEF n
    <3>3. Pending(k, PageOf(i))'
      BY <1>1, <2>2, <3>2 DEF Pending, PageOf
    <3> QED BY <3>3 DEF Accounted
  <2>5. KindLeft(k)'
    BY <1>1, <2>2, <2>3, <2>4 DEF KindLeft
  <2>6. tool'[k] # "count"
    BY <2>2
  <2>7. \A x \in Kinds \ {k} :
              /\ tool'[x] = tool[x] /\ docs'[x] = docs[x] /\ page'[x] = page[x]
              /\ numPages'[x] = numPages[x] /\ first'[x] = first[x]
    BY <1>1, <2>2
  <2> QED BY <1>1, <1>2, <2>5, <2>6, <2>7, LeftOf
<1>4. CASE /\ tool' = [tool EXCEPT ![k] = "done"] /\ UNCHANGED numPages
           /\ failed' = failed \cup {k}
  <2>1. tool'[k] = "done" /\ \A x \in Kinds \ {k} : tool'[x] = tool[x]
    BY <1>4 DEF GroupInv
  <2> QED BY <1>1, <1>2, <1>4, <2>1, LeftOf
<1>5. CASE tool' = [x \in Kinds |-> "dead"]
  <2>1. \A x \in Kinds : tool'[x] = "dead"
    BY <1>5
  <2>2. \A x \in Kinds : PageTyped(x)'
    BY <1>1 DEF LeftInv, PageTyped, Objects
  <2> QED BY <2>1, <2>2 DEF LeftInv, KindLeft, PageTyped
<1> QED BY <1>3, <1>4, <1>5 DEF GetNumObjects

\* The page of an object is one the loop starts.
LEMMA PageStarted ==
    ASSUME SeenInv, NEW k \in Kinds, NEW i \in DOMAIN order[k]
    PROVE  /\ PageOf(i) \in PageIds /\ PageOf(i) \in Nat
           /\ PageOf(i) < Pages(Len(order[k])) /\ Pages(Len(order[k])) \in Nat
<1> DEFINE n == Len(order[k])
<1>1. n \in Nat /\ i \in 1..n /\ 0..Pages(n) \subseteq PageIds
  BY OrderFacts
<1> HIDE DEF n
<1>2. PageOf(i) \in Nat /\ PageOf(i) < Pages(n) /\ Pages(n) \in Nat
  BY <1>1, PageOfFacts, NumberOfPages
<1>3. PageOf(i) \in 0..Pages(n)
  BY <1>2
<1> QED BY <1>1, <1>2, <1>3 DEF n

LEMMA LeftStartBatch ==
    ASSUME LeftInv, GroupInv, WipeInv, NEW k \in Kinds, StartBatch(k)
    PROVE  LeftInv'
<1>1. /\ tool[k] = "batch" /\ first[k] < numPages[k]
      /\ page' = [page EXCEPT ![k] =
                     [id \in PageIds |-> IF id \in Batch(k)
                          THEN [pc |-> "list", left |-> << >>] ELSE @[id]]]
      /\ tool' = [tool EXCEPT ![k] = "wait"]
      /\ UNCHANGED <<order, docs, numPages, first, shifted, failed, refused>>
  BY DEF StartBatch, Start, stores
<1>2. /\ tool'[k] = "wait"
      /\ \A x \in Kinds \ {k} : tool'[x] = tool[x] /\ page'[x] = page[x]
      /\ \A id \in PageIds : page'[k][id] =
            IF id \in Batch(k) THEN [pc |-> "list", left |-> << >>] ELSE page[k][id]
  BY <1>1 DEF WipeInv, SeenInv, GroupInv
<1>3. PageTyped(k)'
  <2>1. Objects(k)' = Objects(k) /\ << >> \in Seq(Objects(k))
    BY <1>1 DEF Objects
  <2> DEFINE g == [pc |-> "list", left |-> << >>]
  <2>2. g.left = << >> /\ g.pc = "list"
    OBVIOUS
  <2>3. \A id \in PageIds : page'[k][id] = g \/ page'[k][id] = page[k][id]
    BY <1>2
  <2> HIDE DEF g
  <2> QED BY <2>1, <2>2, <2>3 DEF PageTyped, LeftInv
<1>4. ASSUME k \notin shifted \cup failed PROVE KindLeft(k)'
  <2>1. KindLeft(k) /\ numPages[k] = Pages(Len(order[k]))
    BY <1>1, <1>4 DEF LeftInv, KindLeft
  <2>2. ASSUME NEW i \in DOMAIN order[k] PROVE Accounted(k, i)'
    <3> DEFINE id == PageOf(i)
    <3>1. Accounted(k, i)
      BY <1>1, <2>1 DEF KindLeft
    <3>2. /\ id \in PageIds /\ id \in Nat /\ id < numPages[k]
          /\ first[k] \in Nat /\ numPages[k] \in Nat /\ MaxThreads \in Nat \ {0}
      BY <2>1, PageStarted, WipeAssumption DEF WipeInv, GroupInv
    <3> HIDE DEF id
    <3>3. CASE Pending(k, id)
      <4>1. CASE id >= first[k] + MaxThreads
        <5>1. Pending(k, id)'
          <6>1. id >= first[k] /\ id' = id /\ first' = first /\ MaxThreads' = MaxThreads
            BY <1>1, <3>3 DEF Pending, id, PageOf
          <6> QED BY <4>1, <6>1 DEF Pending
        <5> QED BY <5>1 DEF Accounted, id, PageOf
      <4>2. CASE ~ (id >= first[k] + MaxThreads)
        <5>1. id \in Batch(k)
          BY <3>2, <3>3, <4>2 DEF Pending, Batch
        <5>2. page'[k][id].pc = "list"
          BY <1>2, <3>2, <5>1
        <5>3. OnPage(k, i)'
          BY <1>2, <5>2 DEF OnPage, id, PageOf
        <5> QED BY <5>3 DEF Accounted
      <4> QED BY <4>1, <4>2
    <3>4. CASE ~ Pending(k, id)
      <4>1. order[k][i] \notin docs[k] \ refused \/ ~ InWindow(i)
        BY <1>1, <3>1, <3>4 DEF Accounted, OnPage, id
      <4> QED BY <1>1, <4>1 DEF Accounted, InWindow
    <3> QED BY <3>3, <3>4
  <2> QED BY <1>1, <1>2, <2>1, <2>2 DEF KindLeft
<1>5. \A x \in Kinds \ {k} :
              /\ tool'[x] = tool[x] /\ docs'[x] = docs[x] /\ page'[x] = page[x]
              /\ numPages'[x] = numPages[x] /\ first'[x] = first[x]
  BY <1>1, <1>2
<1> QED BY <1>1, <1>2, <1>3, <1>4, <1>5, LeftOf

LEMMA LeftEndBatch ==
    ASSUME LeftInv, GroupInv, WipeInv, NEW k \in Kinds, EndBatch(k)
    PROVE  LeftInv'
<1>1. /\ tool[k] = "wait" /\ wg[k] = 0
      /\ first' = [first EXCEPT ![k] = @ + MaxThreads]
      /\ tool' = [tool EXCEPT ![k] = IF first'[k] < numPages[k]
                                     THEN "batch" ELSE "done"]
      /\ UNCHANGED <<order, docs, numPages, page, shifted, failed, refused>>
  BY DEF EndBatch, stores
<1>2. /\ first'[k] = first[k] + MaxThreads
      /\ tool'[k] = IF first'[k] < numPages[k] THEN "batch" ELSE "done"
      /\ \A x \in Kinds \ {k} : tool'[x] = tool[x] /\ first'[x] = first[x]
      /\ first[k] \in Nat /\ numPages[k] \in Nat /\ MaxThreads \in Nat \ {0}
  BY <1>1, WipeAssumption DEF GroupInv
<1>3. PageTyped(k)'
  BY <1>1 DEF LeftInv, PageTyped, Objects
<1>4. ASSUME k \notin shifted \cup failed PROVE KindLeft(k)'
  <2>1. KindLeft(k) /\ numPages[k] = Pages(Len(order[k]))
    BY <1>1, <1>4 DEF LeftInv, KindLeft
  <2>2. ASSUME NEW i \in DOMAIN order[k] PROVE Accounted(k, i)'
    <3> DEFINE id == PageOf(i)
    <3>1. Accounted(k, i)
      BY <1>1, <2>1 DEF KindLeft
    <3>2. id \in PageIds /\ id \in Nat /\ id < numPages[k]
      BY <2>1, PageStarted DEF WipeInv
    <3> HIDE DEF id
    <3>3. page[k][id].pc = "idle"
      BY <1>1, <3>2, BatchOver DEF Active
    <3>4. ~ OnPage(k, i)
      BY <3>3 DEF OnPage, id
    <3>5. CASE Pending(k, id)
      <4>1. id >= first'[k]
        BY <1>1, <1>2, <3>5 DEF Pending
      <4>2. tool'[k] = "batch"
        BY <1>2, <3>2, <4>1
      <4>3. Pending(k, id)'
        BY <4>1, <4>2 DEF Pending, id, PageOf
      <4> QED BY <4>3 DEF Accounted, id, PageOf
    <3>6. CASE ~ Pending(k, id)
      <4>1. order[k][i] \notin docs[k] \ refused \/ ~ InWindow(i)
        BY <3>1, <3>4, <3>6 DEF Accounted, id
      <4> QED BY <1>1, <4>1 DEF Accounted, InWindow
    <3> QED BY <3>5, <3>6
  <2>3. tool'[k] = "done" => numPages'[k] <= first'[k]
    BY <1>1, <1>2
  <2> QED BY <1>1, <2>1, <2>2, <2>3 DEF KindLeft
<1>5. \A x \in Kinds \ {k} :
              /\ tool'[x] = tool[x] /\ docs'[x] = docs[x] /\ page'[x] = page[x]
              /\ numPages'[x] = numPages[x] /\ first'[x] = first[x]
  BY <1>1, <1>2
<1>6. tool'[k] # "count"
  BY <1>2
<1> QED BY <1>1, <1>3, <1>4, <1>5, <1>6, LeftOf

\* A goroutine goes on with what is left of its page: every object it was to
\* come to is still left, or is deleted or refused now.
LEMMA LeftGoOn ==
    ASSUME LeftInv, GroupInv, WipeInv, NEW k \in Kinds, NEW id \in PageIds,
           NEW next, next \notin {"idle", "list"},
           NEW left \in Seq(Objects(k)), GoOn(k, id, next, left),
           tool[k] = "wait", page[k][id].pc # "idle",
           UNCHANGED <<order, tool, numPages, first>>,
           \A x \in Kinds \ {k} : docs'[x] = docs[x],
           docs'[k] \subseteq docs[k], refused \subseteq refused',
           shifted \subseteq shifted', failed \subseteq failed',
           k \notin shifted' \cup failed' =>
              \A i \in DOMAIN order[k] :
                 (PageOf(i) = id /\ OnPage(k, i)) =>
                    \/ order[k][i] \in ToSet(left)
                    \/ order[k][i] \notin docs'[k] \ refused'
                    \/ ~ InWindow(i)
    PROVE  LeftInv'
<1>1. /\ \A x \in Kinds \ {k} : page'[x] = page[x]
      /\ \A j \in PageIds \ {id} : page'[k][j] = page[k][j]
      /\ page'[k][id] = IF left = << >> THEN Idle ELSE [pc |-> next, left |-> left]
  BY DEF GoOn, WipeInv, SeenInv
<1>2. /\ left = << >> => page'[k][id].left = << >> /\ page'[k][id].pc = "idle"
      /\ left # << >> => page'[k][id].left = left /\ page'[k][id].pc = next
  BY <1>1 DEF Idle
<1>3. PageTyped(k)'
  <2>1. Objects(k)' = Objects(k)
    BY DEF Objects
  <2>2. \A j \in PageIds :
          /\ page'[k][j].left \in Seq(Objects(k))
          /\ page'[k][j].pc \notin {"idle", "list"} => page'[k][j].left # << >>
    BY <1>1, <1>2 DEF LeftInv, PageTyped
  <2> QED BY <2>1, <2>2 DEF PageTyped
<1>4. ASSUME k \notin shifted' \cup failed' PROVE KindLeft(k)'
  <2>1. KindLeft(k)
    BY <1>4 DEF LeftInv
  <2>2. ASSUME NEW i \in DOMAIN order[k] PROVE Accounted(k, i)'
    <3>1. Accounted(k, i)
      BY <2>1 DEF KindLeft
    <3>2. PageOf(i) \in PageIds /\ PageOf(i)' = PageOf(i)
      BY PageStarted DEF WipeInv, PageOf
    <3>3. CASE order[k][i] \notin docs[k] \ refused \/ ~ InWindow(i)
      BY <3>3 DEF Accounted, InWindow
    <3>4. CASE Pending(k, PageOf(i))
      <4>1. Pending(k, PageOf(i))'
        BY <3>2, <3>4 DEF Pending
      <4> QED BY <4>1 DEF Accounted
    <3>5. CASE OnPage(k, i) /\ PageOf(i) # id
      <4>1. OnPage(k, i)'
        BY <1>1, <3>2, <3>5 DEF OnPage
      <4> QED BY <4>1 DEF Accounted
    <3>6. CASE OnPage(k, i) /\ PageOf(i) = id
      <4>1. CASE order[k][i] \in ToSet(left)
        <5>1. left # << >>
          BY <4>1 DEF ToSet
        <5>2. page'[k][id].left = left /\ page'[k][id].pc # "idle"
          BY <1>2, <5>1
        <5>3. OnPage(k, i)'
          BY <3>2, <3>6, <4>1, <5>2 DEF OnPage
        <5> QED BY <5>3 DEF Accounted
      <4>2. CASE order[k][i] \notin docs'[k] \ refused' \/ ~ InWindow(i)
        BY <4>2 DEF Accounted, InWindow
      <4> QED BY <1>4, <3>6, <4>1, <4>2
    <3> QED BY <3>1, <3>3, <3>4, <3>5, <3>6 DEF Accounted
  <2> QED BY <2>1, <2>2 DEF KindLeft
<1>5. \A x \in Kinds \ {k} :
              /\ tool'[x] = tool[x] /\ docs'[x] = docs[x] /\ page'[x] = page[x]
              /\ numPages'[x] = numPages[x] /\ first'[x] = first[x]
  BY <1>1
<1> QED BY <1>3, <1>4, <1>5, LeftOf

LEMMA LeftListPage ==
    ASSUME LeftInv, GroupInv, WipeInv, NEW k \in Kinds, NEW id \in PageIds,
           ListPage(k, id)
    PROVE  LeftInv'
<1>1. /\ tool[k] = "wait" /\ page[k][id].pc # "idle"
      /\ UNCHANGED <<order, docs, seen, tool, numPages, first, refused>>
      /\ shifted \subseteq shifted' /\ failed \subseteq failed'
  BY DEF ListPage, At, stores, loop
<1>2. CASE /\ GoOn(k, id, IF k = "events" THEN "types" ELSE "delete",
                   Listed(k, id, PageSize))
           /\ shifted' = IF seen[k] # Objects(k) THEN shifted \cup {k} ELSE shifted
  <2> DEFINE left == Listed(k, id, PageSize)
             next == IF k = "events" THEN "types" ELSE "delete"
  <2>1. id \in Nat
    BY DEF PageIds
  <2>2. left \in Seq(Objects(k)) /\ next \notin {"idle", "list"}
    BY <2>1, ListedType DEF WipeInv
  <2>3. ASSUME k \notin shifted', NEW i \in DOMAIN order[k], PageOf(i) = id, InWindow(i)
        PROVE  order[k][i] \in ToSet(left)
    <3>1. seen[k] = Objects(k)
      BY <1>2, <2>3
    <3> QED BY <2>3, <3>1, ListedPage DEF WipeInv
  <2>4. GoOn(k, id, next, left)
    BY <1>2
  <2> HIDE DEF left, next
  <2> QED BY <1>1, <2>2, <2>3, <2>4, LeftGoOn
<1>3. CASE GoOn(k, id, "delete", << >>) /\ failed' = failed \cup {k}
  <2> DEFINE left == << >>
  <2>1. left \in Seq(Objects(k))
    OBVIOUS
  <2>2. GoOn(k, id, "delete", left) /\ k \in failed'
    BY <1>3
  <2> HIDE DEF left
  <2> QED BY <1>1, <2>1, <2>2, LeftGoOn
<1> QED BY <1>2, <1>3 DEF ListPage

\* A goroutine is done with an object: it is deleted, or refused, or the call
\* failed.
LEMMA LeftDone ==
    ASSUME LeftInv, GroupInv, WipeInv, NEW k \in Kinds, NEW id \in PageIds,
           NEW left \in {Rest(k, id), << >>}, GoOn(k, id, "delete", left),
           tool[k] = "wait", page[k][id].pc \notin {"idle", "list"},
           UNCHANGED <<order, tool, numPages, first>>,
           \A x \in Kinds \ {k} : docs'[x] = docs[x],
           docs'[k] \subseteq docs[k], refused \subseteq refused',
           shifted \subseteq shifted', failed \subseteq failed',
           k \notin failed' => /\ left = Rest(k, id)
                               /\ Object(k, id) \notin docs'[k] \ refused'
    PROVE  LeftInv'
<1> DEFINE l == page[k][id].left
<1>1. l \in Seq(Objects(k)) /\ l # << >>
  BY DEF LeftInv, PageTyped
<1>2. Rest(k, id) = Tail(l) /\ Object(k, id) = Head(l)
  BY DEF Rest, Object
<1> HIDE DEF l
<1>3. /\ Tail(l) \in Seq(Objects(k))
      /\ \A x \in ToSet(l) : x = Head(l) \/ x \in ToSet(Tail(l))
  BY <1>1, HeadAndTail
<1>4. << >> \in Seq(Objects(k))
  OBVIOUS
<1>5. left \in Seq(Objects(k))
  BY <1>2, <1>3, <1>4
<1>6. ASSUME k \notin failed', NEW i \in DOMAIN order[k], PageOf(i) = id, OnPage(k, i)
      PROVE  order[k][i] \in ToSet(left) \/ order[k][i] \notin docs'[k] \ refused'
  <2>1. order[k][i] \in ToSet(l)
    BY <1>6 DEF OnPage, l
  <2> QED BY <1>2, <1>3, <1>6, <2>1
<1> QED BY <1>5, <1>6, LeftGoOn

\* A goroutine goes on with the same object, or gives the page up.
LEMMA LeftSame ==
    ASSUME LeftInv, GroupInv, WipeInv, NEW k \in Kinds, NEW id \in PageIds,
           NEW next \in {"delete", "checked"}, NEW left, GoOn(k, id, next, left),
           tool[k] = "wait", page[k][id].pc \notin {"idle", "list"},
           left = page[k][id].left \/ (left = << >> /\ k \in failed'),
           UNCHANGED <<order, docs, refused, tool, numPages, first, shifted>>,
           failed \subseteq failed'
    PROVE  LeftInv'
<1> DEFINE l == page[k][id].left
<1>1. l \in Seq(Objects(k)) /\ << >> \in Seq(Objects(k))
  BY DEF LeftInv, PageTyped
<1>2. left \in Seq(Objects(k))
  BY <1>1
<1>3. ASSUME k \notin failed', NEW i \in DOMAIN order[k], PageOf(i) = id, OnPage(k, i)
      PROVE  order[k][i] \in ToSet(left)
  BY <1>3 DEF OnPage
<1> QED BY <1>2, <1>3, LeftGoOn

\* A goroutine that goes on by one step.
LEMMA LeftPage ==
    ASSUME LeftInv, GroupInv, WipeInv, NEW k \in Kinds, NEW id \in PageIds,
           PageStep(k, id)
    PROVE  LeftInv'
<1> DEFINE o == Object(k, id)
<1>0. DOMAIN docs = Kinds
  BY DEF WipeInv, SeenInv
<1>1. CASE ListPage(k, id)
  BY <1>1, LeftListPage
<1>2. CASE DeleteObject(k, id)
  <2>1. /\ tool[k] = "wait" /\ page[k][id].pc = "delete"
        /\ UNCHANGED <<order, tool, numPages, first, shifted, refused>>
        /\ failed \subseteq failed'
    BY <1>2 DEF DeleteObject, At, loop
  <2>2. CASE /\ docs' = [docs EXCEPT ![k] = @ \ {o}]
             /\ GoOn(k, id, "delete", Rest(k, id))
    <3>1. /\ docs'[k] = docs[k] \ {o}
          /\ \A x \in Kinds \ {k} : docs'[x] = docs[x]
      BY <1>0, <2>2
    <3> QED BY <2>1, <2>2, <3>1, LeftDone
  <2>3. CASE /\ GoOn(k, id, "delete", IF k = "alerts" THEN << >> ELSE Rest(k, id))
             /\ failed' = failed \cup {k} /\ UNCHANGED docs
    BY <2>1, <2>3, LeftDone
  <2> QED BY <1>2, <2>2, <2>3 DEF DeleteObject
<1>3. CASE k = "events" /\ ReadTypes(id)
  <2>1. /\ tool[k] = "wait" /\ page[k][id].pc = "types"
        /\ UNCHANGED <<order, docs, tool, numPages, first, shifted, refused>>
        /\ failed \subseteq failed'
    BY <1>3 DEF ReadTypes, At, loop, stores
  <2>2. \/ GoOn(k, id, "delete", page[k][id].left)
        \/ GoOn(k, id, "delete", << >>) /\ k \in failed'
    BY <1>3 DEF ReadTypes
  <2> QED BY <2>1, <2>2, LeftSame
<1>4. CASE k = "events" /\ DeleteEvent(id)
  <2>1. /\ tool[k] = "wait" /\ page[k][id].pc = "delete"
        /\ UNCHANGED <<order, tool, numPages, first, shifted>>
        /\ failed \subseteq failed' /\ refused \subseteq refused'
        /\ GoOn(k, id, "delete", Rest(k, id))
    BY <1>4 DEF DeleteEvent, At, loop
  <2>2. \/ docs' = [docs EXCEPT ![k] = @ \ {o}]
        \/ o \in refused' /\ UNCHANGED docs
        \/ k \in failed' /\ UNCHANGED docs
    BY <1>4 DEF DeleteEvent
  <2>3. /\ \A x \in Kinds \ {k} : docs'[x] = docs[x]
        /\ docs'[k] \subseteq docs[k]
        /\ k \notin failed' => o \notin docs'[k] \ refused'
    BY <1>0, <2>2
  <2> QED BY <2>1, <2>3, LeftDone
<1>5. CASE k = "types" /\ CheckType(id)
  <2>1. /\ tool[k] = "wait" /\ page[k][id].pc = "delete"
        /\ UNCHANGED <<order, docs, tool, numPages, first, shifted>>
        /\ failed \subseteq failed' /\ refused \subseteq refused'
    BY <1>5 DEF CheckType, At, loop, stores
  <2>2. \/ /\ GoOn(k, id, "delete", Rest(k, id))
           /\ o \in refused' \/ k \in failed'
        \/ GoOn(k, id, "checked", page[k][id].left) /\ UNCHANGED refused
    BY <1>5 DEF CheckType
  <2>3. CASE /\ GoOn(k, id, "delete", Rest(k, id))
             /\ o \in refused' \/ k \in failed'
    BY <2>1, <2>3, LeftDone
  <2>4. CASE GoOn(k, id, "checked", page[k][id].left) /\ UNCHANGED refused
    BY <2>1, <2>4, LeftSame
  <2> QED BY <2>2, <2>3, <2>4
<1>6. CASE k = "types" /\ DeleteType(id)
  <2>1. /\ tool[k] = "wait" /\ page[k][id].pc = "checked"
        /\ UNCHANGED <<order, tool, numPages, first, shifted, refused>>
        /\ failed \subseteq failed'
        /\ GoOn(k, id, "delete", Rest(k, id))
    BY <1>6 DEF DeleteType, At, loop
  <2>2. \/ docs' = [docs EXCEPT ![k] = @ \ {o}]
        \/ k \in failed' /\ UNCHANGED docs
    BY <1>6 DEF DeleteType
  <2>3. /\ \A x \in Kinds \ {k} : docs'[x] = docs[x]
        /\ docs'[k] \subseteq docs[k]
        /\ k \notin failed' => o \notin docs'[k] \ refused'
    BY <1>0, <2>2
  <2> QED BY <2>1, <2>3, LeftDone
<1> QED BY <1>1, <1>2, <1>3, <1>4, <1>5, <1>6 DEF PageStep

LEMMA LeftStep == LeftInv /\ GroupInv /\ WipeInv /\ [Next]_vars => LeftInv'
<1> SUFFICES ASSUME LeftInv, GroupInv, WipeInv, [Next]_vars PROVE LeftInv'
  OBVIOUS
<1>1. ASSUME NEW k \in Kinds, ToolStep(k) PROVE LeftInv'
  BY <1>1, LeftGetNumObjects, LeftStartBatch, LeftEndBatch, LeftPage DEF ToolStep
<1>2. CASE (\E k \in Kinds : Refresh(k)) \/ UNCHANGED vars
  <2>1. UNCHANGED <<order, docs, tool, numPages, first, page, shifted, failed, refused>>
    BY <1>2 DEF Refresh, loop, vars
  <2> QED BY <2>1 DEF LeftInv, KindLeft, PageTyped, Accounted, Pending, OnPage, Objects,
                      PageOf, InWindow
<1> QED BY <1>1, <1>2 DEF Next

\* When deleteAllObjects has ended for a kind of which no call failed and no page
\* was listed after deletions showed, every object that is left was refused by
\* the service or lies beyond the window of a search, for every population, page
\* size and number of goroutines.
THEOREM LeftForAReasonHolds == Spec => []LeftForAReason
<1>1. LeftInv /\ GroupInv /\ WipeInv => LeftForAReason
  <2> SUFFICES ASSUME LeftInv, GroupInv, WipeInv,
                      NEW k \in Kinds \ (shifted \cup failed), tool[k] = "done",
                      NEW i \in DOMAIN order[k]
               PROVE  \/ order[k][i] \notin docs[k] \ refused
                      \/ i > (Window \div PageSize) * PageSize
    BY DEF LeftForAReason
  <2>1. /\ numPages[k] = Pages(Len(order[k])) /\ numPages[k] <= first[k]
        /\ Accounted(k, i)
    BY DEF LeftInv, KindLeft
  <2>2. /\ PageOf(i) \in Nat /\ PageOf(i) < numPages[k]
        /\ numPages[k] \in Nat /\ first[k] \in Nat
    BY <2>1, PageStarted DEF WipeInv, GroupInv
  <2>3. ~ (PageOf(i) >= first[k])
    BY <2>1, <2>2
  <2>4. order[k][i] \notin docs[k] \ refused \/ ~ InWindow(i)
    BY <2>1, <2>3 DEF Accounted, Pending, OnPage
  <2>5. i \in Nat /\ (Window \div PageSize) * PageSize \in Nat
    <3>1. i \in Nat
      BY OrderFacts DEF WipeInv
    <3>2. PageSize \in Nat \ {0} /\ Window \in Nat
      BY WipeAssumption
    <3>3. Window \div PageSize \in Nat
      BY <3>2, Division
    <3> QED BY <3>1, <3>2, <3>3
  <2>6. ~ InWindow(i) => i > (Window \div PageSize) * PageSize
    BY <2>5 DEF InWindow
  <2> QED BY <2>4, <2>6
<1> QED
  BY <1>1, WipeInit, WipeStep, GroupInit, GroupStep, LeftInit, LeftStep, PTL DEF Spec
=============================================================================
