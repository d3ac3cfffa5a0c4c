-------------------------------- MODULE Wipe --------------------------------
(***************************************************************************)
(* The tool that deletes everything (src/tools): for alerts, triggers,     *)
(* events and event types at a time, it asks how many there are, and lets  *)
(* one goroutine per page list that page and delete what is on it, in      *)
(* batches of maxThreads.  With it, what the service and its client do to  *)
(* list and to delete objects, for a service nobody else uses meanwhile.   *)
(***************************************************************************)
EXTENDS Naturals, Sequences, FiniteSets, SequencesExt

CONSTANTS
    Populations, \* what may be stored at first: per kind the objects, in the
                 \* order lists are sorted
    TypeOf,      \* per event and trigger: its event type
    System,      \* the event types of the system
    PageSize,    \* objects per page (1000)
    MaxThreads,  \* pages per batch (10)
    Window,      \* Elasticsearch answers no search beyond this many hits
    Faulty       \* the populations with which calls may fail

Kinds == {"alerts", "triggers", "events", "types"}

\* numPages for a number of objects.
Pages(count) == (count + PageSize - 1) \div PageSize

\* Goroutines are started up to the page with the number numPages.
PageIds == 0..Max({Pages(Len(p[k])) : p \in Populations, k \in Kinds})

ASSUME WipeAssumption ==
    /\ PageSize \in Nat \ {0}
    /\ MaxThreads \in Nat \ {0}
    /\ Window \in Nat
    /\ Faulty \subseteq Populations
    /\ \A p \in Populations :
          /\ DOMAIN p = Kinds
          /\ \A k \in Kinds : /\ p[k] \in Seq(ToSet(p[k]))
                              /\ IsInjective(p[k])
                              /\ 0..Pages(Len(p[k])) \subseteq PageIds
          /\ \A r \in ToSet(p["events"]) \cup ToSet(p["triggers"]) :
                TypeOf[r] \in ToSet(p["types"])

VARIABLES
    order,    \* per kind: the objects stored at first, sorted
    docs,     \* per kind: the objects stored
    seen,     \* per kind: the objects a search sees
    tool,     \* per kind: where deleteAllObjects is
    numPages, \* per kind: the number of pages it reckons with
    first,    \* per kind: the first page of the batch (i)
    wg,       \* per kind: the wait group of the batch
    page,     \* per kind and page: the goroutine that deletes it
    \* History variables, never read by a guard.
    shifted,  \* kinds of which a page was listed after deletions showed
    failed,   \* kinds of which a call failed
    refused   \* objects the service refused to delete

vars == <<order, docs, seen, tool, numPages, first, wg, page, shifted, failed, refused>>
stores == <<order, docs, seen>>
loop == <<tool, numPages, first>>

MayFail == order \in Faulty
Idle == [pc |-> "idle", left |-> << >>]
Objects(k) == ToSet(order[k])
Refs == (Objects("events") \cup Objects("triggers"))

\* What a search sees, sorted.
Hits(k) ==
    FlattenSeq([i \in DOMAIN order[k] |->
                   IF order[k][i] \in seen[k] THEN <<order[k][i]>> ELSE << >>])

\* Mutant of Listed: the last object of every page is missed.
ListedShort(k, id, size) ==
    LET last == (id + 1) * size - 1
    IN  SubSeq(Hits(k), id * size + 1,
               IF last < Len(Hits(k)) THEN last ELSE Len(Hits(k)))

\* A list: FilterByMatchAll for one page of what a search sees, sorted.  A
\* search beyond the window fails, and a failed search counts as no hits.
Listed(k, id, size) ==
    IF (id + 1) * size > Window THEN << >>
    ELSE LET last == (id + 1) * size
         IN  SubSeq(Hits(k), id * size + 1,
                    IF last < Len(Hits(k)) THEN last ELSE Len(Hits(k)))

-----------------------------------------------------------------------------
(* deleteAllObjects *)

\* The total of hits that a search reports (not cut by the window).
ObjectCount(k) == Cardinality(seen[k])

\* getNumObjectsF: the count that comes with the first page.  A failed search
\* counts as none; another failure ends the tool (log.Fatal), unless another
\* goroutine of main overwrites the variable they share first.
GetNumObjects(k) ==
    /\ tool[k] = "count"
    /\ \/ /\ numPages' = [numPages EXCEPT ![k] = Pages(ObjectCount(k))]
          /\ tool' = [tool EXCEPT ![k] = IF ObjectCount(k) = 0 THEN "done" ELSE "batch"]
          /\ UNCHANGED failed
       \/ /\ MayFail
          /\ \/ tool' = [tool EXCEPT ![k] = "done"]
             \/ tool' = [x \in Kinds |-> "dead"]
          /\ failed' = failed \cup {k}
          /\ UNCHANGED numPages
    /\ UNCHANGED <<stores, first, wg, page, shifted, refused>>

\* The goroutines of a batch: up to the page with the number numPages.
Batch(k) == {id \in first[k]..(first[k] + MaxThreads - 1) : id <= numPages[k]}

\* Starting goroutines for the pages ids, with a wait group of n.
Start(k, ids, n) ==
    /\ tool[k] = "batch"
    /\ first[k] < numPages[k]
    /\ page' = [page EXCEPT ![k] =
                   [id \in PageIds |-> IF id \in ids
                        THEN [pc |-> "list", left |-> << >>] ELSE @[id]]]
    /\ wg' = [wg EXCEPT ![k] = n]
    /\ tool' = [tool EXCEPT ![k] = "wait"]
    /\ UNCHANGED <<stores, numPages, first, shifted, failed, refused>>

\* Mutants of StartBatch: only the pages that are there are started; or the
\* wait group expects one less than maxThreads.
StartBatchExact(k) == Start(k, Batch(k) \ {numPages[k]}, MaxThreads)
StartBatchFewer(k) == Start(k, Batch(k), MaxThreads - 1)

\* A batch: the wait group expects maxThreads goroutines, however many the
\* loop starts.
StartBatch(k) == Start(k, Batch(k), MaxThreads)

\* wg.Wait, and the next batch.
EndBatch(k) ==
    /\ tool[k] = "wait"
    /\ wg[k] = 0
    /\ first' = [first EXCEPT ![k] = @ + MaxThreads]
    /\ tool' = [tool EXCEPT ![k] = IF first'[k] < numPages[k]
                                   THEN "batch" ELSE "done"]
    /\ UNCHANGED <<stores, numPages, wg, page, shifted, failed, refused>>

-----------------------------------------------------------------------------
(* deletePageOfAlerts and the others *)

\* The goroutine goes on with the objects left, and is done when none is.
GoOn(k, id, next, left) ==
    /\ page' = [page EXCEPT ![k][id] =
                   IF left = << >> THEN Idle ELSE [pc |-> next, left |-> left]]
    /\ wg' = [wg EXCEPT ![k] = IF left = << >> THEN @ - 1 ELSE @]

At(k, id, where) == tool[k] = "wait" /\ page[k][id].pc = where

\* client.GetAllAlerts and the others.
ListPage(k, id) ==
    /\ At(k, id, "list")
    /\ \/ /\ GoOn(k, id, IF k = "events" THEN "types" ELSE "delete",
                  Listed(k, id, PageSize))
          /\ shifted' = IF seen[k] # Objects(k) THEN shifted \cup {k} ELSE shifted
          /\ UNCHANGED failed
       \/ /\ MayFail
          /\ GoOn(k, id, "delete", << >>)
          /\ failed' = failed \cup {k}
          /\ UNCHANGED shifted
    /\ UNCHANGED <<stores, loop, refused>>

\* GetAllEvents reads the event type of every event it found, and answers
\* with an error if one is gone.  (GetAllTriggers goes on without it.)
ReadTypes(id) ==
    /\ At("events", id, "types")
    /\ LET left == page["events"][id].left
           gone == \E i \in DOMAIN left : TypeOf[left[i]] \notin docs["types"]
       IN  \/ ~ gone /\ GoOn("events", id, "delete", left) /\ UNCHANGED failed
           \/ /\ gone \/ MayFail
              /\ GoOn("events", id, "delete", << >>)
              /\ failed' = failed \cup {"events"}
    /\ UNCHANGED <<stores, loop, shifted, refused>>

Object(k, id) == Head(page[k][id].left)
Rest(k, id) == Tail(page[k][id].left)

\* DELETE of an alert or a trigger.  An error ends the page for alerts, and
\* is ignored for triggers.
DeleteObject(k, id) ==
    /\ k \in {"alerts", "triggers"}
    /\ At(k, id, "delete")
    /\ \/ /\ Object(k, id) \in docs[k]
          /\ docs' = [docs EXCEPT ![k] = @ \ {Object(k, id)}]
          /\ GoOn(k, id, "delete", Rest(k, id))
          /\ UNCHANGED failed
       \/ /\ Object(k, id) \notin docs[k] \/ MayFail
          /\ GoOn(k, id, "delete", IF k = "alerts" THEN << >> ELSE Rest(k, id))
          /\ failed' = failed \cup {k}
          /\ UNCHANGED docs
    /\ UNCHANGED <<order, seen, loop, shifted, refused>>

\* DELETE of an event: those of system types are refused, errors are ignored.
DeleteEvent(id) ==
    /\ At("events", id, "delete")
    /\ LET e == Object("events", id)
       IN  \/ /\ e \in docs["events"]
              /\ TypeOf[e] \notin System
              /\ docs' = [docs EXCEPT !["events"] = @ \ {e}]
              /\ UNCHANGED <<failed, refused>>
           \/ /\ e \in docs["events"]
              /\ TypeOf[e] \in System
              /\ refused' = refused \cup {e}
              /\ UNCHANGED <<docs, failed>>
           \/ /\ e \notin docs["events"] \/ MayFail
              /\ failed' = failed \cup {"events"}
              /\ UNCHANGED <<docs, refused>>
    /\ GoOn("events", id, "delete", Rest("events", id))
    /\ UNCHANGED <<order, seen, loop, shifted>>

InUse(t) == \E r \in Refs : /\ TypeOf[r] = t
                            /\ r \in seen["events"] \cup seen["triggers"]

\* Mutant of CheckType: the triggers of the type are not asked for.
CheckTypeEventsOnly(id) ==
    /\ At("types", id, "delete")
    /\ LET t == Object("types", id)
       IN  IF t \in System \/ \E e \in seen["events"] : TypeOf[e] = t
           THEN /\ GoOn("types", id, "delete", Rest("types", id))
                /\ refused' = refused \cup {t}
           ELSE /\ GoOn("types", id, "checked", page["types"][id].left)
                /\ UNCHANGED refused
    /\ UNCHANGED <<stores, loop, failed, shifted>>

\* DELETE of an event type: it is read; a system type, and one with triggers
\* or events that a search sees, is refused.  (Nobody adds any, so the two
\* searches are one step.)
CheckType(id) ==
    /\ At("types", id, "delete")
    /\ LET t == Object("types", id)
       IN  \/ /\ t \in docs["types"]
              /\ t \in System \/ InUse(t)
              /\ GoOn("types", id, "delete", Rest("types", id))
              /\ refused' = refused \cup {t}
              /\ UNCHANGED failed
           \/ /\ t \in docs["types"]
              /\ ~ (t \in System \/ InUse(t))
              /\ GoOn("types", id, "checked", page["types"][id].left)
              /\ UNCHANGED <<failed, refused>>
           \/ /\ t \notin docs["types"] \/ MayFail
              /\ GoOn("types", id, "delete", Rest("types", id))
              /\ failed' = failed \cup {"types"}
              /\ UNCHANGED refused
    /\ UNCHANGED <<stores, loop, shifted>>

DeleteType(id) ==
    /\ At("types", id, "checked")
    /\ \/ /\ docs' = [docs EXCEPT !["types"] = @ \ {Object("types", id)}]
          /\ UNCHANGED failed
       \/ /\ MayFail
          /\ failed' = failed \cup {"types"}
          /\ UNCHANGED docs
    /\ GoOn("types", id, "delete", Rest("types", id))
    /\ UNCHANGED <<order, seen, loop, shifted, refused>>

\* Elasticsearch refreshes an index: searches see the deletions.
Refresh(k) ==
    /\ seen[k] # docs[k]
    /\ seen' = [seen EXCEPT ![k] = docs[k]]
    /\ UNCHANGED <<order, docs, loop, wg, page, shifted, failed, refused>>

-----------------------------------------------------------------------------
Init ==
    /\ order \in Populations
    /\ docs = [k \in Kinds |-> Objects(k)]
    /\ seen = docs
    /\ tool = [k \in Kinds |-> "count"]
    /\ numPages = [k \in Kinds |-> 0]
    /\ first = [k \in Kinds |-> 0]
    /\ wg = [k \in Kinds |-> 0]
    /\ page = [k \in Kinds |-> [id \in PageIds |-> Idle]]
    /\ shifted = {}
    /\ failed = {}
    /\ refused = {}

PageStep(k, id) ==
    \/ ListPage(k, id)
    \/ DeleteObject(k, id)
    \/ k = "events" /\ (ReadTypes(id) \/ DeleteEvent(id))
    \/ k = "types" /\ (CheckType(id) \/ DeleteType(id))

ToolStep(k) ==
    \/ GetNumObjects(k)
    \/ StartBatch(k)
    \/ EndBatch(k)
    \/ \E id \in PageIds : PageStep(k, id)

Next == \E k \in Kinds : ToolStep(k) \/ Refresh(k)

Spec == Init /\ [][Next]_vars

\* The goroutines of the tool run, and the service answers them.
FairSpec == Spec /\ \A k \in Kinds : WF_vars(ToolStep(k))

-----------------------------------------------------------------------------
(* Properties *)

\* Type invariant: nobody but the tool writes, so searches see too much,
\* never too little.
TypeOK ==
    /\ \A k \in Kinds :
          /\ docs[k] \subseteq seen[k] /\ seen[k] \subseteq Objects(k)
          /\ wg[k] \in 0..MaxThreads
    /\ tool \in [Kinds -> {"count", "batch", "wait", "done", "dead"}]
    /\ numPages \in [Kinds -> Nat]
    /\ first \in [Kinds -> Nat]
    /\ shifted \subseteq Kinds
    /\ failed \subseteq Kinds

\* Events, triggers and event types are deleted at the same time, and still no
\* event or trigger is ever left without its type: DeleteEventType refuses a
\* type as long as a search sees one.
NothingDangles ==
    \A r \in (docs["events"] \cup docs["triggers"]) : TypeOf[r] \in docs["types"]

\* The numbers of pages for which every batch starts as many goroutines as
\* its wait group expects.
Fits(n) == n % MaxThreads \in {0, MaxThreads - 1}

\* For such a number deleteAllObjects ends, whatever calls fail.  For any other
\* its last batch waits for goroutines it never started.
EndsIfPagesFit ==
    \A k \in Kinds :
        (tool[k] = "batch" /\ Fits(numPages[k])) ~> tool[k] \in {"done", "dead"}

\* When it has ended, an object that is left was refused, or lies beyond the
\* window of a search, or a call failed, or pages were listed while deletions
\* showed, which moves the objects of later pages to earlier ones.
LeftForAReason ==
    \A k \in Kinds \ (shifted \cup failed) :
        tool[k] = "done" =>
            \A i \in DOMAIN order[k] :
                \/ order[k][i] \notin docs[k] \ refused
                \/ i > (Window \div PageSize) * PageSize

\* What makes NothingDangles inductive: the type that a goroutine has found not
\* to be in use is not in use.
CheckedInv ==
    \A id \in PageIds :
        page["types"][id].pc = "checked" =>
            \A r \in docs["events"] \cup docs["triggers"] :
                TypeOf[r] # Object("types", id)

SeenInv ==
    /\ order \in Populations
    /\ DOMAIN docs = Kinds /\ DOMAIN seen = Kinds /\ DOMAIN page = Kinds
    /\ \A k \in Kinds : /\ docs[k] \subseteq seen[k]
                        /\ seen[k] \subseteq Objects(k)
                        /\ DOMAIN page[k] = PageIds

WipeInv == SeenInv /\ CheckedInv /\ NothingDangles
=============================================================================
