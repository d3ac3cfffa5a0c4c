----------------------------- MODULE EventData -----------------------------
(***************************************************************************)
(* What the service makes of the data it is given: the variables of an     *)
(* event type and the strict mapping built from them, the check of an      *)
(* event's data against them, and the rewriting of the keys of a trigger's *)
(* condition when it is posted, percolated, stored, read and updated.      *)
(*                                                                         *)
(* A key is a sequence of tokens: ".", "~", "data" or a letter.  A JSON    *)
(* object is given by its leaves: a function from the path of each leaf (a *)
(* sequence of keys) to what stands there.  Of a condition, and of a job,  *)
(* one leaf is followed: the rewritings go key by key, so two leaves can   *)
(* only meet where two keys are rewritten to one.                          *)
(***************************************************************************)
EXTENDS Naturals, FiniteSets, Sequences, SequencesExt

CONSTANTS
    Alphabet,     \* the tokens that keys are made of
    Names,        \* the names event types are posted under (keys)
    Mappings,     \* the mappings they are posted with: path -> declared type
    Conditions,   \* leaves of the conditions posted: [path, array]
    Jobs,         \* leaves of the job data posted: [path, array]
    Datas,        \* the data of the events posted: path -> kind of value
    Editors,      \* handler goroutines serving PUT /trigger/:id
    MaxUpdates,   \* bound on the updates of the trigger
    None          \* "nothing there"

DeclaredTypes == {"plain", "array", "geo", "invalid"}

\* What stands at a leaf of data: a value or an array of values that a field
\* can have, {}, null, [], or an array of objects with declared fields only
\* (any other array of objects counts as "array").
Kinds == {"scalar", "array", "empty", "null", "none", "objects"}
ArrayKinds == {"array", "none", "objects"}

Keys == Seq(Alphabet)
Paths == Seq(Keys) \ {<<>>}
Leaves == [path : Paths, array : BOOLEAN]

\* A JSON object: nothing stands below a leaf.
IsObject(obj, values) ==
    /\ DOMAIN obj \subseteq Paths
    /\ IsFiniteSet(DOMAIN obj)
    /\ \A p \in DOMAIN obj : obj[p] \in values
    /\ \A p, q \in DOMAIN obj : IsPrefix(p, q) => p = q

ASSUME EventDataAssumption ==
    /\ MaxUpdates \in Nat
    /\ {".", "~", "data", "lat", "lon"} \subseteq Alphabet
    /\ Names \subseteq Keys
    /\ \A m \in Mappings : IsObject(m, DeclaredTypes)
    /\ \A d \in Datas : IsObject(d, Kinds)
    /\ Conditions \subseteq Leaves
    /\ Jobs \subseteq Leaves
    /\ None \notin [name : Names, mapping : Mappings]
    /\ None \notin [cond : Leaves, job : Leaves]
    /\ None \notin [data : Datas, stored : BOOLEAN]

VARIABLES
    etype,    \* the event type stored: its name and mapping, or None
    trigger,  \* the triggers document: condition and job as stored, or None
    query,    \* the condition of the trigger's percolation query
    edit,     \* per editor: the trigger its PUT has read
    event,    \* the event posted: its data, and whether it was stored
    \* History variables, never read by a guard.
    posted,   \* the condition and the job the trigger was posted with
    updates,  \* how many updates the stored document has been through
    editFrom  \* ... and had been through when the editor read it

vars == <<etype, trigger, query, edit, event, posted, updates, editFrom>>

-----------------------------------------------------------------------------
(* Variables of a JSON object: GetVarsFromStruct joins the keys of a path. *)

Join(path) ==
    FlattenSeq([i \in DOMAIN path |->
                   IF i = 1 THEN path[i] ELSE <<".">> \o path[i]])

\* GetVarsFromStructSkip: a leaf below an excluded variable stands for that
\* variable as a whole (it is kept as a string); an empty object has no
\* variables.
SkippedAt(path, exclude) ==
    {q \in Prefixes(path) \ {<<>>} : Join(q) \in exclude}

VarOf(path, exclude) ==
    IF SkippedAt(path, exclude) # {}
    THEN Join(CHOOSE q \in SkippedAt(path, exclude) :
                 \A r \in SkippedAt(path, exclude) : Len(q) <= Len(r))
    ELSE Join(path)

HasVar(obj, path, exclude) ==
    obj[path] # "empty" \/ SkippedAt(path, exclude) # {}

VarsOf(obj, exclude) ==
    {VarOf(p, exclude) : p \in {q \in DOMAIN obj : HasVar(obj, q, exclude)}}

\* The variables with their kind of value; of two leaves joined to one name a
\* Go map keeps either.
GetVars(obj, exclude) ==
    LET kindAt(p, k) == IF Join(p) = k /\ obj[p] \in ArrayKinds
                        THEN "array" ELSE "scalar"
        kinds(k) == {kindAt(p, k) : p \in
                        {q \in DOMAIN obj : /\ HasVar(obj, q, exclude)
                                            /\ VarOf(q, exclude) = k}}
    IN  {f \in [VarsOf(obj, exclude) -> {"scalar", "array"}] :
            \A k \in DOMAIN f : f[k] \in kinds(k)}

-----------------------------------------------------------------------------
(* Event types. *)

\* visitNodeE, visitLeafE: the mapping must name valid types, and the field
\* and type names must be ones Elasticsearch takes.
Tildes(mapping) == \E k \in VarsOf(mapping, {}) : Contains(k, "~")

ValidSchema(name, mapping) ==
    /\ \A p \in DOMAIN mapping : mapping[p] # "invalid"
    /\ ~ Contains(name, ".")
    /\ \A p \in DOMAIN mapping : \A i \in DOMAIN p : ~ Contains(p[i], ".")

PostEventType(name, mapping) ==
    /\ etype = None
    /\ ~ Tildes(mapping)
    /\ ValidSchema(name, mapping)
    /\ etype' = [name |-> name, mapping |-> mapping]
    /\ UNCHANGED <<trigger, query, edit, event, posted, updates, editFrom>>

-----------------------------------------------------------------------------
(* Events. *)

\* Mutant of GeoVars: the objects of points are descended into.
GeoVarsNone(mapping) == {}

\* The geo variables of the mapping: of the data, their objects are not
\* descended into.
GeoVars(mapping) == {Join(p) : p \in {q \in DOMAIN mapping : mapping[q] = "geo"}}

\* Mutant of VerifyEvent: the numbers of variables are not compared.
VerifyEventUncounted(mapping, found) ==
    \A p \in DOMAIN mapping :
        Join(p) \in DOMAIN found =>
            (found[Join(p)] = "array" <=> mapping[p] = "array")

\* verifyEventReadyToPost: the numbers of variables are compared, then, of
\* those in both, whether the value is an array as declared.
VerifyEvent(mapping, found) ==
    /\ Cardinality(VarsOf(mapping, {})) = Cardinality(DOMAIN found)
    /\ \A p \in DOMAIN mapping :
          Join(p) \in DOMAIN found =>
              (found[Join(p)] = "array" <=> mapping[p] = "array")

\* The mapping built by ConstructEventMappingSchema is strict at every level:
\* Elasticsearch takes no field it does not declare.  A geo field takes a
\* string, an array or the object of a point.  Every field takes null and [],
\* and a field that is an object takes an array of them.
GeoObject == {<<<<"lat">>>>, <<<<"lon">>>>}

EsTakesGeo(mapping, data, p) ==
    \E q \in DOMAIN mapping :
        /\ mapping[q] = "geo"
        /\ {r \in DOMAIN data : IsPrefix(q, r)} = {q \o s : s \in GeoObject}
        /\ IsPrefix(q, p)
        /\ data[p] = "scalar"

\* What can stand where the mapping has an object, and is not one.
NoObject == {"null", "none", "objects"}

EsTakes(mapping, data) ==
    \A p \in DOMAIN data :
        \/ p \in DOMAIN mapping /\ data[p] \in {"scalar", "array", "null", "none"}
        \/ /\ \E q \in DOMAIN mapping : IsStrictPrefix(p, q)
           /\ data[p] \in NoObject \cup {"empty"}
        \/ EsTakesGeo(mapping, data, p)

PostEvent(data) ==
    /\ etype # None
    /\ event = None
    /\ \E found \in GetVars(data, GeoVars(etype.mapping)) :
          event' = [data |-> data,
                    stored |-> /\ VerifyEvent(etype.mapping, found)
                               /\ EsTakes(etype.mapping, data)]
    /\ UNCHANGED <<etype, trigger, query, edit, posted, updates, editFrom>>

\* The paths of the document percolated, and stored: the data is wrapped in
\* the name of the event type (addUniqueParams).
Document(data) == {<<<<"data">>, etype.name>> \o p : p \in DOMAIN data}

-----------------------------------------------------------------------------
(* Keys of a condition. *)

DotsToTildes(key) == ReplaceAll(key, ".", "~")
TildesToDots(key) == ReplaceAll(key, "~", ".")

\* handleDotTilde: only the key of a scalar is rewritten, never the key of an
\* object or of an array.
EncodeDots(leaf) ==
    IF leaf.array THEN leaf
    ELSE [leaf EXCEPT !.path = Front(@) \o <<DotsToTildes(Last(@))>>]

DecodeTildes(leaf) ==
    IF leaf.array THEN leaf
    ELSE [leaf EXCEPT !.path = Front(@) \o <<TildesToDots(Last(@))>>]

\* PostTrigger: the first "data." of every key becomes "data.<name>.".
AddName(leaf, name) ==
    [leaf EXCEPT !.path =
        [i \in DOMAIN @ |->
            ReplaceFirstSubSeq(<<"data", ".">> \o name \o <<".">>,
                               <<"data", ".">>, @[i])]]

\* decodeCondition: of every key, drop the second of its dotted parts.
DropSecond(key) ==
    LET dot  == SelectInSeq(key, LAMBDA c : c = ".")
        rest == SubSeq(key, dot + 1, Len(key))
        next == SelectInSeq(rest, LAMBDA c : c = ".")
    IN  SubSeq(key, 1, dot) \o SubSeq(rest, next + 1, Len(rest))

DropName(leaf) ==
    [leaf EXCEPT !.path = [i \in DOMAIN @ |-> DropSecond(@[i])]]

\* Mutant of DecodeCondition: the name is dropped before the dots are back.
DecodeSwapped(leaf) == DecodeTildes(DropName(leaf))

DecodeCondition(leaf) == DropName(DecodeTildes(leaf))

\* TriggerDB.GetOne decodes the condition of the document it read.
GetOne == [trigger EXCEPT !.cond = DecodeCondition(@)]

\* GetTrigger: a condition whose outermost key is the name of the event type
\* is unwrapped (removeUniqueParams).
RemoveName(leaf, name) ==
    IF Head(leaf.path) = name THEN [leaf EXCEPT !.path = Tail(@)] ELSE leaf

GetTrigger == [GetOne EXCEPT !.cond = RemoveName(@, etype.name)]

\* Mutant of PostTrigger: the query is percolated as it was posted.
PostTriggerRawQuery(cond, job) ==
    /\ etype # None
    /\ trigger = None
    /\ query' = cond
    /\ trigger' = [cond |-> EncodeDots(AddName(cond, etype.name)), job |-> job]
    /\ posted' = [cond |-> cond, job |-> job]
    /\ UNCHANGED <<etype, edit, event, updates, editFrom>>

PostTrigger(cond, job) ==
    /\ etype # None
    /\ trigger = None
    /\ query' = AddName(cond, etype.name)
    /\ trigger' = [cond |-> EncodeDots(AddName(cond, etype.name)), job |-> job]
    /\ posted' = [cond |-> cond, job |-> job]
    /\ UNCHANGED <<etype, edit, event, updates, editFrom>>

\* PutTrigger reads the trigger and writes it back with another Enabled: the
\* condition as it was decoded, and every key of the trigger encoded.
ReadForUpdate(ed) ==
    /\ trigger # None
    /\ edit[ed] = None
    /\ updates < MaxUpdates
    /\ edit' = [edit EXCEPT ![ed] = GetOne]
    /\ editFrom' = [editFrom EXCEPT ![ed] = updates]
    /\ UNCHANGED <<etype, trigger, query, event, posted, updates>>

\* Mutant of SaveUpdate: dots and tildes the wrong way round.
SaveDecoded(ed) ==
    /\ edit[ed] # None
    /\ trigger' = [cond |-> DecodeTildes(edit[ed].cond),
                   job  |-> DecodeTildes(edit[ed].job)]
    /\ updates' = editFrom[ed] + 1
    /\ edit' = [edit EXCEPT ![ed] = None]
    /\ editFrom' = [editFrom EXCEPT ![ed] = 0]
    /\ UNCHANGED <<etype, query, event, posted>>

SaveUpdate(ed) ==
    /\ edit[ed] # None
    /\ trigger' = [cond |-> EncodeDots(edit[ed].cond),
                   job  |-> EncodeDots(edit[ed].job)]
    /\ updates' = editFrom[ed] + 1
    /\ edit' = [edit EXCEPT ![ed] = None]
    /\ editFrom' = [editFrom EXCEPT ![ed] = 0]
    /\ UNCHANGED <<etype, query, event, posted>>

-----------------------------------------------------------------------------
Init ==
    /\ etype = None
    /\ trigger = None
    /\ query = None
    /\ edit = [ed \in Editors |-> None]
    /\ event = None
    /\ posted = None
    /\ updates = 0
    /\ editFrom = [ed \in Editors |-> 0]

Next ==
    \/ \E n \in Names, m \in Mappings : PostEventType(n, m)
    \/ \E c \in Conditions, j \in Jobs : PostTrigger(c, j)
    \/ \E ed \in Editors : ReadForUpdate(ed) \/ SaveUpdate(ed)
    \/ \E d \in Datas : PostEvent(d)

Spec == Init /\ [][Next]_vars

-----------------------------------------------------------------------------
(* Properties. *)

Tokens(leaf) == UNION {ToSet(leaf.path[i]) : i \in DOMAIN leaf.path}

\* Type invariant.  In the triggers index, the key of a scalar of a condition
\* holds no dot: that is what TriggerDB encodes it for.
TypeOK ==
    /\ etype = None \/ (etype.name \in Names /\ etype.mapping \in Mappings)
    /\ trigger = None <=> posted = None
    /\ trigger # None =>
          trigger.cond.array \/ ~ Contains(Last(trigger.cond.path), ".")
    /\ event = None \/ (event.data \in Datas /\ event.stored \in BOOLEAN)
    /\ updates \in 0..MaxUpdates
    /\ \A ed \in Editors : editFrom[ed] < MaxUpdates \/ edit[ed] = None

\* What it means that data has a variable of the mapping: an array exactly if
\* it is declared one, or the object of a point.
Has(mapping, data, p) ==
    \/ /\ p \in DOMAIN data
       /\ data[p] \in IF mapping[p] = "array" THEN {"array", "none"}
                       ELSE {"scalar", "null"}
    \/ /\ mapping[p] = "geo"
       /\ {r \in DOMAIN data : IsPrefix(p, r)} = {p \o s : s \in GeoObject}
       /\ \A s \in GeoObject : data[p \o s] = "scalar"

\* ... and that it has exactly the variables of the mapping.
Conforms(mapping, data) ==
    /\ \A p \in DOMAIN mapping : Has(mapping, data, p)
    /\ \A r \in DOMAIN data : \E p \in DOMAIN mapping : IsPrefix(p, r)

\* A variable is hidden by what stands for one of the objects around it and is
\* counted as a variable in its place; no other variable is in that object.
Hides(mapping, data, q, p) ==
    /\ IsStrictPrefix(q, p)
    /\ data[q] \in NoObject
    /\ \A o \in DOMAIN mapping : IsStrictPrefix(q, o) => o = p

Hidden(mapping, data, p) == \E q \in DOMAIN data : Hides(mapping, data, q, p)

Stored == event # None /\ event.stored

\* EventDB.PostData stores only events with exactly the variables of their
\* type, although verifyEventReadyToPost compares no more than their number:
\* the only variables missing are hidden ones, one to each null, [] or array of
\* objects, and there is nothing else in the data.
StoredConforms ==
    Stored =>
        LET m == etype.mapping
            d == event.data
        IN  /\ \A p \in DOMAIN m : Has(m, d, p) \/ Hidden(m, d, p)
            /\ \A r \in DOMAIN d :
                  \E p \in DOMAIN m : IsPrefix(p, r) \/ Hides(m, d, r, p)

\* verifyEventReadyToPost refuses no event with exactly the variables of its
\* type, objects of points included.
ConformingAccepted ==
    (event # None /\ ~ event.stored) => ~ Conforms(etype.mapping, event.data)

VarKey(path) == <<"data", ".">> \o Join(path)
IsVarKey(key) == \E p \in DOMAIN etype.mapping : key = VarKey(p)

\* A key as GetTrigger returns it after n updates: each of them takes the
\* first remaining part off a nested variable, down to its last part.
KeyAfter(key, n) ==
    IF IsVarKey(key)
    THEN LET p == CHOOSE p \in DOMAIN etype.mapping : key = VarKey(p)
         IN  VarKey(SubSeq(p, IF n < Len(p) THEN n + 1 ELSE Len(p), Len(p)))
    ELSE key

OrdinaryKey(key) == IsVarKey(key) \/ ToSet(key) \cap {".", "~"} = {}

\* After any updates, racing ones included, GetTrigger returns the condition
\* PostTrigger was given, if it is about variables that are not nested; a
\* nested variable loses one part for each update its document went through.
\* The job stays as it was posted if its keys hold no dots.  (For event types
\* whose name has no tilde and is no key of the query language.)
ReadBack ==
    trigger # None =>
        /\ "." \notin Tokens(posted.job) => trigger.job = posted.job
        /\ (/\ ~ Contains(etype.name, "~")
            /\ etype.name # Head(posted.cond.path)
            /\ \A i \in DOMAIN posted.cond.path :
                  OrdinaryKey(posted.cond.path[i]))
           => GetTrigger.cond =
                [posted.cond EXCEPT !.path =
                    [i \in DOMAIN @ |-> KeyAfter(@[i], updates)]]

\* A variable named by the condition of a trigger is, in the percolation
\* query, a field of every stored event of the type that does not hide it,
\* after updates as before.
QueryMeetsData ==
    (trigger # None /\ Stored) =>
        \A i \in DOMAIN query.path : \A p \in DOMAIN etype.mapping :
            posted.cond.path[i] = VarKey(p) =>
                \/ Hidden(etype.mapping, event.data, p)
                \/ \E d \in Document(event.data) : \E q \in Prefixes(d) :
                      Join(q) = query.path[i]
=============================================================================
