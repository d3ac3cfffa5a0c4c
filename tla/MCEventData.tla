---------------------------- MODULE MCEventData ----------------------------
(***************************************************************************)
(* A small instance of EventData: variables a, b, a.b and a.b.c, geo and   *)
(* array variables, an event type whose name holds a tilde and one named   *)
(* like a key of the query language.                                       *)
(***************************************************************************)
EXTENDS EventData

A == <<"a">>
B == <<"b">>
C == <<"c">>
Dotted == <<"a", ".", "b">>
Tilded == <<"a", "~">>

PrefixFree(S) == \A p, q \in S : p # q => ~ IsPrefix(p, q)

\* All objects with leaves at some of the paths P, of the kinds K.
Objects(P, K) == UNION {[S -> K] : S \in {T \in SUBSET P : PrefixFree(T)}}

MCAlphabet ==
    {".", "~", "data", "lat", "lon", "meta", "query", "gte"}
        \cup {"a", "b", "c", "m", "n", "x"}
MCNames == {<<"n">>, <<"n", "~", "m">>, <<"query">>}
MCMappings ==
    Objects({<<A, B>>, <<B>>}, {"plain", "array", "geo"})
        \cup Objects({<<A>>, <<B>>}, {"plain"})
        \cup {<<A, B, C>> :> "plain",
              <<A, B>> :> "plain" @@ <<A, C>> :> "plain", <<Dotted>> :> "plain",
              <<Tilded>> :> "plain", <<A>> :> "invalid"}
MCDatas ==
    Objects({<<A>>, <<A, B>>, <<B>>}, Kinds)
        \cup Objects({<<A>>, <<B, <<"lat">>>>, <<B, <<"lon">>>>, <<Dotted>>},
                     {"scalar"})
        \cup {<<A, B, C>> :> "scalar",
              <<A, B>> :> "scalar" @@ <<A, C>> :> "null"}

Query == <<"query">>
MCConditions ==
    {[path |-> <<Query, <<"data", ".">> \o A>>, array |-> FALSE],
     [path |-> <<Query, <<"data", ".">> \o A>>, array |-> TRUE],
     [path |-> <<Query, <<"data", ".", "a", ".", "b">>, <<"gte">>>>,
      array |-> FALSE],
     [path |-> <<Query, <<"data", ".", "a", ".", "b", ".", "c">>>>,
      array |-> FALSE],
     [path |-> <<<<"meta", "data", ".", "x">>>>, array |-> FALSE]}
MCJobs == {[path |-> <<<<"a", "~", "b">>>>, array |-> FALSE],
           [path |-> <<<<"a", ".", "b">>>>, array |-> FALSE]}
EditorSymmetry == Permutations(Editors)
=============================================================================
