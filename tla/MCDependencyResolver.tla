------------------------- MODULE MCDependencyResolver --------------------------
(***************************************************************************)
(* Instances of DependencyResolver for TLC: maps over three items, with    *)
(* cycles and with a second way, found a round later, to an item that is   *)
(* known already, so that a round may only widen a context; and lists of   *)
(* items the application names, none and repeated ones included.           *)
(***************************************************************************)
EXTENDS DependencyResolver

MCIds == {"__length", "a", "b", "c"}

\* The edges that vary: what a and the end of the unit depend on, the way from
\* a to b through c, and the way back.
Edges == {<<"__length", "a">>, <<"a", "b">>, <<"a", "c">>, <<"c", "b">>, <<"b", "a">>}

EdgeContexts == {{}, {PARSING}, {SERIALIZING}}
BackContexts == {{}, {SERIALIZING}, {PARSING, SERIALIZING_UPDATE}}

\* The map with the edges e; what has an empty context is no edge.
MapOf(e) ==
    LET Entries(x, ys) == SelectSeq([k \in DOMAIN ys |-> [id |-> ys[k], context |->
                                       IF <<x, ys[k]>> \in Edges THEN e[x, ys[k]] ELSE {}]],
                                    LAMBDA d : d.context # {})
    IN [x \in MCIds |-> Entries(x, <<"a", "b", "c">>)]

MCInstantiations ==
    [map : {MapOf(e) : e \in {f \in [Edges -> EdgeContexts \cup BackContexts] :
                                 \A x \in Edges : f[x] \in IF x = <<"b", "a">> THEN BackContexts
                                                           ELSE EdgeContexts}},
     items : {<<>>, <<"a">>, <<"b", "b">>, <<"a", "c">>}]
================================================================================
