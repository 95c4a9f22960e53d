-------------------------- MODULE DependencyMapBuilder -------------------------
(***************************************************************************)
(* DependencyMapBuilder visiting the items of a unit one after the other.  *)
(***************************************************************************)
EXTENDS DependencyTracking

CONSTANT Units     \* the units that are visited, sequences of items

VARIABLES unit, n, b
vars == <<unit, n, b>>

Init == unit \in Units /\ n = 1 /\ b = Builder

VisitNext ==
    /\ n <= Len(unit)
    /\ b' = VisitUnit(b, <<unit[n]>>)
    /\ n' = n + 1
    /\ UNCHANGED unit

Next == VisitNext
Spec == Init /\ [][Next]_vars
--------------------------------------------------------------------------------
\* After every item the map has the dependencies of the items visited, each in
\* the contexts of the expressions it comes from, and no others: none left behind
\* on the stack by a branch, an index or a lambda, none recorded for another item
\* (popTracking, addDependency).  What an item needs may be recorded for a field
\* that the item is part of as well, which then is kept for it; of the items of
\* an embedded unit, the visitor does so for the first one.
MapFaithful ==
    LET needed == EdgesOfUnit(SubSeq(unit, 1, n - 1), <<>>)
        recorded == MapEdges(b.map)
    IN /\ needed \subseteq recorded
       /\ \A e \in recorded : \E f \in needed : IsPrefix(e[1], f[1]) /\ e[2] = f[2] /\ e[3] = f[3]

\* The arguments of a method call in an item's attribute are tracked like its
\* other operands: "tuple, tracking will be pushed inside".
ArgumentsTracked ==
    \A k \in 1..(n - 1) : \A a \in ToSet(unit[k].attrs) :
       a.value.kind = "op" /\ a.value.op = "MethodCall" =>
          \A e \in ToSet(a.value.args[3].elems) :
             Edges({<<unit[k].id>>}, Uses(e, ContextOf(a.key), [unit |-> <<>>, dd |-> <<unit[k].id>>, list |-> <<>>]))
                \subseteq MapEdges(b.map)
================================================================================
