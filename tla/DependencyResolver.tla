--------------------------- MODULE DependencyResolver --------------------------
(***************************************************************************)
(* InstantiationDependencyResolver: which items of a unit an instantiation *)
(* needs, and what for.  Starting from the items the application names and *)
(* from __length, which stands for what is needed to find the end of the   *)
(* unit, rounds of a loop follow the dependency map until no context grows.*)
(* A context, a bit mask in the code, is the set of its flags.             *)
(***************************************************************************)
EXTENDS Integers, Sequences

CONSTANTS
    Ids,             \* ids of items, __length included
    Length,          \* __length
    Instantiations   \* what may be resolved: [map, items]

\* The flags of DependencyContext.
APPLICATION == "APPLICATION"
PARSING == "PARSING"
SERIALIZING == "SERIALIZING"
SERIALIZING_UPDATE == "SERIALIZING_UPDATE"
MapFlags == {PARSING, SERIALIZING, SERIALIZING_UPDATE}
Flags == MapFlags \cup {APPLICATION}

Dependency == [id : Ids, context : SUBSET Flags]

\* An entry of a dependency map; none leads to __length, which names no item.
Entry == [id : Ids \ {Length}, context : SUBSET MapFlags]

ASSUME InstantiationsAssumption ==
    /\ Length \in Ids
    /\ \A x \in Instantiations :
          /\ x.map \in [Ids -> Seq(Entry)]
          /\ x.items \in Seq(Ids \ {Length})

VARIABLES
    map, items,     \* the dependency map, and the ids the instantiation names
    dependencies,   \* the list that is built
    to_add,         \* what this round found
    changed,
    pc,             \* "collect", "merge" or "done"
    i, j            \* loop counters

inst == <<map, items>>
vars == <<inst, dependencies, to_add, changed, pc, i, j>>

\* The list starts with __length, in front of what the application names.
Initial(its) ==
    [k \in 1..(Len(its) + 1) |->
       IF k = 1 THEN [id |-> Length, context |-> {PARSING}]
                ELSE [id |-> its[k - 1], context |-> {APPLICATION}]]

Init ==
    /\ \E x \in Instantiations : map = x.map /\ items = x.items
    /\ dependencies = Initial(items)
    /\ to_add = <<>> /\ changed = FALSE
    /\ pc = "collect" /\ i = 1 /\ j = 1

--------------------------------------------------------------------------------
\* What a dependency in context c hands on along an entry of the map.
PassedAlways(c, d) == d
PassedOwn(c, d) == c \cap d
PassedBoth(c, d) == c \cup d
Passed(c, d) == IF APPLICATION \in c THEN d ELSE c \cap d

Follow ==
    /\ pc = "collect" /\ i <= Len(dependencies)
    /\ LET dep == dependencies[i]
       IN /\ j <= Len(map[dep.id])
          /\ LET depdep == map[dep.id][j]
                 c == Passed(dep.context, depdep.context)
             IN to_add' = IF APPLICATION \in dep.context \/ c # {}
                          THEN Append(to_add, [id |-> depdep.id, context |-> c])
                          ELSE to_add
    /\ j' = j + 1
    /\ UNCHANGED <<inst, dependencies, changed, pc, i>>

NextDependency ==
    /\ pc = "collect" /\ i <= Len(dependencies)
    /\ j > Len(map[dependencies[i].id])
    /\ i' = i + 1 /\ j' = 1
    /\ UNCHANGED <<inst, dependencies, to_add, changed, pc>>

BeginMerge ==
    /\ pc = "collect" /\ i > Len(dependencies)
    /\ pc' = "merge" /\ i' = 1
    /\ UNCHANGED <<inst, dependencies, to_add, changed, j>>

\* The first dependency on id.
Found(id, k) ==
    /\ k \in 1..Len(dependencies) /\ dependencies[k].id = id
    /\ \A l \in 1..(k - 1) : dependencies[l].id # id

\* dep_.context |= dep.context
JoinedNew(c, d) == d
Joined(c, d) == c \cup d

\* Whether the loop has to go round again after context c was joined with d.
GrewNever(c, d) == FALSE
Grew(c, d) == Joined(c, d) # c

MergeFound ==
    /\ pc = "merge" /\ i <= Len(to_add)
    /\ \E k \in 1..Len(dependencies) :
          /\ Found(to_add[i].id, k)
          /\ dependencies' = [dependencies EXCEPT ![k].context = Joined(@, to_add[i].context)]
          /\ changed' = IF Grew(dependencies[k].context, to_add[i].context) THEN TRUE ELSE changed
    /\ i' = i + 1
    /\ UNCHANGED <<inst, to_add, pc, j>>

MergeNew ==
    /\ pc = "merge" /\ i <= Len(to_add)
    /\ \A k \in 1..Len(dependencies) : dependencies[k].id # to_add[i].id
    /\ dependencies' = Append(dependencies, to_add[i])
    /\ changed' = TRUE
    /\ i' = i + 1
    /\ UNCHANGED <<inst, to_add, pc, j>>

NextRoundStillChanged ==
    /\ pc = "merge" /\ i > Len(to_add) /\ changed = TRUE
    /\ pc' = "collect" /\ i' = 1 /\ j' = 1
    /\ to_add' = <<>>
    /\ UNCHANGED <<inst, dependencies, changed>>

NextRound ==
    /\ pc = "merge" /\ i > Len(to_add) /\ changed = TRUE
    /\ pc' = "collect" /\ i' = 1 /\ j' = 1
    /\ to_add' = <<>> /\ changed' = FALSE
    /\ UNCHANGED <<inst, dependencies>>

\* dependencies.pop_front() takes __length away again.
Finish ==
    /\ pc = "merge" /\ i > Len(to_add) /\ changed = FALSE
    /\ pc' = "done"
    /\ dependencies' = Tail(dependencies)
    /\ UNCHANGED <<inst, to_add, changed, i, j>>

Next ==
    \/ Follow \/ NextDependency \/ BeginMerge
    \/ MergeFound \/ MergeNew \/ NextRound \/ Finish

Spec == Init /\ [][Next]_vars

\* The resolver is a loop of one thread: it goes on as long as it can.
FairSpec == Spec /\ WF_vars(Next)
--------------------------------------------------------------------------------
TypeOK ==
    /\ map \in [Ids -> Seq(Entry)]
    /\ items \in Seq(Ids \ {Length})
    /\ dependencies \in Seq(Dependency)
    /\ to_add \in Seq(Entry)
    /\ changed \in BOOLEAN
    /\ pc \in {"collect", "merge", "done"}
    /\ i \in Nat \ {0} /\ j \in Nat \ {0}

\* Item x is known to be needed for f; __length, once removed, for parsing.
Has(x, f) ==
    \/ \E k \in 1..Len(dependencies) : dependencies[k].id = x /\ f \in dependencies[k].context
    \/ pc = "done" /\ x = Length /\ f = PARSING

\* A relation between ids and flags that has what the instantiation starts from
\* and what follows along the map: an item that is needed by the application
\* needs all its dependencies, one that is needed for f those it has for f.
Solution(R) ==
    /\ <<Length, PARSING>> \in R
    /\ \A k \in 1..Len(items) : <<items[k], APPLICATION>> \in R
    /\ \A x \in Ids : \A k \in 1..Len(map[x]) : \A f \in map[x][k].context :
          <<x, APPLICATION>> \in R \/ <<x, f>> \in R => <<map[x][k].id, f>> \in R

Known == {p \in Ids \X Flags : Has(p[1], p[2])}

\* The loop stops only when everything follows: stopping on a round that added
\* an id but grew no context, or the other way round, would leave items out that
\* the generated parser reads.
Resolved == pc = "done" => Solution(Known)

\* Nothing is kept that is not needed: what is found is in every solution.
Least ==
    pc = "done" => \A R \in SUBSET (Ids \X Flags) : Solution(R) => Known \subseteq R

\* Why Resolved holds: in a round that has changed nothing so far, whatever
\* follows from the dependencies is in to_add, and what was merged of that was
\* known before; __length stays at the front.
Handed(k, l) ==
    LET dep == dependencies[k]  e == map[dependencies[k].id][l]
    IN \A f \in e.context :
          APPLICATION \in dep.context \/ f \in dep.context =>
             \E n \in 1..Len(to_add) : to_add[n].id = e.id /\ f \in to_add[n].context

RoundInv ==
    /\ pc # "done" =>
          /\ Len(dependencies) >= 1
          /\ dependencies[1] = [id |-> Length, context |-> {PARSING}]
          /\ \A k \in 2..Len(dependencies) : dependencies[k].id # Length
          /\ \A k \in 1..Len(items) : Has(items[k], APPLICATION)
    /\ pc = "collect" =>
          /\ changed = FALSE
          /\ \A k \in 1..Len(dependencies) : \A l \in 1..Len(map[dependencies[k].id]) :
                k < i \/ (k = i /\ l < j) => Handed(k, l)
    /\ pc = "merge" /\ changed = FALSE =>
          /\ \A k \in 1..Len(dependencies) : \A l \in 1..Len(map[dependencies[k].id]) :
                Handed(k, l)
          /\ \A n \in 1..Len(to_add) : n < i =>
                \A f \in to_add[n].context : Has(to_add[n].id, f)

\* A dependency is never dropped and its context never shrinks, until __length
\* is taken away at the end.
OnlyGrows ==
    [][\A k \in 1..Len(dependencies) : pc' # "done" =>
          /\ k \in 1..Len(dependencies')
          /\ dependencies'[k].id = dependencies[k].id
          /\ dependencies[k].context \subseteq dependencies'[k].context]_vars

\* The resolver ends, also where dependencies are circular ($$ in &serialize).
Terminates == <>(pc = "done")
================================================================================
