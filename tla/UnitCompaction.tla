----------------------------- MODULE UnitCompaction ----------------------------
(***************************************************************************)
(* The compact unit of an instantiation, from the dependency map through   *)
(* the resolver to the type generator: DependencyMapBuilder builds the map *)
(* of the unit, InstantiationDependencyResolver follows it from the items  *)
(* the application names, InstantiationTypeGenerator compacts the rest.    *)
(***************************************************************************)
EXTENDS DependencyTracking

CONSTANT
    Compactions    \* [unit, module, items]: a unit, its module, and the ids the
                   \* application names

VARIABLES
    module,                                                   \* never changed
    unit, b, visited,                                         \* DependencyMapBuilder
    map, items, dependencies, to_add, changed, pc, i, j,      \* the resolver
    unit_items, compactable, n, unit_decls                    \* the type generator

building == <<b, visited>>
resolving == <<map, items, dependencies, to_add, changed, pc, i, j>>
generating == <<unit_items, compactable, n, unit_decls>>
vars == <<module, unit, building, resolving, generating>>

RECURSIVE LengthTerms(_)

\* The summands of a length, whatever unit `self' is.
LengthTerms(e) ==
    IF e.kind = "op" /\ e.op = "Plus" THEN LengthTerms(e.args[1]) \o LengthTerms(e.args[2])
    ELSE <<Replaced(e)>>

Items == UNION {ToSet(c.unit) : c \in Compactions}

\* Units, Ids and Instantiations matter to the parts' own initial states only.
Builds == INSTANCE DependencyMapBuilder WITH Units <- {}, n <- visited
Resolver == INSTANCE DependencyResolver WITH Ids <- {}, Instantiations <- {}
Generator == INSTANCE InstantiationTypeGenerator WITH deps <- dependencies

Init ==
    /\ \E c \in Compactions : unit = c.unit /\ module = c.module /\ items = c.items
    /\ b = Builder /\ visited = 1
    /\ pc = "build"
    /\ map = <<>> /\ dependencies = <<>> /\ to_add = <<>> /\ changed = FALSE /\ i = 1 /\ j = 1
    /\ Generator!Init

Build == pc = "build" /\ Builds!VisitNext /\ UNCHANGED <<module, resolving, generating>>

\* An id that was never added to the map has no entries.
MapOf(m, its) ==
    LET tos == UNION {{m[f][k].id : k \in DOMAIN m[f]} : f \in DOMAIN m}
    IN [id \in DOMAIN m \cup tos \cup ToSet(its) \cup {Length} |-> Entries(m, id)]

BeginResolving ==
    /\ pc = "build" /\ visited > Len(unit)
    /\ map' = MapOf(b.map, items)
    /\ dependencies' = Resolver!Initial(items)
    /\ pc' = "collect"
    /\ UNCHANGED <<module, unit, building, items, to_add, changed, i, j, generating>>

Resolve == pc # "build" /\ Resolver!Next /\ UNCHANGED <<module, unit, building, generating>>

Generate ==
    /\ pc = "done"
    /\ Generator!Next
    /\ UNCHANGED <<module, building, map, items, to_add, changed, pc, i, j>>

\* The passes are over; before that one of them can always go on.
Done == unit_decls # <<>> /\ UNCHANGED vars

Next == Build \/ BeginResolving \/ Resolve \/ Generate \/ Done
Spec == Init /\ [][Next]_vars
--------------------------------------------------------------------------------
\* The map the passes work from has, after every item, the dependencies of the
\* items visited and no others, but that a field may have those of the items in
\* it (DependencyMapBuilder's visitors of items and expressions).
MapFaithful == Builds!MapFaithful

\* Compaction moves nothing: the fields taken so far take the bytes the unit's
\* fields take, and a field that is kept starts where it starts in the unit
\* (InstantiationTypeGenerator::visit(Item), compactAndAddItems).
SameLayout == Generator!SameLayout

\* Members of this unit that e reads or sets as such.  The elements of a list and
\* the members of an embedded unit are left out: a dependency on <<"l", "[]">> does
\* not make l needed ("support embedded units, switch fields and containers").
Names(e) ==
    LET paths == {u[1] : u \in Uses(e, {PARSING}, [unit |-> <<>>, dd |-> <<>>, list |-> <<>>])}
    IN {p[1] : p \in {q \in paths : Len(q) = 1}}

RECURSIVE Ids1(_)

\* The ids that items give names to.
Ids1(xs) ==
    UNION {{x.id} \cup (IF x.kind = "switch" THEN UNION {Ids1(c.items) : c \in ToSet(x.cases)} ELSE {})
             : x \in ToSet(xs)}

RECURSIVE ParsingReads(_)

ParsingReads(x) ==
    Names(Lookup(x, "length")) \cup Names(Lookup(x, "parse")) \cup
    (IF x.kind = "switch"
     THEN Names(x.expr) \cup UNION {UNION {ParsingReads(f) : f \in ToSet(c.items)} : c \in ToSet(x.cases)}
     ELSE {})

RECURSIVE Selves(_)

\* The `self's of e.
Selves(e) ==
    CASE e.kind = "self" -> {e}
      [] e.kind = "op"   -> UNION {Selves(f) : f \in ToSet(e.args)}
      [] e.kind = "cond" -> Selves(e.cond) \cup Selves(e.true) \cup Selves(e.false)
      [] OTHER           -> {}

ItemSelves(x) ==
    UNION {Selves(a.value) : a \in ToSet(x.attrs)}
    \cup (IF x.kind = "switch" THEN Selves(x.expr) ELSE {})

\* What the generated parse() reads while it parses an item is a member of the
\* compact unit that was parsed before: no length, value or case depends on
\* something that compaction hid or moved behind it, and outside of the cases of
\* a switch `self' is the compact unit.  In those it is still the original one.
ParsesInOrder ==
    unit_decls # <<>> =>
       LET c == unit_decls[1]
       IN \A k \in DOMAIN c :
             /\ ParsingReads(c[k]) \subseteq Ids1(SubSeq(c, 1, k - 1))
             /\ ItemSelves(c[k]) \subseteq {SelfOf("compact")}

\* Everything the application names is in the compact unit, and kept after
\* parsing; what a variable of those reads or sets in serialize() is too.
Serves ==
    unit_decls # <<>> =>
       LET c == unit_decls[1]
       IN \A k \in DOMAIN items :
             /\ Last(items[k]) \in Ids1(c)
             /\ \A x \in ToSet(c) : <<x.id>> = items[k] =>
                   /\ ~x.parsing_only
                   /\ Names(Lookup(x, "serialize")) \subseteq Ids1(c)

\* A field that is kept is read and written in the byte order it has in the
\* unit, in the cases of a switch too, unless only the module gives one: the
\* compact unit has no module (Unit::inheritedProperty, byteOrderLabel).
SameByteOrder ==
    unit_decls # <<>> =>
       \A x \in ToSet(Flattened(unit)), y \in ToSet(Flattened(unit_decls[1])) :
          x.id = y.id /\ x.kind = "atomic" =>
             \/ ByteOrder(unit_decls[1], NoModule, y) = ByteOrder(unit, module, x)
             \/ InheritedProperty(unit, NoModule, x, "byteorder") = NoExpr
================================================================================
