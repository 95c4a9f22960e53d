--------------------------- MODULE DependencyTracking --------------------------
(***************************************************************************)
(* The visitors of DependencyMapBuilder: they find, for every item of a    *)
(* unit, which members it reads or updates, and in which contexts.  The    *)
(* builder's fields are those of a record that the operators hand on:      *)
(*   map    id -> entries [id, context]                                    *)
(*   from   the ids whose dependencies are being recorded                  *)
(*   stack  the paths being read, one for every pushTracking               *)
(*   ctx, dd, unit, find   cur_context_, cur_dollar_dollar_, cur_unit_ and *)
(*          cur_find_list_                                                 *)
(* An id is the path of its components, a context the set of its flags.    *)
(***************************************************************************)
EXTENDS SpecAst

PARSING == "PARSING"
SERIALIZING == "SERIALIZING"
SERIALIZING_UPDATE == "SERIALIZING_UPDATE"

Length == <<"__length">>
Element == "[]"

Ignored == {"transform", "transform_to"}

--------------------------------------------------------------------------------
\* addDependency.
Joined(entries, to, ctx) ==
    IF \E k \in DOMAIN entries : entries[k].id = to
    THEN [k \in DOMAIN entries |->
            IF entries[k].id = to THEN [entries[k] EXCEPT !.context = @ \cup ctx]
            ELSE entries[k]]
    ELSE Append(entries, [id |-> to, context |-> ctx])

Entries(map, id) == IF id \in DOMAIN map THEN map[id] ELSE <<>>

AddDependency(x, from, to, ctx) ==
    [x EXCEPT !.map = [id \in DOMAIN @ \cup {from} |->
                         IF id = from THEN Joined(Entries(@, id), to, ctx) ELSE @[id]]]

\* track, trackElement, pushTracking and popTracking.
Track(x, path) == [x EXCEPT !.stack[Len(x.stack)] = @ \o path]
TrackElement(x) == Track(x, <<Element>>)
Push(x) == [x EXCEPT !.stack = Append(@, <<>>)]
Pop(x) ==
    LET path == Last(x.stack)
        y == [x EXCEPT !.stack = Front(@)]
    IN IF path = <<>> THEN y
       ELSE FoldLeft(LAMBDA z, f : AddDependency(z, f, path, x.ctx), y, x.from)

RECURSIVE Visit(_, _)

Tracked(x, e) == Pop(Visit(Push(x), e))
TrackedEach(x, es) == FoldLeft(Tracked, x, es)

\* What an assignment does with its target, in a context with SERIALIZING.
Updated(x, Target(_)) ==
    [Pop(Target(Push([x EXCEPT !.ctx = {SERIALIZING_UPDATE}]))) EXCEPT !.ctx = x.ctx]

VisitOperator(x, o, a) ==
    LET both(y) == Visit(Visit(y, a[1]), a[2])
        first(y) == Visit(y, a[1])
        serializing == SERIALIZING \in x.ctx
    IN CASE o \in {"Attribute", "Call", "HasAttribute"} -> both(x)
         [] o = "MethodCall" -> Visit(Visit(x, a[1]), a[3])
         [] o = "Index" -> Tracked(TrackElement(Visit(x, a[1])), a[2])
         [] o = "AttributeAssign" ->
               IF serializing THEN Visit(Updated(x, both), a[3]) ELSE Visit(x, a[1])
         [] o = "IndexAssign" ->
               IF serializing THEN Visit(Updated(x, LAMBDA y : TrackElement(first(y))), a[3])
               ELSE Visit(x, a[2])
         [] o \in {"PlusAssign", "MinusAssign"} ->
               IF serializing THEN Visit(Updated(x, first), a[2]) ELSE Visit(x, a[1])
         [] OTHER -> TrackedEach(x, a)

\* The list a find runs over is the path its list expression reads.
VisitFindNoList(x, e) == Tracked(Tracked(Tracked(x, e.list), e.cond), e.found)

VisitFind(x, e) ==
    LET y == Visit(Push(x), e.list)
    IN Tracked(Tracked([Pop(y) EXCEPT !.find = Last(y.stack)], e.cond), e.found)

\* The visitors of expressions.  Constants are left alone, and so are the
\* elements of a tuple: the node a tuple is looked for in is the expression.
Visit(x, e) ==
    IF x.from = <<>> THEN x
    ELSE CASE e.kind = "member"   -> Track(x, <<e.attribute>>)
           [] e.kind = "variable" -> TrackElement(Track(x, x.find))
           [] e.kind = "op"       -> VisitOperator(x, e.op, e.args)
           [] e.kind = "find"     -> VisitFind(x, e)
           [] e.kind = "cond"     ->
                 TrackedEach(x, <<e.cond, e.true>> \o
                                (IF e.false = NoExpr THEN <<>> ELSE <<e.false>>))
           [] e.kind = "lambda"   -> Visit(x, e.elem)
           [] e.kind = "self"     -> Track(x, x.unit)
           [] e.kind = "dollar"   -> Track(x, x.dd)
           [] OTHER               -> x

--------------------------------------------------------------------------------
\* The context an attribute's value is processed in.
ContextOf(key) ==
    CASE key = "parse"     -> {PARSING}
      [] key = "serialize" -> {SERIALIZING}
      [] key = "length"    -> {PARSING, SERIALIZING_UPDATE}
      [] OTHER             -> {PARSING, SERIALIZING}

ForLengthItemOnly(x, e) == Tracked(x, e)

\* A value that is also tracked for __length, which comes off from_ again.
ForLength(x, e) ==
    [Tracked([x EXCEPT !.from = Append(@, Length)], e) EXCEPT !.from = x.from]

VisitAttribute(x, a) ==
    LET y == [x EXCEPT !.ctx = ContextOf(a.key)]
    IN IF a.key \in Ignored THEN x
       ELSE IF a.value = NoExpr THEN y
       ELSE IF a.key = "length" THEN ForLength(y, a.value)
       ELSE Tracked(y, a.value)

\* visit(Item) and visit(Field).
VisitAttributes(x, item) ==
    LET y == [FoldLeft(VisitAttribute, x, item.attrs) EXCEPT !.ctx = {PARSING, SERIALIZING}]
    IN IF IsField(item) /\ item.cond # NoExpr THEN Tracked(y, item.cond) ELSE y

RECURSIVE VisitItem(_, _)

\* $$ becomes the item, and its dependencies are recorded, for the item and for
\* what is on from_ already: the first item of an embedded unit finds the field
\* there that the unit is in.
Enter(x, item) ==
    LET id == Append(x.unit, item.id) IN [x EXCEPT !.dd = id, !.from = Append(@, id)]

VisitUnit(x, items) ==
    FoldLeft(LAMBDA y, i : [VisitItem(Enter(y, i), i) EXCEPT !.from = <<>>], x, items)

\* A switch whose cases differ in length has to be run to find the unit's end.
VisitSwitch(x, item) ==
    LET y == IF StaticLength(item) < 0
             THEN Pop(Track(Push([x EXCEPT !.from = Append(@, Length)]), x.dd))
             ELSE x
        z == IF item.expr = NoExpr THEN y ELSE Tracked(y, item.expr)
        InCase(w, i) ==
            LET v == Enter([w EXCEPT !.from = <<>>], i)
            IN VisitItem(AddDependency(v, v.dd, x.dd, {PARSING, SERIALIZING}), i)
    IN FoldLeft(LAMBDA w, c : FoldLeft(InCase, w, c.items), z, item.cases)

VisitContained(x, field) ==
    LET id == Append(x.dd, Element)
    IN VisitItem([x EXCEPT !.dd = id, !.from = Append(@, id)], field)

VisitItem(x, item) ==
    LET y == VisitAttributes(x, item)
    IN CASE item.kind = "switch" -> VisitSwitch(y, item)
         [] item.kind = "unit" ->
               LET z == TrackedEach(y, item.params)
               IN [VisitUnit([z EXCEPT !.unit = z.dd], item.items) EXCEPT !.unit = z.unit]
         [] item.kind = "list" -> VisitContained(y, item.field)
         [] item.kind = "vector" ->
               LET z == ForLength([y EXCEPT !.ctx = ContextOf("length")], item.length)
               IN VisitContained([z EXCEPT !.ctx = y.ctx], item.field)
         [] OTHER -> y

--------------------------------------------------------------------------------
Builder == [map |-> <<>>, from |-> <<>>, stack |-> <<>>, ctx |-> {}, dd |-> <<>>,
            unit |-> <<>>, find |-> <<>>]

--------------------------------------------------------------------------------
(***************************************************************************)
(* What an item depends on, without a visitor: the members the value of an *)
(* expression is computed from, and the ones it sets.                      *)
(***************************************************************************)
IsPath(e) ==
    \/ e.kind \in {"self", "dollar", "variable"}
    \/ e.kind = "op" /\ e.op \in {"Attribute", "HasAttribute", "Index"}

RECURSIVE PathOf(_, _)

PathOf(e, env) ==
    CASE e.kind = "self"     -> env.unit
      [] e.kind = "dollar"   -> env.dd
      [] e.kind = "variable" -> Append(env.list, Element)
      [] e.op = "Index"      -> Append(PathOf(e.args[1], env), Element)
      [] OTHER               -> Append(PathOf(e.args[1], env), e.args[2].attribute)

RECURSIVE Indices(_)

Indices(e) ==
    IF e.kind # "op" THEN {}
    ELSE Indices(e.args[1]) \cup (IF e.op = "Index" THEN {e.args[2]} ELSE {})

\* Members that e reads, in context c, with those it sets: pairs <<path, flag>>.
\* What the visitor does not follow is left out here too: the arguments of a
\* call, the index of an element that is set, the last argument of find.
RECURSIVE Uses(_, _, _)

Uses(e, c, env) ==
    CASE IsPath(e) ->
            ({PathOf(e, env)} \ {<<>>}) \X c \cup UNION {Uses(i, c, env) : i \in Indices(e)}
      [] e.kind = "op" /\ e.op = "AttributeAssign" ->
            {<<Append(PathOf(e.args[1], env), e.args[2].attribute), SERIALIZING_UPDATE>>}
            \cup Uses(e.args[3], c, env)
      [] e.kind = "op" /\ e.op = "IndexAssign" ->
            {<<Append(PathOf(e.args[1], env), Element), SERIALIZING_UPDATE>>}
            \cup Uses(e.args[3], c, env)
      [] e.kind = "op" /\ e.op \in {"PlusAssign", "MinusAssign"} ->
            {<<PathOf(e.args[1], env), SERIALIZING_UPDATE>>} \cup Uses(e.args[2], c, env)
      [] e.kind = "op" -> UNION {Uses(e.args[k], c, env) : k \in DOMAIN e.args}
      [] e.kind = "cond" -> UNION {Uses(f, c, env) : f \in {e.cond, e.true, e.false}}
      [] e.kind = "lambda" -> Uses(e.elem, c, env)
      [] e.kind = "find" ->
            LET inner == [env EXCEPT !.list = PathOf(e.list, env)]
            IN Uses(e.list, c, env) \cup Uses(e.cond, c, inner) \cup Uses(e.found, c, inner)
      [] OTHER -> {}

Edges(froms, uses) == {<<f, u[1], u[2]>> : f \in froms, u \in uses}

\* The edges of the dependency map that item x, with ids `at', gives rise to.
RECURSIVE EdgesOf(_, _, _)

EdgesOfUnit(items, path) == UNION {EdgesOf(items[k], {Append(path, items[k].id)}, path) : k \in DOMAIN items}

EdgesOf(x, at, path) ==
    LET me == CHOOSE p \in at : \A q \in at : Len(q) <= Len(p)
        env == [unit |-> path, dd |-> me, list |-> <<>>]
        both == {PARSING, SERIALIZING}
        sized == at \cup {Length}
        attr(a) == IF a.key \in Ignored THEN {}
                   ELSE Edges(IF a.key = "length" THEN sized ELSE at,
                              Uses(a.value, ContextOf(a.key), env))
        here == UNION {attr(a) : a \in ToSet(x.attrs)}
                \cup (IF IsField(x) THEN Edges(at, Uses(x.cond, both, env)) ELSE {})
    IN here \cup
       CASE x.kind = "switch" ->
               LET froms == IF StaticLength(x) < 0 THEN sized ELSE at
                   inside == UNION {ToSet(c.items) : c \in ToSet(x.cases)}
                   id(i) == Append(path, i.id)
               IN Edges(froms, Uses(x.expr, both, env))
                  \cup (IF StaticLength(x) < 0 THEN Edges(froms, {me} \X both) ELSE {})
                  \cup UNION {EdgesOf(i, {id(i)}, path) \cup Edges({id(i)}, {me} \X both) : i \in inside}
         [] x.kind = "unit" ->
               UNION {Edges(at, Uses(p, both, env)) : p \in ToSet(x.params)} \cup EdgesOfUnit(x.items, me)
         [] x.kind = "list" -> EdgesOf(x.field, at \cup {Append(me, Element)}, path)
         [] x.kind = "vector" ->
               Edges(sized, Uses(x.length, ContextOf("length"), env))
               \cup EdgesOf(x.field, at \cup {Append(me, Element)}, path)
         [] OTHER -> {}

MapEdges(map) ==
    UNION {UNION {{<<f, map[f][k].id, d>> : d \in map[f][k].context} : k \in DOMAIN map[f]}
             : f \in DOMAIN map}
================================================================================
