---------------------------- MODULE MCUnitCompaction ---------------------------
(***************************************************************************)
(* Units for UnitCompaction: memcached.dgo as its passes see it, and small *)
(* units with a switch whose cases are of one length or of several, a list *)
(* and lengths from fields and from variables, for every set of items an   *)
(* application may name.                                                   *)
(***************************************************************************)
EXTENDS UnitCompaction

Fixed(id, len) == Atomic(id, IntegerType(8 * len), <<>>, NoExpr)
ByteOrderIs(o) == PropertyItem("%byteorder", Attribute("byteorder", Num(o)))
Sized(id, e) == Atomic(id, BytesType, <<Attribute("length", e)>>, NoExpr)

\* memcached.dgo with magic_code and opcode as plain integers.
Memcached == <<
    ByteOrderIs("big"),
    Fixed("magic_code", 1), Fixed("opcode_binary", 1),
    VariableItem("opcode", << Attribute("parse", SelfDot("opcode_binary")),
        Attribute("serialize", Conditional(NotEqual(DollarDollar, Num(255)),
                                           SetAttr(Self, "opcode_binary", DollarDollar), NoExpr)) >>),
    Fixed("key_len", 2), Fixed("extras_len", 1),
    Sized("reserved", Num(1)),
    SwitchItem("switch", SelfDot("magic_code"), <<
        CaseOf({128}, FALSE, <<Fixed("vbucket_id", 2)>>), CaseOf({129}, FALSE, <<Fixed("status", 2)>>) >>),
    Fixed("total_len", 4), Fixed("opaque", 4), Fixed("cas", 8),
    VariableItem("value_len", << Attribute("parse",
        Minus(SelfDot("total_len"), Plus(SelfDot("extras_len"), SelfDot("key_len")))),
        Attribute("serialize", SetAttr(Self, "total_len",
            Plus(Plus(SelfDot("key_len"), SelfDot("extras_len")), DollarDollar))) >>),
    Sized("extras", SelfDot("extras_len")), Sized("key", SelfDot("key_len")),
    Sized("value", SelfDot("value_len")) >>

MemcachedIds == {"opcode", "key", "value", "magic_code", "vbucket_id", "cas"}

\* The second case of the switch, and what follows.
Small(q, tail) == <<
    Fixed("a", 1), Fixed("b", 1), Fixed("m", 2),
    VariableItem("v", << Attribute("parse", Minus(SelfDot("b"), SelfDot("a"))),
                         Attribute("serialize", SetAttr(Self, "b", Plus(SelfDot("a"), SelfDot("m")))) >>),
    SwitchItem("s", SelfDot("m"), <<CaseOf({0}, FALSE, <<Fixed("p", 2)>>), CaseOf({1}, FALSE, <<q>>)>>) >> \o tail

Tails ==
    { <<ConstantItem("k", StringConstant(3)), Sized("c", SelfDot("a")),
        ConstantItem("k2", TypedConstant(IntegerType(32))), Sized("d", SelfDot("v")), Atomic("e", BoolType, <<>>, NoExpr)>>,
      <<Sized("c", SelfDot("v")), VariableItem("w", <<Attribute("parse", SelfDot("p"))>>),
        ListItem("l", UnitItem("__anon1", <<>>, <<Fixed("x", 1)>>)), Sized("d", SelfDot("w")),
        Atomic("e", TupleType(<<IntegerType(16), BoolType>>), <<>>, NoExpr)>> }

SmallUnits == {Small(q, t) : q \in {Fixed("q", 2), Fixed("q", 1), Sized("q", SelfDot("b"))}, t \in Tails}
SmallIds == {"b", "v", "p", "c", "d", "e"}

\* Byte orders of the unit, of one of its fields and of its module.
OrderedUnits ==
    {Small(Atomic("q", IntegerType(16), attrs, NoExpr), <<Fixed("e", 4)>> \o tail) :
        attrs \in {<<>>, <<Attribute("byteorder", Num("big"))>>},
        tail \in {<<>>, <<ByteOrderIs("little")>>, <<ByteOrderIs("little"), ByteOrderIs("big")>>}}
Modules == {NoModule, [attrs |-> <<Attribute("byteorder", Num("little"))>>]}

--------------------------------------------------------------------------------
(***************************************************************************)
(* Units for the dependency map: expressions of two levels over a few      *)
(* leaves, and a unit with an item of every kind.  No find is nested in a  *)
(* find over another list: the variable of the outer one would be taken    *)
(* for an element of the inner list (cur_find_list_ is not restored).      *)
(***************************************************************************)
Leaves == {SelfDot("a"), DollarDollar, Op("Index", <<SelfDot("l"), SelfDot("a")>>)}

FindIn(list, e, f) ==
    Find(SelfDot(list), Lambda(Op("Equal", <<Attr(LambdaVar, "x"), e>>)), Lambda(f), Num(0))

Level(es) ==
    es \cup {Plus(e, f) : e, f \in es}
       \cup {Conditional(e, f, g) : e, f \in es, g \in {NoExpr, SelfDot("b")}}
       \cup {FindIn("l", e, f) : e \in es, f \in {Attr(LambdaVar, "y")} \cup es}

Values ==
    Level(Leaves \cup Level(Leaves \ {DollarDollar})) \cup
    {Plus(FindIn("l", e, Attr(LambdaVar, "y")), FindIn("r", f, LambdaVar)) : e, f \in Leaves}

Serializations ==
    {SetAttr(Self, "t", e) : e \in Level(Leaves)}
    \cup {Op("PlusAssign", <<SelfDot("t"), e>>) : e \in Leaves}
    \cup {Op("IndexAssign", <<SelfDot("l"), Num(0), e>>) : e \in Leaves}
    \cup {Conditional(NotEqual(DollarDollar, e), SetAttr(Self, "t", f), NoExpr) : e, f \in Leaves}
    \cup {FindIn("l", e, SetAttr(LambdaVar, "y", f)) : e, f \in Leaves}

\* A variable w, and a field, after what their expressions use.
Using(attrs, field) == <<
    Fixed("a", 1), Fixed("b", 1), Fixed("t", 1),
    ListItem("l", UnitItem("__anon1", <<>>, <<Fixed("x", 1), Fixed("y", 1)>>)),
    ListItem("r", UnitItem("__anon2", <<>>, <<Fixed("x", 1)>>)),
    VariableItem("w", attrs), field >>

\* Units whose first item sets a member, is a list or has to be run to find its
\* end, as fields of their own, in a list and in a vector.
Setter == <<VariableItem("c", <<Attribute("serialize", SetAttr(Self, "k", DollarDollar))>>), Fixed("k", 1)>>
Lister == <<ListItem("e", UnitItem("__anon4", <<>>, Setter)), Fixed("k", 1)>>
Chooser == <<SwitchItem("o", Num(0), <<CaseOf({0}, FALSE, <<Fixed("f", 1)>>), CaseOf({1}, FALSE, <<Fixed("g", 2)>>)>>)>>

\* The application always names v: the length of a vector of units is written with
\* the members of the elements, which a compact unit that hides v does not have.
OfKinds(xs) == <<
    ByteOrderIs("big"), Fixed("n", 1),
    VectorItem("v", SelfDot("n"), UnitItem("__anon1", <<>>, xs \o <<Sized("w", SelfDot("k"))>>)),
    ListItem("l", UnitItem("__anon2", <<SelfDot("n")>>, xs)),
    SwitchItem("s", SelfDot("n"), <<
        CaseOf({0}, FALSE, <<Fixed("p", 2)>>),
        CaseOf({1}, FALSE, <<Atomic("q", BytesType, <<Attribute("length", SelfDot("n"))>>,
                                    Op("Equal", <<SelfDot("v"), Num(0)>>)), UnitItem("d", <<>>, xs)>>) >>),
    Atomic("z", IntegerType(8), <<Attribute("transform_to", SelfDot("q"))>>,
           Op("Equal", <<Op("HasAttribute", <<Self, Member("p")>>), Num(1)>>)),
    UnitItem("u", <<SelfDot("z")>>, xs \o <<
        SwitchItem("t", SelfDot("k"), <<CaseOf({0}, FALSE, <<Fixed("r", 1)>>)>>)>>) >>

--------------------------------------------------------------------------------
Named(S) == SetToSeq({<<x>> : x \in S})

\* The unit and the compact unit the parser and serializer models are about.
M == INSTANCE Memcached

Lifted(e) ==
    CASE e.op = "const" -> Num(e.val)
      [] e.op = "self"  -> SelfDot(e.a)
      [] e.op = "rest"  -> Minus(SelfDot(e.a), Plus(SelfDot(e.b), SelfDot(e.c)))

\* The items of such a unit as the passes see them.
Item(x) ==
    CASE x.kind = "int" -> Fixed(x.id, x.width)
      [] x.kind = "var" -> VariableItem(x.id, <<Attribute("parse", Lifted(x.parse))>>)
      [] x.kind = "switch" ->
            SwitchItem(x.id, Lifted(x.on), [k \in DOMAIN x.cases |->
                CaseOf(x.cases[k].values, x.cases[k].default, <<Fixed(x.cases[k].items[1].id, 2)>>)])
      [] OTHER -> Sized(x.id, Lifted(x.length))

\* Its variables with the &serialize attributes of memcached.dgo.
Serialized(x) ==
    IF x.kind # "var" THEN x
    ELSE LET y == CHOOSE y \in ToSet(Memcached) : y.id = x.id
         IN [x EXCEPT !.attrs = Append(@, Attribute("serialize", Lookup(y, "serialize")))]

Modelled == [k \in DOMAIN M!MemcachedCommand |-> Serialized(Item(M!MemcachedCommand[k]))]

MCCompactions ==
    [unit : SmallUnits, module : {NoModule}, items : {Named(S) : S \in SUBSET SmallIds}]
    \cup [unit : OrderedUnits, module : Modules, items : {Named(S) : S \in SUBSET {"b", "m", "p", "q", "e"}}]
    \cup [unit : {Memcached}, module : {NoModule}, items : {Named(S) : S \in SUBSET MemcachedIds}]
    \cup [unit : {Using(<<Attribute("parse", e)>>, Atomic("z", IntegerType(8), <<>>, e)) : e \in Values},
          module : {NoModule}, items : {<< <<"w">> >>}]
    \cup [unit : {Using(<<Attribute("parse", SelfDot("b")), Attribute("serialize", e)>>, Sized("z", SelfDot("w"))) :
                     e \in Serializations},
          module : {NoModule}, items : {<< <<"w">> >>}]
    \cup [unit : {OfKinds(is) : is \in {Setter, Lister, Chooser \o <<Fixed("k", 1)>>}}, module : {NoModule},
          items : {Named(S \cup {"v"}) : S \in SUBSET {"z", "u"}}]
    \cup [unit : {Modelled}, module : {NoModule}, items : {<< <<"opcode">>, <<"key">> >>}]

\* What is assumed of items and lengths where Generator is proved to keep the
\* layout: it holds of these units, and of the sums of the lengths in them.
Lengths == {LengthExpr(x) : x \in {y \in Items : IsField(y)}} \ {NoExpr}
Sums == Lengths \cup {Plus(e, f) : e, f \in Lengths}

ASSUME NodesAlike == Generator!ItemFacts /\ \A e, f \in Sums : Generator!LengthFacts(e, f)

\* The bytes of fixed length, and the other lengths.
Summed(terms) ==
    [bytes |-> FoldLeft(LAMBDA s, t : IF t.kind = "const" THEN s + t.val ELSE s, 0, terms),
     others |-> SelectSeq(terms, LAMBDA t : t.kind # "const")]

\* What an item is called, unless it is hidden, and how long it is.
Shape(x, hidden) ==
    [id |-> IF hidden THEN "hidden" ELSE x.id,
     layout |-> IF x.kind = "var" THEN Lookup(x, "parse") ELSE Summed(Generator!FieldLayout(x))]

\* The compact unit that MCResumableParser and MCSerializer check parse() and
\* serialize() for is the one the passes make of the unit they check.
CompactMemcached ==
    unit = Modelled /\ unit_decls # <<>> =>
       LET c == unit_decls[1]
           d == M!CompactMemcachedCommand
       IN [k \in DOMAIN c |-> Shape(c[k], c[k].kind = "atomic" /\ ~c[k].accessible)]
          = [k \in DOMAIN d |-> Shape(ReplacedItem(Item(d[k])), d[k].kind = "bytes" /\ ~d[k].accessible)]
================================================================================
