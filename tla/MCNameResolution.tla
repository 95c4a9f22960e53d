---------------------------- MODULE MCNameResolution ----------------------------
EXTENDS NameResolution

NoId == <<>>
Int0 == [kind |-> "Integer", id |-> NoId]
Ref(x) == [kind |-> "UnknownType", id |-> <<x>>]
UnitOf(params, items) == [kind |-> "Unit", id |-> NoId, params |-> params, items |-> items]
EnumOf(labels) == [kind |-> "Enum", id |-> NoId, labels |-> labels]
TypeDecl(x, t) == [kind |-> "TypeDecl", id |-> <<x>>, of |-> t]
ValueDecl(x, v) == [kind |-> "ValueDecl", id |-> <<x>>, of |-> v]
Inst(x) == [kind |-> "Instantiation", id |-> <<x>>]
Num0 == [kind |-> "ConstantExpr", id |-> NoId]
Id(path) == [kind |-> "ID", id |-> path]
Field(t) == [kind |-> "AtomicType", type |-> t, exprs |-> <<>>, to |-> NoId]
Named(x) == [kind |-> "Unknown", type |-> Ref(x), exprs |-> <<>>, to |-> NoId]

MCModuleName == <<"M">>
\* One of the three transforms; they differ in name and types only.
MCBuiltins == << TypeDecl("ByteOrder", EnumOf(<<"big", "little">>)),
                 ValueDecl("uppercase", [kind |-> "FunctionExpr", id |-> NoId]),
                 ValueDecl("stringEncodedUint64", [kind |-> "TransformExpr", id |-> NoId]) >>

\* Three type declarations that name each other in any order.
Types == {Int0} \cup {Ref(x) : x \in {"A", "B", "C", "X"}}
         \cup {UnitOf(<<>>, <<Named(x)>>) : x \in {"A", "B", "C"}}
Aliases == {<<TypeDecl("A", a), TypeDecl("B", b), TypeDecl("C", c)>> : a \in Types, b \in Types, c \in Types}

\* A unit with a parameter, whose item has an expression, between two constants, one
\* of them named like the parameter; another declaration may name the unit.
Values == {Num0} \cup {Id(p) : p \in {<<"A">>, <<"B">>, <<"E", "a">>, <<"X">>, <<"U">>}}
Uses == {<<"self">>, <<"$$">>, <<"A">>, <<"B">>, <<"M", "B">>, <<"M", "E", "UNDEF">>, <<"E", "c">>}
Items1 == {[f EXCEPT !.exprs = <<Id(p)>>] :
            f \in {Field(Int0), Named("T"), Named("A"), [Field(Int0) EXCEPT !.kind = "Variable"]}, p \in Uses}
Scopes == {<<ValueDecl("A", a), TypeDecl("U", UnitOf(<<"B">>, <<i>>)), ValueDecl("B", b),
             TypeDecl("E", EnumOf(<<"a", "b">>)), TypeDecl("T", t)>> :
            a \in Values, b \in {Num0, Id(<<"A">>), Id(<<"X">>)}, i \in Items1, t \in {Int0, Ref("U")}}

\* Attributes &transform_to.
Transforms == {<<ValueDecl("A", Num0), TypeDecl("T", t),
                 TypeDecl("U", UnitOf(<<>>, <<[f EXCEPT !.to = <<x>>]>>)), TypeDecl("S", Int0)>> :
                t \in {Int0, Ref("S"), UnitOf(<<>>, <<>>)}, f \in {Field(Int0), Named("T"), Named("A"), Named("S")},
                x \in {"A", "T", "S", "X", "uppercase"}}

\* An instantiation before, between and after the types it may name.
Instantiated ==
    LET around(i, a, b) == {<<Inst(i), TypeDecl("A", a), TypeDecl("B", b)>>,
                            <<TypeDecl("A", a), TypeDecl("B", b), Inst(i)>>}
    IN UNION {around(i, a, b) : i \in {"A", "X"}, a \in Types, b \in Types}

\* Names that are declared twice, parameters and labels among them.
Twice == {<<TypeDecl("A", a), b, TypeDecl("C", c)>> :
            a \in {Int0, UnitOf(<<>>, <<>>)}, b \in {TypeDecl("A", Int0), ValueDecl("A", Num0)}, c \in Types}
         \cup {<<TypeDecl("E", EnumOf(<<"a", "a", "b">>)), TypeDecl("E", EnumOf(<<"b", "c">>)), ValueDecl("A", a),
                 TypeDecl("U", UnitOf(p, <<[Field(Int0) EXCEPT !.exprs = <<Id(x)>>]>>))>> :
                a \in {Id(<<"E", y>>) : y \in {"a", "b", "c"}}, p \in {<<>>, <<"B", "B">>, <<"self", "$$">>},
                x \in {<<"A">>, <<"B">>, <<"self">>, <<"$$">>}}

\* Chains of names in any order of declaration.  The passes follow four names to the
\* end, but not always five.
Letters == <<"A", "B", "C", "D", "E", "F">>
Orders(n) == {p \in [1..n -> 1..n] : \A i, j \in 1..n : p[i] = p[j] => i = j}
TypeChain(p) ==
    [q \in DOMAIN p |-> TypeDecl(Letters[p[q]], IF p[q] = Len(p) THEN Int0 ELSE Ref(Letters[p[q] + 1]))]
ValueChain(p) ==
    [q \in DOMAIN p |-> ValueDecl(Letters[p[q]], IF p[q] = Len(p) THEN Num0 ELSE Id(<<Letters[p[q] + 1]>>))]
Long == {TypeChain(p) : p \in Orders(5)} \cup {ValueChain(p) : p \in Orders(4)}
        \cup {TypeChain(<<1, 2, 3, 4, 5, 6>>), ValueChain(<<1, 2, 3, 4, 5, 6>>)}

\* A unit whose item names one of them, with a parameter of the same name.
Captures ==
    UNION {LET u == TypeDecl("U", UnitOf(<<x>>, <<[Field(Int0) EXCEPT !.exprs = <<Id(y)>>]>>))
           IN {<<u>> \o ValueChain(p), ValueChain(p) \o <<u>>} :
           x \in {"B", "C"}, y \in {<<"A">>, <<"C">>, <<"M", "A">>, <<"M", "C">>}, p \in Orders(3)}

MCPrograms == Aliases \cup Scopes \cup Transforms \cup Instantiated \cup Twice \cup Long \cup Captures
================================================================================
