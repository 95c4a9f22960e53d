------------------------------- MODULE SpecNodes -------------------------------
(***************************************************************************)
(* The abstract syntax of a unit as the preprocessing passes see it, after *)
(* ids are resolved: expressions, and items with their attributes.  Of a   *)
(* type, the length its values have on the wire is modelled.               *)
(***************************************************************************)
EXTENDS Integers, Sequences

\* Expressions.  A tuple is a constant; in a lambda, the element is LambdaVar.
NoExpr == [kind |-> "none"]
Num(n) == [kind |-> "const", val |-> n]
Tuple(es) == [kind |-> "tuple", elems |-> es]
SelfOf(type) == [kind |-> "self", type |-> type]   \* the type of `self', a unit
Self == SelfOf("unit")
DollarDollar == [kind |-> "dollar"]
LambdaVar == [kind |-> "variable"]
Member(a) == [kind |-> "member", attribute |-> a]
Op(o, args) == [kind |-> "op", op |-> o, args |-> args]
Conditional(c, t, f) == [kind |-> "cond", cond |-> c, true |-> t, false |-> f]
Lambda(e) == [kind |-> "lambda", elem |-> e]
Find(l, c, f, n) == [kind |-> "find", list |-> l, cond |-> c, found |-> f, not_found |-> n]

Attr(e, a) == Op("Attribute", <<e, Member(a)>>)
SelfDot(a) == Attr(Self, a)
Plus(e, f) == Op("Plus", <<e, f>>)
Minus(e, f) == Op("Minus", <<e, f>>)
NotEqual(e, f) == Op("Not", <<Op("Equal", <<e, f>>)>>)
SetAttr(e, a, f) == Op("AttributeAssign", <<e, Member(a), f>>)

\* Types, none of them a wildcard.
IntegerType(width) == [kind |-> "integer", width |-> width]
BitfieldType(width) == [kind |-> "bitfield", width |-> width]
TupleType(types) == [kind |-> "tuple", types |-> types]
BoolType == [kind |-> "bool"]
BytesType == [kind |-> "bytes"]

\* The constants of constant fields: strings, and values of the other types.
StringConstant(len) == [kind |-> "string", len |-> len]
TypedConstant(type) == [kind |-> "typed", type |-> type]

\* Items.  The type of an atomic item is the one it has on the wire.
Attribute(key, value) == [key |-> key, value |-> value]
Atomic(id, type, attrs, cond) ==
    [kind |-> "atomic", id |-> id, type |-> type, attrs |-> attrs, cond |-> cond,
     parsing_only |-> FALSE, accessible |-> TRUE]
ConstantItem(id, constant) ==
    [kind |-> "constant", id |-> id, attrs |-> <<>>, cond |-> NoExpr, constant |-> constant,
     parsing_only |-> FALSE]
VariableItem(id, attrs) ==
    [kind |-> "var", id |-> id, attrs |-> attrs, parsing_only |-> FALSE]
PropertyItem(id, property) ==
    [kind |-> "property", id |-> id, attrs |-> <<>>, property |-> property, parsing_only |-> FALSE]
SwitchItem(id, expr, cases) ==
    [kind |-> "switch", id |-> id, attrs |-> <<>>, cond |-> NoExpr, expr |-> expr,
     cases |-> cases, parsing_only |-> FALSE]
CaseOf(values, default, items) ==
    [values |-> values, default |-> default, items |-> items]
UnitItem(id, params, items) ==
    [kind |-> "unit", id |-> id, attrs |-> <<>>, cond |-> NoExpr, params |-> params,
     items |-> items, parsing_only |-> FALSE]
ListItem(id, field) ==
    [kind |-> "list", id |-> id, attrs |-> <<>>, cond |-> NoExpr, field |-> field,
     parsing_only |-> FALSE]
VectorItem(id, length, field) ==
    [kind |-> "vector", id |-> id, attrs |-> <<>>, cond |-> NoExpr, length |-> length,
     field |-> field, parsing_only |-> FALSE]

IsField(x) == x.kind \notin {"var", "property"}

\* attributes()->lookup(key)->value(); a map has one attribute of a key.
Lookup(x, key) ==
    IF \E k \in DOMAIN x.attrs : x.attrs[k].key = key
    THEN x.attrs[CHOOSE k \in DOMAIN x.attrs : x.attrs[k].key = key].value
    ELSE NoExpr

\* The sum of two length expressions, where NoExpr is the absence of one.
SumOf(e, f) == IF e = NoExpr THEN f ELSE Plus(e, f)
================================================================================
