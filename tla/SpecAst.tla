-------------------------------- MODULE SpecAst --------------------------------
(***************************************************************************)
(* What the nodes of a unit say of themselves: their properties, their     *)
(* serialized length, their clone, and what SelfReplacerVisitor makes of   *)
(* them.                                                                   *)
(***************************************************************************)
EXTENDS SpecNodes, SequencesExt

--------------------------------------------------------------------------------
(***************************************************************************)
(* Properties.  A module is a record of its properties, as attributes.     *)
(***************************************************************************)
NoModule == [attrs |-> <<>>]

RECURSIVE Flattened(_)

\* Unit::flattenedItems: the items in the cases of a switch, then the switch.
Flattened(items) ==
    FlattenSeq([k \in DOMAIN items |->
        (IF items[k].kind = "switch"
         THEN FlattenSeq([c \in DOMAIN items[k].cases |-> Flattened(items[k].cases[c].items)])
         ELSE <<>>) \o <<items[k]>>])

\* Unit::properties
Properties(items, key) ==
    LET named == SelectSeq(items, LAMBDA x : x.kind = "property" /\ x.property.key = key)
    IN [k \in DOMAIN named |-> named[k].property]

\* Unit::inheritedProperty: the item's attribute goes before the properties of
\* the unit, and those before the one of the unit's module.
InheritedProperty(items, module, x, key) ==
    LET Own(attrs) == SelectSeq(attrs, LAMBDA a : a.key = key)
        all == Own(x.attrs) \o Properties(items, key) \o Own(module.attrs)
    IN IF all = <<>> THEN NoExpr ELSE all[1].value

\* byteOrderLabel of both generators.
ByteOrder(items, module, x) ==
    LET p == InheritedProperty(items, module, x, "byteorder")
    IN IF p = NoExpr THEN "big" ELSE p.val

--------------------------------------------------------------------------------
(***************************************************************************)
(* static_serialized_length: a number of bytes, or Dynamic.                *)
(***************************************************************************)
Dynamic == -1

RECURSIVE TypeStaticLength(_)

\* Integers are as long as their width in bytes, a bitfield as its width.
TypeStaticLength(t) ==
    CASE t.kind = "integer"             -> t.width \div 8
      [] t.kind = "bitfield"            -> t.width
      [] t.kind = "bool"                -> 1
      [] t.kind \in {"caddr", "double"} -> 8
      [] t.kind = "void"                -> 0
      [] t.kind = "tuple" ->
            LET lens == [k \in DOMAIN t.types |-> TypeStaticLength(t.types[k])]
            IN IF Dynamic \in ToSet(lens) THEN Dynamic ELSE FoldLeft(LAMBDA s, l : s + l, 0, lens)
      [] OTHER                          -> Dynamic

RECURSIVE StaticLength(_)

\* Unit::fields.
Fields(items) == SelectSeq(items, IsField)

\* A sum of static lengths, Dynamic as soon as one is.
UnitStaticLength(items) ==
    FoldLeft(LAMBDA s, f : IF s < 0 \/ StaticLength(f) < 0 THEN Dynamic ELSE s + StaticLength(f),
             0, Fields(items))

AtomicStaticLength(x) ==
    IF TypeStaticLength(x.type) >= 0 THEN TypeStaticLength(x.type)
    ELSE IF Lookup(x, "length").kind = "const" THEN Lookup(x, "length").val ELSE Dynamic

ConstantLength(c) == IF c.kind = "string" THEN c.len ELSE TypeStaticLength(c.type)

ConstantStaticLength(x) == ConstantLength(x.constant)

\* The length all cases have, if they have one.
SwitchStaticLength(x) ==
    LET lens == {UnitStaticLength(c.items) : c \in ToSet(x.cases)}
    IN IF lens = {} THEN 0
       ELSE IF \E l \in lens : lens = {l} THEN CHOOSE l \in lens : TRUE
       ELSE Dynamic

VectorStaticLength(x) ==
    IF x.length.kind = "const" /\ StaticLength(x.field) >= 0
    THEN x.length.val * StaticLength(x.field) ELSE Dynamic

StaticLength(x) ==
    CASE x.kind = "atomic"   -> AtomicStaticLength(x)
      [] x.kind = "constant" -> ConstantStaticLength(x)
      [] x.kind = "switch"   -> SwitchStaticLength(x)
      [] x.kind = "unit"     -> UnitStaticLength(x.items)
      [] x.kind = "vector"   -> VectorStaticLength(x)
      [] OTHER               -> Dynamic

--------------------------------------------------------------------------------
(***************************************************************************)
(* serialized_length: an expression, or NoExpr if there is none.           *)
(***************************************************************************)
RECURSIVE LengthExpr(_)

UnitLengthExpr(items) ==
    LET es == [k \in DOMAIN Fields(items) |-> LengthExpr(Fields(items)[k])]
    IN IF NoExpr \in ToSet(es) THEN NoExpr ELSE FoldLeft(SumOf, NoExpr, es)

AtomicLengthExpr(x) == Lookup(x, "length")

VectorLengthExpr(x) ==
    IF LengthExpr(x.field) = NoExpr THEN NoExpr
    ELSE Op("Mult", <<x.length, LengthExpr(x.field)>>)

LengthExpr(x) ==
    IF x.kind = "unit" THEN UnitLengthExpr(x.items)
    ELSE IF StaticLength(x) >= 0 THEN Num(StaticLength(x))
    ELSE IF x.kind = "atomic" THEN AtomicLengthExpr(x)
    ELSE IF x.kind = "vector" THEN VectorLengthExpr(x)
    ELSE NoExpr

--------------------------------------------------------------------------------
(***************************************************************************)
(* Item::clone.  An id and a type are shared with the original.  An        *)
(* attribute without a value cannot be cloned (Attribute::clone asks the   *)
(* value for its clone), so units with one are not compacted.              *)
(***************************************************************************)
RECURSIVE Clone(_)

CloneAtomic(x) == [x EXCEPT !.accessible = TRUE]

\* The constructor that is used makes the case no default case.
CloneCase(c) == CaseOf(c.values, FALSE, [k \in DOMAIN c.items |-> Clone(c.items[k])])

CloneSwitch(x) == [x EXCEPT !.cases = [k \in DOMAIN @ |-> CloneCase(@[k])]]

CloneContainer(x) == [x EXCEPT !.field = Clone(@)]

Clone(x) ==
    CASE x.kind = "atomic"             -> CloneAtomic(x)
      [] x.kind = "switch"             -> CloneSwitch(x)
      [] x.kind \in {"list", "vector"} -> CloneContainer(x)
      [] OTHER                         -> x

--------------------------------------------------------------------------------
(***************************************************************************)
(* SelfReplacerVisitor: `self' becomes the compact unit.                   *)
(***************************************************************************)
RECURSIVE Replaced(_)

\* In an expression.  The elements of a tuple are those of
\* a constant, and are not visited.
Replaced(e) ==
    CASE e.kind = "self"   -> SelfOf("compact")
      [] e.kind = "op"     -> [e EXCEPT !.args = [k \in DOMAIN @ |-> Replaced(@[k])]]
      [] e.kind = "cond"   -> [e EXCEPT !.cond = Replaced(@), !.true = Replaced(@), !.false = Replaced(@)]
      [] e.kind = "lambda" -> [e EXCEPT !.elem = Replaced(@)]
      [] e.kind = "find"   -> [e EXCEPT !.list = Replaced(@), !.cond = Replaced(@),
                                        !.found = Replaced(@), !.not_found = Replaced(@)]
      [] OTHER             -> e

\* And in an item: in its attributes and in the expressions that are its
\* children, but not in its condition, in the cases of a switch or in the field
\* of a container, which are none.
ReplacedItem(x) ==
    LET y == [x EXCEPT !.attrs = [k \in DOMAIN @ |-> [@[k] EXCEPT !.value = Replaced(@)]]]
    IN CASE x.kind = "switch"   -> [y EXCEPT !.expr = Replaced(@)]
         [] x.kind = "vector"   -> [y EXCEPT !.length = Replaced(@)]
         [] x.kind = "unit"     -> [y EXCEPT !.params = [k \in DOMAIN @ |-> Replaced(@[k])]]
         [] x.kind = "property" -> [y EXCEPT !.property.value = Replaced(@)]
         [] OTHER               -> y
================================================================================
