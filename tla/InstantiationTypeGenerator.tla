----------------------- MODULE InstantiationTypeGenerator ----------------------
(***************************************************************************)
(* InstantiationTypeGenerator: the compact unit of an instantiation.  The  *)
(* items that something depends on are copied; runs of other fields become *)
(* one hidden bytes field of their total length; other variables go.  In   *)
(* what is left, `self' is given the type of the compact unit.             *)
(***************************************************************************)
EXTENDS SpecNodes

\* What is known of nodes, as SpecAst has it: Item::clone, serialized_length, and
\* SelfReplacerVisitor in an item.  LengthTerms takes a length expression apart.
CONSTANTS Clone(_), LengthExpr(_), ReplacedItem(_), LengthTerms(_)

CONSTANT Items     \* the items units are made of

VARIABLES
    unit,         \* the items of the unit that is instantiated
    deps,         \* deps_: [id, context], what the resolver found
    unit_items,   \* cur_unit_items_
    compactable,  \* cur_compactable_fields_
    n,            \* the item that is visited next
    unit_decls    \* the compact units made

vars == <<unit, deps, unit_items, compactable, n, unit_decls>>

Init ==
    /\ unit_items = <<>> /\ compactable = <<>> /\ n = 1
    /\ unit_decls = <<>>

\* dependencyContextFor: a dependency on a unit is one on all its members.
Leads(path, id) == Len(path) <= Len(id) /\ path = SubSeq(id, 1, Len(path))
Context(id) == UNION {deps[k].context : k \in {l \in DOMAIN deps : Leads(deps[l].id, id)}}

ItemContext(x) == Context(<<x.id>>)

CopyItemIfParsed(x) ==
    IF "PARSING" \in ItemContext(x) THEN [Clone(x) EXCEPT !.parsing_only = TRUE] ELSE Clone(x)

\* An item that nothing but the parser needs is marked so.
CopyItem(x) ==
    IF ItemContext(x) = {"PARSING"} THEN [Clone(x) EXCEPT !.parsing_only = TRUE] ELSE Clone(x)

\* addFieldOfLength, if there is a length.
HiddenField(len) ==
    [Atomic("__anon", BytesType, <<Attribute("length", len)>>, NoExpr) EXCEPT !.accessible = FALSE]

FieldOfLength(len) == IF len = NoExpr THEN <<>> ELSE <<HiddenField(len)>>

\* compactAndAddItems: what the compactable fields become.  A field whose
\* length is unknown ends a run and is copied.
AddedNoLast(acc, f) == [acc EXCEPT !.len = LengthExpr(f)]

Added(acc, f) ==
    IF LengthExpr(f) # NoExpr THEN [acc EXCEPT !.len = SumOf(@, LengthExpr(f))]
    ELSE [len |-> NoExpr, out |-> acc.out \o FieldOfLength(acc.len) \o <<Clone(f)>>]

AfterFields(fields) ==
    LET acc[k \in 0..Len(fields)] ==
            IF k = 0 THEN [len |-> NoExpr, out |-> <<>>] ELSE Added(acc[k - 1], fields[k])
    IN acc

Compacted(fields) ==
    LET r == AfterFields(fields)[Len(fields)]
    IN r.out \o FieldOfLength(r.len)

ReplacedItems(xs) == [k \in DOMAIN xs |-> ReplacedItem(xs[k])]

--------------------------------------------------------------------------------
Visit(x) == n <= Len(unit) /\ x = unit[n] /\ n' = n + 1 /\ UNCHANGED <<unit, deps, unit_decls>>

KeepItemUnflushed(x) ==
    /\ Visit(x) /\ ItemContext(x) # {} /\ x.kind # "var"
    /\ unit_items' = Append(unit_items, CopyItem(x))
    /\ UNCHANGED compactable

KeepItem(x) ==
    /\ Visit(x) /\ ItemContext(x) # {} /\ x.kind # "var"
    /\ unit_items' = unit_items \o Compacted(compactable) \o <<CopyItem(x)>>
    /\ compactable' = <<>>

KeepVariable(x) ==
    /\ Visit(x) /\ ItemContext(x) # {} /\ x.kind = "var"
    /\ unit_items' = Append(unit_items, CopyItem(x))
    /\ UNCHANGED compactable

CompactField(x) ==
    /\ Visit(x) /\ ItemContext(x) = {} /\ IsField(x)
    /\ compactable' = Append(compactable, x)
    /\ UNCHANGED unit_items

DropVariable(x) ==
    /\ Visit(x) /\ ItemContext(x) = {} /\ x.kind = "var"
    /\ UNCHANGED <<unit_items, compactable>>

CopyPropertyNot(x) ==
    /\ Visit(x) /\ ItemContext(x) = {} /\ x.kind = "property"
    /\ UNCHANGED <<unit_items, compactable>>

CopyProperty(x) ==
    /\ Visit(x) /\ ItemContext(x) = {} /\ x.kind = "property"
    /\ unit_items' = Append(unit_items, Clone(x))
    /\ UNCHANGED compactable

Declare ==
    /\ n > Len(unit) /\ unit_decls = <<>>
    /\ unit_items' = ReplacedItems(unit_items \o Compacted(compactable))
    /\ compactable' = <<>>
    /\ unit_decls' = <<unit_items'>>
    /\ UNCHANGED <<unit, deps, n>>

Next ==
    \/ \E x \in {unit[k] : k \in DOMAIN unit} :
          KeepItem(x) \/ KeepVariable(x) \/ CompactField(x) \/ DropVariable(x) \/ CopyProperty(x)
    \/ Declare

Spec == unit \in Seq(Items) /\ Init /\ [][Next]_vars

--------------------------------------------------------------------------------
(***************************************************************************)
(* The layout of a sequence of items: the lengths of the fields, in their  *)
(* order.  A field of unknown length is as long as the field of its name.  *)
(***************************************************************************)
FieldLayout(x) == IF LengthExpr(x) # NoExpr THEN LengthTerms(LengthExpr(x)) ELSE <<Member(x.id)>>
ItemLayout(x) == IF IsField(x) THEN FieldLayout(x) ELSE <<>>
Layout(xs) ==
    LET upto[k \in 0..Len(xs)] == IF k = 0 THEN <<>> ELSE upto[k - 1] \o ItemLayout(xs[k])
    IN upto[Len(xs)]

\* What the layout rests on: a copy of an item, and what SelfReplacerVisitor
\* makes of it, are as long as the item; a hidden field is as long as it is
\* told to be, and a sum as long as its parts.
Alike(y, x) == y.id = x.id /\ (IsField(y) <=> IsField(x)) /\ ItemLayout(y) = ItemLayout(x)

Copies(x) == {Clone(x), [Clone(x) EXCEPT !.parsing_only = TRUE]}

ItemFacts == \A x \in Items : \A y \in Copies(x) : Alike(y, x) /\ Alike(ReplacedItem(y), x)

LengthFacts(e, f) ==
    /\ LengthTerms(Plus(e, f)) = LengthTerms(e) \o LengthTerms(f)
    /\ LengthExpr(HiddenField(e)) = e
    /\ Alike(ReplacedItem(HiddenField(e)), HiddenField(e))

\* Item j of xs starts where the item of its name starts in ys, up to m.
StartsAsIn(xs, j, ys, m) ==
    \E p \in 1..m : /\ IsField(ys[p]) /\ ys[p].id = xs[j].id
                    /\ Layout(SubSeq(xs, 1, j - 1)) = Layout(SubSeq(ys, 1, p - 1))

\* Compaction moves nothing: the fields taken so far, hidden ones and those not
\* yet hidden, take the bytes the unit's fields take, and a field that is kept
\* starts where it starts in the unit.
SameLayout ==
    /\ Layout(unit_items \o compactable) = Layout(SubSeq(unit, 1, n - 1))
    /\ \A j \in DOMAIN unit_items :
          IsField(unit_items[j]) /\ unit_items[j].id # "__anon" => StartsAsIn(unit_items, j, unit, n - 1)
================================================================================
