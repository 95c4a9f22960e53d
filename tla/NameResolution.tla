----------------------------- MODULE NameResolution -----------------------------
(***************************************************************************)
(* Compiler::executePasses on the AST of a module: the scopes, the         *)
(* pre-order visitor and the passes that replace names by what they name.  *)
(*                                                                         *)
(* A node_ptr is a cell that all its copies share; replacing the node of a *)
(* cell changes what every copy points to.  Cells, and the nodes first     *)
(* found in them, are named by their place in the module: <<d>> is the     *)
(* d-th declaration, <<d, 0>> its type or value, <<d, i>> the i-th item of *)
(* its unit, and longer paths are parts of those and nodes made later.     *)
(*                                                                         *)
(* The two instantiation passes appear only by what they need of a name;   *)
(* DependencyMapBuilder, DependencyResolver and UnitCompaction model them. *)
(***************************************************************************)
EXTENDS Integers, Sequences, FiniteSets

CONSTANTS
    Programs,    \* modules as the grammar builds them
    ModuleName,  \* the identifier after "module"
    Builtins     \* the declarations of ScopeBuilder::addBuiltins

ItemKinds == {"Unknown", "AtomicType", "UnitField", "Constant", "Variable"}
\* Types other than units and enums; and expressions.
TypeKinds == {"Integer", "UnknownType"}
ExprKinds == {"ConstantExpr", "ID", "FunctionExpr", "TransformExpr"}

\* What the grammar accepts.
Declarations == UNION {{p[d] : d \in DOMAIN p} : p \in Programs \cup {Builtins}}
IsLeaf(x, kinds) == x.kind \in kinds /\ x.id \in Seq(STRING)
IsItem(x) ==
    /\ x.kind \in ItemKinds /\ IsLeaf(x.type, TypeKinds) /\ x.to \in Seq(STRING)
    /\ Len(x.exprs) \in Nat /\ \A k \in 1..Len(x.exprs) : IsLeaf(x.exprs[k], ExprKinds)
IsType(x) ==
    \/ /\ x.kind = "Unit" /\ x.params \in Seq(STRING)
       /\ Len(x.items) \in Nat /\ \A i \in 1..Len(x.items) : IsItem(x.items[i])
    \/ x.kind = "Enum" /\ x.id \in Seq(STRING) /\ x.labels \in Seq(STRING)
    \/ IsLeaf(x, TypeKinds)
IsDecl(x) ==
    /\ x.kind \in {"TypeDecl", "ValueDecl", "Instantiation"} /\ x.id \in Seq(STRING)
    /\ x.kind = "TypeDecl" => IsType(x.of)
    /\ x.kind = "ValueDecl" => IsLeaf(x.of, ExprKinds)

ASSUME ProgramsAssumption ==
    /\ ModuleName \in Seq(STRING)
    /\ \A p \in Programs \cup {Builtins} : p \in Seq(Declarations)
    /\ \A x \in Declarations : IsDecl(x)

VARIABLES
    program,     \* the declarations, built-in ones last
    heap,        \* the nodes
    cell,        \* node_ptr::p_, the node each cell points to
    node_ptr,    \* Node::node_ptr__, the cell a node knows of, or None
    scope,       \* the Scope of the module, of each unit, item and enum
    pass,        \* index into Passes
    stack,       \* calls of preOrder() under way
    visited,     \* Visitor::_visited
    disordered,  \* a key of _visited was changed while in the set
    missed,      \* the cells that a search of _visited overlooked
    errors,      \* Visitor::errors_ is not zero
    result       \* "running", "ok", "failed" or "crash"

visitor == <<stack, visited, disordered, missed>>
vars == <<visitor, pass, errors, result, program, heap, cell, node_ptr, scope>>

None == <<>>
Root == <<0>>
Decl(d) == <<d>>
Part(d) == <<d, 0>>
ItemAt(d, i) == <<d, i>>
ItemType(d, i) == <<d, i, 0>>
ItemExpr(d, i, k) == <<d, i, k>>
TransformTo(d, i) == <<d, i, -1>>
Made(c) == Append(c, -2)
MadeType(n) == Append(n, -3)
DollarDollar(d, i) == <<d, i, -4>>
TypeExpr(d) == <<d, 0, 0>>
SelfExpr(d) == <<d, 0, 1>>
Label(d, k) == <<d, 0, 1 + k>>
Param(d, k) == <<d, 0, 1, k>>

--------------------------------------------------------------------------------
\* The AST that the grammar's actions build.
Node(kind, id, kids) ==
    [kind |-> kind, id |-> id, kids |-> kids, type |-> None, serialized_type |-> None,
     transform_to |-> None, unit |-> None]

ItemNode(d, i, item) ==
    LET exprs == [k \in 1..Len(item.exprs) |-> ItemExpr(d, i, k)]
        to == IF item.to = None THEN None ELSE TransformTo(d, i)
        attrs == IF to = None THEN exprs ELSE Append(exprs, to)
    IN IF item.kind = "Unknown"
       THEN [Node("Unknown", item.type.id, attrs) EXCEPT !.transform_to = to]
       ELSE [Node(item.kind, None, <<ItemType(d, i)>> \o attrs) EXCEPT
                !.type = ItemType(d, i), !.transform_to = to]

\* A type, an unresolved name of one, or an expression; containers are left out.
Leaf(spec) == Node(spec.kind, spec.id, <<>>)

\* Enum::Enum adds a label of its own.
AllLabels(t) == Append(t.labels, "UNDEF")

\* The places of the nodes, and the node at each.
ItemPlaces(d, i, item) ==
    {ItemAt(d, i)} \cup {ItemExpr(d, i, k) : k \in 1..Len(item.exprs)}
    \cup (IF item.kind = "Unknown" THEN {} ELSE {ItemType(d, i)})
    \cup (IF item.to = None THEN {} ELSE {TransformTo(d, i)})
Places(d, decl) ==
    {Decl(d)} \cup
    IF decl.kind = "Instantiation" THEN {}
    ELSE {Part(d)} \cup
         CASE decl.of.kind = "Unit" -> UNION {ItemPlaces(d, i, decl.of.items[i]) : i \in 1..Len(decl.of.items)}
           [] decl.of.kind = "Enum" -> {Label(d, k) : k \in 1..Len(AllLabels(decl.of))}
           [] OTHER -> {}

DeclNode(d, decl) == Node(decl.kind, decl.id, IF decl.kind = "Instantiation" THEN <<>> ELSE <<Part(d)>>)
PartNode(d, t) ==
    IF t.kind = "Unit" THEN Node("Unit", None, [i \in 1..Len(t.items) |-> ItemAt(d, i)]) ELSE Leaf(t)
ItemPart(item, k) ==
    CASE k = 0 -> Leaf(item.type)
      [] k = -1 -> Node("ID", item.to, <<>>)
      [] OTHER -> Leaf(item.exprs[k])
NodeAt(decl, n) ==
    CASE Len(n) = 1 -> DeclNode(n[1], decl)
      [] Len(n) = 2 /\ n[2] = 0 -> PartNode(n[1], decl.of)
      [] Len(n) = 2 /\ n[2] # 0 -> ItemNode(n[1], n[2], decl.of.items[n[2]])
      [] Len(n) = 3 /\ n[2] = 0 -> Node("ConstantExpr", None, <<>>)
      [] Len(n) = 3 /\ n[2] # 0 -> ItemPart(decl.of.items[n[2]], n[3])

Ast(p, linked) ==
    [n \in {Root} \cup UNION {Places(d, p[d]) : d \in 1..Len(p)} |->
        IF n = Root THEN Node("Module", ModuleName, [d \in 1..linked |-> Decl(d)]) ELSE NodeAt(p[n[1]], n)]

\* A name may be inserted more than once; whether there is no value, one or several
\* is all that a lookup is asked for.
NewScope == [values |-> <<>>, children |-> <<>>, parent |-> None]

\* Enum::typeScope
EnumScope(d, t) ==
    [NewScope EXCEPT !.values =
        [id \in {<<AllLabels(t)[k]>> : k \in 1..Len(AllLabels(t))} |->
            {Label(d, k) : k \in {j \in 1..Len(AllLabels(t)) : id = <<AllLabels(t)[j]>>}}]]

Init ==
    /\ program \in {p \o Builtins : p \in Programs}
    /\ heap = Ast(program, Len(program) - Len(Builtins))
    /\ cell = [n \in DOMAIN heap |-> n]
    /\ node_ptr = cell
    /\ scope = [s \in {n \in DOMAIN heap : heap[n].kind \in {"Module", "Unit", "Enum"} \cup ItemKinds} |->
                    IF heap[s].kind = "Enum" THEN EnumScope(s[1], program[s[1]].of) ELSE NewScope]
    /\ pass = 1
    /\ stack = <<>> /\ visited = {} /\ disordered = FALSE /\ missed = {}
    /\ errors = FALSE
    /\ result = "running"

--------------------------------------------------------------------------------
\* A map of one key; and f, with what g has at other keys.
Only(x, value) == [y \in {x} |-> value]
Over(f, g) ==
    LET dom == DOMAIN f IN [x \in dom \cup DOMAIN g |-> IF x \in dom THEN f[x] ELSE g[x]]

\* Scope::insert, of each of the new names
InsertedAll(s, new) ==
    [s EXCEPT !.values = [id \in DOMAIN @ \cup DOMAIN new |->
        (IF id \in DOMAIN @ THEN @[id] ELSE {}) \cup (IF id \in DOMAIN new THEN new[id] ELSE {})]]
Inserted(s, id, value) == InsertedAll(s, Only(id, {value}))

\* Scope::find on a path: a value of this scope, or else one of the child scope
\* that the longest possible prefix of the path names.
FindPath(s, path) ==
    IF Len(path) = 1 /\ path \in DOMAIN scope[s].values THEN scope[s].values[path]
    ELSE LET prefixes == {j \in 1..Len(path) : SubSeq(path, 1, j) \in DOMAIN scope[s].children}
             longest == CHOOSE j \in prefixes : \A k \in prefixes : k <= j
             rest == SubSeq(path, longest + 1, Len(path))
         IN IF prefixes = {} THEN {}
            ELSE LET child == scope[scope[s].children[SubSeq(path, 1, longest)]]
                 IN IF Len(rest) = 1 /\ rest \in DOMAIN child.values THEN child.values[rest] ELSE {}

\* Scope::find
Find(s, id) == IF id \in DOMAIN scope[s].values THEN scope[s].values[id] ELSE FindPath(s, id)

\* A mutant of Lookup that starts with the outermost scope.
LookupModuleFirst(s, id) ==
    IF Find(Root, id) # {} THEN Find(Root, id)
    ELSE IF Find(s, id) # {} \/ scope[s].parent = None THEN Find(s, id)
    ELSE Find(scope[s].parent, id)
\* Scope::lookup, through the parents: an item's scope, its unit's, the module's.
Lookup(s, id) ==
    LET up(t) == IF t = None THEN None ELSE scope[t].parent
        at(t) == IF t = None THEN {} ELSE Find(t, id)
    IN IF at(s) # {} THEN at(s)
       ELSE IF at(up(s)) # {} THEN at(up(s)) ELSE at(up(up(s)))

--------------------------------------------------------------------------------
\* A mutant of Passes with one IdResolver less.
PassesFewer == <<"ScopeBuilder", "UnitScopeBuilder", "IdResolver", "TransformResolver",
                 "Instantiations", "IdResolver">>
\* Compiler::executePasses
Passes == <<"ScopeBuilder", "IdResolver", "UnitScopeBuilder", "IdResolver", "TransformResolver",
            "Instantiations", "IdResolver">>
report_unresolved == pass = Len(Passes)

Running(name) == result = "running" /\ Passes[pass] = name

\* ScopeBuilder::addBuiltins: the module's children are then all declarations.
WithBuiltins == [heap EXCEPT ![Root].kids = [d \in 1..Len(program) |-> Decl(d)]]

\* run() of a pass: ScopeBuilder first adds the built-in declarations;
\* processAllPreOrder resets the visitor.
BeginPass ==
    /\ result = "running" /\ stack = <<>> /\ ~Running("Instantiations")
    /\ heap' = IF Running("ScopeBuilder") THEN WithBuiltins ELSE heap
    /\ visited' = {} /\ disordered' = FALSE /\ missed' = {} /\ errors' = FALSE
    /\ stack' = <<[cell |-> None, kids |-> <<Root>>, next |-> 1]>>
    /\ UNCHANGED <<program, cell, node_ptr, scope, pass, result>>

Top == stack[Len(stack)]
Advanced == [stack EXCEPT ![Len(stack)].next = @ + 1]
Arrived == Top.kids[Top.next]
Arriving == stack # <<>> /\ Top.next <= Len(Top.kids)

\* _visited.find(node) compares the nodes that cells point to now.  Once a key was
\* changed inside the std::set, a search may also overlook an element; it then
\* inserts the cell where later searches for it pass by, so a cell is overlooked
\* at most once.
Present(c) == \E v \in visited : cell[v] = cell[c]
Overlooked(c) == disordered /\ c \notin missed

\* preOrder on a node that was visited
SkipVisited ==
    /\ Arriving /\ Present(Arrived)
    /\ stack' = Advanced
    /\ UNCHANGED <<program, heap, cell, node_ptr, scope, pass, visited, disordered, missed, errors, result>>

\* preOrder on another node c: it is entered in _visited and accepted, and then the
\* children of the node that c points to by then are next.
Visiting(c) == Arriving /\ c = Arrived /\ (~Present(c) \/ Overlooked(c))
Descend(c) ==
    /\ visited' = visited \cup {c}
    /\ missed' = IF Present(c) THEN missed \cup {c} ELSE missed
    /\ disordered' = (disordered \/ cell'[c] # cell[c])
    /\ stack' = Append(Advanced, [cell |-> c, kids |-> heap'[cell'[c]].kids, next |-> 1])
    /\ UNCHANGED <<program, pass, result>>

\* A mutant of Return that runs a pass with errors again.
ReturnAgain ==
    /\ stack # <<>> /\ Top.next > Len(Top.kids)
    /\ stack' = SubSeq(stack, 1, Len(stack) - 1)
    /\ IF Len(stack) > 1 \/ errors THEN UNCHANGED <<pass, result>>
       ELSE IF pass = Len(Passes) THEN result' = "ok" /\ UNCHANGED pass
       ELSE pass' = pass + 1 /\ UNCHANGED result
    /\ UNCHANGED <<program, heap, cell, node_ptr, scope, visited, disordered, missed, errors>>
\* The return from preOrder, and at the last one from run().
Return ==
    /\ stack # <<>> /\ Top.next > Len(Top.kids)
    /\ stack' = SubSeq(stack, 1, Len(stack) - 1)
    /\ IF Len(stack) > 1 THEN UNCHANGED <<pass, result>>
       ELSE IF errors THEN result' = "failed" /\ UNCHANGED pass
       ELSE IF pass = Len(Passes) THEN result' = "ok" /\ UNCHANGED pass
       ELSE pass' = pass + 1 /\ UNCHANGED result
    /\ UNCHANGED <<program, heap, cell, node_ptr, scope, visited, disordered, missed, errors>>

\* A mutant of Replace that leaves the old node its node_ptr.
ReplaceUncleared(c, n) ==
    /\ cell' = [cell EXCEPT ![c] = n]
    /\ UNCHANGED node_ptr
\* node_ptr::replace: every copy of c now points to n, and the node that c pointed
\* to no longer knows a node_ptr.
Replace(c, n) ==
    /\ cell' = [cell EXCEPT ![c] = n]
    /\ node_ptr' = [node_ptr EXCEPT ![cell[c]] = None]

\* New nodes of these names, with cells of the same names.
Linked(f, names) == [x \in DOMAIN f \cup names |-> IF x \in names THEN x ELSE f[x]]

\* A mutant of New whose nodes do not learn their node_ptr.
NewUnlinked(nodes) ==
    /\ heap' = Over(nodes, heap)
    /\ cell' = Linked(cell, DOMAIN nodes)
    /\ UNCHANGED node_ptr
\* newNodePtr of a node that is kept by a cell of the same name.
New(nodes) ==
    /\ heap' = Over(nodes, heap)
    /\ cell' = Linked(cell, DOMAIN nodes)
    /\ node_ptr' = Linked(node_ptr, DOMAIN nodes)

--------------------------------------------------------------------------------
\* ScopeBuilder::visit(declaration::Type): the name denotes an expression around the
\* declared type; an enum's labels become reachable through it.
AddTypeName(c) ==
    LET n == heap[cell[c]]
        t == n.kids[1]
        inserted == Inserted(scope[Root], n.id, TypeExpr(c[1]))
    IN /\ Running("ScopeBuilder") /\ Visiting(c) /\ n.kind = "TypeDecl"
       /\ New(Only(TypeExpr(c[1]), [Node("TypeExpr", None, <<t>>) EXCEPT !.type = t]))
       /\ scope' = IF heap[cell[t]].kind = "Enum"
                   THEN [scope EXCEPT
                            ![Root] = [inserted EXCEPT !.children = Over(@, Only(n.id, cell[t]))],
                            ![cell[t]].parent = Root]
                   ELSE [scope EXCEPT ![Root] = inserted]
       /\ Descend(c)
       /\ UNCHANGED errors

\* ScopeBuilder::visit(Constant), visit(Function), visit(Transform)
AddValueName(c) ==
    LET n == heap[cell[c]]
    IN /\ Running("ScopeBuilder") /\ Visiting(c) /\ n.kind = "ValueDecl"
       /\ scope' = [scope EXCEPT ![Root] = Inserted(@, n.id, n.kids[1])]
       /\ UNCHANGED <<heap, cell, node_ptr, errors>>
       /\ Descend(c)

\* UnitScopeBuilder::visit(declaration::Type): self and the parameters enter the
\* unit's scope, $$ the scope of each item.  The unit may also be that of another
\* declaration, which this one names.
AddUnitScope(c) ==
    LET n == heap[cell[c]]
        t == n.kids[1]
        u == cell[t]
        params == program[u[1]].of.params
        items == {cell[i] : i \in {heap[u].kids[k] : k \in 1..Len(heap[u].kids)}}
        state(type) == Node("ParserState", None, <<t>> \o type)
        dollar(i) == DollarDollar(c[1], i[2])
        names == [id \in {<<"self">>} \cup {<<params[k]>> : k \in 1..Len(params)} |->
                    (IF id = <<"self">> THEN {SelfExpr(c[1])} ELSE {})
                    \cup {Param(c[1], k) : k \in {j \in 1..Len(params) : id = <<params[j]>>}}]
        nodes == Over(Only(SelfExpr(c[1]), state(<<t>>)),
                      Over([x \in {Param(c[1], k) : k \in 1..Len(params)} |-> state(<<>>)],
                           [x \in {dollar(i) : i \in items} |->
                              state(LET i == CHOOSE i \in items : dollar(i) = x
                                    IN IF heap[i].type = None THEN <<>> ELSE <<heap[i].type>>)]))
    IN /\ Running("UnitScopeBuilder") /\ Visiting(c)
       /\ n.kind = "TypeDecl" /\ heap[u].kind = "Unit"
       /\ New(nodes)
       /\ scope' = [s \in DOMAIN scope |->
                      IF s = u THEN [InsertedAll(scope[u], names) EXCEPT !.parent = Root]
                      ELSE IF s \in items
                      THEN [Inserted(scope[s], <<"$$">>, dollar(s)) EXCEPT !.parent = u]
                      ELSE scope[s]]
       /\ Descend(c)
       /\ UNCHANGED errors

--------------------------------------------------------------------------------
\* The scope that IdResolver::visit(expression::ID) starts from: that of the
\* nearest enclosing item or unit.
NearestScope ==
    LET inner == {k \in 1..Len(stack) : stack[k].cell # None
                                        /\ heap[cell[stack[k].cell]].kind \in {"Unit"} \cup ItemKinds}
    IN IF inner = {} THEN Root
       ELSE cell[stack[CHOOSE k \in inner : \A j \in inner : j <= k].cell]

\* A name with a single value, and the value.
Single(vals) == \E v \in vals : vals = {v}
The(vals) == CHOOSE v \in vals : TRUE

\* A mutant of Reported for which an unknown name is always an error.
ReportedAlways(vals) == ~Single(vals)
\* Every visit of IdResolver looks a name up and goes on only with a single value.
\* An unknown name is an error in the last pass only.
Reported(vals) == ~Single(vals) /\ (vals # {} \/ report_unresolved)
Rejected(vals) ==
    /\ ~Single(vals)
    /\ errors' = (errors \/ Reported(vals))
    /\ UNCHANGED <<heap, cell, node_ptr, scope>>
Mistaken ==
    /\ errors' = TRUE
    /\ UNCHANGED <<heap, cell, node_ptr, scope>>

\* IdResolver::visit(expression::ID): the module's own name may be left out.
IdValues(id) ==
    LET vals == Lookup(NearestScope, id)
    IN IF vals = {} /\ Len(id) > 1 /\ id[1] = ModuleName[1]
       THEN Lookup(NearestScope, Tail(id)) ELSE vals

ResolveId(c) ==
    LET n == heap[cell[c]]
        vals == IdValues(n.id)
    IN /\ Running("IdResolver") /\ Visiting(c) /\ n.kind = "ID"
       /\ \/ Rejected(vals)
          \/ /\ Single(vals)
             /\ Replace(c, cell[The(vals)])
             /\ UNCHANGED <<heap, scope, errors>>
       /\ Descend(c)

\* IdResolver::visit(type::Unknown)
ResolveType(c) ==
    LET n == heap[cell[c]]
        vals == Lookup(Root, n.id)
        value == heap[cell[The(vals)]]
    IN /\ Running("IdResolver") /\ Visiting(c) /\ n.kind = "UnknownType"
       /\ \/ Rejected(vals)
          \/ Single(vals) /\ value.kind # "TypeExpr" /\ Mistaken
          \/ /\ Single(vals) /\ value.kind = "TypeExpr"
             /\ Replace(c, cell[value.type])
             /\ UNCHANGED <<heap, scope, errors>>
       /\ Descend(c)

\* A mutant of FieldOf that does not tell units apart.
FieldOfAtomic(n, value) ==
    IF value.kind = "ConstantExpr"
    THEN [Node("Constant", None, n.kids) EXCEPT !.transform_to = n.transform_to]
    ELSE [Node("AtomicType", None, <<value.type>> \o n.kids)
          EXCEPT !.type = value.type, !.transform_to = n.transform_to]
\* The field that IdResolver::visit(field::Unknown) makes of a value: a constant, or
\* what Field::createByType makes of the type as far as it is known by then.
FieldOf(n, value) ==
    IF value.kind = "ConstantExpr"
    THEN [Node("Constant", None, n.kids) EXCEPT !.transform_to = n.transform_to]
    ELSE [Node(IF heap[cell[value.type]].kind = "Unit" THEN "UnitField" ELSE "AtomicType",
               None, <<value.type>> \o n.kids)
          EXCEPT !.type = value.type, !.transform_to = n.transform_to]

\* IdResolver::visit(field::Unknown): c points to the new field; the node_ptr it was
\* made with is gone when the visit ends.
ResolveField(c) ==
    LET n == heap[cell[c]]
        vals == Lookup(Root, n.id)
        value == heap[cell[The(vals)]]
    IN /\ Running("IdResolver") /\ Visiting(c) /\ n.kind = "Unknown"
       /\ \/ Rejected(vals)
          \/ Single(vals) /\ value.kind \notin {"ConstantExpr", "TypeExpr"} /\ Mistaken
          \/ /\ Single(vals) /\ value.kind \in {"ConstantExpr", "TypeExpr"}
             /\ heap' = Over(heap, Only(Made(c), FieldOf(n, value)))
             /\ cell' = [cell EXCEPT ![c] = Made(c)]
             /\ node_ptr' = [m \in DOMAIN node_ptr \cup {Made(c)} |->
                               IF m \in {cell[c], Made(c)} THEN None ELSE node_ptr[m]]
             /\ scope' = Over(scope, Only(Made(c), [NewScope EXCEPT !.parent = scope[cell[c]].parent]))
             /\ UNCHANGED errors
       /\ Descend(c)

\* IdResolver::visit(Instantiation)
ResolveInstantiation(c) ==
    LET n == heap[cell[c]]
        vals == Lookup(Root, n.id)
        value == heap[cell[The(vals)]]
        isUnit == value.kind = "TypeExpr" /\ heap[cell[value.type]].kind = "Unit"
    IN /\ Running("IdResolver") /\ Visiting(c) /\ n.kind = "Instantiation"
       /\ \/ Rejected(vals)
          \/ Single(vals) /\ ~isUnit /\ Mistaken
          \/ /\ Single(vals) /\ isUnit
             /\ heap' = [heap EXCEPT ![cell[c]].unit = value.type]
             /\ UNCHANGED <<cell, node_ptr, scope, errors>>
       /\ Descend(c)

--------------------------------------------------------------------------------
\* Node::removeChild takes the node that t points to out of the children wherever
\* it is.
Removed(kids, t) ==
    LET upto[k \in 0..Len(kids)] ==
            IF k = 0 THEN <<>>
            ELSE IF t # None /\ cell[kids[k]] = cell[t] THEN upto[k - 1]
            ELSE Append(upto[k - 1], kids[k])
    IN upto[Len(kids)]

\* Item::set_serialized_type and set_type
Transformed(n, type) ==
    [n EXCEPT !.serialized_type = n.type, !.type = type, !.kids = Append(Removed(n.kids, n.type), type)]

\* TransformResolver::visit(Item) with an attribute &transform_to: the type becomes
\* the serialized type.
TransformItem(c) ==
    LET n == heap[cell[c]]
        to == heap[cell[n.transform_to]]
        type == IF to.kind = "ID" THEN MadeType(cell[c]) ELSE to.type
        item == Transformed(n, type)
    IN /\ Running("TransformResolver") /\ Visiting(c)
       /\ n.kind \in ItemKinds /\ n.transform_to # None
       /\ to.kind \in {"ID", "TypeExpr"}
       /\ IF to.kind = "ID"
          THEN /\ heap' = Over([heap EXCEPT ![cell[c]] = item], Only(type, Node("UnknownType", to.id, <<>>)))
               /\ cell' = Linked(cell, {type})
               /\ node_ptr' = Linked(node_ptr, {type})
          ELSE heap' = [heap EXCEPT ![cell[c]] = item] /\ UNCHANGED <<cell, node_ptr>>
       /\ UNCHANGED <<scope, errors>>
       /\ Descend(c)

\* An attribute value that is neither an ID nor a type is reported, and then
\* dereferenced as if it were one.
TransformMistaken(c) ==
    LET n == heap[cell[c]]
    IN /\ Running("TransformResolver") /\ Visiting(c)
       /\ n.kind \in ItemKinds /\ n.transform_to # None
       /\ heap[cell[n.transform_to]].kind \notin {"ID", "TypeExpr"}
       /\ result' = "crash"
       /\ UNCHANGED <<program, heap, cell, node_ptr, scope, pass, visitor, errors>>

\* A node for which the pass has no visit method.
HasVisit(n) ==
    \/ Running("ScopeBuilder") /\ n.kind \in {"TypeDecl", "ValueDecl"}
    \/ Running("UnitScopeBuilder") /\ n.kind = "TypeDecl" /\ heap[cell[n.kids[1]]].kind = "Unit"
    \/ Running("IdResolver") /\ n.kind \in {"ID", "UnknownType", "Unknown", "Instantiation"}
    \/ Running("TransformResolver") /\ n.kind \in ItemKinds /\ n.transform_to # None
PassOver(c) ==
    /\ result = "running" /\ Visiting(c) /\ ~HasVisit(heap[cell[c]])
    /\ UNCHANGED <<heap, cell, node_ptr, scope, errors>>
    /\ Descend(c)

\* InstantiationDependencyResolver and InstantiationTypeGenerator, which follow the
\* unit of every instantiation.
Instantiations ==
    /\ Running("Instantiations")
    /\ IF \A d \in 1..Len(program) : heap[Decl(d)].kind = "Instantiation" => heap[Decl(d)].unit # None
       THEN pass' = pass + 1 /\ UNCHANGED result
       ELSE result' = "crash" /\ UNCHANGED pass
    /\ UNCHANGED <<program, heap, cell, node_ptr, scope, visitor, errors>>

Done == result # "running" /\ UNCHANGED vars

Visit(c) ==
    \/ AddTypeName(c) \/ AddValueName(c) \/ AddUnitScope(c)
    \/ ResolveId(c) \/ ResolveType(c) \/ ResolveField(c) \/ ResolveInstantiation(c)
    \/ TransformItem(c) \/ TransformMistaken(c)
    \/ PassOver(c)
Next ==
    \/ BeginPass \/ Instantiations \/ Done
    \/ result = "running" /\ (SkipVisited \/ Return)
    \/ result = "running" /\ Arriving /\ Visit(Arrived)

Spec == Init /\ [][Next]_vars
\* The compiler is one thread that runs until it is done.
FairSpec == Spec /\ WF_vars(Next)

--------------------------------------------------------------------------------
\* What the names of a module's source text mean by the rules of lexical scoping,
\* defined without scopes and passes.
Source(p) == Ast(p, Len(p))
Nowhere == <<-1>>
Names == {"ID", "UnknownType"}

TheOnly(S) == IF \E x \in S : S = {x} THEN CHOOSE x \in S : TRUE ELSE Nowhere
Declared(p, id) == {d \in 1..Len(p) : p[d].kind # "Instantiation" /\ p[d].id = id}
\* Of several enums declared under a name, the first.
IsEnum(decl) == decl.kind = "TypeDecl" /\ decl.of.kind = "Enum"
DeclaredEnums(p) ==
    {d \in 1..Len(p) : IsEnum(p[d]) /\ \A e \in 1..(d - 1) : IsEnum(p[e]) => p[e].id # p[d].id}
Denoted(p, d) == IF p[d].kind = "TypeDecl" THEN TypeExpr(d) ELSE Part(d)
DeclaredLabels(p, id) ==
    UNION {{Label(d, k) : k \in {j \in 1..Len(AllLabels(p[d].of)) : id = Append(p[d].id, AllLabels(p[d].of)[j])}} :
            d \in DeclaredEnums(p)}
DeclaredValues(p, id) == {Denoted(p, d) : d \in Declared(p, id)} \cup DeclaredLabels(p, id)
\* The module's own name may be left out.
Bare(p, id) == IF DeclaredValues(p, id) = {} /\ Len(id) > 1 /\ id[1] = ModuleName[1] THEN Tail(id) ELSE id
ModuleValue(p, id) == TheOnly(DeclaredValues(p, Bare(p, id)))
\* A name in an item of a unit sees $$, then self and the parameters, then the module.
UnitValues(p, d, id) ==
    LET params == p[d].of.params
    IN (IF id = <<"self">> THEN {SelfExpr(d)} ELSE {})
       \cup {Param(d, k) : k \in {j \in 1..Len(params) : id = <<params[j]>>}}
ItemValue(p, n, id) ==
    IF id = <<"$$">> THEN DollarDollar(n[1], n[2])
    ELSE IF UnitValues(p, n[1], id) # {} THEN TheOnly(UnitValues(p, n[1], id)) ELSE ModuleValue(p, id)
\* The declaration that a name of a type refers to.
TypeNamed(p, id) ==
    LET v == TheOnly(DeclaredValues(p, id)) IN IF v = TypeExpr(v[1]) THEN Part(v[1]) ELSE Nowhere
OneStep(p, src, n) ==
    IF n \notin DOMAIN src \/ src[n].kind \notin Names THEN n
    ELSE IF src[n].kind = "UnknownType" THEN TypeNamed(p, src[n].id)
    ELSE IF Len(n) = 3 THEN ItemValue(p, n, src[n].id) ELSE ModuleValue(p, src[n].id)
\* Where the names of the source lead, step by step: a chain of aliases is as long as
\* the module at most, unless it is circular.
Chains(p) ==
    LET src == Source(p)
        chain[k \in 0..Len(p)] ==
            IF k = 0 THEN [n \in DOMAIN src |-> n]
            ELSE [n \in DOMAIN src |-> OneStep(p, src, chain[k - 1][n])]
    IN chain

Meanings(p) == Chains(p)[Len(p)]
\* Only a circular chain still ends in a name.
Circular(src, meaning, n) == meaning[n] \in DOMAIN src /\ src[meaning[n]].kind \in Names

\* The names that only the items of a unit see.
Local(p, d, id) == id = <<"$$">> \/ UnitValues(p, d, id) # {}
\* IdResolver::visit(ID) goes by the place where a name stands and the text found
\* there, so that in an item of a unit it can miss the module: a name with the
\* module's own name before it, the name in a constant that the item names, and
\* $$ of another declaration are then taken for the unit's.
Captured(p, src, meaning, n) ==
    LET d == n[1]
        id == src[n].id
    IN /\ src[n].kind = "ID" /\ Len(n) = 3
       /\ \/ Bare(p, id) # id /\ Local(p, d, Bare(p, id))
          \/ id = <<"$$">> /\ (DeclaredValues(p, id) # {} \/ UnitValues(p, d, id) # {})
          \/ \E e \in 1..Len(p) :
                /\ p[e].kind = "ValueDecl" /\ p[e].of.kind = "ID"
                /\ meaning[Part(e)] = meaning[n] /\ Local(p, d, Bare(p, p[e].of.id))

\* A declaration that means what n means does so by more than k names.
Farther(k, src, chain, n) ==
    LET last == Len(program)
    IN k < last /\ \E d \in 1..last : Part(d) \in DOMAIN src /\ chain[last][Part(d)] = chain[last][n]
                                      /\ chain[k][Part(d)] # chain[last][n]

\* What the name of a field stands for: a constant, or a type's TypeExpr.
FieldValue(n) == TheOnly(DeclaredValues(program, program[n[1]].of.items[n[2]].type.id))
FieldMeaning(src, meaning, n) ==
    IF FieldValue(n) \in DOMAIN src THEN meaning[FieldValue(n)] ELSE FieldValue(n)

\* The type of an item on the wire.
WireType(item) == IF item.serialized_type = None THEN item.type ELSE item.serialized_type

--------------------------------------------------------------------------------
\* The AST, the scopes and the visitor are of their types.
TypeOK ==
    /\ result \in {"running", "ok", "failed", "crash"}
    /\ pass \in 1..Len(Passes)
    /\ DOMAIN cell \subseteq DOMAIN heap
    /\ \A c \in DOMAIN cell : cell[c] \in DOMAIN heap
    /\ DOMAIN node_ptr = DOMAIN heap
    /\ \A n \in DOMAIN heap : \A k \in 1..Len(heap[n].kids) : heap[n].kids[k] \in DOMAIN cell
    /\ \A s \in DOMAIN scope : scope[s].parent \in {None} \cup DOMAIN scope

\* Node::nodePtr() never returns a pointer to another node, although cells are
\* redirected by node_ptr::replace while nodes still refer to them.
BackPointers == \A n \in DOMAIN node_ptr : node_ptr[n] # None => cell[node_ptr[n]] = n

\* No pass ever replaces a name by something that lexical scoping would not have led
\* to: every replacement, in whichever order they come, leaves the name its meaning.
Misread(n, x) ==
    LET src == Source(program)
        meaning == Meanings(program)
    IN /\ n \in DOMAIN src /\ src[n].kind \in Names
       /\ (IF x \in DOMAIN src THEN meaning[x] ELSE x) # meaning[n]
       /\ ~(meaning[n] = Nowhere \/ Circular(src, meaning, n) \/ Captured(program, src, meaning, n))
NeverMisread == [][\A n \in DOMAIN cell : cell'[n] # cell[n] => ~Misread(n, cell'[n])]_cell

\* When executePasses succeeds every name of the source has become what lexical
\* scoping says it means, whichever of the names between were declared later, if
\* they are not more than four: three runs of IdResolver do not follow longer chains
\* to the end.  Circular names are left as they are.
ResolvedRight ==
    result = "ok" =>
        LET src == Source(program)
            chain == Chains(program)
            meaning == Meanings(program)
        IN \A n \in DOMAIN src : src[n].kind # "Unknown" =>
              \/ Circular(src, meaning, n) \/ Farther(4, src, chain, n)
              \/ Captured(program, src, meaning, n) /\ (Farther(1, src, chain, n) \/ Bare(program, src[n].id) # src[n].id)
              \/ cell[n] = meaning[n]

\* When executePasses succeeds a field given by a name is a constant field where the
\* name is a constant's, and else has the type that the name means; it is a unit
\* field if a unit is declared under the name, and only if the name means a unit.
FieldsRight ==
    result = "ok" =>
        LET src == Source(program)
            chain == Chains(program)
            meaning == Meanings(program)
        IN \A n \in DOMAIN src : src[n].kind = "Unknown" =>
              LET value == FieldMeaning(src, meaning, n)
                  type == Part(value[1])
                  item == heap[cell[n]]
              IN IF value # TypeExpr(value[1]) THEN item.kind = "Constant"
                 ELSE \/ Circular(src, meaning, type) \/ Farther(4, src, chain, type)
                      \/ /\ cell[WireType(item)] = meaning[type]
                         /\ item.kind = "UnitField" => src[meaning[type]].kind = "Unit"
                         /\ src[type].kind = "Unit" => item.kind = "UnitField"

\* When executePasses succeeds an item with &transform_to has the type named there,
\* and the type it was declared with on the wire.
TransformedRight ==
    result = "ok" =>
        LET src == Source(program)
            chain == Chains(program)
            meaning == Meanings(program)
        IN \A n \in DOMAIN src : src[n].transform_to # None =>
              LET type == Part(meaning[src[n].transform_to][1])
                  item == heap[cell[n]]
              IN /\ \/ Circular(src, meaning, type) \/ Farther(4, src, chain, type)
                    \/ cell[item.type] = meaning[type]
                 /\ src[n].type # None => item.serialized_type = src[n].type

\* When executePasses succeeds the items of units are what their names and attributes
\* say: IdResolver has made the fields of the right kinds and types, and
\* TransformResolver has given them the types of &transform_to.
ItemsRight == FieldsRight /\ TransformedRight

\* executePasses fails, or aborts, only for a module with an error: a name without a
\* single meaning, &transform_to or an instantiation naming something else than
\* a type or a unit -- or for one of three that the order of its passes forbids: a
\* field named by a constant that is itself a name, an instantiation of an alias,
\* and a name in a unit that has an alias.
RejectedRight ==
    result \in {"failed", "crash"} =>
        LET src == Source(program)
            meaning == Meanings(program)
            NamesValue(n) == LET v == FieldValue(n) IN v \in DOMAIN src /\ src[v].kind # "ConstantExpr"
            NamesNoUnit(n) == LET t == TypeNamed(program, src[n].id)
                              IN t = Nowhere \/ src[t].kind # "Unit"
            Aliased(n) == \E d \in 1..Len(program) :
                             program[d].kind = "TypeDecl" /\ d # n[1] /\ meaning[Part(d)] = Part(n[1])
        IN \E n \in DOMAIN src :
              \/ src[n].kind \in Names /\ meaning[n] = Nowhere
              \/ src[n].kind = "Unknown" /\ (FieldValue(n) = Nowhere \/ NamesValue(n))
              \/ src[n].kind = "Instantiation" /\ NamesNoUnit(n)
              \/ src[n].kind = "ID" /\ n[2] > 0 /\ Aliased(n)
              \/ \E m \in DOMAIN src : src[m].transform_to = n /\ meaning[n] # TypeExpr(meaning[n][1])

\* The passes end, for recursive types and circular names too.
Terminates == <>(result # "running")

\* After executePasses every item of a unit can be asked for its node_ptr, as
\* Item::inheritedProperty does to find the most specific property.
ItemsKnown ==
    result = "ok" => \A n \in DOMAIN heap :
        heap[n].kind \in ItemKinds /\ (\E c \in DOMAIN cell : cell[c] = n) => node_ptr[n] # None
================================================================================
