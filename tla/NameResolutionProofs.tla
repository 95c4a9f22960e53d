-------------------------- MODULE NameResolutionProofs --------------------------
(***************************************************************************)
(* Proofs that hold of every module: Node::nodePtr() is right, whatever    *)
(* the passes have replaced, and no pass follows what is not there.        *)
(***************************************************************************)
EXTENDS NameResolution, SequenceTheorems, WellFoundedInduction, TLAPS

\* BackPointers made inductive: a node knows only the cell of its own name, so that
\* a cell made for one node cannot be what another knows.
OwnCells ==
    /\ cell = [c \in DOMAIN cell |-> cell[c]]
    /\ node_ptr = [n \in DOMAIN node_ptr |-> node_ptr[n]]
    /\ DOMAIN cell \subseteq DOMAIN node_ptr
    /\ \A n \in DOMAIN node_ptr :
          node_ptr[n] # None => node_ptr[n] = n /\ n \in DOMAIN cell /\ cell[n] = n

\* The AST of the grammar, with one cell for each node.
LEMMA InitOwnCells == Init => OwnCells
<1> SUFFICES ASSUME Init PROVE OwnCells
  OBVIOUS
<1>1. cell = [n \in DOMAIN heap |-> n] /\ node_ptr = cell
  BY DEF Init
<1> HIDE DEF Init
<1> QED BY <1>1 DEF OwnCells

\* newNodePtr keeps it, of any number of nodes.
LEMMA LinkedOwnCells ==
    ASSUME OwnCells, NEW names,
           cell' = Linked(cell, names), node_ptr' = Linked(node_ptr, names)
    PROVE  OwnCells'
BY DEF Linked, OwnCells

\* node_ptr::replace keeps it: the node that loses its cell forgets the cell.
LEMMA ReplaceOwnCells ==
    ASSUME OwnCells, NEW c, NEW n, Replace(c, n)
    PROVE  OwnCells'
<1>1. /\ DOMAIN cell' = DOMAIN cell /\ DOMAIN node_ptr' = DOMAIN node_ptr
      /\ \A d \in DOMAIN cell : d # c => cell'[d] = cell[d]
      /\ \A m \in DOMAIN node_ptr : node_ptr'[m] = IF m = cell[c] THEN None ELSE node_ptr[m]
  BY DEF Replace, OwnCells
<1>2. cell' = [d \in DOMAIN cell' |-> cell'[d]] /\ node_ptr' = [m \in DOMAIN node_ptr' |-> node_ptr'[m]]
  BY Zenon DEF Replace, OwnCells
<1>3. ASSUME NEW m \in DOMAIN node_ptr, node_ptr'[m] # None
      PROVE  node_ptr'[m] = m /\ m \in DOMAIN cell' /\ cell'[m] = m
  <2>1. m # cell[c] /\ node_ptr'[m] = node_ptr[m]
    BY <1>1, <1>3
  <2>2. node_ptr[m] = m /\ m \in DOMAIN cell /\ cell[m] = m
    BY <1>3, <2>1 DEF OwnCells
  <2>3. m # c
    BY <2>1, <2>2
  <2> QED BY <1>1, <2>1, <2>2, <2>3
<1> QED BY <1>1, <1>2, <1>3 DEF OwnCells

\* The field that takes the place of an unknown one knows no cell.
LEMMA FieldOwnCells ==
    ASSUME OwnCells, NEW c, NEW f,
           cell' = [cell EXCEPT ![c] = f],
           node_ptr' = [m \in DOMAIN node_ptr \cup {f} |->
                           IF m \in {cell[c], f} THEN None ELSE node_ptr[m]]
    PROVE  OwnCells'
<1>1. /\ DOMAIN cell' = DOMAIN cell
      /\ \A d \in DOMAIN cell : d # c => cell'[d] = cell[d]
      /\ cell' = [d \in DOMAIN cell' |-> cell'[d]]
  BY Zenon DEF OwnCells
<1>2. ASSUME NEW m \in DOMAIN node_ptr', node_ptr'[m] # None
      PROVE  node_ptr'[m] = m /\ m \in DOMAIN cell' /\ cell'[m] = m
  <2>1. m \in DOMAIN node_ptr /\ m # cell[c] /\ node_ptr'[m] = node_ptr[m]
    BY <1>2
  <2>2. node_ptr[m] = m /\ m \in DOMAIN cell /\ cell[m] = m
    BY <1>2, <2>1 DEF OwnCells
  <2> QED BY <1>1, <2>1, <2>2
<1>3. DOMAIN cell \subseteq DOMAIN node_ptr' /\ node_ptr' = [m \in DOMAIN node_ptr' |-> node_ptr'[m]]
  BY DEF OwnCells
<1> QED BY <1>1, <1>2, <1>3 DEF OwnCells

\* A step that touches neither cells nor nodes.
LEMMA SameOwnCells == OwnCells /\ UNCHANGED <<cell, node_ptr>> => OwnCells'
BY DEF OwnCells

\* Every visit of a pass keeps it.
LEMMA VisitOwnCells ==
    ASSUME OwnCells, NEW c, Visit(c)
    PROVE  OwnCells'
<1>1. CASE AddTypeName(c)
  BY <1>1, LinkedOwnCells, Zenon DEF AddTypeName, New
<1>2. CASE AddUnitScope(c)
  BY <1>2, LinkedOwnCells, Zenon DEF AddUnitScope, New
<1>3. CASE AddValueName(c) \/ ResolveInstantiation(c) \/ TransformMistaken(c) \/ PassOver(c)
  <2>1. UNCHANGED <<cell, node_ptr>>
    BY <1>3, Zenon DEF AddValueName, ResolveInstantiation, TransformMistaken, PassOver, Rejected, Mistaken
  <2> QED BY <2>1, SameOwnCells
<1>4. CASE ResolveId(c) \/ ResolveType(c)
  <2>1. UNCHANGED <<cell, node_ptr>> \/ \E n : Replace(c, n)
    BY <1>4, Zenon DEF ResolveId, ResolveType, Rejected, Mistaken
  <2> QED BY <2>1, SameOwnCells, ReplaceOwnCells
<1>5. CASE ResolveField(c)
  <2>1. \/ UNCHANGED <<cell, node_ptr>>
        \/ /\ cell' = [cell EXCEPT ![c] = Made(c)]
           /\ node_ptr' = [m \in DOMAIN node_ptr \cup {Made(c)} |->
                              IF m \in {cell[c], Made(c)} THEN None ELSE node_ptr[m]]
    BY <1>5, Zenon DEF ResolveField, Rejected, Mistaken
  <2> QED BY <2>1, SameOwnCells, FieldOwnCells
<1>6. CASE TransformItem(c)
  <2>1. \/ UNCHANGED <<cell, node_ptr>>
        \/ \E names : cell' = Linked(cell, names) /\ node_ptr' = Linked(node_ptr, names)
    BY <1>6, Zenon DEF TransformItem
  <2> QED BY <2>1, SameOwnCells, LinkedOwnCells
<1> QED BY <1>1, <1>2, <1>3, <1>4, <1>5, <1>6 DEF Visit

\* In every module, and at every point of the passes, Node::nodePtr() returns a
\* pointer to the node itself, or none.
THEOREM BackPointersCorrect == Spec => []BackPointers
<1>1. OwnCells /\ [Next]_vars => OwnCells'
  <2> SUFFICES ASSUME OwnCells, [Next]_vars PROVE OwnCells'
    OBVIOUS
  <2>1. CASE BeginPass \/ SkipVisited \/ Return \/ Instantiations \/ Done \/ UNCHANGED vars
    <3>1. UNCHANGED <<cell, node_ptr>>
      BY <2>1 DEF BeginPass, SkipVisited, Return, Instantiations, Done, vars
    <3> QED BY <3>1, SameOwnCells
  <2>2. CASE Visit(Arrived)
    BY <2>2, VisitOwnCells
  <2> QED BY <2>1, <2>2 DEF Next
<1>2. OwnCells => BackPointers
  BY DEF OwnCells, BackPointers
<1> QED BY <1>1, <1>2, InitOwnCells, PTL DEF Spec

--------------------------------------------------------------------------------
(***************************************************************************)
(* Everything a pass follows is there: TypeOK made inductive.              *)
(***************************************************************************)
Scoped == {"Unit", "Enum"} \cup ItemKinds

\* A node whose children and other pointers are cells of C; the visits rely on the
\* type of a TypeExpr and on the child of a declaration without looking.
NodeOK(r, C) ==
    /\ r = [kind |-> r.kind, id |-> r.id, kids |-> r.kids, type |-> r.type,
            serialized_type |-> r.serialized_type, transform_to |-> r.transform_to, unit |-> r.unit]
    /\ r.id \in Seq(STRING)
    /\ r.kids \in Seq(C)
    /\ r.type \in C \cup {None} /\ r.serialized_type \in C \cup {None}
    /\ r.transform_to \in C \cup {None} /\ r.unit \in C \cup {None}
    /\ r.kind = "TypeExpr" => r.type \in C
    /\ r.kind \in {"TypeDecl", "ValueDecl"} => r.kids # <<>>

\* A scope whose values are cells of C, and whose neighbours are scopes of S.
ScopeOK(s, C, S) ==
    /\ s = [values |-> s.values, children |-> s.children, parent |-> s.parent]
    /\ \A id \in DOMAIN s.values : s.values[id] \subseteq C
    /\ \A id \in DOMAIN s.children : s.children[id] \in S
    /\ s.parent \in S \cup {None}

\* The nodes h, cells c, node_ptrs np and scopes s.
Graph(h, c, np, s) ==
    /\ h = [n \in DOMAIN h |-> h[n]]
    /\ c \in [DOMAIN c -> DOMAIN h] /\ DOMAIN c \subseteq DOMAIN h
    /\ np = [n \in DOMAIN np |-> np[n]] /\ DOMAIN np = DOMAIN h
    /\ s = [t \in DOMAIN s |-> s[t]]
    /\ \A n \in DOMAIN h : NodeOK(h[n], DOMAIN c) /\ (h[n].kind \in Scoped => n \in DOMAIN s)
    /\ \A t \in DOMAIN s : ScopeOK(s[t], DOMAIN c, DOMAIN s)
    /\ Root \in DOMAIN c /\ Root \in DOMAIN s /\ h[Root].kind = "Module"

Frames(C) == [cell : C \cup {None}, kids : Seq(C), next : Nat \ {0}]

AstInv ==
    /\ program \in Seq(Declarations)
    /\ \A d \in 1..Len(program) : Decl(d) \in DOMAIN cell
    /\ Graph(heap, cell, node_ptr, scope)
    /\ stack \in Seq(Frames(DOMAIN cell))
    /\ pass \in 1..Len(Passes)
    /\ result \in {"running", "ok", "failed", "crash"}

\* A sequence of some is a sequence of more.
LEMMA MoreSeq == ASSUME NEW C, NEW D, C \subseteq D PROVE Seq(C) \subseteq Seq(D)
OBVIOUS

LEMMA MoreNodeOK ==
  ASSUME NEW r, NEW C, NEW D, C \subseteq D, NodeOK(r, C)
  PROVE  NodeOK(r, D)
<1>1. Seq(C) \subseteq Seq(D)
  BY MoreSeq
<1> QED BY <1>1, Zenon DEF NodeOK

LEMMA MoreScopeOK ==
  ASSUME NEW s, NEW C, NEW D, C \subseteq D, NEW S, NEW T, S \subseteq T, ScopeOK(s, C, S)
  PROVE  ScopeOK(s, D, T)
BY DEF ScopeOK

\* newNodePtr, of nodes of the names N, with changes to other nodes.
LEMMA GraphWithNodes ==
  ASSUME NEW h, NEW c, NEW np, NEW s, Graph(h, c, np, s), NEW g, NEW N,
         g = [x \in DOMAIN g |-> g[x]], DOMAIN g = DOMAIN h \cup N, g[Root].kind = "Module",
         \A x \in DOMAIN g : NodeOK(g[x], DOMAIN c \cup N) /\ (g[x].kind \in Scoped => x \in DOMAIN s)
  PROVE  Graph(g, Linked(c, N), Linked(np, N), s)
<1> DEFINE d == Linked(c, N)
           nq == Linked(np, N)
<1>1. /\ DOMAIN d = DOMAIN c \cup N /\ d \in [DOMAIN d -> DOMAIN g] /\ DOMAIN d \subseteq DOMAIN g
      /\ DOMAIN nq = DOMAIN g /\ nq = [x \in DOMAIN nq |-> nq[x]]
  BY DEF Graph, Linked
<1>2. \A t \in DOMAIN s : ScopeOK(s[t], DOMAIN d, DOMAIN s)
  <2>1. DOMAIN c \subseteq DOMAIN d
    BY <1>1
  <2> HIDE DEF d
  <2> QED BY <2>1, MoreScopeOK DEF Graph
<1> HIDE DEF d, nq
<1>3. Graph(g, d, nq, s)
  BY <1>1, <1>2, Zenon DEF Graph
<1> QED BY <1>3 DEF d, nq

\* node_ptr::replace
LEMMA GraphReplaced ==
  ASSUME NEW h, NEW c, NEW np, NEW s, Graph(h, c, np, s), NEW x, NEW n \in DOMAIN h, NEW m
  PROVE  Graph(h, [c EXCEPT ![x] = n], [np EXCEPT ![m] = None], s)
<1> DEFINE d == [c EXCEPT ![x] = n]
           nq == [np EXCEPT ![m] = None]
<1>1. /\ DOMAIN d = DOMAIN c /\ d \in [DOMAIN d -> DOMAIN h]
      /\ DOMAIN nq = DOMAIN np /\ nq = [y \in DOMAIN nq |-> nq[y]]
  BY Zenon DEF Graph
<1> HIDE DEF d, nq
<1>2. Graph(h, d, nq, s)
  BY <1>1 DEF Graph
<1> QED BY <1>2 DEF d, nq

\* A node that is changed but stays what it is.
LEMMA GraphWithNode ==
  ASSUME NEW h, NEW c, NEW np, NEW s, Graph(h, c, np, s),
         NEW x \in DOMAIN h, NEW r, NodeOK(r, DOMAIN c), r.kind = h[x].kind
  PROVE  Graph([h EXCEPT ![x] = r], c, np, s)
<1> DEFINE g == [h EXCEPT ![x] = r]
<1>1. /\ DOMAIN g = DOMAIN h /\ g = [y \in DOMAIN g |-> g[y]]
      /\ g[x] = r /\ \A y \in DOMAIN h : y # x => g[y] = h[y]
  BY DEF Graph
<1> HIDE DEF g
<1>2. \A y \in DOMAIN g : NodeOK(g[y], DOMAIN c) /\ (g[y].kind \in Scoped => y \in DOMAIN s)
  BY <1>1 DEF Graph
<1>3. Graph(g, c, np, s)
  BY <1>1, <1>2 DEF Graph
<1> QED BY <1>3 DEF g

\* Scopes that are changed.
LEMMA GraphWithScopes ==
  ASSUME NEW h, NEW c, NEW np, NEW s, Graph(h, c, np, s),
         NEW t, t = [x \in DOMAIN t |-> t[x]], DOMAIN t = DOMAIN s,
         \A x \in DOMAIN t : ScopeOK(t[x], DOMAIN c, DOMAIN s)
  PROVE  Graph(h, c, np, t)
BY DEF Graph

\* The field f that takes the place of an unknown one, with a scope of its own.
LEMMA GraphWithField ==
  ASSUME NEW h, NEW c, NEW np, NEW s, Graph(h, c, np, s), NEW x, NEW f, NEW m,
         NEW r, NodeOK(r, DOMAIN c), NEW u, ScopeOK(u, DOMAIN c, DOMAIN s)
  PROVE  Graph(Over(h, Only(f, r)), [c EXCEPT ![x] = f],
               [y \in DOMAIN np \cup {f} |-> IF y \in {m, f} THEN None ELSE np[y]], Over(s, Only(f, u)))
<1> DEFINE g == Over(h, Only(f, r))
           d == [c EXCEPT ![x] = f]
           nq == [y \in DOMAIN np \cup {f} |-> IF y \in {m, f} THEN None ELSE np[y]]
           t == Over(s, Only(f, u))
<1>1. /\ g = [y \in DOMAIN g |-> g[y]] /\ DOMAIN g = DOMAIN h \cup {f}
      /\ \A y \in DOMAIN h : g[y] = h[y]
      /\ f \notin DOMAIN h => g[f] = r
  BY DEF Graph, Over, Only
<1>2. /\ DOMAIN d = DOMAIN c /\ d \in [DOMAIN d -> DOMAIN g] /\ DOMAIN d \subseteq DOMAIN g
      /\ DOMAIN nq = DOMAIN g /\ nq = [y \in DOMAIN nq |-> nq[y]]
  <2> HIDE DEF g
  <2> QED BY <1>1, Zenon DEF Graph
<1>3. /\ t = [y \in DOMAIN t |-> t[y]] /\ DOMAIN t = DOMAIN s \cup {f}
      /\ \A y \in DOMAIN s : t[y] = s[y]
      /\ f \notin DOMAIN s => t[f] = u
  BY DEF Graph, Over, Only
<1> HIDE DEF g, d, nq, t
<1>4. \A y \in DOMAIN g : NodeOK(g[y], DOMAIN d) /\ (g[y].kind \in Scoped => y \in DOMAIN t)
  BY <1>1, <1>2, <1>3 DEF Graph
<1>5. \A y \in DOMAIN t : ScopeOK(t[y], DOMAIN d, DOMAIN t)
  <2>1. \A y \in DOMAIN t : ScopeOK(t[y], DOMAIN c, DOMAIN s)
    BY <1>3 DEF Graph
  <2>2. DOMAIN s \subseteq DOMAIN t /\ DOMAIN c \subseteq DOMAIN d
    BY <1>2, <1>3
  <2> QED BY <2>1, <2>2, MoreScopeOK
<1>6. Graph(g, d, nq, t)
  BY <1>1, <1>2, <1>3, <1>4, <1>5, Zenon DEF Graph
<1> QED BY <1>6 DEF g, d, nq, t

--------------------------------------------------------------------------------
(***************************************************************************)
(* Names are looked up among the scopes there are, and denote cells.       *)
(***************************************************************************)
\* A set of natural numbers has a least element.
LEMMA LeastNumber ==
  ASSUME NEW T \in SUBSET Nat, T # {}
  PROVE  \E x \in T : \A y \in T : x <= y
<1> DEFINE R == OpToRel(<, Nat)
<1>1. IsWellFoundedOn(R, Nat)
  BY NatLessThanWellFounded, Zenon
<1>2. \E x \in T : \A y \in T : ~ (<<y, x>> \in R)
  <2> HIDE DEF R
  <2> QED BY <1>1, WFMin, Zenon
<1>3. \A x, y \in Nat : <<y, x>> \in R <=> y < x
  BY DEF OpToRel
<1> HIDE DEF R
<1>4. PICK x \in T : \A y \in T : ~ (<<y, x>> \in R)
  BY <1>2
<1>5. \A y \in T : ~(y < x)
  BY <1>3, <1>4, Zenon
<1>6. \A y \in T : x <= y
  BY <1>5
<1> QED BY <1>6

\* A set that has 0, and n + 1 with every n, has them all.
LEMMA SetInduction ==
  ASSUME NEW S, 0 \in S, \A m \in Nat : m \in S => m + 1 \in S
  PROVE  Nat \subseteq S
<1> DEFINE T == Nat \ S
<1> SUFFICES ASSUME T # {} PROVE FALSE
  OBVIOUS
<1>1. PICK x \in T : \A y \in T : x <= y
  BY LeastNumber, Zenon
<1>2. x # 0 /\ x - 1 \in Nat /\ x - 1 \notin T
  BY <1>1
<1> QED BY <1>2

\* A set of numbers with a bound has a greatest element.
LEMMA GreatestNumber ==
  ASSUME NEW N \in Nat, NEW T \in SUBSET (1..N), T # {}
  PROVE  \E x \in T : \A y \in T : y <= x
<1> DEFINE U == {m \in Nat : \A y \in T : y <= m}
<1>1. N \in U
  OBVIOUS
<1>2. PICK x \in U : \A y \in U : x <= y
  <2> HIDE DEF U
  <2>1. U \in SUBSET Nat
    BY DEF U
  <2> QED BY <1>1, <2>1, LeastNumber, Zenon
<1>3. x \in T
  <2> SUFFICES ASSUME x \notin T PROVE FALSE
    OBVIOUS
  <2>1. \A y \in T : y <= x - 1
    BY <1>2
  <2>2. x - 1 \in Nat
    <3>1. PICK y \in T : y <= x - 1
      BY <2>1, Zenon
    <3>2. y \in Nat /\ y >= 1
      OBVIOUS
    <3> QED BY <1>2, <3>1, <3>2
  <2>3. x - 1 \in U
    BY <2>1, <2>2
  <2> QED BY <1>2, <2>3
<1> QED BY <1>2, <1>3

\* Scope::insert
LEMMA InsertedOK ==
  ASSUME NEW s, NEW C, NEW S, ScopeOK(s, C, S), NEW new, \A id \in DOMAIN new : new[id] \subseteq C
  PROVE  ScopeOK(InsertedAll(s, new), C, S)
         /\ InsertedAll(s, new).children = s.children /\ InsertedAll(s, new).parent = s.parent
<1> DEFINE vals == [id \in DOMAIN s.values \cup DOMAIN new |->
                      (IF id \in DOMAIN s.values THEN s.values[id] ELSE {})
                      \cup (IF id \in DOMAIN new THEN new[id] ELSE {})]
<1>1. \A id \in DOMAIN vals : vals[id] \subseteq C
  BY DEF ScopeOK
<1>2. InsertedAll(s, new) = [s EXCEPT !.values = vals]
  BY DEF InsertedAll
<1> HIDE DEF vals
<1>3. InsertedAll(s, new) = [values |-> vals, children |-> s.children, parent |-> s.parent]
  BY <1>2 DEF ScopeOK
<1> QED BY <1>1, <1>3 DEF ScopeOK

\* Scope::find
LEMMA FindOK ==
  ASSUME Graph(heap, cell, node_ptr, scope), NEW s \in DOMAIN scope, NEW id \in Seq(STRING)
  PROVE  Find(s, id) \subseteq DOMAIN cell
<1> DEFINE prefixes == {j \in 1..Len(id) : SubSeq(id, 1, j) \in DOMAIN scope[s].children}
           longest == CHOOSE j \in prefixes : \A k \in prefixes : k <= j
           rest == SubSeq(id, longest + 1, Len(id))
           child == scope[scope[s].children[SubSeq(id, 1, longest)]]
<1>1. \A t \in DOMAIN scope : \A x \in DOMAIN scope[t].values : scope[t].values[x] \subseteq DOMAIN cell
  BY DEF Graph, ScopeOK
<1>2. ASSUME prefixes # {} PROVE scope[s].children[SubSeq(id, 1, longest)] \in DOMAIN scope
  <2>1. Len(id) \in Nat /\ prefixes \in SUBSET (1..Len(id))
    BY LenProperties
  <2>2. \E j \in prefixes : \A k \in prefixes : k <= j
    <3> HIDE DEF prefixes
    <3> QED BY <1>2, <2>1, GreatestNumber, Zenon
  <2>3. longest \in prefixes
    <3> HIDE DEF prefixes
    <3> QED BY <2>2, Zenon
  <2>4. SubSeq(id, 1, longest) \in DOMAIN scope[s].children
    <3> HIDE DEF longest
    <3> QED BY <2>3
  <2> HIDE DEF longest
  <2> QED BY <2>4 DEF Graph, ScopeOK
<1>3. FindPath(s, id) \subseteq DOMAIN cell
  <2>1. FindPath(s, id) =
          IF Len(id) = 1 /\ id \in DOMAIN scope[s].values THEN scope[s].values[id]
          ELSE IF prefixes = {} THEN {}
          ELSE IF Len(rest) = 1 /\ rest \in DOMAIN child.values THEN child.values[rest] ELSE {}
    BY Zenon DEF FindPath
  <2>2. prefixes # {} => \A x \in DOMAIN child.values : child.values[x] \subseteq DOMAIN cell
    <3> HIDE DEF prefixes, longest
    <3> QED BY <1>1, <1>2
  <2> HIDE DEF prefixes, longest, rest, child
  <2> QED BY <1>1, <2>1, <2>2
<1> QED BY <1>1, <1>3 DEF Find

\* Scope::lookup
LEMMA LookupOK ==
  ASSUME Graph(heap, cell, node_ptr, scope), NEW s \in DOMAIN scope, NEW id \in Seq(STRING)
  PROVE  Lookup(s, id) \subseteq DOMAIN cell
<1> DEFINE up(t) == IF t = None THEN None ELSE scope[t].parent
           at(t) == IF t = None THEN {} ELSE Find(t, id)
           S == DOMAIN scope \cup {None}
<1>1. ASSUME NEW t \in S PROVE up(t) \in S /\ at(t) \subseteq DOMAIN cell
  <2>1. CASE t = None
    BY <2>1
  <2>2. CASE t # None
    <3>1. t \in DOMAIN scope
      BY <2>2
    <3>2. scope[t].parent \in S
      BY <3>1 DEF Graph, ScopeOK
    <3>3. Find(t, id) \subseteq DOMAIN cell
      BY <3>1, FindOK
    <3> QED BY <2>2, <3>2, <3>3
  <2> QED BY <2>1, <2>2
<1>2. Lookup(s, id) = IF at(s) # {} THEN at(s) ELSE IF at(up(s)) # {} THEN at(up(s)) ELSE at(up(up(s)))
  BY Zenon DEF Lookup
<1>3. s \in S
  OBVIOUS
<1> HIDE DEF up, at, S
<1>4. up(s) \in S /\ up(up(s)) \in S
  BY <1>1, <1>3
<1> QED BY <1>1, <1>2, <1>3, <1>4

\* The scope that IdResolver starts from is there.
LEMMA NearestOK ==
  ASSUME Graph(heap, cell, node_ptr, scope), stack \in Seq(Frames(DOMAIN cell))
  PROVE  NearestScope \in DOMAIN scope
<1> DEFINE inner == {k \in 1..Len(stack) : stack[k].cell # None
                        /\ heap[cell[stack[k].cell]].kind \in {"Unit"} \cup ItemKinds}
           k0 == CHOOSE k \in inner : \A j \in inner : j <= k
<1>1. NearestScope = IF inner = {} THEN Root ELSE cell[stack[k0].cell]
  BY Zenon DEF NearestScope
<1>2. ASSUME inner # {} PROVE cell[stack[k0].cell] \in DOMAIN scope
  <2>1. Len(stack) \in Nat /\ inner \in SUBSET (1..Len(stack))
    BY LenProperties
  <2>2. \E k \in inner : \A j \in inner : j <= k
    <3> HIDE DEF inner
    <3> QED BY <1>2, <2>1, GreatestNumber, Zenon
  <2>3. k0 \in inner
    <3> HIDE DEF inner
    <3> QED BY <2>2, Zenon
  <2> HIDE DEF k0
  <2>4. k0 \in 1..Len(stack) /\ stack[k0].cell # None
        /\ heap[cell[stack[k0].cell]].kind \in {"Unit"} \cup ItemKinds
    BY <2>3
  <2>5. stack[k0] \in Frames(DOMAIN cell)
    BY <2>4, ElementOfSeq
  <2>6. stack[k0].cell \in DOMAIN cell
    BY <2>4, <2>5 DEF Frames
  <2>7. cell[stack[k0].cell] \in DOMAIN heap
    BY <2>6 DEF Graph
  <2> QED BY <2>4, <2>7 DEF Graph, Scoped
<1> HIDE DEF inner, k0
<1> QED BY <1>1, <1>2 DEF Graph

\* IdResolver::visit(expression::ID)
LEMMA IdValuesOK ==
  ASSUME Graph(heap, cell, node_ptr, scope), stack \in Seq(Frames(DOMAIN cell)), NEW id \in Seq(STRING)
  PROVE  IdValues(id) \subseteq DOMAIN cell
<1>1. Len(id) > 1 => Tail(id) \in Seq(STRING)
  BY HeadTailProperties, EmptySeq
<1> QED BY <1>1, NearestOK, LookupOK, Zenon DEF IdValues

\* Node::removeChild leaves some of the children.
LEMMA RemovedOK ==
  ASSUME NEW C, NEW kids \in Seq(C), NEW t
  PROVE  Removed(kids, t) \in Seq(C)
<1> DEFINE L == Len(kids)
           step(k, v) == IF t # None /\ cell[kids[k]] = cell[t] THEN v ELSE Append(v, kids[k])
           F(f) == [k \in 0..L |-> IF k = 0 THEN <<>> ELSE step(k, f[k-1])]
           E(m, f) == /\ f = [k \in 0..m |-> f[k]] /\ f[0] = <<>>
                      /\ \A k \in 1..m : f[k] = step(k, f[k-1])
           S == {m \in Nat : \E f : E(m, f)}
<1>0. L \in Nat /\ \A k \in 1..L : kids[k] \in C
  BY LenProperties, ElementOfSeq
<1>1. 0 \in S
  <2>1. E(0, [k \in 0..0 |-> <<>>])
    OBVIOUS
  <2> QED BY <2>1, Zenon
<1>a. \A k \in 1..L : \A v \in Seq(C) : step(k, v) \in Seq(C)
  BY <1>0
<1> HIDE DEF step
<1>2. ASSUME NEW m \in Nat, m \in S PROVE m + 1 \in S
  <2>1. PICK f : E(m, f)
    BY <1>2, Zenon
  <2> DEFINE g == [k \in 0..(m+1) |-> IF k = m + 1 THEN step(m+1, f[m]) ELSE f[k]]
  <2>2. g = [k \in 0..(m+1) |-> g[k]] /\ g[0] = <<>>
    BY <2>1
  <2>3. ASSUME NEW k \in 1..(m+1) PROVE g[k] = step(k, g[k-1])
    <3>1. CASE k = m + 1
      <4>1. m \in 0..(m+1) /\ m + 1 \in 0..(m+1) /\ m # m + 1 /\ k - 1 = m
        BY <3>1
      <4>2. g[m+1] = step(m+1, f[m]) /\ g[m] = f[m]
        BY <4>1, Zenon
      <4> HIDE DEF g
      <4> QED BY <3>1, <4>1, <4>2
    <3>2. CASE k # m + 1
      <4>1. k \in 1..m /\ k \in 0..(m+1) /\ k - 1 \in 0..(m+1) /\ k - 1 # m + 1
        BY <3>2
      <4>2. g[k] = f[k] /\ g[k-1] = f[k-1]
        BY <4>1, <3>2
      <4> HIDE DEF g
      <4> QED BY <2>1, <4>1, <4>2, Zenon
    <3> QED BY <3>1, <3>2
  <2>4. E(m + 1, g)
    <3> HIDE DEF g
    <3> QED BY <2>2, <2>3, Zenon
  <2> HIDE DEF E
  <2> QED BY <2>4
<1>3. L \in S
  <2> HIDE DEF S
  <2> QED BY <1>0, <1>1, <1>2, SetInduction
<1>4. PICK f : E(L, f)
  BY <1>3, Zenon
<1>5. f = F(f)
  <2>1. ASSUME NEW k \in 0..L PROVE f[k] = IF k = 0 THEN <<>> ELSE step(k, f[k-1])
    <3>1. k # 0 => k \in 1..L
      BY <1>0
    <3> QED BY <1>4, <3>1
  <2>2. [k \in 0..L |-> f[k]] = F(f)
    BY <2>1
  <2> QED BY <1>4, <2>2, Zenon
<1> DEFINE upto == CHOOSE g : g = F(g)
<1>6. upto = F(upto)
  <2> HIDE DEF F
  <2> QED BY <1>5
<1>7. Removed(kids, t) = upto[L]
  BY DEF Removed, step
<1> HIDE DEF upto
<1>8. ASSUME NEW k \in 0..L PROVE upto[k] = IF k = 0 THEN <<>> ELSE step(k, upto[k-1])
  <2>1. F(upto)[k] = IF k = 0 THEN <<>> ELSE step(k, upto[k-1])
    OBVIOUS
  <2> HIDE DEF F
  <2> QED BY <1>6, <2>1
<1> DEFINE P == {m \in Nat : m <= L => upto[m] \in Seq(C)}
<1>9. 0 \in P
  <2>1. upto[0] = <<>>
    BY <1>0, <1>8
  <2>2. upto[0] \in Seq(C)
    BY <2>1
  <2> HIDE DEF L
  <2> QED BY <2>2
<1>10. ASSUME NEW m \in Nat, m \in P PROVE m + 1 \in P
  <2> SUFFICES ASSUME m + 1 <= L PROVE upto[m + 1] \in Seq(C)
    OBVIOUS
  <2>1. upto[m] \in Seq(C) /\ m + 1 \in 0..L /\ m + 1 \in 1..L /\ m + 1 # 0 /\ (m + 1) - 1 = m
    BY <1>0, <1>10
  <2>2. upto[m + 1] = step(m + 1, upto[m])
    BY <1>8, <2>1
  <2> QED BY <1>a, <2>1, <2>2
<1>11. L \in P
  <2> HIDE DEF P
  <2> QED BY <1>0, <1>9, <1>10, SetInduction
<1> QED BY <1>0, <1>7, <1>11

--------------------------------------------------------------------------------
(***************************************************************************)
(* The visitor.                                                            *)
(***************************************************************************)
\* The node that is visited next is there, and so is what it points to.
LEMMA ArrivedOK ==
  ASSUME AstInv, Arriving
  PROVE  Arrived \in DOMAIN cell /\ cell[Arrived] \in DOMAIN heap
         /\ NodeOK(heap[cell[Arrived]], DOMAIN cell)
<1>1. stack \in Seq(Frames(DOMAIN cell)) /\ stack # <<>> /\ Top.next <= Len(Top.kids)
  BY DEF AstInv, Arriving
<1>2. Len(stack) \in Nat /\ Len(stack) \in 1..Len(stack)
  BY <1>1, LenProperties, EmptySeq
<1>3. Top \in Frames(DOMAIN cell)
  BY <1>1, <1>2, ElementOfSeq DEF Top
<1>4. Top.kids \in Seq(DOMAIN cell) /\ Top.next \in 1..Len(Top.kids)
  BY <1>1, <1>3, LenProperties DEF Frames
<1>5. Arrived \in DOMAIN cell
  BY <1>4, ElementOfSeq DEF Arrived
<1>6. Graph(heap, cell, node_ptr, scope)
  BY DEF AstInv
<1> QED BY <1>5, <1>6 DEF Graph

\* The loop over the children of a node goes on to the next of them.
LEMMA AdvancedOK ==
  ASSUME NEW C, stack \in Seq(Frames(C)), stack # <<>>
  PROVE  Advanced \in Seq(Frames(C))
<1> DEFINE L == Len(stack)
           top == [stack[L] EXCEPT !.next = @ + 1]
<1>1. L \in Nat /\ L \in 1..L /\ \A k \in 1..L : stack[k] \in Frames(C)
  BY LenProperties, ElementOfSeq, EmptySeq
<1>2. top \in Frames(C)
  <2>1. ASSUME NEW e \in Frames(C) PROVE [e EXCEPT !.next = @ + 1] \in Frames(C)
    <3>1. e.cell \in C \cup {None} /\ e.kids \in Seq(C) /\ e.next + 1 \in Nat \ {0}
      BY DEF Frames
    <3> DEFINE v == e.next + 1
    <3> HIDE DEF v
    <3>2. [e EXCEPT !.next = v] = [cell |-> e.cell, kids |-> e.kids, next |-> v]
      BY DEF Frames
    <3>3. [e EXCEPT !.next = v] \in Frames(C)
      BY <3>1, <3>2 DEF Frames, v
    <3> QED BY <3>3 DEF v
  <2> QED BY <1>1, <2>1, Zenon
<1>3. Advanced = [stack EXCEPT ![L] = top]
  BY DEF Advanced
<1> HIDE DEF top
<1>4. [stack EXCEPT ![L] = top] \in Seq(Frames(C))
  BY <1>1, <1>2, ExceptSeq
<1> QED BY <1>3, <1>4

\* Frames of some cells are frames of more.
LEMMA MoreFrames == ASSUME NEW C, NEW D, C \subseteq D PROVE Seq(Frames(C)) \subseteq Seq(Frames(D))
<1>1. Seq(C) \subseteq Seq(D)
  BY MoreSeq
<1>2. Frames(C) \subseteq Frames(D)
  BY <1>1 DEF Frames
<1> HIDE DEF Frames
<1> QED BY <1>2, MoreSeq

\* A visit that leaves the graph in order, and then goes down.
LEMMA DescendOK ==
  ASSUME AstInv, Arriving, NEW c, c = Arrived,
         Graph(heap, cell, node_ptr, scope)', DOMAIN cell \subseteq DOMAIN cell', Descend(c)
  PROVE  AstInv'
<1>1. /\ stack' = Append(Advanced, [cell |-> c, kids |-> heap'[cell'[c]].kids, next |-> 1])
      /\ program' = program /\ pass' = pass /\ result' = result
  BY DEF Descend
<1>2. c \in DOMAIN cell' /\ heap'[cell'[c]].kids \in Seq(DOMAIN cell')
  <2>1. c \in DOMAIN cell'
    BY ArrivedOK
  <2> QED BY <2>1 DEF Graph, NodeOK
<1>3. Advanced \in Seq(Frames(DOMAIN cell'))
  <2>1. Advanced \in Seq(Frames(DOMAIN cell))
    BY AdvancedOK DEF AstInv, Arriving
  <2> QED BY <2>1, MoreFrames
<1>4. [cell |-> c, kids |-> heap'[cell'[c]].kids, next |-> 1] \in Frames(DOMAIN cell')
  BY <1>2 DEF Frames
<1>5. stack' \in Seq(Frames(DOMAIN cell'))
  BY <1>1, <1>3, <1>4, AppendProperties
<1> QED BY <1>1, <1>5 DEF AstInv

--------------------------------------------------------------------------------
(***************************************************************************)
(* The visits of ScopeBuilder and UnitScopeBuilder.                        *)
(***************************************************************************)
\* A node the visits make, with a type t or none.
LEMMA NewNodeOK ==
  ASSUME NEW C, NEW kind, kind \notin {"TypeExpr", "TypeDecl", "ValueDecl"},
         NEW id \in Seq(STRING), NEW kids \in Seq(C)
  PROVE  NodeOK(Node(kind, id, kids), C) /\ Node(kind, id, kids).kind = kind
BY DEF NodeOK, Node

LEMMA NewTypeExprOK ==
  ASSUME NEW C, NEW t \in C
  PROVE  NodeOK([Node("TypeExpr", None, <<t>>) EXCEPT !.type = t], C)
         /\ [Node("TypeExpr", None, <<t>>) EXCEPT !.type = t].kind = "TypeExpr"
<1> DEFINE k == <<t>>
<1>1. k \in Seq(C) /\ None \in Seq(STRING)
  BY DEF None
<1> HIDE DEF k
<1>2. NodeOK([Node("TypeExpr", None, k) EXCEPT !.type = t], C)
      /\ [Node("TypeExpr", None, k) EXCEPT !.type = t].kind = "TypeExpr"
  BY <1>1 DEF NodeOK, Node
<1> QED BY <1>2 DEF k

\* Scope::addChild, and a scope that gets a parent.
LEMMA ChildOK ==
  ASSUME NEW s, NEW C, NEW S, ScopeOK(s, C, S), NEW id, NEW x \in S
  PROVE  ScopeOK([s EXCEPT !.children = Over(@, Only(id, x))], C, S)
<1> DEFINE ch == Over(s.children, Only(id, x))
<1>1. \A y \in DOMAIN ch : ch[y] \in S
  BY DEF Over, Only, ScopeOK
<1> HIDE DEF ch
<1>2. [s EXCEPT !.children = ch] = [values |-> s.values, children |-> ch, parent |-> s.parent]
  BY DEF ScopeOK
<1>3. ScopeOK([s EXCEPT !.children = ch], C, S)
  BY <1>1, <1>2 DEF ScopeOK
<1> QED BY <1>3 DEF ch

LEMMA ParentOK ==
  ASSUME NEW s, NEW C, NEW S, ScopeOK(s, C, S), NEW x \in S \cup {None}
  PROVE  ScopeOK([s EXCEPT !.parent = x], C, S)
<1>1. [s EXCEPT !.parent = x] = [values |-> s.values, children |-> s.children, parent |-> x]
  BY DEF ScopeOK
<1> QED BY <1>1 DEF ScopeOK

\* What New makes of the graph.
LEMMA NewOK ==
  ASSUME Graph(heap, cell, node_ptr, scope), NEW nodes, nodes = [x \in DOMAIN nodes |-> nodes[x]],
         \A x \in DOMAIN nodes : NodeOK(nodes[x], DOMAIN cell \cup DOMAIN nodes) /\ nodes[x].kind \notin Scoped,
         Root \notin DOMAIN nodes, New(nodes)
  PROVE  /\ Graph(heap', cell', node_ptr', scope)
         /\ DOMAIN cell' = DOMAIN cell \cup DOMAIN nodes
<1> DEFINE g == Over(nodes, heap)
           N == DOMAIN nodes
<1>1. /\ g = [x \in DOMAIN g |-> g[x]] /\ DOMAIN g = DOMAIN heap \cup N
      /\ \A x \in DOMAIN g : g[x] = IF x \in N THEN nodes[x] ELSE heap[x]
  BY DEF Over
<1> HIDE DEF g
<1>2. ASSUME NEW x \in DOMAIN g
      PROVE  NodeOK(g[x], DOMAIN cell \cup N) /\ (g[x].kind \in Scoped => x \in DOMAIN scope)
  <2>1. CASE x \in N
    BY <1>1, <2>1, Zenon
  <2>2. CASE x \notin N
    <3>1. x \in DOMAIN heap /\ g[x] = heap[x]
      BY <1>1, <2>2
    <3>2. NodeOK(heap[x], DOMAIN cell) /\ (heap[x].kind \in Scoped => x \in DOMAIN scope)
      BY <3>1 DEF Graph
    <3> QED BY <3>1, <3>2, MoreNodeOK
  <2> QED BY <2>1, <2>2
<1>0. g[Root].kind = "Module"
  BY <1>1 DEF Graph
<1> HIDE DEF N
<1>3. Graph(g, Linked(cell, N), Linked(node_ptr, N), scope)
  BY <1>0, <1>1, <1>2, GraphWithNodes, Zenon
<1>4. heap' = g /\ cell' = Linked(cell, N) /\ node_ptr' = Linked(node_ptr, N)
  BY DEF New, g, N
<1>5. DOMAIN cell' = DOMAIN cell \cup N
  BY <1>4 DEF Linked
<1> QED BY <1>3, <1>4, <1>5 DEF N

\* The child of a declaration is there.
LEMMA DeclaredOK ==
  ASSUME NEW C, NEW n, NodeOK(n, C), n.kind \in {"TypeDecl", "ValueDecl"}
  PROVE  n.kids[1] \in C
<1>1. n.kids \in Seq(C) /\ n.kids # <<>>
  BY DEF NodeOK
<1>2. 1 \in 1..Len(n.kids)
  BY <1>1, EmptySeq
<1> QED BY <1>1, <1>2, ElementOfSeq

\* ScopeBuilder::visit(declaration::Type)
LEMMA AddTypeNameOK ==
  ASSUME AstInv, Arriving, NEW c, c = Arrived, AddTypeName(c)
  PROVE  AstInv'
<1> DEFINE n == heap[cell[c]]
           t == n.kids[1]
           r == [Node("TypeExpr", None, <<t>>) EXCEPT !.type = t]
           x == TypeExpr(c[1])
           nodes == Only(x, r)
           inserted == Inserted(scope[Root], n.id, x)
           family == [inserted EXCEPT !.children = Over(@, Only(n.id, cell[t]))]
           C == DOMAIN cell
           S == DOMAIN scope
<1>0. n.kind = "TypeDecl" /\ New(nodes) /\ Descend(c)
      /\ scope' = IF heap[cell[t]].kind = "Enum"
                  THEN [scope EXCEPT ![Root] = family, ![cell[t]].parent = Root]
                  ELSE [scope EXCEPT ![Root] = inserted]
  BY Zenon DEF AddTypeName
<1>1. Graph(heap, cell, node_ptr, scope) /\ NodeOK(n, C)
  BY ArrivedOK, Zenon DEF AstInv
<1>2. t \in C
  BY <1>0, <1>1, DeclaredOK, Zenon
<1> HIDE DEF n, t
<1>3. NodeOK(r, C) /\ r.kind = "TypeExpr"
  BY <1>2, NewTypeExprOK
<1>13. x # Root
  BY DEF TypeExpr, Root
<1> HIDE DEF r, x
<1>4. nodes = [y \in DOMAIN nodes |-> nodes[y]] /\ DOMAIN nodes = {x} /\ nodes[x] = r
  BY DEF Only
<1> HIDE DEF nodes, C
<1>5. \A y \in DOMAIN nodes : NodeOK(nodes[y], C \cup DOMAIN nodes) /\ nodes[y].kind \notin Scoped
  <2>1. NodeOK(r, C \cup {x})
    BY <1>3, MoreNodeOK
  <2> QED BY <1>3, <1>4, <2>1 DEF Scoped, ItemKinds
<1>6. Graph(heap', cell', node_ptr', scope) /\ DOMAIN cell' = C \cup {x}
  BY <1>0, <1>1, <1>4, <1>5, <1>13, NewOK DEF C
<1> DEFINE D == DOMAIN cell'
<1>7. \A s \in S : ScopeOK(scope[s], D, S)
  BY <1>6, Zenon DEF Graph
<1>8. Root \in S /\ scope = [s \in S |-> scope[s]] /\ x \in D
  BY <1>1, <1>6 DEF Graph
<1> HIDE DEF D
<1>9. ScopeOK(inserted, D, S)
  <2>1. \A id \in DOMAIN Only(n.id, {x}) : Only(n.id, {x})[id] \subseteq D
    BY <1>8 DEF Only
  <2> QED BY <1>7, <1>8, <2>1, InsertedOK DEF Inserted
<1> HIDE DEF inserted
<1>10. scope' = [s \in DOMAIN scope' |-> scope'[s]] /\ DOMAIN scope' = S /\ \A s \in S : ScopeOK(scope'[s], D, S)
  <2>1. CASE heap[cell[t]].kind = "Enum"
    <3>1. cell[t] \in S
      <4>1. cell[t] \in DOMAIN heap
        BY <1>1, <1>2 DEF Graph, C
      <4> QED BY <1>1, <2>1, <4>1 DEF Graph, Scoped
    <3>2. ScopeOK(family, D, S)
      BY <1>9, <3>1, ChildOK
    <3> HIDE DEF family
    <3> DEFINE f == [scope EXCEPT ![Root] = family]
    <3>3. f = [s \in S |-> f[s]] /\ DOMAIN f = S /\ \A s \in S : ScopeOK(f[s], D, S)
      BY <1>7, <1>8, <3>2
    <3>4. scope' = [f EXCEPT ![cell[t]] = [f[cell[t]] EXCEPT !.parent = Root]]
      BY <1>0, <2>1
    <3> HIDE DEF f
    <3>5. ScopeOK([f[cell[t]] EXCEPT !.parent = Root], D, S)
      BY <1>8, <3>1, <3>3, ParentOK
    <3> DEFINE e == [f[cell[t]] EXCEPT !.parent = Root]
    <3> HIDE DEF e
    <3>6. scope' = [f EXCEPT ![cell[t]] = e] /\ ScopeOK(e, D, S)
      BY <3>4, <3>5 DEF e
    <3> QED BY <3>3, <3>6
  <2>2. CASE heap[cell[t]].kind # "Enum"
    BY <1>0, <1>7, <1>8, <1>9, <2>2, Zenon
  <2> QED BY <2>1, <2>2
<1>11. Graph(heap', cell', node_ptr', scope')
  <2> HIDE DEF S
  <2>1. Graph(heap', cell', node_ptr', scope) /\ S = DOMAIN scope
    BY <1>6 DEF S
  <2> QED BY <1>10, <2>1, GraphWithScopes DEF D
<1>12. C \subseteq DOMAIN cell'
  BY <1>6
<1> QED BY <1>0, <1>11, <1>12, DescendOK, Zenon DEF C

\* ScopeBuilder::visit(Constant), visit(Function), visit(Transform)
LEMMA AddValueNameOK ==
  ASSUME AstInv, Arriving, NEW c, c = Arrived, AddValueName(c)
  PROVE  AstInv'
<1> DEFINE n == heap[cell[c]]
           v == n.kids[1]
           C == DOMAIN cell
           S == DOMAIN scope
           inserted == Inserted(scope[Root], n.id, v)
<1>0. /\ n.kind = "ValueDecl" /\ Descend(c) /\ scope' = [scope EXCEPT ![Root] = inserted]
      /\ heap' = heap /\ cell' = cell /\ node_ptr' = node_ptr
  BY Zenon DEF AddValueName
<1>1. Graph(heap, cell, node_ptr, scope) /\ NodeOK(n, C)
  BY ArrivedOK, Zenon DEF AstInv
<1>2. v \in C
  BY <1>0, <1>1, DeclaredOK
<1> HIDE DEF n, v
<1>3. Root \in S /\ scope = [s \in S |-> scope[s]] /\ \A s \in S : ScopeOK(scope[s], C, S)
  BY <1>1 DEF Graph
<1>4. ScopeOK(inserted, C, S)
  <2>1. \A id \in DOMAIN Only(n.id, {v}) : Only(n.id, {v})[id] \subseteq C
    BY <1>2 DEF Only
  <2> QED BY <1>3, <2>1, InsertedOK DEF Inserted
<1> HIDE DEF inserted
<1>5. scope' = [s \in DOMAIN scope' |-> scope'[s]] /\ DOMAIN scope' = S /\ \A s \in S : ScopeOK(scope'[s], C, S)
  BY <1>0, <1>3, <1>4, Zenon
<1>6. Graph(heap', cell', node_ptr', scope')
  <2>1. Graph(heap, cell, node_ptr, scope')
    BY <1>1, <1>5, GraphWithScopes
  <2> QED BY <1>0, <2>1
<1> QED BY <1>0, <1>6, DescendOK, Zenon

\* UnitScopeBuilder::visit(declaration::Type)
LEMMA AddUnitScopeOK ==
  ASSUME AstInv, Arriving, NEW c, c = Arrived, AddUnitScope(c)
  PROVE  AstInv'
<1> DEFINE n == heap[cell[c]]
           t == n.kids[1]
           u == cell[t]
           params == program[u[1]].of.params
           K == 1..Len(params)
           items == {cell[i] : i \in {heap[u].kids[k] : k \in 1..Len(heap[u].kids)}}
           state(type) == Node("ParserState", None, <<t>> \o type)
           self == SelfExpr(c[1])
           dollar(i) == DollarDollar(c[1], i[2])
           mine(id) == {Param(c[1], k) : k \in {j \in K : id = <<params[j]>>}}
           names == [id \in {<<"self">>} \cup {<<params[k]>> : k \in K} |->
                       (IF id = <<"self">> THEN {self} ELSE {}) \cup mine(id)]
           chosen(x) == CHOOSE i \in items : dollar(i) = x
           typed(i) == IF heap[i].type = None THEN <<>> ELSE <<heap[i].type>>
           ofParams == [x \in {Param(c[1], k) : k \in K} |-> state(<<>>)]
           ofItems == [x \in {dollar(i) : i \in items} |-> state(typed(chosen(x)))]
           nodes == Over(Only(self, state(<<t>>)), Over(ofParams, ofItems))
           C == DOMAIN cell
           S == DOMAIN scope
<1>0. /\ n.kind = "TypeDecl" /\ heap[u].kind = "Unit" /\ New(nodes) /\ Descend(c)
      /\ scope' = [s \in S |->
                      IF s = u THEN [InsertedAll(scope[u], names) EXCEPT !.parent = Root]
                      ELSE IF s \in items
                      THEN [Inserted(scope[s], <<"$$">>, dollar(s)) EXCEPT !.parent = u]
                      ELSE scope[s]]
  BY Zenon DEF AddUnitScope
<1>1. Graph(heap, cell, node_ptr, scope) /\ NodeOK(n, C)
  BY ArrivedOK, Zenon DEF AstInv
<1>2. t \in C
  BY <1>0, <1>1, DeclaredOK, Zenon
<1> HIDE DEF n, t
<1>3. u \in DOMAIN heap /\ NodeOK(heap[u], C) /\ u \in S
  <2>1. u \in DOMAIN heap
    BY <1>1, <1>2 DEF Graph
  <2> QED BY <1>0, <1>1, <2>1, Zenon DEF Graph, Scoped
<1>4. \A i \in items : i \in DOMAIN heap
  <2>1. heap[u].kids \in Seq(C)
    BY <1>3 DEF NodeOK
  <2>2. \A k \in 1..Len(heap[u].kids) : heap[u].kids[k] \in C
    BY <2>1, ElementOfSeq
  <2> QED BY <1>1, <2>2 DEF Graph
<1> HIDE DEF u, items, params
<1>5. ASSUME NEW type \in Seq(C) PROVE NodeOK(state(type), C) /\ state(type).kind \notin Scoped
  <2>1. <<t>> \in Seq(C) /\ None \in Seq(STRING)
    BY <1>2 DEF None
  <2>2. <<t>> \o type \in Seq(C)
    BY <2>1, ConcatProperties
  <2> DEFINE kids == <<t>> \o type
  <2> HIDE DEF kids
  <2>3. NodeOK(Node("ParserState", None, kids), C) /\ Node("ParserState", None, kids).kind = "ParserState"
    BY <2>1, <2>2, NewNodeOK, Zenon DEF kids
  <2>4. "ParserState" \notin Scoped
    BY DEF Scoped, ItemKinds
  <2> QED BY <2>3, <2>4 DEF kids
<1> HIDE DEF state
<1>6. ASSUME NEW i \in items PROVE typed(i) \in Seq(C)
  <2>1. NodeOK(heap[i], C)
    BY <1>1, <1>4, <1>6 DEF Graph
  <2> DEFINE y == heap[i].type
  <2>2. y \in C \cup {None}
    BY <2>1 DEF NodeOK
  <2> HIDE DEF y
  <2>3. (IF y = None THEN <<>> ELSE <<y>>) \in Seq(C)
    <3>1. <<>> \in Seq(C)
      BY EmptySeq
    <3>2. y # None => <<y>> \in Seq(C)
      <4> SUFFICES ASSUME y \in C PROVE <<y>> \in Seq(C)
        BY <2>2
      <4> HIDE DEF C
      <4> QED OBVIOUS
    <3> QED BY <3>1, <3>2, Zenon
  <2> QED BY <2>3 DEF y
<1> HIDE DEF typed
<1>7. ASSUME NEW x \in {dollar(i) : i \in items} PROVE chosen(x) \in items
  <2>1. \E i \in items : dollar(i) = x
    BY <1>7
  <2> HIDE DEF dollar
  <2> QED BY <2>1, Zenon
<1> HIDE DEF chosen, self
<1>8. /\ nodes = [x \in DOMAIN nodes |-> nodes[x]]
      /\ DOMAIN nodes = {self} \cup DOMAIN ofParams \cup DOMAIN ofItems
      /\ \A x \in DOMAIN nodes : \/ nodes[x] = state(<<t>>)
                                 \/ x \in DOMAIN ofParams /\ nodes[x] = ofParams[x]
                                 \/ x \in DOMAIN ofItems /\ nodes[x] = ofItems[x]
  <2> HIDE DEF ofParams, ofItems
  <2> QED BY DEF Over, Only
<1>9. /\ DOMAIN ofParams = {Param(c[1], k) : k \in K} /\ \A x \in DOMAIN ofParams : ofParams[x] = state(<<>>)
      /\ DOMAIN ofItems = {dollar(i) : i \in items}
      /\ \A x \in DOMAIN ofItems : ofItems[x] = state(typed(chosen(x)))
  OBVIOUS
<1>18. self # Root /\ (\A i : dollar(i) # Root) /\ \A k : Param(c[1], k) # Root
  BY DEF self, SelfExpr, DollarDollar, Param, Root
<1> HIDE DEF ofParams, ofItems, nodes, dollar
<1>19. Root \notin DOMAIN nodes
  BY <1>8, <1>9, <1>18
<1>10. ASSUME NEW x \in DOMAIN nodes
       PROVE  NodeOK(nodes[x], C \cup DOMAIN nodes) /\ nodes[x].kind \notin Scoped
  <2>1. <<>> \in Seq(C) /\ <<t>> \in Seq(C)
    BY <1>2
  <2>2. NodeOK(nodes[x], C) /\ nodes[x].kind \notin Scoped
    <3>1. CASE nodes[x] = state(<<t>>)
      BY <1>5, <2>1, <3>1, Zenon
    <3>2. CASE x \in DOMAIN ofParams /\ nodes[x] = ofParams[x]
      BY <1>5, <1>9, <2>1, <3>2, Zenon
    <3>3. CASE x \in DOMAIN ofItems /\ nodes[x] = ofItems[x]
      BY <1>5, <1>6, <1>7, <1>9, <3>3
    <3> QED BY <1>8, <3>1, <3>2, <3>3
  <2> QED BY <2>2, MoreNodeOK
<1> HIDE DEF C
<1>11. Graph(heap', cell', node_ptr', scope) /\ DOMAIN cell' = C \cup DOMAIN nodes
  BY <1>0, <1>1, <1>8, <1>10, <1>19, NewOK, Zenon DEF C
<1> DEFINE D == DOMAIN cell'
<1>12. Root \in S /\ \A s \in S : ScopeOK(scope[s], D, S)
  BY <1>11, Zenon DEF Graph
<1> HIDE DEF D
<1>13. \A id \in DOMAIN names : names[id] \subseteq D
  <2>1. self \in D /\ DOMAIN ofParams \subseteq D
    BY <1>8, <1>11 DEF D
  <2> QED BY <1>9, <2>1
<1> HIDE DEF names
<1>14. ASSUME NEW s \in S PROVE ScopeOK(scope'[s], D, S)
  <2>1. CASE s = u
    <3>1. ScopeOK(InsertedAll(scope[u], names), D, S)
      BY <1>12, <1>13, <1>3, InsertedOK
    <3>2. ScopeOK([InsertedAll(scope[u], names) EXCEPT !.parent = Root], D, S)
      BY <1>12, <3>1, ParentOK
    <3> QED BY <1>0, <1>14, <2>1, <3>2
  <2>2. CASE s # u /\ s \in items
    <3>1. dollar(s) \in D
      BY <1>8, <1>9, <1>11, <2>2 DEF D
    <3>2. \A id \in DOMAIN Only(<<"$$">>, {dollar(s)}) : Only(<<"$$">>, {dollar(s)})[id] \subseteq D
      BY <3>1 DEF Only
    <3>3. ScopeOK(Inserted(scope[s], <<"$$">>, dollar(s)), D, S)
      BY <1>12, <3>2, InsertedOK DEF Inserted
    <3>4. ScopeOK([Inserted(scope[s], <<"$$">>, dollar(s)) EXCEPT !.parent = u], D, S)
      BY <1>3, <3>3, ParentOK
    <3> QED BY <1>0, <1>14, <2>2, <3>4
  <2>3. CASE s # u /\ s \notin items
    BY <1>0, <1>12, <1>14, <2>3
  <2> QED BY <2>1, <2>2, <2>3
<1>15. scope' = [s \in DOMAIN scope' |-> scope'[s]] /\ DOMAIN scope' = S
  BY <1>0
<1>16. Graph(heap', cell', node_ptr', scope')
  BY <1>11, <1>14, <1>15, GraphWithScopes DEF D
<1>17. C \subseteq DOMAIN cell'
  BY <1>11
<1> QED BY <1>0, <1>16, <1>17, DescendOK DEF C

--------------------------------------------------------------------------------
(***************************************************************************)
(* The visits of IdResolver and TransformResolver.                         *)
(***************************************************************************)
\* A visit that changes nothing but perhaps errors.
LEMMA SameOK ==
  ASSUME AstInv, Arriving, NEW c, c = Arrived, UNCHANGED <<heap, cell, node_ptr, scope>>, Descend(c)
  PROVE  AstInv'
<1>1. Graph(heap', cell', node_ptr', scope')
  BY DEF AstInv
<1> QED BY <1>1, DescendOK

\* The only value of a name is there.
LEMMA ValueOK ==
  ASSUME Graph(heap, cell, node_ptr, scope), NEW vals, vals \subseteq DOMAIN cell, Single(vals)
  PROVE  /\ The(vals) \in DOMAIN cell /\ cell[The(vals)] \in DOMAIN heap
         /\ NodeOK(heap[cell[The(vals)]], DOMAIN cell)
<1>1. The(vals) \in DOMAIN cell
  BY DEF Single, The
<1> QED BY <1>1 DEF Graph

\* Cells that are redirected.
LEMMA ReplaceOK ==
  ASSUME AstInv, Arriving, NEW c, c = Arrived, NEW n \in DOMAIN heap, Replace(c, n),
         UNCHANGED <<heap, scope>>, Descend(c)
  PROVE  AstInv'
<1>1. Graph(heap, cell, node_ptr, scope)
  BY DEF AstInv
<1>2. Graph(heap, [cell EXCEPT ![c] = n], [node_ptr EXCEPT ![cell[c]] = None], scope)
  BY <1>1, GraphReplaced, Zenon
<1>3. Graph(heap', cell', node_ptr', scope')
  BY <1>2 DEF Replace
<1>4. DOMAIN cell' = DOMAIN cell
  BY <1>1 DEF Replace, Graph
<1> QED BY <1>3, <1>4, DescendOK

\* IdResolver::visit(expression::ID)
LEMMA ResolveIdOK ==
  ASSUME AstInv, Arriving, NEW c, c = Arrived, ResolveId(c)
  PROVE  AstInv'
<1> DEFINE n == heap[cell[c]]
           vals == IdValues(n.id)
<1>0. /\ Descend(c)
      /\ \/ UNCHANGED <<heap, cell, node_ptr, scope>>
         \/ Single(vals) /\ Replace(c, cell[The(vals)]) /\ UNCHANGED <<heap, scope>>
  BY DEF ResolveId, Rejected
<1>1. Graph(heap, cell, node_ptr, scope) /\ NodeOK(n, DOMAIN cell) /\ stack \in Seq(Frames(DOMAIN cell))
  BY ArrivedOK, Zenon DEF AstInv
<1>2. vals \subseteq DOMAIN cell
  <2>1. n.id \in Seq(STRING)
    BY <1>1 DEF NodeOK
  <2> HIDE DEF n
  <2> QED BY <1>1, <2>1, IdValuesOK
<1> HIDE DEF n, vals
<1>3. CASE UNCHANGED <<heap, cell, node_ptr, scope>>
  BY <1>0, <1>3, SameOK
<1>4. CASE Single(vals) /\ Replace(c, cell[The(vals)]) /\ UNCHANGED <<heap, scope>>
  <2>1. cell[The(vals)] \in DOMAIN heap
    BY <1>1, <1>2, <1>4, ValueOK
  <2> QED BY <1>0, <1>4, <2>1, ReplaceOK
<1> QED BY <1>0, <1>3, <1>4

\* IdResolver::visit(type::Unknown)
LEMMA ResolveTypeOK ==
  ASSUME AstInv, Arriving, NEW c, c = Arrived, ResolveType(c)
  PROVE  AstInv'
<1> DEFINE n == heap[cell[c]]
           vals == Lookup(Root, n.id)
           value == heap[cell[The(vals)]]
<1>0. /\ Descend(c)
      /\ \/ UNCHANGED <<heap, cell, node_ptr, scope>>
         \/ /\ Single(vals) /\ value.kind = "TypeExpr"
            /\ Replace(c, cell[value.type]) /\ UNCHANGED <<heap, scope>>
  BY Zenon DEF ResolveType, Rejected, Mistaken
<1>1. Graph(heap, cell, node_ptr, scope) /\ NodeOK(n, DOMAIN cell)
  BY ArrivedOK, Zenon DEF AstInv
<1>2. vals \subseteq DOMAIN cell
  <2>1. n.id \in Seq(STRING) /\ Root \in DOMAIN scope
    BY <1>1 DEF NodeOK, Graph
  <2> HIDE DEF n
  <2> QED BY <1>1, <2>1, LookupOK
<1> HIDE DEF n, vals
<1>3. CASE UNCHANGED <<heap, cell, node_ptr, scope>>
  BY <1>0, <1>3, SameOK
<1>4. CASE Single(vals) /\ value.kind = "TypeExpr" /\ Replace(c, cell[value.type]) /\ UNCHANGED <<heap, scope>>
  <2>1. NodeOK(value, DOMAIN cell)
    BY <1>1, <1>2, <1>4, ValueOK
  <2>2. value.type \in DOMAIN cell
    BY <1>4, <2>1 DEF NodeOK
  <2>3. cell[value.type] \in DOMAIN heap
    BY <1>1, <2>2 DEF Graph
  <2> HIDE DEF value
  <2> QED BY <1>0, <1>4, <2>3, ReplaceOK
<1> QED BY <1>0, <1>3, <1>4

\* The fields that are made: a constant, and one with a type.
LEMMA ConstantFieldOK ==
  ASSUME NEW C, NEW kids \in Seq(C), NEW to \in C \cup {None}
  PROVE  NodeOK([Node("Constant", None, kids) EXCEPT !.transform_to = to], C)
<1>1. None \in Seq(STRING)
  BY DEF None
<1>2. [Node("Constant", None, kids) EXCEPT !.transform_to = to] =
        [kind |-> "Constant", id |-> None, kids |-> kids, type |-> None, serialized_type |-> None,
         transform_to |-> to, unit |-> None]
  BY DEF Node
<1> QED BY <1>1, <1>2 DEF NodeOK

LEMMA TypedFieldOK ==
  ASSUME NEW C, NEW kind \in {"UnitField", "AtomicType"}, NEW kids \in Seq(C), NEW type \in C,
         NEW to \in C \cup {None}
  PROVE  NodeOK([Node(kind, None, kids) EXCEPT !.type = type, !.transform_to = to], C)
<1>1. None \in Seq(STRING)
  BY DEF None
<1>2. [Node(kind, None, kids) EXCEPT !.type = type, !.transform_to = to] =
        [kind |-> kind, id |-> None, kids |-> kids, type |-> type, serialized_type |-> None,
         transform_to |-> to, unit |-> None]
  <2> DEFINE m == [kind |-> kind, id |-> None, kids |-> kids, type |-> type, serialized_type |-> None,
                   transform_to |-> None, unit |-> None]
  <2>1. [Node(kind, None, kids) EXCEPT !.type = type] = m
    BY DEF Node
  <2>2. [m EXCEPT !.transform_to = to] =
           [kind |-> kind, id |-> None, kids |-> kids, type |-> type, serialized_type |-> None,
            transform_to |-> to, unit |-> None]
    OBVIOUS
  <2>3. [Node(kind, None, kids) EXCEPT !.type = type, !.transform_to = to]
           = [[Node(kind, None, kids) EXCEPT !.type = type] EXCEPT !.transform_to = to]
    BY Zenon
  <2> HIDE DEF m
  <2> QED BY <2>1, <2>2, <2>3, Zenon
<1> QED BY <1>1, <1>2, Zenon DEF NodeOK

\* The field made of a value.
LEMMA FieldOfOK ==
  ASSUME NEW C, NEW n, NodeOK(n, C), NEW value, NodeOK(value, C),
         value.kind \in {"ConstantExpr", "TypeExpr"}
  PROVE  NodeOK(FieldOf(n, value), C)
<1>1. n.kids \in Seq(C) /\ n.transform_to \in C \cup {None} /\ None \in Seq(STRING)
  BY DEF NodeOK, None
<1>2. CASE value.kind = "ConstantExpr"
  <2> DEFINE kids == n.kids
             to == n.transform_to
  <2> HIDE DEF kids, to
  <2>1. NodeOK([Node("Constant", None, kids) EXCEPT !.transform_to = to], C)
    BY <1>1, ConstantFieldOK, Zenon DEF kids, to
  <2> QED BY <1>2, <2>1 DEF FieldOf, kids, to
<1>3. CASE value.kind = "TypeExpr"
  <2> DEFINE kids == <<value.type>> \o n.kids
             to == n.transform_to
             type == value.type
             kind == IF heap[cell[value.type]].kind = "Unit" THEN "UnitField" ELSE "AtomicType"
  <2>1. type \in C
    BY <1>3 DEF NodeOK
  <2>2. kids \in Seq(C)
    <3>1. <<type>> \in Seq(C)
      <4> HIDE DEF type
      <4> QED BY <2>1
    <3> QED BY <1>1, <3>1, ConcatProperties
  <2>3. kind \in {"UnitField", "AtomicType"}
    OBVIOUS
  <2> HIDE DEF kids, to, type, kind
  <2>4. NodeOK([Node(kind, None, kids) EXCEPT !.type = type, !.transform_to = to], C)
    BY <1>1, <2>1, <2>2, <2>3, TypedFieldOK, Zenon DEF to
  <2>5. FieldOf(n, value) = [Node(kind, None, kids) EXCEPT !.type = type, !.transform_to = to]
    BY <1>3 DEF FieldOf, kids, to, type, kind
  <2> QED BY <2>4, <2>5
<1> QED BY <1>2, <1>3

\* IdResolver::visit(field::Unknown)
LEMMA ResolveFieldOK ==
  ASSUME AstInv, Arriving, NEW c, c = Arrived, ResolveField(c)
  PROVE  AstInv'
<1> DEFINE n == heap[cell[c]]
           vals == Lookup(Root, n.id)
           value == heap[cell[The(vals)]]
           f == Made(c)
           new == [NewScope EXCEPT !.parent = scope[cell[c]].parent]
           C == DOMAIN cell
<1>0. /\ Descend(c) /\ n.kind = "Unknown"
      /\ \/ UNCHANGED <<heap, cell, node_ptr, scope>>
         \/ /\ Single(vals) /\ value.kind \in {"ConstantExpr", "TypeExpr"}
            /\ heap' = Over(heap, Only(f, FieldOf(n, value)))
            /\ cell' = [cell EXCEPT ![c] = f]
            /\ node_ptr' = [m \in DOMAIN node_ptr \cup {f} |-> IF m \in {cell[c], f} THEN None ELSE node_ptr[m]]
            /\ scope' = Over(scope, Only(f, new))
  BY Zenon DEF ResolveField, Rejected, Mistaken
<1>1. Graph(heap, cell, node_ptr, scope) /\ NodeOK(n, C) /\ cell[c] \in DOMAIN heap
  BY ArrivedOK, Zenon DEF AstInv
<1>2. vals \subseteq C
  <2>1. n.id \in Seq(STRING) /\ Root \in DOMAIN scope
    BY <1>1 DEF NodeOK, Graph
  <2> HIDE DEF n
  <2> QED BY <1>1, <2>1, LookupOK
<1>3. scope[cell[c]].parent \in DOMAIN scope \cup {None}
  <2>1. cell[c] \in DOMAIN scope
    BY <1>0, <1>1 DEF Graph, Scoped, ItemKinds
  <2> QED BY <1>1, <2>1 DEF Graph, ScopeOK
<1> HIDE DEF n, vals, f
<1>4. CASE UNCHANGED <<heap, cell, node_ptr, scope>>
  BY <1>0, <1>4, SameOK
<1>5. CASE ~UNCHANGED <<heap, cell, node_ptr, scope>>
  <2>0. /\ Single(vals) /\ value.kind \in {"ConstantExpr", "TypeExpr"}
        /\ heap' = Over(heap, Only(f, FieldOf(n, value)))
        /\ cell' = [cell EXCEPT ![c] = f]
        /\ node_ptr' = [m \in DOMAIN node_ptr \cup {f} |-> IF m \in {cell[c], f} THEN None ELSE node_ptr[m]]
        /\ scope' = Over(scope, Only(f, new))
    BY <1>0, <1>5, Zenon
  <2>1. NodeOK(value, C)
    BY <1>1, <1>2, <2>0, ValueOK
  <2> HIDE DEF value
  <2>2. NodeOK(FieldOf(n, value), C)
    BY <1>1, <2>0, <2>1, FieldOfOK
  <2>3. ScopeOK(new, C, DOMAIN scope)
    <3>1. ScopeOK(NewScope, C, DOMAIN scope)
      BY DEF ScopeOK, NewScope
    <3> QED BY <1>3, <3>1, ParentOK
  <2> DEFINE r == FieldOf(n, value)
  <2> HIDE DEF new, r
  <2>4. Graph(Over(heap, Only(f, r)), [cell EXCEPT ![c] = f],
              [m \in DOMAIN node_ptr \cup {f} |-> IF m \in {cell[c], f} THEN None ELSE node_ptr[m]],
              Over(scope, Only(f, new)))
    BY <1>1, <2>2, <2>3, GraphWithField, Zenon DEF r
  <2>5. Graph(heap', cell', node_ptr', scope')
    BY <2>0, <2>4, Zenon DEF r
  <2>6. DOMAIN cell' = C
    BY <1>1, <2>0 DEF Graph
  <2> QED BY <1>0, <2>5, <2>6, DescendOK
<1> QED BY <1>4, <1>5

\* IdResolver::visit(Instantiation)
LEMMA ResolveInstantiationOK ==
  ASSUME AstInv, Arriving, NEW c, c = Arrived, ResolveInstantiation(c)
  PROVE  AstInv'
<1> DEFINE n == heap[cell[c]]
           vals == Lookup(Root, n.id)
           value == heap[cell[The(vals)]]
           C == DOMAIN cell
           x == cell[c]
<1>0. /\ Descend(c)
      /\ \/ UNCHANGED <<heap, cell, node_ptr, scope>>
         \/ /\ Single(vals) /\ value.kind = "TypeExpr"
            /\ heap' = [heap EXCEPT ![x] = [n EXCEPT !.unit = value.type]]
            /\ UNCHANGED <<cell, node_ptr, scope>>
  BY Zenon DEF ResolveInstantiation, Rejected, Mistaken
<1>1. Graph(heap, cell, node_ptr, scope) /\ NodeOK(n, C) /\ x \in DOMAIN heap
  BY ArrivedOK, Zenon DEF AstInv
<1>2. vals \subseteq C
  <2>1. n.id \in Seq(STRING) /\ Root \in DOMAIN scope
    BY <1>1 DEF NodeOK, Graph
  <2> HIDE DEF n
  <2> QED BY <1>1, <2>1, LookupOK
<1> HIDE DEF vals
<1>3. CASE UNCHANGED <<heap, cell, node_ptr, scope>>
  BY <1>0, <1>3, SameOK
<1>4. CASE ~UNCHANGED <<heap, cell, node_ptr, scope>>
  <2>0. /\ Single(vals) /\ value.kind = "TypeExpr"
        /\ heap' = [heap EXCEPT ![x] = [n EXCEPT !.unit = value.type]]
        /\ UNCHANGED <<cell, node_ptr, scope>>
    BY <1>0, <1>4
  <2>1. value.type \in C
    <3>1. NodeOK(value, C)
      BY <1>1, <1>2, <2>0, ValueOK
    <3> QED BY <2>0, <3>1 DEF NodeOK
  <2> HIDE DEF value
  <2> DEFINE v == value.type
             r == [n EXCEPT !.unit = v]
  <2> HIDE DEF v
  <2>2. NodeOK(r, C) /\ r.kind = heap[x].kind
    <3>1. ASSUME NEW m, NodeOK(m, C) PROVE NodeOK([m EXCEPT !.unit = v], C) /\ [m EXCEPT !.unit = v].kind = m.kind
      <4>1. [m EXCEPT !.unit = v] = [kind |-> m.kind, id |-> m.id, kids |-> m.kids, type |-> m.type,
               serialized_type |-> m.serialized_type, transform_to |-> m.transform_to, unit |-> v]
        BY <3>1 DEF NodeOK
      <4> QED BY <2>1, <3>1, <4>1 DEF NodeOK, v
    <3> QED BY <1>1, <3>1
  <2> HIDE DEF r
  <2>3. Graph([heap EXCEPT ![x] = r], cell, node_ptr, scope)
    <3> HIDE DEF x
    <3> QED BY <1>1, <2>2, GraphWithNode
  <2>4. Graph(heap', cell', node_ptr', scope') /\ cell' = cell
    BY <2>0, <2>3 DEF r, v
  <2> QED BY <1>0, <2>4, DescendOK
<1> QED BY <1>3, <1>4

\* An item that got another type, and is still an item.
LEMMA TransformedOK ==
  ASSUME NEW C, NEW D, C \subseteq D, NEW n, NodeOK(n, C), n.kind \in ItemKinds, NEW type \in D
  PROVE  NodeOK(Transformed(n, type), D) /\ Transformed(n, type).kind = n.kind
<1> DEFINE kids == Append(Removed(n.kids, n.type), type)
           m == [kind |-> n.kind, id |-> n.id, kids |-> kids, type |-> type,
                 serialized_type |-> n.type, transform_to |-> n.transform_to, unit |-> n.unit]
<1>1. NodeOK(n, D)
  BY MoreNodeOK
<1>2. kids \in Seq(D)
  <2>1. n.kids \in Seq(D)
    BY <1>1 DEF NodeOK
  <2>2. Removed(n.kids, n.type) \in Seq(D)
    BY <2>1, RemovedOK
  <2> QED BY <2>2, AppendProperties
<1>3. Transformed(n, type) = [[[n EXCEPT !.serialized_type = n.type] EXCEPT !.type = type] EXCEPT !.kids = kids]
  BY Zenon DEF Transformed
<1> HIDE DEF kids
<1>4. [[[n EXCEPT !.serialized_type = n.type] EXCEPT !.type = type] EXCEPT !.kids = kids] = m
  <2> DEFINE m1 == [kind |-> n.kind, id |-> n.id, kids |-> n.kids, type |-> n.type,
                    serialized_type |-> n.type, transform_to |-> n.transform_to, unit |-> n.unit]
             m2 == [kind |-> n.kind, id |-> n.id, kids |-> n.kids, type |-> type,
                    serialized_type |-> n.type, transform_to |-> n.transform_to, unit |-> n.unit]
  <2>1. [n EXCEPT !.serialized_type = n.type] = m1
    BY <1>1 DEF NodeOK
  <2>2. [m1 EXCEPT !.type = type] = m2
    OBVIOUS
  <2>3. [m2 EXCEPT !.kids = kids] = m
    OBVIOUS
  <2> HIDE DEF m1, m2, m
  <2> QED BY <2>1, <2>2, <2>3, Zenon
<1>5. /\ n.id \in Seq(STRING) /\ n.type \in D \cup {None} /\ n.transform_to \in D \cup {None}
      /\ n.unit \in D \cup {None} /\ n.kind \notin {"TypeExpr", "TypeDecl", "ValueDecl"}
  BY <1>1 DEF NodeOK, ItemKinds
<1>6. NodeOK(m, D) /\ m.kind = n.kind
  BY <1>2, <1>5 DEF NodeOK
<1> QED BY <1>3, <1>4, <1>6, Zenon

\* TransformResolver::visit(Item)
LEMMA TransformItemOK ==
  ASSUME AstInv, Arriving, NEW c, c = Arrived, TransformItem(c)
  PROVE  AstInv'
<1> DEFINE x == cell[c]
           n == heap[x]
           to == heap[cell[n.transform_to]]
           made == MadeType(x)
           unknown == Node("UnknownType", to.id, <<>>)
           C == DOMAIN cell
           H == DOMAIN heap
<1>0. /\ Descend(c) /\ n.kind \in ItemKinds /\ n.transform_to # None /\ scope' = scope
      /\ \/ /\ to.kind = "ID"
            /\ heap' = Over([heap EXCEPT ![x] = Transformed(n, made)], Only(made, unknown))
            /\ cell' = Linked(cell, {made}) /\ node_ptr' = Linked(node_ptr, {made})
         \/ /\ to.kind = "TypeExpr" /\ heap' = [heap EXCEPT ![x] = Transformed(n, to.type)]
            /\ cell' = cell /\ node_ptr' = node_ptr
  <2>1. to.kind \in {"ID", "TypeExpr"}
    BY Zenon DEF TransformItem
  <2>2. CASE to.kind = "ID"
    BY <2>2, Zenon DEF TransformItem
  <2>3. CASE to.kind = "TypeExpr" /\ to.kind # "ID"
    BY <2>3, Zenon DEF TransformItem
  <2> QED BY <2>1, <2>2, <2>3, Zenon
<1>1. Graph(heap, cell, node_ptr, scope) /\ NodeOK(n, C) /\ x \in H
  BY ArrivedOK, Zenon DEF AstInv
<1>2. NodeOK(to, C)
  <2>1. n.transform_to \in C
    BY <1>0, <1>1 DEF NodeOK
  <2> HIDE DEF n
  <2> QED BY <1>1, <2>1 DEF Graph
<1>3. heap = [y \in H |-> heap[y]] /\ \A y \in H : NodeOK(heap[y], C) /\ (heap[y].kind \in Scoped => y \in DOMAIN scope)
  BY <1>1 DEF Graph
<1> HIDE DEF to
<1>4. CASE /\ to.kind = "ID"
           /\ heap' = Over([heap EXCEPT ![x] = Transformed(n, made)], Only(made, unknown))
           /\ cell' = Linked(cell, {made}) /\ node_ptr' = Linked(node_ptr, {made})
  <2> DEFINE D == C \cup {made}
             r == Transformed(n, made)
  <2>1. NodeOK(r, D) /\ r.kind = n.kind
    <3>1. NodeOK(n, C) /\ n.kind \in ItemKinds /\ C \subseteq D /\ made \in D
      BY <1>0, <1>1
    <3> HIDE DEF n, C, D, made
    <3> QED BY <3>1, TransformedOK
  <2>2. NodeOK(unknown, D) /\ unknown.kind \notin Scoped
    <3>1. to.id \in Seq(STRING) /\ <<>> \in Seq(D)
      BY <1>2 DEF NodeOK
    <3> DEFINE kids == <<>>
    <3> HIDE DEF D, kids
    <3>2. "UnknownType" \notin {"TypeExpr", "TypeDecl", "ValueDecl"} /\ "UnknownType" \notin Scoped
      BY DEF Scoped, ItemKinds
    <3>3. NodeOK(Node("UnknownType", to.id, kids), D) /\ Node("UnknownType", to.id, kids).kind = "UnknownType"
      BY <3>1, <3>2, NewNodeOK, Zenon DEF kids
    <3> QED BY <3>2, <3>3 DEF kids
  <2> HIDE DEF r, unknown, made
  <2> DEFINE g == Over([heap EXCEPT ![x] = r], Only(made, unknown))
  <2>3. /\ g = [y \in DOMAIN g |-> g[y]] /\ DOMAIN g = H \cup {made} /\ g[x] = r
        /\ \A y \in H : y # x => g[y] = heap[y]
        /\ made \notin H => g[made] = unknown
    BY <1>1, <1>3 DEF Over, Only
  <2>4. \A y \in H : NodeOK(heap[y], D)
    BY <1>3, MoreNodeOK
  <2> HIDE DEF g, D
  <2>5. \A y \in DOMAIN g : NodeOK(g[y], D) /\ (g[y].kind \in Scoped => y \in DOMAIN scope)
    BY <1>1, <1>3, <2>1, <2>2, <2>3, <2>4
  <2>9. g[Root].kind = "Module"
    <3>1. Root \in H /\ heap[Root].kind = "Module"
      BY <1>1 DEF Graph
    <3> HIDE DEF H
    <3> QED BY <2>1, <2>3, <3>1
  <2>6. Graph(g, Linked(cell, {made}), Linked(node_ptr, {made}), scope)
    BY <1>1, <2>3, <2>5, <2>9, GraphWithNodes, Zenon DEF D
  <2>7. Graph(heap', cell', node_ptr', scope')
    BY <1>0, <1>4, <2>6 DEF g, r
  <2>8. C \subseteq DOMAIN cell'
    BY <1>4 DEF Linked
  <2> QED BY <1>0, <2>7, <2>8, DescendOK
<1>5. CASE /\ to.kind = "TypeExpr" /\ heap' = [heap EXCEPT ![x] = Transformed(n, to.type)]
           /\ cell' = cell /\ node_ptr' = node_ptr
  <2> DEFINE r == Transformed(n, to.type)
  <2>1. to.type \in C
    BY <1>2, <1>5 DEF NodeOK
  <2>2. NodeOK(r, C) /\ r.kind = heap[x].kind
    <3>1. NodeOK(n, C) /\ n.kind \in ItemKinds /\ C \subseteq C
      BY <1>0, <1>1
    <3> HIDE DEF n, C
    <3>2. NodeOK(r, C) /\ r.kind = n.kind
      BY <2>1, <3>1, TransformedOK
    <3> QED BY <3>2 DEF n
  <2> HIDE DEF r
  <2>3. Graph([heap EXCEPT ![x] = r], cell, node_ptr, scope)
    <3> HIDE DEF x
    <3> QED BY <1>1, <2>2, GraphWithNode
  <2>4. Graph(heap', cell', node_ptr', scope')
    BY <1>0, <1>5, <2>3 DEF r
  <2> QED BY <1>0, <1>5, <2>4, DescendOK, Zenon
<1> QED BY <1>0, <1>4, <1>5

\* Every visit keeps everything there.
LEMMA VisitOK ==
  ASSUME AstInv, Arriving, Visit(Arrived)
  PROVE  AstInv'
<1>1. PICK c : c = Arrived
  OBVIOUS
<1>2. CASE TransformMistaken(c)
  <2>1. UNCHANGED <<program, heap, cell, node_ptr, scope, pass, stack>> /\ result' = "crash"
    BY <1>2 DEF TransformMistaken, visitor
  <2> QED BY <2>1 DEF AstInv
<1>3. CASE PassOver(c)
  BY <1>1, <1>3, SameOK DEF PassOver
<1> QED BY <1>1, <1>2, <1>3, AddTypeNameOK, AddValueNameOK, AddUnitScopeOK, ResolveIdOK, ResolveTypeOK,
          ResolveFieldOK, ResolveInstantiationOK, TransformItemOK DEF Visit

--------------------------------------------------------------------------------
(***************************************************************************)
(* The AST that the grammar's actions build.                               *)
(***************************************************************************)
\* A type, a name or an expression of the source.
LEMMA LeafOK ==
  ASSUME NEW C, NEW kinds \in SUBSET (TypeKinds \cup ExprKinds), NEW x, IsLeaf(x, kinds)
  PROVE  NodeOK(Leaf(x), C) /\ Leaf(x).kind \in kinds
<1> DEFINE kids == <<>>
           kind == x.kind
           id == x.id
<1>1. id \in Seq(STRING) /\ kids \in Seq(C) /\ kind \in kinds
  BY DEF IsLeaf
<1>2. kind \notin {"TypeExpr", "TypeDecl", "ValueDecl"}
  BY <1>1 DEF TypeKinds, ExprKinds
<1> HIDE DEF kids, kind, id
<1>3. NodeOK(Node(kind, id, kids), C) /\ Node(kind, id, kids).kind = kind
  BY <1>1, <1>2, NewNodeOK, Zenon
<1> QED BY <1>1, <1>3 DEF Leaf, kids, kind, id

\* An item of a unit, whose parts are in C.
LEMMA ItemNodeOK ==
  ASSUME NEW C, NEW d, NEW i, NEW item, IsItem(item),
         \A k \in 1..Len(item.exprs) : ItemExpr(d, i, k) \in C,
         item.to # None => TransformTo(d, i) \in C,
         item.kind # "Unknown" => ItemType(d, i) \in C
  PROVE  NodeOK(ItemNode(d, i, item), C) /\ ItemNode(d, i, item).kind = item.kind
<1> DEFINE exprs == [k \in 1..Len(item.exprs) |-> ItemExpr(d, i, k)]
           to == IF item.to = None THEN None ELSE TransformTo(d, i)
           attrs == IF to = None THEN exprs ELSE Append(exprs, to)
           type == ItemType(d, i)
           kids == <<type>> \o attrs
           kind == item.kind
           id == item.type.id
<1>0. ItemNode(d, i, item) =
         IF kind = "Unknown" THEN [Node("Unknown", id, attrs) EXCEPT !.transform_to = to]
         ELSE [[Node(kind, None, kids) EXCEPT !.type = type] EXCEPT !.transform_to = to]
  BY Zenon DEF ItemNode
<1>1. exprs \in Seq(C)
  <2>1. Len(item.exprs) \in Nat
    BY DEF IsItem
  <2> QED BY <2>1, IsASeq
<1>2. to \in C \cup {None}
  OBVIOUS
<1> HIDE DEF exprs, to
<1>3. attrs \in Seq(C)
  <2>1. CASE to = None
    BY <1>1, <2>1
  <2>2. CASE to # None
    BY <1>1, <1>2, <2>2, AppendProperties
  <2> QED BY <2>1, <2>2
<1>4. kind \in ItemKinds /\ id \in Seq(STRING) /\ None \in Seq(STRING)
  BY DEF IsItem, IsLeaf, None
<1> HIDE DEF attrs, kind, id
<1>5. CASE kind = "Unknown"
  <2>1. [Node("Unknown", id, attrs) EXCEPT !.transform_to = to] =
           [kind |-> "Unknown", id |-> id, kids |-> attrs, type |-> None, serialized_type |-> None,
            transform_to |-> to, unit |-> None]
    BY DEF Node
  <2>2. NodeOK([Node("Unknown", id, attrs) EXCEPT !.transform_to = to], C)
        /\ [Node("Unknown", id, attrs) EXCEPT !.transform_to = to].kind = "Unknown"
    BY <1>2, <1>3, <1>4, <2>1 DEF NodeOK
  <2> QED BY <1>0, <1>5, <2>2 DEF kind
<1>6. CASE kind # "Unknown"
  <2>1. type \in C
    BY <1>6 DEF kind
  <2>2. kids \in Seq(C)
    <3> HIDE DEF type
    <3>1. <<type>> \in Seq(C)
      BY <2>1
    <3> QED BY <1>3, <3>1, ConcatProperties
  <2> HIDE DEF type, kids
  <2> DEFINE m == [kind |-> kind, id |-> None, kids |-> kids, type |-> type, serialized_type |-> None,
                   transform_to |-> None, unit |-> None]
             r == [kind |-> kind, id |-> None, kids |-> kids, type |-> type, serialized_type |-> None,
                   transform_to |-> to, unit |-> None]
  <2>3. [Node(kind, None, kids) EXCEPT !.type = type] = m
    BY DEF Node
  <2>4. [m EXCEPT !.transform_to = to] = r
    OBVIOUS
  <2>5. NodeOK(r, C) /\ r.kind = kind
    BY <1>2, <1>4, <2>1, <2>2 DEF NodeOK, ItemKinds
  <2> HIDE DEF m, r
  <2>6. ItemNode(d, i, item) = r
    BY <1>0, <1>6, <2>3, <2>4, Zenon
  <2> QED BY <2>5, <2>6 DEF kind
<1> QED BY <1>5, <1>6

\* The places of the nodes.
UnitDecl(x) == x.kind = "TypeDecl" /\ x.of.kind = "Unit"
InItem(d, i, item, n) ==
    \/ n = ItemAt(d, i)
    \/ item.kind # "Unknown" /\ n = ItemType(d, i)
    \/ item.to # None /\ n = TransformTo(d, i)
    \/ \E k \in 1..Len(item.exprs) : n = ItemExpr(d, i, k)
InDecl(d, decl, n) ==
    \/ n = Decl(d)
    \/ decl.kind # "Instantiation" /\ n = Part(d)
    \/ IsEnum(decl) /\ \E k \in 1..Len(AllLabels(decl.of)) : n = Label(d, k)
    \/ UnitDecl(decl) /\ \E i \in 1..Len(decl.of.items) : InItem(d, i, decl.of.items[i], n)

LEMMA PlacesIn ==
  ASSUME NEW d, NEW decl, IsDecl(decl), NEW n
  PROVE  n \in Places(d, decl) <=> InDecl(d, decl, n)
<1>1. /\ decl.kind \in {"TypeDecl", "ValueDecl", "Instantiation"}
      /\ decl.kind = "ValueDecl" => decl.of.kind \notin {"Unit", "Enum"}
  BY DEF IsDecl, IsLeaf, ExprKinds
<1>2. \A i : n \in ItemPlaces(d, i, decl.of.items[i]) <=> InItem(d, i, decl.of.items[i], n)
  BY DEF ItemPlaces, InItem
<1> DEFINE items == UNION {ItemPlaces(d, i, decl.of.items[i]) : i \in 1..Len(decl.of.items)}
           labels == {Label(d, k) : k \in 1..Len(AllLabels(decl.of))}
<1>3. /\ n \in items <=> \E i \in 1..Len(decl.of.items) : InItem(d, i, decl.of.items[i], n)
      /\ n \in labels <=> \E k \in 1..Len(AllLabels(decl.of)) : n = Label(d, k)
  BY <1>2
<1>4. Places(d, decl) = {Decl(d)} \cup
        IF decl.kind = "Instantiation" THEN {}
        ELSE {Part(d)} \cup (IF decl.of.kind = "Unit" THEN items
                             ELSE IF decl.of.kind = "Enum" THEN labels ELSE {})
  <2> HIDE DEF items, labels
  <2>1. CASE decl.kind = "Instantiation"
    BY <2>1 DEF Places
  <2>2. CASE decl.kind # "Instantiation" /\ decl.of.kind = "Unit"
    BY <2>2 DEF Places, items
  <2>3. CASE decl.kind # "Instantiation" /\ decl.of.kind = "Enum"
    BY <2>3 DEF Places, labels
  <2>4. CASE decl.kind # "Instantiation" /\ decl.of.kind \notin {"Unit", "Enum"}
    BY <2>4 DEF Places
  <2> QED BY <2>1, <2>2, <2>3, <2>4
<1> HIDE DEF items, labels
<1> QED BY <1>1, <1>3, <1>4 DEF InDecl, UnitDecl, IsEnum

\* The node at each place.
LEMMA DeclNodesAt ==
  ASSUME NEW decl, NEW d
  PROVE  /\ NodeAt(decl, Decl(d)) = DeclNode(d, decl)
         /\ NodeAt(decl, Part(d)) = PartNode(d, decl.of)
         /\ \A k : NodeAt(decl, Label(d, k)) = Node("ConstantExpr", None, <<>>)
<1>1. NodeAt(decl, Decl(d)) = DeclNode(d, decl)
  BY DEF NodeAt, Decl
<1>2. NodeAt(decl, Part(d)) = PartNode(d, decl.of)
  BY DEF NodeAt, Part
<1>3. \A k : NodeAt(decl, Label(d, k)) = Node("ConstantExpr", None, <<>>)
  BY DEF NodeAt, Label
<1> QED BY <1>1, <1>2, <1>3

LEMMA ItemNodesAt ==
  ASSUME NEW decl, NEW d, NEW i \in Nat \ {0}
  PROVE  /\ NodeAt(decl, ItemAt(d, i)) = ItemNode(d, i, decl.of.items[i])
         /\ NodeAt(decl, ItemType(d, i)) = Leaf(decl.of.items[i].type)
         /\ NodeAt(decl, TransformTo(d, i)) = Node("ID", decl.of.items[i].to, <<>>)
         /\ \A k \in Nat \ {0} : NodeAt(decl, ItemExpr(d, i, k)) = Leaf(decl.of.items[i].exprs[k])
<1>4. NodeAt(decl, ItemAt(d, i)) = ItemNode(d, i, decl.of.items[i])
  BY DEF NodeAt, ItemAt
<1>5. \A x : NodeAt(decl, <<d, i, x>>) = ItemPart(decl.of.items[i], x)
  BY DEF NodeAt
<1>6. /\ ItemPart(decl.of.items[i], 0) = Leaf(decl.of.items[i].type)
      /\ ItemPart(decl.of.items[i], -1) = Node("ID", decl.of.items[i].to, <<>>)
      /\ \A k \in Nat \ {0} : ItemPart(decl.of.items[i], k) = Leaf(decl.of.items[i].exprs[k])
  BY DEF ItemPart
<1> QED BY <1>4, <1>5, <1>6 DEF ItemType, TransformTo, ItemExpr

\* A place begins with the declaration it is in.
LEMMA PlaceHead ==
  ASSUME NEW d \in Nat \ {0}, NEW decl, NEW n, InDecl(d, decl, n)
  PROVE  n[1] = d /\ n # Root
BY DEF InDecl, InItem, Decl, Part, Label, ItemAt, ItemType, TransformTo, ItemExpr, Root

LEMMA AstAt ==
  ASSUME NEW p \in Seq(Declarations), NEW linked, NEW n
  PROVE  /\ n \in DOMAIN Ast(p, linked) <=> n = Root \/ \E d \in 1..Len(p) : InDecl(d, p[d], n)
         /\ \A d \in 1..Len(p) : InDecl(d, p[d], n) => Ast(p, linked)[n] = NodeAt(p[d], n)
         /\ Ast(p, linked)[Root] = Node("Module", ModuleName, [d \in 1..linked |-> Decl(d)])
         /\ Ast(p, linked) = [m \in DOMAIN Ast(p, linked) |-> Ast(p, linked)[m]]
<1> DEFINE places == {Root} \cup UNION {Places(d, p[d]) : d \in 1..Len(p)}
           root == Node("Module", ModuleName, [d \in 1..linked |-> Decl(d)])
           a == [m \in places |-> IF m = Root THEN root ELSE NodeAt(p[m[1]], m)]
<1>1. Ast(p, linked) = a
  BY Zenon DEF Ast
<1>2. \A d \in 1..Len(p) : IsDecl(p[d])
  BY ProgramsAssumption
<1>3. n \in places <=> n = Root \/ \E d \in 1..Len(p) : InDecl(d, p[d], n)
  BY <1>2, PlacesIn
<1>4. Root \in places
  OBVIOUS
<1> HIDE DEF places
<1>5. DOMAIN a = places /\ a = [m \in DOMAIN a |-> a[m]] /\ a[Root] = root
      /\ \A m \in places : m # Root => a[m] = NodeAt(p[m[1]], m)
  BY <1>4
<1> HIDE DEF a, root
<1>6. ASSUME NEW d \in 1..Len(p), InDecl(d, p[d], n) PROVE a[n] = NodeAt(p[d], n)
  <2>1. n[1] = d /\ n # Root
    BY <1>6, PlaceHead
  <2> QED BY <1>3, <1>5, <1>6, <2>1
<1> QED BY <1>1, <1>3, <1>5, <1>6 DEF root

\* The declarations, and their types and values.
LEMMA DeclNodeOK ==
  ASSUME NEW C, NEW d, NEW decl, IsDecl(decl), decl.kind # "Instantiation" => Part(d) \in C
  PROVE  NodeOK(DeclNode(d, decl), C) /\ DeclNode(d, decl).kind = decl.kind
<1> DEFINE kids == IF decl.kind = "Instantiation" THEN <<>> ELSE <<Part(d)>>
           kind == decl.kind
           id == decl.id
<1>1. id \in Seq(STRING) /\ kind # "TypeExpr"
  BY DEF IsDecl
<1>2. kids \in Seq(C) /\ (kind \in {"TypeDecl", "ValueDecl"} => kids # <<>>)
  OBVIOUS
<1>3. DeclNode(d, decl) = Node(kind, id, kids)
  BY Zenon DEF DeclNode
<1> HIDE DEF kids, kind, id
<1>4. NodeOK(Node(kind, id, kids), C) /\ Node(kind, id, kids).kind = kind
  BY <1>1, <1>2 DEF NodeOK, Node
<1> QED BY <1>3, <1>4 DEF kind

LEMMA PartNodeOK ==
  ASSUME NEW C, NEW d, NEW t, IsType(t) \/ IsLeaf(t, ExprKinds),
         t.kind = "Unit" => \A i \in 1..Len(t.items) : ItemAt(d, i) \in C
  PROVE  NodeOK(PartNode(d, t), C) /\ PartNode(d, t).kind = t.kind
<1>1. CASE t.kind = "Unit"
  <2> DEFINE kids == [i \in 1..Len(t.items) |-> ItemAt(d, i)]
             kind == "Unit"
             id == None
  <2>1. Len(t.items) \in Nat
    BY <1>1 DEF IsType, IsLeaf, TypeKinds, ExprKinds
  <2>2. kids \in Seq(C)
    BY <1>1, <2>1, IsASeq
  <2>3. id \in Seq(STRING)
    BY DEF None
  <2>4. PartNode(d, t) = Node(kind, id, kids)
    BY <1>1, Zenon DEF PartNode
  <2> HIDE DEF kids, id
  <2>5. NodeOK(Node(kind, id, kids), C) /\ Node(kind, id, kids).kind = kind
    BY <2>2, <2>3, NewNodeOK
  <2> QED BY <1>1, <2>4, <2>5
<1>2. CASE t.kind # "Unit"
  <2> DEFINE kids == <<>>
             kind == t.kind
             id == t.id
  <2>1. id \in Seq(STRING) /\ kids \in Seq(C) /\ kind \notin {"TypeExpr", "TypeDecl", "ValueDecl"}
    BY <1>2 DEF IsType, IsLeaf, TypeKinds, ExprKinds
  <2>2. PartNode(d, t) = Node(kind, id, kids)
    BY <1>2, Zenon DEF PartNode, Leaf
  <2> HIDE DEF kids, kind, id
  <2>3. NodeOK(Node(kind, id, kids), C) /\ Node(kind, id, kids).kind = kind
    BY <2>1, NewNodeOK, Zenon
  <2> QED BY <2>2, <2>3 DEF kind
<1> QED BY <1>1, <1>2

\* Every node of a declaration points to nodes of it.
LEMMA InDeclOK ==
  ASSUME NEW C, NEW d, NEW decl, IsDecl(decl), \A m : InDecl(d, decl, m) => m \in C,
         NEW n, InDecl(d, decl, n)
  PROVE  /\ NodeOK(NodeAt(decl, n), C)
         /\ NodeAt(decl, n).kind = "Enum" => n = Part(d) /\ IsEnum(decl)
<1> DEFINE items == decl.of.items
<1>0. /\ decl.kind \in {"TypeDecl", "ValueDecl", "Instantiation"}
      /\ decl.kind = "TypeDecl" => IsType(decl.of)
      /\ decl.kind = "ValueDecl" => IsLeaf(decl.of, ExprKinds)
  BY DEF IsDecl
<1>1. CASE n = Decl(d)
  <2>1. decl.kind # "Instantiation" => Part(d) \in C
    BY DEF InDecl
  <2> QED BY <1>0, <1>1, <2>1, DeclNodeOK, DeclNodesAt
<1>2. CASE decl.kind # "Instantiation" /\ n = Part(d)
  <2>1. ASSUME decl.of.kind = "Unit" PROVE UnitDecl(decl) /\ \A i \in 1..Len(items) : ItemAt(d, i) \in C
    BY <1>0, <1>2, <2>1 DEF InDecl, InItem, UnitDecl, IsLeaf, ExprKinds
  <2>2. NodeOK(PartNode(d, decl.of), C) /\ PartNode(d, decl.of).kind = decl.of.kind
    BY <1>0, <1>2, <2>1, PartNodeOK
  <2>3. decl.of.kind = "Enum" => IsEnum(decl)
    BY <1>0, <1>2 DEF IsEnum, IsLeaf, ExprKinds
  <2> QED BY <1>2, <2>2, <2>3, DeclNodesAt
<1>3. CASE IsEnum(decl) /\ \E k \in 1..Len(AllLabels(decl.of)) : n = Label(d, k)
  <2> DEFINE kids == <<>>
             kind == "ConstantExpr"
             id == None
  <2>1. kids \in Seq(C) /\ id \in Seq(STRING)
    BY DEF None
  <2>2. NodeAt(decl, n) = Node(kind, id, kids)
    <3>1. PICK k \in 1..Len(AllLabels(decl.of)) : n = Label(d, k)
      BY <1>3
    <3> QED BY <3>1, DeclNodesAt
  <2> HIDE DEF kids, id
  <2>3. NodeOK(Node(kind, id, kids), C) /\ Node(kind, id, kids).kind = kind
    BY <2>1, NewNodeOK
  <2> QED BY <2>2, <2>3
<1>4. CASE UnitDecl(decl) /\ \E i \in 1..Len(items) : InItem(d, i, items[i], n)
  <2>1. PICK i \in 1..Len(items) : InItem(d, i, items[i], n)
    BY <1>4
  <2>0. Len(items) \in Nat /\ \A j \in 1..Len(items) : IsItem(items[j])
    BY <1>0, <1>4 DEF UnitDecl, IsType, IsLeaf, TypeKinds
  <2>2. IsItem(items[i]) /\ i \in Nat \ {0} /\ Len(items[i].exprs) \in Nat
    BY <2>0, <2>1 DEF IsItem
  <2> DEFINE item == items[i]
  <2>3. \A m : InItem(d, i, item, m) => m \in C
    BY <1>4, <2>1 DEF InDecl
  <2> HIDE DEF item
  <2>4. CASE n = ItemAt(d, i)
    <3>0. /\ \A k \in 1..Len(item.exprs) : ItemExpr(d, i, k) \in C
          /\ item.to # None => TransformTo(d, i) \in C
          /\ item.kind # "Unknown" => ItemType(d, i) \in C
          /\ IsItem(item)
      BY <2>2, <2>3 DEF InItem, item
    <3>1. NodeOK(ItemNode(d, i, item), C) /\ ItemNode(d, i, item).kind = item.kind
      BY <3>0, ItemNodeOK
    <3>2. NodeAt(decl, n) = ItemNode(d, i, item)
      BY <2>2, <2>4, ItemNodesAt DEF item
    <3> QED BY <2>2, <3>1, <3>2 DEF IsItem, ItemKinds, item
  <2>5. CASE n = ItemType(d, i)
    <3>1. NodeAt(decl, n) = Leaf(item.type) /\ IsLeaf(item.type, TypeKinds)
      BY <2>2, <2>5, ItemNodesAt DEF item, IsItem
    <3> QED BY <3>1, LeafOK DEF TypeKinds
  <2>6. CASE n = TransformTo(d, i)
    <3> DEFINE kids == <<>>
               kind == "ID"
               id == item.to
    <3>1. NodeAt(decl, n) = Node(kind, id, kids)
      BY <2>2, <2>6, ItemNodesAt DEF item
    <3>2. kids \in Seq(C) /\ id \in Seq(STRING)
      BY <2>2 DEF item, IsItem
    <3> HIDE DEF kids, id
    <3>3. NodeOK(Node(kind, id, kids), C) /\ Node(kind, id, kids).kind = kind
      BY <3>2, NewNodeOK
    <3> QED BY <3>1, <3>3
  <2>7. CASE \E k \in 1..Len(item.exprs) : n = ItemExpr(d, i, k)
    <3>1. PICK k \in 1..Len(item.exprs) : n = ItemExpr(d, i, k)
      BY <2>7
    <3>2. k \in Nat \ {0}
      BY <2>2, <3>1 DEF item
    <3>3. NodeAt(decl, n) = Leaf(item.exprs[k]) /\ IsLeaf(item.exprs[k], ExprKinds)
      BY <2>2, <3>1, <3>2, ItemNodesAt DEF item, IsItem
    <3> QED BY <3>3, LeafOK DEF ExprKinds
  <2> QED BY <2>1, <2>4, <2>5, <2>6, <2>7 DEF InItem, item
<1> QED BY <1>1, <1>2, <1>3, <1>4 DEF InDecl

\* The AST as a whole.
LEMMA AstOK ==
  ASSUME NEW p \in Seq(Declarations), NEW linked \in 0..Len(p)
  PROVE  LET h == Ast(p, linked)
         IN /\ h = [n \in DOMAIN h |-> h[n]]
            /\ Root \in DOMAIN h /\ h[Root].kind = "Module"
            /\ \A d \in 1..Len(p) : Decl(d) \in DOMAIN h
            /\ \A n \in DOMAIN h :
                  /\ NodeOK(h[n], DOMAIN h)
                  /\ h[n].kind = "Enum" =>
                        \A k \in 1..Len(AllLabels(p[n[1]].of)) : Label(n[1], k) \in DOMAIN h
<1> DEFINE h == Ast(p, linked)
           C == DOMAIN h
<1>1. \A n : /\ n \in C <=> n = Root \/ \E d \in 1..Len(p) : InDecl(d, p[d], n)
             /\ \A d \in 1..Len(p) : InDecl(d, p[d], n) => h[n] = NodeAt(p[d], n)
  BY AstAt
<1>2. h[Root] = Node("Module", ModuleName, [d \in 1..linked |-> Decl(d)]) /\ h = [n \in DOMAIN h |-> h[n]]
  BY AstAt, Zenon
<1>3. \A d \in 1..Len(p) : IsDecl(p[d])
  BY ProgramsAssumption
<1> HIDE DEF h
<1>4. \A d \in 1..Len(p) : Decl(d) \in C
  BY <1>1 DEF InDecl
<1>5. NodeOK(h[Root], C) /\ h[Root].kind = "Module"
  <2> DEFINE kids == [d \in 1..linked |-> Decl(d)]
             kind == "Module"
             id == ModuleName
  <2>1. linked \in Nat /\ \A d \in 1..linked : Decl(d) \in C
    BY <1>4
  <2> HIDE DEF C
  <2>2. kids \in Seq(C)
    BY <2>1, IsASeq
  <2>3. id \in Seq(STRING)
    BY ProgramsAssumption
  <2> HIDE DEF kids, id
  <2>4. NodeOK(Node(kind, id, kids), C) /\ Node(kind, id, kids).kind = kind
    BY <2>2, <2>3, NewNodeOK
  <2> QED BY <1>2, <2>4 DEF kids, id
<1>6. ASSUME NEW n \in C, n # Root
      PROVE  /\ NodeOK(h[n], C)
             /\ h[n].kind = "Enum" => \A k \in 1..Len(AllLabels(p[n[1]].of)) : Label(n[1], k) \in C
  <2>1. PICK d \in 1..Len(p) : InDecl(d, p[d], n)
    BY <1>1, <1>6
  <2>2. h[n] = NodeAt(p[d], n) /\ n[1] = d
    BY <1>1, <2>1, PlaceHead
  <2>3. \A m : InDecl(d, p[d], m) => m \in C
    BY <1>1
  <2> HIDE DEF C
  <2>4. NodeOK(NodeAt(p[d], n), C) /\ (NodeAt(p[d], n).kind = "Enum" => n = Part(d) /\ IsEnum(p[d]))
    BY <1>3, <2>1, <2>3, InDeclOK
  <2>5. IsEnum(p[d]) => \A k \in 1..Len(AllLabels(p[d].of)) : Label(d, k) \in C
    BY <2>3 DEF InDecl
  <2> QED BY <2>2, <2>4, <2>5
<1>7. \A n \in C : /\ NodeOK(h[n], C)
                   /\ h[n].kind = "Enum" =>
                         \A k \in 1..Len(AllLabels(p[n[1]].of)) : Label(n[1], k) \in C
  <2>1. h[Root].kind # "Enum"
    BY <1>5
  <2> QED BY <1>5, <1>6, <2>1
<1>8. Root \in C
  BY <1>1
<1> HIDE DEF C
<1> QED BY <1>2, <1>4, <1>5, <1>7, <1>8 DEF h, C

\* The scopes the nodes come with.
LEMMA FirstScopesOK ==
  ASSUME NEW C, NEW S, NEW d, NEW t, \A k \in 1..Len(AllLabels(t)) : Label(d, k) \in C
  PROVE  ScopeOK(NewScope, C, S) /\ ScopeOK(EnumScope(d, t), C, S)
<1> DEFINE n == 1..Len(AllLabels(t))
           values == [id \in {<<AllLabels(t)[k]>> : k \in n} |->
                         {Label(d, k) : k \in {j \in n : id = <<AllLabels(t)[j]>>}}]
<1>1. ScopeOK(NewScope, C, S)
  BY DEF ScopeOK, NewScope
<1>2. \A id \in DOMAIN values : values[id] \subseteq C
  OBVIOUS
<1>3. EnumScope(d, t) = [NewScope EXCEPT !.values = values]
  BY Zenon DEF EnumScope
<1> HIDE DEF values
<1>4. [NewScope EXCEPT !.values = values] = [values |-> values, children |-> <<>>, parent |-> None]
  BY DEF NewScope
<1>5. ScopeOK([values |-> values, children |-> <<>>, parent |-> None], C, S)
  BY <1>2 DEF ScopeOK
<1> QED BY <1>1, <1>3, <1>4, <1>5

\* The state that executePasses starts from.
LEMMA InitAstInv == Init => AstInv
<1> SUFFICES ASSUME Init PROVE AstInv
  OBVIOUS
<1>1. PICK p \in Programs : program = p \o Builtins
  BY DEF Init
<1>2. p \in Seq(Declarations) /\ Builtins \in Seq(Declarations)
  BY ProgramsAssumption
<1>3. program \in Seq(Declarations) /\ Len(program) - Len(Builtins) \in 0..Len(program)
  BY <1>1, <1>2
<1> DEFINE linked == Len(program) - Len(Builtins)
<1>4. heap = Ast(program, linked) /\ linked \in 0..Len(program)
  BY <1>3 DEF Init
<1>5. /\ cell = [n \in DOMAIN heap |-> n] /\ node_ptr = cell
      /\ scope = [s \in {n \in DOMAIN heap : heap[n].kind \in {"Module", "Unit", "Enum"} \cup ItemKinds} |->
                    IF heap[s].kind = "Enum" THEN EnumScope(s[1], program[s[1]].of) ELSE NewScope]
      /\ pass = 1 /\ stack = <<>> /\ result = "running"
  BY DEF Init
<1> HIDE DEF Init, linked
<1>6. /\ heap = [n \in DOMAIN heap |-> heap[n]]
      /\ Root \in DOMAIN heap /\ heap[Root].kind = "Module"
      /\ \A d \in 1..Len(program) : Decl(d) \in DOMAIN heap
      /\ \A n \in DOMAIN heap :
            /\ NodeOK(heap[n], DOMAIN heap)
            /\ heap[n].kind = "Enum" =>
                  \A k \in 1..Len(AllLabels(program[n[1]].of)) : Label(n[1], k) \in DOMAIN heap
  BY <1>3, <1>4, AstOK
<1>7. DOMAIN cell = DOMAIN heap /\ DOMAIN node_ptr = DOMAIN heap /\ cell \in [DOMAIN cell -> DOMAIN heap]
      /\ node_ptr = [n \in DOMAIN node_ptr |-> node_ptr[n]]
  BY <1>5
<1>8. /\ scope = [t \in DOMAIN scope |-> scope[t]]
      /\ \A n \in DOMAIN heap : heap[n].kind \in {"Module", "Unit", "Enum"} \cup ItemKinds => n \in DOMAIN scope
      /\ \A s \in DOMAIN scope :
            /\ s \in DOMAIN heap
            /\ scope[s] = IF heap[s].kind = "Enum" THEN EnumScope(s[1], program[s[1]].of) ELSE NewScope
  BY <1>5
<1>9. ASSUME NEW s \in DOMAIN scope PROVE ScopeOK(scope[s], DOMAIN cell, DOMAIN scope)
  <2>1. CASE heap[s].kind = "Enum"
    <3> DEFINE t == program[s[1]].of
               d == s[1]
               C == DOMAIN cell
               S == DOMAIN scope
    <3>1. \A k \in 1..Len(AllLabels(t)) : Label(d, k) \in C
      BY <1>6, <1>7, <1>8, <2>1
    <3>2. scope[s] = EnumScope(d, t)
      BY <1>8, <2>1
    <3> HIDE DEF t, d, C, S
    <3>3. ScopeOK(EnumScope(d, t), C, S)
      BY <3>1, FirstScopesOK
    <3> QED BY <3>2, <3>3 DEF C, S
  <2>2. CASE heap[s].kind # "Enum"
    <3>1. scope[s] = NewScope
      BY <1>8, <2>2
    <3> QED BY <3>1 DEF ScopeOK, NewScope
  <2> QED BY <2>1, <2>2
<1>10. Graph(heap, cell, node_ptr, scope)
  BY <1>6, <1>7, <1>8, <1>9 DEF Graph, Scoped
<1>11. stack \in Seq(Frames(DOMAIN cell)) /\ pass \in 1..Len(Passes)
  BY <1>5 DEF Passes
<1> QED BY <1>3, <1>5, <1>6, <1>7, <1>10, <1>11 DEF AstInv

\* run() of a pass: the built-in declarations are children like the others, and the
\* visitor starts at the module.
LEMMA BeginPassOK == ASSUME AstInv, BeginPass PROVE AstInv'
<1> DEFINE C == DOMAIN cell
           kids == [d \in 1..Len(program) |-> Decl(d)]
           r == heap[Root]
           frame == [cell |-> None, kids |-> <<Root>>, next |-> 1]
<1>1. /\ Graph(heap, cell, node_ptr, scope) /\ program \in Seq(Declarations)
      /\ \A d \in 1..Len(program) : Decl(d) \in C
      /\ Root \in C /\ Root \in DOMAIN heap /\ NodeOK(r, C) /\ r.kind = "Module" /\ heap = [n \in DOMAIN heap |-> heap[n]]
  BY DEF AstInv, Graph
<1>2. kids \in Seq(C)
  <2>1. Len(program) \in Nat
    BY <1>1
  <2> HIDE DEF C
  <2> QED BY <1>1, <2>1, IsASeq
<1>3. Graph(WithBuiltins, cell, node_ptr, scope)
  <2>1. WithBuiltins = [heap EXCEPT ![Root] = [r EXCEPT !.kids = kids]]
    BY Zenon DEF WithBuiltins
  <2> HIDE DEF kids, r, C
  <2> DEFINE q == [kind |-> r.kind, id |-> r.id, kids |-> kids, type |-> r.type,
                   serialized_type |-> r.serialized_type, transform_to |-> r.transform_to, unit |-> r.unit]
  <2>2. [r EXCEPT !.kids = kids] = q
    BY <1>1 DEF NodeOK
  <2>3. NodeOK(q, C) /\ q.kind = r.kind
    BY <1>1, <1>2 DEF NodeOK
  <2> HIDE DEF q
  <2> QED BY <1>1, <2>1, <2>2, <2>3, GraphWithNode, Zenon DEF C, r
<1>4. Graph(heap', cell', node_ptr', scope')
  <2>1. heap' \in {WithBuiltins, heap} /\ UNCHANGED <<cell, node_ptr, scope>>
    BY DEF BeginPass
  <2> HIDE DEF r, C, kids
  <2> QED BY <1>1, <1>3, <2>1
<1>5. stack' \in Seq(Frames(DOMAIN cell'))
  <2>1. stack' = <<frame>> /\ cell' = cell
    BY DEF BeginPass
  <2>2. <<Root>> \in Seq(C)
    BY <1>1
  <2>3. frame \in Frames(C)
    BY <2>2 DEF Frames
  <2> HIDE DEF frame
  <2> QED BY <2>1, <2>3
<1>6. UNCHANGED <<program, cell, pass, result>>
  BY DEF BeginPass
<1> HIDE DEF C, kids, r, frame
<1> QED BY <1>4, <1>5, <1>6 DEF AstInv

\* The return from preOrder, and from run().
LEMMA ReturnOK == ASSUME AstInv, Return PROVE AstInv'
<1>1. stack \in Seq(Frames(DOMAIN cell)) /\ stack # <<>> /\ stack' = SubSeq(stack, 1, Len(stack) - 1)
  BY DEF AstInv, Return
<1>2. stack' \in Seq(Frames(DOMAIN cell))
  <2> DEFINE F == Frames(DOMAIN cell)
  <2> HIDE DEF F
  <2> QED BY <1>1, SubSeqProperties, LenProperties, EmptySeq DEF F
<1>3. pass' \in 1..Len(Passes) /\ result' \in {"running", "ok", "failed", "crash"}
  BY DEF AstInv, Return, Passes
<1>4. UNCHANGED <<program, heap, cell, node_ptr, scope>>
  BY DEF Return
<1> QED BY <1>2, <1>3, <1>4 DEF AstInv

\* Everything a pass follows is there at every step.
LEMMA NextAstInv == AstInv /\ [Next]_vars => AstInv'
<1> SUFFICES ASSUME AstInv, [Next]_vars PROVE AstInv'
  OBVIOUS
<1>1. CASE SkipVisited
  <2>1. stack' = Advanced /\ stack # <<>> /\ UNCHANGED <<program, heap, cell, node_ptr, scope, pass, result>>
    BY <1>1 DEF SkipVisited, Arriving
  <2>2. Advanced \in Seq(Frames(DOMAIN cell))
    BY <2>1, AdvancedOK DEF AstInv
  <2> QED BY <2>1, <2>2 DEF AstInv
<1>2. CASE Instantiations
  <2>1. /\ UNCHANGED <<program, heap, cell, node_ptr, scope, stack>>
        /\ pass' \in 1..Len(Passes) /\ result' \in {"running", "ok", "failed", "crash"}
    BY <1>2 DEF Instantiations, visitor, Running, Passes, AstInv
  <2> QED BY <2>1 DEF AstInv
<1>3. CASE Done \/ UNCHANGED vars
  <2>1. UNCHANGED <<program, heap, cell, node_ptr, scope, stack, pass, result>>
    BY <1>3 DEF Done, vars, visitor
  <2> QED BY <2>1 DEF AstInv
<1> QED BY <1>1, <1>2, <1>3, BeginPassOK, ReturnOK, VisitOK DEF Next

\* In every module, and at every point of the passes, every pointer of a node and
\* every value of a name is a node_ptr that holds a node, and every unit, enum and
\* item has its scope: what a visit or a lookup follows is there, whatever other
\* visits have replaced, removed or made.
THEOREM AstCorrect == Spec => []AstInv
BY InitAstInv, NextAstInv, PTL DEF Spec

\* In every module, and at every point of the passes, node_ptrs hold nodes, children
\* are node_ptrs, and the parent of a scope is a scope.
THEOREM NothingDangles == Spec => []TypeOK
<1>1. AstInv => TypeOK
  <2> SUFFICES ASSUME AstInv PROVE TypeOK
    OBVIOUS
  <2>1. Graph(heap, cell, node_ptr, scope)
    BY DEF AstInv
  <2>2. \A n \in DOMAIN heap : \A k \in 1..Len(heap[n].kids) : heap[n].kids[k] \in DOMAIN cell
    <3> SUFFICES ASSUME NEW n \in DOMAIN heap, NEW k \in 1..Len(heap[n].kids)
                 PROVE  heap[n].kids[k] \in DOMAIN cell
      OBVIOUS
    <3>1. heap[n].kids \in Seq(DOMAIN cell)
      BY <2>1 DEF Graph, NodeOK
    <3> QED BY <3>1, ElementOfSeq
  <2>3. \A s \in DOMAIN scope : scope[s].parent \in {None} \cup DOMAIN scope
    BY <2>1 DEF Graph, ScopeOK
  <2>4. /\ DOMAIN cell \subseteq DOMAIN heap /\ DOMAIN node_ptr = DOMAIN heap
        /\ \A c \in DOMAIN cell : cell[c] \in DOMAIN heap
    BY <2>1 DEF Graph
  <2> QED BY <2>2, <2>3, <2>4 DEF AstInv, TypeOK
<1> QED BY <1>1, AstCorrect, PTL
================================================================================
