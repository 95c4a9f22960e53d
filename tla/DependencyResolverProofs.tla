------------------------ MODULE DependencyResolverProofs -----------------------
(***************************************************************************)
(* The loop of InstantiationDependencyResolver computes the least solution *)
(* of the dependency map, for every map and every instantiation.           *)
(***************************************************************************)
EXTENDS DependencyResolver, SequenceTheorems, TLAPS

\* Entries of the map have ids and contexts.
LEMMA EdgeType ==
  ASSUME TypeOK, NEW x \in Ids, NEW k \in 1..Len(map[x])
  PROVE  map[x][k] \in Entry
BY DEF TypeOK

\* What is handed on along an entry is part of it.
LEMMA PassedType ==
  ASSUME NEW c, NEW d \in SUBSET MapFlags
  PROVE  Passed(c, d) \in SUBSET MapFlags
BY DEF Passed

\* The initial state is well typed.
LEMMA InitType == Init => TypeOK
<1> SUFFICES ASSUME Init PROVE TypeOK
  OBVIOUS
<1>1. map \in [Ids -> Seq(Entry)] /\ items \in Seq(Ids \ {Length}) /\ Length \in Ids
  BY InstantiationsAssumption DEF Init, Initial
<1>2. dependencies \in Seq(Dependency)
  BY <1>1 DEF Init, Initial, Dependency, Flags, MapFlags, APPLICATION, PARSING
<1>3. to_add \in Seq(Entry) /\ changed \in BOOLEAN
  BY EmptySeq, Zenon DEF Init, Initial
<1>4. pc = "collect" /\ i = 1 /\ j = 1
  BY DEF Init, Initial
<1> QED BY <1>1, <1>2, <1>3, <1>4 DEF TypeOK

\* Every step keeps the types.
LEMMA NextType == TypeOK /\ RoundInv /\ [Next]_vars => TypeOK'
<1> SUFFICES ASSUME TypeOK, RoundInv, [Next]_vars PROVE TypeOK'
  OBVIOUS
<1> USE DEF TypeOK
<1>1. CASE Follow
  <2> DEFINE dep == dependencies[i]
             e == map[dep.id][j]
             c == Passed(dep.context, e.context)
             new == [id |-> e.id, context |-> c]
  <2>1. dep \in Dependency
    BY <1>1 DEF Follow
  <2>2. e \in Entry
    BY <1>1, <2>1, EdgeType DEF Follow, Dependency
  <2>3. new \in Entry
    BY <2>2, PassedType DEF Entry
  <2>4. to_add' = Append(to_add, new) \/ to_add' = to_add
    BY <1>1 DEF Follow
  <2> HIDE DEF new
  <2>5. to_add' \in Seq(Entry)
    <3>1. to_add \in Seq(Entry)
      OBVIOUS
    <3>2. Append(to_add, new) \in Seq(Entry)
      BY <2>3, <3>1, AppendProperties
    <3> QED BY <2>4, <3>1, <3>2
  <2> QED BY <1>1, <2>5, SMTT(30) DEF Follow, inst
<1>2. CASE NextDependency
  BY <1>2 DEF NextDependency, inst
<1>3. CASE BeginMerge
  BY <1>3 DEF BeginMerge, inst
<1>4. CASE MergeFound
  <2>1. PICK k \in 1..Len(dependencies) :
           /\ dependencies' = [dependencies EXCEPT ![k].context = Joined(@, to_add[i].context)]
           /\ changed' = IF Grew(dependencies[k].context, to_add[i].context) THEN TRUE ELSE changed
    BY <1>4 DEF MergeFound
  <2>a. to_add[i] \in Entry
    BY <1>4 DEF MergeFound
  <2>2. to_add[i].context \in SUBSET MapFlags
    BY <2>a DEF Entry
  <2>3. dependencies[k] \in Dependency
    OBVIOUS
  <2>4. [dependencies[k] EXCEPT !.context = Joined(@, to_add[i].context)] \in Dependency
    BY <2>2, <2>3 DEF Dependency, Joined, Flags
  <2>5. dependencies' \in Seq(Dependency)
    BY <2>1, <2>4
  <2>6. changed' \in BOOLEAN
    BY <2>1, Zenon
  <2>7. /\ UNCHANGED <<map, items, to_add, pc, j>>
        /\ i' = i + 1
    BY <1>4 DEF MergeFound, inst
  <2> QED BY <2>5, <2>6, <2>7
<1>5. CASE MergeNew
  <2>1. to_add[i] \in Entry
    BY <1>5 DEF MergeNew
  <2>2. to_add[i] \in Dependency
    BY <2>1 DEF Entry, Dependency, Flags
  <2> QED BY <1>5, <2>2 DEF MergeNew, inst
<1>6. CASE NextRound
  <2>1. to_add' \in Seq(Entry) /\ changed' \in BOOLEAN
    BY <1>6, EmptySeq, Zenon DEF NextRound
  <2> QED BY <1>6, <2>1 DEF NextRound, inst
<1>7. CASE Finish
  <2>1. dependencies' \in Seq(Dependency)
    <3>1. dependencies # <<>>
      BY <1>7, EmptySeq DEF Finish, RoundInv
    <3> QED BY <1>7, <3>1, HeadTailProperties DEF Finish
  <2> QED BY <1>7, <2>1 DEF Finish, inst
<1>8. CASE UNCHANGED vars
  BY <1>8 DEF vars, inst
<1> QED BY <1>1, <1>2, <1>3, <1>4, <1>5, <1>6, <1>7, <1>8 DEF Next


\* At first only the seeds are there, __length in front.
LEMMA InitRound == Init => RoundInv
<1> SUFFICES ASSUME Init PROVE RoundInv
  OBVIOUS
<1>1. TypeOK
  BY InitType
<1>2. Len(items) \in Nat /\ Len(dependencies) = Len(items) + 1
  BY <1>1 DEF Init, Initial, TypeOK
<1>3. dependencies[1] = [id |-> Length, context |-> {PARSING}]
  BY <1>2 DEF Init, Initial
<1>4. \A k \in 1..Len(items) : /\ dependencies[k + 1].id = items[k]
                                /\ dependencies[k + 1].context = {APPLICATION}
  <2> SUFFICES ASSUME NEW k \in 1..Len(items)
               PROVE  /\ dependencies[k + 1].id = items[k]
                      /\ dependencies[k + 1].context = {APPLICATION}
    OBVIOUS
  <2>1. k + 1 \in 1..(Len(items) + 1) /\ k + 1 # 1 /\ (k + 1) - 1 = k
    BY <1>2
  <2> QED BY <2>1 DEF Init, Initial
<1>5. \A k \in 1..Len(items) : items[k] # Length /\ Has(items[k], APPLICATION)
  <2> SUFFICES ASSUME NEW k \in 1..Len(items)
               PROVE  items[k] # Length /\ Has(items[k], APPLICATION)
    OBVIOUS
  <2>1. items[k] # Length
    BY <1>1, ElementOfSeq DEF TypeOK
  <2>2. k + 1 \in 1..Len(dependencies)
    BY <1>2
  <2>3. dependencies[k + 1].id = items[k] /\ APPLICATION \in dependencies[k + 1].context
    BY <1>4
  <2> QED BY <2>1, <2>2, <2>3 DEF Has
<1>6. \A k \in 2..Len(dependencies) : dependencies[k].id # Length
  <2> SUFFICES ASSUME NEW k \in 2..Len(dependencies) PROVE dependencies[k].id # Length
    OBVIOUS
  <2>1. PICK m \in 1..Len(items) : m + 1 = k
    BY <1>2
  <2>2. dependencies[m + 1].id = items[m]
    BY <1>4
  <2> QED BY <1>5, <2>1, <2>2
<1>7. pc = "collect" /\ changed = FALSE /\ i = 1 /\ j = 1
  BY DEF Init, Initial
<1>8. \A k \in 1..Len(dependencies) : \A l \in 1..Len(map[dependencies[k].id]) :
         k < i \/ (k = i /\ l < j) => Handed(k, l)
  BY <1>1, <1>2, <1>7 DEF TypeOK
<1> QED BY <1>2, <1>3, <1>5, <1>6, <1>7, <1>8 DEF RoundInv

\* What a step of the inner loop reads and writes.
LEMMA FollowFacts ==
  ASSUME TypeOK, Follow
  PROVE  LET dep == dependencies[i]
             e == map[dep.id][j]
             c == Passed(dep.context, e.context)
         IN /\ pc = "collect" /\ i \in 1..Len(dependencies) /\ j \in 1..Len(map[dep.id])
            /\ map' = map /\ items' = items /\ dependencies' = dependencies
            /\ changed' = changed /\ pc' = pc /\ i' = i /\ j' = j + 1
            /\ to_add' = IF APPLICATION \in dep.context \/ c # {}
                         THEN Append(to_add, [id |-> e.id, context |-> c]) ELSE to_add
<1>1. /\ pc = "collect" /\ i <= Len(dependencies) /\ j <= Len(map[dependencies[i].id])
      /\ map' = map /\ items' = items /\ dependencies' = dependencies
      /\ changed' = changed /\ pc' = pc /\ i' = i /\ j' = j + 1
  BY DEF Follow, inst
<1>2. i \in Nat \ {0} /\ j \in Nat \ {0}
  BY DEF TypeOK
<1>3. Len(dependencies) \in Nat
  BY LenProperties DEF TypeOK
<1>4. i \in 1..Len(dependencies)
  BY <1>1, <1>2, <1>3
<1>5. dependencies[i] \in Dependency
  BY <1>4, ElementOfSeq DEF TypeOK
<1>6. map[dependencies[i].id] \in Seq(Entry)
  BY <1>5 DEF TypeOK, Dependency
<1>7. Len(map[dependencies[i].id]) \in Nat
  BY <1>6, LenProperties
<1>8. j \in 1..Len(map[dependencies[i].id])
  BY <1>1, <1>2, <1>7
<1> QED BY <1>1, <1>4, <1>8, Zenon DEF Follow

\* What is collected stays collected, and every followed entry is.
LEMMA FollowRound == TypeOK /\ RoundInv /\ Follow => RoundInv'
<1> SUFFICES ASSUME TypeOK, RoundInv, Follow PROVE RoundInv'
  OBVIOUS
<1> DEFINE dep == dependencies[i]
           e == map[dep.id][j]
           c == Passed(dep.context, e.context)
           new == [id |-> e.id, context |-> c]
<1>1. /\ pc = "collect" /\ i \in 1..Len(dependencies) /\ j \in 1..Len(map[dep.id])
      /\ map' = map /\ items' = items /\ dependencies' = dependencies
      /\ changed' = changed /\ pc' = pc /\ i' = i /\ j' = j + 1
      /\ to_add' = IF APPLICATION \in dep.context \/ c # {} THEN Append(to_add, new) ELSE to_add
  BY FollowFacts, Zenon
<1>2. dep \in Dependency /\ e \in Entry /\ to_add \in Seq(Entry)
  <2>1. dep \in Dependency /\ to_add \in Seq(Entry)
    BY <1>1 DEF TypeOK
  <2>2. dep.id \in Ids
    BY <2>1 DEF Dependency
  <2> QED BY <1>1, <2>1, <2>2, EdgeType
<1>3. new \in Entry
  BY <1>2, PassedType DEF Entry
<1>4. \A n \in 1..Len(to_add) : n \in 1..Len(to_add') /\ to_add'[n] = to_add[n]
  <2> HIDE DEF new
  <2>1. CASE to_add' = to_add
    BY <2>1
  <2>2. CASE to_add' = Append(to_add, new)
    <3>1. Len(to_add) \in Nat /\ Len(to_add') = Len(to_add) + 1
      BY <1>2, <1>3, <2>2, AppendProperties
    <3> QED BY <1>2, <1>3, <2>2, <3>1, AppendProperties
  <2> QED BY <1>1, <2>1, <2>2
<1>5. \A k, l : Handed(k, l) => Handed(k, l)'
  <2> HIDE DEF dep, e, c, new
  <2>0. map' = map /\ dependencies' = dependencies
    BY <1>1
  <2> SUFFICES ASSUME NEW k, NEW l, Handed(k, l)
               PROVE  Handed(k, l)'
    OBVIOUS
  <2> SUFFICES ASSUME NEW f \in map[dependencies[k].id][l].context,
                      APPLICATION \in dependencies[k].context \/ f \in dependencies[k].context
               PROVE  \E n \in 1..Len(to_add') : /\ to_add'[n].id = map[dependencies[k].id][l].id
                                                /\ f \in to_add'[n].context
    BY <2>0, Zenon DEF Handed
  <2>1. PICK n \in 1..Len(to_add) : /\ to_add[n].id = map[dependencies[k].id][l].id
                                    /\ f \in to_add[n].context
    BY Zenon DEF Handed
  <2>2. n \in 1..Len(to_add') /\ to_add'[n] = to_add[n]
    BY <1>4, Zenon
  <2> QED BY <2>1, <2>2, Zenon
<1>6. ASSUME NEW k, NEW l, k = i, l = j PROVE Handed(k, l)'
  <2> SUFFICES ASSUME NEW f \in e.context, APPLICATION \in dep.context \/ f \in dep.context
               PROVE  \E n \in 1..Len(to_add') : to_add'[n].id = e.id /\ f \in to_add'[n].context
    BY <1>1, <1>6 DEF Handed
  <2>1. f \in c
    BY DEF Passed
  <2>2. to_add' = Append(to_add, new)
    BY <1>1, <2>1
  <2>3. Len(to_add) + 1 \in 1..Len(to_add') /\ to_add'[Len(to_add) + 1] = new
    <3> HIDE DEF new
    <3> QED BY <1>2, <1>3, <2>2, AppendProperties, LenProperties
  <2> QED BY <2>1, <2>3
<1>7. \A k \in 1..Len(dependencies) : \A l \in 1..Len(map[dependencies[k].id]) :
         k < i \/ (k = i /\ l < j + 1) => Handed(k, l)'
  <2> SUFFICES ASSUME NEW k \in 1..Len(dependencies), NEW l \in 1..Len(map[dependencies[k].id]),
                      k < i \/ (k = i /\ l < j + 1)
               PROVE  Handed(k, l)'
    OBVIOUS
  <2>1. k < i \/ (k = i /\ l < j) \/ (k = i /\ l = j)
    BY <1>1
  <2>2. k < i \/ (k = i /\ l < j) => Handed(k, l)
    BY <1>1 DEF RoundInv
  <2> QED BY <2>1, <2>2, <1>5, <1>6
<1>8. \A x, f : Has(x, f)' <=> Has(x, f)
  BY <1>1 DEF Has
<1> QED BY <1>1, <1>7, <1>8 DEF RoundInv

\* Merging into a dependency found: it is not __length's, and if it did not
\* grow the list is as before.
LEMMA MergeFoundRound == TypeOK /\ RoundInv /\ MergeFound => RoundInv'
<1> SUFFICES ASSUME TypeOK, RoundInv, MergeFound PROVE RoundInv'
  OBVIOUS
<1> DEFINE new == to_add[i]
<1>1. PICK k \in 1..Len(dependencies) :
         /\ Found(new.id, k)
         /\ dependencies' = [dependencies EXCEPT ![k].context = Joined(@, new.context)]
         /\ changed' = IF Grew(dependencies[k].context, new.context) THEN TRUE ELSE changed
  BY DEF MergeFound
<1>2. /\ pc = "merge" /\ i \in 1..Len(to_add) /\ i' = i + 1
      /\ UNCHANGED <<map, items, to_add, pc, j>>
  BY DEF MergeFound, inst, TypeOK
<1>3. dependencies \in Seq(Dependency) /\ to_add \in Seq(Entry)
  BY DEF TypeOK
<1>4. new \in Entry
  BY <1>2, <1>3, ElementOfSeq
<1>5. dependencies[k].id = new.id /\ k # 1
  BY <1>1, <1>2, <1>4 DEF Found, Entry, RoundInv
<1>6. /\ Len(dependencies') = Len(dependencies)
      /\ \A l \in 1..Len(dependencies) :
            /\ dependencies'[l].id = dependencies[l].id
            /\ l # k => dependencies'[l] = dependencies[l]
            /\ dependencies[l].context \subseteq dependencies'[l].context
  <2>1. Len(dependencies') = Len(dependencies)
    BY <1>1, <1>3
  <2> SUFFICES ASSUME NEW l \in 1..Len(dependencies)
               PROVE  /\ dependencies'[l].id = dependencies[l].id
                      /\ l # k => dependencies'[l] = dependencies[l]
                      /\ dependencies[l].context \subseteq dependencies'[l].context
    BY <2>1
  <2>2. dependencies[l] \in Dependency
    BY <1>3, ElementOfSeq
  <2>3. CASE l # k
    BY <1>1, <1>3, <2>3
  <2>4. CASE l = k
    <3>1. dependencies'[k] = [dependencies[k] EXCEPT !.context = Joined(@, new.context)]
      BY <1>1, <1>3
    <3>2. /\ dependencies'[k].id = dependencies[k].id
          /\ dependencies'[k].context = Joined(dependencies[k].context, new.context)
      BY <2>2, <2>4, <3>1 DEF Dependency
    <3> QED BY <2>4, <3>2 DEF Joined
  <2> QED BY <2>3, <2>4
<1>7. \A x, f : Has(x, f) => Has(x, f)'
  BY <1>2, <1>6 DEF Has
<1>8. ASSUME changed' = FALSE
      PROVE  changed = FALSE /\ dependencies' = dependencies
             /\ new.context \subseteq dependencies[k].context
  <2>1. ~Grew(dependencies[k].context, new.context) /\ changed = FALSE
    BY <1>1, <1>8
  <2>2. Joined(dependencies[k].context, new.context) = dependencies[k].context
    BY <2>1 DEF Grew
  <2>3. dependencies[k] \in Dependency
    BY <1>3, ElementOfSeq
  <2>4. [dependencies[k] EXCEPT !.context = Joined(@, new.context)] = dependencies[k]
    BY <2>2, <2>3 DEF Dependency
  <2>5. dependencies' = dependencies
    BY <1>1, <1>3, <2>4
  <2> QED BY <2>1, <2>2, <2>5 DEF Joined
<1>9. /\ Len(dependencies') >= 1
      /\ dependencies'[1] = [id |-> Length, context |-> {PARSING}]
      /\ \A l \in 2..Len(dependencies') : dependencies'[l].id # Length
      /\ \A l \in 1..Len(items) : Has(items[l], APPLICATION)'
  BY <1>2, <1>3, <1>5, <1>6, <1>7 DEF RoundInv
<1>10. ASSUME changed' = FALSE
       PROVE  /\ \A m \in 1..Len(dependencies') : \A l \in 1..Len(map[dependencies'[m].id]) :
                    Handed(m, l)'
              /\ \A n \in 1..Len(to_add) : n < i + 1 =>
                    \A f \in to_add[n].context : Has(to_add[n].id, f)'
  <2>1. changed = FALSE /\ dependencies' = dependencies
    BY <1>8, <1>10
  <2>2. \A m, l : Handed(m, l) => Handed(m, l)'
    BY <1>2, <2>1 DEF Handed
  <2>3. \A f \in new.context : Has(new.id, f)
    BY <1>5, <1>8, <1>10 DEF Has
  <2>4. \A n \in 1..Len(to_add) : n < i + 1 => n < i \/ n = i
    BY <1>2
  <2>5. /\ \A m \in 1..Len(dependencies) : \A l \in 1..Len(map[dependencies[m].id]) : Handed(m, l)
        /\ \A n \in 1..Len(to_add) : n < i => \A f \in to_add[n].context : Has(to_add[n].id, f)
    BY <1>2, <2>1 DEF RoundInv
  <2>6. \A n \in 1..Len(to_add) : n < i + 1 =>
           \A f \in to_add[n].context : Has(to_add[n].id, f)
    BY <2>3, <2>4, <2>5
  <2>7. \A n \in 1..Len(to_add) : n < i + 1 =>
           \A f \in to_add[n].context : Has(to_add[n].id, f)'
    BY <1>2, <2>1, <2>6 DEF Has
  <2> QED BY <1>2, <2>1, <2>2, <2>5, <2>7
<1> QED BY <1>2, <1>9, <1>10 DEF RoundInv

\* The other steps of the loop.
LEMMA OtherRound ==
  TypeOK /\ RoundInv /\ (NextDependency \/ BeginMerge \/ MergeNew \/ NextRound \/ Finish)
    => RoundInv'
<1> SUFFICES ASSUME TypeOK, RoundInv,
                    NextDependency \/ BeginMerge \/ MergeNew \/ NextRound \/ Finish
             PROVE  RoundInv'
  OBVIOUS
<1>1. CASE NextDependency
  <2>1. /\ pc = "collect" /\ i \in 1..Len(dependencies) /\ j > Len(map[dependencies[i].id])
        /\ UNCHANGED <<map, items, dependencies, to_add, changed, pc>> /\ i' = i + 1 /\ j' = 1
    BY <1>1 DEF NextDependency, inst, TypeOK
  <2>2. (\A k, l : Handed(k, l)' <=> Handed(k, l)) /\ (\A x, f : Has(x, f)' <=> Has(x, f))
    BY <2>1 DEF Handed, Has
  <2>3. \A k \in 1..Len(dependencies) : \A l \in 1..Len(map[dependencies[k].id]) :
           k < i + 1 \/ (k = i + 1 /\ l < 1) => Handed(k, l)
    <3> SUFFICES ASSUME NEW k \in 1..Len(dependencies),
                        NEW l \in 1..Len(map[dependencies[k].id]),
                        k < i + 1 \/ (k = i + 1 /\ l < 1)
                 PROVE  Handed(k, l)
      OBVIOUS
    <3>1. dependencies[k] \in Dependency
      BY ElementOfSeq DEF TypeOK
    <3>2. map[dependencies[k].id] \in Seq(Entry)
      BY <3>1 DEF TypeOK, Dependency
    <3>3. Len(map[dependencies[k].id]) \in Nat
      BY <3>2, LenProperties
    <3>4. k < i \/ (k = i /\ l < j)
      BY <2>1, <3>3 DEF TypeOK
    <3> QED BY <2>1, <3>4 DEF RoundInv
  <2> QED BY <2>1, <2>2, <2>3 DEF RoundInv
<1>2. CASE BeginMerge
  <2>1. /\ pc = "collect" /\ i > Len(dependencies) /\ pc' = "merge" /\ i' = 1
        /\ UNCHANGED <<map, items, dependencies, to_add, changed>>
    BY <1>2 DEF BeginMerge, inst
  <2>2. (\A k, l : Handed(k, l)' <=> Handed(k, l)) /\ (\A x, f : Has(x, f)' <=> Has(x, f))
    BY <2>1 DEF Handed, Has
  <2>3. \A k \in 1..Len(dependencies) : k < i
    BY <2>1 DEF TypeOK
  <2>4. \A n \in 1..Len(to_add) : ~(n < 1)
    OBVIOUS
  <2> QED BY <2>1, <2>2, <2>3, <2>4 DEF RoundInv
<1>3. CASE MergeNew
  <2> DEFINE new == to_add[i]
  <2>1. /\ pc = "merge" /\ pc' = pc /\ i \in 1..Len(to_add) /\ changed' = TRUE
        /\ dependencies' = Append(dependencies, new) /\ UNCHANGED <<map, items>>
    BY <1>3 DEF MergeNew, inst, TypeOK
  <2>2. dependencies \in Seq(Dependency) /\ new \in Entry
    BY <2>1, ElementOfSeq DEF TypeOK
  <2>3. new \in Dependency /\ new.id # Length
    BY <2>2 DEF Entry, Dependency, Flags
  <2> HIDE DEF new
  <2>4. /\ Len(dependencies) \in Nat /\ Len(dependencies') = Len(dependencies) + 1
        /\ \A k \in 1..Len(dependencies) : dependencies'[k] = dependencies[k]
        /\ dependencies'[Len(dependencies) + 1] = new
    BY <2>1, <2>2, <2>3, AppendProperties, LenProperties
  <2>5. \A x, f : Has(x, f) => Has(x, f)'
    BY <2>1, <2>4 DEF Has
  <2>6. \A k \in 2..Len(dependencies') : dependencies'[k].id # Length
    <3> SUFFICES ASSUME NEW k \in 2..Len(dependencies') PROVE dependencies'[k].id # Length
      OBVIOUS
    <3>1. k \in 2..Len(dependencies) \/ k = Len(dependencies) + 1
      BY <2>4
    <3> QED BY <2>1, <2>3, <2>4, <3>1 DEF RoundInv
  <2>7. changed' # FALSE
    BY <2>1, Zenon
  <2>8. Len(dependencies') >= 1 /\ dependencies'[1] = [id |-> Length, context |-> {PARSING}]
    BY <2>1, <2>4 DEF RoundInv
  <2>9. \A k \in 1..Len(items) : Has(items[k], APPLICATION)'
    BY <2>1, <2>5 DEF RoundInv
  <2> QED BY <2>1, <2>6, <2>7, <2>8, <2>9 DEF RoundInv
<1>4. CASE NextRound
  <2>1. /\ pc = "merge" /\ pc' = "collect" /\ i' = 1 /\ j' = 1 /\ changed' = FALSE
        /\ UNCHANGED <<map, items, dependencies>>
    BY <1>4 DEF NextRound, inst
  <2>2. \A x, f : Has(x, f)' <=> Has(x, f)
    BY <2>1 DEF Has
  <2>3. \A k \in 1..Len(dependencies) : \A l \in 1..Len(map[dependencies[k].id]) :
           ~(k < 1 \/ (k = 1 /\ l < 1))
    OBVIOUS
  <2> QED BY <2>1, <2>2, <2>3 DEF RoundInv
<1>5. CASE Finish
  BY <1>5 DEF Finish, RoundInv
<1> QED BY <1>1, <1>2, <1>3, <1>4, <1>5

IInv == TypeOK /\ RoundInv

\* The round invariant is inductive.
LEMMA NextIInv == IInv /\ [Next]_vars => IInv'
<1> SUFFICES ASSUME IInv, [Next]_vars PROVE IInv'
  OBVIOUS
<1>1. TypeOK'
  BY NextType DEF IInv
<1>2. CASE Next
  BY <1>1, <1>2, FollowRound, MergeFoundRound, OtherRound DEF IInv, Next
<1>3. CASE UNCHANGED vars
  <2>1. /\ map' = map /\ items' = items /\ dependencies' = dependencies
        /\ to_add' = to_add /\ changed' = changed /\ pc' = pc /\ i' = i /\ j' = j
    BY <1>3 DEF vars, inst
  <2>2. \A k, l : Handed(k, l)' = Handed(k, l)
    BY <2>1, Zenon DEF Handed
  <2>3. \A x, f : Has(x, f)' = Has(x, f)
    BY <2>1, Zenon DEF Has
  <2>4. RoundInv'
    BY <2>1, <2>2, <2>3 DEF IInv, RoundInv
  <2> QED BY <1>1, <2>4 DEF IInv
<1> QED BY <1>2, <1>3

\* Types and round invariant hold throughout.
THEOREM RoundCorrect == Spec => [](TypeOK /\ RoundInv)
<1>1. Init => IInv
  BY InitType, InitRound DEF IInv
<1>2. IInv => TypeOK /\ RoundInv
  BY DEF IInv
<1> QED BY <1>1, <1>2, NextIInv, PTL DEF Spec

\* The lists of visit(Instantiation) keep their types, and its indices their ranges.
THEOREM TypeCorrect == Spec => []TypeOK
BY RoundCorrect, PTL

\* The last round saw everything that follows: what it leaves is a solution.
LEMMA FinishResolves == IInv /\ Finish => Resolved'
<1> SUFFICES ASSUME TypeOK, RoundInv, Finish PROVE Solution(Known)'
  BY DEF IInv, Resolved
<1>1. /\ pc = "merge" /\ i > Len(to_add) /\ changed = FALSE /\ pc' = "done"
      /\ dependencies' = Tail(dependencies) /\ UNCHANGED <<map, items>>
  BY DEF Finish, inst
<1>2. dependencies \in Seq(Dependency) /\ Len(dependencies) \in Nat /\ Len(dependencies) >= 1
  BY <1>1, LenProperties DEF TypeOK, RoundInv
<1>3. /\ Len(dependencies') = Len(dependencies) - 1
      /\ \A k \in 1..(Len(dependencies) - 1) : dependencies'[k] = dependencies[k + 1]
  BY <1>1, <1>2, EmptySeq, HeadTailProperties
<1>4. dependencies[1].id = Length /\ dependencies[1].context = {PARSING}
  BY <1>1 DEF RoundInv
<1>5. ASSUME NEW x, NEW f, Has(x, f) PROVE Has(x, f)'
  <2>1. PICK k \in 1..Len(dependencies) : dependencies[k].id = x /\ f \in dependencies[k].context
    BY <1>1, <1>5 DEF Has
  <2>2. CASE k = 1
    BY <1>1, <1>4, <2>1, <2>2 DEF Has
  <2>3. CASE k # 1
    <3>1. PICK m \in 1..(Len(dependencies) - 1) : m + 1 = k
      BY <1>2, <2>3
    <3>2. dependencies'[m] = dependencies[k] /\ m \in 1..Len(dependencies')
      BY <1>3, <3>1
    <3> QED BY <2>1, <3>2 DEF Has
  <2> QED BY <2>2, <2>3
<1>6. ASSUME NEW x, NEW f, Has(x, f)' PROVE Has(x, f)
  <2>1. CASE x = Length /\ f = PARSING
    BY <1>2, <1>4, <2>1 DEF Has
  <2>2. CASE \E k \in 1..Len(dependencies') :
               dependencies'[k].id = x /\ f \in dependencies'[k].context
    <3>1. PICK k \in 1..Len(dependencies') :
             dependencies'[k].id = x /\ f \in dependencies'[k].context
      BY <2>2
    <3>2. k + 1 \in 1..Len(dependencies) /\ dependencies'[k] = dependencies[k + 1]
      BY <1>2, <1>3
    <3> QED BY <3>1, <3>2 DEF Has
  <2> QED BY <1>6, <2>1, <2>2 DEF Has
<1>7. ASSUME NEW x \in Ids, NEW k \in 1..Len(map[x]), NEW f \in map[x][k].context,
             Has(x, APPLICATION) \/ Has(x, f)
      PROVE  Has(map[x][k].id, f)
  <2>1. PICK m \in 1..Len(dependencies) :
           /\ dependencies[m].id = x
           /\ APPLICATION \in dependencies[m].context \/ f \in dependencies[m].context
    BY <1>1, <1>7 DEF Has
  <2>2. Handed(m, k)
    BY <1>1, <2>1 DEF RoundInv
  <2>3. PICK n \in 1..Len(to_add) : to_add[n].id = map[x][k].id /\ f \in to_add[n].context
    BY <2>1, <2>2 DEF Handed
  <2>4. n < i
    BY <1>1, LenProperties DEF TypeOK
  <2> QED BY <1>1, <2>3, <2>4 DEF RoundInv
<1>8. \A x \in Ids, f \in Flags : <<x, f>> \in Known' <=> Has(x, f)
  <2> SUFFICES ASSUME NEW x \in Ids, NEW f \in Flags
               PROVE  <<x, f>> \in Known' <=> Has(x, f)
    OBVIOUS
  <2>1. <<x, f>> \in Known' <=> Has(x, f)'
    BY DEF Known, Has
  <2> QED BY <1>5, <1>6, <2>1
<1>9. <<Length, PARSING>> \in Known'
  <2>1. Has(Length, PARSING)
    BY <1>2, <1>4 DEF Has
  <2>2. Length \in Ids /\ PARSING \in Flags
    BY InstantiationsAssumption DEF Flags, MapFlags
  <2> QED BY <1>8, <2>1, <2>2
<1>10. \A k \in 1..Len(items) : <<items[k], APPLICATION>> \in Known'
  <2>1. \A k \in 1..Len(items) : items[k] \in Ids
    BY ElementOfSeq DEF TypeOK
  <2>2. \A k \in 1..Len(items) : Has(items[k], APPLICATION)
    BY <1>1 DEF RoundInv
  <2> QED BY <1>8, <2>1, <2>2 DEF Flags
<1>11. ASSUME NEW x \in Ids, NEW k \in 1..Len(map[x]), NEW f \in map[x][k].context,
              <<x, APPLICATION>> \in Known' \/ <<x, f>> \in Known'
       PROVE  <<map[x][k].id, f>> \in Known'
  <2>1. map[x][k] \in Entry
    BY EdgeType
  <2>2. map[x][k].id \in Ids /\ f \in Flags /\ APPLICATION \in Flags
    BY <2>1 DEF Entry, Flags
  <2> QED BY <1>7, <1>8, <1>11, <2>2
<1> QED BY <1>1, <1>9, <1>10, <1>11 DEF Solution

\* Whatever the loop stops with is a solution, for every dependency map.
THEOREM ResolvedCorrect == Spec => []Resolved
<1>1. Init => IInv /\ Resolved
  BY InitType, InitRound DEF IInv, Init, Initial, Resolved
<1>2. IInv /\ Resolved /\ [Next]_vars => Resolved'
  <2> SUFFICES ASSUME IInv, Resolved, [Next]_vars PROVE Resolved'
    OBVIOUS
  <2>1. CASE Finish
    BY <2>1, FinishResolves
  <2>2. CASE UNCHANGED vars
    <3>1. \A x, f : Has(x, f)' <=> Has(x, f)
      BY <2>2 DEF vars, Has
    <3>2. Known' = Known
      BY <3>1 DEF Known
    <3> QED BY <2>2, <3>2 DEF vars, inst, Resolved, Solution
  <2>3. CASE Follow \/ NextDependency \/ BeginMerge \/ MergeFound \/ MergeNew \/ NextRound
    <3>1. pc' # "done"
      BY <2>3 DEF Follow, NextDependency, BeginMerge, MergeFound, MergeNew, NextRound
    <3> QED BY <3>1 DEF Resolved
  <2> QED BY <2>1, <2>2, <2>3 DEF Next
<1> QED BY <1>1, <1>2, NextIInv, PTL DEF Spec

--------------------------------------------------------------------------------
\* What is in the lists is in relation R.
Below(R) ==
    /\ \A k \in 1..Len(dependencies) : \A f \in dependencies[k].context :
          <<dependencies[k].id, f>> \in R
    /\ \A k \in 1..Len(to_add) : \A f \in to_add[k].context : <<to_add[k].id, f>> \in R

Sound == \A R \in SUBSET (Ids \X Flags) : Solution(R) => Below(R)

\* The seeds are in every solution.
LEMMA InitSound == Init => Sound
<1> SUFFICES ASSUME Init, NEW R \in SUBSET (Ids \X Flags), Solution(R) PROVE Below(R)
  BY DEF Sound
<1>1. TypeOK
  BY InitType
<1>2. Len(items) \in Nat /\ Len(dependencies) = Len(items) + 1 /\ to_add = <<>>
  BY <1>1 DEF Init, Initial, TypeOK
<1>3. ASSUME NEW k \in 1..Len(dependencies), NEW f \in dependencies[k].context
      PROVE  <<dependencies[k].id, f>> \in R
  <2>1. CASE k = 1
    BY <1>2, <2>1 DEF Init, Initial, Solution
  <2>2. CASE k # 1
    <3>1. k - 1 \in 1..Len(items)
      BY <1>2, <2>2
    <3>2. dependencies[k].id = items[k - 1] /\ dependencies[k].context = {APPLICATION}
      BY <1>2, <2>2 DEF Init, Initial
    <3> QED BY <3>1, <3>2 DEF Solution
  <2> QED BY <2>1, <2>2
<1>4. Len(to_add) = 0
  BY <1>2
<1> QED BY <1>3, <1>4 DEF Below

\* No step leaves a solution.
LEMMA NextSound == IInv /\ Sound /\ [Next]_vars => Sound'
<1> SUFFICES ASSUME TypeOK, RoundInv, Sound, [Next]_vars,
                    NEW R \in SUBSET (Ids \X Flags), Solution(R)'
             PROVE  Below(R)'
  BY DEF Sound, IInv
<1>1. UNCHANGED <<map, items>>
  BY DEF Next, Follow, NextDependency, BeginMerge, MergeFound, MergeNew, NextRound, Finish, vars, inst
<1>2. Solution(R)
  BY <1>1 DEF Solution
<1>3. Below(R)
  BY <1>2 DEF Sound
<1>4. /\ dependencies \in Seq(Dependency) /\ to_add \in Seq(Entry)
      /\ Len(dependencies) \in Nat /\ Len(to_add) \in Nat
  BY LenProperties DEF TypeOK
<1>5. CASE Follow
  <2> DEFINE dep == dependencies[i]
             e == map[dep.id][j]
             c == Passed(dep.context, e.context)
             new == [id |-> e.id, context |-> c]
  <2>1. /\ i \in 1..Len(dependencies) /\ j \in 1..Len(map[dep.id])
        /\ dependencies' = dependencies
        /\ to_add' = to_add \/ to_add' = Append(to_add, new)
    BY <1>5, FollowFacts, Zenon
  <2>2. dep \in Dependency /\ dep.id \in Ids
    <3>1. dep \in Dependency
      BY <1>4, <2>1, ElementOfSeq
    <3> QED BY <3>1 DEF Dependency
  <2>3. e \in Entry
    BY <2>1, <2>2, EdgeType
  <2>4. new \in Entry
    BY <2>3, PassedType DEF Entry
  <2>5. \A f \in c : <<e.id, f>> \in R
    <3> SUFFICES ASSUME NEW f \in c PROVE <<e.id, f>> \in R
      OBVIOUS
    <3>1. f \in e.context /\ (APPLICATION \in dep.context \/ f \in dep.context)
      BY DEF Passed
    <3>2. <<dep.id, APPLICATION>> \in R \/ <<dep.id, f>> \in R
      BY <1>3, <2>1, <3>1 DEF Below
    <3> QED BY <1>2, <2>1, <2>2, <3>1, <3>2 DEF Solution
  <2>6. \A f \in new.context : <<new.id, f>> \in R
    BY <2>5
  <2> HIDE DEF new
  <2>7. ASSUME to_add' = Append(to_add, new) PROVE Below(R)'
    <3>1. /\ Len(to_add') = Len(to_add) + 1
          /\ \A k \in 1..Len(to_add) : to_add'[k] = to_add[k]
          /\ to_add'[Len(to_add) + 1] = new
      BY <1>4, <2>4, <2>7, AppendProperties
    <3>2. ASSUME NEW k \in 1..Len(to_add'), NEW f \in to_add'[k].context
          PROVE  <<to_add'[k].id, f>> \in R
      <4>1. k \in 1..Len(to_add) \/ k = Len(to_add) + 1
        BY <1>4, <3>1
      <4> QED BY <1>3, <2>6, <3>1, <3>2, <4>1 DEF Below
    <3> QED BY <1>3, <2>1, <3>2 DEF Below
  <2> QED BY <1>3, <2>1, <2>7 DEF Below
<1>6. CASE NextDependency \/ BeginMerge \/ UNCHANGED vars
  BY <1>3, <1>6 DEF NextDependency, BeginMerge, vars, Below
<1>7. CASE MergeFound
  <2>1. i \in 1..Len(to_add) /\ to_add' = to_add
    BY <1>7 DEF MergeFound, TypeOK
  <2>2. PICK k \in 1..Len(dependencies) :
           /\ dependencies[k].id = to_add[i].id
           /\ dependencies' = [dependencies EXCEPT ![k].context = Joined(@, to_add[i].context)]
    BY <1>7 DEF MergeFound, Found
  <2>3. Len(dependencies') = Len(dependencies)
    BY <1>4, <2>2
  <2>4. ASSUME NEW l \in 1..Len(dependencies), NEW f \in dependencies'[l].context
        PROVE  <<dependencies'[l].id, f>> \in R
    <3>1. CASE l # k
      <4>1. dependencies'[l] = dependencies[l]
        BY <1>4, <2>2, <3>1
      <4> QED BY <1>3, <2>4, <4>1 DEF Below
    <3>2. CASE l = k
      <4>1. dependencies[k] \in Dependency
        BY <1>4, ElementOfSeq
      <4>2. dependencies'[k] = [dependencies[k] EXCEPT !.context = Joined(@, to_add[i].context)]
        BY <1>4, <2>2
      <4>3. /\ dependencies'[k].id = dependencies[k].id
            /\ dependencies'[k].context = dependencies[k].context \cup to_add[i].context
        BY <4>1, <4>2 DEF Dependency, Joined
      <4>4. f \in dependencies[k].context \/ f \in to_add[i].context
        BY <2>4, <3>2, <4>3
      <4> QED BY <1>3, <2>1, <2>2, <3>2, <4>3, <4>4 DEF Below
    <3> QED BY <3>1, <3>2
  <2> QED BY <1>3, <2>1, <2>3, <2>4 DEF Below
<1>8. CASE MergeNew
  <2> DEFINE new == to_add[i]
  <2>1. i \in 1..Len(to_add) /\ to_add' = to_add /\ dependencies' = Append(dependencies, new)
    BY <1>8 DEF MergeNew, TypeOK
  <2>2. \A f \in new.context : <<new.id, f>> \in R
    BY <1>3, <2>1 DEF Below
  <2>3. new \in Dependency
    <3>1. new \in Entry
      BY <1>4, <2>1, ElementOfSeq
    <3> QED BY <3>1 DEF Entry, Dependency, Flags
  <2> HIDE DEF new
  <2>4. /\ Len(dependencies') = Len(dependencies) + 1
        /\ \A k \in 1..Len(dependencies) : dependencies'[k] = dependencies[k]
        /\ dependencies'[Len(dependencies) + 1] = new
    BY <1>4, <2>1, <2>3, AppendProperties
  <2>5. ASSUME NEW k \in 1..Len(dependencies'), NEW f \in dependencies'[k].context
        PROVE  <<dependencies'[k].id, f>> \in R
    <3>1. k \in 1..Len(dependencies) \/ k = Len(dependencies) + 1
      BY <1>4, <2>4
    <3> QED BY <1>3, <2>2, <2>4, <2>5, <3>1 DEF Below
  <2> QED BY <1>3, <2>1, <2>5 DEF Below
<1>9. CASE NextRound
  <2>1. dependencies' = dependencies /\ to_add' = <<>>
    BY <1>9 DEF NextRound
  <2> QED BY <1>3, <2>1 DEF Below
<1>10. CASE Finish
  <2>1. dependencies' = Tail(dependencies) /\ to_add' = to_add /\ dependencies # <<>>
    BY <1>10, EmptySeq DEF Finish, RoundInv
  <2>2. /\ Len(dependencies') = Len(dependencies) - 1
        /\ \A k \in 1..Len(dependencies') : dependencies'[k] = dependencies[k + 1]
    BY <1>4, <2>1, HeadTailProperties
  <2>3. \A k \in 1..Len(dependencies') : k + 1 \in 1..Len(dependencies)
    BY <1>4, <2>2
  <2> QED BY <1>3, <2>1, <2>2, <2>3 DEF Below
<1> QED BY <1>5, <1>6, <1>7, <1>8, <1>9, <1>10 DEF Next

\* Nothing is kept that does not have to be: what is found is in every solution,
\* so that with ResolvedCorrect the loop computes the least one.
THEOREM LeastCorrect == Spec => []Least
<1>1. Init => IInv /\ Sound
  BY InitType, InitRound, InitSound DEF IInv
<1>2. Sound => Least
  <2> SUFFICES ASSUME Sound, pc = "done", NEW R \in SUBSET (Ids \X Flags), Solution(R),
                      NEW p \in Known
               PROVE  p \in R
    BY DEF Least
  <2>1. p = <<p[1], p[2]>> /\ Has(p[1], p[2])
    BY DEF Known
  <2>2. <<p[1], p[2]>> \in R
    BY <2>1 DEF Has, Sound, Below, Solution
  <2> QED BY <2>1, <2>2
<1> QED BY <1>1, <1>2, NextIInv, NextSound, PTL DEF Spec

\* No dependency is dropped and no context shrinks while the loop runs.
THEOREM GrowthCorrect == Spec => OnlyGrows
<1> DEFINE Grows == \A k \in 1..Len(dependencies) : pc' # "done" =>
                      /\ k \in 1..Len(dependencies')
                      /\ dependencies'[k].id = dependencies[k].id
                      /\ dependencies[k].context \subseteq dependencies'[k].context
<1>1. ASSUME IInv, Next PROVE Grows
  <2>1. dependencies \in Seq(Dependency) /\ Len(dependencies) \in Nat
    BY <1>1, LenProperties DEF IInv, TypeOK
  <2>2. CASE MergeFound
    <3>1. PICK k \in 1..Len(dependencies) :
             dependencies' = [dependencies EXCEPT ![k].context = Joined(@, to_add[i].context)]
      BY <2>2 DEF MergeFound
    <3>2. Len(dependencies') = Len(dependencies)
      BY <2>1, <3>1
    <3>3. ASSUME NEW l \in 1..Len(dependencies)
          PROVE  /\ dependencies'[l].id = dependencies[l].id
                 /\ dependencies[l].context \subseteq dependencies'[l].context
      <4>1. dependencies[l] \in Dependency
        BY <2>1, ElementOfSeq
      <4>2. CASE l = k
        <5>1. dependencies'[l] = [dependencies[l] EXCEPT !.context = Joined(@, to_add[i].context)]
          BY <2>1, <3>1, <4>2
        <5> QED BY <4>1, <5>1 DEF Dependency, Joined
      <4>3. CASE l # k
        BY <2>1, <3>1, <4>3
      <4> QED BY <4>2, <4>3
    <3> QED BY <3>2, <3>3
  <2>3. CASE MergeNew
    <3>1. dependencies' = Append(dependencies, to_add[i]) /\ i \in 1..Len(to_add)
      BY <1>1, <2>3 DEF MergeNew, IInv, TypeOK
    <3>2. to_add[i] \in Entry
      BY <1>1, <3>1, ElementOfSeq DEF IInv, TypeOK
    <3>3. to_add[i] \in Dependency
      BY <3>2 DEF Entry, Dependency, Flags
    <3>4. /\ Len(dependencies') = Len(dependencies) + 1
          /\ \A k \in 1..Len(dependencies) : dependencies'[k] = dependencies[k]
      BY <2>1, <3>1, <3>3, AppendProperties
    <3> QED BY <2>1, <3>4
  <2>4. CASE Follow \/ NextDependency \/ BeginMerge \/ NextRound \/ Finish
    BY <2>4 DEF Follow, NextDependency, BeginMerge, NextRound, Finish
  <2> QED BY <1>1, <2>2, <2>3, <2>4 DEF Next
<1>2. IInv /\ [Next]_vars => [Grows]_vars
  BY <1>1
<1>3. Init => IInv
  BY InitType, InitRound DEF IInv
<1>4. Spec => [][Grows]_vars
  <2> HIDE DEF Grows
  <2> QED BY <1>2, <1>3, NextIInv, PTL DEF Spec
<1> QED BY <1>4 DEF OnlyGrows
================================================================================
