------------------------- MODULE CodeGeneratorProofs --------------------------
(***************************************************************************)
(* Lemmas about what the generator makes of declarations and units, and    *)
(* about what is left to be made of the nodes still to be visited.         *)
(***************************************************************************)
EXTENDS Compiler, SequenceTheorems, WellFoundedInduction, TLAPS

--------------------------------------------------------------------------------
(***************************************************************************)
(* Induction over the natural numbers, for a set instead of a predicate.   *)
(***************************************************************************)
\* A set of natural numbers has a least element.
LEMMA LeastNumber ==
  ASSUME NEW T \in SUBSET Nat, T # {}
  PROVE  \E x \in T : \A y \in T : x <= y
<1> DEFINE R == OpToRel(<, Nat)
<1>1. IsWellFoundedOn(R, Nat)
  BY NatLessThanWellFounded, Zenon
<1>2. \E x \in T : \A y \in T : ~ (<<y, x>> \in R)
  <2> HIDE DEF R
  <2> QED BY <1>1, WFMin, Zenon
<1>3. \A x, y \in Nat : <<y, x>> \in R <=> y < x
  BY DEF OpToRel
<1> HIDE DEF R
<1>4. PICK x \in T : \A y \in T : ~ (<<y, x>> \in R)
  BY <1>2
<1>5. \A y \in T : ~(y < x)
  BY <1>3, <1>4, Zenon
<1>6. \A y \in T : x <= y
  BY <1>5
<1> QED BY <1>6

\* A set that has 0, and n + 1 with every n, has them all.
LEMMA SetInduction ==
  ASSUME NEW S, 0 \in S, \A m \in Nat : m \in S => m + 1 \in S
  PROVE  Nat \subseteq S
<1> DEFINE T == Nat \ S
<1> SUFFICES ASSUME T # {} PROVE FALSE
  OBVIOUS
<1>1. PICK x \in T : \A y \in T : x <= y
  BY LeastNumber, Zenon
<1>2. x # 0 /\ x - 1 \in Nat /\ x - 1 \notin T
  BY <1>1
<1> QED BY <1>2

--------------------------------------------------------------------------------
(***************************************************************************)
(* Concatenations of sequences.                                            *)
(***************************************************************************)
\* A sequence of n + 1 elements is one of n and its last.
LEMMA Fronted ==
  ASSUME NEW T, NEW s \in Seq(T), NEW m \in Nat, Len(s) = m + 1
  PROVE  \E t \in Seq(T), x \in T : s = Append(t, x) /\ Len(t) = m
<1> DEFINE t == SubSeq(s, 1, m)
<1>1. t \in Seq(T) /\ Len(t) = m /\ \A i \in 1..m : t[i] = s[i]
  BY SubSeqProperties
<1>2. s[m+1] \in T
  BY ElementOfSeq
<1>3. Append(t, s[m+1]) \in Seq(T) /\ Len(Append(t, s[m+1])) = m + 1
  BY <1>1, <1>2, AppendProperties
<1>4. \A i \in 1..Len(s) : s[i] = Append(t, s[m+1])[i]
  BY <1>1, <1>2, AppendProperties
<1>5. s = Append(t, s[m+1])
  <2> HIDE DEF t
  <2> QED BY <1>3, <1>4, SeqEqual
<1> QED BY <1>1, <1>2, <1>5, Zenon

\* f[q] is the concatenation of the first q sequences.
Flattens(f, ss) == /\ f[0] = <<>>
               /\ \A q \in 1..Len(ss) : f[q] = f[q-1] \o ss[q]

\* Flatten is the last value of such a function.
LEMMA FlattenIs ==
  ASSUME NEW ss, Len(ss) \in Nat
  PROVE  \E f : Flattens(f, ss) /\ Flatten(ss) = f[Len(ss)]
<1> DEFINE F(f) == [q \in 0..Len(ss) |-> IF q = 0 THEN <<>> ELSE f[q-1] \o ss[q]]
           E(m, f) == /\ f = [q \in 0..m |-> f[q]] /\ f[0] = <<>>
                      /\ \A q \in 1..m : f[q] = f[q-1] \o ss[q]
           S == {m \in Nat : \E f : E(m, f)}
<1>1. 0 \in S
  <2>1. E(0, [q \in 0..0 |-> <<>>])
    OBVIOUS
  <2> QED BY <2>1, Zenon
<1>2. ASSUME NEW m \in Nat, m \in S PROVE m + 1 \in S
  <2>1. PICK f : E(m, f)
    BY <1>2, Zenon
  <2> DEFINE g == [q \in 0..(m+1) |-> IF q = m + 1 THEN f[m] \o ss[m+1] ELSE f[q]]
  <2>2. g = [q \in 0..(m+1) |-> g[q]] /\ g[0] = <<>>
    BY <2>1
  <2>3. ASSUME NEW q \in 1..(m+1) PROVE g[q] = g[q-1] \o ss[q]
    <3>1. CASE q = m + 1
      <4>1. m \in 0..(m+1) /\ m + 1 \in 0..(m+1) /\ m # m + 1 /\ q - 1 = m
        BY <3>1
      <4>2. g[m+1] = f[m] \o ss[m+1] /\ g[m] = f[m]
        BY <4>1, Zenon
      <4> HIDE DEF g
      <4> QED BY <3>1, <4>1, <4>2, Zenon
    <3>2. CASE q # m + 1
      <4>1. q \in 1..m /\ q \in 0..(m+1) /\ q - 1 \in 0..(m+1) /\ q - 1 # m + 1
        BY <3>2
      <4>2. g[q] = f[q] /\ g[q-1] = f[q-1]
        BY <4>1, <3>2
      <4> HIDE DEF g
      <4> QED BY <2>1, <4>1, <4>2, Zenon
    <3> QED BY <3>1, <3>2, Zenon
  <2>4. E(m + 1, g)
    <3> HIDE DEF g
    <3> QED BY <2>2, <2>3, Zenon
  <2> HIDE DEF E
  <2> QED BY <2>4
<1>3. Len(ss) \in S
  <2> HIDE DEF S
  <2> QED BY <1>1, <1>2, SetInduction
<1>4. PICK f : E(Len(ss), f)
  BY <1>3, Zenon
<1>5. f = F(f)
  <2>1. ASSUME NEW q \in 0..Len(ss) PROVE f[q] = IF q = 0 THEN <<>> ELSE f[q-1] \o ss[q]
    <3>1. q # 0 => q \in 1..Len(ss)
      OBVIOUS
    <3> QED BY <1>4, <3>1
  <2>2. [q \in 0..Len(ss) |-> f[q]] = F(f)
    BY <2>1
  <2> QED BY <1>4, <2>2, Zenon
<1> DEFINE upto == CHOOSE g : g = F(g)
<1>6. upto = F(upto)
  <2> HIDE DEF F
  <2> QED BY <1>5
<1>7. Flatten(ss) = upto[Len(ss)]
  BY DEF Flatten
<1> HIDE DEF upto
<1>8. F(upto)[0] = <<>>
  OBVIOUS
<1>9. ASSUME NEW q \in 1..Len(ss) PROVE F(upto)[q] = upto[q-1] \o ss[q]
  <2>1. q \in 0..Len(ss) /\ q # 0
    OBVIOUS
  <2> QED BY <2>1, Zenon
<1> HIDE DEF F
<1>10. Flattens(upto, ss)
  BY <1>6, <1>8, <1>9, Zenon DEF Flattens
<1> QED BY <1>7, <1>10

\* The concatenation of no sequence and of one.
LEMMA FlattenOne ==
  ASSUME NEW ss
  PROVE  /\ Len(ss) = 0 => Flatten(ss) = <<>>
         /\ Len(ss) = 1 => Flatten(ss) = <<>> \o ss[1]
<1>1. ASSUME Len(ss) = 0 PROVE Flatten(ss) = <<>>
  <2>1. PICK f : Flattens(f, ss) /\ Flatten(ss) = f[Len(ss)]
    BY <1>1, FlattenIs
  <2> QED BY <1>1, <2>1 DEF Flattens
<1>2. ASSUME Len(ss) = 1 PROVE Flatten(ss) = <<>> \o ss[1]
  <2>0. Len(ss) \in Nat
    BY <1>2
  <2>1. PICK f : Flattens(f, ss) /\ Flatten(ss) = f[Len(ss)]
    BY <2>0, FlattenIs
  <2>2. f[1] = f[1-1] \o ss[1] /\ f[0] = <<>> /\ 1 - 1 = 0
    BY <1>2, <2>1 DEF Flattens
  <2> QED BY <1>2, <2>1, <2>2, Zenon
<1> QED BY <1>1, <1>2

\* What f makes of the elements of s, one after the other.
Flat(f, s) == Flatten([i \in DOMAIN s |-> f[s[i]]])

\* f[0], f[1], ... are the concatenations of what h makes of the first elements.
Builds(f, h, s) == /\ f[0] = <<>>
                   /\ \A q \in 1..Len(s) : f[q] = f[q-1] \o h[s[q]]

LEMMA FlatIs ==
  ASSUME NEW h, NEW U, NEW s \in Seq(U)
  PROVE  \E f : Builds(f, h, s) /\ Flat(h, s) = f[Len(s)]
<1> DEFINE ss == [i \in DOMAIN s |-> h[s[i]]]
<1>1. DOMAIN s = 1..Len(s) /\ Len(s) \in Nat
  BY LenProperties
<1>2. Len(ss) = Len(s) /\ \A i \in 1..Len(s) : ss[i] = h[s[i]]
  BY <1>1
<1>3. Flat(h, s) = Flatten(ss)
  BY DEF Flat
<1> HIDE DEF ss
<1>4. PICK f : Flattens(f, ss) /\ Flatten(ss) = f[Len(ss)]
  <2>1. Len(ss) \in Nat
    BY <1>1, <1>2
  <2> QED BY <2>1, FlattenIs
<1>5. Builds(f, h, s)
  BY <1>2, <1>4, Zenon DEF Flattens, Builds
<1> QED BY <1>2, <1>3, <1>4, <1>5

\* On a common beginning two such functions agree.
LEMMA BuildsAgree ==
  ASSUME NEW h, NEW s, NEW t, NEW n \in Nat, Len(s) \in Nat, Len(t) \in Nat, n <= Len(s), n <= Len(t),
         \A q \in 1..n : s[q] = t[q], NEW f, NEW g, Builds(f, h, s), Builds(g, h, t)
  PROVE  f[n] = g[n]
<1> DEFINE S == {m \in Nat : m <= n => f[m] = g[m]}
<1>1. 0 \in S
  BY DEF Builds
<1>2. ASSUME NEW m \in Nat, m \in S PROVE m + 1 \in S
  <2> SUFFICES ASSUME m + 1 <= n PROVE f[m+1] = g[m+1]
    OBVIOUS
  <2>1. m + 1 \in 1..Len(s) /\ m + 1 \in 1..Len(t) /\ (m + 1) - 1 = m /\ m <= n /\ m + 1 \in 1..n
    OBVIOUS
  <2>2. f[m] = g[m] /\ s[m+1] = t[m+1]
    BY <1>2, <2>1
  <2>3. f[m+1] = f[(m+1)-1] \o h[s[m+1]] /\ g[m+1] = g[(m+1)-1] \o h[t[m+1]]
    BY <2>1, Zenon DEF Builds
  <2> QED BY <2>1, <2>2, <2>3, Zenon
<1>3. Nat \subseteq S
  <2> HIDE DEF S
  <2> QED BY <1>1, <1>2, SetInduction
<1> QED BY <1>3

\* Nothing is made of no elements.
LEMMA FlatEmpty == ASSUME NEW h PROVE Flat(h, <<>>) = <<>>
<1>1. <<>> \in Seq({}) /\ Len(<<>>) = 0
  BY EmptySeq
<1>2. PICK f : Builds(f, h, <<>>) /\ Flat(h, <<>>) = f[Len(<<>>)]
  BY <1>1, FlatIs, Zenon
<1> QED BY <1>1, <1>2 DEF Builds

\* What is made of one more element comes last.
LEMMA FlatAppend ==
  ASSUME NEW h, NEW U, NEW s \in Seq(U), NEW x \in U
  PROVE  Flat(h, Append(s, x)) = Flat(h, s) \o h[x]
<1> DEFINE t == Append(s, x)
<1>1. Len(s) \in Nat /\ t \in Seq(U) /\ Len(t) = Len(s) + 1 /\ t[Len(s) + 1] = x
  BY AppendProperties, LenProperties
<1>2. \A q \in 1..Len(s) : s[q] = t[q]
  BY AppendProperties
<1> HIDE DEF t
<1>3. PICK f : Builds(f, h, s) /\ Flat(h, s) = f[Len(s)]
  BY FlatIs
<1>4. PICK g : Builds(g, h, t) /\ Flat(h, t) = g[Len(t)]
  BY <1>1, FlatIs
<1>5. f[Len(s)] = g[Len(s)]
  <2>1. Len(s) \in Nat /\ Len(t) \in Nat /\ Len(s) <= Len(s) /\ Len(s) <= Len(t)
    BY <1>1
  <2> QED BY <1>2, <1>3, <1>4, <2>1, BuildsAgree
<1>6. g[Len(s) + 1] = g[(Len(s) + 1) - 1] \o h[t[Len(s) + 1]]
  <2>1. Len(s) + 1 \in 1..Len(t)
    BY <1>1
  <2> QED BY <1>4, <2>1, Zenon DEF Builds
<1>7. (Len(s) + 1) - 1 = Len(s)
  BY <1>1
<1> QED BY <1>1, <1>3, <1>4, <1>5, <1>6, <1>7, Zenon DEF t

\* h makes sequences of elements of T of the elements of U.
Makes(h, U, T) == \A x \in U : h[x] \in Seq(T)

\* So does Flat of a sequence.
LEMMA FlatType ==
  ASSUME NEW T, NEW U, NEW h, Makes(h, U, T), NEW xs \in Seq(U)
  PROVE  Flat(h, xs) \in Seq(T)
<1> DEFINE S == {m \in Nat : \A ys \in Seq(U) : Len(ys) = m => Flat(h, ys) \in Seq(T)}
<1>1. 0 \in S
  <2> SUFFICES ASSUME NEW ys \in Seq(U), Len(ys) = 0 PROVE Flat(h, ys) \in Seq(T)
    OBVIOUS
  <2>1. ys = <<>> /\ <<>> \in Seq(T)
    BY EmptySeq
  <2> QED BY <2>1, FlatEmpty, Zenon
<1>2. ASSUME NEW m \in Nat, m \in S PROVE m + 1 \in S
  <2> SUFFICES ASSUME NEW ys \in Seq(U), Len(ys) = m + 1 PROVE Flat(h, ys) \in Seq(T)
    OBVIOUS
  <2>1. PICK zs \in Seq(U), z \in U : ys = Append(zs, z) /\ Len(zs) = m
    BY Fronted, Zenon
  <2>2. Flat(h, zs) \in Seq(T) /\ h[z] \in Seq(T)
    BY <1>2, <2>1 DEF Makes
  <2>3. Flat(h, ys) = Flat(h, zs) \o h[z]
    BY <2>1, FlatAppend
  <2> QED BY <2>2, <2>3, ConcatProperties
<1>3. Len(xs) \in S
  <2> HIDE DEF S
  <2>1. Len(xs) \in Nat
    BY LenProperties
  <2> QED BY <1>1, <1>2, <2>1, SetInduction
<1> QED BY <1>3

\* What is made of two sequences.
LEMMA FlatConcat ==
  ASSUME NEW T, NEW U, NEW h, Makes(h, U, T), NEW xs \in Seq(U), NEW ys \in Seq(U)
  PROVE  Flat(h, xs \o ys) = Flat(h, xs) \o Flat(h, ys)
<1> DEFINE S == {m \in Nat : \A us \in Seq(U) :
                    Len(us) = m => Flat(h, xs \o us) = Flat(h, xs) \o Flat(h, us)}
<1>0. Flat(h, xs) \in Seq(T)
  BY FlatType
<1>1. 0 \in S
  <2> SUFFICES ASSUME NEW us \in Seq(U), Len(us) = 0 PROVE Flat(h, xs \o us) = Flat(h, xs) \o Flat(h, us)
    OBVIOUS
  <2>1. us = <<>> /\ xs \o <<>> = xs /\ Flat(h, xs) \o <<>> = Flat(h, xs)
    BY <1>0, EmptySeq, ConcatEmptySeq
  <2> QED BY <2>1, FlatEmpty, Zenon
<1>2. ASSUME NEW m \in Nat, m \in S PROVE m + 1 \in S
  <2> SUFFICES ASSUME NEW us \in Seq(U), Len(us) = m + 1
               PROVE  Flat(h, xs \o us) = Flat(h, xs) \o Flat(h, us)
    OBVIOUS
  <2>1. PICK vs \in Seq(U), v \in U : us = Append(vs, v) /\ Len(vs) = m
    BY Fronted, Zenon
  <2>2. Flat(h, xs \o vs) = Flat(h, xs) \o Flat(h, vs)
    BY <1>2, <2>1
  <2>3. xs \o us = Append(xs \o vs, v) /\ xs \o vs \in Seq(U)
    <3>1. xs \o vs \in Seq(U) /\ <<v>> \in Seq(U)
      BY ConcatProperties
    <3>2. us = vs \o <<v>> /\ Append(xs \o vs, v) = (xs \o vs) \o <<v>>
      BY <2>1, <3>1, AppendIsConcat
    <3>3. xs \o (vs \o <<v>>) = (xs \o vs) \o <<v>>
      BY <3>1, ConcatAssociative
    <3> QED BY <3>1, <3>2, <3>3
  <2>4. Flat(h, xs \o us) = Flat(h, xs \o vs) \o h[v]
    BY <2>3, FlatAppend, Zenon
  <2>5. Flat(h, us) = Flat(h, vs) \o h[v]
    BY <2>1, FlatAppend
  <2>6. (Flat(h, xs) \o Flat(h, vs)) \o h[v] = Flat(h, xs) \o (Flat(h, vs) \o h[v])
    <3> DEFINE a == Flat(h, xs)
               b == Flat(h, vs)
               c == h[v]
    <3>1. a \in Seq(T) /\ b \in Seq(T) /\ c \in Seq(T)
      BY FlatType, Zenon DEF Makes
    <3> HIDE DEF a, b, c
    <3>2. (a \o b) \o c = a \o (b \o c)
      BY ONLY <3>1, ConcatAssociative, SMTT(40)
    <3> QED BY <3>2 DEF a, b, c
  <2> QED BY <2>2, <2>4, <2>5, <2>6, Zenon
<1>3. Len(ys) \in S
  <2> HIDE DEF S
  <2>1. Len(ys) \in Nat
    BY LenProperties
  <2> QED BY <1>1, <1>2, <2>1, SetInduction
<1> QED BY <1>3

Cat(a, b) == a \o b

\* The same, in a form that can be instantiated.
LEMMA FlatCat ==
  ASSUME NEW T, NEW U, NEW h, Makes(h, U, T), NEW xs \in Seq(U), NEW ys \in Seq(U)
  PROVE  Flat(h, Cat(xs, ys)) = Cat(Flat(h, xs), Flat(h, ys))
BY FlatConcat DEF Cat

\* What is made of one element.
LEMMA FlatOne ==
  ASSUME NEW T, NEW U, NEW h, Makes(h, U, T), NEW x \in U
  PROVE  Flat(h, <<x>>) = h[x]
<1>1. h[x] \in Seq(T)
  BY DEF Makes
<1>2. <<>> \in Seq(U) /\ <<x>> = Append(<<>>, x)
  BY EmptySeq
<1>3. Flat(h, <<x>>) = <<>> \o h[x]
  BY <1>2, FlatAppend, FlatEmpty, Zenon
<1> QED BY <1>1, <1>3, ConcatEmptySeq

\* What is made of an element and those after it.
LEMMA FlatHead ==
  ASSUME NEW T, NEW U, NEW h, Makes(h, U, T), NEW s \in Seq(U), s # <<>>
  PROVE  Flat(h, s) = h[Head(s)] \o Flat(h, Tail(s))
<1>1. Head(s) \in U /\ Tail(s) \in Seq(U) /\ <<Head(s)>> \in Seq(U)
  BY HeadTailProperties
<1>2. s = <<Head(s)>> \o Tail(s)
  OBVIOUS
<1> DEFINE x == <<Head(s)>>
           t == Tail(s)
<1>3. x \in Seq(U) /\ t \in Seq(U)
  BY <1>1
<1>4. Flat(h, x) = h[Head(s)]
  BY <1>1, FlatOne
<1>5. s = x \o t
  BY <1>2
<1> HIDE DEF x, t
<1>6. Flat(h, x \o t) = Flat(h, x) \o Flat(h, t)
  BY <1>3, FlatConcat
<1> QED BY <1>4, <1>5, <1>6, Zenon DEF t

\* Where two functions make the same of two sequences.
LEMMA FlatSame ==
  ASSUME NEW h, NEW g, NEW s, NEW t, DOMAIN s = DOMAIN t, \A i \in DOMAIN s : h[s[i]] = g[t[i]]
  PROVE  Flat(h, s) = Flat(g, t)
<1> DEFINE a == [i \in DOMAIN s |-> h[s[i]]]
           b == [i \in DOMAIN t |-> g[t[i]]]
<1>1. a = b
  BY Zenon
<1>2. Flat(h, s) = Flatten(a) /\ Flat(g, t) = Flatten(b)
  BY DEF Flat
<1> HIDE DEF a, b
<1> QED BY <1>1, <1>2

\* A function that makes nothing, and one that makes each element.
LEMMA FlatNothing ==
  ASSUME NEW h, NEW U, \A x \in U : h[x] = <<>>, NEW s \in Seq(U)
  PROVE  Flat(h, s) = <<>>
<1> DEFINE S == {m \in Nat : \A t \in Seq(U) : Len(t) = m => Flat(h, t) = <<>>}
<1>1. 0 \in S
  <2>1. \A t \in Seq(U) : Len(t) = 0 => t = <<>>
    BY EmptySeq
  <2> QED BY <2>1, FlatEmpty
<1>2. ASSUME NEW m \in Nat, m \in S PROVE m + 1 \in S
  <2> SUFFICES ASSUME NEW t \in Seq(U), Len(t) = m + 1 PROVE Flat(h, t) = <<>>
    OBVIOUS
  <2>1. PICK z \in Seq(U), x \in U : t = Append(z, x) /\ Len(z) = m
    BY Fronted, Zenon
  <2>2. Flat(h, t) = Flat(h, z) \o h[x] /\ Flat(h, z) = <<>> /\ h[x] = <<>>
    BY <1>2, <2>1, FlatAppend
  <2> QED BY <2>2
<1>3. Len(s) \in S
  <2> HIDE DEF S
  <2>1. Len(s) \in Nat
    BY LenProperties
  <2> QED BY <1>1, <1>2, <2>1, SetInduction
<1> QED BY <1>3

LEMMA FlatEach ==
  ASSUME NEW h, NEW U, \A x \in U : h[x] = <<x>>, NEW s \in Seq(U)
  PROVE  Flat(h, s) = s
<1> DEFINE S == {m \in Nat : \A t \in Seq(U) : Len(t) = m => Flat(h, t) = t}
<1>1. 0 \in S
  <2>1. \A t \in Seq(U) : Len(t) = 0 => t = <<>>
    BY EmptySeq
  <2> QED BY <2>1, FlatEmpty
<1>2. ASSUME NEW m \in Nat, m \in S PROVE m + 1 \in S
  <2> SUFFICES ASSUME NEW t \in Seq(U), Len(t) = m + 1 PROVE Flat(h, t) = t
    OBVIOUS
  <2>1. PICK z \in Seq(U), x \in U : t = Append(z, x) /\ Len(z) = m
    BY Fronted, Zenon
  <2>2. Flat(h, t) = Flat(h, z) \o h[x] /\ Flat(h, z) = z /\ h[x] = <<x>>
    BY <1>2, <2>1, FlatAppend
  <2>3. Append(z, x) = z \o <<x>>
    BY AppendIsConcat
  <2> QED BY <2>1, <2>2, <2>3
<1>3. Len(s) \in S
  <2> HIDE DEF S
  <2>1. Len(s) \in Nat
    BY LenProperties
  <2> QED BY <1>1, <1>2, <2>1, SetInduction
<1> QED BY <1>3

--------------------------------------------------------------------------------
(***************************************************************************)
(* The items of a unit and those in its switches.  Induction goes over the *)
(* depth of the switches.                                                  *)
(***************************************************************************)
InDepth(f, d) == {x \in ItemNodes : x.kind = "Switch" => d > 0 /\ x.items \in Seq(f[d-1])}

\* There is a function of which Nested is the definition.
LEMMA NestedIs == \A d \in 0..MaxDepth : Nested[d] = InDepth(Nested, d)
<1> DEFINE F(f) == [d \in 0..MaxDepth |-> InDepth(f, d)]
           E(m, f) == \A d \in 0..m : f[d] = InDepth(f, d)
           S == {m \in Nat : \E f : E(m, f)}
<1>0. MaxDepth \in Nat
  BY DepthAssumption
<1>1. 0 \in S
  <2> DEFINE f == [d \in 0..0 |-> InDepth(<<>>, 0)]
  <2>1. f[0] = InDepth(f, 0)
    BY DEF InDepth
  <2> HIDE DEF f
  <2>2. E(0, f)
    <3>1. \A d \in 0..0 : d = 0
      OBVIOUS
    <3> QED BY <2>1, <3>1, Zenon
  <2> HIDE DEF E
  <2> QED BY <2>2, Zenon
<1>2. ASSUME NEW m \in Nat, m \in S PROVE m + 1 \in S
  <2>1. PICK f : E(m, f)
    BY <1>2, Zenon
  <2> DEFINE g == [d \in 0..(m+1) |-> IF d = m + 1 THEN InDepth(f, m + 1) ELSE f[d]]
  <2>2. ASSUME NEW d \in 0..(m+1) PROVE g[d] = InDepth(g, d)
    <3>1. d > 0 => d - 1 \in 0..(m+1) /\ d - 1 # m + 1
      OBVIOUS
    <3>2. d > 0 => g[d-1] = f[d-1]
      BY <3>1
    <3>3. g[d] = IF d = m + 1 THEN InDepth(f, m + 1) ELSE f[d]
      OBVIOUS
    <3> HIDE DEF g
    <3>4. InDepth(g, d) = InDepth(f, d)
      BY <3>2 DEF InDepth
    <3>5. d # m + 1 => d \in 0..m
      OBVIOUS
    <3> QED BY <2>1, <3>3, <3>4, <3>5
  <2> HIDE DEF g
  <2>3. E(m + 1, g)
    BY <2>2
  <2> HIDE DEF E
  <2> QED BY <2>3
<1>3. MaxDepth \in S
  <2> HIDE DEF S
  <2> QED BY <1>0, <1>1, <1>2, SetInduction
<1>4. PICK f : E(MaxDepth, f)
  BY <1>3, Zenon
<1> DEFINE g == [d \in 0..MaxDepth |-> f[d]]
<1>5. g = F(g)
  <2>1. ASSUME NEW d \in 0..MaxDepth PROVE g[d] = InDepth(g, d)
    <3>1. d > 0 => d - 1 \in 0..MaxDepth
      BY <1>0
    <3>2. d > 0 => g[d-1] = f[d-1]
      BY <3>1
    <3>3. InDepth(g, d) = InDepth(f, d)
      BY <3>2, Zenon DEF InDepth
    <3> QED BY <1>4, <3>3
  <2>2. g = [d \in 0..MaxDepth |-> g[d]]
    OBVIOUS
  <2> HIDE DEF g
  <2> QED BY <2>1, <2>2
<1>6. Nested = CHOOSE h : h = F(h)
  BY DEF Nested, InDepth
<1>7. Nested = F(Nested)
  <2> HIDE DEF F, g
  <2> QED BY <1>5, <1>6
<1> QED BY <1>7, Zenon

\* What is nested less deep is nested at most as deep; all items are nested.
LEMMA NestedGrows ==
  /\ \A d \in 0..MaxDepth : d < MaxDepth => Nested[d] \subseteq Nested[d+1]
  /\ Nested[MaxDepth] = ItemNodes
<1>0. MaxDepth \in Nat
  BY DepthAssumption
<1> DEFINE S == {d \in Nat : d < MaxDepth => Nested[d] \subseteq Nested[d+1]}
<1>1. 0 \in S
  <2> SUFFICES ASSUME 0 < MaxDepth, NEW x \in Nested[0] PROVE x \in Nested[1]
    OBVIOUS
  <2>1. Nested[0] = InDepth(Nested, 0) /\ Nested[1] = InDepth(Nested, 1)
    BY <1>0, NestedIs
  <2> QED BY <2>1 DEF InDepth
<1>2. ASSUME NEW d \in Nat, d \in S PROVE d + 1 \in S
  <2> SUFFICES ASSUME d + 1 < MaxDepth, NEW x \in Nested[d+1] PROVE x \in Nested[(d+1)+1]
    OBVIOUS
  <2>1. Nested[d] \subseteq Nested[d+1]
    BY <1>0, <1>2
  <2>2. Seq(Nested[d]) \subseteq Seq(Nested[d+1])
    BY <2>1, SeqMonotonic
  <2>3. d + 1 \in 0..MaxDepth /\ (d + 1) + 1 \in 0..MaxDepth /\ (d + 1) - 1 = d /\ ((d + 1) + 1) - 1 = d + 1
    BY <1>0
  <2>4. Nested[d+1] = InDepth(Nested, d + 1) /\ Nested[(d+1)+1] = InDepth(Nested, (d + 1) + 1)
    BY <2>3, NestedIs, Zenon
  <2>5. x \in ItemNodes /\ (x.kind = "Switch" => x.items \in Seq(Nested[d]))
    BY <2>3, <2>4 DEF InDepth
  <2>6. (d + 1) + 1 > 0
    OBVIOUS
  <2> QED BY <2>2, <2>3, <2>4, <2>5, <2>6 DEF InDepth
<1>3. Nat \subseteq S
  <2> HIDE DEF S
  <2> QED BY <1>1, <1>2, SetInduction
<1>4. Nested[MaxDepth] \subseteq ItemNodes
  BY <1>0, NestedIs DEF InDepth
<1> QED BY <1>0, <1>3, <1>4, DepthAssumption

WithinBy(f, s) ==
    Flatten([i \in DOMAIN s |-> IF s[i].kind = "Switch" THEN <<s[i]>> \o f[s[i].items] ELSE <<s[i]>>])

\* Functions that agree on the items of switches are flattened alike.
LEMMA WithinAlike ==
  ASSUME NEW f, NEW g, NEW s, \A i \in DOMAIN s : s[i].kind = "Switch" => f[s[i].items] = g[s[i].items]
  PROVE  WithinBy(f, s) = WithinBy(g, s)
<1> DEFINE a == [i \in DOMAIN s |-> IF s[i].kind = "Switch" THEN <<s[i]>> \o f[s[i].items] ELSE <<s[i]>>]
           b == [i \in DOMAIN s |-> IF s[i].kind = "Switch" THEN <<s[i]>> \o g[s[i].items] ELSE <<s[i]>>]
<1>1. a = b
  BY Zenon
<1>2. WithinBy(f, s) = Flatten(a) /\ WithinBy(g, s) = Flatten(b)
  BY DEF WithinBy
<1> HIDE DEF a, b
<1> QED BY <1>1, <1>2

\* There is a function of which Within is the definition.
LEMMA WithinIs == \A s \in Seq(ItemNodes) : Within[s] = WithinBy(Within, s)
<1>0. MaxDepth \in Nat
  BY DepthAssumption
<1> DEFINE E(d, f) == f = [s \in Seq(Nested[d]) |-> WithinBy(f, s)]
           S == {d \in Nat : d <= MaxDepth => \E f : E(d, f)}
<1>1. 0 \in S
  <2> DEFINE f == [s \in Seq(Nested[0]) |-> WithinBy(<<>>, s)]
  <2>1. ASSUME NEW s \in Seq(Nested[0]) PROVE WithinBy(f, s) = WithinBy(<<>>, s)
    <3>1. \A i \in DOMAIN s : s[i].kind # "Switch"
      <4>1. Nested[0] = InDepth(Nested, 0)
        BY <1>0, NestedIs
      <4>2. \A i \in DOMAIN s : s[i] \in Nested[0]
        BY LenProperties
      <4> QED BY <4>1, <4>2 DEF InDepth
    <3> HIDE DEF f
    <3> QED BY <3>1, WithinAlike
  <2>2. f = [s \in Seq(Nested[0]) |-> WithinBy(f, s)]
    BY <2>1, Zenon
  <2> HIDE DEF f
  <2> QED BY <2>2
<1>2. ASSUME NEW d \in Nat, d \in S PROVE d + 1 \in S
  <2> SUFFICES ASSUME d + 1 <= MaxDepth PROVE \E f : E(d + 1, f)
    OBVIOUS
  <2>0. d <= MaxDepth /\ d < MaxDepth /\ d \in 0..MaxDepth /\ d + 1 \in 0..MaxDepth /\ (d + 1) - 1 = d
    BY <1>0
  <2>1. PICK f : E(d, f)
    BY <1>2, <2>0, Zenon
  <2>2. Nested[d+1] = InDepth(Nested, d + 1) /\ Seq(Nested[d]) \subseteq Seq(Nested[d+1])
    BY <2>0, NestedIs, NestedGrows, SeqMonotonic
  <2> DEFINE g == [s \in Seq(Nested[d+1]) |-> WithinBy(f, s)]
  <2>3. ASSUME NEW s \in Seq(Nested[d]) PROVE g[s] = f[s]
    <3>1. g[s] = WithinBy(f, s)
      BY <2>2
    <3>2. f[s] = WithinBy(f, s)
      BY <2>1
    <3> QED BY <3>1, <3>2
  <2>4. ASSUME NEW s \in Seq(Nested[d+1]) PROVE WithinBy(g, s) = WithinBy(f, s)
    <3>1. \A i \in DOMAIN s : s[i] \in Nested[d+1]
      BY LenProperties
    <3>2. \A i \in DOMAIN s : s[i].kind = "Switch" => s[i].items \in Seq(Nested[d])
      BY <2>0, <2>2, <3>1 DEF InDepth
    <3> HIDE DEF g
    <3>3. \A i \in DOMAIN s : s[i].kind = "Switch" => g[s[i].items] = f[s[i].items]
      BY <2>3, <3>2
    <3> QED BY <3>3, WithinAlike
  <2>5. g = [s \in Seq(Nested[d+1]) |-> WithinBy(g, s)]
    BY <2>4, Zenon
  <2> HIDE DEF g
  <2> QED BY <2>5
<1>3. MaxDepth \in S
  <2> HIDE DEF S
  <2> QED BY <1>0, <1>1, <1>2, SetInduction
<1>4. PICK f : E(MaxDepth, f)
  <2>1. MaxDepth <= MaxDepth
    BY <1>0
  <2> QED BY <1>3, <2>1, Zenon
<1> DEFINE F(g) == [s \in Seq(ItemNodes) |-> WithinBy(g, s)]
<1>5. f = F(f)
  BY <1>4, NestedGrows
<1>6. Within = CHOOSE g : g = F(g)
  BY DEF Within, WithinBy
<1>7. Within = F(Within)
  <2> HIDE DEF F
  <2> QED BY <1>5, <1>6
<1> QED BY <1>7

\* An item with the items within it.
WithinOf == [x \in ItemNodes |-> IF x.kind = "Switch" THEN <<x>> \o Within[x.items] ELSE <<x>>]

\* Items with those within them are those of each, one after the other.
LEMMA WithinFlat ==
  ASSUME NEW s \in Seq(ItemNodes)
  PROVE  Within[s] = Flat(WithinOf, s)
<1> DEFINE a == [i \in DOMAIN s |-> IF s[i].kind = "Switch" THEN <<s[i]>> \o Within[s[i].items] ELSE <<s[i]>>]
           b == [i \in DOMAIN s |-> WithinOf[s[i]]]
<1>1. \A i \in DOMAIN s : s[i] \in ItemNodes
  BY LenProperties
<1>2. \A x \in ItemNodes : WithinOf[x] = IF x.kind = "Switch" THEN <<x>> \o Within[x.items] ELSE <<x>>
  BY DEF WithinOf
<1>3. a = b
  BY <1>1, <1>2
<1>4. Within[s] = Flatten(a) /\ Flat(WithinOf, s) = Flatten(b)
  BY WithinIs, Zenon DEF WithinBy, Flat
<1> HIDE DEF a, b
<1> QED BY <1>3, <1>4

\* They are items.
LEMMA WithinType == Makes(WithinOf, ItemNodes, ItemNodes)
<1>0. MaxDepth \in Nat
  BY DepthAssumption
<1> DEFINE S == {d \in Nat : d <= MaxDepth => Makes(WithinOf, Nested[d], ItemNodes)}
<1>1. 0 \in S
  <2>1. Nested[0] = InDepth(Nested, 0)
    BY <1>0, NestedIs
  <2>2. ASSUME NEW x \in Nested[0] PROVE WithinOf[x] = <<x>> /\ x \in ItemNodes
    BY <2>1 DEF InDepth, WithinOf
  <2>3. ASSUME NEW x \in Nested[0] PROVE WithinOf[x] \in Seq(ItemNodes)
    BY <2>2
  <2> QED BY <2>3 DEF Makes
<1>2. ASSUME NEW d \in Nat, d \in S PROVE d + 1 \in S
  <2> SUFFICES ASSUME d + 1 <= MaxDepth, NEW x \in Nested[d+1] PROVE WithinOf[x] \in Seq(ItemNodes)
    BY DEF Makes
  <2>1. d <= MaxDepth /\ d \in 0..MaxDepth /\ d + 1 \in 0..MaxDepth /\ (d + 1) - 1 = d
    BY <1>0
  <2>2. Makes(WithinOf, Nested[d], ItemNodes)
    BY <1>2, <2>1
  <2>3. Nested[d+1] = InDepth(Nested, d + 1) /\ Nested[d] = InDepth(Nested, d)
    BY <2>1, NestedIs
  <2>4. x \in ItemNodes /\ (x.kind = "Switch" => x.items \in Seq(Nested[d])) /\ Nested[d] \subseteq ItemNodes
    BY <2>1, <2>3 DEF InDepth
  <2>5. ASSUME x.kind = "Switch" PROVE Within[x.items] \in Seq(ItemNodes)
    <3>1. x.items \in Seq(Nested[d]) /\ x.items \in Seq(ItemNodes)
      BY <2>4, <2>5, SeqMonotonic
    <3>2. Within[x.items] = Flat(WithinOf, x.items)
      BY <3>1, WithinFlat
    <3> QED BY <2>2, <3>1, <3>2, FlatType
  <2>6. WithinOf[x] = IF x.kind = "Switch" THEN <<x>> \o Within[x.items] ELSE <<x>>
    BY <2>4 DEF WithinOf
  <2>7. <<x>> \in Seq(ItemNodes)
    BY <2>4
  <2> QED BY <2>5, <2>6, <2>7, ConcatProperties
<1>3. MaxDepth \in S
  <2> HIDE DEF S
  <2> QED BY <1>0, <1>1, <1>2, SetInduction
<1> QED BY <1>0, <1>3, NestedGrows


\* The nodes that can be visited.
Node == DeclNodes \cup ItemNodes \cup ParamNodes \cup {Id(s) : s \in STRING}

--------------------------------------------------------------------------------
(***************************************************************************)
(* What is made of declarations and units, and what is left to be made of  *)
(* the nodes that are still to be visited.                                 *)
(***************************************************************************)
UnitsMade(o) == [d \in DeclNodes |-> GeneratedFrom(o, d)]
MembersMade(o) == [x \in ItemNodes |-> IF x.kind \in {"Stored", "Variable"} THEN MemberOf(o, x) ELSE <<>>]
ClassesMade(o) == [u \in UnitNodes |-> ClassesOf(o, u)]
EnumsMade == [d \in DeclNodes |-> IF d.kind = "Enum" THEN <<d.name>> ELSE <<>>]
FunctionsMade == [d \in DeclNodes |-> IF IsFunction(d) THEN <<d.name>> ELSE <<>>]

UnitsLeft == [x \in Node |-> CASE x.kind = "Unit" -> <<x>>
                               [] x.kind = "Instantiation" -> x.compacted_units
                               [] OTHER -> <<>>]
MembersLeft(o) == [x \in Node |-> CASE x.kind \in {"Stored", "Variable"} -> MemberOf(o, x)
                                    [] x.kind = "Switch" -> Flat(MembersMade(o), Within[x.items])
                                    [] OTHER -> <<>>]
EnumsLeft == [x \in Node |-> IF x.kind = "Enum" THEN <<x.name>> ELSE <<>>]
FunctionsLeft == [x \in Node |-> IF IsFunction(x) THEN <<x.name>> ELSE <<>>]

\* Members and classes.
Members(o) == {MemberOf(o, x)[1] : x \in ItemNodes}
Names == {UnitClasses(u)[i].name : u \in UnitNodes, i \in 1..3}
Classes(o) == [name : Names, of : STRING, members : Seq(Members(o))]
FunctionsOf == [name : STRING, args : Seq(STRING)]

\* The nodes of each kind.
LEMMA NodeKinds ==
  /\ DeclNodes \subseteq Node /\ ItemNodes \subseteq Node /\ ParamNodes \subseteq Node /\ UnitNodes \subseteq DeclNodes
  /\ \A x \in Node : /\ x.kind = "Unit" => x \in UnitNodes
                     /\ x.kind \in {"Stored", "Variable", "Switch", "Property"} => x \in ItemNodes
                     /\ x.kind \in {"Enum", "Function", "Instantiation", "Other"} => x \in DeclNodes
                     /\ x.kind = "Parameter" => x.id \in STRING
  /\ \A u \in UnitNodes : u.kind = "Unit" /\ u.name \in STRING /\ u.params \in Seq(ParamNodes) /\ u.items \in Seq(ItemNodes)
  /\ \A d \in DeclNodes : /\ d.kind \in {"Enum", "Function"} => d.name \in STRING
                          /\ d.kind = "Instantiation" => d.compacted_units \in Seq(UnitNodes)
  /\ \A x \in ItemNodes : x.kind = "Switch" => x.items \in Seq(ItemNodes)
<1>1. DeclNodes \subseteq Node /\ ItemNodes \subseteq Node /\ ParamNodes \subseteq Node /\ UnitNodes \subseteq DeclNodes
  BY DEF DeclNodes, ItemNodes, UnitNodes, Node
<1>2. \A x \in Node : /\ x.kind = "Unit" => x \in UnitNodes
                      /\ x.kind \in {"Stored", "Variable", "Switch", "Property"} => x \in ItemNodes
                      /\ x.kind \in {"Enum", "Function", "Instantiation", "Other"} => x \in DeclNodes
                      /\ x.kind = "Parameter" => x.id \in STRING
  <2> SUFFICES ASSUME NEW x \in Node
               PROVE  /\ x.kind = "Unit" => x \in UnitNodes
                      /\ x.kind \in {"Stored", "Variable", "Switch", "Property"} => x \in ItemNodes
                      /\ x.kind \in {"Enum", "Function", "Instantiation", "Other"} => x \in DeclNodes
                      /\ x.kind = "Parameter" => x.id \in STRING
    OBVIOUS
  <2>1. x.kind # "ID" => x \in Nodes
    BY DEF DeclNodes, ItemNodes, ParamNodes, Node, Id
  <2>2. x \in Nodes => (x.kind = "Parameter" => x.id \in STRING)
    BY NodesAssumption DEF Wellformed
  <2> QED BY <2>1, <2>2 DEF DeclNodes, ItemNodes, UnitNodes
<1>3. \A u \in UnitNodes : u.kind = "Unit" /\ u.name \in STRING /\ u.params \in Seq(ParamNodes) /\ u.items \in Seq(ItemNodes)
  BY NodesAssumption, Zenon DEF UnitNodes, Wellformed
<1>4. \A d \in DeclNodes : /\ d.kind \in {"Enum", "Function"} => d.name \in STRING
                           /\ d.kind = "Instantiation" => d.compacted_units \in Seq(UnitNodes)
  BY NodesAssumption DEF DeclNodes, Wellformed
<1>5. \A x \in ItemNodes : x.kind = "Switch" => x.items \in Seq(ItemNodes)
  BY NodesAssumption DEF ItemNodes, Wellformed
<1> QED BY <1>1, <1>2, <1>3, <1>4, <1>5

\* What is made of declarations and units, as concatenations.
LEMMA MadeIs ==
  ASSUME NEW o
  PROVE  /\ \A ds \in Seq(DeclNodes) : /\ UnitsFrom(o, ds) = Flat(UnitsMade(o), ds)
                                       /\ EnumsFrom(ds) = Flat(EnumsMade, ds)
                                       /\ FunctionsFrom(ds) = Flat(FunctionsMade, ds)
         /\ \A us \in Seq(UnitNodes) : ClassesFrom(o, us) = Flat(ClassesMade(o), us)
         /\ \A u \in UnitNodes : MembersOf(o, u) = Flat(MembersMade(o), Within[u.items])
<1>1. ASSUME NEW ds \in Seq(DeclNodes)
      PROVE  /\ UnitsFrom(o, ds) = Flat(UnitsMade(o), ds) /\ EnumsFrom(ds) = Flat(EnumsMade, ds)
             /\ FunctionsFrom(ds) = Flat(FunctionsMade, ds)
  <2>1. \A i \in DOMAIN ds : ds[i] \in DeclNodes
    BY LenProperties
  <2>2. [i \in DOMAIN ds |-> GeneratedFrom(o, ds[i])] = [i \in DOMAIN ds |-> UnitsMade(o)[ds[i]]]
    BY <2>1, Zenon DEF UnitsMade
  <2>3. [i \in DOMAIN ds |-> IF ds[i].kind = "Enum" THEN <<ds[i].name>> ELSE <<>>]
          = [i \in DOMAIN ds |-> EnumsMade[ds[i]]]
    BY <2>1 DEF EnumsMade
  <2>4. [i \in DOMAIN ds |-> IF IsFunction(ds[i]) THEN <<ds[i].name>> ELSE <<>>]
          = [i \in DOMAIN ds |-> FunctionsMade[ds[i]]]
    BY <2>1 DEF FunctionsMade
  <2> QED BY <2>2, <2>3, <2>4, Zenon DEF UnitsFrom, EnumsFrom, FunctionsFrom, Flat
<1>2. ASSUME NEW us \in Seq(UnitNodes)
      PROVE  ClassesFrom(o, us) = Flat(ClassesMade(o), us)
  <2>1. \A i \in DOMAIN us : us[i] \in UnitNodes
    BY LenProperties
  <2>2. [i \in DOMAIN us |-> ClassesOf(o, us[i])] = [i \in DOMAIN us |-> ClassesMade(o)[us[i]]]
    BY <2>1, Zenon DEF ClassesMade
  <2> QED BY <2>2, Zenon DEF ClassesFrom, Flat
<1>3. ASSUME NEW u \in UnitNodes PROVE MembersOf(o, u) = Flat(MembersMade(o), Within[u.items])
  <2> DEFINE v == Within[u.items]
  <2>1. v \in Seq(ItemNodes)
    BY NodeKinds, WithinFlat, WithinType, FlatType
  <2>2. MembersOf(o, u) = Flatten([i \in DOMAIN v |-> IF v[i].kind \in {"Stored", "Variable"} THEN MemberOf(o, v[i]) ELSE <<>>])
    BY DEF MembersOf
  <2> HIDE DEF v
  <2>3. \A i \in DOMAIN v : v[i] \in ItemNodes
    BY <2>1, LenProperties
  <2>4. [i \in DOMAIN v |-> IF v[i].kind \in {"Stored", "Variable"} THEN MemberOf(o, v[i]) ELSE <<>>]
          = [i \in DOMAIN v |-> MembersMade(o)[v[i]]]
    BY <2>3 DEF MembersMade
  <2>5. MembersOf(o, u) = Flat(MembersMade(o), v)
    BY <2>2, <2>4, Zenon DEF Flat
  <2> QED BY <2>5 DEF v
<1> QED BY <1>1, <1>2, <1>3

\* A member is one of the members.
LEMMA MemberType == ASSUME NEW o, NEW x \in ItemNodes PROVE MemberOf(o, x) \in Seq(Members(o))
<1>1. CASE MemberOf(o, x) = <<>>
  BY <1>1, EmptySeq
<1>2. CASE MemberOf(o, x) # <<>>
  <2>1. PICK m : MemberOf(o, x) = <<m>>
    BY <1>2 DEF MemberOf
  <2>2. m \in Members(o)
    BY <2>1 DEF Members
  <2> QED BY <2>1, <2>2
<1> QED BY <1>1, <1>2

\* What sequences are made of nodes.
LEMMA MadeTypes ==
  ASSUME NEW o
  PROVE  /\ Makes(UnitsMade(o), DeclNodes, UnitNodes) /\ Makes(MembersMade(o), ItemNodes, Members(o))
         /\ Makes(EnumsMade, DeclNodes, STRING) /\ Makes(FunctionsMade, DeclNodes, STRING)
         /\ Makes(UnitsLeft, Node, UnitNodes) /\ Makes(MembersLeft(o), Node, Members(o))
         /\ Makes(EnumsLeft, Node, STRING) /\ Makes(FunctionsLeft, Node, STRING)
<1>1. Makes(UnitsMade(o), DeclNodes, UnitNodes)
  <2> SUFFICES ASSUME NEW d \in DeclNodes PROVE UnitsMade(o)[d] \in Seq(UnitNodes)
    BY DEF Makes
  <2>1. UnitsMade(o)[d] = GeneratedFrom(o, d)
    BY DEF UnitsMade
  <2>2. d.kind = "Unit" => d \in UnitNodes
    BY DEF DeclNodes, UnitNodes
  <2> QED BY <2>1, <2>2, NodeKinds DEF GeneratedFrom
<1>2. Makes(MembersMade(o), ItemNodes, Members(o))
  <2> SUFFICES ASSUME NEW x \in ItemNodes PROVE MembersMade(o)[x] \in Seq(Members(o))
    BY DEF Makes
  <2>1. MembersMade(o)[x] = IF x.kind \in {"Stored", "Variable"} THEN MemberOf(o, x) ELSE <<>>
    BY DEF MembersMade
  <2> QED BY <2>1, MemberType, EmptySeq
<1>3. Makes(EnumsMade, DeclNodes, STRING) /\ Makes(EnumsLeft, Node, STRING)
  <2>0. ASSUME NEW d \in Node PROVE (IF d.kind = "Enum" THEN <<d.name>> ELSE <<>>) \in Seq(STRING)
    <3>1. d.kind = "Enum" => d.name \in STRING
      BY NodeKinds
    <3>2. d.kind = "Enum" => <<d.name>> \in Seq(STRING)
      BY <3>1
    <3>3. <<>> \in Seq(STRING)
      BY EmptySeq
    <3> QED BY <3>2, <3>3, Zenon
  <2>1. Makes(EnumsMade, DeclNodes, STRING)
    BY <2>0, NodeKinds, Zenon DEF Makes, EnumsMade
  <2>2. Makes(EnumsLeft, Node, STRING)
    BY <2>0, Zenon DEF Makes, EnumsLeft
  <2> QED BY <2>1, <2>2
<1>4. Makes(UnitsLeft, Node, UnitNodes)
  <2> SUFFICES ASSUME NEW x \in Node PROVE UnitsLeft[x] \in Seq(UnitNodes)
    BY DEF Makes
  <2>1. UnitsLeft[x] = CASE x.kind = "Unit" -> <<x>>
                         [] x.kind = "Instantiation" -> x.compacted_units
                         [] OTHER -> <<>>
    BY DEF UnitsLeft
  <2> QED BY <2>1, NodeKinds
<1>5. Makes(MembersLeft(o), Node, Members(o))
  <2> SUFFICES ASSUME NEW x \in Node PROVE MembersLeft(o)[x] \in Seq(Members(o))
    BY DEF Makes
  <2>1. MembersLeft(o)[x] = CASE x.kind \in {"Stored", "Variable"} -> MemberOf(o, x)
                              [] x.kind = "Switch" -> Flat(MembersMade(o), Within[x.items])
                              [] OTHER -> <<>>
    BY DEF MembersLeft
  <2>2. x.kind \in {"Stored", "Variable"} => MemberOf(o, x) \in Seq(Members(o))
    BY NodeKinds, MemberType
  <2>3. ASSUME x.kind = "Switch" PROVE Flat(MembersMade(o), Within[x.items]) \in Seq(Members(o))
    <3>1. x.items \in Seq(ItemNodes)
      BY <2>3, NodeKinds
    <3>2. Within[x.items] \in Seq(ItemNodes)
      BY <3>1, WithinFlat, WithinType, FlatType
    <3> QED BY <1>2, <3>2, FlatType
  <2>4. <<>> \in Seq(Members(o))
    BY EmptySeq
  <2> QED BY <2>1, <2>2, <2>3, <2>4, Zenon
<1>6. Makes(FunctionsMade, DeclNodes, STRING) /\ Makes(FunctionsLeft, Node, STRING)
  <2>0. ASSUME NEW d \in Node PROVE (IF IsFunction(d) THEN <<d.name>> ELSE <<>>) \in Seq(STRING)
    <3>1. IsFunction(d) => d.name \in STRING
      BY NodeKinds DEF IsFunction
    <3>2. IsFunction(d) => <<d.name>> \in Seq(STRING)
      BY <3>1
    <3>3. <<>> \in Seq(STRING)
      BY EmptySeq
    <3> QED BY <3>2, <3>3, Zenon
  <2>1. Makes(FunctionsMade, DeclNodes, STRING)
    BY <2>0, NodeKinds, Zenon DEF Makes, FunctionsMade
  <2>2. Makes(FunctionsLeft, Node, STRING)
    BY <2>0, Zenon DEF Makes, FunctionsLeft
  <2> QED BY <2>1, <2>2
<1> QED BY <1>1, <1>2, <1>3, <1>4, <1>5, <1>6

Leaves == ItemNodes \cup ParamNodes \cup {Id(s) : s \in STRING}

\* What is left of single nodes.
LEMMA LeftValues ==
  ASSUME NEW o
  PROVE  /\ \A x \in Leaves : /\ UnitsLeft[x] = <<>> /\ EnumsLeft[x] = <<>> /\ FunctionsLeft[x] = <<>>
                              /\ x.kind # "Unit" /\ x.kind # "Function"
         /\ \A x \in ItemNodes : x.kind = "Property" => MembersLeft(o)[x] = <<>>
         /\ \A u \in UnitNodes : /\ UnitsLeft[u] = <<u>> /\ EnumsLeft[u] = <<>>
                                 /\ MembersLeft(o)[u] = <<>> /\ FunctionsLeft[u] = <<>>
         /\ \A x \in ParamNodes : MembersLeft(o)[x] = <<>>
         /\ \A s \in STRING : MembersLeft(o)[Id(s)] = <<>>
         /\ Leaves \subseteq Node /\ UnitNodes \subseteq Node
<1>1. Leaves \subseteq Node /\ UnitNodes \subseteq Node
  BY NodeKinds DEF Node, Leaves
<1>2. \A x \in Leaves : x.kind \in {"Stored", "Variable", "Switch", "Property", "Parameter", "ID"}
  BY DEF Leaves, ItemNodes, ParamNodes, Id
<1>3. \A x \in Leaves : /\ UnitsLeft[x] = <<>> /\ EnumsLeft[x] = <<>> /\ FunctionsLeft[x] = <<>>
                        /\ x.kind # "Unit" /\ x.kind # "Function"
  BY <1>1, <1>2 DEF UnitsLeft, EnumsLeft, FunctionsLeft, IsFunction
<1>4. ASSUME NEW x \in ItemNodes PROVE x.kind = "Property" => MembersLeft(o)[x] = <<>>
  <2>1. x \in Node /\ x.kind \in {"Stored", "Variable", "Switch", "Property"}
    BY <1>1 DEF Leaves, ItemNodes
  <2> QED BY <2>1 DEF MembersLeft
<1>5. ASSUME NEW u \in UnitNodes
      PROVE  /\ UnitsLeft[u] = <<u>> /\ EnumsLeft[u] = <<>>
             /\ MembersLeft(o)[u] = <<>> /\ FunctionsLeft[u] = <<>>
  <2>1. u \in Node /\ u.kind = "Unit"
    BY <1>1 DEF UnitNodes
  <2> QED BY <2>1 DEF UnitsLeft, EnumsLeft, FunctionsLeft, MembersLeft, IsFunction
<1>6. \A x \in Node : x.kind \in {"Parameter", "ID"} => MembersLeft(o)[x] = <<>>
  BY DEF MembersLeft
<1>7. \A x \in ParamNodes : x \in Node /\ x.kind = "Parameter"
  BY NodeKinds DEF ParamNodes
<1>8. \A s \in STRING : Id(s) \in Node /\ Id(s).kind = "ID"
  BY DEF Id, Node
<1> QED BY <1>1, <1>3, <1>4, <1>5, <1>6, <1>7, <1>8

\* The members left of items are those of the items and of those within them.
LEMMA MembersVisited ==
  ASSUME NEW o, NEW s \in Seq(ItemNodes)
  PROVE  Flat(MembersLeft(o), s) = Flat(MembersMade(o), Within[s])
<1> DEFINE M == MembersMade(o)
           P(t) == Flat(MembersLeft(o), t) = Flat(M, Within[t])
           S == {m \in Nat : \A t \in Seq(ItemNodes) : Len(t) = m => P(t)}
<1>0. \A t \in Seq(ItemNodes) : Within[t] \in Seq(ItemNodes)
  BY WithinFlat, WithinType, FlatType
<1>1. 0 \in S
  <2>1. \A t \in Seq(ItemNodes) : Len(t) = 0 => t = <<>>
    BY EmptySeq
  <2>2. Within[<<>>] = <<>>
    BY EmptySeq, WithinFlat, FlatEmpty, Zenon
  <2>3. P(<<>>)
    BY <2>2, FlatEmpty
  <2> HIDE DEF P
  <2> QED BY <2>1, <2>3
<1>2. ASSUME NEW m \in Nat, m \in S PROVE m + 1 \in S
  <2> SUFFICES ASSUME NEW t \in Seq(ItemNodes), Len(t) = m + 1 PROVE P(t)
    OBVIOUS
  <2>1. PICK z \in Seq(ItemNodes), x \in ItemNodes : t = Append(z, x) /\ Len(z) = m
    BY Fronted, Zenon
  <2>2. Flat(MembersLeft(o), z) = Flat(M, Within[z])
    BY <1>2, <2>1
  <2>3. Flat(MembersLeft(o), t) = Flat(MembersLeft(o), z) \o MembersLeft(o)[x]
    BY <2>1, FlatAppend
  <2> DEFINE v == WithinOf[x]
             w == Within[z]
  <2>4. Within[t] = w \o v
    BY <2>1, WithinFlat, FlatAppend, Zenon
  <2>5. v \in Seq(ItemNodes) /\ w \in Seq(ItemNodes)
    BY <1>0, WithinType DEF Makes
  <2>6. Makes(M, ItemNodes, Members(o))
    BY MadeTypes
  <2>7. Flat(M, v) = MembersLeft(o)[x]
    <3>0. x \in Node /\ x.kind \in {"Stored", "Variable", "Switch", "Property"}
      BY NodeKinds DEF ItemNodes
    <3>1. CASE x.kind = "Switch"
      <4> DEFINE a == <<x>>
                 b == Within[x.items]
      <4>1. a \in Seq(ItemNodes) /\ b \in Seq(ItemNodes) /\ v = a \o b
        BY <1>0, <3>1, NodeKinds DEF WithinOf
      <4>2. Flat(M, a) = M[x] /\ M[x] = <<>>
        BY <2>6, <3>1, FlatOne DEF MembersMade
      <4>3. MembersLeft(o)[x] = Flat(M, b)
        BY <3>0, <3>1 DEF MembersLeft
      <4> HIDE DEF a, b, v, M
      <4>4. Flat(M, a \o b) = Flat(M, a) \o Flat(M, b)
        <5>1. Flat(M, Cat(a, b)) = Cat(Flat(M, a), Flat(M, b))
          BY <2>6, <4>1, FlatCat
        <5> QED BY <5>1 DEF Cat
      <4>5. Flat(M, b) \in Seq(Members(o))
        BY <2>6, <4>1, FlatType
      <4>6. <<>> \o Flat(M, b) = Flat(M, b)
        BY <4>5, ConcatEmptySeq
      <4> QED BY <4>1, <4>2, <4>3, <4>4, <4>6, Zenon
    <3>2. CASE x.kind # "Switch"
      <4>1. v = <<x>>
        BY <3>2 DEF WithinOf
      <4>2. Flat(M, v) = M[x]
        BY <2>6, <4>1, FlatOne
      <4>3. M[x] = MembersLeft(o)[x]
        BY <3>0, <3>2 DEF MembersMade, MembersLeft
      <4> QED BY <4>2, <4>3
    <3> QED BY <3>1, <3>2
  <2> HIDE DEF v, w, M
  <2>8. Flat(M, w \o v) = Flat(M, w) \o Flat(M, v)
    <3>1. Flat(M, Cat(w, v)) = Cat(Flat(M, w), Flat(M, v))
      BY <2>5, <2>6, FlatCat
    <3> QED BY <3>1 DEF Cat
  <2> QED BY <2>2, <2>3, <2>4, <2>7, <2>8 DEF w
<1>3. Len(s) \in S
  <2> HIDE DEF S
  <2>1. Len(s) \in Nat
    BY LenProperties
  <2> QED BY <1>1, <1>2, <2>1, SetInduction
<1> QED BY <1>3

--------------------------------------------------------------------------------
(***************************************************************************)
(* The last class of each name.                                            *)
(***************************************************************************)
LastOf(cs, I, all, P) ==
    /\ \A p \in P : \E i \in I : cs[i].name = all[p].name
    /\ \A i \in I : \E p \in P : cs[i] = all[p] /\ \A q \in P : q > p => all[q].name # all[p].name
    /\ \A i, j \in I : i < j =>
         \E p \in P : all[p].name = cs[i].name /\ \A q \in P : all[q].name = cs[j].name => p < q

\* HasLast, place by place.
LEMMA HasLastIs ==
  ASSUME NEW cs, NEW all
  PROVE  HasLast(cs, all) <=> LastOf(cs, DOMAIN cs, all, DOMAIN all)
<1> DEFINE N(s) == {c.name : c \in Range(s)}
<1>1. \A s, x : x \in N(s) <=> \E i \in DOMAIN s : x = s[i].name
  BY Zenon DEF Range
<1>2. HasLast(cs, all) => \A p \in DOMAIN all : \E i \in DOMAIN cs : cs[i].name = all[p].name
  <2> SUFFICES ASSUME HasLast(cs, all), NEW p \in DOMAIN all PROVE \E i \in DOMAIN cs : cs[i].name = all[p].name
    OBVIOUS
  <2>1. N(cs) = N(all)
    BY Zenon DEF HasLast
  <2> HIDE DEF N
  <2>2. PICK x : x = all[p].name
    OBVIOUS
  <2>3. x \in N(all)
    BY <1>1, <2>2, Zenon
  <2>4. x \in N(cs)
    BY <2>1, <2>3
  <2>5. PICK i \in DOMAIN cs : x = cs[i].name
    BY <1>1, <2>4, Zenon
  <2> QED BY <2>2, <2>5, Zenon
<1>3. LastOf(cs, DOMAIN cs, all, DOMAIN all) => N(cs) = N(all)
  <2> SUFFICES ASSUME LastOf(cs, DOMAIN cs, all, DOMAIN all) PROVE N(cs) = N(all)
    BY Zenon
  <2>1. \A p \in DOMAIN all : \E i \in DOMAIN cs : cs[i].name = all[p].name
    BY Zenon DEF LastOf
  <2>2. \A i \in DOMAIN cs : \E p \in DOMAIN all : cs[i].name = all[p].name
    BY Zenon DEF LastOf
  <2>3. \A x : x \in N(cs) <=> x \in N(all)
    <3> HIDE DEF N
    <3>1. ASSUME NEW x, x \in N(cs) PROVE x \in N(all)
      <4>1. PICK i \in DOMAIN cs : x = cs[i].name
        BY <1>1, <3>1, Zenon
      <4>2. PICK p \in DOMAIN all : x = all[p].name
        BY <2>2, <4>1, Zenon
      <4> QED BY <1>1, <4>2, Zenon
    <3>2. ASSUME NEW x, x \in N(all) PROVE x \in N(cs)
      <4>1. PICK p \in DOMAIN all : x = all[p].name
        BY <1>1, <3>2, Zenon
      <4>2. PICK i \in DOMAIN cs : x = cs[i].name
        BY <2>1, <4>1, Zenon
      <4> QED BY <1>1, <4>2, Zenon
    <3> QED BY <3>1, <3>2
  <2> HIDE DEF N
  <2> QED BY <2>3
<1> QED BY <1>2, <1>3, Zenon DEF HasLast, LastOf

\* A class that is inserted is the last of its name.
LEMMA InsertHasLast ==
  ASSUME NEW C, NEW cs \in Seq(C), NEW all \in Seq(C), NEW c \in C, HasLast(cs, all)
  PROVE  InsertClass(cs, c) \in Seq(C) /\ Append(all, c) \in Seq(C) /\ HasLast(InsertClass(cs, c), Append(all, c))
<1> DEFINE m == Len(all)
           n == Len(cs)
           a == Append(all, c)
           d == InsertClass(cs, c)
<1>2. n \in Nat /\ m \in Nat /\ DOMAIN cs = 1..n /\ DOMAIN all = 1..m
  BY LenProperties
<1>1. LastOf(cs, 1..n, all, 1..m)
  BY <1>2, HasLastIs
<1>3. a \in Seq(C) /\ Len(a) = m + 1 /\ a[m+1] = c /\ \A p \in 1..m : a[p] = all[p]
  BY AppendProperties
<1>4. CASE \E i \in DOMAIN cs : cs[i].name = c.name
  <2>1. d = [i \in 1..n |-> IF cs[i].name = c.name THEN c ELSE cs[i]]
    BY <1>2, <1>4, Zenon DEF InsertClass
  <2>2. d \in Seq(C) /\ Len(d) = n
    BY <1>2, <2>1
  <2>3. \A i \in 1..n : d[i].name = cs[i].name /\ d[i] = IF cs[i].name = c.name THEN c ELSE cs[i]
    BY <2>1
  <2> HIDE DEF d, a, m, n
  <2>4. \A p \in 1..(m+1) : \E i \in 1..n : d[i].name = a[p].name
    <3> SUFFICES ASSUME NEW p \in 1..(m+1) PROVE \E i \in 1..n : d[i].name = a[p].name
      OBVIOUS
    <3>1. CASE p = m + 1
      BY <1>2, <1>3, <1>4, <2>3, <3>1
    <3>2. CASE p \in 1..m
      <4>1. PICK i \in 1..n : cs[i].name = all[p].name
        BY <1>1, <3>2, Zenon DEF LastOf
      <4> QED BY <1>3, <2>3, <3>2, <4>1
    <3> QED BY <1>2, <3>1, <3>2
  <2>5. ASSUME NEW i \in 1..n
        PROVE  \E p \in 1..(m+1) : d[i] = a[p] /\ \A q \in 1..(m+1) : q > p => a[q].name # a[p].name
    <3>1. CASE cs[i].name = c.name
      <4>1. d[i] = a[m+1] /\ m + 1 \in 1..(m+1)
        BY <1>2, <1>3, <2>3, <3>1
      <4>2. \A q \in 1..(m+1) : ~(q > m + 1)
        BY <1>2
      <4> QED BY <4>1, <4>2
    <3>2. CASE cs[i].name # c.name
      <4>1. PICK p \in 1..m : cs[i] = all[p] /\ \A q \in 1..m : q > p => all[q].name # all[p].name
        BY <1>1 DEF LastOf
      <4>2. d[i] = a[p] /\ a[p].name # c.name /\ p \in 1..(m+1)
        BY <1>2, <1>3, <2>3, <3>2, <4>1
      <4>3. ASSUME NEW q \in 1..(m+1), q > p PROVE a[q].name # a[p].name
        <5>1. q \in 1..m \/ q = m + 1
          BY <1>2
        <5> QED BY <1>3, <4>1, <4>2, <4>3, <5>1
      <4> QED BY <4>2, <4>3
    <3> QED BY <3>1, <3>2
  <2>6. ASSUME NEW i \in 1..n, NEW j \in 1..n, i < j
        PROVE  \E p \in 1..(m+1) : a[p].name = d[i].name /\ \A q \in 1..(m+1) : a[q].name = d[j].name => p < q
    <3>1. PICK p \in 1..m : all[p].name = cs[i].name /\ \A q \in 1..m : all[q].name = cs[j].name => p < q
      BY <1>1, <2>6 DEF LastOf
    <3>2. a[p].name = d[i].name /\ p \in 1..(m+1)
      BY <1>2, <1>3, <2>3, <3>1
    <3>3. ASSUME NEW q \in 1..(m+1), a[q].name = d[j].name PROVE p < q
      <4>1. q \in 1..m \/ q = m + 1
        BY <1>2
      <4> QED BY <1>2, <1>3, <2>3, <3>1, <3>3, <4>1
    <3> QED BY <3>2, <3>3
  <2>7. LastOf(d, 1..n, a, 1..(m+1))
    BY <2>4, <2>5, <2>6, Zenon DEF LastOf
  <2>8. HasLast(d, a)
    <3>1. DOMAIN d = 1..n /\ DOMAIN a = 1..(m+1)
      BY <1>3, <2>2, LenProperties
    <3> QED BY <2>7, <3>1, HasLastIs
  <2> QED BY <1>3, <2>2, <2>8 DEF a, d
<1>5. CASE ~\E i \in DOMAIN cs : cs[i].name = c.name
  <2>1. d = Append(cs, c)
    BY <1>5 DEF InsertClass
  <2>2. d \in Seq(C) /\ Len(d) = n + 1 /\ d[n+1] = c /\ \A i \in 1..n : d[i] = cs[i]
    BY <2>1, AppendProperties
  <2>3. \A i \in 1..n : cs[i].name # c.name
    BY <1>2, <1>5
  <2> HIDE DEF d, a, m, n
  <2>4. \A p \in 1..m : all[p].name # c.name
    BY <1>1, <2>3 DEF LastOf
  <2>5. \A p \in 1..(m+1) : \E i \in 1..(n+1) : d[i].name = a[p].name
    <3> SUFFICES ASSUME NEW p \in 1..(m+1) PROVE \E i \in 1..(n+1) : d[i].name = a[p].name
      OBVIOUS
    <3>1. CASE p = m + 1
      <4>1. n + 1 \in 1..(n+1)
        BY <1>2
      <4> QED BY <1>3, <2>2, <3>1, <4>1
    <3>2. CASE p \in 1..m
      <4>1. PICK i \in 1..n : cs[i].name = all[p].name
        BY <1>1, <3>2 DEF LastOf
      <4>2. i \in 1..(n+1)
        BY <1>2
      <4> QED BY <1>3, <2>2, <3>2, <4>1, <4>2
    <3> QED BY <1>2, <3>1, <3>2
  <2>6. ASSUME NEW i \in 1..n
        PROVE  \E p \in 1..m : d[i] = a[p] /\ p \in 1..(m+1) /\ \A q \in 1..(m+1) : q > p => a[q].name # a[p].name
    <3>1. PICK p \in 1..m : cs[i] = all[p] /\ \A q \in 1..m : q > p => all[q].name # all[p].name
      BY <1>1 DEF LastOf
    <3>2. d[i] = a[p] /\ a[p].name # c.name /\ p \in 1..(m+1)
      BY <1>2, <1>3, <2>2, <2>3, <3>1
    <3>3. ASSUME NEW q \in 1..(m+1), q > p PROVE a[q].name # a[p].name
      <4>1. q \in 1..m \/ q = m + 1
        BY <1>2
      <4> QED BY <1>3, <3>1, <3>2, <3>3, <4>1
    <3> QED BY <3>2, <3>3
  <2>7. ASSUME NEW i \in 1..(n+1)
        PROVE  \E p \in 1..(m+1) : d[i] = a[p] /\ \A q \in 1..(m+1) : q > p => a[q].name # a[p].name
    <3>1. CASE i = n + 1
      <4>1. d[i] = a[m+1] /\ m + 1 \in 1..(m+1)
        BY <1>2, <1>3, <2>2, <3>1
      <4>2. \A q \in 1..(m+1) : ~(q > m + 1)
        BY <1>2
      <4> QED BY <4>1, <4>2
    <3>2. CASE i \in 1..n
      BY <2>6, <3>2
    <3> QED BY <1>2, <3>1, <3>2
  <2>8. ASSUME NEW i \in 1..(n+1), NEW j \in 1..(n+1), i < j
        PROVE  \E p \in 1..(m+1) : a[p].name = d[i].name /\ \A q \in 1..(m+1) : a[q].name = d[j].name => p < q
    <3>0. i \in 1..n
      BY <1>2, <2>8
    <3>1. CASE j = n + 1
      <4>1. PICK p \in 1..m : d[i] = a[p] /\ p \in 1..(m+1)
        BY <2>6, <3>0
      <4>2. ASSUME NEW q \in 1..(m+1), a[q].name = d[j].name PROVE p < q
        <5>1. q \in 1..m \/ q = m + 1
          BY <1>2
        <5>2. q \notin 1..m
          BY <1>3, <2>2, <2>4, <3>1, <4>2
        <5> QED BY <1>2, <5>1, <5>2
      <4> QED BY <4>1, <4>2
    <3>2. CASE j \in 1..n
      <4>1. PICK p \in 1..m : all[p].name = cs[i].name /\ \A q \in 1..m : all[q].name = cs[j].name => p < q
        BY <1>1, <2>8, <3>0, <3>2 DEF LastOf
      <4>2. a[p].name = d[i].name /\ p \in 1..(m+1)
        BY <1>2, <1>3, <2>2, <3>0, <4>1
      <4>3. ASSUME NEW q \in 1..(m+1), a[q].name = d[j].name PROVE p < q
        <5>1. q \in 1..m \/ q = m + 1
          BY <1>2
        <5> QED BY <1>2, <1>3, <2>2, <3>2, <4>1, <4>3, <5>1
      <4> QED BY <4>2, <4>3
    <3> QED BY <1>2, <3>1, <3>2
  <2>9. LastOf(d, 1..(n+1), a, 1..(m+1))
    BY <2>5, <2>7, <2>8, Zenon DEF LastOf
  <2>10. HasLast(d, a)
    <3>1. DOMAIN d = 1..(n+1) /\ DOMAIN a = 1..(m+1)
      BY <1>3, <2>2, LenProperties
    <3> QED BY <2>9, <3>1, HasLastIs
  <2> QED BY <1>3, <2>2, <2>10 DEF a, d
<1> QED BY <1>4, <1>5

IsLast(all, p0) == p0 \in 1..Len(all) /\ \A q \in 1..Len(all) : q > p0 => all[q].name # all[p0].name
Put(all, p0, new) == [all EXCEPT ![p0] = new]
Replaced(cs, new) == [i \in DOMAIN cs |-> IF cs[i].name = new.name THEN new ELSE cs[i]]

\* Changing all the classes of a name that has its last class at p0 changes
\* that class.
LEMMA UpdateHasLast ==
  ASSUME NEW C, NEW cs \in Seq(C), NEW all \in Seq(C), NEW new \in C, HasLast(cs, all),
         NEW p0, IsLast(all, p0), new.name = all[p0].name
  PROVE  /\ \A i \in DOMAIN cs : cs[i].name = new.name => cs[i] = all[p0]
         /\ Replaced(cs, new) \in Seq(C) /\ HasLast(Replaced(cs, new), Put(all, p0, new))
<1> DEFINE m == Len(all)
           n == Len(cs)
           a == [all EXCEPT ![p0] = new]
           d == [i \in DOMAIN cs |-> IF cs[i].name = new.name THEN new ELSE cs[i]]
<1>0. p0 \in 1..m /\ \A q \in 1..m : q > p0 => all[q].name # all[p0].name
  BY DEF IsLast
<1>2. n \in Nat /\ m \in Nat /\ DOMAIN cs = 1..n /\ DOMAIN all = 1..m
  BY LenProperties
<1>1. LastOf(cs, 1..n, all, 1..m)
  BY <1>2, HasLastIs
<1>3. a \in Seq(C) /\ Len(a) = m /\ a[p0] = new /\ \A p \in 1..m : a[p].name = all[p].name /\ (p # p0 => a[p] = all[p])
  BY <1>0, <1>2
<1>4. d \in Seq(C) /\ Len(d) = n
  BY <1>2
<1>5. \A i \in 1..n : d[i].name = cs[i].name /\ d[i] = IF cs[i].name = new.name THEN new ELSE cs[i]
  BY <1>2
<1>6. \A i \in DOMAIN cs : cs[i].name = new.name => cs[i] = all[p0]
  <2> SUFFICES ASSUME NEW i \in 1..n, cs[i].name = new.name PROVE cs[i] = all[p0]
    BY <1>2
  <2>1. PICK p \in 1..m : cs[i] = all[p] /\ \A q \in 1..m : q > p => all[q].name # all[p].name
    BY <1>1 DEF LastOf
  <2>2. ~(p > p0) /\ ~(p0 > p)
    BY <1>0, <2>1
  <2> QED BY <1>0, <1>2, <2>1, <2>2
<1> HIDE DEF a, d, m, n
<1>7. \A p \in 1..m : \E i \in 1..n : d[i].name = a[p].name
  <2> SUFFICES ASSUME NEW p \in 1..m PROVE \E i \in 1..n : d[i].name = a[p].name
    OBVIOUS
  <2>1. PICK i \in 1..n : cs[i].name = all[p].name
    BY <1>1, Zenon DEF LastOf
  <2> QED BY <1>3, <1>5, <2>1
<1>8. ASSUME NEW i \in 1..n
      PROVE  \E p \in 1..m : d[i] = a[p] /\ \A q \in 1..m : q > p => a[q].name # a[p].name
  <2>1. CASE cs[i].name = new.name
    <3>1. d[i] = a[p0] /\ p0 \in 1..m /\ \A q \in 1..m : q > p0 => a[q].name # a[p0].name
      BY <1>0, <1>3, <1>5, <2>1
    <3> QED BY <3>1
  <2>2. CASE cs[i].name # new.name
    <3>1. PICK p \in 1..m : cs[i] = all[p] /\ \A q \in 1..m : q > p => all[q].name # all[p].name
      BY <1>1 DEF LastOf
    <3>2. d[i] = a[p] /\ \A q \in 1..m : q > p => a[q].name # a[p].name
      BY <1>3, <1>5, <2>2, <3>1
    <3> QED BY <3>2
  <2> QED BY <2>1, <2>2
<1>9. ASSUME NEW i \in 1..n, NEW j \in 1..n, i < j
      PROVE  \E p \in 1..m : a[p].name = d[i].name /\ \A q \in 1..m : a[q].name = d[j].name => p < q
  <2>1. PICK p \in 1..m : all[p].name = cs[i].name /\ \A q \in 1..m : all[q].name = cs[j].name => p < q
    BY <1>1, <1>9 DEF LastOf
  <2> QED BY <1>3, <1>5, <2>1
<1>10. LastOf(d, 1..n, a, 1..m)
  BY <1>7, <1>8, <1>9, Zenon DEF LastOf
<1>11. HasLast(d, a)
  <2>1. DOMAIN d = 1..n /\ DOMAIN a = 1..m
    BY <1>3, <1>4, LenProperties
  <2> QED BY <1>10, <2>1, HasLastIs
<1> QED BY <1>4, <1>6, <1>11 DEF a, d, Put, Replaced

--------------------------------------------------------------------------------
(***************************************************************************)
(* What is left after a visit.                                             *)
(***************************************************************************)
Children(u) == u.params \o u.items \o <<Id(u.name)>>

Join3(a, b, c) == a \o b \o c

\* Concatenation of three parts.
LEMMA FlatThree ==
  ASSUME NEW T, NEW U, NEW h, Makes(h, U, T), NEW a \in Seq(U), NEW b \in Seq(U), NEW c \in Seq(U)
  PROVE  Flat(h, Join3(a, b, c)) = Join3(Flat(h, a), Flat(h, b), Flat(h, c))
<1> DEFINE ab == a \o b
<1>1. ab \in Seq(U)
  BY ConcatProperties
<1>2. Flat(h, ab) = Flat(h, a) \o Flat(h, b)
  BY FlatConcat
<1> HIDE DEF ab
<1>3. Flat(h, ab \o c) = Flat(h, ab) \o Flat(h, c)
  BY <1>1, FlatConcat
<1> QED BY <1>2, <1>3 DEF ab, Join3

\* The children of a unit leave its members to be made.
LEMMA ChildrenLeft ==
  ASSUME NEW o, NEW u \in UnitNodes
  PROVE  /\ Children(u) \in Seq(Leaves)
         /\ Flat(UnitsLeft, Children(u)) = <<>>
         /\ Flat(EnumsLeft, Children(u)) = <<>> /\ Flat(FunctionsLeft, Children(u)) = <<>>
         /\ Flat(MembersLeft(o), Children(u)) = MembersOf(o, u)
<1> DEFINE a == u.params
           b == u.items
           c == <<Id(u.name)>>
           D == {Id(s) : s \in STRING}
<1>0. u.name \in STRING /\ a \in Seq(ParamNodes) /\ b \in Seq(ItemNodes)
  BY NodeKinds
<1>2. c \in Seq(D)
  <2>1. Id(u.name) \in D
    BY <1>0
  <2> HIDE DEF D
  <2> QED BY <2>1
<1>3. ParamNodes \subseteq Leaves /\ D \subseteq Leaves /\ ItemNodes \subseteq Leaves /\ Leaves \subseteq Node
  BY LeftValues DEF Leaves
<1>4. Children(u) = Join3(a, b, c)
  BY DEF Children, Join3
<1> HIDE DEF a, b, c
<1>5. \A U, s : U \subseteq Leaves /\ s \in Seq(U) => s \in Seq(Leaves) /\ s \in Seq(Node)
  <2> SUFFICES ASSUME NEW U, NEW s, U \subseteq Leaves, s \in Seq(U) PROVE s \in Seq(Leaves) /\ s \in Seq(Node)
    OBVIOUS
  <2>1. U \subseteq Node
    BY <1>3
  <2> HIDE DEF D
  <2> QED BY <2>1
<1>6. a \in Seq(Leaves) /\ a \in Seq(Node) /\ b \in Seq(Leaves) /\ b \in Seq(Node) /\ c \in Seq(Leaves) /\ c \in Seq(Node)
  <2> HIDE DEF D
  <2> QED BY <1>0, <1>2, <1>3, <1>5
<1>7. Children(u) \in Seq(Leaves)
  <2> HIDE DEF D
  <2> QED BY <1>4, <1>6, ConcatProperties DEF Join3
<1>8. Flat(UnitsLeft, Children(u)) = <<>> /\ Flat(EnumsLeft, Children(u)) = <<>> /\ Flat(FunctionsLeft, Children(u)) = <<>>
  <2>1. \A x \in Leaves : UnitsLeft[x] = <<>> /\ EnumsLeft[x] = <<>> /\ FunctionsLeft[x] = <<>>
    BY LeftValues
  <2> QED BY <1>7, <2>1, FlatNothing
<1>9. (\A x \in ParamNodes : MembersLeft(o)[x] = <<>>) /\ \A x \in D : MembersLeft(o)[x] = <<>>
  BY LeftValues
<1> HIDE DEF D
<1>10. Flat(MembersLeft(o), a) = <<>> /\ Flat(MembersLeft(o), c) = <<>>
  BY <1>0, <1>2, <1>9, FlatNothing
<1>11. Flat(MembersLeft(o), b) = MembersOf(o, u)
  BY <1>0, MembersVisited, MadeIs DEF b
<1>12. Makes(MembersLeft(o), Node, Members(o))
  BY MadeTypes
<1>13. Flat(MembersLeft(o), Join3(a, b, c)) = Join3(Flat(MembersLeft(o), a), Flat(MembersLeft(o), b), Flat(MembersLeft(o), c))
  BY <1>6, <1>12, FlatThree
<1>14. Join3(<<>>, MembersOf(o, u), <<>>) = MembersOf(o, u)
  <2>1. MembersOf(o, u) \in Seq(Members(o))
    BY <1>6, <1>11, <1>12, FlatType
  <2> QED BY <2>1, ConcatEmptySeq DEF Join3
<1>15. Flat(MembersLeft(o), Children(u)) = MembersOf(o, u)
  BY <1>4, <1>10, <1>11, <1>13, <1>14
<1> QED BY <1>7, <1>8, <1>15

\* Concatenation.
LEMMA CatFacts ==
  ASSUME NEW T
  PROVE  /\ \A a, b \in Seq(T) : Cat(a, b) \in Seq(T)
         /\ \A a \in Seq(T) : Cat(a, <<>>) = a /\ Cat(<<>>, a) = a
         /\ \A a, b, c \in Seq(T) : Cat(Cat(a, b), c) = Cat(a, Cat(b, c))
         /\ \A a, b \in Seq(T) : Cat(a, b) = <<>> => a = <<>> /\ b = <<>>
         /\ \A a \in Seq(T), x \in T : Append(a, x) = Cat(a, <<x>>)
<1>1. \A a, b \in Seq(T) : Cat(a, b) \in Seq(T)
  BY ConcatProperties DEF Cat
<1>2. \A a \in Seq(T) : Cat(a, <<>>) = a /\ Cat(<<>>, a) = a
  BY ConcatEmptySeq DEF Cat
<1>3. \A a, b, c \in Seq(T) : Cat(Cat(a, b), c) = Cat(a, Cat(b, c))
  BY ConcatAssociative DEF Cat
<1>4. \A a, b \in Seq(T) : Cat(a, b) = <<>> => a = <<>> /\ b = <<>>
  <2> SUFFICES ASSUME NEW a \in Seq(T), NEW b \in Seq(T), Cat(a, b) = <<>> PROVE a = <<>> /\ b = <<>>
    OBVIOUS
  <2>1. Len(a \o b) = Len(a) + Len(b) /\ Len(a) \in Nat /\ Len(b) \in Nat
    BY ConcatProperties, LenProperties
  <2>2. Len(a \o b) = 0
    BY DEF Cat
  <2>3. Len(a) = 0 /\ Len(b) = 0
    BY <2>1, <2>2
  <2> QED BY <2>3, EmptySeq
<1>5. \A a \in Seq(T), x \in T : Append(a, x) = Cat(a, <<x>>)
  BY AppendIsConcat DEF Cat
<1> QED BY <1>1, <1>2, <1>3, <1>4, <1>5

\* What is left of nodes is what is left of the first and of the others.
LEMMA FlatStep ==
  ASSUME NEW T, NEW U, NEW h, Makes(h, U, T), NEW s \in Seq(U), s # <<>>, NEW c \in Seq(U)
  PROVE  /\ Flat(h, s) = Cat(h[Head(s)], Flat(h, Tail(s)))
         /\ Flat(h, Cat(c, Tail(s))) = Cat(Flat(h, c), Flat(h, Tail(s)))
         /\ h[Head(s)] \in Seq(T) /\ Flat(h, Tail(s)) \in Seq(T) /\ Flat(h, c) \in Seq(T)
<1>1. Head(s) \in U /\ Tail(s) \in Seq(U)
  BY HeadTailProperties
<1>2. Flat(h, s) = h[Head(s)] \o Flat(h, Tail(s))
  BY FlatHead
<1>3. Flat(h, Cat(c, Tail(s))) = Cat(Flat(h, c), Flat(h, Tail(s)))
  <2> DEFINE t == Tail(s)
  <2>1. t \in Seq(U)
    BY <1>1
  <2> HIDE DEF t
  <2>2. Flat(h, Cat(c, t)) = Cat(Flat(h, c), Flat(h, t))
    BY <2>1, FlatCat
  <2> QED BY <2>2 DEF t
<1>4. h[Head(s)] \in Seq(T)
  BY <1>1 DEF Makes
<1>5. Flat(h, Tail(s)) \in Seq(T) /\ Flat(h, c) \in Seq(T)
  BY <1>1, FlatType, Zenon
<1> QED BY <1>2, <1>3, <1>4, <1>5 DEF Cat

(***************************************************************************)
(* The classes.  Either no unit has been begun; or u is the one that was   *)
(* begun last, those of b were begun before it, and mem are the members of *)
(* u that its class has.  uleft and mleft are still to be made of units.   *)
(***************************************************************************)
Partial(u, mem) == [UnitClasses(u) EXCEPT ![1].members = mem]

Begun(o, units, uleft, mleft, cs, uc, b, u, mem) ==
    /\ Cat(Append(b, u), uleft) = units
    /\ Cat(mem, mleft) = MembersOf(o, u)
    /\ uc = u.name
    /\ cs \in Seq(Classes(o))
    /\ HasLast(cs, Cat(ClassesFrom(o, b), Partial(u, mem)))

ClassesState(o, units, uleft, mleft, cs, uc) ==
    \/ uleft = units /\ mleft = <<>> /\ cs = <<>>
    \/ \E b \in Seq(UnitNodes), u \in UnitNodes, mem \in Seq(Members(o)) :
         Begun(o, units, uleft, mleft, cs, uc, b, u, mem)

IsPartial(o, u, mem) ==
    /\ Partial(u, mem) \in Seq(Classes(o)) /\ Len(Partial(u, mem)) = 3
    /\ Partial(u, mem)[1] = [name |-> u.name, of |-> u.name, members |-> mem]
    /\ Partial(u, <<>>) = UnitClasses(u)
    /\ \A i \in 1..3 : UnitClasses(u)[i] \in Classes(o)
    /\ \A i \in 2..3 : Partial(u, mem)[i] = UnitClasses(u)[i] /\ UnitClasses(u)[i].name # u.name

\* The classes of a unit with some members.
LEMMA PartialFacts ==
  ASSUME NEW o, NEW u \in UnitNodes, NEW mem \in Seq(Members(o))
  PROVE  IsPartial(o, u, mem)
<1>0. u.name \in STRING /\ <<>> \in Seq(Members(o))
  BY NodeKinds, EmptySeq
<1> DEFINE c1 == Class(u.name, u.name)
           c2 == Class(u.name \o "Parser", u.name)
           c3 == Class(u.name \o "Serializer", u.name)
<1>1. UnitClasses(u) = <<c1, c2, c3>>
  BY DEF UnitClasses
<1>2. UnitClasses(u)[1] = c1 /\ UnitClasses(u)[2] = c2 /\ UnitClasses(u)[3] = c3
  <2> HIDE DEF c1, c2, c3
  <2> QED BY <1>1
<1>3. c1.name \in Names /\ c2.name \in Names /\ c3.name \in Names
  BY <1>2 DEF Names
<1>4. c1 \in Classes(o) /\ c2 \in Classes(o) /\ c3 \in Classes(o)
  BY <1>0, <1>3 DEF Classes, Class
<1>5. c1 = [name |-> u.name, of |-> u.name, members |-> <<>>] /\ c1.name = u.name
  BY DEF Class
<1> DEFINE d1 == [c1 EXCEPT !.members = mem]
<1>6. d1 = [name |-> u.name, of |-> u.name, members |-> mem]
  BY <1>5
<1>7. d1 \in Classes(o) /\ [c1 EXCEPT !.members = <<>>] = c1
  BY <1>3, <1>0, <1>5, <1>6 DEF Classes
<1>8. u.name = c1.name /\ c2.name # c1.name /\ c3.name # c1.name
  <2>1. c1.name = UnitClasses(u)[1].name /\ c2.name = UnitClasses(u)[2].name /\ c3.name = UnitClasses(u)[3].name
    BY <1>2
  <2>2. 1 \in 1..3 /\ 2 \in 1..3 /\ 3 \in 1..3 /\ 1 # 2 /\ 1 # 3
    OBVIOUS
  <2> HIDE DEF c1, c2, c3
  <2> QED BY <1>5, <2>1, <2>2, NamesAssumption
<1> HIDE DEF c1, c2, c3
<1>9. Partial(u, mem) = <<d1, c2, c3>> /\ Partial(u, <<>>) = <<[c1 EXCEPT !.members = <<>>], c2, c3>>
  BY <1>1 DEF Partial
<1>10. Partial(u, <<>>) = UnitClasses(u)
  BY <1>1, <1>7, <1>9
<1> HIDE DEF d1
<1>11. Partial(u, mem) \in Seq(Classes(o)) /\ Len(Partial(u, mem)) = 3
  BY <1>4, <1>7, <1>9
<1>12. Partial(u, mem)[1] = d1 /\ Partial(u, mem)[2] = c2 /\ Partial(u, mem)[3] = c3
  BY <1>9
<1>13. \A i \in 1..3 : i = 1 \/ i = 2 \/ i = 3
  OBVIOUS
<1>14. \A i \in 2..3 : i = 2 \/ i = 3
  OBVIOUS
<1>16. \A i \in 1..3 : UnitClasses(u)[i] \in Classes(o)
  BY <1>2, <1>4, <1>13, Zenon
<1>17. \A i \in 2..3 : Partial(u, mem)[i] = UnitClasses(u)[i] /\ UnitClasses(u)[i].name # u.name
  BY <1>2, <1>8, <1>12, <1>14, Zenon
<1> QED BY <1>6, <1>10, <1>11, <1>12, <1>16, <1>17, Zenon DEF IsPartial

\* The classes of units, one unit after the other.
LEMMA ClassesFromFacts ==
  ASSUME NEW o
  PROVE  /\ \A u \in UnitNodes : MembersOf(o, u) \in Seq(Members(o))
         /\ \A us \in Seq(UnitNodes) : ClassesFrom(o, us) \in Seq(Classes(o))
         /\ \A us \in Seq(UnitNodes), u \in UnitNodes :
              ClassesFrom(o, Append(us, u)) = Cat(ClassesFrom(o, us), Partial(u, MembersOf(o, u)))
         /\ ClassesFrom(o, <<>>) = <<>>
<1>1. \A u \in UnitNodes : MembersOf(o, u) \in Seq(Members(o))
  <2> SUFFICES ASSUME NEW u \in UnitNodes PROVE MembersOf(o, u) \in Seq(Members(o))
    OBVIOUS
  <2>1. Flat(MembersLeft(o), Children(u)) = MembersOf(o, u) /\ Children(u) \in Seq(Leaves) /\ Leaves \subseteq Node
    BY ChildrenLeft, LeftValues
  <2>2. Children(u) \in Seq(Node)
    BY <2>1
  <2> QED BY <2>1, <2>2, MadeTypes, FlatType
<1>2. \A u \in UnitNodes : ClassesMade(o)[u] = Partial(u, MembersOf(o, u))
  BY DEF ClassesMade, ClassesOf, Partial
<1>3. Makes(ClassesMade(o), UnitNodes, Classes(o))
  <2>1. ASSUME NEW u \in UnitNodes PROVE ClassesMade(o)[u] \in Seq(Classes(o))
    <3>1. MembersOf(o, u) \in Seq(Members(o))
      BY <1>1
    <3>2. Partial(u, MembersOf(o, u)) \in Seq(Classes(o))
      BY <3>1, PartialFacts, Zenon DEF IsPartial
    <3> QED BY <1>2, <3>2
  <2> QED BY <2>1 DEF Makes
<1>4. \A us \in Seq(UnitNodes) : ClassesFrom(o, us) = Flat(ClassesMade(o), us)
  BY MadeIs
<1>5. \A us \in Seq(UnitNodes) : ClassesFrom(o, us) \in Seq(Classes(o))
  BY <1>3, <1>4, FlatType
<1>6. ASSUME NEW us \in Seq(UnitNodes), NEW u \in UnitNodes
      PROVE  ClassesFrom(o, Append(us, u)) = Cat(ClassesFrom(o, us), Partial(u, MembersOf(o, u)))
  <2>1. Append(us, u) \in Seq(UnitNodes)
    BY AppendProperties
  <2>2. Flat(ClassesMade(o), Append(us, u)) = Flat(ClassesMade(o), us) \o ClassesMade(o)[u]
    BY FlatAppend
  <2> QED BY <1>2, <1>4, <2>1, <2>2, Zenon DEF Cat
<1>7. ClassesFrom(o, <<>>) = <<>>
  BY <1>4, EmptySeq, FlatEmpty, Zenon
<1> QED BY <1>1, <1>5, <1>6, <1>7

\* The classes of a unit are inserted.
LEMMA InsertUnitHasLast ==
  ASSUME NEW o, NEW cs \in Seq(Classes(o)), NEW all \in Seq(Classes(o)), NEW x \in UnitNodes, HasLast(cs, all)
  PROVE  /\ InsertUnit(cs, x) \in Seq(Classes(o))
         /\ HasLast(InsertUnit(cs, x), Cat(all, Partial(x, <<>>)))
<1> DEFINE C == Classes(o)
           c1 == UnitClasses(x)[1]
           c2 == UnitClasses(x)[2]
           c3 == UnitClasses(x)[3]
           cs1 == InsertClass(cs, c1)
           cs2 == InsertClass(cs1, c2)
           cs3 == InsertClass(cs2, c3)
           a1 == Append(all, c1)
           a2 == Append(a1, c2)
           a3 == Append(a2, c3)
<1>0. <<>> \in Seq(Members(o))
  BY EmptySeq
<1>1. c1 \in C /\ c2 \in C /\ c3 \in C
  <2>1. Partial(x, <<>>) = UnitClasses(x) /\ \A i \in 1..3 : UnitClasses(x)[i] \in C
    <3>1. IsPartial(o, x, <<>>)
      BY <1>0, PartialFacts, Zenon
    <3> QED BY <3>1, Zenon DEF IsPartial
  <2> QED BY <2>1
<1>2. Partial(x, <<>>) = <<c1, c2, c3>>
  <2>1. IsPartial(o, x, <<>>)
    BY <1>0, PartialFacts, Zenon
  <2>2. Partial(x, <<>>) = UnitClasses(x)
    BY <2>1, Zenon DEF IsPartial
  <2> QED BY <2>2 DEF UnitClasses
<1>3. cs3 = InsertUnit(cs, x)
  BY DEF InsertUnit
<1> HIDE DEF c1, c2, c3, C
<1>4. cs \in Seq(C) /\ all \in Seq(C) /\ HasLast(cs, all)
  BY DEF C
<1>5. cs1 \in Seq(C) /\ a1 \in Seq(C) /\ HasLast(cs1, a1)
  BY <1>1, <1>4, InsertHasLast
<1>6. a3 = all \o <<c1, c2, c3>>
  BY <1>1, <1>4
<1> HIDE DEF cs1, a1
<1>7. cs2 \in Seq(C) /\ a2 \in Seq(C) /\ HasLast(cs2, a2)
  BY <1>1, <1>5, InsertHasLast
<1> HIDE DEF cs2, a2
<1>8. cs3 \in Seq(C) /\ a3 \in Seq(C) /\ HasLast(cs3, a3)
  BY <1>1, <1>7, InsertHasLast
<1> HIDE DEF cs3, a3
<1> QED BY <1>2, <1>3, <1>6, <1>8, Zenon DEF Cat, C

\* A unit is begun.
LEMMA ClassesUnit ==
  ASSUME NEW o, NEW units, NEW x \in UnitNodes, NEW ul \in Seq(UnitNodes), NEW cs, NEW uc,
         ClassesState(o, units, Cat(<<x>>, ul), <<>>, cs, uc)
  PROVE  ClassesState(o, units, ul, MembersOf(o, x), InsertUnit(cs, x), x.name)
<1>0. <<>> \in Seq(Members(o)) /\ <<>> \in Seq(UnitNodes) /\ <<>> \in Seq(Classes(o)) /\ <<x>> \in Seq(UnitNodes)
  BY EmptySeq
<1>1. MembersOf(o, x) \in Seq(Members(o))
  BY ClassesFromFacts
<1>2. Cat(<<>>, MembersOf(o, x)) = MembersOf(o, x)
  BY <1>1, CatFacts
<1>3. CASE Cat(<<x>>, ul) = units /\ cs = <<>>
  <2>1. Append(<<>>, x) = <<x>>
    OBVIOUS
  <2>2. HasLast(<<>>, <<>>)
    BY DEF HasLast
  <2>3. InsertUnit(cs, x) \in Seq(Classes(o)) /\ HasLast(InsertUnit(cs, x), Cat(<<>>, Partial(x, <<>>)))
    BY <1>0, <1>3, <2>2, InsertUnitHasLast, Zenon
  <2>4. ClassesFrom(o, <<>>) = <<>>
    BY ClassesFromFacts
  <2>5. Begun(o, units, ul, MembersOf(o, x), InsertUnit(cs, x), x.name, <<>>, x, <<>>)
    BY <1>2, <1>3, <2>1, <2>3, <2>4, Zenon DEF Begun
  <2> QED BY <1>0, <2>5, Zenon DEF ClassesState
<1>4. ASSUME NEW b \in Seq(UnitNodes), NEW u \in UnitNodes, NEW mem \in Seq(Members(o)),
             Begun(o, units, Cat(<<x>>, ul), <<>>, cs, uc, b, u, mem)
      PROVE  ClassesState(o, units, ul, MembersOf(o, x), InsertUnit(cs, x), x.name)
  <2> DEFINE c == Append(b, u)
  <2>1. c \in Seq(UnitNodes)
    BY AppendProperties
  <2>2. mem = MembersOf(o, u)
    BY <1>4, CatFacts DEF Begun
  <2>3. ClassesFrom(o, c) = Cat(ClassesFrom(o, b), Partial(u, mem))
    BY <2>2, ClassesFromFacts
  <2> HIDE DEF c
  <2>4. Cat(Append(c, x), ul) = units
    <3> DEFINE xs == <<x>>
    <3>0. xs \in Seq(UnitNodes)
      BY <1>0
    <3>1. Append(c, x) = Cat(c, xs)
      BY <2>1, AppendIsConcat DEF Cat
    <3>3. Cat(c, Cat(xs, ul)) = units
      BY <1>4 DEF Begun, c
    <3> HIDE DEF xs
    <3>2. Cat(Cat(c, xs), ul) = Cat(c, Cat(xs, ul))
      BY <2>1, <3>0, CatFacts
    <3> QED BY <3>1, <3>2, <3>3
  <2>5. cs \in Seq(Classes(o)) /\ HasLast(cs, ClassesFrom(o, c))
    BY <1>4, <2>3, Zenon DEF Begun
  <2>6. ClassesFrom(o, c) \in Seq(Classes(o))
    BY <2>1, ClassesFromFacts
  <2>7. InsertUnit(cs, x) \in Seq(Classes(o)) /\ HasLast(InsertUnit(cs, x), Cat(ClassesFrom(o, c), Partial(x, <<>>)))
    BY <2>5, <2>6, InsertUnitHasLast
  <2>8. Begun(o, units, ul, MembersOf(o, x), InsertUnit(cs, x), x.name, c, x, <<>>)
    BY <1>2, <2>4, <2>7, Zenon DEF Begun
  <2> QED BY <1>0, <2>1, <2>8, Zenon DEF ClassesState
<1> QED BY <1>3, <1>4, Zenon DEF ClassesState

Placed(o, u, a, mem, all) ==
    /\ all \in Seq(Classes(o)) /\ Len(all) = Len(a) + 3 /\ Len(a) + 1 \in 1..Len(all)
    /\ all[Len(a) + 1] = [name |-> u.name, of |-> u.name, members |-> mem]
    /\ \A q \in 1..Len(all) : q > Len(a) + 1 => all[q].name # all[Len(a) + 1].name
    /\ \A p \in 1..Len(a) : all[p] = a[p]
    /\ all[Len(a) + 2] = UnitClasses(u)[2] /\ all[Len(a) + 3] = UnitClasses(u)[3]

\* The class of a unit is the first of three, and the last of its name.
LEMMA PartialPlace ==
  ASSUME NEW o, NEW u \in UnitNodes, NEW a \in Seq(Classes(o)), NEW mem \in Seq(Members(o))
  PROVE  Placed(o, u, a, mem, Cat(a, Partial(u, mem)))
<1> DEFINE n == Len(a)
           t == Partial(u, mem)
           all == Cat(a, t)
           C == Classes(o)
<1>1. n \in Nat
  BY LenProperties
<1>0. IsPartial(o, u, mem)
  BY PartialFacts
<1>2. t \in Seq(C) /\ Len(t) = 3
  BY <1>0, Zenon DEF IsPartial
<1>3. t[1] = [name |-> u.name, of |-> u.name, members |-> mem]
  BY <1>0, Zenon DEF IsPartial
<1>4. 2 \in 2..3 /\ 3 \in 2..3
  OBVIOUS
<1>5. /\ t[2] = UnitClasses(u)[2] /\ UnitClasses(u)[2].name # u.name
      /\ t[3] = UnitClasses(u)[3] /\ UnitClasses(u)[3].name # u.name
  <2>1. \A i \in 2..3 : t[i] = UnitClasses(u)[i] /\ UnitClasses(u)[i].name # u.name
    BY <1>0, Zenon DEF IsPartial
  <2> QED BY <1>4, <2>1
<1> HIDE DEF t, C
<1>6. /\ all \in Seq(C) /\ Len(all) = n + 3 /\ \A p \in 1..n : all[p] = a[p]
      /\ all[n+1] = t[1] /\ all[n+2] = t[2] /\ all[n+3] = t[3]
  <2>1. a \in Seq(C)
    BY DEF C
  <2>2. Len(a \o t) = n + 3 /\ \A p \in 1..(n+3) : (a \o t)[p] = IF p <= n THEN a[p] ELSE t[p - n]
    <3>1. ASSUME NEW xs \in Seq(C), NEW ys \in Seq(C), Len(ys) = 3
          PROVE  Len(xs \o ys) = Len(xs) + 3 /\ \A p \in 1..(Len(xs)+3) : (xs \o ys)[p] = IF p <= Len(xs) THEN xs[p] ELSE ys[p - Len(xs)]
      <4>1. Len(xs \o ys) = Len(xs) + Len(ys) /\ \A p \in 1..(Len(xs) + Len(ys)) : (xs \o ys)[p] = IF p <= Len(xs) THEN xs[p] ELSE ys[p - Len(xs)]
        BY ConcatProperties
      <4> QED BY <3>1, <4>1
    <3> QED BY <1>2, <2>1, <3>1
  <2>3. n + 1 \in 1..(n+3) /\ n + 2 \in 1..(n+3) /\ n + 3 \in 1..(n+3) /\ ~(n + 1 <= n) /\ ~(n + 2 <= n) /\ ~(n + 3 <= n)
        /\ (n + 1) - n = 1 /\ (n + 2) - n = 2 /\ (n + 3) - n = 3
    BY <1>1
  <2>4. \A p \in 1..n : p \in 1..(n+3) /\ p <= n
    BY <1>1
  <2>5. a \o t \in Seq(C)
    BY <1>2, <2>1, ConcatProperties
  <2> QED BY <2>2, <2>3, <2>4, <2>5 DEF Cat
<1> HIDE DEF n, all
<1>7. n + 1 \in 1..Len(all) /\ \A q \in 1..Len(all) : q > n + 1 => q = n + 2 \/ q = n + 3
  BY <1>1, <1>6
<1>8. \A q \in 1..Len(all) : q > n + 1 => all[q].name # all[n+1].name
  <2>1. all[n+1].name = u.name
    BY <1>3, <1>6
  <2> QED BY <1>5, <1>6, <1>7, <2>1
<1>9. Placed(o, u, a, mem, all)
  BY <1>3, <1>5, <1>6, <1>7, <1>8 DEF n, C, Placed
<1> QED BY <1>9 DEF all, t

\* A member is added to the class of the unit that was begun last.
LEMMA ClassesMember ==
  ASSUME NEW o, NEW units, NEW ul, NEW M \in Seq(Members(o)), NEW ml \in Seq(Members(o)), NEW cs, NEW uc,
         ClassesState(o, units, ul, Cat(M, ml), cs, uc)
  PROVE  ClassesState(o, units, ul, ml,
                      [i \in DOMAIN cs |-> IF cs[i].name = uc THEN [cs[i] EXCEPT !.members = @ \o M] ELSE cs[i]], uc)
<1> DEFINE d == [i \in DOMAIN cs |-> IF cs[i].name = uc THEN [cs[i] EXCEPT !.members = @ \o M] ELSE cs[i]]
<1>1. ASSUME ul = units, Cat(M, ml) = <<>>, cs = <<>> PROVE ClassesState(o, units, ul, ml, d, uc)
  <2>1. ml = <<>>
    BY <1>1, CatFacts
  <2>2. d = <<>>
    BY <1>1
  <2> QED BY <1>1, <2>1, <2>2 DEF ClassesState
<1>2. ASSUME NEW b \in Seq(UnitNodes), NEW u \in UnitNodes, NEW mem \in Seq(Members(o)),
             Begun(o, units, ul, Cat(M, ml), cs, uc, b, u, mem)
      PROVE  ClassesState(o, units, ul, ml, d, uc)
  <2> DEFINE a == ClassesFrom(o, b)
             mem2 == Cat(mem, M)
             all == Cat(a, Partial(u, mem))
             all2 == Cat(a, Partial(u, mem2))
             p0 == Len(a) + 1
             new == [name |-> u.name, of |-> u.name, members |-> mem2]
             C == Classes(o)
  <2>1. a \in Seq(C)
    BY ClassesFromFacts
  <2>2. mem2 \in Seq(Members(o)) /\ Cat(mem2, ml) = MembersOf(o, u)
    <3>1. Cat(mem, Cat(M, ml)) = MembersOf(o, u)
      BY <1>2, Zenon DEF Begun
    <3> QED BY <3>1, CatFacts
  <2>3. uc = u.name /\ cs \in Seq(C) /\ HasLast(cs, all) /\ Cat(Append(b, u), ul) = units
    BY <1>2, Zenon DEF Begun
  <2> HIDE DEF a, mem2, C
  <2>a. Placed(o, u, a, mem, all) /\ Placed(o, u, a, mem2, all2)
    <3>1. \A m \in Seq(Members(o)) : Placed(o, u, a, m, Cat(a, Partial(u, m)))
      BY <2>1, PartialPlace DEF C
    <3> QED BY <2>2, <3>1
  <2> HIDE DEF all, all2
  <2>4. /\ all \in Seq(C) /\ Len(all) = Len(a) + 3 /\ IsLast(all, p0)
        /\ all[p0] = [name |-> u.name, of |-> u.name, members |-> mem]
        /\ \A p \in 1..Len(a) : all[p] = a[p]
        /\ all[Len(a) + 2] = UnitClasses(u)[2] /\ all[Len(a) + 3] = UnitClasses(u)[3]
    BY <2>a, Zenon DEF Placed, C, IsLast
  <2>5. /\ all2 \in Seq(C) /\ Len(all2) = Len(a) + 3
        /\ all2[p0] = new
        /\ \A p \in 1..Len(a) : all2[p] = a[p]
        /\ all2[Len(a) + 2] = UnitClasses(u)[2] /\ all2[Len(a) + 3] = UnitClasses(u)[3]
    BY <2>a, Zenon DEF Placed, C
  <2>6. Len(a) \in Nat
    BY <2>1, LenProperties
  <2>7. new \in C
    BY <2>5, <2>6, ElementOfSeq
  <2>8. new.name = u.name /\ new.name = all[p0].name
    BY <2>4
  <2>9. all2 = Put(all, p0, new)
    <3>1. DOMAIN all = 1..(Len(a) + 3) /\ DOMAIN all2 = 1..(Len(a) + 3)
      BY <2>4, <2>5, LenProperties
    <3> HIDE DEF new
    <3>2. ASSUME NEW p \in 1..(Len(a) + 3) PROVE all2[p] = IF p = p0 THEN new ELSE all[p]
      <4>1. p \in 1..Len(a) \/ p = Len(a) + 1 \/ p = Len(a) + 2 \/ p = Len(a) + 3
        <5>1. \A n \in Nat : \A q \in 1..(n + 3) : q \in 1..n \/ q = n + 1 \/ q = n + 2 \/ q = n + 3
          OBVIOUS
        <5> QED BY <2>6, <5>1, Zenon
      <4>2. \A q \in 1..Len(a) : q # p0
        BY <2>6
      <4>3. Len(a) + 2 # p0 /\ Len(a) + 3 # p0
        BY <2>6
      <4> QED BY <2>4, <2>5, <4>1, <4>2, <4>3
    <3>3. all2 \in Seq(C) /\ all \in Seq(C)
      BY <2>4, <2>5
    <3>4. all2 = [p \in DOMAIN all2 |-> all2[p]]
      BY <3>3
    <3>5. all2 = [p \in DOMAIN all |-> IF p = p0 THEN new ELSE all[p]]
      BY <3>1, <3>2, <3>4
    <3> QED BY <3>5 DEF Put
  <2> DEFINE e == Replaced(cs, new)
  <2>10. /\ \A i \in DOMAIN cs : cs[i].name = new.name => cs[i] = all[p0]
         /\ e \in Seq(C) /\ HasLast(e, all2)
    <3> HIDE DEF new, p0
    <3>1. IsLast(all, p0) /\ all \in Seq(C) /\ cs \in Seq(C) /\ HasLast(cs, all) /\ new \in C /\ new.name = all[p0].name
      BY <2>3, <2>4, <2>7, <2>8, Zenon
    <3> QED BY <2>9, <3>1, UpdateHasLast
  <2>11. d = e
    <3>1. ASSUME NEW i \in DOMAIN cs, cs[i].name = u.name PROVE [cs[i] EXCEPT !.members = @ \o M] = new
      <4>1. cs[i] = [name |-> u.name, of |-> u.name, members |-> mem]
        BY <2>4, <2>8, <2>10, <3>1, Zenon
      <4>2. cs[i].members \o M = mem2
        BY <4>1 DEF mem2, Cat
      <4>3. [cs[i] EXCEPT !.members = mem2] = new
        BY <4>1
      <4> QED BY <4>2, <4>3
    <3> HIDE DEF new
    <3> QED BY <2>3, <2>8, <3>1, Zenon DEF Replaced
  <2>12. Begun(o, units, ul, ml, d, uc, b, u, mem2)
    <3> HIDE DEF d, e
    <3> QED BY <2>2, <2>3, <2>10, <2>11, Zenon DEF Begun, C, all2, a
  <2> HIDE DEF d
  <2> QED BY <2>2, <2>12, Zenon DEF ClassesState
<1> HIDE DEF d
<1>3. ClassesState(o, units, ul, ml, d, uc)
  BY <1>1, <1>2, Zenon DEF ClassesState
<1> QED BY <1>3 DEF d

\* The units of a declaration are added to those that are to be made.
LEMMA ClassesGrow ==
  ASSUME NEW o, NEW units \in Seq(UnitNodes), NEW more \in Seq(UnitNodes), NEW ml, NEW cs, NEW uc,
         ClassesState(o, units, <<>>, ml, cs, uc)
  PROVE  ClassesState(o, Cat(units, more), more, ml, cs, uc)
<1>1. ASSUME <<>> = units, ml = <<>>, cs = <<>> PROVE ClassesState(o, Cat(units, more), more, ml, cs, uc)
  <2>1. Cat(units, more) = more
    BY <1>1, CatFacts
  <2> QED BY <1>1, <2>1 DEF ClassesState
<1>2. ASSUME NEW b \in Seq(UnitNodes), NEW u \in UnitNodes, NEW mem \in Seq(Members(o)),
             Begun(o, units, <<>>, ml, cs, uc, b, u, mem)
      PROVE  ClassesState(o, Cat(units, more), more, ml, cs, uc)
  <2>1. Append(b, u) \in Seq(UnitNodes)
    BY AppendProperties
  <2>2. Append(b, u) = units
    BY <1>2, <2>1, CatFacts, Zenon DEF Begun
  <2>3. Begun(o, Cat(units, more), more, ml, cs, uc, b, u, mem)
    BY <1>2, <2>2 DEF Begun
  <2> QED BY <2>3, Zenon DEF ClassesState
<1> QED BY <1>1, <1>2, Zenon DEF ClassesState

\* When nothing is left, the classes are those of the units.
LEMMA ClassesDone ==
  ASSUME NEW o, NEW units \in Seq(UnitNodes), NEW cs, NEW uc, ClassesState(o, units, <<>>, <<>>, cs, uc)
  PROVE  HasLast(cs, ClassesFrom(o, units))
<1>1. ASSUME <<>> = units, cs = <<>> PROVE HasLast(cs, ClassesFrom(o, units))
  <2>1. ClassesFrom(o, units) = <<>>
    BY <1>1, ClassesFromFacts
  <2>2. HasLast(<<>>, <<>>)
    BY DEF HasLast
  <2> QED BY <1>1, <2>1, <2>2
<1>2. ASSUME NEW b \in Seq(UnitNodes), NEW u \in UnitNodes, NEW mem \in Seq(Members(o)),
             Begun(o, units, <<>>, <<>>, cs, uc, b, u, mem)
      PROVE  HasLast(cs, ClassesFrom(o, units))
  <2>1. Append(b, u) \in Seq(UnitNodes)
    BY AppendProperties
  <2>2. Append(b, u) = units
    BY <1>2, <2>1, CatFacts, Zenon DEF Begun
  <2>3. mem = MembersOf(o, u)
    BY <1>2, CatFacts DEF Begun
  <2>4. ClassesFrom(o, units) = Cat(ClassesFrom(o, b), Partial(u, mem))
    BY <2>2, <2>3, ClassesFromFacts, Zenon
  <2> QED BY <1>2, <2>4, Zenon DEF Begun
<1> QED BY <1>1, <1>2, Zenon DEF ClassesState

(***************************************************************************)
(* The nodes still to be visited: one declaration, or the children of one, *)
(* which are items, parameters and ids, and then units.                    *)
(***************************************************************************)
Inner(w) == \E n \in 0..Len(w) :
    (\A i \in 1..n : w[i] \in Leaves) /\ \A i \in (n+1)..Len(w) : w[i] \in UnitNodes

Shape(w) == Inner(w) \/ Len(w) = 1

\* No node is a leaf and a unit, and neither is a function.
LEMMA KindsApart ==
  ASSUME NEW x
  PROVE  /\ x \in Leaves => x.kind \in {"Stored", "Variable", "Switch", "Property", "Parameter", "ID"}
         /\ x \in UnitNodes => x.kind = "Unit"
         /\ x \in Leaves \cup UnitNodes => ~IsFunction(x)
<1>1. x \in Leaves => x.kind \in {"Stored", "Variable", "Switch", "Property", "Parameter", "ID"}
  BY DEF Leaves, ItemNodes, ParamNodes, Id
<1>2. x \in UnitNodes => x.kind = "Unit"
  BY DEF UnitNodes
<1> QED BY <1>1, <1>2 DEF IsFunction

\* The nodes that are left after a visit.
LEMMA ShapeVisit ==
  ASSUME NEW w \in Seq(Node), Shape(w), w # <<>>
  PROVE  /\ Head(w) \in Node /\ Tail(w) \in Seq(Node)
         /\ \A c \in Seq(Leaves) : Cat(c, Tail(w)) \in Seq(Node) /\ Inner(Cat(c, Tail(w)))
         /\ Head(w).kind = "Unit" => Tail(w) \in Seq(UnitNodes)
         /\ Head(w).kind \in {"Enum", "Function", "Instantiation", "Other"} => Tail(w) = <<>>
<1> DEFINE t == Tail(w)
           N == Len(w)
<1>1. Head(w) \in Node /\ Head(w) = w[1] /\ t \in Seq(Node) /\ N \in Nat \ {0} /\ Len(t) = N - 1 /\ \A i \in 1..(N-1) : t[i] = w[i+1]
  <2>1. N \in Nat \ {0}
    BY EmptySeq, LenProperties
  <2> QED BY <2>1, HeadTailProperties
<1> HIDE DEF t, N
<1>2. PICK n \in 0..(N-1) : (\A i \in 1..n : t[i] \in Leaves) /\ \A i \in (n+1)..(N-1) : t[i] \in UnitNodes
  <2>1. CASE Len(w) = 1
    <3>1. 0 \in 0..(N-1) /\ (\A i \in 1..0 : t[i] \in Leaves) /\ \A i \in 1..(N-1) : t[i] \in UnitNodes
      BY <1>1, <2>1 DEF N
    <3>2. 0 + 1 = 1
      OBVIOUS
    <3> QED BY <3>1, <3>2
  <2>2. CASE Inner(w)
    <3>1. PICK m \in 0..N : (\A i \in 1..m : w[i] \in Leaves) /\ \A i \in (m+1)..N : w[i] \in UnitNodes
      BY <2>2 DEF Inner, N
    <3>2. CASE m = 0
      <4>1. 0 \in 0..(N-1) /\ (\A i \in 1..0 : t[i] \in Leaves) /\ \A i \in (0+1)..(N-1) : t[i] \in UnitNodes
        BY <1>1, <3>1, <3>2
      <4> QED BY <4>1
    <3>3. CASE m > 0
      <4>1. m - 1 \in 0..(N-1) /\ (\A i \in 1..(m-1) : t[i] \in Leaves) /\ \A i \in ((m-1)+1)..(N-1) : t[i] \in UnitNodes
        BY <1>1, <3>1, <3>3
      <4> QED BY <4>1
    <3> QED BY <1>1, <3>2, <3>3
  <2> QED BY <2>1, <2>2 DEF Shape
<1>3. ASSUME NEW c \in Seq(Leaves) PROVE Cat(c, t) \in Seq(Node) /\ Inner(Cat(c, t))
  <2> DEFINE l == Len(c)
             z == Cat(c, t)
  <2>1. c \in Seq(Node) /\ l \in Nat /\ \A i \in 1..l : c[i] \in Leaves
    <3>1. Leaves \subseteq Node
      BY LeftValues
    <3> QED BY <3>1
  <2>2. z \in Seq(Node) /\ Len(z) = l + (N - 1) /\ \A i \in 1..(l + (N - 1)) : z[i] = IF i <= l THEN c[i] ELSE t[i - l]
    <3>1. ASSUME NEW xs \in Seq(Node), NEW ys \in Seq(Node)
          PROVE  /\ xs \o ys \in Seq(Node) /\ Len(xs \o ys) = Len(xs) + Len(ys)
                 /\ \A i \in 1..(Len(xs) + Len(ys)) : (xs \o ys)[i] = IF i <= Len(xs) THEN xs[i] ELSE ys[i - Len(xs)]
      BY ConcatProperties
    <3> QED BY <1>1, <2>1, <3>1, Zenon DEF Cat
  <2> HIDE DEF z, l
  <2>3. l + n \in 0..Len(z)
    BY <1>1, <2>1, <2>2
  <2>4. ASSUME NEW i \in 1..(l+n) PROVE z[i] \in Leaves
    <3>1. i \in 1..(l + (N - 1))
      BY <1>1, <2>1
    <3>2. CASE i <= l
      <4>1. i \in 1..l
        BY <2>1, <3>2
      <4> QED BY <2>1, <2>2, <3>1, <3>2, <4>1
    <3>3. CASE ~(i <= l)
      <4>1. i - l \in 1..n
        BY <1>1, <2>1, <3>3
      <4> QED BY <1>2, <2>2, <3>1, <3>3, <4>1
    <3> QED BY <3>2, <3>3
  <2>5. ASSUME NEW i \in ((l+n)+1)..Len(z) PROVE z[i] \in UnitNodes
    <3>1. i \in 1..(l + (N - 1)) /\ ~(i <= l) /\ i - l \in (n+1)..(N-1)
      BY <1>1, <2>1, <2>2
    <3> QED BY <1>2, <2>2, <3>1
  <2>6. Inner(z)
    BY <2>3, <2>4, <2>5, Zenon DEF Inner
  <2> QED BY <2>2, <2>6 DEF z
<1>4. ASSUME Head(w).kind = "Unit" PROVE t \in Seq(UnitNodes)
  <2>1. CASE Len(w) = 1
    <3>1. Len(t) = 0
      BY <1>1, <2>1 DEF N
    <3> QED BY <1>1, <3>1, EmptySeq
  <2>2. CASE Inner(w)
    <3>1. PICK m \in 0..N : (\A i \in 1..m : w[i] \in Leaves) /\ \A i \in (m+1)..N : w[i] \in UnitNodes
      BY <2>2 DEF Inner, N
    <3>2. w[1] \notin Leaves
      BY <1>1, <1>4, KindsApart
    <3>3. m = 0
      BY <1>1, <3>1, <3>2
    <3>4. \A i \in 1..(N-1) : t[i] \in UnitNodes
      BY <1>1, <3>1, <3>3
    <3> QED BY <1>1, <3>4
  <2> QED BY <2>1, <2>2 DEF Shape
<1>5. ASSUME Head(w).kind \in {"Enum", "Function", "Instantiation", "Other"} PROVE t = <<>>
  <2>1. w[1] \notin Leaves /\ w[1] \notin UnitNodes
    BY <1>1, <1>5, KindsApart
  <2>2. ASSUME Inner(w) PROVE FALSE
    <3>1. PICK m \in 0..N : (\A i \in 1..m : w[i] \in Leaves) /\ \A i \in (m+1)..N : w[i] \in UnitNodes
      BY <2>2 DEF Inner, N
    <3>2. 1 \in 1..m \/ 1 \in (m+1)..N
      BY <1>1
    <3> QED BY <2>1, <3>1, <3>2
  <2>3. Len(w) = 1
    BY <2>2 DEF Shape
  <2>4. Len(t) = 0
    BY <1>1, <2>3 DEF N
  <2> QED BY <1>1, <2>4, EmptySeq
<1> QED BY <1>1, <1>3, <1>4, <1>5 DEF t

--------------------------------------------------------------------------------
(***************************************************************************)
(* What can be translated.  Good items are those whose own type can, and   *)
(* units are fit if all within them can.  Of the nodes to be visited,      *)
(* those are sound whose visits, and the visits they lead to, throw no     *)
(* exception for a unit or a member.                                       *)
(***************************************************************************)
Good(o) == {x \in ItemNodes : x.kind \in {"Stored", "Variable"} => MemberTranslates(o, x)}
Fit(o) == {u \in UnitNodes : Translates(o, u)}
Sound(o) ==
    {x \in Node : /\ x \in UnitNodes => x \in Fit(o)
                  /\ x.kind = "Instantiation" => x.compacted_units \in Seq(Fit(o))
                  /\ x \in ItemNodes => WithinOf[x] \in Seq(Good(o))}

\* What is within sound items is good.
LEMMA SoundItems ==
  ASSUME NEW o, NEW s \in Seq(ItemNodes), s \in Seq(Sound(o))
  PROVE  Within[s] \in Seq(Good(o))
<1> DEFINE U == {x \in ItemNodes : WithinOf[x] \in Seq(Good(o))}
<1>1. \A i \in 1..Len(s) : s[i] \in ItemNodes /\ s[i] \in Sound(o)
  BY ElementOfSeq
<1>2. \A i \in 1..Len(s) : s[i] \in U
  BY <1>1 DEF Sound
<1>3. Makes(WithinOf, U, Good(o))
  BY DEF Makes
<1> HIDE DEF U
<1>4. s \in Seq(U)
  BY <1>2, LenProperties
<1>5. Flat(WithinOf, s) \in Seq(Good(o))
  BY <1>3, <1>4, FlatType
<1> QED BY <1>5, WithinFlat

\* A unit is fit if its visit does not throw and its items are sound.
LEMMA SoundUnit ==
  ASSUME NEW o, NEW u \in UnitNodes, UnitTranslates(u), Children(u) \in Seq(Sound(o))
  PROVE  u \in Fit(o)
<1> DEFINE a == u.params
           b == u.items
           c == <<Id(u.name)>>
           P == Len(a)
           w == Within[b]
<1>1. a \in Seq(Node) /\ b \in Seq(ItemNodes) /\ b \in Seq(Node) /\ c \in Seq(Node)
  <2>1. u.name \in STRING /\ a \in Seq(ParamNodes) /\ b \in Seq(ItemNodes) /\ ParamNodes \subseteq Node /\ ItemNodes \subseteq Node
    BY NodeKinds
  <2>2. Id(u.name) \in Node
    BY <2>1 DEF Node
  <2> QED BY <2>1, <2>2
<1>2. Children(u) = a \o b \o c
  BY DEF Children
<1> HIDE DEF a, b, c
<1>3. /\ Len(Children(u)) = (P + Len(b)) + Len(c) /\ P \in Nat /\ Len(b) \in Nat /\ Len(c) \in Nat
      /\ \A i \in 1..Len(b) : Children(u)[P + i] = b[i]
  BY <1>1, <1>2
<1>4. \A i \in 1..Len(b) : b[i] \in Sound(o)
  <2> SUFFICES ASSUME NEW i \in 1..Len(b) PROVE b[i] \in Sound(o)
    OBVIOUS
  <2>1. P + i \in 1..Len(Children(u))
    BY <1>3
  <2>2. Children(u)[P + i] \in Sound(o)
    BY <2>1, ElementOfSeq
  <2> QED BY <1>3, <2>2
<1>5. b \in Seq(Sound(o))
  BY <1>1, <1>4, LenProperties
<1>6. w \in Seq(Good(o))
  BY <1>1, <1>5, SoundItems
<1>7. Translates(o, u) <=> \A i \in DOMAIN w : w[i].kind \in {"Stored", "Variable"} => MemberTranslates(o, w[i])
  BY Zenon DEF Translates, b
<1> HIDE DEF w
<1>8. \A i \in DOMAIN w : w[i] \in Good(o)
  BY <1>6
<1>9. Translates(o, u)
  BY <1>7, <1>8 DEF Good
<1> QED BY <1>9 DEF Fit

\* A switch is sound if its items are, a member if its visit does not throw.
LEMMA SoundItem ==
  ASSUME NEW o, NEW x \in ItemNodes
  PROVE  /\ x.kind = "Switch" /\ x.items \in Seq(Sound(o)) => x \in Sound(o)
         /\ x.kind \in {"Stored", "Variable"} /\ MemberTranslates(o, x) => x \in Sound(o)
         /\ x.kind = "Property" => x \in Sound(o)
<1>1. x \in Node /\ x \notin UnitNodes /\ x.kind # "Instantiation"
  BY NodeKinds DEF ItemNodes, UnitNodes
<1>2. WithinOf[x] = IF x.kind = "Switch" THEN <<x>> \o Within[x.items] ELSE <<x>>
  BY DEF WithinOf
<1>3. ASSUME x.kind = "Switch", x.items \in Seq(Sound(o)) PROVE x \in Sound(o)
  <2>1. x \in Good(o)
    BY <1>3 DEF Good
  <2>2. x.items \in Seq(ItemNodes)
    BY <1>3, NodeKinds
  <2> DEFINE a == <<x>>
             b == Within[x.items]
  <2>3. a \in Seq(Good(o)) /\ b \in Seq(Good(o))
    BY <1>3, <2>1, <2>2, SoundItems
  <2>4. WithinOf[x] = a \o b
    BY <1>2, <1>3
  <2> HIDE DEF a, b
  <2>5. a \o b \in Seq(Good(o))
    BY <2>3, ConcatProperties
  <2> QED BY <1>1, <2>4, <2>5 DEF Sound
<1>4. ASSUME x.kind # "Switch", x \in Good(o) PROVE x \in Sound(o)
  <2>1. <<x>> \in Seq(Good(o))
    BY <1>4
  <2> QED BY <1>1, <1>2, <1>4, <2>1 DEF Sound
<1> QED BY <1>3, <1>4 DEF Good

\* Nodes are sound if the first is when its children are, and the others and
\* the children are.
LEMMA SoundVisit ==
  ASSUME NEW o, NEW w \in Seq(Node), w # <<>>, NEW c \in Seq(Node),
         c \in Seq(Sound(o)) => Head(w) \in Sound(o), Cat(c, Tail(w)) \in Seq(Sound(o))
  PROVE  w \in Seq(Sound(o))
<1> DEFINE t == Tail(w)
           z == Cat(c, t)
<1>1. t \in Seq(Node) /\ Len(w) \in Nat \ {0} /\ Len(t) = Len(w) - 1 /\ Head(w) = w[1] /\ \A i \in 1..Len(t) : t[i] = w[i+1]
  <2>1. Len(w) \in Nat \ {0}
    BY EmptySeq, LenProperties
  <2> QED BY <2>1, HeadTailProperties
<1> HIDE DEF t
<1>2. Len(z) = Len(c) + Len(t) /\ (\A i \in 1..Len(c) : z[i] = c[i]) /\ \A i \in 1..Len(t) : z[Len(c) + i] = t[i]
  <2>1. ASSUME NEW xs \in Seq(Node), NEW ys \in Seq(Node)
        PROVE  /\ Len(xs \o ys) = Len(xs) + Len(ys) /\ \A i \in 1..Len(xs) : (xs \o ys)[i] = xs[i]
               /\ \A i \in 1..Len(ys) : (xs \o ys)[Len(xs) + i] = ys[i]
    OBVIOUS
  <2> QED BY <1>1, <2>1, Zenon DEF Cat
<1>3. \A i \in 1..Len(z) : z[i] \in Sound(o)
  BY ElementOfSeq DEF t
<1> HIDE DEF z
<1>4. Len(c) \in Nat /\ Len(t) \in Nat
  BY <1>1, LenProperties
<1>5. \A i \in 1..Len(c) : c[i] \in Sound(o)
  BY <1>2, <1>3, <1>4
<1>6. c \in Seq(Sound(o))
  BY <1>5, LenProperties
<1>7. \A i \in 1..Len(t) : t[i] \in Sound(o)
  <2> SUFFICES ASSUME NEW i \in 1..Len(t) PROVE t[i] \in Sound(o)
    OBVIOUS
  <2>1. Len(c) + i \in 1..Len(z)
    BY <1>2, <1>4
  <2> QED BY <1>2, <1>3, <2>1
<1>8. \A i \in 1..Len(w) : w[i] \in Sound(o)
  <2> SUFFICES ASSUME NEW i \in 1..Len(w) PROVE w[i] \in Sound(o)
    OBVIOUS
  <2>1. CASE i = 1
    BY <1>1, <1>6, <2>1
  <2>2. CASE i # 1
    <3>1. i - 1 \in 1..Len(t) /\ (i - 1) + 1 = i
      BY <1>1, <2>2
    <3> QED BY <1>1, <1>7, <3>1
  <2> QED BY <2>1, <2>2
<1> QED BY <1>8, LenProperties
================================================================================
