-------------------------- MODULE TypeGeneratorProofs --------------------------
(***************************************************************************)
(* InstantiationTypeGenerator moves no field, for every unit and whatever  *)
(* items are needed of it.                                                 *)
(***************************************************************************)
EXTENDS InstantiationTypeGenerator, SequenceTheorems, WellFoundedInduction, TLAPS

--------------------------------------------------------------------------------
(***************************************************************************)
(* Induction over the natural numbers, for a set instead of a predicate.   *)
(***************************************************************************)
\* A set of natural numbers has a least element.
LEMMA LeastNumber ==
  ASSUME NEW T \in SUBSET Nat, T # {}
  PROVE  \E x \in T : \A y \in T : x <= y
<1> DEFINE R == OpToRel(<, Nat)
<1>1. IsWellFoundedOn(R, Nat)
  BY NatLessThanWellFounded, Zenon
<1>2. \E x \in T : \A y \in T : ~ (<<y, x>> \in R)
  <2> HIDE DEF R
  <2> QED BY <1>1, WFMin, Zenon
<1>3. \A x, y \in Nat : <<y, x>> \in R <=> y < x
  BY DEF OpToRel
<1> HIDE DEF R
<1>4. PICK x \in T : \A y \in T : ~ (<<y, x>> \in R)
  BY <1>2
<1>5. \A y \in T : ~(y < x)
  BY <1>3, <1>4, Zenon
<1>6. \A y \in T : x <= y
  BY <1>5
<1> QED BY <1>6

\* A set that has 0, and n + 1 with every n, has them all.
LEMMA SetInduction ==
  ASSUME NEW S, 0 \in S, \A m \in Nat : m \in S => m + 1 \in S
  PROVE  Nat \subseteq S
<1> DEFINE T == Nat \ S
<1> SUFFICES ASSUME T # {} PROVE FALSE
  OBVIOUS
<1>1. PICK x \in T : \A y \in T : x <= y
  BY LeastNumber, Zenon
<1>2. x # 0 /\ x - 1 \in Nat /\ x - 1 \notin T
  BY <1>1
<1> QED BY <1>2

--------------------------------------------------------------------------------
(***************************************************************************)
(* Layouts of sequences of items.                                          *)
(***************************************************************************)
\* A sequence of n + 1 elements is one of n and its last.
LEMMA Fronted ==
  ASSUME NEW T, NEW s \in Seq(T), NEW m \in Nat, Len(s) = m + 1
  PROVE  \E t \in Seq(T), x \in T : s = Append(t, x) /\ Len(t) = m
<1> DEFINE t == SubSeq(s, 1, m)
<1>1. t \in Seq(T) /\ Len(t) = m /\ \A i \in 1..m : t[i] = s[i]
  BY SubSeqProperties
<1>2. s[m+1] \in T
  BY ElementOfSeq
<1>3. Append(t, s[m+1]) \in Seq(T) /\ Len(Append(t, s[m+1])) = m + 1
  BY <1>1, <1>2, AppendProperties
<1>4. \A i \in 1..Len(s) : s[i] = Append(t, s[m+1])[i]
  BY <1>1, <1>2, AppendProperties
<1>5. s = Append(t, s[m+1])
  <2> HIDE DEF t
  <2> QED BY <1>3, <1>4, SeqEqual
<1> QED BY <1>1, <1>2, <1>5, Zenon

\* f[k] is the layout of the first k items.
Lays(f, xs) == /\ f[0] = <<>>
               /\ \A k \in 1..Len(xs) : f[k] = f[k-1] \o ItemLayout(xs[k])

\* Layout is the last value of such a function.
LEMMA LayoutIs ==
  ASSUME NEW xs, Len(xs) \in Nat
  PROVE  \E f : Lays(f, xs) /\ Layout(xs) = f[Len(xs)]
<1> DEFINE F(f) == [k \in 0..Len(xs) |-> IF k = 0 THEN <<>> ELSE f[k-1] \o ItemLayout(xs[k])]
           E(m, f) == /\ f = [k \in 0..m |-> f[k]] /\ f[0] = <<>>
                      /\ \A k \in 1..m : f[k] = f[k-1] \o ItemLayout(xs[k])
           S == {m \in Nat : \E f : E(m, f)}
<1>1. 0 \in S
  <2>1. E(0, [k \in 0..0 |-> <<>>])
    OBVIOUS
  <2> QED BY <2>1, Zenon
<1>2. ASSUME NEW m \in Nat, m \in S PROVE m + 1 \in S
  <2>1. PICK f : E(m, f)
    BY <1>2, Zenon
  <2> DEFINE g == [k \in 0..(m+1) |-> IF k = m + 1 THEN f[m] \o ItemLayout(xs[m+1]) ELSE f[k]]
  <2>2. g = [k \in 0..(m+1) |-> g[k]] /\ g[0] = <<>>
    BY <2>1
  <2>3. ASSUME NEW k \in 1..(m+1) PROVE g[k] = g[k-1] \o ItemLayout(xs[k])
    <3>1. CASE k = m + 1
      <4>1. m \in 0..(m+1) /\ m + 1 \in 0..(m+1) /\ m # m + 1 /\ k - 1 = m
        BY <3>1
      <4>2. g[m+1] = f[m] \o ItemLayout(xs[m+1]) /\ g[m] = f[m]
        BY <4>1, Zenon
      <4> HIDE DEF g
      <4> QED BY <3>1, <4>1, <4>2
    <3>2. CASE k # m + 1
      <4>1. k \in 1..m /\ k \in 0..(m+1) /\ k - 1 \in 0..(m+1) /\ k - 1 # m + 1
        BY <3>2
      <4>2. g[k] = f[k] /\ g[k-1] = f[k-1]
        BY <4>1, <3>2
      <4> HIDE DEF g
      <4> QED BY <2>1, <4>1, <4>2
    <3> QED BY <3>1, <3>2
  <2>4. E(m + 1, g)
    <3> HIDE DEF g
    <3> QED BY <2>2, <2>3, Zenon
  <2> HIDE DEF E
  <2> QED BY <2>4
<1>3. Len(xs) \in S
  <2> HIDE DEF S
  <2> QED BY <1>1, <1>2, SetInduction
<1>4. PICK f : E(Len(xs), f)
  BY <1>3, Zenon
<1>5. f = F(f)
  <2>1. ASSUME NEW k \in 0..Len(xs) PROVE f[k] = IF k = 0 THEN <<>> ELSE f[k-1] \o ItemLayout(xs[k])
    <3>1. k # 0 => k \in 1..Len(xs)
      OBVIOUS
    <3> QED BY <1>4, <3>1
  <2>2. [k \in 0..Len(xs) |-> f[k]] = F(f)
    BY <2>1
  <2> QED BY <1>4, <2>2
<1> DEFINE upto == CHOOSE g : g = F(g)
<1>6. upto = F(upto)
  <2> HIDE DEF F
  <2> QED BY <1>5
<1>7. Layout(xs) = upto[Len(xs)]
  BY DEF Layout
<1> HIDE DEF upto
<1>8. F(upto)[0] = <<>>
  OBVIOUS
<1>9. ASSUME NEW k \in 1..Len(xs) PROVE F(upto)[k] = upto[k-1] \o ItemLayout(xs[k])
  <2>1. k \in 0..Len(xs) /\ k # 0
    OBVIOUS
  <2> QED BY <2>1, Zenon
<1> HIDE DEF F
<1>10. Lays(upto, xs)
  BY <1>6, <1>8, <1>9 DEF Lays
<1> QED BY <1>7, <1>10

\* On items that are as long, the functions agree.
LEMMA LaysAgree ==
  ASSUME NEW xs, NEW ys, Len(xs) \in Nat, Len(ys) \in Nat, Len(xs) <= Len(ys),
         \A k \in 1..Len(xs) : ItemLayout(xs[k]) = ItemLayout(ys[k]),
         NEW f, NEW g, Lays(f, xs), Lays(g, ys)
  PROVE  f[Len(xs)] = g[Len(xs)]
<1> DEFINE S == {m \in Nat : m <= Len(xs) => f[m] = g[m]}
<1>1. 0 \in S
  BY DEF Lays
<1>2. ASSUME NEW m \in Nat, m \in S PROVE m + 1 \in S
  <2> SUFFICES ASSUME m + 1 <= Len(xs) PROVE f[m+1] = g[m+1]
    OBVIOUS
  <2>1. m + 1 \in 1..Len(xs) /\ m + 1 \in 1..Len(ys) /\ (m + 1) - 1 = m /\ m <= Len(xs)
    OBVIOUS
  <2>2. f[m] = g[m]
    BY <1>2, <2>1
  <2>3. f[m+1] = f[(m+1)-1] \o ItemLayout(xs[m+1]) /\ g[m+1] = g[(m+1)-1] \o ItemLayout(ys[m+1])
    BY <2>1, Zenon DEF Lays
  <2> QED BY <2>1, <2>2, <2>3
<1>3. Nat \subseteq S
  <2> HIDE DEF S
  <2> QED BY <1>1, <1>2, SetInduction
<1> QED BY <1>3

\* Items as long as others have their layout.
LEMMA LayoutAlike ==
  ASSUME NEW U, NEW V, NEW xs \in Seq(U), NEW ys \in Seq(V), Len(xs) = Len(ys),
         \A k \in 1..Len(xs) : ItemLayout(xs[k]) = ItemLayout(ys[k])
  PROVE  Layout(xs) = Layout(ys)
<1>1. Len(xs) \in Nat /\ Len(ys) \in Nat /\ Len(xs) <= Len(ys)
  BY LenProperties
<1>2. PICK f : Lays(f, xs) /\ Layout(xs) = f[Len(xs)]
  BY <1>1, LayoutIs
<1>3. PICK g : Lays(g, ys) /\ Layout(ys) = g[Len(ys)]
  BY <1>1, LayoutIs
<1>4. f[Len(xs)] = g[Len(xs)]
  BY <1>1, <1>2, <1>3, LaysAgree
<1> QED BY <1>2, <1>3, <1>4

\* No items take no bytes.
LEMMA LayoutEmpty == Layout(<<>>) = <<>>
<1>1. Len(<<>>) = 0 /\ 0 \in Nat
  OBVIOUS
<1>2. PICK f : Lays(f, <<>>) /\ Layout(<<>>) = f[Len(<<>>)]
  BY <1>1, LayoutIs
<1> QED BY <1>1, <1>2 DEF Lays

\* One more item comes last.
LEMMA LayoutAppend ==
  ASSUME NEW U, NEW xs \in Seq(U), NEW x \in U
  PROVE  Layout(Append(xs, x)) = Layout(xs) \o ItemLayout(x)
<1> DEFINE ys == Append(xs, x)
<1>1. Len(xs) \in Nat /\ Len(ys) = Len(xs) + 1 /\ ys[Len(xs) + 1] = x
  BY AppendProperties, LenProperties
<1>2. \A k \in 1..Len(xs) : ItemLayout(xs[k]) = ItemLayout(ys[k])
  BY AppendProperties
<1> HIDE DEF ys
<1>3. PICK f : Lays(f, xs) /\ Layout(xs) = f[Len(xs)]
  BY <1>1, LayoutIs
<1>4. PICK g : Lays(g, ys) /\ Layout(ys) = g[Len(ys)]
  <2>1. Len(ys) \in Nat
    BY <1>1
  <2> QED BY <2>1, LayoutIs
<1>5. f[Len(xs)] = g[Len(xs)]
  <2>1. Len(xs) \in Nat /\ Len(ys) \in Nat /\ Len(xs) <= Len(ys) /\ Lays(f, xs) /\ Lays(g, ys)
    BY <1>1, <1>3, <1>4
  <2> QED BY <1>2, <2>1, LaysAgree
<1>6. g[Len(xs) + 1] = g[(Len(xs) + 1) - 1] \o ItemLayout(ys[Len(xs) + 1])
  <2>1. Len(xs) + 1 \in 1..Len(ys)
    BY <1>1
  <2> QED BY <1>4, <2>1, Zenon DEF Lays
<1>7. (Len(xs) + 1) - 1 = Len(xs)
  BY <1>1
<1> QED BY <1>1, <1>3, <1>4, <1>5, <1>6, <1>7 DEF ys

\* The items of U have sequences of terms of T for their lengths.
Laid(U, T) == \A y \in U : ItemLayout(y) \in Seq(T)

\* The layout is a sequence of terms.
LEMMA LayoutType ==
  ASSUME NEW T, NEW U, Laid(U, T), NEW xs \in Seq(U)
  PROVE  Layout(xs) \in Seq(T)
<1> DEFINE S == {m \in Nat : \A ys \in Seq(U) : Len(ys) = m => Layout(ys) \in Seq(T)}
<1>1. 0 \in S
  <2> SUFFICES ASSUME NEW ys \in Seq(U), Len(ys) = 0 PROVE Layout(ys) \in Seq(T)
    OBVIOUS
  <2>1. ys = <<>> /\ <<>> \in Seq(T)
    BY EmptySeq
  <2> QED BY <2>1, LayoutEmpty
<1>2. ASSUME NEW m \in Nat, m \in S PROVE m + 1 \in S
  <2> SUFFICES ASSUME NEW ys \in Seq(U), Len(ys) = m + 1 PROVE Layout(ys) \in Seq(T)
    OBVIOUS
  <2>1. PICK zs \in Seq(U), z \in U : ys = Append(zs, z) /\ Len(zs) = m
    BY Fronted, Zenon
  <2>2. Layout(zs) \in Seq(T) /\ ItemLayout(z) \in Seq(T)
    BY <1>2, <2>1 DEF Laid
  <2>3. Layout(ys) = Layout(zs) \o ItemLayout(z)
    BY <2>1, LayoutAppend
  <2> QED BY <2>2, <2>3, ConcatProperties
<1>3. Len(xs) \in S
  <2> HIDE DEF S
  <2>1. Len(xs) \in Nat
    BY LenProperties
  <2> QED BY <1>1, <1>2, <2>1, SetInduction
<1> QED BY <1>3

\* The layout of items one after the other.
LEMMA LayoutConcat ==
  ASSUME NEW T, NEW U, Laid(U, T), NEW xs \in Seq(U), NEW ys \in Seq(U)
  PROVE  Layout(xs \o ys) = Layout(xs) \o Layout(ys)
<1> DEFINE S == {m \in Nat : \A us \in Seq(U) :
                    Len(us) = m => Layout(xs \o us) = Layout(xs) \o Layout(us)}
<1>0. Layout(xs) \in Seq(T)
  BY LayoutType
<1>1. 0 \in S
  <2> SUFFICES ASSUME NEW us \in Seq(U), Len(us) = 0 PROVE Layout(xs \o us) = Layout(xs) \o Layout(us)
    OBVIOUS
  <2>1. us = <<>> /\ xs \o <<>> = xs /\ Layout(xs) \o <<>> = Layout(xs)
    BY <1>0, EmptySeq, ConcatEmptySeq
  <2> QED BY <2>1, LayoutEmpty
<1>2. ASSUME NEW m \in Nat, m \in S PROVE m + 1 \in S
  <2> SUFFICES ASSUME NEW us \in Seq(U), Len(us) = m + 1
               PROVE  Layout(xs \o us) = Layout(xs) \o Layout(us)
    OBVIOUS
  <2>1. PICK vs \in Seq(U), v \in U : us = Append(vs, v) /\ Len(vs) = m
    BY Fronted, Zenon
  <2>2. Layout(xs \o vs) = Layout(xs) \o Layout(vs)
    BY <1>2, <2>1
  <2>3. xs \o us = Append(xs \o vs, v) /\ xs \o vs \in Seq(U)
    <3>1. xs \o vs \in Seq(U) /\ <<v>> \in Seq(U)
      BY ConcatProperties
    <3>2. us = vs \o <<v>> /\ Append(xs \o vs, v) = (xs \o vs) \o <<v>>
      BY <2>1, <3>1, AppendIsConcat
    <3>3. xs \o (vs \o <<v>>) = (xs \o vs) \o <<v>>
      BY <3>1, ConcatAssociative
    <3> QED BY <3>1, <3>2, <3>3
  <2>4. Layout(xs \o us) = Layout(xs \o vs) \o ItemLayout(v)
    BY <2>3, LayoutAppend
  <2>5. Layout(us) = Layout(vs) \o ItemLayout(v)
    BY <2>1, LayoutAppend
  <2>6. (Layout(xs) \o Layout(vs)) \o ItemLayout(v) = Layout(xs) \o (Layout(vs) \o ItemLayout(v))
    <3> DEFINE a == Layout(xs)
               b == Layout(vs)
               c == ItemLayout(v)
    <3>1. a \in Seq(T) /\ b \in Seq(T) /\ c \in Seq(T)
      BY LayoutType DEF Laid
    <3> HIDE DEF a, b, c
    <3>2. (a \o b) \o c = a \o (b \o c)
      BY ONLY <3>1, ConcatAssociative, SMTT(40)
    <3> QED BY <3>2 DEF a, b, c
  <2> QED BY <2>2, <2>4, <2>5, <2>6, Zenon
<1>3. Len(ys) \in S
  <2> HIDE DEF S
  <2>1. Len(ys) \in Nat
    BY LenProperties
  <2> QED BY <1>1, <1>2, <2>1, SetInduction
<1> QED BY <1>3

Concats(U) == \A xs, ys \in Seq(U) : Layout(xs \o ys) = Layout(xs) \o Layout(ys)

\* The same, for all sequences of items.
LEMMA LayoutConcats ==
  ASSUME NEW T, NEW U, Laid(U, T)
  PROVE  Concats(U)
BY LayoutConcat DEF Concats

\* The layout of one item.
LEMMA LayoutOne ==
  ASSUME NEW T, NEW U, Laid(U, T), NEW x \in U
  PROVE  Layout(<<x>>) = ItemLayout(x)
<1>1. ItemLayout(x) \in Seq(T)
  BY DEF Laid
<1>2. <<>> \in Seq(U) /\ <<x>> = Append(<<>>, x)
  BY EmptySeq
<1>3. Layout(<<x>>) = <<>> \o ItemLayout(x)
  BY <1>2, LayoutAppend, LayoutEmpty
<1> QED BY <1>1, <1>3, ConcatEmptySeq

--------------------------------------------------------------------------------
(***************************************************************************)
(* Items that fit: the layout of others, and each field that is not hidden *)
(* where it starts in the others.                                          *)
(***************************************************************************)
Kept(x) == IsField(x) /\ x.id # "__anon"
Fits(xs, ys) == /\ Layout(xs) = Layout(ys)
                /\ \A j \in 1..Len(xs) : Kept(xs[j]) => StartsAsIn(xs, j, ys, Len(ys))

\* The beginning of a concatenation is in its first part.
LEMMA FirstPart ==
  ASSUME NEW U, NEW xs \in Seq(U), NEW ys \in Seq(U), NEW j \in 1..Len(xs)
  PROVE  /\ SubSeq(xs \o ys, 1, j - 1) = SubSeq(xs, 1, j - 1)
         /\ (xs \o ys)[j] = xs[j]
         /\ SubSeq(xs, 1, j - 1) \in Seq(U)
<1>0. Len(xs) \in Nat /\ Len(ys) \in Nat
  BY LenProperties
<1>1. (xs \o ys)[j] = xs[j]
  <2>1. j \in 1..(Len(xs) + Len(ys)) /\ j <= Len(xs)
    BY <1>0
  <2> QED BY <2>1, ConcatProperties
<1>2. SubSeq(xs, 1, j - 1) \in Seq(U)
  <2>1. \A i \in 1..(j-1) : xs[i] \in U
    BY <1>0, ElementOfSeq
  <2> QED BY <2>1, SubSeqProperties
<1>3. CASE j = 1
  BY <1>3, <1>1, <1>2, SubSeqEmpty
<1>4. CASE j # 1
  <2>1. 1 \in 1..Len(xs) /\ j - 1 \in 1..Len(xs)
    BY <1>0, <1>4
  <2> QED BY <1>1, <1>2, <2>1, SubSeqOfConcat1
<1> QED BY <1>3, <1>4

\* The beginning of a concatenation up to its second part.
LEMMA SecondPart ==
  ASSUME NEW U, NEW xs \in Seq(U), NEW ys \in Seq(U), NEW j \in 1..Len(ys)
  PROVE  /\ SubSeq(xs \o ys, 1, Len(xs) + j - 1) = xs \o SubSeq(ys, 1, j - 1)
         /\ (xs \o ys)[Len(xs) + j] = ys[j]
         /\ SubSeq(ys, 1, j - 1) \in Seq(U)
<1> DEFINE a == SubSeq(xs \o ys, 1, Len(xs) + j - 1)
           t == SubSeq(ys, 1, j - 1)
           b == xs \o t
<1>0. Len(xs) \in Nat /\ Len(ys) \in Nat /\ Len(xs \o ys) = Len(xs) + Len(ys) /\ xs \o ys \in Seq(U)
      /\ \A i \in 1..(Len(xs) + Len(ys)) : (xs \o ys)[i] = IF i <= Len(xs) THEN xs[i] ELSE ys[i - Len(xs)]
  BY LenProperties, ConcatProperties
<1>1. (xs \o ys)[Len(xs) + j] = ys[j]
  <2>1. Len(xs) + j \in 1..(Len(xs) + Len(ys)) /\ ~(Len(xs) + j <= Len(xs)) /\ (Len(xs) + j) - Len(xs) = j
    BY <1>0
  <2> QED BY <1>0, <2>1
<1>2. t \in Seq(U) /\ Len(t) = j - 1 /\ \A i \in 1..(j-1) : t[i] = ys[i]
  <2>1. \A i \in 1..(j-1) : ys[i] \in U
    BY <1>0, ElementOfSeq
  <2> QED BY <2>1, SubSeqProperties
<1>3. a \in Seq(U) /\ Len(a) = Len(xs) + j - 1 /\ \A i \in 1..(Len(xs) + j - 1) : a[i] = (xs \o ys)[i]
  <2> DEFINE z == xs \o ys
  <2>1. \A i \in 1..(Len(xs)+j-1) : z[i] \in U
    BY <1>0, ElementOfSeq
  <2>2. Len(xs) + j - 1 \in Nat
    BY <1>0
  <2> HIDE DEF z
  <2>3. SubSeq(z, 1, Len(xs) + j - 1) \in Seq(U) /\ Len(SubSeq(z, 1, Len(xs) + j - 1)) = Len(xs) + j - 1
        /\ \A i \in 1..(Len(xs) + j - 1) : SubSeq(z, 1, Len(xs) + j - 1)[i] = z[i]
    BY <2>1, <2>2, SubSeqProperties
  <2> QED BY <2>3 DEF z
<1> HIDE DEF a, t
<1>4. b \in Seq(U) /\ Len(b) = Len(xs) + Len(t)
      /\ \A i \in 1..(Len(xs) + Len(t)) : b[i] = IF i <= Len(xs) THEN xs[i] ELSE t[i - Len(xs)]
  BY <1>2, ConcatProperties, Zenon
<1> HIDE DEF b
<1>5. ASSUME NEW i \in 1..(Len(xs) + j - 1) PROVE a[i] = b[i]
  <2>1. i \in 1..(Len(xs) + Len(ys)) /\ i \in 1..(Len(xs) + Len(t))
    BY <1>0, <1>2
  <2>2. CASE i <= Len(xs)
    BY <1>0, <1>3, <1>4, <2>1, <2>2, Zenon
  <2>3. CASE ~(i <= Len(xs))
    <3>1. i - Len(xs) \in 1..(j-1)
      BY <1>0, <2>3
    <3> QED BY <1>0, <1>2, <1>3, <1>4, <2>1, <2>3, <3>1
  <2> QED BY <2>2, <2>3
<1>6. a = b
  <2>1. Len(a) = Len(b)
    BY <1>0, <1>2, <1>3, <1>4
  <2>2. \A i \in 1..Len(a) : a[i] = b[i]
    BY <1>3, <1>5
  <2> QED BY <1>3, <1>4, <2>1, <2>2, SeqEqual
<1> QED BY <1>1, <1>2, <1>6 DEF a, b, t

\* What comes later changes nothing for a field that is there.
LEMMA StartsMore ==
  ASSUME NEW U, NEW xs \in Seq(U), NEW us \in Seq(U), NEW ys \in Seq(U), NEW vs \in Seq(U),
         NEW j \in 1..Len(xs), StartsAsIn(xs, j, ys, Len(ys))
  PROVE  StartsAsIn(xs \o us, j, ys \o vs, Len(ys \o vs))
<1>1. PICK p \in 1..Len(ys) : /\ IsField(ys[p]) /\ ys[p].id = xs[j].id
                              /\ Layout(SubSeq(xs, 1, j - 1)) = Layout(SubSeq(ys, 1, p - 1))
  BY DEF StartsAsIn
<1>2. SubSeq(xs \o us, 1, j - 1) = SubSeq(xs, 1, j - 1) /\ (xs \o us)[j] = xs[j]
  BY FirstPart
<1>3. SubSeq(ys \o vs, 1, p - 1) = SubSeq(ys, 1, p - 1) /\ (ys \o vs)[p] = ys[p]
  BY FirstPart
<1>4. p \in 1..Len(ys \o vs)
  BY ConcatProperties, LenProperties
<1> QED BY <1>1, <1>2, <1>3, <1>4, Zenon DEF StartsAsIn

\* The first k + 1 items are the first k and one more.
LEMMA OneLonger ==
  ASSUME NEW U, NEW xs \in Seq(U), NEW k \in Nat, k + 1 <= Len(xs)
  PROVE  SubSeq(xs, 1, k + 1) = SubSeq(xs, 1, k) \o <<xs[k+1]>>
<1> DEFINE a == SubSeq(xs, 1, k + 1)
           b == SubSeq(xs, 1, k)
           y == xs[k+1]
           c == b \o <<y>>
<1>0. Len(xs) \in Nat /\ \A i \in 1..Len(xs) : xs[i] \in U
  BY LenProperties, ElementOfSeq
<1>1. a \in Seq(U) /\ Len(a) = k + 1 /\ \A i \in 1..(k+1) : a[i] = xs[i]
  BY <1>0, SubSeqProperties
<1>2. b \in Seq(U) /\ Len(b) = k /\ \A i \in 1..k : b[i] = xs[i]
  BY <1>0, SubSeqProperties
<1>3. y \in U
  BY <1>0
<1> HIDE DEF a, b
<1>4. <<y>> \in Seq(U) /\ Len(<<y>>) = 1 /\ <<y>>[1] = y
  BY <1>3
<1>5. c \in Seq(U) /\ Len(c) = k + 1
      /\ \A i \in 1..(k+1) : c[i] = IF i <= k THEN b[i] ELSE <<y>>[i - k]
  BY <1>2, <1>4, ConcatProperties
<1> HIDE DEF c
<1>6. ASSUME NEW i \in 1..(k+1) PROVE a[i] = c[i]
  <2>1. CASE i <= k
    BY <1>1, <1>2, <1>5, <2>1
  <2>2. CASE ~(i <= k)
    <3>1. i = k + 1 /\ i - k = 1
      BY <2>2
    <3> QED BY <1>1, <1>4, <1>5, <2>2, <3>1
  <2> QED BY <2>1, <2>2
<1>7. a = c
  BY <1>1, <1>5, <1>6, SeqEqual
<1> QED BY <1>7 DEF a, b, c

\* A position in a concatenation is in the one part or in the other.
LEMMA Parts ==
  ASSUME NEW U, NEW xs \in Seq(U), NEW ys \in Seq(U), NEW j \in 1..Len(xs \o ys)
  PROVE  j \in 1..Len(xs) \/ \E i \in 1..Len(ys) : j = Len(xs) + i
<1>1. Len(xs \o ys) = Len(xs) + Len(ys) /\ Len(xs) \in Nat /\ Len(ys) \in Nat
  BY ConcatProperties, LenProperties
<1>2. CASE ~(j <= Len(xs))
  <2>1. j - Len(xs) \in 1..Len(ys) /\ j = Len(xs) + (j - Len(xs))
    BY <1>1, <1>2
  <2> QED BY <2>1
<1> QED BY <1>1, <1>2

\* An item that is like x comes after items that fit where x comes next.
LEMMA FitsAppend ==
  ASSUME NEW T, NEW U, Laid(U, T), NEW xs \in Seq(U), NEW ys \in Seq(U), Fits(xs, ys),
         NEW y \in U, NEW x \in U, Alike(y, x)
  PROVE  Fits(xs \o <<y>>, ys \o <<x>>)
<1>0. <<x>> \in Seq(U) /\ <<y>> \in Seq(U) /\ Len(<<x>>) = 1 /\ Len(<<y>>) = 1 /\ <<x>>[1] = x /\ <<y>>[1] = y
  OBVIOUS
<1>1. Layout(xs \o <<y>>) = Layout(ys \o <<x>>)
  <2>0. \A p, q \in Seq(U) : Layout(p \o q) = Layout(p) \o Layout(q)
    <3>1. Concats(U)
      BY LayoutConcats
    <3> QED BY <3>1, Zenon DEF Concats
  <2>1. Layout(xs \o <<y>>) = Layout(xs) \o Layout(<<y>>)
    BY <1>0, <2>0, Zenon
  <2>2. Layout(ys \o <<x>>) = Layout(ys) \o Layout(<<x>>)
    BY <1>0, <2>0, Zenon
  <2>3. Layout(<<y>>) = ItemLayout(y) /\ Layout(<<x>>) = ItemLayout(x)
    BY LayoutOne
  <2> QED BY <2>1, <2>2, <2>3, Zenon DEF Fits, Alike
<1>2. ASSUME NEW j \in 1..Len(xs \o <<y>>), Kept((xs \o <<y>>)[j])
      PROVE  StartsAsIn(xs \o <<y>>, j, ys \o <<x>>, Len(ys \o <<x>>))
  <2>1. CASE j \in 1..Len(xs)
    <3>1. (xs \o <<y>>)[j] = xs[j]
      BY <1>0, <2>1, FirstPart
    <3>2. StartsAsIn(xs, j, ys, Len(ys))
      BY <1>2, <2>1, <3>1 DEF Fits
    <3> QED BY <1>0, <2>1, <3>2, StartsMore, Zenon
  <2>2. CASE \E i \in 1..Len(<<y>>) : j = Len(xs) + i
    <3>1. j = Len(xs) + 1 /\ Len(xs) \in Nat /\ Len(ys) \in Nat
      BY <1>0, <2>2, LenProperties
    <3>2. SubSeq(xs \o <<y>>, 1, Len(xs) + 1 - 1) = xs \o SubSeq(<<y>>, 1, 1 - 1)
          /\ (xs \o <<y>>)[Len(xs) + 1] = <<y>>[1]
      <4>1. 1 \in 1..Len(<<y>>)
        BY <1>0
      <4> QED BY <1>0, <4>1, SecondPart
    <3>3. SubSeq(ys \o <<x>>, 1, Len(ys) + 1 - 1) = ys \o SubSeq(<<x>>, 1, 1 - 1)
          /\ (ys \o <<x>>)[Len(ys) + 1] = <<x>>[1]
      <4>1. 1 \in 1..Len(<<x>>)
        BY <1>0
      <4> QED BY <1>0, <4>1, SecondPart
    <3>4. SubSeq(<<y>>, 1, 1 - 1) = <<>> /\ SubSeq(<<x>>, 1, 1 - 1) = <<>>
      BY SubSeqEmpty
    <3>5. xs \o <<>> = xs /\ ys \o <<>> = ys
      BY ConcatEmptySeq
    <3>6. Layout(SubSeq(xs \o <<y>>, 1, j - 1)) = Layout(SubSeq(ys \o <<x>>, 1, (Len(ys) + 1) - 1))
      <4>1. j - 1 = Len(xs) + 1 - 1
        BY <3>1
      <4>2. SubSeq(xs \o <<y>>, 1, j - 1) = xs
        BY <3>2, <3>4, <3>5, <4>1
      <4>3. SubSeq(ys \o <<x>>, 1, (Len(ys) + 1) - 1) = ys
        BY <3>3, <3>4, <3>5
      <4> QED BY <4>2, <4>3, Zenon DEF Fits
    <3>7. IsField((ys \o <<x>>)[Len(ys) + 1]) /\ (ys \o <<x>>)[Len(ys) + 1].id = (xs \o <<y>>)[j].id
      BY <1>0, <1>2, <3>1, <3>2, <3>3 DEF Alike, Kept
    <3>8. Len(ys) + 1 \in 1..Len(ys \o <<x>>)
      BY <1>0, <3>1, ConcatProperties
    <3> QED BY <3>6, <3>7, <3>8, Zenon DEF StartsAsIn
  <2> QED BY <1>0, <2>1, <2>2, Parts
<1> QED BY <1>1, <1>2, Zenon DEF Fits

\* What fits the end of what fits can take its place.
LEMMA FitsReplace ==
  ASSUME NEW T, NEW U, Laid(U, T), NEW a \in Seq(U), NEW b \in Seq(U), NEW c \in Seq(U),
         NEW ys \in Seq(U), Fits(a \o b, ys), Fits(c, b)
  PROVE  Fits(a \o c, ys)
<1>0. Len(a) \in Nat /\ Len(b) \in Nat /\ Len(c) \in Nat /\ Len(a \o b) = Len(a) + Len(b)
  BY LenProperties, ConcatProperties
<1>c. \A p, q \in Seq(U) : Layout(p \o q) = Layout(p) \o Layout(q)
  <2>1. Concats(U)
    BY LayoutConcats
  <2> QED BY <2>1, Zenon DEF Concats
<1>s. \A p, q \in Seq(U) : \A k \in 1..Len(q) :
         /\ SubSeq(p \o q, 1, Len(p) + k - 1) = p \o SubSeq(q, 1, k - 1)
         /\ (p \o q)[Len(p) + k] = q[k]
         /\ SubSeq(q, 1, k - 1) \in Seq(U)
  BY ONLY SecondPart, Zenon
<1>1. Layout(a \o c) = Layout(ys)
  <2>1. Layout(a \o c) = Layout(a) \o Layout(c) /\ Layout(a \o b) = Layout(a) \o Layout(b)
    BY <1>c, Zenon
  <2> QED BY <2>1, Zenon DEF Fits
<1>2. ASSUME NEW j \in 1..Len(a \o c), Kept((a \o c)[j]) PROVE StartsAsIn(a \o c, j, ys, Len(ys))
  <2>1. CASE j \in 1..Len(a)
    <3>1. (a \o c)[j] = a[j] /\ SubSeq(a \o c, 1, j - 1) = SubSeq(a, 1, j - 1)
      BY <2>1, FirstPart
    <3>2. (a \o b)[j] = a[j] /\ SubSeq(a \o b, 1, j - 1) = SubSeq(a, 1, j - 1)
      BY <2>1, FirstPart
    <3>3. j \in 1..Len(a \o b)
      BY <1>0, <2>1
    <3>4. StartsAsIn(a \o b, j, ys, Len(ys))
      BY <1>2, <3>1, <3>2, <3>3 DEF Fits
    <3> QED BY <3>1, <3>2, <3>4, Zenon DEF StartsAsIn
  <2>2. CASE \E i \in 1..Len(c) : j = Len(a) + i
    <3>1. PICK i \in 1..Len(c) : j = Len(a) + i
      BY <2>2
    <3>2. SubSeq(a \o c, 1, Len(a) + i - 1) = a \o SubSeq(c, 1, i - 1) /\ (a \o c)[Len(a) + i] = c[i]
          /\ SubSeq(c, 1, i - 1) \in Seq(U)
      BY <1>s, Zenon
    <3>3. PICK q \in 1..Len(b) : /\ IsField(b[q]) /\ b[q].id = c[i].id
                                 /\ Layout(SubSeq(c, 1, i - 1)) = Layout(SubSeq(b, 1, q - 1))
      BY <1>2, <3>1, <3>2 DEF Fits, StartsAsIn
    <3>4. SubSeq(a \o b, 1, Len(a) + q - 1) = a \o SubSeq(b, 1, q - 1) /\ (a \o b)[Len(a) + q] = b[q]
          /\ SubSeq(b, 1, q - 1) \in Seq(U)
      BY <1>s, Zenon
    <3>5. Layout(SubSeq(a \o c, 1, Len(a) + i - 1)) = Layout(SubSeq(a \o b, 1, Len(a) + q - 1))
      <4>1. Layout(a \o SubSeq(c, 1, i - 1)) = Layout(a) \o Layout(SubSeq(c, 1, i - 1))
        BY <3>2, <1>c, Zenon
      <4>2. Layout(a \o SubSeq(b, 1, q - 1)) = Layout(a) \o Layout(SubSeq(b, 1, q - 1))
        BY <3>4, <1>c, Zenon
      <4> QED BY <3>2, <3>3, <3>4, <4>1, <4>2, Zenon
    <3>6. Len(a) + q \in 1..Len(a \o b) /\ Kept((a \o b)[Len(a) + q])
      <4>1. Len(a) + q \in 1..Len(a \o b)
        BY <1>0
      <4> QED BY <1>2, <3>1, <3>2, <3>3, <3>4, <4>1 DEF Kept
    <3>7. StartsAsIn(a \o b, Len(a) + q, ys, Len(ys))
      BY <3>6 DEF Fits
    <3>8. (a \o c)[j].id = (a \o b)[Len(a) + q].id
      BY <3>1, <3>2, <3>3, <3>4
    <3>9. Layout(SubSeq(a \o c, 1, j - 1)) = Layout(SubSeq(a \o b, 1, (Len(a) + q) - 1))
      BY <3>1, <3>5
    <3> QED BY <3>7, <3>8, <3>9, Zenon DEF StartsAsIn
  <2> QED BY <2>1, <2>2, Parts
<1> QED BY <1>1, <1>2 DEF Fits

\* An item that is no field takes no place, at the end of what is fitted ...
LEMMA FitsDrop ==
  ASSUME NEW T, NEW U, Laid(U, T), NEW xs \in Seq(U), NEW ys \in Seq(U), Fits(xs, ys),
         NEW v \in U, ~IsField(v)
  PROVE  Fits(xs, ys \o <<v>>)
<1>0. <<v>> \in Seq(U) /\ <<>> \in Seq(U) /\ xs \o <<>> = xs
  BY EmptySeq, ConcatEmptySeq
<1>1. Layout(ys \o <<v>>) = Layout(ys)
  <2>1. Concats(U)
    BY LayoutConcats
  <2>2. Layout(ys \o <<v>>) = Layout(ys) \o Layout(<<v>>)
    BY <1>0, <2>1, Zenon DEF Concats
  <2>3. Layout(<<v>>) = <<>>
    BY LayoutOne DEF ItemLayout
  <2>4. Layout(ys) \in Seq(T)
    BY LayoutType
  <2> QED BY <2>2, <2>3, <2>4, ConcatEmptySeq
<1>2. ASSUME NEW j \in 1..Len(xs), Kept(xs[j]) PROVE StartsAsIn(xs, j, ys \o <<v>>, Len(ys \o <<v>>))
  <2>1. StartsAsIn(xs, j, ys, Len(ys))
    BY <1>2 DEF Fits
  <2>2. StartsAsIn(xs \o <<>>, j, ys \o <<v>>, Len(ys \o <<v>>))
    BY <1>0, <2>1, StartsMore, Zenon
  <2> QED BY <1>0, <2>2
<1> QED BY <1>1, <1>2 DEF Fits

\* ... and before what fits.
LEMMA FitsBefore ==
  ASSUME NEW T, NEW U, Laid(U, T), NEW b \in Seq(U), NEW v \in U, ~IsField(v)
  PROVE  Fits(<<v>> \o b, b)
<1>0. <<v>> \in Seq(U) /\ Len(<<v>>) = 1 /\ <<v>>[1] = v
  OBVIOUS
<1>1. ASSUME NEW t \in Seq(U) PROVE Layout(<<v>> \o t) = Layout(t)
  <2>1. Concats(U)
    BY LayoutConcats
  <2>2. Layout(<<v>> \o t) = Layout(<<v>>) \o Layout(t)
    BY <1>0, <2>1, Zenon DEF Concats
  <2>3. Layout(<<v>>) = <<>>
    BY LayoutOne DEF ItemLayout
  <2>4. Layout(t) \in Seq(T)
    BY LayoutType
  <2> QED BY <2>2, <2>3, <2>4, ConcatEmptySeq, Zenon
<1>2. ASSUME NEW j \in 1..Len(<<v>> \o b), Kept((<<v>> \o b)[j])
      PROVE  StartsAsIn(<<v>> \o b, j, b, Len(b))
  <2>1. j \notin 1..Len(<<v>>)
    <3>1. SUFFICES ASSUME j \in 1..Len(<<v>>) PROVE FALSE
      OBVIOUS
    <3>2. (<<v>> \o b)[j] = v
      BY <1>0, <3>1, FirstPart
    <3> QED BY <1>2, <3>2 DEF Kept
  <2>2. PICK i \in 1..Len(b) : j = Len(<<v>>) + i
    BY <1>0, <2>1, Parts
  <2>3. SubSeq(<<v>> \o b, 1, Len(<<v>>) + i - 1) = <<v>> \o SubSeq(b, 1, i - 1)
        /\ (<<v>> \o b)[Len(<<v>>) + i] = b[i] /\ SubSeq(b, 1, i - 1) \in Seq(U)
    BY <1>0, SecondPart
  <2>4. Layout(SubSeq(<<v>> \o b, 1, j - 1)) = Layout(SubSeq(b, 1, i - 1))
    <3>1. j - 1 = Len(<<v>>) + i - 1
      BY <2>2
    <3>2. Layout(<<v>> \o SubSeq(b, 1, i - 1)) = Layout(SubSeq(b, 1, i - 1))
      BY <1>1, <2>3, Zenon
    <3> QED BY <2>3, <3>1, <3>2, Zenon
  <2>5. IsField(b[i]) /\ b[i].id = (<<v>> \o b)[j].id
    BY <1>2, <2>2, <2>3 DEF Kept
  <2> QED BY <2>4, <2>5, Zenon DEF StartsAsIn
<1> QED BY <1>1, <1>2 DEF Fits

\* Items that are like those that fit.
LEMMA FitsAlike ==
  ASSUME NEW U, NEW xs \in Seq(U), NEW ys \in Seq(U), Fits(xs, ys),
         NEW zs \in Seq(U), Len(zs) = Len(xs), \A k \in 1..Len(xs) : Alike(zs[k], xs[k])
  PROVE  Fits(zs, ys)
<1>0. Len(xs) \in Nat
  BY LenProperties
<1>1. Layout(zs) = Layout(xs)
  BY LayoutAlike DEF Alike
<1>2. ASSUME NEW j \in 1..Len(zs), Kept(zs[j]) PROVE StartsAsIn(zs, j, ys, Len(ys))
  <2> DEFINE a == SubSeq(xs, 1, j - 1)
             b == SubSeq(zs, 1, j - 1)
  <2>1. a \in Seq(U) /\ Len(a) = j - 1 /\ \A k \in 1..(j-1) : a[k] = xs[k]
    <3>1. \A k \in 1..(j-1) : xs[k] \in U
      BY <1>0, ElementOfSeq
    <3> QED BY <3>1, SubSeqProperties
  <2>2. b \in Seq(U) /\ Len(b) = j - 1 /\ \A k \in 1..(j-1) : b[k] = zs[k]
    <3>1. \A k \in 1..(j-1) : zs[k] \in U
      BY <1>0, ElementOfSeq
    <3> QED BY <3>1, SubSeqProperties
  <2>3. Layout(b) = Layout(a)
    <3> HIDE DEF a, b
    <3>1. \A k \in 1..Len(b) : ItemLayout(b[k]) = ItemLayout(a[k])
      BY <1>0, <2>1, <2>2 DEF Alike
    <3>2. Len(b) = Len(a) /\ a \in Seq(U) /\ b \in Seq(U)
      BY <2>1, <2>2
    <3> QED BY <3>1, <3>2, LayoutAlike
  <2>4. zs[j].id = xs[j].id /\ Kept(xs[j])
    BY <1>2 DEF Alike, Kept
  <2>5. StartsAsIn(xs, j, ys, Len(ys))
    BY <2>4 DEF Fits
  <2> QED BY <2>3, <2>4, <2>5, Zenon DEF StartsAsIn
<1> QED BY <1>1, <1>2 DEF Fits

--------------------------------------------------------------------------------
(***************************************************************************)
(* What is assumed of items and lengths: ItemFacts and LengthFacts, for a  *)
(* set of length expressions that has the lengths of the items and their   *)
(* sums.                                                                   *)
(***************************************************************************)
CONSTANTS Lengths, Terms

NodeFacts ==
    /\ ItemFacts
    /\ \A x \in Items : /\ Member(x.id) \in Terms
                        /\ LengthExpr(x) \in Lengths \cup {NoExpr}
    /\ NoExpr \notin Lengths
    /\ \A e \in Lengths : LengthTerms(e) \in Seq(Terms)
    /\ \A e, f \in Lengths : Plus(e, f) \in Lengths /\ LengthFacts(e, f)

\* The items a compact unit is made of, before and after SelfReplacerVisitor.
Made == (UNION {Copies(x) : x \in Items}) \cup {HiddenField(e) : e \in Lengths}
AllMade == Made \cup {ReplacedItem(y) : y \in Made}

\* The length of every item is a sequence of terms.
LEMMA ItemLayoutType ==
  ASSUME NodeFacts
  PROVE  /\ \A x \in Items : ItemLayout(x) \in Seq(Terms)
         /\ \A y \in AllMade : ItemLayout(y) \in Seq(Terms)
         /\ \A y \in Made : Alike(ReplacedItem(y), y)
         /\ \A e \in Lengths : HiddenField(e) \in Made /\ ItemLayout(HiddenField(e)) = LengthTerms(e)
<1>1. ASSUME NEW x \in Items PROVE ItemLayout(x) \in Seq(Terms)
  <2>1. <<>> \in Seq(Terms) /\ <<Member(x.id)>> \in Seq(Terms)
    BY EmptySeq DEF NodeFacts
  <2>2. LengthExpr(x) # NoExpr => LengthTerms(LengthExpr(x)) \in Seq(Terms)
    BY DEF NodeFacts
  <2> QED BY <2>1, <2>2 DEF ItemLayout, FieldLayout
<1>2. ASSUME NEW e \in Lengths PROVE ItemLayout(HiddenField(e)) = LengthTerms(e)
  <2>1. LengthExpr(HiddenField(e)) = e /\ e # NoExpr
    BY DEF NodeFacts, LengthFacts
  <2>2. IsField(HiddenField(e))
    BY DEF IsField, HiddenField, Atomic
  <2> QED BY <2>1, <2>2 DEF ItemLayout, FieldLayout
<1>3. ASSUME NEW y \in Made PROVE Alike(ReplacedItem(y), y) /\ ItemLayout(y) \in Seq(Terms)
  <2>1. CASE \E x \in Items : y \in Copies(x)
    BY <2>1, <1>1 DEF NodeFacts, ItemFacts, Alike
  <2>2. CASE \E e \in Lengths : y = HiddenField(e)
    BY <2>2, <1>2 DEF NodeFacts, LengthFacts
  <2> QED BY <2>1, <2>2, Zenon DEF Made
<1>4. ASSUME NEW y \in AllMade PROVE ItemLayout(y) \in Seq(Terms)
  BY <1>3 DEF AllMade, Alike
<1>5. \A e \in Lengths : HiddenField(e) \in Made
  BY Zenon DEF Made
<1> QED BY <1>1, <1>2, <1>3, <1>4, <1>5, Zenon

\* The items of units and of compact units.
AllItems == Items \cup AllMade
Fields == {x \in Items : IsField(x)}

\* What is made of fields up to one of them.
Accs == [len : Lengths \cup {NoExpr}, out : Seq(Made)]
Ran(acc, xs) == Fits(acc.out \o FieldOfLength(acc.len), xs)

\* The sets of items, and of sequences of them, in one another.
LEMMA ItemSets ==
  ASSUME NodeFacts
  PROVE  /\ Laid(AllItems, Terms)
         /\ Made \subseteq AllItems /\ Items \subseteq AllItems /\ Fields \subseteq AllItems
         /\ Seq(Made) \subseteq Seq(AllItems) /\ Seq(Items) \subseteq Seq(AllItems)
         /\ Seq(Fields) \subseteq Seq(AllItems) /\ Seq(AllMade) \subseteq Seq(AllItems)
         /\ Seq(Made) \subseteq Seq(AllMade)
<1>1. Laid(AllItems, Terms)
  BY ItemLayoutType DEF Laid, AllItems
<1>2. Made \subseteq AllItems /\ Items \subseteq AllItems /\ Fields \subseteq AllItems
      /\ AllMade \subseteq AllItems /\ Made \subseteq AllMade
  BY DEF AllItems, AllMade, Fields
<1>3. ASSUME NEW A, NEW B, A \subseteq B PROVE Seq(A) \subseteq Seq(B)
  BY <1>3
<1> QED BY <1>1, <1>2, <1>3

\* One field more: addFieldOfLength hides what the run and the field take.
LEMMA AddedFits ==
  ASSUME NodeFacts, NEW acc \in Accs, NEW xs \in Seq(Fields), Ran(acc, xs), NEW f \in Fields
  PROVE  Added(acc, f) \in Accs /\ Ran(Added(acc, f), xs \o <<f>>)
<1> DEFINE h == FieldOfLength(acc.len)
           U == AllItems
<1>0. /\ acc.len \in Lengths \cup {NoExpr} /\ acc.out \in Seq(Made) /\ acc.out \in Seq(U)
      /\ f \in U /\ f \in Items /\ IsField(f) /\ xs \in Seq(U) /\ Laid(U, Terms) /\ <<f>> \in Seq(U)
  BY ItemSets DEF Accs, Fields
<1>1. ASSUME NEW e \in Lengths \cup {NoExpr}
      PROVE  /\ FieldOfLength(e) \in Seq(Made) /\ FieldOfLength(e) \in Seq(U)
             /\ Layout(FieldOfLength(e)) = IF e = NoExpr THEN <<>> ELSE LengthTerms(e)
             /\ \A k \in 1..Len(FieldOfLength(e)) : ~Kept(FieldOfLength(e)[k])
  <2>1. CASE e = NoExpr
    <3>1. FieldOfLength(e) = <<>>
      BY <2>1 DEF FieldOfLength
    <3>2. Layout(<<>>) = <<>>
      BY LayoutEmpty
    <3>3. Len(<<>>) = 0 /\ <<>> \in Seq(Made) /\ <<>> \in Seq(U)
      BY EmptySeq
    <3> QED BY <2>1, <3>1, <3>2, <3>3
  <2>2. CASE e # NoExpr
    <3>1. FieldOfLength(e) = <<HiddenField(e)>> /\ e \in Lengths
      BY <2>2, <1>1 DEF FieldOfLength
    <3>2. HiddenField(e) \in Made /\ ItemLayout(HiddenField(e)) = LengthTerms(e)
      BY <3>1, ItemLayoutType
    <3>3. HiddenField(e) \in U
      BY <3>2, ItemSets
    <3>4. Layout(<<HiddenField(e)>>) = LengthTerms(e)
      BY <1>0, <3>2, <3>3, LayoutOne
    <3>5. ~Kept(HiddenField(e))
      BY DEF Kept, HiddenField, Atomic
    <3> HIDE DEF U
    <3>6. <<HiddenField(e)>> \in Seq(Made) /\ <<HiddenField(e)>> \in Seq(U) /\ Len(<<HiddenField(e)>>) = 1
          /\ <<HiddenField(e)>>[1] = HiddenField(e)
      BY <3>2, <3>3
    <3> QED BY <2>2, <3>1, <3>4, <3>5, <3>6
  <2> QED BY <2>1, <2>2
<1>2. h \in Seq(Made) /\ h \in Seq(U) /\ Fits(acc.out \o h, xs)
  BY <1>0, <1>1 DEF Ran
<1>3. CASE LengthExpr(f) # NoExpr
  <2> DEFINE e == SumOf(acc.len, LengthExpr(f))
             g == FieldOfLength(e)
  <2>1. e \in Lengths /\ LengthExpr(f) \in Lengths
    BY <1>0, <1>3 DEF NodeFacts, SumOf
  <2>2. Added(acc, f) = [len |-> e, out |-> acc.out]
    BY <1>3 DEF Added, Accs
  <2>3. Layout(g) = LengthTerms(e) /\ g \in Seq(U) /\ \A k \in 1..Len(g) : ~Kept(g[k])
    BY <1>1, <2>1 DEF NodeFacts
  <2>4. LengthTerms(e) = Layout(h) \o LengthTerms(LengthExpr(f))
    <3>1. CASE acc.len = NoExpr
      <4>1. e = LengthExpr(f) /\ Layout(h) = <<>>
        BY <1>0, <1>1, <3>1 DEF SumOf
      <4>2. LengthTerms(LengthExpr(f)) \in Seq(Terms)
        BY <2>1 DEF NodeFacts
      <4> QED BY <4>1, <4>2, ConcatEmptySeq
    <3>2. CASE acc.len # NoExpr
      <4>1. e = Plus(acc.len, LengthExpr(f)) /\ Layout(h) = LengthTerms(acc.len) /\ acc.len \in Lengths
        BY <1>0, <1>1, <3>2 DEF SumOf
      <4> QED BY <2>1, <4>1, Zenon DEF NodeFacts, LengthFacts
    <3> QED BY <3>1, <3>2
  <2>5. Layout(h \o <<f>>) = Layout(h) \o LengthTerms(LengthExpr(f)) /\ h \o <<f>> \in Seq(U)
    <3>1. Concats(U)
      BY <1>0, LayoutConcats
    <3>2. Layout(<<f>>) = LengthTerms(LengthExpr(f))
      BY <1>0, <1>3, LayoutOne, Zenon DEF ItemLayout, FieldLayout
    <3>3. h \o <<f>> \in Seq(U)
      BY <1>0, <1>2, ConcatProperties
    <3> QED BY <1>0, <1>2, <3>1, <3>2, <3>3, Zenon DEF Concats
  <2> HIDE DEF e, g, h, U
  <2>6. Fits(g, h \o <<f>>)
    BY <2>3, <2>4, <2>5, Zenon DEF Fits
  <2>7. Fits(acc.out \o (h \o <<f>>), xs \o <<f>>)
    <3>1. Alike(f, f)
      BY DEF Alike
    <3>2. acc.out \o h \in Seq(U)
      BY <1>0, <1>2, ConcatProperties
    <3>3. Fits((acc.out \o h) \o <<f>>, xs \o <<f>>)
      BY <1>0, <1>2, <3>1, <3>2, FitsAppend, Zenon
    <3>4. (acc.out \o h) \o <<f>> = acc.out \o (h \o <<f>>)
      <4> DEFINE a == acc.out
      <4>1. a \in Seq(U)
        BY <1>0
      <4>2. h \in Seq(U)
        BY <1>2
      <4>3. <<f>> \in Seq(U)
        BY <1>0
      <4> HIDE DEF a
      <4>4. (a \o h) \o <<f>> = a \o (h \o <<f>>)
        BY ONLY <4>1, <4>2, <4>3, ConcatAssociative, SMTT(40)
      <4> QED BY <4>4, Zenon DEF a
    <3> QED BY <3>3, <3>4, Zenon
  <2>8. Fits(acc.out \o g, xs \o <<f>>)
    <3>1. xs \o <<f>> \in Seq(U)
      BY <1>0, ConcatProperties
    <3> QED BY <1>0, <2>3, <2>5, <2>6, <2>7, <3>1, FitsReplace, Zenon
  <2>9. Added(acc, f) \in Accs
    BY <1>0, <2>1, <2>2 DEF Accs
  <2> QED BY <2>2, <2>8, <2>9 DEF Ran, g
<1>4. CASE LengthExpr(f) = NoExpr
  <2> DEFINE o == acc.out \o h \o <<Clone(f)>>
  <2>1. Added(acc, f) = [len |-> NoExpr, out |-> o]
    BY <1>4 DEF Added
  <2>2. Clone(f) \in Made /\ Alike(Clone(f), f) /\ Clone(f) \in U
    <3>1. Clone(f) \in Copies(f)
      BY DEF Copies
    <3>2. Clone(f) \in Made /\ Alike(Clone(f), f)
      BY <1>0, <3>1 DEF Made, NodeFacts, ItemFacts
    <3> QED BY <3>2, ItemSets
  <2>3. acc.out \o h \in Seq(Made) /\ acc.out \o h \in Seq(U)
    BY <1>0, <1>2, ConcatProperties
  <2> HIDE DEF h, U
  <2>4. o \in Seq(Made) /\ o \in Seq(U)
    <3>1. <<Clone(f)>> \in Seq(Made) /\ <<Clone(f)>> \in Seq(U)
      BY <2>2
    <3> QED BY <2>3, <3>1, ConcatProperties
  <2>5. Fits(o, xs \o <<f>>)
    BY <1>0, <1>2, <2>2, <2>3, FitsAppend, Zenon
  <2> HIDE DEF o
  <2>6. FieldOfLength(NoExpr) = <<>> /\ o \o <<>> = o
    BY <2>4, ConcatEmptySeq DEF FieldOfLength
  <2> QED BY <2>1, <2>4, <2>5, <2>6 DEF Ran, Accs
<1> QED BY <1>3, <1>4

\* AfterFields is the function its recursion defines.
Start == [len |-> NoExpr, out |-> <<>>]

LEMMA AfterFieldsIs ==
  ASSUME NEW fields, Len(fields) \in Nat
  PROVE  /\ AfterFields(fields)[0] = Start
         /\ \A k \in 1..Len(fields) : AfterFields(fields)[k] = Added(AfterFields(fields)[k-1], fields[k])
<1> DEFINE F(f) == [k \in 0..Len(fields) |-> IF k = 0 THEN Start ELSE Added(f[k-1], fields[k])]
           E(m, f) == /\ f = [k \in 0..m |-> f[k]] /\ f[0] = Start
                      /\ \A k \in 1..m : f[k] = Added(f[k-1], fields[k])
           S == {m \in Nat : \E f : E(m, f)}
<1>1. 0 \in S
  <2>1. E(0, [k \in 0..0 |-> Start])
    OBVIOUS
  <2> QED BY <2>1, Zenon
<1>2. ASSUME NEW m \in Nat, m \in S PROVE m + 1 \in S
  <2>1. PICK f : E(m, f)
    BY <1>2
  <2> DEFINE g == [k \in 0..(m+1) |-> IF k = m + 1 THEN Added(f[m], fields[m+1]) ELSE f[k]]
  <2>2. g = [k \in 0..(m+1) |-> g[k]] /\ g[0] = Start
    BY <2>1
  <2>3. ASSUME NEW k \in 1..(m+1) PROVE g[k] = Added(g[k-1], fields[k])
    <3>1. CASE k = m + 1
      <4>1. m \in 0..(m+1) /\ m + 1 \in 0..(m+1) /\ m # m + 1 /\ k - 1 = m
        BY <3>1
      <4>2. g[m+1] = Added(f[m], fields[m+1]) /\ g[m] = f[m]
        BY <4>1, Zenon
      <4> HIDE DEF g
      <4> QED BY <3>1, <4>1, <4>2
    <3>2. CASE k # m + 1
      <4>1. k \in 1..m /\ k \in 0..(m+1) /\ k - 1 \in 0..(m+1) /\ k - 1 # m + 1
        BY <3>2
      <4>2. g[k] = f[k] /\ g[k-1] = f[k-1]
        BY <4>1, <3>2
      <4> HIDE DEF g
      <4> QED BY <2>1, <4>1, <4>2
    <3> QED BY <3>1, <3>2
  <2>4. E(m + 1, g)
    <3> HIDE DEF g
    <3> QED BY <2>2, <2>3, Zenon
  <2> HIDE DEF E
  <2> QED BY <2>4
<1>3. Len(fields) \in S
  <2> HIDE DEF S
  <2> QED BY <1>1, <1>2, SetInduction
<1>4. PICK f : E(Len(fields), f)
  BY <1>3
<1>5. f = F(f)
  <2>1. ASSUME NEW k \in 0..Len(fields) PROVE f[k] = IF k = 0 THEN Start ELSE Added(f[k-1], fields[k])
    <3>1. k # 0 => k \in 1..Len(fields)
      OBVIOUS
    <3> QED BY <1>4, <3>1
  <2>2. [k \in 0..Len(fields) |-> f[k]] = F(f)
    BY <2>1
  <2> QED BY <1>4, <2>2
<1> DEFINE acc == CHOOSE a : a = F(a)
<1>6. acc = F(acc)
  <2> HIDE DEF F
  <2> QED BY <1>5
<1>7. AfterFields(fields) = acc
  BY DEF AfterFields, Start
<1> HIDE DEF acc
<1>8. F(acc)[0] = Start
  OBVIOUS
<1>9. ASSUME NEW k \in 1..Len(fields) PROVE F(acc)[k] = Added(acc[k-1], fields[k])
  <2>1. k \in 0..Len(fields) /\ k # 0
    OBVIOUS
  <2> QED BY <2>1, Zenon
<1> HIDE DEF F
<1> QED BY <1>6, <1>7, <1>8, <1>9

\* compactAndAddItems moves no field: what the fields become fits them.
LEMMA CompactedFits ==
  ASSUME NodeFacts, NEW fields \in Seq(Fields)
  PROVE  Compacted(fields) \in Seq(Made) /\ Fits(Compacted(fields), fields)
<1> DEFINE acc == AfterFields(fields)
           upto(k) == SubSeq(fields, 1, k)
           S == {k \in Nat : k <= Len(fields) => acc[k] \in Accs /\ Ran(acc[k], upto(k))}
<1>0. Len(fields) \in Nat
  BY LenProperties
<1>1. acc[0] = Start /\ \A k \in 1..Len(fields) : acc[k] = Added(acc[k-1], fields[k])
  BY <1>0, AfterFieldsIs
<1> HIDE DEF acc
<1>2. 0 \in S
  <2>1. upto(0) = <<>>
    BY SubSeqEmpty
  <2>2. <<>> \in Seq(Made) /\ <<>> \o <<>> = <<>> /\ Len(<<>>) = 0
    BY EmptySeq, ConcatEmptySeq
  <2>3. Start \in Accs
    BY <2>2 DEF Start, Accs
  <2>4. Start.out \o FieldOfLength(Start.len) = <<>>
    BY <2>2 DEF Start, FieldOfLength
  <2>5. Fits(<<>>, <<>>)
    BY <2>2 DEF Fits
  <2> QED BY <1>1, <2>1, <2>3, <2>4, <2>5, Zenon DEF Ran
<1>3. ASSUME NEW k \in Nat, k \in S PROVE k + 1 \in S
  <2> SUFFICES ASSUME k + 1 <= Len(fields) PROVE acc[k+1] \in Accs /\ Ran(acc[k+1], upto(k+1))
    OBVIOUS
  <2>1. acc[k] \in Accs /\ Ran(acc[k], upto(k))
    BY <1>0, <1>3
  <2>2. upto(k) \in Seq(Fields) /\ fields[k+1] \in Fields
    <3>1. \A i \in 1..Len(fields) : fields[i] \in Fields
      BY ElementOfSeq
    <3>2. (\A i \in 1..k : fields[i] \in Fields) /\ fields[k+1] \in Fields
      BY <1>0, <3>1
    <3> QED BY <3>2, SubSeqProperties
  <2>3. upto(k+1) = upto(k) \o <<fields[k+1]>>
    BY <1>0, <2>2, OneLonger
  <2>4. acc[k+1] = Added(acc[k], fields[k+1])
    <3>1. k + 1 \in 1..Len(fields) /\ (k + 1) - 1 = k
      BY <1>0
    <3> QED BY <1>1, <3>1
  <2> HIDE DEF upto
  <2> QED BY <2>1, <2>2, <2>3, <2>4, AddedFits, Zenon
<1>4. Len(fields) \in S
  <2> HIDE DEF S
  <2> QED BY <1>0, <1>2, <1>3, SetInduction
<1>5. upto(Len(fields)) = fields
  BY SubSeqFull
<1> DEFINE r == acc[Len(fields)]
<1>6. r \in Accs /\ Ran(r, fields)
  <2>1. Len(fields) <= Len(fields)
    BY <1>0
  <2> QED BY <1>4, <1>5, <2>1, Zenon
<1>7. Compacted(fields) = r.out \o FieldOfLength(r.len)
  BY DEF Compacted, acc
<1> HIDE DEF r
<1>8. r.out \in Seq(Made) /\ FieldOfLength(r.len) \in Seq(Made)
  <2>1. r.out \in Seq(Made) /\ r.len \in Lengths \cup {NoExpr}
    BY <1>6 DEF Accs
  <2>2. CASE r.len = NoExpr
    BY <2>1, <2>2, EmptySeq DEF FieldOfLength
  <2>3. CASE r.len # NoExpr
    <3>1. HiddenField(r.len) \in Made
      BY <2>1, <2>3, ItemLayoutType
    <3> QED BY <2>1, <2>3, <3>1 DEF FieldOfLength
  <2> QED BY <2>2, <2>3
<1> QED BY <1>6, <1>7, <1>8, ConcatProperties DEF Ran

--------------------------------------------------------------------------------
(***************************************************************************)
(* The visits.  a are the items taken, b the fields not yet hidden, ys the *)
(* items visited, x the next one.                                          *)
(***************************************************************************)
\* A copy is an item that a compact unit may have, and like what it copies.
LEMMA CopyAlike ==
  ASSUME NodeFacts, NEW x \in Items, NEW y \in Copies(x)
  PROVE  y \in Made /\ y \in AllItems /\ Alike(y, x) /\ x \in AllItems
<1>1. y \in Made /\ Alike(y, x)
  BY DEF Made, NodeFacts, ItemFacts
<1> QED BY <1>1, ItemSets

\* Variables and properties that are dropped.
LEMMA DroppedFits ==
  ASSUME NodeFacts, NEW a \in Seq(Made), NEW b \in Seq(Fields), NEW ys \in Seq(Items),
         Fits(a \o b, ys), NEW x \in Items, ~IsField(x)
  PROVE  Fits(a \o b, ys \o <<x>>)
<1>1. Laid(AllItems, Terms) /\ x \in AllItems /\ ys \in Seq(AllItems)
  BY ItemSets
<1>2. a \o b \in Seq(AllItems)
  BY ItemSets, ConcatProperties
<1> QED BY <1>1, <1>2, FitsDrop, Zenon

\* Variables and properties that are kept: they come before the fields that are
\* not yet hidden.
LEMMA KeptVariableFits ==
  ASSUME NodeFacts, NEW a \in Seq(Made), NEW b \in Seq(Fields), NEW ys \in Seq(Items),
         Fits(a \o b, ys), NEW x \in Items, ~IsField(x), NEW y \in Copies(x)
  PROVE  Fits((a \o <<y>>) \o b, ys \o <<x>>)
<1> DEFINE U == AllItems
<1>1. Laid(U, Terms) /\ x \in U /\ ys \in Seq(U) /\ y \in U /\ ~IsField(y)
  BY ItemSets, CopyAlike DEF Alike
<1>2. a \in Seq(U) /\ b \in Seq(U)
  BY ItemSets
<1> HIDE DEF U
<1>3. <<y>> \in Seq(U) /\ <<y>> \o b \in Seq(U)
  <2>1. <<y>> \in Seq(U)
    BY <1>1
  <2> QED BY <1>2, <2>1, ConcatProperties
<1>4. Fits(<<y>> \o b, b)
  BY <1>1, <1>2, FitsBefore
<1>5. Fits(a \o (<<y>> \o b), ys)
  BY <1>1, <1>2, <1>3, <1>4, FitsReplace, Zenon
<1>6. a \o (<<y>> \o b) \in Seq(U)
  BY <1>2, <1>3, ConcatProperties
<1>7. Fits(a \o (<<y>> \o b), ys \o <<x>>)
  BY <1>1, <1>5, <1>6, FitsDrop, Zenon
<1>8. (a \o <<y>>) \o b = a \o (<<y>> \o b)
  <2>1. a \in Seq(U)
    BY <1>2
  <2>2. <<y>> \in Seq(U)
    BY <1>3
  <2>3. b \in Seq(U)
    BY <1>2
  <2> QED BY ONLY <2>1, <2>2, <2>3, ConcatAssociative, SMTT(40)
<1> QED BY <1>7, <1>8, Zenon

\* Fields that are to be hidden.
LEMMA CompactableFits ==
  ASSUME NodeFacts, NEW a \in Seq(Made), NEW b \in Seq(Fields), NEW ys \in Seq(Items),
         Fits(a \o b, ys), NEW x \in Items, IsField(x)
  PROVE  Fits(a \o Append(b, x), ys \o <<x>>) /\ Append(b, x) \in Seq(Fields)
<1> DEFINE U == AllItems
<1>1. Laid(U, Terms) /\ x \in U /\ x \in Fields /\ ys \in Seq(U)
  BY ItemSets DEF Fields
<1>2. a \in Seq(U) /\ b \in Seq(U)
  BY ItemSets
<1> HIDE DEF U
<1>3. a \o b \in Seq(U) /\ Alike(x, x)
  BY <1>2, ConcatProperties DEF Alike
<1>4. Fits((a \o b) \o <<x>>, ys \o <<x>>)
  BY <1>1, <1>3, FitsAppend, Zenon
<1>5. Append(b, x) = b \o <<x>> /\ Append(b, x) \in Seq(Fields)
  BY <1>1, AppendIsConcat, AppendProperties
<1>6. (a \o b) \o <<x>> = a \o (b \o <<x>>)
  <2>1. a \in Seq(U)
    BY <1>2
  <2>2. b \in Seq(U)
    BY <1>2
  <2>3. <<x>> \in Seq(U)
    BY <1>1
  <2> QED BY ONLY <2>1, <2>2, <2>3, ConcatAssociative, SMTT(40)
<1> QED BY <1>4, <1>5, <1>6, Zenon

\* The fields that are hidden when one is kept, or at the end.
LEMMA FlushedFits ==
  ASSUME NodeFacts, NEW a \in Seq(Made), NEW b \in Seq(Fields), NEW ys \in Seq(Items), Fits(a \o b, ys)
  PROVE  Fits(a \o Compacted(b), ys) /\ a \o Compacted(b) \in Seq(Made)
<1> DEFINE c == Compacted(b)
<1>1. c \in Seq(Made) /\ Fits(c, b)
  BY CompactedFits
<1>2. Laid(AllItems, Terms) /\ a \in Seq(AllItems) /\ b \in Seq(AllItems) /\ c \in Seq(AllItems)
      /\ ys \in Seq(AllItems)
  BY <1>1, ItemSets
<1> HIDE DEF c
<1>3. Fits(a \o c, ys)
  BY <1>1, <1>2, FitsReplace
<1>4. a \o c \in Seq(Made)
  BY <1>1, ConcatProperties
<1> QED BY <1>3, <1>4 DEF c

\* A field that is kept.
LEMMA KeptFits ==
  ASSUME NodeFacts, NEW a \in Seq(Made), NEW b \in Seq(Fields), NEW ys \in Seq(Items),
         Fits(a \o b, ys), NEW x \in Items, NEW y \in Copies(x)
  PROVE  /\ Fits((a \o Compacted(b) \o <<y>>) \o <<>>, ys \o <<x>>)
         /\ a \o Compacted(b) \o <<y>> \in Seq(Made)
<1> DEFINE c == a \o Compacted(b)
<1>1. Fits(c, ys) /\ c \in Seq(Made)
  BY FlushedFits
<1>2. Laid(AllItems, Terms) /\ c \in Seq(AllItems) /\ ys \in Seq(AllItems)
  BY <1>1, ItemSets
<1>3. y \in Made /\ y \in AllItems /\ Alike(y, x) /\ x \in AllItems
  BY CopyAlike
<1> HIDE DEF c
<1>4. Fits(c \o <<y>>, ys \o <<x>>)
  BY <1>1, <1>2, <1>3, FitsAppend
<1>5. c \o <<y>> \in Seq(Made)
  <2>1. <<y>> \in Seq(Made)
    BY <1>3
  <2> QED BY <1>1, <2>1, ConcatProperties
<1>6. (c \o <<y>>) \o <<>> = c \o <<y>>
  BY <1>5, ConcatEmptySeq
<1> QED BY <1>4, <1>5, <1>6 DEF c

\* SelfReplacerVisitor moves nothing.
LEMMA ReplacedFits ==
  ASSUME NodeFacts, NEW a \in Seq(Made), NEW ys \in Seq(Items), Fits(a, ys)
  PROVE  Fits(ReplacedItems(a), ys) /\ ReplacedItems(a) \in Seq(AllMade)
<1> DEFINE r == ReplacedItems(a)
<1>1. Len(a) \in Nat /\ DOMAIN a = 1..Len(a) /\ \A k \in 1..Len(a) : a[k] \in Made
  BY LenProperties, ElementOfSeq
<1>2. r = [k \in 1..Len(a) |-> ReplacedItem(a[k])]
  BY <1>1 DEF ReplacedItems
<1>3. \A k \in 1..Len(a) : ReplacedItem(a[k]) \in AllMade
  BY <1>1 DEF AllMade
<1>4. r \in Seq(AllMade)
  BY <1>1, <1>2, <1>3, IsASeq
<1>5. Len(r) = Len(a) /\ \A k \in 1..Len(a) : r[k] = ReplacedItem(a[k])
  BY <1>1, <1>2, <1>4, LenProperties
<1> HIDE DEF r
<1>6. \A k \in 1..Len(a) : Alike(r[k], a[k])
  BY <1>1, <1>5, ItemLayoutType
<1>7. r \in Seq(AllItems) /\ a \in Seq(AllItems) /\ ys \in Seq(AllItems)
  BY <1>4, ItemSets
<1>8. Fits(r, ys)
  BY <1>5, <1>6, <1>7, FitsAlike
<1> QED BY <1>4, <1>8 DEF r

--------------------------------------------------------------------------------
(***************************************************************************)
(* The invariant.  SameLayout alone is not inductive: it says nothing of   *)
(* where the fields that are not yet hidden start, and some of them are    *)
(* copied, when their length turns out to be unknown.                      *)
(***************************************************************************)
LayoutInv ==
    /\ unit \in Seq(Items) /\ n \in 1..(Len(unit) + 1)
    /\ unit_items \in Seq(AllMade) /\ compactable \in Seq(Fields)
    /\ unit_decls = <<>> => unit_items \in Seq(Made)
    /\ unit_decls # <<>> => n = Len(unit) + 1 /\ compactable = <<>> /\ unit_decls = <<unit_items>>
    /\ Fits(unit_items \o compactable, SubSeq(unit, 1, n - 1))

\* It holds of a generator that has visited nothing.
LEMMA LayoutInvInit ==
  unit \in Seq(Items) /\ Init => LayoutInv
<1> SUFFICES ASSUME unit \in Seq(Items), Init PROVE LayoutInv
  OBVIOUS
<1>1. <<>> \in Seq(AllMade) /\ <<>> \in Seq(Fields) /\ <<>> \in Seq(Made) /\ Len(<<>>) = 0 /\ <<>> \o <<>> = <<>>
  BY EmptySeq, ConcatEmptySeq
<1>2. SubSeq(unit, 1, 1 - 1) = <<>>
  BY SubSeqEmpty
<1>3. Fits(<<>>, <<>>)
  BY <1>1 DEF Fits
<1>4. 1 \in 1..(Len(unit) + 1)
  BY LenProperties
<1> QED BY <1>1, <1>2, <1>3, <1>4, Zenon DEF LayoutInv, Init

\* Every visit, and the declaration of the compact unit, keeps it.
LEMMA LayoutInvNext ==
  ASSUME NodeFacts, LayoutInv, [Next]_vars
  PROVE  LayoutInv'
<1> DEFINE pre == SubSeq(unit, 1, n - 1)
<1>0. /\ unit \in Seq(Items) /\ n \in 1..(Len(unit) + 1) /\ Len(unit) \in Nat
      /\ compactable \in Seq(Fields) /\ Fits(unit_items \o compactable, pre)
  BY LenProperties DEF LayoutInv
<1>1. pre \in Seq(Items)
  <2>1. \A i \in 1..(n-1) : unit[i] \in Items
    BY <1>0, ElementOfSeq
  <2> QED BY <1>0, <2>1, SubSeqProperties
<1>2. ASSUME NEW x, Visit(x)
      PROVE  /\ x \in Items /\ unit' = unit /\ unit_decls' = unit_decls /\ unit_decls = <<>>
             /\ n' \in 1..(Len(unit) + 1) /\ SubSeq(unit, 1, n' - 1) = pre \o <<x>>
             /\ unit_items \in Seq(Made)
             /\ CopyItem(x) \in Copies(x) /\ Clone(x) \in Copies(x)
  <2>1. n <= Len(unit) /\ x = unit[n] /\ n' = n + 1 /\ unit' = unit /\ unit_decls' = unit_decls
    BY <1>2 DEF Visit
  <2>2. x \in Items
    <3>1. n \in 1..Len(unit)
      BY <1>0, <2>1
    <3> QED BY <1>0, <2>1, <3>1, ElementOfSeq
  <2>3. unit_decls = <<>> /\ unit_items \in Seq(Made)
    BY <1>0, <2>1 DEF LayoutInv
  <2>4. n' - 1 = (n - 1) + 1 /\ n - 1 \in Nat /\ (n - 1) + 1 <= Len(unit) /\ (n - 1) + 1 = n
    BY <1>0, <2>1
  <2>5. SubSeq(unit, 1, (n - 1) + 1) = pre \o <<unit[(n - 1) + 1]>>
    BY <1>0, <2>4, OneLonger
  <2>6. SubSeq(unit, 1, n' - 1) = pre \o <<x>>
    BY <2>1, <2>4, <2>5, Zenon
  <2>7. CopyItem(x) \in Copies(x) /\ Clone(x) \in Copies(x)
    BY DEF CopyItem, Copies
  <2>8. n' \in 1..(Len(unit) + 1)
    BY <1>0, <2>1
  <2> QED BY <2>1, <2>2, <2>3, <2>6, <2>7, <2>8, Zenon
<1>3. Seq(Made) \subseteq Seq(AllMade)
  BY ItemSets
<1>e. <<>> \in Seq(Fields)
  BY EmptySeq
<1> HIDE DEF pre
<1>4. ASSUME NEW x, KeepItem(x) PROVE LayoutInv'
  <2>1. Visit(x) /\ unit_items' = unit_items \o Compacted(compactable) \o <<CopyItem(x)>> /\ compactable' = <<>>
    BY <1>4 DEF KeepItem
  <2>2. Fits(unit_items' \o compactable', pre \o <<x>>) /\ unit_items' \in Seq(Made)
    BY <1>0, <1>1, <1>2, <2>1, KeptFits
  <2> QED BY <1>0, <1>2, <1>3, <1>e, <2>1, <2>2, Zenon DEF LayoutInv
<1>5. ASSUME NEW x, NEW y \in Copies(x), Visit(x), ~IsField(x),
             unit_items' = Append(unit_items, y), UNCHANGED compactable
      PROVE  LayoutInv'
  <2>1. x \in Items /\ unit_items \in Seq(Made)
    BY <1>2, <1>5, Zenon
  <2>2. y \in Made
    BY <2>1, CopyAlike
  <2>3. unit_items' = unit_items \o <<y>> /\ unit_items' \in Seq(Made)
    BY <1>5, <2>1, <2>2, AppendIsConcat, AppendProperties
  <2>4. Fits((unit_items \o <<y>>) \o compactable, pre \o <<x>>)
    BY <1>0, <1>1, <1>5, <2>1, KeptVariableFits
  <2>5. Fits(unit_items' \o compactable', pre \o <<x>>)
    BY <1>5, <2>3, <2>4, Zenon
  <2> QED BY <1>0, <1>2, <1>3, <1>5, <2>3, <2>5, Zenon DEF LayoutInv
<1>6. ASSUME NEW x, KeepVariable(x) PROVE LayoutInv'
  <2>1. ~IsField(x)
    BY <1>6 DEF KeepVariable, IsField
  <2> QED BY <1>2, <1>5, <1>6, <2>1, Zenon DEF KeepVariable
<1>7. ASSUME NEW x, CompactField(x) PROVE LayoutInv'
  <2>1. Visit(x) /\ IsField(x) /\ compactable' = Append(compactable, x) /\ unit_items' = unit_items
    BY <1>7 DEF CompactField
  <2>2. Fits(unit_items' \o compactable', pre \o <<x>>) /\ compactable' \in Seq(Fields)
    BY <1>0, <1>1, <1>2, <2>1, CompactableFits
  <2> QED BY <1>0, <1>2, <1>3, <2>1, <2>2, Zenon DEF LayoutInv
<1>8. ASSUME NEW x, DropVariable(x) PROVE LayoutInv'
  <2>1. Visit(x) /\ ~IsField(x) /\ compactable' = compactable /\ unit_items' = unit_items
    BY <1>8 DEF DropVariable, IsField
  <2>2. Fits(unit_items' \o compactable', pre \o <<x>>)
    BY <1>0, <1>1, <1>2, <2>1, DroppedFits
  <2> QED BY <1>0, <1>2, <1>3, <2>1, <2>2, Zenon DEF LayoutInv
<1>9. ASSUME NEW x, CopyProperty(x) PROVE LayoutInv'
  <2>1. ~IsField(x)
    BY <1>9 DEF CopyProperty, IsField
  <2> QED BY <1>2, <1>5, <1>9, <2>1, Zenon DEF CopyProperty
<1>10. ASSUME Declare PROVE LayoutInv'
  <2>1. /\ n > Len(unit) /\ unit_decls = <<>> /\ compactable' = <<>>
        /\ unit_items' = ReplacedItems(unit_items \o Compacted(compactable))
        /\ unit_decls' = <<unit_items'>> /\ unit' = unit /\ n' = n
    BY <1>10 DEF Declare
  <2>2. unit_items \in Seq(Made) /\ n = Len(unit) + 1
    BY <1>0, <2>1 DEF LayoutInv
  <2>3. Fits(unit_items \o Compacted(compactable), pre) /\ unit_items \o Compacted(compactable) \in Seq(Made)
    BY <1>0, <1>1, <2>2, FlushedFits
  <2>4. Fits(unit_items', pre) /\ unit_items' \in Seq(AllMade)
    BY <1>1, <2>1, <2>3, ReplacedFits, Zenon
  <2>5. unit_items' \o <<>> = unit_items'
    BY <2>4, ConcatEmptySeq
  <2>6. unit_decls' # <<>>
    BY <2>1
  <2>7. Fits(unit_items' \o compactable', SubSeq(unit', 1, n' - 1))
    BY <2>1, <2>4, <2>5 DEF pre
  <2> QED BY <1>0, <1>e, <2>1, <2>2, <2>4, <2>6, <2>7 DEF LayoutInv
<1>11. ASSUME UNCHANGED vars PROVE LayoutInv'
  BY <1>11, Zenon DEF LayoutInv, vars, Fits, StartsAsIn
<1> QED BY <1>4, <1>6, <1>7, <1>8, <1>9, <1>10, <1>11 DEF Next

\* What the invariant says of the items taken, and of the compact unit.
LEMMA LayoutInvImplies ==
  ASSUME LayoutInv
  PROVE  SameLayout /\ (unit_decls # <<>> => Fits(unit_decls[1], unit))
<1> DEFINE pre == SubSeq(unit, 1, n - 1)
           all == unit_items \o compactable
           W == AllMade \cup Fields
<1>0. /\ unit \in Seq(Items) /\ n \in 1..(Len(unit) + 1) /\ Len(unit) \in Nat /\ Fits(all, pre)
      /\ unit_items \in Seq(W) /\ compactable \in Seq(W)
  <2>1. Seq(AllMade) \subseteq Seq(W) /\ Seq(Fields) \subseteq Seq(W)
    <3>1. ASSUME NEW A, NEW B, A \subseteq B PROVE Seq(A) \subseteq Seq(B)
      BY <3>1
    <3>2. AllMade \subseteq W /\ Fields \subseteq W
      OBVIOUS
    <3> HIDE DEF W
    <3> QED BY <3>1, <3>2
  <2> QED BY <2>1, LenProperties DEF LayoutInv
<1>1. \A i \in 1..(n-1) : unit[i] \in Items
  BY <1>0, ElementOfSeq
<1>2. pre \in Seq(Items) /\ Len(pre) = n - 1 /\ \A i \in 1..(n-1) : pre[i] = unit[i]
  BY <1>0, <1>1, SubSeqProperties
<1>3. ASSUME NEW j \in DOMAIN unit_items, IsField(unit_items[j]) /\ unit_items[j].id # "__anon"
      PROVE  StartsAsIn(unit_items, j, unit, n - 1)
  <2>1. j \in 1..Len(unit_items)
    BY <1>0, LenProperties
  <2>2. SubSeq(all, 1, j - 1) = SubSeq(unit_items, 1, j - 1) /\ all[j] = unit_items[j]
    BY <1>0, <2>1, FirstPart
  <2>3. j \in 1..Len(all)
    BY <1>0, <2>1, ConcatProperties, LenProperties
  <2>4. PICK p \in 1..Len(pre) : /\ IsField(pre[p]) /\ pre[p].id = all[j].id
                                 /\ Layout(SubSeq(all, 1, j - 1)) = Layout(SubSeq(pre, 1, p - 1))
    BY <1>0, <1>3, <2>2, <2>3, Zenon DEF Fits, Kept, StartsAsIn
  <2>5. SubSeq(pre, 1, p - 1) = SubSeq(unit, 1, p - 1)
    <3> DEFINE rest == SubSeq(unit, (n - 1) + 1, Len(unit))
    <3>1. unit = pre \o rest
      <4>1. SubSeq(unit, 1, Len(unit)) = unit
        BY <1>0, SubSeqFull
      <4>2. 1 \in 1..(Len(unit) + 1) /\ n - 1 \in (1-1)..Len(unit) /\ Len(unit) \in (n-1)..Len(unit)
        BY <1>0
      <4>3. pre \o rest = SubSeq(unit, 1, Len(unit))
        BY <1>0, <4>2, ConcatAdjacentSubSeq, Zenon
      <4> QED BY <4>1, <4>3, Zenon
    <3>2. rest \in Seq(Items)
      <4>1. \A i \in ((n-1)+1)..Len(unit) : unit[i] \in Items
        BY <1>0, ElementOfSeq
      <4> QED BY <1>0, <4>1, SubSeqProperties
    <3> HIDE DEF pre, rest
    <3>3. SubSeq(pre \o rest, 1, p - 1) = SubSeq(pre, 1, p - 1)
      BY <1>2, <3>2, FirstPart
    <3> QED BY <3>1, <3>3
  <2>6. p \in 1..(n-1) /\ pre[p] = unit[p]
    BY <1>2
  <2> HIDE DEF pre, all
  <2>7. IsField(unit[p]) /\ unit[p].id = unit_items[j].id
        /\ Layout(SubSeq(unit_items, 1, j - 1)) = Layout(SubSeq(unit, 1, p - 1))
    BY <2>2, <2>4, <2>5, <2>6, Zenon
  <2> QED BY <2>6, <2>7, Zenon DEF StartsAsIn
<1>4. SameLayout
  BY <1>0, <1>3 DEF SameLayout, Fits
<1>5. ASSUME unit_decls # <<>> PROVE Fits(unit_decls[1], unit)
  <2>1. n = Len(unit) + 1 /\ compactable = <<>> /\ unit_decls[1] = unit_items
    BY <1>5 DEF LayoutInv
  <2>2. pre = unit
    <3>1. n - 1 = Len(unit)
      BY <1>0, <2>1
    <3> QED BY <1>0, <3>1, SubSeqFull
  <2>3. all = unit_items
    BY <1>0, <2>1, ConcatEmptySeq
  <2> QED BY <1>0, <2>1, <2>2, <2>3, Zenon
<1> QED BY <1>4, <1>5

\* InstantiationTypeGenerator::visit(Item) and compactAndAddItems move no field,
\* for every unit and whatever is needed of it: the items taken and the fields
\* not yet hidden take the bytes the visited items take, and a field that is
\* kept starts where it starts in the unit.
THEOREM LayoutCorrect ==
  ASSUME NodeFacts
  PROVE  Spec => []SameLayout
<1>1. unit \in Seq(Items) /\ Init => LayoutInv
  BY LayoutInvInit
<1>2. LayoutInv /\ [Next]_vars => LayoutInv'
  BY LayoutInvNext
<1>3. LayoutInv => SameLayout
  BY LayoutInvImplies
<1> QED BY <1>1, <1>2, <1>3, PTL DEF Spec

\* The compact unit that is declared parses the same bytes as the unit it stands
\* for, and finds each field that it keeps where the unit has it.
THEOREM CompactUnitFits ==
  ASSUME NodeFacts
  PROVE  Spec => [](unit_decls # <<>> => Fits(unit_decls[1], unit))
<1>1. unit \in Seq(Items) /\ Init => LayoutInv
  BY LayoutInvInit
<1>2. LayoutInv /\ [Next]_vars => LayoutInv'
  BY LayoutInvNext
<1>3. LayoutInv => (unit_decls # <<>> => Fits(unit_decls[1], unit))
  BY LayoutInvImplies
<1> QED BY <1>1, <1>2, <1>3, PTL DEF Spec

--------------------------------------------------------------------------------
(***************************************************************************)
(* What is needed is kept, in the order of the unit: what parse() reads of *)
(* an item has then been parsed, if it was before the item in the unit.    *)
(***************************************************************************)
Wanted(x) == ItemContext(x) # {} \/ x.kind = "property"
CopyOf(x) == IF ItemContext(x) # {} THEN CopyItem(x) ELSE Clone(x)
Final(y) == IF unit_decls = <<>> THEN y ELSE ReplacedItem(y)

\* at says where the items wanted among those visited are.
Positions == {p \in 1..(n-1) : Wanted(unit[p])}
Placed(at) ==
    /\ at \in [Positions -> 1..Len(unit_items)]
    /\ \A p \in Positions : unit_items[at[p]] = Final(CopyOf(unit[p]))
    /\ \A p, q \in Positions : p < q => at[p] < at[q]
InOrder == \E at : Placed(at)

\* A visit that appends nothing for an item that is not wanted, or its copy.
LEMMA VisitInOrder ==
  ASSUME NodeFacts, LayoutInv, InOrder, NEW x, Visit(x), NEW zs \in Seq(Made),
         \/ ~Wanted(x) /\ unit_items' = unit_items
         \/ Wanted(x) /\ unit_items' = unit_items \o zs \o <<CopyOf(x)>>
  PROVE  InOrder'
<1>0. /\ n \in Nat \ {0} /\ Len(unit) \in Nat /\ n' = n + 1 /\ unit' = unit /\ x = unit[n] /\ x \in Items
      /\ deps' = deps /\ unit_decls' = unit_decls /\ unit_decls = <<>> /\ unit_items \in Seq(Made)
  <2>1. n <= Len(unit) /\ x = unit[n] /\ n' = n + 1 /\ unit' = unit /\ unit_decls' = unit_decls /\ deps' = deps
    BY DEF Visit
  <2>2. unit \in Seq(Items) /\ n \in 1..(Len(unit) + 1) /\ Len(unit) \in Nat
    BY LenProperties DEF LayoutInv
  <2>3. unit_decls = <<>> /\ unit_items \in Seq(Made)
    BY <2>1, <2>2 DEF LayoutInv
  <2>4. x \in Items
    <3>1. n \in 1..Len(unit)
      BY <2>1, <2>2
    <3> QED BY <2>1, <2>2, <3>1, ElementOfSeq
  <2> QED BY <2>1, <2>2, <2>3, <2>4
<1>1. PICK at : Placed(at)
  BY DEF InOrder
<1>2. \A p : Wanted(unit[p])' = Wanted(unit[p]) /\ Final(CopyOf(unit[p]))' = CopyOf(unit[p])
             /\ Final(CopyOf(unit[p])) = CopyOf(unit[p])
  BY <1>0 DEF Wanted, CopyOf, CopyItem, ItemContext, Context, Final
<1>3. Len(unit_items) \in Nat /\ at \in [Positions -> 1..Len(unit_items)]
      /\ \A p \in Positions : p \in 1..(n-1) /\ at[p] \in 1..Len(unit_items)
  BY <1>0, <1>1, LenProperties DEF Placed, Positions
<1>4. CASE ~Wanted(x) /\ unit_items' = unit_items
  <2>1. Positions' = Positions
    <3>1. \A p \in 1..n : p \in 1..(n-1) \/ p = n
      BY <1>0
    <3>2. 1..(n'-1) = 1..n /\ 1..(n-1) \subseteq 1..n
      BY <1>0
    <3> QED BY <1>0, <1>2, <1>4, <3>1, <3>2 DEF Positions
  <2>2. Placed(at)'
    BY <1>0, <1>1, <1>2, <1>4, <2>1 DEF Placed
  <2> QED BY <2>2 DEF InOrder
<1>5. CASE Wanted(x) /\ unit_items' = unit_items \o zs \o <<CopyOf(x)>>
  <2> DEFINE L == Len(unit_items')
             now == [p \in Positions' |-> IF p = n THEN L ELSE at[p]]
  <2>1. L \in Nat /\ Len(unit_items) < L /\ unit_items'[L] = CopyOf(x)
        /\ \A k \in 1..Len(unit_items) : unit_items'[k] = unit_items[k]
    <3> DEFINE y == CopyOf(x)
               ab == unit_items \o zs
    <3>1. y \in Made
      <4>1. y \in Copies(x)
        BY DEF CopyOf, CopyItem, Copies
      <4> QED BY <1>0, <4>1, CopyAlike
    <3> HIDE DEF y
    <3>2. ab \in Seq(Made) /\ Len(ab) = Len(unit_items) + Len(zs) /\ Len(zs) \in Nat
          /\ \A k \in 1..Len(unit_items) : ab[k] = unit_items[k]
      BY <1>0, <1>3, ConcatProperties, LenProperties
    <3> HIDE DEF ab
    <3>3. Append(ab, y) = ab \o <<y>>
      BY <3>1, <3>2, AppendIsConcat
    <3>4. unit_items' = Append(ab, y)
      BY <1>5, <3>3 DEF ab, y
    <3>5. L = Len(ab) + 1 /\ unit_items'[Len(ab) + 1] = y /\ \A k \in 1..Len(ab) : unit_items'[k] = ab[k]
      BY <3>1, <3>2, <3>4, AppendProperties
    <3> HIDE DEF L
    <3>6. L \in Nat /\ Len(unit_items) < L /\ 1..Len(unit_items) \subseteq 1..Len(ab)
      BY <1>3, <3>2, <3>5
    <3> QED BY <3>2, <3>5, <3>6 DEF y
  <2> HIDE DEF L
  <2>2. \A p \in Positions' : p # n => p \in Positions /\ p < n
    <3>1. \A p \in 1..(n'-1) : p # n => p \in 1..(n-1) /\ p < n
      BY <1>0
    <3> QED BY <1>2, <3>1 DEF Positions
  <2>3. now \in [Positions' -> 1..L]
    <3>1. ASSUME NEW p \in Positions' PROVE (IF p = n THEN L ELSE at[p]) \in 1..L
      <4>1. CASE p = n
        BY <1>3, <2>1, <4>1
      <4>2. CASE p # n
        <5>1. at[p] \in 1..Len(unit_items)
          BY <1>3, <2>2, <4>2
        <5> QED BY <1>3, <2>1, <4>2, <5>1
      <4> QED BY <4>1, <4>2
    <3> QED BY <3>1
  <2>4. ASSUME NEW p \in Positions' PROVE unit_items'[now[p]] = Final(CopyOf(unit[p]))'
    <3>1. CASE p = n
      BY <1>0, <1>2, <2>1, <3>1
    <3>2. CASE p # n
      <4>1. p \in Positions /\ now[p] = at[p] /\ at[p] \in 1..Len(unit_items)
        BY <1>3, <2>2, <3>2
      <4>2. unit_items[at[p]] = CopyOf(unit[p])
        BY <1>1, <1>2, <4>1 DEF Placed
      <4> HIDE DEF now
      <4> QED BY <1>2, <2>1, <4>1, <4>2
    <3> QED BY <3>1, <3>2
  <2>5. ASSUME NEW p \in Positions', NEW q \in Positions', p < q PROVE now[p] < now[q]
    <3>0. \A r \in Positions' : r \in 1..n
      BY <1>0 DEF Positions
    <3>1. p # n /\ p \in Positions
      BY <1>0, <2>2, <2>5, <3>0
    <3>2. now[p] = at[p] /\ at[p] \in 1..Len(unit_items)
      BY <1>3, <3>1
    <3>3. CASE q = n
      <4>1. now[q] = L
        BY <3>3
      <4> HIDE DEF now
      <4> QED BY <1>3, <2>1, <3>2, <4>1
    <3>4. CASE q # n
      <4>1. q \in Positions /\ now[q] = at[q]
        BY <2>2, <3>4
      <4>2. at[p] < at[q]
        BY <1>1, <2>5, <3>1, <4>1 DEF Placed
      <4> HIDE DEF now
      <4> QED BY <3>2, <4>1, <4>2
    <3> QED BY <3>3, <3>4
  <2> HIDE DEF now
  <2>6. PICK at1 : at1 = now
    OBVIOUS
  <2>7. Placed(at1)'
    BY <2>3, <2>4, <2>5, <2>6 DEF Placed, L
  <2> QED BY <2>7 DEF InOrder
<1> QED BY <1>4, <1>5

\* SelfReplacerVisitor goes over all items, when there is nothing left to visit.
LEMMA DeclareInOrder ==
  ASSUME NodeFacts, LayoutInv, InOrder, Declare
  PROVE  InOrder'
<1> DEFINE all == unit_items \o Compacted(compactable)
<1>0. /\ n' = n /\ unit' = unit /\ deps' = deps /\ unit_decls = <<>> /\ unit_decls' # <<>>
      /\ unit_items' = ReplacedItems(all) /\ unit_items \in Seq(Made)
  BY DEF Declare, LayoutInv
<1>1. all \in Seq(Made) /\ Compacted(compactable) \in Seq(Made)
  <2>1. Compacted(compactable) \in Seq(Made)
    BY CompactedFits DEF LayoutInv
  <2> QED BY <1>0, <2>1, ConcatProperties
<1>2. PICK at : Placed(at)
  BY DEF InOrder
<1>3. /\ Len(unit_items) \in Nat /\ Len(all) \in Nat /\ 1..Len(unit_items) \subseteq 1..Len(all)
      /\ \A k \in 1..Len(unit_items) : all[k] = unit_items[k]
  BY <1>0, <1>1, ConcatProperties, LenProperties
<1> HIDE DEF all
<1>4. /\ Len(unit_items') = Len(all)
      /\ \A k \in 1..Len(unit_items) : unit_items'[k] = ReplacedItem(unit_items[k])
  <2>1. DOMAIN all = 1..Len(all)
    BY <1>1, LenProperties
  <2>2. unit_items' = [k \in 1..Len(all) |-> ReplacedItem(all[k])]
    BY <1>0, <2>1 DEF ReplacedItems
  <2>3. Len(unit_items') = Len(all)
    BY <1>3, <2>2
  <2> QED BY <1>3, <2>2, <2>3
<1>5. Positions' = Positions
  BY <1>0 DEF Positions, Wanted, ItemContext, Context
<1>6. \A p : Final(CopyOf(unit[p]))' = ReplacedItem(Final(CopyOf(unit[p])))
  BY <1>0 DEF CopyOf, CopyItem, ItemContext, Context, Final
<1>7. \A p \in Positions : at[p] \in 1..Len(unit_items) /\ at[p] \in 1..Len(all)
  BY <1>2, <1>3 DEF Placed
<1>8. at \in [Positions -> 1..Len(all)]
  BY <1>2, <1>3 DEF Placed
<1>9. \A p \in Positions : unit_items'[at[p]] = Final(CopyOf(unit[p]))'
  BY <1>2, <1>4, <1>6, <1>7 DEF Placed
<1>10. Placed(at)'
  BY <1>2, <1>4, <1>5, <1>8, <1>9 DEF Placed
<1> QED BY <1>10 DEF InOrder

\* Every item the dependencies name, and every property, is in the compact unit,
\* in the order of the unit, however many fields between them were hidden.
THEOREM NeededKept ==
  ASSUME NodeFacts
  PROVE  Spec => []InOrder
<1>1. unit \in Seq(Items) /\ Init => LayoutInv /\ InOrder
  <2> SUFFICES ASSUME unit \in Seq(Items), Init PROVE InOrder
    BY LayoutInvInit
  <2>1. Positions = {}
    BY DEF Init, Positions
  <2>2. PICK at : at = [p \in {} |-> 0]
    OBVIOUS
  <2>3. Placed(at)
    BY <2>1, <2>2 DEF Placed
  <2> QED BY <2>3 DEF InOrder
<1>2. LayoutInv /\ InOrder /\ [Next]_vars => LayoutInv' /\ InOrder'
  <2> SUFFICES ASSUME LayoutInv, InOrder, [Next]_vars PROVE InOrder'
    BY LayoutInvNext
  <2>0. <<>> \in Seq(Made) /\ (unit_decls = <<>> => unit_items \in Seq(Made)) /\ compactable \in Seq(Fields)
    BY DEF LayoutInv
  <2>1. ASSUME NEW x, KeepItem(x) PROVE InOrder'
    <3>1. Compacted(compactable) \in Seq(Made)
      BY <2>0, CompactedFits
    <3>2. Visit(x) /\ Wanted(x) /\ unit_items' = unit_items \o Compacted(compactable) \o <<CopyOf(x)>>
      BY <2>1 DEF KeepItem, Wanted, CopyOf
    <3> QED BY <3>1, <3>2, VisitInOrder
  <2>2. ASSUME NEW x, Visit(x), Wanted(x), unit_items' = Append(unit_items, CopyOf(x)) PROVE InOrder'
    <3>1. unit_items \in Seq(Made) /\ x \in Items
      <4>1. unit \in Seq(Items) /\ n \in 1..(Len(unit) + 1) /\ Len(unit) \in Nat /\ n <= Len(unit) /\ x = unit[n]
        BY <2>2, LenProperties DEF LayoutInv, Visit
      <4>2. n \in 1..Len(unit)
        BY <4>1
      <4>3. unit_items \in Seq(Made)
        BY <4>1 DEF LayoutInv
      <4> QED BY <4>1, <4>2, <4>3, ElementOfSeq
    <3>2. CopyOf(x) \in Made
      <4>1. CopyOf(x) \in Copies(x)
        BY DEF CopyOf, CopyItem, Copies
      <4> QED BY <3>1, <4>1, CopyAlike
    <3>3. unit_items' = unit_items \o <<CopyOf(x)>>
      BY <2>2, <3>1, <3>2, AppendIsConcat
    <3>4. unit_items \o <<>> = unit_items
      BY <3>1, ConcatEmptySeq
    <3>5. unit_items' = unit_items \o <<>> \o <<CopyOf(x)>>
      BY <3>3, <3>4, Zenon
    <3> QED BY <2>0, <2>2, <3>5, VisitInOrder
  <2>3. ASSUME NEW x, Visit(x), ~Wanted(x), unit_items' = unit_items PROVE InOrder'
    BY <2>0, <2>3, VisitInOrder
  <2>4. ASSUME NEW x, KeepVariable(x) PROVE InOrder'
    BY <2>2, <2>4 DEF KeepVariable, Wanted, CopyOf
  <2>5. ASSUME NEW x, CompactField(x) PROVE InOrder'
    BY <2>3, <2>5 DEF CompactField, Wanted, IsField
  <2>6. ASSUME NEW x, DropVariable(x) PROVE InOrder'
    BY <2>3, <2>6 DEF DropVariable, Wanted
  <2>7. ASSUME NEW x, CopyProperty(x) PROVE InOrder'
    BY <2>2, <2>7 DEF CopyProperty, Wanted, CopyOf
  <2>8. ASSUME Declare PROVE InOrder'
    BY <2>8, DeclareInOrder
  <2>9. ASSUME UNCHANGED vars PROVE InOrder'
    <3>1. unit' = unit /\ deps' = deps /\ unit_items' = unit_items /\ n' = n /\ unit_decls' = unit_decls
      BY <2>9 DEF vars
    <3>2. Positions' = Positions
      BY <3>1 DEF Positions, Wanted, ItemContext, Context
    <3>3. \A p : Final(CopyOf(unit[p]))' = Final(CopyOf(unit[p]))
      BY <3>1 DEF CopyOf, CopyItem, ItemContext, Context, Final
    <3> QED BY <3>1, <3>2, <3>3 DEF InOrder, Placed
  <2> QED BY <2>1, <2>4, <2>5, <2>6, <2>7, <2>8, <2>9 DEF Next
<1> QED BY <1>1, <1>2, PTL DEF Spec
================================================================================
