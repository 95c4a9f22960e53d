------------------------- MODULE ResumableParserProofs -------------------------
(***************************************************************************)
(* Proofs about ResumableParser, for every stream, way of cutting it into  *)
(* calls, area and stack size, and every unit that satisfies NarrowRanges: *)
(* every unit whose lengths of hidden bytes items are constants, members   *)
(* narrower than 8 bytes, or computed as 4-byte unsigned integers.         *)
(***************************************************************************)
EXTENDS ResumableParser, TLAPS

\* v gives integer values at least to the members written before label i.
Covers(v, i) == Numbers(v) /\ Defined[i] \subseteq DOMAIN v

\* An unsigned integer has positively many values, and one narrower than size_t
\* has at most half as many as size_t.
LEMMA ModulusType ==
    /\ \A w \in Widths : Modulus(w) \in Nat /\ Modulus(w) > 0
    /\ \A w \in Widths : w < 8 => 2 * Modulus(w) <= Modulus(8)
    /\ Modulus(1) = Base
    /\ Modulus(2) = Base * Modulus(1)
    /\ Modulus(4) = Base * (Base * Modulus(2))
    /\ Modulus(8) = Base * (Base * (Base * (Base * Modulus(4))))
<1> DEFINE m1 == Base
           m2 == Base * Base
           m4 == m2 * m2
           m8 == m4 * m4
<1>1. Modulus(1) = m1 /\ Modulus(2) = m2 /\ Modulus(4) = m4 /\ Modulus(8) = m8
  BY DEF Modulus
<1>2. \A x \in Nat : x > 1 => x * x \in Nat /\ x * x > 1 /\ 2 * x <= x * x
  OBVIOUS
<1>3. m1 \in Nat /\ m1 > 1
  BY BaseAssumption
<1>4. m2 \in Nat /\ m2 > 1 /\ 2 * m1 <= m2
  BY <1>2, <1>3
<1> HIDE DEF m2
<1>5. m4 \in Nat /\ m4 > 1 /\ 2 * m2 <= m4
  BY <1>2, <1>4
<1> HIDE DEF m4
<1>6. m8 \in Nat /\ m8 > 1 /\ 2 * m4 <= m8
  BY <1>2, <1>5
<1> HIDE DEF m8
<1>7. \A x, y, z \in Nat : (x * y) * z = x * (y * z)
  OBVIOUS
<1>8. m4 = Base * (Base * m2)
  <2>1. m4 = (Base * Base) * m2
    BY DEF m4, m2
  <2> QED BY <2>1, <1>3, <1>4, <1>7
<1>9. m8 = Base * (Base * (Base * (Base * m4)))
  <2>1. m8 = m4 * m4
    BY DEF m8
  <2>2. Base * (Base * m2) * m4 = Base * ((Base * m2) * m4)
    BY <1>3, <1>4, <1>5, <1>7
  <2>3. (Base * m2) * m4 = Base * (m2 * m4)
    BY <1>3, <1>4, <1>5, <1>7
  <2>4. m2 * m4 = Base * (Base * m4)
    BY <1>3, <1>5, <1>7 DEF m2
  <2> QED BY <2>1, <2>2, <2>3, <2>4, <1>8
<1>10. \A w \in Widths : Modulus(w) \in Nat /\ Modulus(w) > 0
  BY <1>1, <1>3, <1>4, <1>5, <1>6 DEF Widths
<1>11. \A w \in Widths : w < 8 => 2 * Modulus(w) <= Modulus(8)
  BY <1>1, <1>3, <1>4, <1>5, <1>6 DEF Widths
<1> QED BY <1>1, <1>8, <1>9, <1>10, <1>11 DEF m2

\* A member of w bytes holds a value of w bytes, whatever is assigned to it.
LEMMA TruncatedType ==
    ASSUME NEW n \in Int, NEW w \in Widths
    PROVE  Truncated(n, w) \in Nat /\ Truncated(n, w) < Modulus(w)
<1> DEFINE m == Modulus(w)
<1>1. m \in Nat /\ m > 0
  BY ModulusType
<1> HIDE DEF m
<1>2. n % m \in Nat /\ n % m < m
  BY <1>1
<1> QED BY <1>2 DEF Truncated, m

\* The members an expression reads are integer members that are written.
LEMMA ReadsType ==
    ASSUME NEW i \in Labels, NEW v, Covers(v, i), Program[i].op # "int",
           NEW m \in Reads(Program[i].expr)
    PROVE  /\ v[m] \in Nat /\ WidthOf[m] \in Widths /\ v[m] < Modulus(WidthOf[m])
           /\ WidthOf[m] = Program[m].width
<1>1. m \in DOMAIN v /\ m \in DOMAIN WidthOf
  BY ProgramAssumption DEF WellFormed, IsExpr, Covers, Numbers
<1>2. WidthOf[m] = Program[m].width /\ Program[m].width \in Widths
  BY <1>1, ProgramAssumption DEF WidthOf, WellFormed
<1> QED BY <1>1, <1>2 DEF Covers, Numbers

\* The wider of two widths is one of them.
LEMMA WiderType ==
    ASSUME NEW w \in Widths, NEW x \in Widths
    PROVE  Wider(w, x) \in Widths /\ Wider(w, x) >= w /\ Wider(w, x) >= x
           /\ Wider(w, x) \in {w, x}
BY DEF Wider, Widths

\* Arithmetic on integers gives an integer, and a natural number when it wraps.
LEMMA ArithType ==
    ASSUME NEW n \in Int, NEW w \in Widths
    PROVE  /\ Arith(n, w) \in Int
           /\ w >= 4 => Arith(n, w) \in Nat /\ Arith(n, w) < Modulus(w)
<1>1. Truncated(n, w) \in Nat /\ Truncated(n, w) < Modulus(w)
  BY TruncatedType
<1> QED BY <1>1 DEF Arith, Truncated, Widths

\* The value of `self.a - (self.b + self.c)': an integer, which has wrapped when
\* one of the operands is as wide as an int.
LEMMA RestType ==
    ASSUME NEW i \in Labels, NEW v, Covers(v, i), Program[i].op # "int",
           Program[i].expr.op = "rest"
    PROVE  /\ ExprOf(i, v) \in Int
           /\ \A w \in Widths :
                 /\ w >= 4
                 /\ \A m \in Reads(Program[i].expr) : WidthOf[m] <= w
                 /\ \E m \in Reads(Program[i].expr) : WidthOf[m] = w
                 => ExprOf(i, v) \in Nat /\ ExprOf(i, v) < Modulus(w)
<1> DEFINE e == Program[i].expr
           bc == Wider(WidthOf[e.b], WidthOf[e.c])
           abc == Wider(WidthOf[e.a], bc)
           s == Arith(v[e.b] + v[e.c], bc)
<1>1. Reads(e) = {e.a, e.b, e.c}
  BY DEF Reads
<1>2. /\ v[e.a] \in Nat /\ v[e.b] \in Nat /\ v[e.c] \in Nat
      /\ WidthOf[e.a] \in Widths /\ WidthOf[e.b] \in Widths /\ WidthOf[e.c] \in Widths
  BY <1>1, ReadsType
<1>3. bc \in Widths /\ abc \in Widths /\ bc \in {WidthOf[e.b], WidthOf[e.c]}
      /\ bc >= WidthOf[e.b] /\ bc >= WidthOf[e.c]
      /\ abc \in {WidthOf[e.a], bc} /\ abc >= WidthOf[e.a] /\ abc >= bc
  BY <1>2, WiderType
<1>4. ExprOf(i, v) = Arith(v[e.a] - s, abc)
  BY DEF ExprOf, Eval
<1> HIDE DEF e, bc, abc
<1>5. s \in Int
  BY <1>2, <1>3, ArithType
<1> HIDE DEF s
<1>6. v[e.a] - s \in Int
  BY <1>2, <1>5
<1>7. /\ ExprOf(i, v) \in Int
      /\ abc >= 4 => ExprOf(i, v) \in Nat /\ ExprOf(i, v) < Modulus(abc)
  BY <1>3, <1>4, <1>6, ArithType
<1>8. ASSUME NEW w \in Widths,
             \A m \in Reads(e) : WidthOf[m] <= w, \E m \in Reads(e) : WidthOf[m] = w
      PROVE  abc = w
  <2>1. WidthOf[e.a] <= w /\ WidthOf[e.b] <= w /\ WidthOf[e.c] <= w
        /\ (WidthOf[e.a] = w \/ WidthOf[e.b] = w \/ WidthOf[e.c] = w)
    BY <1>1, <1>8
  <2> QED BY <2>1, <1>2, <1>3 DEF Widths
<1> QED BY <1>7, <1>8 DEF e

\* An expression of a well-formed program, over members that are written, is an
\* integer, whatever the stream holds.
LEMMA ExprType ==
    ASSUME NEW i \in Labels, NEW v, Covers(v, i), Program[i].op # "int"
    PROVE  ExprOf(i, v) \in Int
<1> DEFINE e == Program[i].expr
<1>1. IsExpr(e, i)
  BY ProgramAssumption DEF WellFormed
<1>2. CASE e.op = "const"
  BY <1>1, <1>2 DEF IsExpr, Eval, ExprOf
<1>3. CASE e.op = "self"
  <2>1. e.a \in Reads(e)
    BY <1>3 DEF Reads
  <2>2. v[e.a] \in Nat
    BY <2>1, ReadsType
  <2> QED BY <1>3, <2>2 DEF Eval, ExprOf
<1>4. CASE e.op = "rest"
  BY <1>4, RestType
<1> QED BY <1>1, <1>2, <1>3, <1>4 DEF IsExpr

\* The len_ of a bytes item is a size_t.
LEMMA LenType ==
    ASSUME NEW i \in Labels, NEW v, Covers(v, i), Program[i].op \in {"bytes", "range"}
    PROVE  /\ ItemLen(i, v) \in Nat /\ ItemLen(i, v) < Modulus(8)
           /\ ItemLen(i, v) = SizeT(ExprOf(i, v))
<1>1. ExprOf(i, v) \in Int
  BY ExprType
<1>2. ItemLen(i, v) = SizeT(ExprOf(i, v))
  BY DEF ItemLen
<1>3. 8 \in Widths
  BY DEF Widths
<1> QED BY <1>1, <1>2, <1>3, TruncatedType DEF SizeT

\* A value of size_t stays what it is.
LEMMA SizeTSame ==
    ASSUME NEW n \in Nat, n < Modulus(8)
    PROVE  SizeT(n) = n
<1> DEFINE m == Modulus(8)
<1>1. m \in Nat /\ m > 0
  BY ModulusType DEF Widths
<1> HIDE DEF m
<1>2. n < m
  BY DEF m
<1>3. n % m = n
  BY <1>1, <1>2
<1> QED BY <1>3 DEF SizeT, Truncated, m

\* Under NarrowRanges, the cast of advance() leaves a length as it is.
LEMMA RangeLen ==
    ASSUME NarrowRanges, NEW i \in Labels, NEW v, Covers(v, i), Program[i].op = "range"
    PROVE  Signed(ItemLen(i, v)) = ItemLen(i, v)
<1> DEFINE e == Program[i].expr
           x == ExprOf(i, v)
<1>0. /\ e.op = "const" => 2 * e.val < Modulus(8)
      /\ \A m \in Reads(e) : Program[m].width < 8
      /\ e.op = "rest" => \E m \in Reads(e) : Program[m].width = 4
  BY DEF NarrowRanges
<1>1. IsExpr(e, i)
  BY ProgramAssumption DEF WellFormed
<1>m. Modulus(8) \in Nat /\ Modulus(4) \in Nat /\ 2 * Modulus(4) <= Modulus(8)
  BY ModulusType DEF Widths
<1>2. x \in Nat /\ 2 * x < Modulus(8)
  <2>1. CASE e.op = "const"
    BY <1>0, <1>1, <2>1 DEF IsExpr, Eval, ExprOf
  <2>2. CASE e.op = "self"
    <3>1. e.a \in Reads(e)
      BY <2>2 DEF Reads
    <3>2. v[e.a] \in Nat /\ WidthOf[e.a] \in Widths /\ v[e.a] < Modulus(WidthOf[e.a])
          /\ WidthOf[e.a] < 8
      BY <1>0, <3>1, ReadsType
    <3>3. 2 * Modulus(WidthOf[e.a]) <= Modulus(8) /\ Modulus(WidthOf[e.a]) \in Nat
      BY <3>2, ModulusType
    <3>4. x = v[e.a]
      BY <2>2 DEF Eval, ExprOf
    <3> QED BY <1>m, <3>2, <3>3, <3>4
  <2>3. CASE e.op = "rest"
    <3>1. \A m \in Reads(e) : WidthOf[m] \in Widths /\ WidthOf[m] = Program[m].width
      BY ReadsType
    <3>2. \A m \in Reads(e) : WidthOf[m] <= 4
      BY <1>0, <3>1 DEF Widths
    <3>3. \E m \in Reads(e) : WidthOf[m] = 4
      BY <1>0, <2>3, <3>1
    <3>4. x \in Nat /\ x < Modulus(4)
      BY <2>3, <3>2, <3>3, RestType DEF Widths
    <3> QED BY <1>m, <3>4
  <2> QED BY <1>1, <2>1, <2>2, <2>3 DEF IsExpr
<1> HIDE DEF x
<1>3. ItemLen(i, v) = SizeT(x)
  BY LenType DEF x
<1>4. SizeT(x) = x
  BY <1>2, <1>m, SizeTSame
<1> QED BY <1>2, <1>3, <1>4 DEF Signed

\* A length that fits the area is as it is after the cast of allocateCopyBytes().
LEMMA AreaLen ==
    ASSUME ResumeInv, NEW n \in Nat, ~AreaLacks(n)
    PROVE  Signed(n) = n
<1>1. nextAllocPos \in 0..AreaSize
  BY DEF ResumeInv, TypeOK
<1>2. n <= AreaSize
  BY <1>1, SizeAssumption DEF AreaLacks
<1>3. Modulus(8) \in Nat
  BY ModulusType DEF Widths
<1> QED BY <1>2, <1>3, SizeAssumption DEF Signed

\* One more byte below the bytes of b, and the number of values of one byte more.
Horner(a, b) == a + Base * b
Wide(m) == Base * m

\* A value of m values, with a byte below it.
LEMMA HornerType ==
    ASSUME NEW a \in Byte, NEW b \in Nat, NEW m \in Nat, b < m
    PROVE  Horner(a, b) \in Nat /\ Wide(m) \in Nat /\ Horner(a, b) < Wide(m)
<1>1. a \in Nat /\ a < Base /\ Base \in Nat
  BY BaseAssumption DEF Byte
<1>2. \A x, y, z \in Nat : x <= y => z * x <= z * y
  OBVIOUS
<1>3. Base * (b + 1) <= Base * m
  BY <1>1, <1>2
<1>4. Base * (b + 1) = Base * b + Base /\ Base * b \in Nat /\ Base * m \in Nat
  BY <1>1
<1> QED BY <1>1, <1>3, <1>4 DEF Horner, Wide

\* What copyAtomicType() makes of the bytes of an integer is a value of its width.
LEMMA HostType ==
    ASSUME NEW w \in Widths, NEW s \in [1..w -> Byte], Len(s) = w
    PROVE  Host(s) \in Nat /\ Host(s) < Modulus(w)
<1>0. \A b \in Byte : b \in Nat /\ b < Modulus(1)
  BY BaseAssumption, ModulusType DEF Byte
<1>m. /\ Modulus(1) \in Nat /\ Modulus(2) = Wide(Modulus(1))
      /\ Modulus(4) = Wide(Wide(Modulus(2)))
      /\ Modulus(8) = Wide(Wide(Wide(Wide(Modulus(4)))))
  BY ModulusType DEF Widths, Wide
<1>1. CASE w = 1
  BY <1>0, <1>1 DEF Host
<1>2. CASE w = 2
  <2>1. Host(s) = Horner(s[1], s[2]) /\ s[1] \in Byte /\ s[2] \in Byte
    BY <1>2 DEF Host, Horner
  <2> QED BY <1>0, <1>m, <1>2, <2>1, HornerType
<1>4. CASE w = 4
  <2>1. Host(s) = Horner(s[1], Horner(s[2], Horner(s[3], s[4])))
    BY <1>4 DEF Host, Horner
  <2>2. s[1] \in Byte /\ s[2] \in Byte /\ s[3] \in Byte /\ s[4] \in Byte
    BY <1>4
  <2> DEFINE p == Horner(s[3], s[4])
             q == Horner(s[2], p)
             m == Wide(Modulus(2))
  <2>3. p \in Nat /\ Modulus(2) \in Nat /\ p < Modulus(2)
    BY <1>0, <1>m, <2>2, HornerType
  <2> HIDE DEF p
  <2>4. q \in Nat /\ m \in Nat /\ q < m
    BY <2>2, <2>3, HornerType
  <2> HIDE DEF q, m
  <2>5. Horner(s[1], q) \in Nat /\ Horner(s[1], q) < Wide(m)
    BY <2>2, <2>4, HornerType
  <2> QED BY <1>m, <1>4, <2>1, <2>5 DEF p, q, m
<1>8. CASE w = 8
  <2> DEFINE p == Horner(s[7], s[8])
             q == Horner(s[6], p)
             hi == Horner(s[5], q)
             r == Horner(s[4], hi)
             t == Horner(s[3], r)
             u == Horner(s[2], t)
             m3 == Wide(Modulus(2))
             m5 == Wide(Modulus(4))
             m6 == Wide(m5)
             m7 == Wide(m6)
  <2>1. Host(s) = Horner(s[1], Horner(s[2], Horner(s[3], Horner(s[4], hi))))
    BY <1>8 DEF Host, Horner
  <2>2. /\ s[1] \in Byte /\ s[2] \in Byte /\ s[3] \in Byte /\ s[4] \in Byte
        /\ s[5] \in Byte /\ s[6] \in Byte /\ s[7] \in Byte /\ s[8] \in Byte
    BY <1>8
  <2>m. Modulus(2) = Wide(Modulus(1)) /\ Modulus(4) = Wide(m3) /\ Modulus(8) = Wide(m7)
    BY <1>m
  <2>0. s[8] \in Nat /\ Modulus(1) \in Nat /\ s[8] < Modulus(1)
    BY <1>0, <1>m, <2>2
  <2> HIDE DEF q, hi, r, t, u, m3, m5, m6, m7
  <2>a. p \in Nat /\ Wide(Modulus(1)) \in Nat /\ p < Wide(Modulus(1))
    BY <2>0, <2>2, HornerType
  <2> HIDE DEF p
  <2>3. p \in Nat /\ Modulus(2) \in Nat /\ p < Modulus(2)
    BY <2>a, <2>m
  <2>4. q \in Nat /\ m3 \in Nat /\ q < m3
    BY <2>2, <2>3, HornerType DEF q, m3
  <2>b. hi \in Nat /\ Wide(m3) \in Nat /\ hi < Wide(m3)
    BY <2>2, <2>4, HornerType DEF hi
  <2>5. hi \in Nat /\ Modulus(4) \in Nat /\ hi < Modulus(4)
    BY <2>b, <2>m
  <2>6. r \in Nat /\ m5 \in Nat /\ r < m5
    BY <2>2, <2>5, HornerType DEF r, m5
  <2>7. t \in Nat /\ m6 \in Nat /\ t < m6
    BY <2>2, <2>6, HornerType DEF t, m6
  <2>8. u \in Nat /\ m7 \in Nat /\ u < m7
    BY <2>2, <2>7, HornerType DEF u, m7
  <2>9. Horner(s[1], u) \in Nat /\ Horner(s[1], u) < Wide(m7)
    BY <2>2, <2>8, HornerType
  <2> QED BY <1>8, <2>1, <2>9, <2>m DEF r, t, u
<1> QED BY <1>1, <1>2, <1>4, <1>8 DEF Widths

\* The same of parseInt*(), in either byte order.
LEMMA ParseIntType ==
    ASSUME NEW w \in Widths, NEW s \in [1..w -> Byte], Len(s) = w, NEW order
    PROVE  ParseInt(order, s) \in Nat /\ ParseInt(order, s) < Modulus(w)
<1>1. Swap(s) \in [1..w -> Byte] /\ Len(Swap(s)) = w
  BY DEF Swap, Widths
<1> QED BY <1>1, HostType DEF ParseInt

\* A label is followed by a later one, which may run once this one has.
LEMMA JumpType ==
    ASSUME NEW i \in Labels, NEW v
    PROVE  FlowsTo(i, Jump(i, v))
BY ProgramAssumption DEF WellFormed, Jump

--------------------------------------------------------------------------------
\* A ParserState that was just constructed satisfies the resume invariant.
LEMMA InitResumeInv == Init => ResumeInv
<1> SUFFICES ASSUME Init PROVE ResumeInv
  OBVIOUS
<1> USE DEF Init, nullptr
<1>1. TypeOK
  BY SizeAssumption, ProgramAssumption
  DEF TypeOK, Numbers, Results, Addr, NoMembers, Labels, End
<1>2. NoOverread
  BY InputAssumption DEF NoOverread
<1>3. Flow
  BY ProgramAssumption DEF Flow, Current
<1>4. Pointers
  BY DEF Pointers, NoMembers
<1> QED BY <1>1, <1>2, <1>3, <1>4 DEF ResumeInv

\* What has been received of the stream is a sequence of bytes.
LEMMA InputType == TypeOK => input \in Seq(Byte) /\ Len(input) \in Nat
BY InputAssumption DEF TypeOK

\* The allocated part of the area is within it.
LEMMA AreaType ==
    ResumeInv => /\ AreaSize \in Nat /\ nextAllocPos \in Nat
                 /\ nextAllocPos <= AreaSize /\ nextAllocPos \in nextAllocPos..AreaSize
<1> SUFFICES ASSUME nextAllocPos \in 0..AreaSize
             PROVE  /\ AreaSize \in Nat /\ nextAllocPos \in Nat
                    /\ nextAllocPos <= AreaSize /\ nextAllocPos \in nextAllocPos..AreaSize
  BY DEF ResumeInv, TypeOK
<1> QED BY SizeAssumption

\* What an item finds when its label is reached.
LEMMA AtItemFacts ==
    ASSUME ResumeInv, at \in Labels
    PROVE  /\ Covers(num, at)
           /\ stream_pos \in Nat /\ in_buf_start <= stream_pos
           /\ stream_pos <= in_buf_end /\ in_buf_end <= Len(input)
           /\ Left \in Nat /\ stream_pos + Left <= Len(input)
           /\ result = "none" /\ at # 0 /\ at \in Nat
           /\ Current = at
<1>1. at # 0 /\ at \in Nat
  BY DEF Labels
<1>2. result = "none" /\ stream_pos # nullptr /\ Current = at
  BY <1>1 DEF ResumeInv, Flow, Current
<1>3. Covers(num, at)
  BY <1>2 DEF ResumeInv, Flow, TypeOK, Covers
<1>4. /\ stream_pos \in Nat /\ in_buf_start <= stream_pos
      /\ stream_pos <= in_buf_end /\ in_buf_end <= Len(input)
      /\ in_buf_end \in Nat
  BY <1>2, InputType DEF ResumeInv, NoOverread, TypeOK
<1>5. Left \in Nat /\ stream_pos + Left <= Len(input)
  BY <1>4 DEF Left
<1> QED BY <1>1, <1>2, <1>3, <1>4, <1>5

\* A slice of a byte sequence is a byte sequence.
LEMMA SliceType ==
    ASSUME NEW s \in Seq(Byte), NEW from \in Nat, NEW n \in Nat, from + n <= Len(s)
    PROVE  Slice(s, from, n) \in [1..n -> Byte] /\ Len(Slice(s, from, n)) = n
BY DEF Slice

\* Storing a number in one member of the unit leaves the numbers a function on
\* the members.
LEMMA NumPut ==
    ASSUME TypeOK, NEW i \in Labels, Program[i].op \in {"int", "var"},
           NEW x \in Nat, x < Modulus(Program[i].width), num' = Put(num, i, x)
    PROVE  Numbers(num') /\ DOMAIN num' = DOMAIN num \cup {i}
<1>1. i \in DOMAIN WidthOf /\ WidthOf[i] = Program[i].width
  BY DEF WidthOf
<1> QED BY <1>1 DEF Put, TypeOK, Numbers

\* Storing a reference in one member of the unit leaves the references a function
\* on the members.
LEMMA RefPut ==
    ASSUME TypeOK, NEW i \in Labels, NEW r \in Ref, ref' = Put(ref, i, r)
    PROVE  /\ ref' \in [DOMAIN ref' -> Ref] /\ DOMAIN ref' = DOMAIN ref \cup {i}
           /\ DOMAIN ref' \subseteq Labels
           /\ ref'[i] = r
           /\ \A j \in DOMAIN ref : j # i => ref'[j] = ref[j]
BY DEF Put, TypeOK

--------------------------------------------------------------------------------
\* The steps outside parse(), and its entry, keep the invariant.
LEMMA ReceiveStep == ResumeInv /\ Receive => ResumeInv'
<1> SUFFICES ASSUME ResumeInv, Receive PROVE ResumeInv'
  OBVIOUS
<1>0. /\ input' = input /\ at' = at /\ in_buf_start' = in_buf_start /\ in_buf_end' = in_buf_end
      /\ result' = result /\ bytes_read' = bytes_read /\ instruction' = instruction
      /\ stream_pos' = stream_pos /\ stack' = stack /\ nextAllocPos' = nextAllocPos
      /\ mem' = mem /\ num' = num /\ ref' = ref
  BY DEF Receive, app, pstate, area, unit
<1>a. received' \in Nat /\ received <= received' /\ received' <= Len(input)
  <2>1. received \in Nat /\ Len(input) \in Nat
    BY InputType DEF ResumeInv, TypeOK
  <2> QED BY <2>1 DEF Receive
<1>1. TypeOK'
  BY <1>0, <1>a DEF ResumeInv, TypeOK
<1>2. NoOverread'
  BY <1>0, <1>a DEF ResumeInv, TypeOK, NoOverread
<1>3. Flow'
  BY <1>0 DEF ResumeInv, Flow, Current
<1>4. Pointers'
  BY <1>0 DEF ResumeInv, Pointers, Current, Stored
<1> QED BY <1>1, <1>2, <1>3, <1>4 DEF ResumeInv

\* Entering parse(), at the root or at a stored label, keeps the resume
\* invariant.
LEMMA CallStep == ResumeInv /\ Call => ResumeInv'
<1> SUFFICES ASSUME ResumeInv, Call PROVE ResumeInv'
  OBVIOUS
<1> USE DEF env, pstate, area, unit, MayCall, AreaLacks, Allocated
<1>1. CASE CallResume
  <2> USE <1>1 DEF CallResume
  <2>1. TypeOK'
    BY DEF ResumeInv, TypeOK, Results, End
  <2>2. NoOverread'
    BY InputType DEF ResumeInv, TypeOK, NoOverread
  <2>3. Flow'
    BY DEF ResumeInv, TypeOK, Flow, Current
  <2>4. Pointers'
    BY DEF ResumeInv, TypeOK, Pointers, Current, Stored
  <2> QED BY <2>1, <2>2, <2>3, <2>4 DEF ResumeInv
<1>2. CASE CallRoot
  <2> USE <1>2 DEF CallRoot
  <2>1. TypeOK'
    <3>0. PICK x \in Nat \cup {nullptr} : stack' = Append(stack, x)
      BY DEF ResumeInv, TypeOK
    <3>1. stack' \in Seq(Nat \cup {nullptr}) /\ nextAllocPos' \in 0..AreaSize
      <4>1. stack' \in Seq(Nat \cup {nullptr})
        BY <3>0 DEF ResumeInv, TypeOK
      <4>2. nextAllocPos' \in 0..AreaSize
        <5>1. \/ nextAllocPos' = nextAllocPos
              \/ ~(AreaSize - nextAllocPos < UnitSize) /\ nextAllocPos' = nextAllocPos + UnitSize
          OBVIOUS
        <5> QED BY <5>1, AreaType, SizeAssumption
      <4> QED BY <4>1, <4>2
    <3>2. at' \in 0..End /\ stream_pos' \in Nat \cup {nullptr}
      BY ProgramAssumption DEF ResumeInv, TypeOK, End
    <3> QED BY <3>1, <3>2 DEF ResumeInv, TypeOK, Results
  <2>2. NoOverread'
    <3>1. /\ in_buf_start' = in_buf_start /\ received' = received /\ input' = input
          /\ in_buf_end' = received /\ stream_pos' \in {stream_pos, in_buf_start}
      OBVIOUS
    <3> QED BY <3>1 DEF ResumeInv, TypeOK, NoOverread
  <2>3. Flow'
    <3>1. CASE AreaLacks(UnitSize)
      BY <3>1 DEF ResumeInv, TypeOK, Flow, Current
    <3>2. CASE ~(AreaLacks(UnitSize))
      <4>1. stack' # <<>> /\ stream_pos' # nullptr
        BY <3>2 DEF ResumeInv, TypeOK, nullptr
      <4> QED
        BY <3>2, <4>1, ProgramAssumption DEF ResumeInv, TypeOK, Flow, Current
    <3> QED BY <3>1, <3>2
  <2>4. Pointers'
    BY DEF ResumeInv, Flow, Pointers, NoMembers
  <2> QED BY <2>1, <2>2, <2>3, <2>4 DEF ResumeInv
<1>3. CASE CallAbort
  <2> USE <1>3 DEF CallAbort
  <2>1. TypeOK'
    BY DEF ResumeInv, TypeOK, Results
  <2>2. NoOverread'
    BY DEF ResumeInv, NoOverread
  <2>3. Flow'
    BY DEF ResumeInv, Flow, Current
  <2>4. Pointers'
    BY DEF ResumeInv, Flow, Pointers, NoMembers
  <2> QED BY <2>1, <2>2, <2>3, <2>4 DEF ResumeInv
<1> QED BY <1>1, <1>2, <1>3 DEF Call

\* ParserState::reset() and UnitArea::reset() between messages keep the resume
\* invariant.
LEMMA ResetStep ==
    ASSUME ResumeInv, (\E keep \in BOOLEAN : NextMessage(keep)) \/ Restart
    PROVE  ResumeInv'
<1> USE DEF env, area, ResetState, ResetArea
<1>1. /\ UNCHANGED <<input, received, in_buf_end, at, mem, bytes_read>>
      /\ at = 0 /\ result' = "none"
      /\ instruction' = 0 /\ stream_pos' = nullptr /\ stack' = <<>>
      /\ num' = NoMembers /\ ref' = NoMembers
      /\ nextAllocPos' \in {0, nextAllocPos}
      /\ \/ in_buf_start' = in_buf_start
         \/ result = "DONE" /\ in_buf_start' = in_buf_start + bytes_read
  BY DEF NextMessage, Restart
<1>2. TypeOK'
  <2>0. in_buf_start \in Nat /\ bytes_read \in Nat /\ nextAllocPos \in 0..AreaSize
    BY DEF ResumeInv, TypeOK
  <2>1. in_buf_start' \in Nat /\ nextAllocPos' \in 0..AreaSize
    BY <1>1, <2>0, SizeAssumption
  <2>2. /\ stack' \in Seq(Nat \cup {nullptr}) /\ instruction' \in 0..Len(Program)
        /\ result' \in Results
    BY <1>1, ProgramAssumption DEF Results
  <2>3. /\ Numbers(num')
        /\ DOMAIN ref' \subseteq Labels /\ ref' \in [DOMAIN ref' -> Ref]
    BY <1>1 DEF NoMembers, Numbers
  <2> QED BY <1>1, <2>1, <2>2, <2>3 DEF ResumeInv, TypeOK
<1>3. NoOverread'
  BY <1>1 DEF ResumeInv, TypeOK, Flow, NoOverread
<1>4. Flow'
  BY <1>1, ProgramAssumption DEF Flow, Current
<1>5. Pointers'
  BY <1>1 DEF Pointers, NoMembers
<1> QED BY <1>2, <1>3, <1>4, <1>5 DEF ResumeInv

\* Returning DONE keeps the resume invariant.
LEMMA ReturnDoneStep == ResumeInv /\ ReturnDone => ResumeInv'
<1> SUFFICES ASSUME ResumeInv, ReturnDone PROVE ResumeInv'
  OBVIOUS
<1> USE DEF ReturnDone, Return, env, pstate, area, unit
<1>0. at = End /\ at # 0 /\ instruction # 0 /\ stream_pos # nullptr
  BY ProgramAssumption DEF ResumeInv, Flow, End
<1>1. TypeOK'
  <2>1. bytes_read' \in Nat
    BY <1>0 DEF ResumeInv, TypeOK, NoOverread
  <2>2. /\ UNCHANGED <<env, in_buf_start, in_buf_end, pstate, area, unit>>
        /\ result' = "DONE" /\ at' = 0
    OBVIOUS
  <2>3. at' \in 0..End
    BY <2>2, ProgramAssumption DEF End
  <2> HIDE DEF ReturnDone, Return
  <2> QED BY <2>1, <2>2, <2>3 DEF ResumeInv, TypeOK, Results
<1>2. NoOverread'
  BY DEF ResumeInv, NoOverread
<1>3. Flow'
  BY <1>0 DEF ResumeInv, TypeOK, Flow, Current, End
<1>4. Pointers'
  BY <1>0 DEF ResumeInv, TypeOK, Pointers, Current, Stored, Labels, End
<1> QED BY <1>1, <1>2, <1>3, <1>4 DEF ResumeInv

--------------------------------------------------------------------------------
\* The items of a unit keep the invariant.  An item that succeeds goes on to a
\* label whose members are written; one that fails stays where it is.
LEMMA FlowAfter ==
    ASSUME NEW i \in Labels, NEW v, NEW w, Covers(v, i), Covers(w, i),
           DOMAIN w = DOMAIN v \cup (IF Program[i].op \in {"int", "var"} THEN {i} ELSE {})
    PROVE  /\ Jump(i, w) \in (i + 1)..End
           /\ Defined[Jump(i, w)] \subseteq DOMAIN w
BY JumpType DEF FlowsTo, Covers

\* A failing item: nothing moves, at most the length of its member is written.
LEMMA FailStep ==
    ASSUME ResumeInv, at \in Labels, instruction' = at, UNCHANGED <<stack, num>>,
           NEW r \in {"OUT_OF_DATA", "AREA_FULL"}, Fail(r),
           DOMAIN ref' \subseteq Labels, ref' \in [DOMAIN ref' -> Ref],
           DOMAIN ref \subseteq DOMAIN ref', DOMAIN ref' \subseteq DOMAIN ref \cup {at},
           \A j \in DOMAIN ref : j # at => ref'[j] = ref[j],
           at \in DOMAIN ref' => Program[at].op \in {"bytes", "range"}
    PROVE  ResumeInv'
<1> USE DEF Fail, Return, env, area
<1>0. Covers(num, at) /\ at # 0 /\ Current = at /\ result = "none" /\ at \in Nat
  BY AtItemFacts
<1>1. TypeOK'
  BY DEF ResumeInv, TypeOK, Results, Labels, End
<1>2. NoOverread'
  BY DEF ResumeInv, NoOverread
<1>3. Flow'
  BY <1>0 DEF ResumeInv, TypeOK, Flow, Current, Covers
<1>4. Pointers'
  BY <1>0 DEF ResumeInv, TypeOK, Pointers, Current, Stored
<1> QED BY <1>1, <1>2, <1>3, <1>4 DEF ResumeInv

\* A successful item that takes n bytes.
LEMMA ProceedStep ==
    ASSUME ResumeInv, at \in Labels, instruction' = at, UNCHANGED stack,
           NEW n \in Nat, n <= Left, stream_pos' = stream_pos + n,
           Numbers(num'),
           DOMAIN num' = DOMAIN num
                \cup (IF Program[at].op \in {"int", "var"} THEN {at} ELSE {}),
           Proceed(num'),
           nextAllocPos' \in nextAllocPos..AreaSize,
           mem' \in [Addr -> Byte \cup {Junk}],
           DOMAIN ref' \subseteq Labels, ref' \in [DOMAIN ref' -> Ref],
           DOMAIN ref' = DOMAIN ref
                \cup (IF Program[at].op \in {"bytes", "range"} THEN {at} ELSE {}),
           \A j \in DOMAIN ref : j # at => ref'[j] = ref[j],
           Program[at].op = "bytes" => /\ 0 <= ref'[at].at
                                       /\ ref'[at].at + ref'[at].len <= nextAllocPos'
    PROVE  ResumeInv'
<1> USE DEF Proceed, env, app
<1>a. /\ Covers(num, at)
      /\ at # 0 /\ Current = at /\ result = "none" /\ at \in Nat
      /\ stream_pos \in Nat /\ in_buf_start <= stream_pos
  BY AtItemFacts
<1>b. Covers(num', at)
  BY <1>a DEF Covers
<1>c. stream_pos + n <= in_buf_end /\ in_buf_end \in Nat /\ in_buf_start \in Nat
  BY <1>a DEF Left, ResumeInv, TypeOK
<1>d. nextAllocPos' \in 0..AreaSize /\ nextAllocPos <= nextAllocPos' /\ nextAllocPos \in Nat
  BY DEF ResumeInv, TypeOK
<1>1. at' \in (at + 1)..End /\ Defined[at'] \subseteq DOMAIN num'
  BY <1>a, <1>b, FlowAfter, Zenon
<1>2. TypeOK'
  <2>1. at' \in 0..End /\ instruction' \in 0..Len(Program)
    BY <1>a, <1>1, ProgramAssumption DEF Labels, End
  <2>2. stream_pos' \in Nat
    BY <1>a
  <2> QED BY <2>1, <2>2, <1>d DEF ResumeInv, TypeOK
<1>3. NoOverread'
  BY <1>a, <1>c DEF ResumeInv, NoOverread
<1>4. Flow'
  <2>1. /\ at' # 0 /\ at' \in Nat /\ Current' = at' /\ instruction' # 0
        /\ stream_pos' # nullptr /\ result' = "none"
    BY <1>a, <1>1 DEF Current, End, nullptr
  <2>2. stack' # <<>>
    BY <1>a DEF ResumeInv, Flow
  <2> QED BY <1>1, <2>1, <2>2 DEF Flow
<1>5. Pointers'
  <2> SUFFICES ASSUME NEW j \in DOMAIN ref'
               PROVE  /\ Program[j].op \in {"bytes", "range"}
                      /\ j <= Current'
                      /\ Program[j].op = "bytes" =>
                           0 <= ref'[j].at /\ ref'[j].at + ref'[j].len <= nextAllocPos'
    BY DEF Pointers
  <2>1. Current' = at' /\ at < at' /\ at' \in Nat
    BY <1>a, <1>1 DEF Current, End
  <2>2. CASE j = at
    BY <2>1, <2>2, <1>a DEF ResumeInv, Pointers
  <2>3. CASE j # at
    <3>1. j \in DOMAIN ref /\ j \in Nat /\ ref'[j] = ref[j] /\ ref[j] \in Ref
      BY <2>3 DEF ResumeInv, TypeOK, Labels
    <3>2. j < at /\ Program[j].op \in {"bytes", "range"}
      BY <2>3, <3>1, <1>a DEF ResumeInv, Pointers
    <3>3. Program[j].op = "bytes" =>
              0 <= ref[j].at /\ ref[j].at + ref[j].len <= nextAllocPos
      BY <3>1, <3>2, <1>a DEF ResumeInv, Pointers, Stored
    <3> QED BY <2>1, <3>1, <3>2, <3>3, <1>a, <1>d DEF Ref, nullptr
  <2> QED BY <2>2, <2>3
<1> QED BY <1>2, <1>3, <1>4, <1>5 DEF ResumeInv

\* The code of an integer field keeps the resume invariant, whether it has its
\* bytes or returns NEED_DATA.
LEMMA IntItemStep == ResumeInv /\ IntItem => ResumeInv'
<1> SUFFICES ASSUME ResumeInv, IntItem PROVE ResumeInv'
  OBVIOUS
<1> DEFINE w == Program[at].width
           x == ParseInt(Program[at].order, Slice(input, stream_pos, w))
<1>1. at \in Labels /\ Program[at].op = "int" /\ w \in Widths /\ w \in Nat
  <2>1. at \in Labels /\ Program[at].op = "int"
    BY DEF IntItem, AtItem
  <2>2. w \in Widths
    BY <2>1, ProgramAssumption DEF WellFormed
  <2> QED BY <2>1, <2>2 DEF Widths
<1>2. stream_pos \in Nat /\ Left \in Nat /\ stream_pos + Left <= Len(input)
  BY <1>1, AtItemFacts
<1>3. CASE Left < w
  <2>1. Fail("OUT_OF_DATA") /\ UNCHANGED <<stack, unit>> /\ instruction' = at
    BY <1>1, <1>2, <1>3 DEF IntItem, AtItem, Lacks
  <2> QED
    BY <2>1, <1>1, FailStep, Zenon DEF ResumeInv, TypeOK, unit, Pointers
<1>4. CASE ~(Left < w)
  <2>1. /\ stream_pos' = stream_pos + w
        /\ num' = Put(num, at, x)
        /\ Proceed(num')
        /\ UNCHANGED <<stack, ref, nextAllocPos, mem>>
        /\ instruction' = at
    BY <1>1, <1>2, <1>4 DEF IntItem, AtItem, area, Lacks
  <2>2. x \in Nat /\ x < Modulus(w)
    <3>1. stream_pos + w <= Len(input) /\ input \in Seq(Byte)
      BY <1>1, <1>2, <1>4, InputType DEF ResumeInv
    <3>2. /\ Slice(input, stream_pos, w) \in [1..w -> Byte]
          /\ Len(Slice(input, stream_pos, w)) = w
      BY <3>1, <1>1, <1>2, SliceType
    <3> QED BY <3>2, <1>1, ParseIntType
  <2>3. Numbers(num') /\ DOMAIN num' = DOMAIN num \cup {at}
    BY <2>1, <2>2, <1>1, NumPut, Zenon DEF ResumeInv
  <2> HIDE DEF w, x
  <2>4. nextAllocPos' \in nextAllocPos..AreaSize /\ w <= Left
    BY <2>1, <1>1, <1>2, <1>4, AreaType
  <2> QED
    BY <2>1, <2>3, <2>4, <1>1, ProceedStep, Zenon DEF ResumeInv, TypeOK
<1> QED BY <1>1, <1>2, <1>3, <1>4

\* The code of a bytes or string field keeps it, for its three results DONE,
\* NEED_DATA and AREA_FULL.
LEMMA BytesItemStep == ResumeInv /\ BytesItem => ResumeInv'
<1> SUFFICES ASSUME ResumeInv, BytesItem PROVE ResumeInv'
  OBVIOUS
<1> DEFINE n == ItemLen(at, num)
           data == IF at \in DOMAIN ref THEN ref[at].at ELSE nullptr
<1>1. at \in Labels /\ Program[at].op = "bytes" /\ UNCHANGED <<stack, num>> /\ instruction' = at
  BY DEF BytesItem, AtItem
<1>2. stream_pos \in Nat /\ Left \in Nat /\ stream_pos + Left <= Len(input)
  BY <1>1, AtItemFacts
<1>3. n \in Nat
  BY <1>1, AtItemFacts, LenType
<1>4. CASE Left < Signed(n) \/ AreaLacks(n)
  <2>1. PICK r \in {"OUT_OF_DATA", "AREA_FULL"} :
            Fail(r) /\ ref' = Put(ref, at, [len |-> n, at |-> data])
    BY <1>4 DEF BytesItem
  <2>2. [len |-> n, at |-> data] \in Ref
    BY <1>3 DEF Ref, ResumeInv, TypeOK
  <2>3. /\ ref' \in [DOMAIN ref' -> Ref] /\ DOMAIN ref' = DOMAIN ref \cup {at}
        /\ \A j \in DOMAIN ref : j # at => ref'[j] = ref[j]
        /\ DOMAIN ref' \subseteq Labels
    BY <2>1, <2>2, <1>1, RefPut, Zenon DEF ResumeInv
  <2> QED
    BY <2>1, <2>3, <1>1, FailStep
<1>5. CASE ~(Left < Signed(n) \/ AreaLacks(n))
  <2>1. /\ mem' = Memcpy(nextAllocPos, n)
        /\ nextAllocPos' = nextAllocPos + n
        /\ stream_pos' = stream_pos + n
        /\ ref' = Put(ref, at, [len |-> n, at |-> nextAllocPos])
        /\ Proceed(num)
    BY <1>5 DEF BytesItem, Allocated
  <2>2. /\ nextAllocPos \in Nat /\ n <= Left
        /\ nextAllocPos' \in nextAllocPos..AreaSize
    <3> HIDE DEF n
    <3>1. Signed(n) = n
      BY <1>3, <1>5, AreaLen
    <3> QED BY <2>1, <3>1, <1>2, <1>3, <1>5, AreaType DEF AreaLacks
  <2>3. mem' \in [Addr -> Byte \cup {Junk}]
    <3>1. ASSUME NEW a \in Addr, nextAllocPos <= a, a < nextAllocPos + n
          PROVE  input[stream_pos + (a - nextAllocPos) + 1] \in Byte
      <4>1. stream_pos + (a - nextAllocPos) + 1 \in 1..Len(input)
        BY <3>1, <2>2, <1>2, <1>3, SizeAssumption, InputType DEF Addr, ResumeInv
      <4> QED BY <4>1, InputType DEF ResumeInv
    <3> QED BY <3>1, <2>1 DEF Memcpy, ResumeInv, TypeOK
  <2>4. [len |-> n, at |-> nextAllocPos] \in Ref
    BY <2>2, <1>3 DEF Ref
  <2>5. /\ ref' \in [DOMAIN ref' -> Ref] /\ DOMAIN ref' = DOMAIN ref \cup {at}
        /\ \A j \in DOMAIN ref : j # at => ref'[j] = ref[j]
        /\ ref'[at] = [len |-> n, at |-> nextAllocPos]
    BY <2>1, <2>4, <1>1, RefPut DEF ResumeInv
  <2>6. DOMAIN ref' \subseteq Labels /\ 0 <= ref'[at].at
        /\ ref'[at].at + ref'[at].len <= nextAllocPos'
    BY <2>1, <2>2, <2>5, <1>1, <1>3 DEF ResumeInv, TypeOK
  <2>7. Proceed(num') /\ Numbers(num')
    BY <2>1, <1>1 DEF ResumeInv, TypeOK
  <2> HIDE DEF n
  <2> QED
    BY <2>1, <2>2, <2>3, <2>5, <2>6, <2>7, <1>1, <1>3, ProceedStep
<1> QED BY <1>4, <1>5

\* The code of a field that is a range of the input buffer keeps it, if the cast
\* of advance() leaves lengths as they are.
LEMMA RangeItemStep ==
    ASSUME NarrowRanges, ResumeInv, RangeItem
    PROVE  ResumeInv'
<1> DEFINE n == ItemLen(at, num)
<1>1. /\ at \in Labels /\ Program[at].op = "range" /\ UNCHANGED <<stack, num>>
      /\ instruction' = at
      /\ ref' = Put(ref, at, [len |-> n, at |-> stream_pos])
  BY DEF RangeItem, AtItem
<1>2. stream_pos \in Nat /\ Left \in Nat
  BY <1>1, AtItemFacts
<1>3. n \in Nat /\ [len |-> n, at |-> stream_pos] \in Ref
  BY <1>1, <1>2, AtItemFacts, LenType DEF Ref
<1>s. Signed(n) = n
  BY <1>1, AtItemFacts, RangeLen
<1>4. /\ ref' \in [DOMAIN ref' -> Ref] /\ DOMAIN ref' = DOMAIN ref \cup {at}
      /\ \A j \in DOMAIN ref : j # at => ref'[j] = ref[j]
      /\ DOMAIN ref' \subseteq Labels
  BY <1>1, <1>3, RefPut DEF ResumeInv
<1>5. CASE Left < n
  <2>1. Fail("OUT_OF_DATA")
    BY <1>5, <1>s DEF RangeItem
  <2> QED BY <2>1, <1>1, <1>4, FailStep
<1>6. CASE ~(Left < n)
  <2>1. /\ stream_pos' = stream_pos + n /\ n <= Left
        /\ Proceed(num') /\ UNCHANGED <<nextAllocPos, mem>>
    BY <1>1, <1>2, <1>3, <1>6, <1>s, SMTT(30) DEF RangeItem, area
  <2>2. /\ mem' \in [Addr -> Byte \cup {Junk}]
        /\ Numbers(num')
    BY <2>1, <1>1 DEF ResumeInv, TypeOK
  <2>3. nextAllocPos' \in nextAllocPos..AreaSize
    BY <2>1, AreaType
  <2> HIDE DEF n
  <2> QED BY <2>1, <2>2, <2>3, <1>1, <1>3, <1>4, ProceedStep, Zenon
<1> QED BY <1>5, <1>6

\* The code of a variable, which evaluates its &parse attribute, keeps it.
LEMMA VarItemStep == ResumeInv /\ VarItem => ResumeInv'
<1> SUFFICES ASSUME ResumeInv, VarItem PROVE ResumeInv'
  OBVIOUS
<1> DEFINE x == Truncated(ExprOf(at, num), Program[at].width)
<1>1. /\ at \in Labels /\ Program[at].op = "var" /\ instruction' = at
      /\ UNCHANGED <<stack, ref, nextAllocPos, mem, stream_pos>>
      /\ num' = Put(num, at, x) /\ Proceed(num')
  BY DEF VarItem, AtItem, area
<1>2. stream_pos \in Nat /\ Left \in Nat /\ x \in Nat /\ x < Modulus(Program[at].width)
  <2>1. ExprOf(at, num) \in Int
    BY <1>1, AtItemFacts, ExprType
  <2>2. Program[at].width \in Widths
    BY <1>1, ProgramAssumption DEF WellFormed
  <2> QED BY <1>1, <2>1, <2>2, AtItemFacts, TruncatedType
<1>3. Numbers(num') /\ DOMAIN num' = DOMAIN num \cup {at}
  BY <1>1, <1>2, NumPut DEF ResumeInv
<1> HIDE DEF x
<1>4. nextAllocPos' \in nextAllocPos..AreaSize /\ 0 <= Left /\ stream_pos' = stream_pos + 0
  BY <1>1, <1>2, AreaType
<1> QED BY <1>1, <1>3, <1>4, ProceedStep, Zenon DEF ResumeInv, TypeOK

\* The jump of a switch keeps it: every target is a label whose members are
\* defined.
LEMMA SwitchItemStep == ResumeInv /\ SwitchItem => ResumeInv'
<1> SUFFICES ASSUME ResumeInv, SwitchItem PROVE ResumeInv'
  OBVIOUS
<1>1. /\ at \in Labels /\ Program[at].op = "switch" /\ instruction' = at
      /\ UNCHANGED <<stack, ref, nextAllocPos, mem, stream_pos, num>>
      /\ Proceed(num')
  BY DEF SwitchItem, AtItem, area, unit
<1>2. stream_pos \in Nat /\ Left \in Nat
  BY <1>1, AtItemFacts
<1>3. nextAllocPos' \in nextAllocPos..AreaSize /\ 0 <= Left /\ stream_pos' = stream_pos + 0
  BY <1>1, <1>2, AreaType
<1> QED BY <1>1, <1>3, ProceedStep, Zenon DEF ResumeInv, TypeOK

\* The resume invariant is inductive.
LEMMA NextResumeInv ==
    ASSUME NarrowRanges, ResumeInv, [Next]_vars
    PROVE  ResumeInv'
<1>1. CASE Receive
  BY <1>1, ReceiveStep
<1>2. CASE Application
  BY <1>2, CallStep, ResetStep DEF Application
<1>3. CASE Parse
  BY <1>3, IntItemStep, BytesItemStep, RangeItemStep, VarItemStep, SwitchItemStep,
     ReturnDoneStep DEF Parse, Item
<1>4. CASE UNCHANGED vars
  <2> USE <1>4 DEF vars, env, app, pstate, area, unit
  <2>1. TypeOK'
    BY DEF ResumeInv, TypeOK
  <2>2. NoOverread'
    BY DEF ResumeInv, NoOverread
  <2>3. Flow'
    BY DEF ResumeInv, Flow, Current
  <2>4. Pointers'
    BY DEF ResumeInv, Pointers, Current, Stored
  <2> QED BY <2>1, <2>2, <2>3, <2>4 DEF ResumeInv
<1> QED BY <1>1, <1>2, <1>3, <1>4 DEF Next

\* The inductive invariant of the resumable parser: a call that resumes finds
\* the position, unit and members the label needs.  It holds of every unit in which
\* no length of a hidden bytes item turns negative in advance().
THEOREM ResumeCorrect ==
    ASSUME NarrowRanges
    PROVE  Spec => []ResumeInv
<1>1. Init => ResumeInv
  BY InitResumeInv
<1>2. ResumeInv /\ [Next]_vars => ResumeInv'
  BY NextResumeInv
<1> QED BY <1>1, <1>2, PTL DEF Spec

\* Every variable keeps its type, the position and the integer members included,
\* for the same units.
THEOREM TypeCorrect ==
    ASSUME NarrowRanges
    PROVE  Spec => []TypeOK
BY ResumeCorrect, PTL DEF ResumeInv

\* parse() never reads outside [in_buf_start, in_buf_end), however the stream is
\* cut into calls and whatever lengths it carries, for the same units: without the
\* condition advance() would move backwards by a length of 2^63 and more.
THEOREM NeverOverreads ==
    ASSUME NarrowRanges
    PROVE  Spec => []NoOverread
BY ResumeCorrect, PTL DEF ResumeInv

--------------------------------------------------------------------------------
(***************************************************************************)
(* The resumable parser implements the one-shot parser.                    *)
(***************************************************************************)
\* Both specifications interpret the same program.
LEMMA SameConstants ==
    /\ OneShot!Labels = Labels /\ OneShot!End = End
    /\ OneShot!NoMembers = NoMembers
BY DEF OneShot!Labels, Labels, OneShot!End, End, OneShot!NoMembers, NoMembers

\* Both specifications evaluate expressions alike.
LEMMA SameEval ==
    /\ \A i, v : OneShot!ExprOf(i, v) = ExprOf(i, v)
    /\ \A n, w : OneShot!Truncated(n, w) = Truncated(n, w)
    /\ \A n : OneShot!SizeT(n) = SizeT(n)
<1>1. \A w : OneShot!Modulus(w) = Modulus(w)
  BY DEF OneShot!Modulus, Modulus
<1>2. \A n, w : OneShot!Truncated(n, w) = Truncated(n, w)
  BY <1>1, Zenon DEF OneShot!Truncated, Truncated
<1>3. \A n : OneShot!SizeT(n) = SizeT(n)
  BY <1>2, Zenon DEF OneShot!SizeT, SizeT
<1>4. \A n, w : OneShot!Arith(n, w) = Arith(n, w)
  BY <1>1, Zenon DEF OneShot!Arith, Arith
<1>5. \A w, x : OneShot!Wider(w, x) = Wider(w, x)
  BY DEF OneShot!Wider, Wider
<1>6. \A e, v, w : OneShot!Eval(e, v, w) = Eval(e, v, w)
  BY <1>4, <1>5 DEF OneShot!Eval, Eval
<1>7. OneShot!WidthOf = WidthOf
  BY DEF OneShot!WidthOf, WidthOf, OneShot!Labels, Labels
<1> QED BY <1>2, <1>3, <1>6, <1>7, Zenon DEF OneShot!ExprOf, ExprOf

\* Both specifications jump alike and give items the same lengths.
LEMMA SameFlow ==
    /\ \A i, v : OneShot!Jump(i, v) = Jump(i, v)
    /\ \A i, v : OneShot!ItemLen(i, v) = ItemLen(i, v)
BY SameEval DEF OneShot!Jump, Jump, OneShot!ItemLen, ItemLen

\* Both specifications decode integers, store members and cut slices alike.
LEMMA SameData ==
    /\ \A o, s : OneShot!ParseInt(o, s) = ParseInt(o, s)
    /\ \A f, i, x : OneShot!Put(f, i, x) = Put(f, i, x)
    /\ \A s, from, n : OneShot!Slice(s, from, n) = Slice(s, from, n)
<1>1. \A s : OneShot!Host(s) = Host(s)
  BY DEF OneShot!Host, Host
<1>2. \A s : OneShot!Swap(s) = Swap(s)
  BY DEF OneShot!Swap, Swap
<1> QED
  BY <1>1, <1>2 DEF OneShot!ParseInt, ParseInt, OneShot!Put, Put, OneShot!Slice, Slice

\* Initial states map to initial states of the one-shot parser.
LEMMA InitRefines == Init => OneShot!Init
<1> SUFFICES ASSUME Init PROVE OneShot!Init
  OBVIOUS
<1> USE DEF Init
<1>1. absStart = 0 /\ absLabel = 1 /\ absPos = 0 /\ absNum = NoMembers
  BY DEF absStart, absLabel, absPos, absNum, Delivered, Current
<1>2. absData = NoMembers
  BY DEF absData, Delivered, NoMembers
<1> QED BY <1>1, <1>2, SameConstants DEF OneShot!Init

--------------------------------------------------------------------------------
AbsVars == <<input, absStart, absLabel, absPos, absNum, absData, msgs>>

\* A member read earlier keeps its bytes when the area only grows.
LEMMA ContentsKept ==
    ASSUME ResumeInv, result # "DONE", NEW i \in DOMAIN ref, i < Current,
           input' = input, i \in DOMAIN ref', ref'[i] = ref[i],
           \A a \in Addr : a < nextAllocPos => mem'[a] = mem[a]
    PROVE  Contents(i, ref[i])' = Contents(i, ref[i])
<1>1. CASE Program[i].op = "range"
  BY <1>1 DEF Contents, Slice
<1>2. CASE Program[i].op # "range"
  <2>1. ref[i].at \in Nat /\ ref[i].len \in Nat /\ ref[i].at + ref[i].len <= nextAllocPos
    <3>1. ref[i] \in Ref /\ Program[i].op = "bytes" /\ Stored(i)
      BY <1>2 DEF ResumeInv, TypeOK, Pointers, Stored
    <3> QED BY <3>1 DEF ResumeInv, Pointers, Ref, nullptr
  <2>2. \A k \in 1..ref[i].len : mem'[ref[i].at + k - 1] = mem[ref[i].at + k - 1]
    <3> SUFFICES ASSUME NEW k \in 1..ref[i].len
                 PROVE  ref[i].at + k - 1 \in Addr /\ ref[i].at + k - 1 < nextAllocPos
      OBVIOUS
    <3>1. nextAllocPos \in Nat /\ nextAllocPos <= AreaSize /\ AreaSize \in Nat
      BY SizeAssumption DEF ResumeInv, TypeOK
    <3> QED BY <2>1, <3>1 DEF Addr
  <2> QED BY <1>2, <2>2 DEF Contents
<1> QED BY <1>1, <1>2

\* A step that leaves the label, the members and the position alone is not seen.
LEMMA StutterStep ==
    ASSUME ResumeInv, ResumeInv', result # "DONE", result' # "DONE",
           UNCHANGED <<input, in_buf_start, msgs, num>>, Current' = Current,
           absPos' = absPos,
           {j \in DOMAIN ref' : j < Current} = {j \in DOMAIN ref : j < Current},
           \A j \in DOMAIN ref : j < Current => ref'[j] = ref[j],
           \A a \in Addr : a < nextAllocPos => mem'[a] = mem[a]
    PROVE  UNCHANGED AbsVars
<1>1. \A i \in {j \in DOMAIN ref : j < Current} : Contents(i, ref[i])' = Contents(i, ref[i])
  BY ContentsKept
<1>2. absData' = absData
  BY <1>1 DEF absData, Delivered
<1> QED
  BY <1>2 DEF AbsVars, absStart, absLabel, absNum, Delivered

\* A step that reads the item at `at'.
LEMMA ReadStep ==
    ASSUME ResumeInv, ResumeInv', at \in Labels, Proceed(num'),
           ItemLen(at, num) \in Nat, ItemLen(at, num) <= Left,
           stream_pos' = stream_pos + ItemLen(at, num),
           Program[at].op = "int" => num' = Put(num, at, ParseInt(Program[at].order,
                                        Slice(input, stream_pos, ItemLen(at, num)))),
           Program[at].op = "var" =>
               num' = Put(num, at, Truncated(ExprOf(at, num), Program[at].width)),
           Program[at].op \notin {"int", "var"} => num' = num,
           absData' = IF Program[at].op \in {"bytes", "range"}
                      THEN Put(absData, at, Slice(input, stream_pos, ItemLen(at, num)))
                      ELSE absData
    PROVE  OneShot!ReadItem
<1> DEFINE n == ItemLen(at, num)
<1>1. /\ result = "none" /\ Current = at /\ at # 0 /\ stream_pos \in Nat
      /\ in_buf_end <= Len(input) /\ Left = in_buf_end - stream_pos
      /\ in_buf_end \in Nat /\ Len(input) \in Nat
  BY AtItemFacts, InputType, Zenon DEF ResumeInv, TypeOK, Left
<1>2. at' = Jump(at, num') /\ at' # 0 /\ UNCHANGED <<input, in_buf_start, msgs, result>>
  <2>1. at' = Jump(at, num') /\ UNCHANGED <<input, in_buf_start, msgs, result>>
    BY DEF Proceed, env, app
  <2>2. Jump(at, num') \in (at + 1)..End
    BY JumpType DEF FlowsTo
  <2> QED BY <2>1, <2>2 DEF Labels, End
<1>3. /\ absLabel = at /\ absPos = stream_pos /\ absNum = num
      /\ absLabel' = Jump(at, num') /\ absPos' = stream_pos + n /\ absNum' = num'
      /\ absStart' = absStart
  BY <1>1, <1>2
  DEF absLabel, absPos, absNum, absStart, Delivered, Current, nullptr
<1>4. stream_pos + n <= Len(input)
  BY <1>1
<1>5. absNum' = CASE Program[at].op = "int" ->
                        Put(num, at, ParseInt(Program[at].order, Slice(input, stream_pos, n)))
                  [] Program[at].op = "var" ->
                        Put(num, at, Truncated(ExprOf(at, num), Program[at].width))
                  [] OTHER -> num
  BY <1>3
<1> HIDE DEF n
<1> QED
  BY <1>2, <1>3, <1>4, <1>5, SameConstants, SameEval, SameFlow, SameData
  DEF OneShot!ReadItem, n

--------------------------------------------------------------------------------
\* One lemma per step of the resumable parser.
LEMMA ReceiveRefines == ResumeInv /\ ResumeInv' /\ Receive => UNCHANGED AbsVars
<1> SUFFICES ASSUME Receive PROVE UNCHANGED AbsVars
  OBVIOUS
<1> USE DEF Receive, app, pstate, area, unit
<1>1. Current' = Current
  BY DEF Current
<1>2. absData' = absData
  BY <1>1 DEF absData, Delivered, Contents, Slice
<1> QED
  BY <1>1, <1>2 DEF AbsVars, absStart, absLabel, absPos, absNum, Delivered

\* Entering parse() is a stuttering step of the one-shot parser.
LEMMA CallRefines == ResumeInv /\ ResumeInv' /\ Call => UNCHANGED AbsVars
<1> SUFFICES ASSUME ResumeInv, ResumeInv', Call PROVE UNCHANGED AbsVars
  OBVIOUS
<1> USE DEF env, pstate, area, unit, MayCall
<1>1. /\ result # "DONE" /\ result' # "DONE" /\ at = 0
      /\ UNCHANGED <<input, in_buf_start, msgs, num, ref, mem>>
  BY DEF Call, CallResume, CallRoot, CallAbort
<1>2. Current' = Current /\ absPos' = absPos
  <2>1. CASE CallResume
    BY <2>1, <1>1 DEF CallResume, Current, absPos, absStart, Delivered
  <2>2. CASE CallRoot
    <3>1. stream_pos = nullptr
      BY <2>2, <1>1 DEF CallRoot, ResumeInv, Flow
    <3> QED
      BY <2>2, <3>1, <1>1 DEF CallRoot, Current, absPos, absStart, Delivered
  <2>3. CASE CallAbort
    BY <2>3, <1>1 DEF CallAbort, Current, absPos, absStart, Delivered
  <2> QED BY <2>1, <2>2, <2>3 DEF Call
<1> QED BY <1>1, <1>2, StutterStep

\* Resetting the state for the next message is a stuttering step.
LEMMA NextMessageRefines ==
    ASSUME ResumeInv, ResumeInv', NEW keep \in BOOLEAN, NextMessage(keep)
    PROVE  UNCHANGED AbsVars
<1> USE DEF NextMessage, ResetState, env
<1>1. Current' = 1 /\ ~Delivered' /\ Delivered
  BY DEF Current, Delivered
<1>2. absStart' = absStart /\ absLabel' = absLabel /\ absPos' = absPos /\ absNum' = absNum
  BY <1>1 DEF absStart, absLabel, absPos, absNum
<1>3. absData' = NoMembers
  BY <1>1 DEF absData, NoMembers
<1> QED BY <1>1, <1>2, <1>3 DEF AbsVars, absData

\* Starting a message over after AREA_FULL abandons it in the one-shot parser.
LEMMA RestartRefines == ResumeInv /\ ResumeInv' /\ Restart => OneShot!Abandon
<1> SUFFICES ASSUME ResumeInv, Restart PROVE OneShot!Abandon
  OBVIOUS
<1> USE DEF Restart, ResetState, env
<1>1. Current' = 1 /\ ~Delivered' /\ ~Delivered
  BY DEF Current, Delivered
<1>2. /\ absStart' = absStart /\ absLabel' = 1 /\ absPos' = absStart
      /\ absNum' = NoMembers
  BY <1>1 DEF absStart, absLabel, absPos, absNum
<1>3. absData' = NoMembers
  BY <1>1 DEF absData, NoMembers
<1> QED BY <1>2, <1>3, SameConstants DEF OneShot!Abandon, OneShot!Begin

\* Returning DONE delivers the unit.
LEMMA ReturnDoneRefines == ResumeInv /\ ResumeInv' /\ ReturnDone => OneShot!Deliver
<1> SUFFICES ASSUME ResumeInv, ResumeInv', ReturnDone PROVE OneShot!Deliver
  OBVIOUS
<1>1. /\ at = End /\ at # 0 /\ result = "none" /\ stream_pos # nullptr /\ Current = End
      /\ stream_pos \in Nat /\ in_buf_start \in Nat
  <2>1. at = End /\ End \in Nat /\ End # 0
    BY ProgramAssumption DEF ReturnDone, End
  <2>2. result = "none" /\ stream_pos # nullptr /\ Current = End
    BY <2>1 DEF ResumeInv, Flow, Current
  <2>3. stream_pos \in Nat \cup {nullptr} /\ in_buf_start \in Nat
    BY DEF ResumeInv, TypeOK
  <2> QED BY <2>1, <2>2, <2>3
<1>2. ~Delivered /\ Delivered' /\ UNCHANGED <<input, in_buf_start>>
      /\ bytes_read' = stream_pos - in_buf_start
  BY <1>1 DEF ReturnDone, Return, Delivered, env
<1>3. absLabel = End /\ absPos = stream_pos /\ absNum = num
  BY <1>1, <1>2 DEF absLabel, absPos, absNum
<1>4. absData = [i \in DOMAIN ref |-> Contents(i, ref[i])]
  <2>1. {j \in DOMAIN ref : j < Current} = DOMAIN ref
    <3>1. DOMAIN ref \subseteq 1..Len(Program) /\ Len(Program) \in Nat
      BY ProgramAssumption DEF ResumeInv, TypeOK, Labels
    <3>2. \A j \in 1..Len(Program) : j < Current
      BY <1>1, <3>1 DEF End
    <3> QED BY <3>1, <3>2, Zenon
  <2> QED BY <2>1, <1>2 DEF absData
<1>5. msgs' = Append(msgs, [num |-> absNum, data |-> absData])
  BY <1>3, <1>4 DEF ReturnDone, Value
<1>6. /\ absStart' = absPos /\ absLabel' = 1 /\ absPos' = absPos
      /\ absNum' = NoMembers /\ absData' = NoMembers
  BY <1>1, <1>2, <1>3 DEF absStart, absLabel, absPos, absNum, absData
<1> QED BY <1>2, <1>3, <1>5, <1>6, SameConstants DEF OneShot!Deliver, OneShot!Begin

--------------------------------------------------------------------------------
\* An item that fails stays at its label, so nothing is seen of it.
LEMMA FailRefines ==
    ASSUME ResumeInv, ResumeInv', at \in Labels, instruction' = at, num' = num,
           NEW r \in {"OUT_OF_DATA", "AREA_FULL"}, Fail(r),
           DOMAIN ref' \cup {at} = DOMAIN ref \cup {at},
           \A j \in DOMAIN ref : j # at => ref'[j] = ref[j]
    PROVE  UNCHANGED AbsVars
<1> USE DEF Fail, Return, env, area
<1>1. at # 0 /\ at \in Nat /\ Current = at /\ result = "none" /\ stream_pos \in Nat
  BY AtItemFacts
<1>2. Current' = Current
  BY <1>1 DEF Current
<1>3. absPos' = absPos
  BY <1>1 DEF absPos, absStart, Delivered
<1>4. {j \in DOMAIN ref' : j < Current} = {j \in DOMAIN ref : j < Current}
  BY <1>1
<1>5. \A j \in DOMAIN ref : j < Current => ref'[j] = ref[j]
  BY <1>1
<1> QED BY <1>1, <1>2, <1>3, <1>4, <1>5, StutterStep

\* References are kept for numbered members only.
LEMMA RefDomain == ResumeInv => \A j \in DOMAIN ref : j \in Nat
BY DEF ResumeInv, TypeOK, Labels

\* A successful item that has no bytes of its own leaves the earlier ones alone.
LEMMA DataKept ==
    ASSUME ResumeInv, ResumeInv', at \in Labels, Proceed(num'),
           Program[at].op \notin {"bytes", "range"}, UNCHANGED <<ref, mem>>
    PROVE  absData' = absData
<1>1. /\ at # 0 /\ at \in Nat /\ Current = at /\ result = "none"
      /\ at' \in (at + 1)..End /\ result' = "none" /\ input' = input
  BY AtItemFacts, JumpType DEF Proceed, FlowsTo, env, app
<1>2. Current' = at' /\ at < at' /\ at' \in Nat
  BY <1>1 DEF Current, End
<1>3. {j \in DOMAIN ref : j < at'} = {j \in DOMAIN ref : j < at}
  <2>1. \A j \in DOMAIN ref : j \in Nat
    BY RefDomain
  <2>2. \A j \in DOMAIN ref : j <= at /\ j # at
    BY <1>1 DEF ResumeInv, Pointers
  <2> QED BY <2>1, <2>2, <1>1, <1>2
<1>4. \A i \in {j \in DOMAIN ref : j < Current} : Contents(i, ref[i])' = Contents(i, ref[i])
  BY <1>1 DEF Contents, Slice
<1> QED BY <1>1, <1>2, <1>3, <1>4 DEF absData, Delivered

\* A successful bytes item adds its bytes and leaves the earlier ones alone.
LEMMA DataAdded ==
    ASSUME ResumeInv, ResumeInv', NEW l \in Labels, at = l, Proceed(num'), NEW bytes,
           DOMAIN ref' = DOMAIN ref \cup {at},
           \A j \in DOMAIN ref : j # at => ref'[j] = ref[j],
           \A a \in Addr : a < nextAllocPos => mem'[a] = mem[a],
           Contents(l, ref[l])' = bytes
    PROVE  absData' = Put(absData, at, bytes)
<1>1. /\ at # 0 /\ at \in Nat /\ Current = at /\ result = "none"
      /\ at' \in (at + 1)..End /\ result' = "none" /\ input' = input
  BY AtItemFacts, JumpType DEF Proceed, FlowsTo, env, app
<1>2. Current' = at' /\ at < at' /\ at' \in Nat
  BY <1>1 DEF Current, End
<1>3. {j \in DOMAIN ref' : j < at'} = {j \in DOMAIN ref : j < at} \cup {at}
  <2>1. \A j \in DOMAIN ref : j \in Nat
    BY RefDomain
  <2>2. \A j \in DOMAIN ref : j <= at
    BY <1>1 DEF ResumeInv, Pointers
  <2> QED BY <2>1, <2>2, <1>1, <1>2
<1>4. \A i \in {j \in DOMAIN ref : j < at} : Contents(i, ref[i])' = Contents(i, ref[i])
  BY <1>1, ContentsKept, SMTT(30)
<1>5. absData' = [i \in {j \in DOMAIN ref : j < at} \cup {at} |-> Contents(i, ref[i])']
  BY <1>1, <1>2, <1>3 DEF absData, Delivered
<1>6. absData = [i \in {j \in DOMAIN ref : j < at} |-> Contents(i, ref[i])]
  BY <1>1 DEF absData, Delivered
<1> DEFINE S == {j \in DOMAIN ref : j < at}
<1>7. at \notin S /\ DOMAIN absData = S
  BY <1>1, <1>6
<1>8. \A i \in S \cup {l} :
          Contents(i, ref[i])' = IF i = l THEN bytes ELSE absData[i]
  BY <1>4, <1>6, <1>7
<1> QED BY <1>5, <1>7, <1>8 DEF Put

--------------------------------------------------------------------------------
\* An integer field is read in one step of the one-shot parser; running out of
\* data is a stuttering step.
LEMMA IntItemRefines ==
    ASSUME ResumeInv, ResumeInv', IntItem
    PROVE  OneShot!ReadItem \/ UNCHANGED AbsVars
<1> DEFINE w == Program[at].width
<1>1. /\ at \in Labels /\ Program[at].op = "int" /\ instruction' = at
      /\ w \in Nat /\ ItemLen(at, num) = w
  BY ProgramAssumption DEF IntItem, AtItem, WellFormed, Widths, ItemLen
<1>2. Left \in Nat
  BY <1>1, AtItemFacts
<1>3. CASE Left < w
  <2>1. Fail("OUT_OF_DATA") /\ UNCHANGED <<num, ref>>
    BY <1>1, <1>2, <1>3, SMTT(30) DEF IntItem, unit, Lacks
  <2> QED BY <2>1, <1>1, FailRefines
<1>4. CASE ~(Left < w)
  <2>1. /\ stream_pos' = stream_pos + w
        /\ num' = Put(num, at, ParseInt(Program[at].order, Slice(input, stream_pos, w)))
        /\ Proceed(num') /\ UNCHANGED <<ref, mem>>
    BY <1>1, <1>2, <1>4 DEF IntItem, area, Lacks
  <2>2. absData' = absData
    BY <2>1, <1>1, DataKept
  <2>3. w <= Left
    BY <1>1, <1>2, <1>4
  <2> HIDE DEF w
  <2> QED BY <2>1, <2>2, <2>3, <1>1, ReadStep
<1> QED BY <1>3, <1>4

\* The same for a field copied into the area, and for running out of area.
LEMMA BytesItemRefines ==
    ASSUME ResumeInv, ResumeInv', BytesItem
    PROVE  OneShot!ReadItem \/ UNCHANGED AbsVars
<1> DEFINE n == ItemLen(at, num)
           data == IF at \in DOMAIN ref THEN ref[at].at ELSE nullptr
<1>1. /\ at \in Labels /\ Program[at].op = "bytes" /\ instruction' = at /\ num' = num
      /\ ItemLen(at, num) = n
  BY DEF BytesItem, AtItem
<1>2. Left \in Nat /\ n \in Nat /\ stream_pos \in Nat
  BY <1>1, AtItemFacts, LenType
<1>3. CASE Left < Signed(n) \/ AreaLacks(n)
  <2>1. PICK r \in {"OUT_OF_DATA", "AREA_FULL"} :
            Fail(r) /\ ref' = Put(ref, at, [len |-> n, at |-> data])
    BY <1>3 DEF BytesItem
  <2>2. /\ DOMAIN ref' = DOMAIN ref \cup {at}
        /\ \A j \in DOMAIN ref : j # at => ref'[j] = ref[j]
    BY <2>1 DEF Put
  <2> QED BY <2>1, <2>2, <1>1, FailRefines
<1>4. CASE ~(Left < Signed(n) \/ AreaLacks(n))
  <2>1. /\ mem' = Memcpy(nextAllocPos, n)
        /\ stream_pos' = stream_pos + n
        /\ ref' = Put(ref, at, [len |-> n, at |-> nextAllocPos])
        /\ Proceed(num')
    BY <1>1, <1>4 DEF BytesItem
  <2>2. /\ DOMAIN ref' = DOMAIN ref \cup {at}
        /\ \A j \in DOMAIN ref : j # at => ref'[j] = ref[j]
        /\ ref'[at] = [len |-> n, at |-> nextAllocPos]
    BY <2>1 DEF Put
  <2>3. nextAllocPos \in Nat /\ AreaSize \in Nat /\ n <= Left /\ nextAllocPos + n <= AreaSize
    <3>1. nextAllocPos \in Nat /\ AreaSize \in Nat
      BY SizeAssumption DEF ResumeInv, TypeOK
    <3> HIDE DEF n
    <3>2. Signed(n) = n
      BY <1>2, <1>4, AreaLen
    <3> QED BY <3>1, <3>2, <1>2, <1>4 DEF AreaLacks
  <2>4. \A a \in Addr : a < nextAllocPos => mem'[a] = mem[a]
    BY <2>1, <2>3, SMTT(30) DEF Memcpy, Addr
  <2>5. \A k \in 1..n : mem'[nextAllocPos + k - 1] = input[stream_pos + k]
    <3> HIDE DEF n
    <3> SUFFICES ASSUME NEW k \in 1..n
                 PROVE  mem'[nextAllocPos + k - 1] = input[stream_pos + k]
      OBVIOUS
    <3> DEFINE a == nextAllocPos + k - 1
    <3>1. /\ a \in Addr /\ nextAllocPos <= a /\ a < nextAllocPos + n
          /\ stream_pos + (a - nextAllocPos) + 1 = stream_pos + k
      BY <2>3, <1>2 DEF Addr
    <3> HIDE DEF a
    <3>2. mem'[a] = input[stream_pos + (a - nextAllocPos) + 1]
      BY <3>1, <2>1 DEF Memcpy
    <3> QED BY <3>1, <3>2 DEF a
  <2>6. PICK l \in Labels : l = at
    BY <1>1
  <2>7. Contents(l, ref[l])' = Slice(input, stream_pos, n)
    BY <2>2, <2>5, <2>6, <1>1, SMTT(30) DEF Contents, Slice
  <2>8. absData' = Put(absData, at, Slice(input, stream_pos, n))
    <3> HIDE DEF n
    <3> QED BY <2>1, <2>2, <2>4, <2>6, <2>7, DataAdded
  <2> HIDE DEF n
  <2> QED BY <2>1, <2>3, <2>8, <1>1, <1>2, ReadStep
<1> QED BY <1>3, <1>4

\* The same for a field kept as a range of the input buffer.
LEMMA RangeItemRefines ==
    ASSUME NarrowRanges, ResumeInv, ResumeInv', RangeItem
    PROVE  OneShot!ReadItem \/ UNCHANGED AbsVars
<1> DEFINE n == ItemLen(at, num)
<1>1. /\ at \in Labels /\ Program[at].op = "range" /\ instruction' = at /\ num' = num
      /\ ItemLen(at, num) = n
      /\ ref' = Put(ref, at, [len |-> n, at |-> stream_pos])
  BY DEF RangeItem, AtItem
<1>2. Left \in Nat /\ n \in Nat /\ Signed(n) = n
  BY <1>1, AtItemFacts, LenType, RangeLen
<1>3. /\ DOMAIN ref' = DOMAIN ref \cup {at}
      /\ \A j \in DOMAIN ref : j # at => ref'[j] = ref[j]
      /\ ref'[at] = [len |-> n, at |-> stream_pos]
  BY <1>1 DEF Put
<1>4. CASE Left < n
  <2>1. Fail("OUT_OF_DATA")
    BY <1>2, <1>4 DEF RangeItem
  <2> QED BY <2>1, <1>1, <1>3, FailRefines
<1>5. CASE ~(Left < n)
  <2>1. stream_pos' = stream_pos + n /\ Proceed(num') /\ mem' = mem /\ input' = input
    BY <1>1, <1>2, <1>5 DEF RangeItem, area, Proceed, env
  <2>2. PICK l \in Labels : l = at
    BY <1>1
  <2> HIDE DEF n
  <2>3. Contents(l, ref[l])' = Slice(input, stream_pos, n)
    <3>0. ref'[l] = [len |-> n, at |-> stream_pos]
      BY <2>2, <1>3, Zenon
    <3>1. ref'[l].at = stream_pos /\ ref'[l].len = n
      BY <3>0
    <3>2. Program[l].op = "range"
      BY <2>2, <1>1, Zenon
    <3> QED BY <3>1, <3>2, <2>1, Zenon DEF Contents, Slice
  <2>4. absData' = Put(absData, at, Slice(input, stream_pos, n))
    BY <2>1, <2>2, <2>3, <1>3, DataAdded
  <2>5. n <= Left
    BY <1>2, <1>5
  <2> QED BY <2>1, <2>4, <2>5, <1>1, <1>2, ReadStep
<1> QED BY <1>4, <1>5

\* A variable is evaluated in one step of the one-shot parser.
LEMMA VarItemRefines ==
    ASSUME ResumeInv, ResumeInv', VarItem
    PROVE  OneShot!ReadItem
<1>1. /\ at \in Labels /\ Program[at].op = "var" /\ Proceed(num')
      /\ UNCHANGED <<ref, mem, stream_pos>> /\ ItemLen(at, num) = 0
      /\ num' = Put(num, at, Truncated(ExprOf(at, num), Program[at].width))
  BY DEF VarItem, AtItem, ItemLen, area
<1>2. Left \in Nat /\ stream_pos \in Nat
  BY <1>1, AtItemFacts
<1>3. absData' = absData
  BY <1>1, DataKept
<1>4. /\ ItemLen(at, num) \in Nat /\ ItemLen(at, num) <= Left
      /\ stream_pos' = stream_pos + ItemLen(at, num)
  BY <1>1, <1>2
<1> QED BY <1>1, <1>3, <1>4, ReadStep

\* A switch jumps in one step of the one-shot parser.
LEMMA SwitchItemRefines ==
    ASSUME ResumeInv, ResumeInv', SwitchItem
    PROVE  OneShot!ReadItem
<1>1. /\ at \in Labels /\ Program[at].op = "switch" /\ Proceed(num')
      /\ UNCHANGED <<ref, mem, stream_pos, num>> /\ ItemLen(at, num) = 0
  BY DEF SwitchItem, AtItem, ItemLen, area, unit
<1>2. Left \in Nat /\ stream_pos \in Nat
  BY <1>1, AtItemFacts
<1>3. absData' = absData
  BY <1>1, DataKept
<1>4. /\ ItemLen(at, num) \in Nat /\ ItemLen(at, num) <= Left
      /\ stream_pos' = stream_pos + ItemLen(at, num)
  BY <1>1, <1>2
<1> QED BY <1>1, <1>3, <1>4, ReadStep

\* Every step of the resumable parser is a step of the one-shot parser or a
\* stuttering step.
LEMMA StepRefines ==
    ASSUME NarrowRanges, ResumeInv, ResumeInv', [Next]_vars
    PROVE  [OneShot!Next]_OneShot!vars
<1> USE DEF OneShot!Next, OneShot!vars
<1>1. CASE Receive
  BY <1>1, ReceiveRefines DEF AbsVars
<1>2. CASE Call
  BY <1>2, CallRefines DEF AbsVars
<1>3. CASE \E keep \in BOOLEAN : NextMessage(keep)
  BY <1>3, NextMessageRefines DEF AbsVars
<1>4. CASE Restart
  BY <1>4, RestartRefines
<1>5. CASE Item
  BY <1>5, IntItemRefines, BytesItemRefines, RangeItemRefines, VarItemRefines,
     SwitchItemRefines DEF Item, AbsVars
<1>6. CASE ReturnDone
  BY <1>6, ReturnDoneRefines
<1>7. CASE UNCHANGED vars
  <2> USE <1>7 DEF vars, env, app, pstate, area, unit
  <2>1. Current' = Current
    BY DEF Current
  <2>2. absData' = absData
    BY <2>1 DEF absData, Delivered, Contents, Slice
  <2> QED
    BY <2>1, <2>2 DEF absStart, absLabel, absPos, absNum, Delivered
<1> QED
  BY <1>1, <1>2, <1>3, <1>4, <1>5, <1>6, <1>7 DEF Next, Application, Parse

\* What parse() delivers is what an interpreter with the whole stream at hand
\* reads: it does not depend on where calls run out of data, on restarts after
\* AREA_FULL, nor on whether bytes are copied or pointed at.  For every unit in
\* which no length of a hidden bytes item turns negative in advance().
THEOREM OneShotImplemented ==
    ASSUME NarrowRanges
    PROVE  Spec => ImplementsOneShot
<1>1. Init => OneShot!Init
  BY InitRefines
<1>2. ResumeInv /\ ResumeInv' /\ [Next]_vars => [OneShot!Next]_OneShot!vars
  BY StepRefines
<1> QED
  BY <1>1, <1>2, ResumeCorrect, PTL DEF Spec, ImplementsOneShot, OneShot!Spec
================================================================================
