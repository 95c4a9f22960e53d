---------------------------- MODULE ParserAreaProofs ---------------------------
(***************************************************************************)
(* Proofs about the memory of the resumable parser: the stack of its       *)
(* ParserState, and the UnitArea that units are allocated in and that the  *)
(* application keeps units in while later messages are parsed, for every   *)
(* stream, area and stack size and every unit that satisfies NarrowRanges. *)
(***************************************************************************)
EXTENDS ResumableParserProofs, SequenceTheorems

\* What a step within parse() leaves alone.
LEMMA ParseFacts ==
    ASSUME ResumeInv, Parse
    PROVE  /\ stack' = stack /\ kept' = kept /\ input' = input
           /\ at # 0 /\ instruction' # 0
           /\ result = "none" /\ result' \in {"none", "OUT_OF_DATA", "AREA_FULL", "DONE"}
<1>1. CASE Item
  <2>1. at \in Labels /\ instruction' = at /\ stack' = stack
    BY <1>1 DEF Item, IntItem, BytesItem, RangeItem, VarItem, SwitchItem, AtItem
  <2>2. at # 0 /\ result = "none"
    BY <2>1, AtItemFacts
  <2>3. \/ \E v : Proceed(v)
        \/ \E r \in {"OUT_OF_DATA", "AREA_FULL"} : Fail(r)
    <3>1. CASE IntItem
      BY <3>1 DEF IntItem
    <3>2. CASE BytesItem
      BY <3>2 DEF BytesItem
    <3>3. CASE RangeItem
      BY <3>3 DEF RangeItem
    <3>4. CASE VarItem
      BY <3>4 DEF VarItem
    <3>5. CASE SwitchItem
      BY <3>5 DEF SwitchItem
    <3> QED BY <1>1, <3>1, <3>2, <3>3, <3>4, <3>5 DEF Item
  <2>4. CASE \E v : Proceed(v)
    BY <2>1, <2>2, <2>4 DEF Proceed, env, app
  <2>5. CASE \E r \in {"OUT_OF_DATA", "AREA_FULL"} : Fail(r)
    BY <2>1, <2>2, <2>5 DEF Fail, Return, env
  <2> QED BY <2>3, <2>4, <2>5
<1>2. CASE ReturnDone
  <2>1. at = End /\ End \in Nat /\ End > 1
    BY <1>2, ProgramAssumption DEF ReturnDone, End
  <2>2. result = "none" /\ instruction # 0
    BY <2>1 DEF ResumeInv, Flow
  <2> QED BY <1>2, <2>1, <2>2 DEF ReturnDone, Return, env, pstate
<1> QED BY <1>1, <1>2 DEF Parse

--------------------------------------------------------------------------------
\* StackBounded made inductive: an application that resets after AREA_FULL calls
\* from the root label with an empty stack only.
StackInv ==
    /\ StackBounded
    /\ ~RetryOnFull /\ at = 0 /\ instruction = 0 /\ result # "AREA_FULL" => stack = <<>>

\* A BlockState that push() accepts ends before the end of the stack.
LEMMA PushFits ==
    ASSUME NEW n \in Nat, NEW b \in Nat, NEW s \in Nat, s - b * n > b
    PROVE  b * (n + 1) < s
<1>1. b * n \in Nat /\ b * (n + 1) = b * n + b
  OBVIOUS
<1> QED BY <1>1

\* Pushing a BlockState keeps the stack invariant; the assertion in push() holds
\* for an application that resets.
LEMMA CallRootStack == ResumeInv /\ StackInv /\ CallRoot => StackInv'
<1> SUFFICES ASSUME ResumeInv, StackInv, CallRoot PROVE StackInv'
  OBVIOUS
<1>1. /\ at = 0 /\ instruction = 0 /\ instruction' = 0 /\ MayCall
      /\ StackSize - BlockSize * Len(stack) > BlockSize
  BY DEF CallRoot, MayCall, HasStackSpace
<1>2. PICK x : /\ stack' = Append(stack, x) /\ x \in Nat \cup {nullptr}
               /\ \/ x = nullptr /\ result' = "AREA_FULL" /\ at' = 0
                  \/ x \in Nat /\ result' = "none" /\ at' = 1
  <2>1. nextAllocPos \in Nat
    BY AreaType
  <2>2. CASE AreaLacks(UnitSize)
    BY <2>2, <1>1 DEF CallRoot
  <2>3. CASE ~AreaLacks(UnitSize)
    BY <2>1, <2>3 DEF CallRoot
  <2> QED BY <2>2, <2>3
<1>3. stack \in Seq(Nat \cup {nullptr}) /\ Len(stack) \in Nat
  BY LenProperties DEF ResumeInv, TypeOK
<1>4. Len(stack') = Len(stack) + 1 /\ stack'[Len(stack')] = x
  BY <1>2, <1>3, AppendProperties
<1>5. BlockSize * Len(stack') < StackSize
  BY <1>1, <1>3, <1>4, PushFits, SizeAssumption
<1>6. ~RetryOnFull => Len(stack) = 0
  BY <1>1 DEF StackInv, MayCall
<1>7. instruction' # 0 \/ at' # 0 => stack'[Len(stack')] # nullptr
  BY <1>1, <1>2, <1>4 DEF nullptr
<1>8. ~RetryOnFull => Len(stack') <= 1 /\ result' # "abort"
  BY <1>2, <1>4, <1>6
<1>9. ~(at' = 0 /\ result' # "AREA_FULL")
  BY <1>2
<1> QED BY <1>5, <1>7, <1>8, <1>9 DEF StackInv, StackBounded

\* Every step keeps the stack invariant.
LEMMA NextStack == ResumeInv /\ StackInv /\ [Next]_vars => StackInv'
<1> SUFFICES ASSUME ResumeInv, StackInv, [Next]_vars PROVE StackInv'
  OBVIOUS
<1>1. CASE Receive \/ UNCHANGED vars
  <2>1. stack' = stack /\ at' = at /\ instruction' = instruction /\ result' = result
    BY <1>1 DEF Receive, vars, app, pstate
  <2> QED BY <2>1 DEF StackInv, StackBounded
<1>2. CASE CallResume
  <2>1. /\ stack' = stack /\ at' # 0 /\ instruction' = instruction /\ instruction # 0
        /\ result' = "none"
    BY <1>2 DEF CallResume, pstate
  <2> QED BY <2>1 DEF StackInv, StackBounded
<1>3. CASE CallRoot
  BY <1>3, CallRootStack
<1>4. CASE CallAbort
  <2>1. /\ stack' = stack /\ at' = at /\ instruction' = instruction /\ at = 0 /\ MayCall
        /\ instruction = 0 /\ ~(StackSize - BlockSize * Len(stack) > BlockSize)
    BY <1>4 DEF CallAbort, pstate, HasStackSpace, MayCall
  <2>2. RetryOnFull
    <3> SUFFICES ASSUME ~RetryOnFull PROVE FALSE
      OBVIOUS
    <3>1. stack = <<>>
      BY <2>1 DEF StackInv, MayCall
    <3>2. BlockSize * Len(stack) = 0
      BY <3>1, SizeAssumption
    <3> QED BY <2>1, <3>2, SizeAssumption
  <2> QED BY <2>1, <2>2 DEF StackInv, StackBounded
<1>5. CASE (\E keep \in BOOLEAN : NextMessage(keep)) \/ Restart
  <2>1. at' = 0 /\ instruction' = 0 /\ stack' = <<>> /\ result' = "none"
    BY <1>5 DEF NextMessage, Restart, ResetState
  <2>2. Len(stack') = 0 /\ BlockSize * Len(stack') = 0
    BY <2>1, SizeAssumption
  <2> QED BY <2>1, <2>2, SizeAssumption DEF StackInv, StackBounded
<1>6. CASE Parse
  <2>1. stack' = stack /\ at # 0 /\ instruction' # 0 /\ result' # "abort"
    BY <1>6, ParseFacts
  <2> QED BY <2>1 DEF StackInv, StackBounded
<1> QED BY <1>1, <1>2, <1>3, <1>4, <1>5, <1>6 DEF Next, Application, Call

\* An empty stack has room for a BlockState.
LEMMA InitStack == Init => StackInv
<1> SUFFICES ASSUME Init PROVE StackInv
  OBVIOUS
<1>1. stack = <<>> /\ Len(stack) = 0 /\ at = 0 /\ instruction = 0 /\ result = "none"
  BY DEF Init
<1>2. BlockSize * Len(stack) < StackSize
  BY <1>1, SizeAssumption
<1> QED BY <1>1, <1>2 DEF StackInv, StackBounded

\* push() never writes past the stack, a resumed call finds its unit, and the
\* assertion in push() fails for no application that resets after AREA_FULL.
THEOREM StackCorrect ==
    ASSUME NarrowRanges
    PROVE  Spec => []StackBounded
<1>1. Init => ResumeInv /\ StackInv
  BY InitResumeInv, InitStack
<1>2. (ResumeInv /\ StackInv) /\ [Next]_vars => (ResumeInv /\ StackInv)'
  BY NextResumeInv, NextStack
<1>3. ResumeInv /\ StackInv => StackBounded
  BY DEF StackInv
<1> QED BY <1>1, <1>2, <1>3, PTL DEF Spec

--------------------------------------------------------------------------------
\* allocateCopyBytes() gave the member of this label n bytes of the area.
Copied(n) ==
    /\ nextAllocPos' = nextAllocPos + n /\ mem' = Memcpy(nextAllocPos, n)
    /\ at \in DOMAIN ref' /\ ref'[at] = [len |-> n, at |-> nextAllocPos]

\* What one item does to the members and to the area.
LEMMA ItemEffects ==
    ASSUME ResumeInv, Item
    PROVE  /\ at \in Labels /\ instruction' = at /\ result = "none"
           /\ DOMAIN ref' \cup {at} = DOMAIN ref \cup {at}
           /\ \A j \in DOMAIN ref : j # at => ref'[j] = ref[j]
           /\ \/ /\ at' = 0 /\ result' \in {"OUT_OF_DATA", "AREA_FULL"}
                 /\ nextAllocPos' = nextAllocPos /\ mem' = mem
              \/ /\ at' \in Nat /\ at' > at /\ result' = "none"
                 /\ \/ /\ Program[at].op # "bytes"
                       /\ nextAllocPos' = nextAllocPos /\ mem' = mem
                    \/ Program[at].op = "bytes" /\ \E n \in Nat : Copied(n)
<1>1. at \in Labels /\ instruction' = at
  BY DEF Item, IntItem, BytesItem, RangeItem, VarItem, SwitchItem, AtItem
<1>2. result = "none" /\ at \in Nat
  BY <1>1, AtItemFacts
<1>3. ASSUME NEW v, Proceed(v) PROVE at' \in Nat /\ at' > at /\ result' = "none"
  <2>1. FlowsTo(at, Jump(at, v)) /\ at' = Jump(at, v) /\ result' = result
    BY <1>1, <1>3, JumpType DEF Proceed, app
  <2>2. at' \in (at + 1)..End
    BY <2>1 DEF FlowsTo
  <2> QED BY <2>1, <2>2, <1>2 DEF End
<1>4. ASSUME NEW r \in {"OUT_OF_DATA", "AREA_FULL"}, Fail(r)
      PROVE  /\ at' = 0 /\ result' \in {"OUT_OF_DATA", "AREA_FULL"}
             /\ nextAllocPos' = nextAllocPos /\ mem' = mem
  BY <1>4 DEF Fail, Return, area
<1>5. ASSUME NEW x, ref' = Put(ref, at, x)
      PROVE  /\ DOMAIN ref' = DOMAIN ref \cup {at} /\ ref'[at] = x
             /\ \A j \in DOMAIN ref : j # at => ref'[j] = ref[j]
  BY <1>5 DEF Put
<1>6. CASE IntItem
  <2>1. ref' = ref /\ Program[at].op = "int"
    BY <1>6 DEF IntItem, AtItem, unit
  <2>2. Fail("OUT_OF_DATA") \/ (Proceed(num') /\ nextAllocPos' = nextAllocPos /\ mem' = mem)
    BY <1>6 DEF IntItem, area
  <2> QED BY <1>1, <1>2, <1>3, <1>4, <2>1, <2>2
<1>7. CASE BytesItem
  <2> DEFINE n == ItemLen(at, num)
             data == IF at \in DOMAIN ref THEN ref[at].at ELSE nullptr
  <2>1. Program[at].op = "bytes"
    BY <1>7 DEF BytesItem, AtItem
  <2>2. n \in Nat
    BY <1>1, <2>1, AtItemFacts, LenType
  <2>3. \/ /\ \E r \in {"OUT_OF_DATA", "AREA_FULL"} : Fail(r)
           /\ ref' = Put(ref, at, [len |-> n, at |-> data])
        \/ /\ Proceed(num) /\ nextAllocPos' = nextAllocPos + n /\ mem' = Memcpy(nextAllocPos, n)
           /\ ref' = Put(ref, at, [len |-> n, at |-> nextAllocPos])
    BY <1>7 DEF BytesItem, Allocated
  <2> HIDE DEF n, data
  <2>4. CASE /\ \E r \in {"OUT_OF_DATA", "AREA_FULL"} : Fail(r)
             /\ ref' = Put(ref, at, [len |-> n, at |-> data])
    BY <1>1, <1>2, <1>4, <1>5, <2>4
  <2>5. CASE /\ Proceed(num) /\ nextAllocPos' = nextAllocPos + n /\ mem' = Memcpy(nextAllocPos, n)
             /\ ref' = Put(ref, at, [len |-> n, at |-> nextAllocPos])
    <3>1. /\ DOMAIN ref' = DOMAIN ref \cup {at} /\ ref'[at] = [len |-> n, at |-> nextAllocPos]
          /\ \A j \in DOMAIN ref : j # at => ref'[j] = ref[j]
      BY <1>5, <2>5
    <3>2. Copied(n)
      BY <2>5, <3>1 DEF Copied
    <3> QED BY <1>1, <1>2, <1>3, <2>1, <2>2, <2>5, <3>1, <3>2
  <2> QED BY <2>3, <2>4, <2>5
<1>8. CASE RangeItem
  <2>1. Program[at].op = "range" /\ \E x : ref' = Put(ref, at, x)
    BY <1>8 DEF RangeItem, AtItem
  <2>2. Fail("OUT_OF_DATA") \/ (Proceed(num) /\ nextAllocPos' = nextAllocPos /\ mem' = mem)
    BY <1>8 DEF RangeItem, area
  <2> QED BY <1>1, <1>2, <1>3, <1>4, <1>5, <2>1, <2>2
<1>9. CASE VarItem \/ SwitchItem
  <2>1. ref' = ref /\ Program[at].op # "bytes" /\ nextAllocPos' = nextAllocPos /\ mem' = mem
    BY <1>9 DEF VarItem, SwitchItem, AtItem, unit, area
  <2>2. \E v : Proceed(v)
    BY <1>9 DEF VarItem, SwitchItem
  <2> QED BY <1>1, <1>2, <1>3, <2>1, <2>2
<1> QED BY <1>6, <1>7, <1>8, <1>9 DEF Item

--------------------------------------------------------------------------------
\* Regions, taken apart: the struct of a unit and the bytes its members J have,
\* of the kept units and of the current one.
Piece(id, l, lo, n) == [unit |-> id, label |-> l, lo |-> lo, hi |-> lo + n]
Pieces(id, addr, r, J) ==
    {Piece(id, 0, addr, UnitSize)} \cup {Piece(id, i, r[i].at, r[i].len) : i \in J}
BytesIn(r) == {j \in DOMAIN r : Program[j].op = "bytes"}
InUse == {j \in BytesIn(ref) : Stored(j)}
KeptPieces ==
    UNION {Pieces(k, kept[k].addr, kept[k].ref, BytesIn(kept[k].ref)) : k \in 1..Len(kept)}
CurrentPieces ==
    IF instruction = 0 /\ at = 0 THEN {} ELSE Pieces(0, stack[Len(stack)], ref, InUse)

\* What is in use is what the kept units and the current one have.
LEMMA RegionsSplit == Regions = KeptPieces \cup CurrentPieces
<1>1. ASSUME NEW k \in 1..Len(kept)
      PROVE  RegionsOf(k, kept[k].addr, kept[k].ref)
                = Pieces(k, kept[k].addr, kept[k].ref, BytesIn(kept[k].ref))
  <2> DEFINE r == kept[k].ref
  <2>1. k # 0
    OBVIOUS
  <2>2. {j \in DOMAIN r : Program[j].op = "bytes" /\ (k = 0 => Stored(j))} = BytesIn(r)
    BY <2>1 DEF BytesIn
  <2> HIDE DEF r
  <2>3. RegionsOf(k, kept[k].addr, r) = Pieces(k, kept[k].addr, r, BytesIn(r))
    BY <2>2, Zenon DEF RegionsOf, Pieces, Piece
  <2> QED BY <2>3, Zenon DEF r
<1>2. RegionsOf(0, stack[Len(stack)], ref) = Pieces(0, stack[Len(stack)], ref, InUse)
  <2>1. {j \in DOMAIN ref : Program[j].op = "bytes" /\ (0 = 0 => Stored(j))} = InUse
    BY DEF BytesIn, InUse
  <2> QED BY <2>1, Zenon DEF RegionsOf, Pieces, Piece
<1>3. (UNION {RegionsOf(k, kept[k].addr, kept[k].ref) : k \in 1..Len(kept)}) = KeptPieces
  BY <1>1 DEF KeptPieces
<1> QED BY <1>2, <1>3, Zenon DEF Regions, CurrentPieces

\* The same in the next state.
LEMMA RegionsSplitNext == Regions' = KeptPieces' \cup CurrentPieces'
<1>1. (Regions = KeptPieces \cup CurrentPieces)'
  BY RegionsSplit, PTL
<1> QED BY <1>1

\* The pieces S tile the first n bytes of the area.
Tiled(S, n) ==
    /\ \A a \in 0..(n - 1) : \E r \in S : r.lo <= a /\ a < r.hi
    /\ \A r \in S : r.hi <= n
    /\ \A r, s \in S : r = s \/ r.hi <= s.lo \/ s.hi <= r.lo
Measured(S) == \A r \in S : r.lo \in Nat /\ r.hi \in Nat

\* Taking the next k bytes extends a tiling.
LEMMA TiledExtended ==
    ASSUME NEW S, NEW n \in Nat, NEW k \in Nat, NEW x, x.lo = n, x.hi = n + k,
           Measured(S), Tiled(S, n)
    PROVE  Tiled(S \cup {x}, n + k)
<1>1. ASSUME NEW a \in 0..(n + k - 1) PROVE \E r \in S \cup {x} : r.lo <= a /\ a < r.hi
  <2>1. CASE a \in 0..(n - 1)
    BY <2>1 DEF Tiled
  <2>2. CASE a \notin 0..(n - 1)
    <3>1. x.lo <= a /\ a < x.hi
      BY <2>2
    <3> QED BY <3>1
  <2> QED BY <2>1, <2>2
<1>2. ASSUME NEW r \in S \cup {x} PROVE r.hi <= n + k
  <2>1. CASE r \in S
    BY <2>1 DEF Tiled, Measured
  <2>2. CASE r = x
    BY <2>2
  <2> QED BY <2>1, <2>2
<1>3. ASSUME NEW r \in S \cup {x}, NEW s \in S \cup {x}
      PROVE  r = s \/ r.hi <= s.lo \/ s.hi <= r.lo
  <2>1. CASE r \in S /\ s \in S
    BY <2>1 DEF Tiled
  <2>2. CASE r = x /\ s \in S
    BY <2>2 DEF Tiled
  <2>3. CASE r \in S /\ s = x
    BY <2>3 DEF Tiled
  <2>4. CASE r = x /\ s = x
    BY <2>4
  <2> QED BY <2>1, <2>2, <2>3, <2>4
<1> QED BY <1>1, <1>2, <1>3 DEF Tiled

\* Pieces that are renamed still tile what they tiled.
LEMMA TiledRenamed ==
    ASSUME NEW S, NEW T, NEW n \in Nat, NEW f, Tiled(S, n),
           \A r \in S : f[r] \in T /\ f[r].lo = r.lo /\ f[r].hi = r.hi,
           \A t \in T : \E r \in S : t = f[r]
    PROVE  Tiled(T, n)
<1>1. ASSUME NEW a \in 0..(n - 1) PROVE \E t \in T : t.lo <= a /\ a < t.hi
  BY DEF Tiled
<1>2. ASSUME NEW t \in T PROVE t.hi <= n
  BY DEF Tiled
<1>3. ASSUME NEW t \in T, NEW u \in T PROVE t = u \/ t.hi <= u.lo \/ u.hi <= t.lo
  <2>1. PICK r \in S : t = f[r]
    OBVIOUS
  <2>2. PICK s \in S : u = f[s]
    OBVIOUS
  <2> QED BY <2>1, <2>2 DEF Tiled
<1> QED BY <1>1, <1>2, <1>3 DEF Tiled

--------------------------------------------------------------------------------
\* The kept units: their members have bytes, all of them in the allocated part.
Members(S) == UNION {[D -> S] : D \in SUBSET Labels}
KeptUnit == [addr : Nat, num : Members(Nat), ref : Members(Ref)]
InArea(r, n) ==
    \A i \in DOMAIN r :
        /\ Program[i].op \in {"bytes", "range"}
        /\ Program[i].op = "bytes" => r[i].at \in Nat /\ r[i].at + r[i].len <= n
KeptInv ==
    /\ kept \in Seq(KeptUnit)
    /\ \A k \in 1..Len(kept) : InArea(kept[k].ref, nextAllocPos)

\* Members of a unit as a set of functions.
LEMMA MembersType ==
    ASSUME NEW S, NEW f, DOMAIN f \subseteq Labels, f \in [DOMAIN f -> S]
    PROVE  f \in Members(S)
BY DEF Members

\* The references of a kept unit.
LEMMA KeptRefs ==
    ASSUME NEW u \in KeptUnit, NEW i \in DOMAIN u.ref
    PROVE  i \in Labels /\ u.ref[i] \in Ref
BY DEF KeptUnit, Members

\* More allocated area keeps the kept units in it.
LEMMA InAreaGrows ==
    ASSUME NEW u \in KeptUnit, NEW n \in Nat, NEW m \in Nat, n <= m, InArea(u.ref, n)
    PROVE  InArea(u.ref, m)
<1> SUFFICES ASSUME NEW i \in DOMAIN u.ref, Program[i].op = "bytes"
             PROVE  u.ref[i].at + u.ref[i].len <= m
  BY DEF InArea
<1>1. u.ref[i].len \in Nat /\ u.ref[i].at \in Nat /\ u.ref[i].at + u.ref[i].len <= n
  BY KeptRefs DEF InArea, Ref
<1> QED BY <1>1

\* The unit that a DONE delivered is one the application may keep.
LEMMA DeliveredUnit ==
    ASSUME ResumeInv, StackInv, result = "DONE"
    PROVE  /\ [addr |-> stack[Len(stack)], num |-> num, ref |-> ref] \in KeptUnit
           /\ InArea(ref, nextAllocPos)
<1>1. instruction # 0 /\ stack # <<>>
  BY DEF ResumeInv, Flow
<1>2. stack \in Seq(Nat \cup {nullptr}) /\ Len(stack) \in 1..Len(stack)
  BY <1>1, EmptySeq, LenProperties DEF ResumeInv, TypeOK
<1>3. stack[Len(stack)] \in Nat \cup {nullptr} /\ stack[Len(stack)] # nullptr
  BY <1>1, <1>2, ElementOfSeq DEF StackInv, StackBounded
<1>4. num \in Members(Nat) /\ ref \in Members(Ref)
  <2>1. DOMAIN num \subseteq Labels /\ num \in [DOMAIN num -> Nat]
    BY DEF ResumeInv, TypeOK, Numbers, WidthOf
  <2>2. DOMAIN ref \subseteq Labels /\ ref \in [DOMAIN ref -> Ref]
    BY DEF ResumeInv, TypeOK
  <2> QED BY <2>1, <2>2, MembersType
<1>5. InArea(ref, nextAllocPos)
  <2> SUFFICES ASSUME NEW i \in DOMAIN ref
               PROVE  /\ Program[i].op \in {"bytes", "range"}
                      /\ Program[i].op = "bytes" =>
                            ref[i].at \in Nat /\ ref[i].at + ref[i].len <= nextAllocPos
    BY DEF InArea
  <2>1. ref[i] \in Ref /\ Stored(i)
    BY DEF ResumeInv, TypeOK, Stored
  <2> QED BY <2>1 DEF ResumeInv, Pointers, Ref, nullptr
<1> QED BY <1>3, <1>4, <1>5 DEF KeptUnit

\* Every step either resets the area, keeps the delivered unit, or leaves the kept
\* units as they are while the allocated part grows.
LEMMA KeptFacts ==
    ASSUME ResumeInv, [Next]_vars
    PROVE  \/ kept' = <<>> /\ nextAllocPos' = 0 /\ instruction' = 0 /\ at' = 0
           \/ NextMessage(TRUE)
           \/ /\ kept' = kept /\ input' = input
              /\ nextAllocPos' \in Nat /\ nextAllocPos <= nextAllocPos'
              /\ \A a \in Addr : a < nextAllocPos => mem'[a] = mem[a]
<1> DEFINE Grows == /\ kept' = kept /\ input' = input
                    /\ nextAllocPos' \in Nat /\ nextAllocPos <= nextAllocPos'
                    /\ \A a \in Addr : a < nextAllocPos => mem'[a] = mem[a]
<1>0. nextAllocPos \in Nat
  BY AreaType
<1>a. ASSUME kept' = kept, input' = input, mem' = mem, NEW n \in Nat,
             nextAllocPos' = nextAllocPos + n
      PROVE  Grows
  <2>1. nextAllocPos' \in Nat /\ nextAllocPos <= nextAllocPos'
    BY <1>0, <1>a
  <2> QED BY <1>a, <2>1
<1>b. ASSUME kept' = kept, input' = input, mem' = mem, nextAllocPos' = nextAllocPos
      PROVE  Grows
  BY <1>0, <1>b
<1> HIDE DEF Grows
<1>1. CASE Receive \/ UNCHANGED vars
  <2>1. kept' = kept /\ input' = input /\ mem' = mem /\ nextAllocPos' = nextAllocPos
    BY <1>1, Zenon DEF Receive, vars, env, app, area
  <2> QED BY <1>b, <2>1, Zenon DEF Grows
<1>2. CASE CallResume \/ CallAbort
  <2>1. kept' = kept /\ input' = input /\ mem' = mem /\ nextAllocPos' = nextAllocPos
    BY <1>2, Zenon DEF CallResume, CallAbort, env, area
  <2> QED BY <1>b, <2>1, Zenon DEF Grows
<1>3. CASE CallRoot
  <2>1. kept' = kept /\ input' = input /\ mem' = mem
    BY <1>3 DEF CallRoot, env
  <2>2. nextAllocPos' = nextAllocPos \/ nextAllocPos' = nextAllocPos + UnitSize
    BY <1>3 DEF CallRoot, Allocated
  <2>3. Grows
    BY <1>a, <1>b, <2>1, <2>2, SizeAssumption
  <2> QED BY <2>3, Zenon DEF Grows
<1>4. CASE \E keep \in BOOLEAN : NextMessage(keep)
  <2>1. PICK keep \in BOOLEAN : NextMessage(keep)
    BY <1>4
  <2>2. CASE keep
    BY <2>1, <2>2, Zenon
  <2>3. CASE ~keep
    BY <2>1, <2>3 DEF NextMessage, ResetArea, ResetState
  <2> QED BY <2>2, <2>3, Zenon
<1>5. CASE Restart
  BY <1>5 DEF Restart, ResetArea, ResetState
<1>6. CASE ReturnDone
  <2>1. kept' = kept /\ input' = input /\ mem' = mem /\ nextAllocPos' = nextAllocPos
    BY <1>6, Zenon DEF ReturnDone, Return, env, area
  <2> QED BY <1>b, <2>1, Zenon DEF Grows
<1>7. CASE Item
  <2>1. kept' = kept /\ input' = input
    BY <1>7, ParseFacts DEF Parse
  <2>2. CASE nextAllocPos' = nextAllocPos /\ mem' = mem
    BY <1>b, <2>1, <2>2, Zenon DEF Grows
  <2>3. CASE \E n \in Nat : Copied(n)
    <3>1. PICK n \in Nat : Copied(n)
      BY <2>3
    <3>2. nextAllocPos' \in Nat /\ nextAllocPos <= nextAllocPos'
      BY <1>0, <3>1 DEF Copied
    <3>3. \A a \in Addr : a < nextAllocPos => mem'[a] = mem[a]
      BY <1>0, <3>1, SizeAssumption DEF Copied, Memcpy, Addr
    <3> QED BY <2>1, <3>2, <3>3, Zenon
  <2> QED BY <1>7, <2>2, <2>3, ItemEffects, Zenon
<1> QED BY <1>1, <1>2, <1>3, <1>4, <1>5, <1>6, <1>7, Zenon
        DEF Next, Application, Call, Parse

\* Every step keeps the kept units in the allocated part of the area.
LEMMA NextKept == ResumeInv /\ StackInv /\ KeptInv /\ [Next]_vars => KeptInv'
<1> SUFFICES ASSUME ResumeInv, StackInv, KeptInv, [Next]_vars PROVE KeptInv'
  OBVIOUS
<1>1. CASE kept' = <<>>
  <2>1. kept' \in Seq(KeptUnit) /\ Len(kept') = 0
    BY <1>1
  <2> QED BY <2>1 DEF KeptInv
<1>2. CASE NextMessage(TRUE)
  <2> DEFINE u == [addr |-> stack[Len(stack)], num |-> num, ref |-> ref]
  <2>1. kept' = Append(kept, u) /\ nextAllocPos' = nextAllocPos /\ result = "DONE"
    BY <1>2 DEF NextMessage, area
  <2>2. u \in KeptUnit /\ InArea(u.ref, nextAllocPos)
    BY <2>1, DeliveredUnit
  <2>3. kept \in Seq(KeptUnit) /\ Len(kept) \in Nat
    BY LenProperties DEF KeptInv
  <2> HIDE DEF u
  <2>4. /\ kept' \in Seq(KeptUnit) /\ Len(kept') = Len(kept) + 1
        /\ kept'[Len(kept) + 1] = u
        /\ \A k \in 1..Len(kept) : kept'[k] = kept[k]
    BY <2>1, <2>2, <2>3, AppendProperties
  <2>5. ASSUME NEW k \in 1..Len(kept') PROVE InArea(kept'[k].ref, nextAllocPos)
    <3>1. CASE k \in 1..Len(kept)
      BY <2>4, <3>1 DEF KeptInv
    <3>2. CASE k = Len(kept) + 1
      BY <2>2, <2>4, <3>2
    <3> QED BY <2>3, <2>4, <3>1, <3>2
  <2> QED BY <2>1, <2>4, <2>5 DEF KeptInv
<1>3. CASE kept' = kept /\ nextAllocPos' \in Nat /\ nextAllocPos <= nextAllocPos'
  <2>1. ASSUME NEW k \in 1..Len(kept) PROVE InArea(kept[k].ref, nextAllocPos')
    <3>1. kept[k] \in KeptUnit /\ InArea(kept[k].ref, nextAllocPos)
      BY ElementOfSeq DEF KeptInv
    <3> QED BY <1>3, <3>1, InAreaGrows, AreaType
  <2> QED BY <1>3, <2>1 DEF KeptInv
<1> QED BY <1>1, <1>2, <1>3, KeptFacts, Zenon

--------------------------------------------------------------------------------
\* The pieces in use have a start and an end in the area.
LEMMA RegionsMeasured ==
    ASSUME ResumeInv, StackInv, KeptInv
    PROVE  Measured(Regions)
<1> SUFFICES ASSUME NEW r \in KeptPieces \cup CurrentPieces
             PROVE  r.lo \in Nat /\ r.hi \in Nat
  BY RegionsSplit DEF Measured
<1>1. ASSUME NEW id, NEW l, NEW lo \in Nat, NEW n \in Nat, r = Piece(id, l, lo, n)
      PROVE  r.lo \in Nat /\ r.hi \in Nat
  BY <1>1 DEF Piece
<1>2. CASE r \in KeptPieces
  <2>1. PICK k \in 1..Len(kept) : r \in Pieces(k, kept[k].addr, kept[k].ref, BytesIn(kept[k].ref))
    BY <1>2 DEF KeptPieces
  <2>2. kept[k] \in KeptUnit /\ InArea(kept[k].ref, nextAllocPos)
    BY ElementOfSeq DEF KeptInv
  <2>3. kept[k].addr \in Nat
    BY <2>2 DEF KeptUnit
  <2>4. \A i \in BytesIn(kept[k].ref) : kept[k].ref[i].at \in Nat /\ kept[k].ref[i].len \in Nat
    BY <2>2, KeptRefs DEF BytesIn, InArea, Ref
  <2> QED BY <1>1, <2>1, <2>3, <2>4, SizeAssumption DEF Pieces
<1>3. CASE r \in CurrentPieces
  <2>1. (instruction # 0 \/ at # 0) /\ r \in Pieces(0, stack[Len(stack)], ref, InUse)
    BY <1>3 DEF CurrentPieces
  <2>2. stack \in Seq(Nat \cup {nullptr}) /\ stack # <<>>
    BY <2>1 DEF ResumeInv, TypeOK, Flow
  <2>3. Len(stack) \in 1..Len(stack)
    BY <2>2, EmptySeq, LenProperties
  <2>4. stack[Len(stack)] \in Nat
    BY <2>1, <2>2, <2>3, ElementOfSeq DEF StackInv, StackBounded
  <2>5. \A i \in InUse : ref[i].at \in Nat /\ ref[i].len \in Nat
    <3> SUFFICES ASSUME NEW i \in InUse PROVE ref[i].at \in Nat /\ ref[i].len \in Nat
      OBVIOUS
    <3>1. i \in DOMAIN ref /\ Program[i].op = "bytes" /\ Stored(i)
      BY DEF InUse, BytesIn
    <3>2. ref[i] \in Ref /\ 0 <= ref[i].at
      BY <3>1 DEF ResumeInv, TypeOK, Pointers
    <3> QED BY <3>2 DEF Ref, nullptr
  <2> QED BY <1>1, <2>1, <2>4, <2>5, SizeAssumption DEF Pieces
<1> QED BY <1>2, <1>3

\* Pieces depend only on the references of the members that are in use.
LEMMA SamePieces ==
    ASSUME NEW a, NEW r, NEW s, NEW J, \A j \in J : r[j] = s[j]
    PROVE  Pieces(0, a, r, J) = Pieces(0, a, s, J)
BY DEF Pieces, Piece

\* A step that keeps the members in use keeps the pieces in use.
LEMMA SameRegions ==
    ASSUME kept' = kept, stack' = stack,
           (instruction' = 0 /\ at' = 0) <=> (instruction = 0 /\ at = 0),
           InUse' = InUse, \A j \in InUse : ref'[j] = ref[j]
    PROVE  Regions' = Regions
<1>1. Regions = KeptPieces \cup CurrentPieces /\ Regions' = KeptPieces' \cup CurrentPieces'
  BY RegionsSplit, RegionsSplitNext
<1>2. KeptPieces' = KeptPieces
  BY DEF KeptPieces
<1>3. Pieces(0, stack[Len(stack)], ref', InUse) = Pieces(0, stack[Len(stack)], ref, InUse)
  BY SamePieces
<1>4. CurrentPieces' = CurrentPieces
  BY <1>3, Zenon DEF CurrentPieces
<1> QED BY <1>1, <1>2, <1>4

\* Calls that allocate nothing, bytes that arrive and the return with DONE leave
\* every piece with its unit.
LEMMA QuietStep ==
    ASSUME ResumeInv,
           Receive \/ UNCHANGED vars \/ CallResume \/ CallAbort \/ ReturnDone
    PROVE  Regions' = Regions /\ nextAllocPos' = nextAllocPos
<1>1. kept' = kept /\ stack' = stack /\ ref' = ref /\ nextAllocPos' = nextAllocPos
  BY Zenon DEF Receive, vars, app, pstate, unit, area, CallResume, CallAbort, ReturnDone, Return
<1>2. /\ (instruction' = 0 /\ at' = 0) <=> (instruction = 0 /\ at = 0)
      /\ InUse' = InUse
  <2>1. CASE Receive \/ UNCHANGED vars
    <3>1. instruction' = instruction /\ at' = at /\ result' = result
      BY <2>1, Zenon DEF Receive, vars, app, pstate
    <3> QED BY <1>1, <3>1, Zenon DEF InUse, BytesIn, Stored, Current
  <2>2. CASE CallResume
    <3>1. at = 0 /\ instruction # 0 /\ instruction' = instruction /\ at' = instruction
      BY <2>2, Zenon DEF CallResume, MayCall, pstate
    <3>2. result # "DONE" /\ result' # "DONE"
      BY <2>2 DEF CallResume, MayCall
    <3>3. \A j : Stored(j)' <=> Stored(j)
      BY <3>1, <3>2 DEF Stored, Current
    <3> QED BY <1>1, <3>1, <3>3 DEF InUse, BytesIn
  <2>3. CASE CallAbort
    <3>1. at = 0 /\ instruction = 0 /\ instruction' = instruction /\ at' = at
      BY <2>3, Zenon DEF CallAbort, MayCall, pstate
    <3>2. DOMAIN ref = {}
      BY <3>1 DEF ResumeInv, Flow, NoMembers
    <3> QED BY <1>1, <3>1, <3>2 DEF InUse, BytesIn
  <2>4. CASE ReturnDone
    <3>1. at = End /\ End > 1 /\ instruction' = instruction /\ result' = "DONE"
      BY <2>4, ProgramAssumption DEF ReturnDone, Return, pstate, End
    <3>2. at \in Nat /\ at # 0 /\ instruction # 0 /\ instruction' # 0
      BY <3>1 DEF ResumeInv, Flow, TypeOK
    <3>3. \A j \in DOMAIN ref : Stored(j) /\ Stored(j)'
      BY <3>1, <3>2 DEF ResumeInv, TypeOK, Labels, End, Stored, Current
    <3> QED BY <1>1, <3>1, <3>2, <3>3 DEF InUse, BytesIn
  <2> QED BY <2>1, <2>2, <2>3, <2>4
<1> QED BY <1>1, <1>2, SameRegions

\* parse() from the root takes the unit's struct from the area, or nothing.
LEMMA RootTiled ==
    ASSUME ResumeInv, StackInv, KeptInv, AreaTiled, CallRoot
    PROVE  AreaTiled'
<1>1. /\ at = 0 /\ instruction = 0 /\ instruction' = 0 /\ kept' = kept /\ ref' = ref
      /\ nextAllocPos \in Nat /\ stack \in Seq(Nat \cup {nullptr})
  <2>1. nextAllocPos \in Nat
    BY AreaType
  <2> QED BY <2>1, Zenon DEF CallRoot, MayCall, unit, ResumeInv, TypeOK
<1>2. CurrentPieces = {} /\ KeptPieces' = KeptPieces /\ DOMAIN ref = {}
  BY <1>1 DEF CurrentPieces, KeptPieces, ResumeInv, Flow, NoMembers
<1>3. Regions = KeptPieces
  BY <1>2, RegionsSplit
<1>4. CASE AreaLacks(UnitSize)
  <2>1. at' = 0 /\ nextAllocPos' = nextAllocPos
    BY <1>1, <1>4 DEF CallRoot
  <2>2. CurrentPieces' = {}
    BY <1>1, <2>1 DEF CurrentPieces
  <2>3. Regions' = Regions
    BY <1>2, <1>3, <2>2, RegionsSplitNext
  <2> QED BY <2>1, <2>3, Zenon DEF AreaTiled
<1>5. CASE ~AreaLacks(UnitSize)
  <2> DEFINE x == Piece(0, 0, nextAllocPos, UnitSize)
  <2>1. /\ at' = 1 /\ nextAllocPos' = nextAllocPos + UnitSize
        /\ stack' = Append(stack, nextAllocPos)
    BY <1>1, <1>5 DEF CallRoot, Allocated
  <2>2. stack'[Len(stack')] = nextAllocPos
    BY <1>1, <2>1
  <2>3. InUse' = {}
    BY <1>1, <1>2 DEF InUse, BytesIn
  <2>4. CurrentPieces' = {x}
    BY <2>1, <2>2, <2>3 DEF CurrentPieces, Pieces
  <2>5. Regions' = Regions \cup {x}
    BY <1>2, <1>3, <2>4, RegionsSplitNext
  <2>6. x.lo = nextAllocPos /\ x.hi = nextAllocPos + UnitSize /\ UnitSize \in Nat
    BY SizeAssumption DEF Piece
  <2>7. Measured(Regions) /\ Tiled(Regions, nextAllocPos)
    BY RegionsMeasured DEF AreaTiled, Tiled
  <2> HIDE DEF x
  <2>8. Tiled(Regions \cup {x}, nextAllocPos + UnitSize)
    BY <1>1, <2>6, <2>7, TiledExtended
  <2>9. Tiled(Regions', nextAllocPos')
    BY <2>1, <2>5, <2>8
  <2> QED BY <2>9 DEF Tiled, AreaTiled
<1> QED BY <1>4, <1>5

\* An item that fails or is not bytes leaves every piece with its unit; a bytes
\* item that succeeds adds the piece it copied to.
LEMMA ItemTiled ==
    ASSUME ResumeInv, StackInv, KeptInv, AreaTiled, Item
    PROVE  AreaTiled'
<1>1. /\ at \in Labels /\ instruction' = at /\ result = "none"
      /\ DOMAIN ref' \cup {at} = DOMAIN ref \cup {at}
      /\ \A j \in DOMAIN ref : j # at => ref'[j] = ref[j]
  BY ItemEffects
<1>2. kept' = kept /\ stack' = stack
  BY ParseFacts DEF Parse
<1>3. at \in Nat /\ at # 0 /\ nextAllocPos \in Nat /\ Current = at
  BY <1>1, AtItemFacts, AreaType DEF Current
<1>4. \A j \in DOMAIN ref \cup {at} : j \in Nat /\ j <= at
  <2>1. \A j \in DOMAIN ref : j \in Labels
    BY DEF ResumeInv, TypeOK
  <2>2. \A j \in DOMAIN ref : j <= at
    BY <1>1, <1>3 DEF ResumeInv, Pointers
  <2> QED BY <1>3, <2>1, <2>2 DEF Labels
<1>5. InUse = {j \in BytesIn(ref) : j < at} /\ at \notin InUse
  BY <1>1, <1>3 DEF InUse, Stored
<1>6. \A j \in InUse : j \in DOMAIN ref /\ j # at /\ j < at /\ j \in DOMAIN ref' /\ ref'[j] = ref[j]
  BY <1>1, <1>5 DEF BytesIn
<1>7. (instruction' = 0 /\ at' = 0) <=> (instruction = 0 /\ at = 0)
  BY <1>1, <1>3
<1>8. CASE /\ at' = 0 /\ result' \in {"OUT_OF_DATA", "AREA_FULL"}
           /\ nextAllocPos' = nextAllocPos
  <2>1. \A j : Stored(j)' <=> j < at
    BY <1>1, <1>3, <1>8 DEF Stored, Current
  <2>2. InUse' = {j \in BytesIn(ref') : j < at}
    BY <2>1 DEF InUse, BytesIn
  <2>3. InUse' = InUse
    BY <1>1, <1>3, <1>5, <2>2 DEF BytesIn
  <2>4. Regions' = Regions
    BY <1>2, <1>6, <1>7, <2>3, SameRegions
  <2> QED BY <1>8, <2>4, Zenon DEF AreaTiled
<1>9. ASSUME at' \in Nat, at' > at, result' = "none"
      PROVE  InUse' = BytesIn(ref')
  <2>1. \A j : Stored(j)' <=> j < at'
    BY <1>3, <1>9 DEF Stored, Current
  <2>2. \A j \in DOMAIN ref' : j < at'
    BY <1>1, <1>3, <1>4, <1>9
  <2> QED BY <2>1, <2>2 DEF InUse, BytesIn
<1>10. CASE /\ at' \in Nat /\ at' > at /\ result' = "none"
            /\ Program[at].op # "bytes" /\ nextAllocPos' = nextAllocPos
  <2>1. InUse' = BytesIn(ref')
    BY <1>9, <1>10
  <2>2. \A j : j \in DOMAIN ref' /\ j # at <=> j \in DOMAIN ref /\ j < at
    BY <1>1, <1>3, <1>4
  <2>3. \A j : Program[j].op = "bytes" => j # at
    BY <1>10
  <2>4. InUse' = InUse
    BY <1>5, <2>1, <2>2, <2>3 DEF BytesIn
  <2>5. Regions' = Regions
    BY <1>2, <1>6, <1>7, <2>4, SameRegions
  <2> QED BY <1>10, <2>5, Zenon DEF AreaTiled
<1>11. CASE /\ at' \in Nat /\ at' > at /\ result' = "none"
            /\ Program[at].op = "bytes" /\ \E n \in Nat : Copied(n)
  <2>1. PICK n \in Nat : Copied(n)
    BY <1>11
  <2>2. /\ nextAllocPos' = nextAllocPos + n
        /\ at \in DOMAIN ref' /\ ref'[at].len = n /\ ref'[at].at = nextAllocPos
    BY <2>1 DEF Copied
  <2>3. InUse' = BytesIn(ref')
    BY <1>9, <1>11
  <2>4. InUse' = InUse \cup {at}
    <3>1. \A j : j \in DOMAIN ref' /\ j # at <=> j \in DOMAIN ref /\ j < at
      BY <1>1, <1>3, <1>4
    <3>2. at \in DOMAIN ref' /\ Program[at].op = "bytes"
      BY <1>11, <2>2
    <3> QED BY <1>5, <2>3, <3>1, <3>2 DEF BytesIn
  <2> DEFINE x == Piece(0, at, nextAllocPos, n)
             top == stack[Len(stack)]
  <2>5. Pieces(0, top, ref', InUse) = Pieces(0, top, ref, InUse)
    BY <1>6, SamePieces
  <2>6. Pieces(0, top, ref', InUse \cup {at}) = Pieces(0, top, ref', InUse) \cup {x}
    BY <2>2 DEF Pieces, Piece
  <2>7. CurrentPieces = Pieces(0, top, ref, InUse)
    BY <1>3 DEF CurrentPieces
  <2>8. CurrentPieces' = Pieces(0, top, ref', InUse \cup {at})
    BY <1>1, <1>2, <1>3, <2>4 DEF CurrentPieces
  <2>9. KeptPieces' = KeptPieces
    BY <1>2 DEF KeptPieces
  <2>10. Regions' = Regions \cup {x}
    BY <2>5, <2>6, <2>7, <2>8, <2>9, RegionsSplit, RegionsSplitNext, Zenon
  <2>11. x.lo = nextAllocPos /\ x.hi = nextAllocPos + n
    BY DEF Piece
  <2>12. Measured(Regions) /\ Tiled(Regions, nextAllocPos)
    BY RegionsMeasured DEF AreaTiled, Tiled
  <2> HIDE DEF x, top
  <2>13. Tiled(Regions \cup {x}, nextAllocPos + n)
    BY <1>3, <2>11, <2>12, TiledExtended
  <2>14. Tiled(Regions', nextAllocPos')
    BY <2>2, <2>10, <2>13
  <2> QED BY <2>14 DEF Tiled, AreaTiled
<1> QED BY <1>8, <1>10, <1>11, ItemEffects

\* A delivered unit that the application keeps takes its pieces along.
LEMMA KeepTiled ==
    ASSUME ResumeInv, StackInv, KeptInv, AreaTiled, NextMessage(TRUE)
    PROVE  AreaTiled'
<1> DEFINE u == [addr |-> stack[Len(stack)], num |-> num, ref |-> ref]
           m == Len(kept) + 1
           f == [r \in Regions |-> IF r.unit = 0
                                   THEN [unit |-> m, label |-> r.label, lo |-> r.lo, hi |-> r.hi]
                                   ELSE r]
<1>1. /\ kept' = Append(kept, u) /\ nextAllocPos' = nextAllocPos /\ result = "DONE"
      /\ at' = 0 /\ instruction' = 0
  BY DEF NextMessage, area, ResetState
<1>2. kept \in Seq(KeptUnit) /\ Len(kept) \in Nat /\ instruction # 0
  BY <1>1, LenProperties DEF KeptInv, ResumeInv, Flow
<1>3. u.addr = stack[Len(stack)] /\ u.ref = ref /\ u \in KeptUnit
  BY <1>1, DeliveredUnit
<1> HIDE DEF u
<1>4. /\ Len(kept') = m /\ kept'[m] = u
      /\ \A k \in 1..Len(kept) : kept'[k] = kept[k]
  <2> HIDE DEF f
  <2>1. /\ Len(Append(kept, u)) = Len(kept) + 1 /\ Append(kept, u)[Len(kept) + 1] = u
        /\ \A k \in 1..Len(kept) : Append(kept, u)[k] = kept[k]
    BY <1>2, <1>3, AppendProperties
  <2> QED BY <1>1, <2>1
<1>5. CurrentPieces' = {} /\ CurrentPieces = Pieces(0, u.addr, ref, BytesIn(ref))
  <2>1. InUse = BytesIn(ref)
    BY <1>1 DEF InUse, Stored
  <2> QED BY <1>1, <1>2, <1>3, <2>1 DEF CurrentPieces
<1>6. Regions' = KeptPieces \cup Pieces(m, u.addr, ref, BytesIn(ref))
  <2> DEFINE P(k) == Pieces(k, kept[k].addr, kept[k].ref, BytesIn(kept[k].ref))
             Q(k) == Pieces(k, kept'[k].addr, kept'[k].ref, BytesIn(kept'[k].ref))
  <2>1. 1..Len(kept') = 1..Len(kept) \cup {m}
    BY <1>2, <1>4
  <2>2. \A k \in 1..Len(kept) : Q(k) = P(k)
    BY <1>4
  <2>3. Q(m) = Pieces(m, u.addr, ref, BytesIn(ref))
    BY <1>3, <1>4
  <2>4. KeptPieces = UNION {P(k) : k \in 1..Len(kept)}
    BY DEF KeptPieces
  <2>5. KeptPieces' = UNION {Q(k) : k \in 1..Len(kept')}
    BY DEF KeptPieces, BytesIn
  <2> HIDE DEF P, Q
  <2>6. KeptPieces' = KeptPieces \cup Q(m)
    BY <2>1, <2>2, <2>4, <2>5
  <2> QED BY <1>5, <2>3, <2>6, RegionsSplitNext
<1>7. \A r \in KeptPieces : r.unit # 0
  <2>1. ASSUME NEW k \in 1..Len(kept), NEW a, NEW q, NEW J, NEW r \in Pieces(k, a, q, J)
        PROVE  r.unit = k /\ k # 0
    BY DEF Pieces, Piece
  <2> QED BY <2>1 DEF KeptPieces
<1>8. ASSUME NEW r \in Regions
      PROVE  f[r] \in Regions' /\ f[r].lo = r.lo /\ f[r].hi = r.hi
  <2>1. CASE r \in KeptPieces
    BY <1>6, <1>7, <2>1
  <2>2. CASE r \in CurrentPieces
    <3>1. PICK l, lo, n : /\ r = Piece(0, l, lo, n)
                          /\ Piece(m, l, lo, n) \in Pieces(m, u.addr, ref, BytesIn(ref))
      BY <1>5, <2>2 DEF Pieces
    <3>2. f[r] = Piece(m, l, lo, n)
      BY <3>1 DEF Piece
    <3>3. f[r].lo = r.lo /\ f[r].hi = r.hi
      BY <3>1, <3>2 DEF Piece
    <3> QED BY <1>6, <3>1, <3>2, <3>3
  <2> QED BY <2>1, <2>2, RegionsSplit
<1>9. ASSUME NEW t \in Regions' PROVE \E r \in Regions : t = f[r]
  <2>1. CASE t \in KeptPieces
    BY <1>7, <2>1, RegionsSplit, Zenon
  <2>2. CASE t \in Pieces(m, u.addr, ref, BytesIn(ref))
    <3>1. PICK l, lo, n : /\ t = Piece(m, l, lo, n)
                          /\ Piece(0, l, lo, n) \in Pieces(0, u.addr, ref, BytesIn(ref))
      BY <2>2 DEF Pieces
    <3>2. Piece(0, l, lo, n) \in Regions
      BY <1>5, <3>1, RegionsSplit
    <3>3. f[Piece(0, l, lo, n)] = t
      BY <3>1, <3>2 DEF Piece
    <3> QED BY <3>2, <3>3
  <2> QED BY <1>6, <2>1, <2>2
<1> HIDE DEF f, m
<1>10. Tiled(Regions, nextAllocPos) /\ nextAllocPos \in Nat
  BY AreaType DEF AreaTiled, Tiled
<1>11. Tiled(Regions', nextAllocPos)
  BY <1>8, <1>9, <1>10, TiledRenamed
<1> QED BY <1>1, <1>11 DEF Tiled, AreaTiled

\* No step leaves a hole in the allocated part of the area or a byte to two.
LEMMA NextTiled ==
    ResumeInv /\ StackInv /\ KeptInv /\ AreaTiled /\ [Next]_vars => AreaTiled'
<1> SUFFICES ASSUME ResumeInv, StackInv, KeptInv, AreaTiled, [Next]_vars PROVE AreaTiled'
  OBVIOUS
<1>1. CASE Receive \/ UNCHANGED vars \/ CallResume \/ CallAbort \/ ReturnDone
  <2>1. Regions' = Regions /\ nextAllocPos' = nextAllocPos
    BY <1>1, QuietStep
  <2> QED BY <2>1, Zenon DEF AreaTiled
<1>2. CASE CallRoot
  BY <1>2, RootTiled
<1>3. CASE Item
  BY <1>3, ItemTiled
<1>4. CASE NextMessage(TRUE)
  BY <1>4, KeepTiled
<1>5. CASE NextMessage(FALSE) \/ Restart
  <2>1. kept' = <<>> /\ nextAllocPos' = 0 /\ instruction' = 0 /\ at' = 0
    BY <1>5 DEF NextMessage, Restart, ResetArea, ResetState
  <2>2. KeptPieces' = {} /\ CurrentPieces' = {}
    BY <2>1 DEF KeptPieces, CurrentPieces
  <2>3. Regions' = {}
    BY <2>2, RegionsSplitNext
  <2> QED BY <2>1, <2>3 DEF AreaTiled
<1> QED BY <1>1, <1>2, <1>3, <1>4, <1>5, Zenon DEF Next, Application, Call, Parse

\* At the start nothing is allocated and nobody uses anything.
LEMMA InitArea == Init => KeptInv /\ AreaTiled
<1> SUFFICES ASSUME Init PROVE KeptInv /\ AreaTiled
  OBVIOUS
<1>1. kept = <<>> /\ nextAllocPos = 0 /\ instruction = 0 /\ at = 0
  BY DEF Init
<1>2. kept \in Seq(KeptUnit) /\ Len(kept) = 0
  BY <1>1
<1>3. KeptPieces = {} /\ CurrentPieces = {}
  BY <1>1 DEF KeptPieces, CurrentPieces
<1>4. Regions = {}
  BY <1>3, RegionsSplit
<1> QED BY <1>1, <1>2, <1>4 DEF KeptInv, AreaTiled

\* The invariant of the area: with the resume invariant, the stack has the unit
\* that is parsed and the kept units lie in what has been allocated.
AreaInv == ResumeInv /\ StackInv /\ KeptInv /\ AreaTiled

\* The invariant of the area is inductive.
LEMMA AreaInvHolds ==
    ASSUME NarrowRanges
    PROVE  (Init => AreaInv) /\ (AreaInv /\ [Next]_vars => AreaInv')
<1>1. Init => AreaInv
  BY InitResumeInv, InitStack, InitArea DEF AreaInv
<1>2. AreaInv /\ [Next]_vars => AreaInv'
  BY NextResumeInv, NextStack, NextKept, NextTiled DEF AreaInv
<1> QED BY <1>1, <1>2

\* UnitArea::allocate() and allocate_new() hand out every byte once and lose
\* none, however the calls of parse() fail, resume and are reset.
THEOREM AreaCorrect ==
    ASSUME NarrowRanges
    PROVE  Spec => []AreaTiled
<1>1. AreaInv => AreaTiled
  BY DEF AreaInv
<1> QED BY <1>1, AreaInvHolds, PTL DEF Spec

--------------------------------------------------------------------------------

\* Value, with the stream and the memory it reads as arguments.
ValueIn(inp, m, n, r) ==
    [num  |-> n,
     data |-> [i \in DOMAIN r |-> IF Program[i].op = "range"
                                  THEN Slice(inp, r[i].at, r[i].len)
                                  ELSE [k \in 1..r[i].len |-> m[r[i].at + k - 1]]]]

\* The two agree, in this state and in the next.
LEMMA ValueReads == \A n, r : Value(n, r) = ValueIn(input, mem, n, r)
BY Zenon DEF Value, ValueIn, Contents

\* Memory behind the allocated part makes no difference to a unit within it.
LEMMA ValueSame ==
    ASSUME NEW u \in KeptUnit, NEW inp, NEW m1, NEW m2, NEW n \in 0..AreaSize,
           InArea(u.ref, n), \A a \in Addr : a < n => m1[a] = m2[a]
    PROVE  ValueIn(inp, m1, u.num, u.ref) = ValueIn(inp, m2, u.num, u.ref)
<1> DEFINE D(m, i) == IF Program[i].op = "range"
                      THEN Slice(inp, u.ref[i].at, u.ref[i].len)
                      ELSE [k \in 1..u.ref[i].len |-> m[u.ref[i].at + k - 1]]
<1>1. ASSUME NEW i \in DOMAIN u.ref PROVE D(m1, i) = D(m2, i)
  <2>1. CASE Program[i].op = "range"
    BY <2>1
  <2>2. CASE Program[i].op = "bytes"
    <3>1. /\ u.ref[i].at \in Nat /\ u.ref[i].len \in Nat
          /\ u.ref[i].at + u.ref[i].len <= n
      BY <2>2, KeptRefs DEF InArea, Ref
    <3>2. \A k \in 1..u.ref[i].len : u.ref[i].at + k - 1 \in Addr /\ u.ref[i].at + k - 1 < n
      <4>1. ASSUME NEW b \in Nat, NEW l \in Nat, b + l <= n, NEW k \in 1..l
            PROVE  b + k - 1 \in 0..(AreaSize - 1) /\ b + k - 1 < n
        BY <4>1, SizeAssumption
      <4> QED BY <3>1, <4>1 DEF Addr
    <3>3. \A k \in 1..u.ref[i].len : m1[u.ref[i].at + k - 1] = m2[u.ref[i].at + k - 1]
      BY <3>2
    <3> QED BY <2>2, <3>3
  <2> QED BY <2>1, <2>2, Zenon DEF InArea
<1> HIDE DEF D
<1>2. [i \in DOMAIN u.ref |-> D(m1, i)] = [i \in DOMAIN u.ref |-> D(m2, i)]
  BY <1>1
<1>3. \A m : ValueIn(inp, m, u.num, u.ref) = [num |-> u.num, data |-> [i \in DOMAIN u.ref |-> D(m, i)]]
  BY Zenon DEF ValueIn, D
<1> QED BY <1>2, <1>3, Zenon

\* A step that neither keeps a unit nor resets the area leaves every kept unit
\* with its value.
LEMMA KeptSame ==
    ASSUME ResumeInv, KeptInv, [Next]_vars, kept' = kept
    PROVE  \A k \in 1..Len(kept) : ValueIn(input', mem', kept[k].num, kept[k].ref)
                                    = ValueIn(input, mem, kept[k].num, kept[k].ref)
<1> SUFFICES ASSUME NEW k \in 1..Len(kept)
             PROVE  ValueIn(input', mem', kept[k].num, kept[k].ref)
                     = ValueIn(input, mem, kept[k].num, kept[k].ref)
  OBVIOUS
<1>1. kept \in Seq(KeptUnit) /\ kept[k] \in KeptUnit /\ InArea(kept[k].ref, nextAllocPos)
  BY ElementOfSeq DEF KeptInv
<1>2. ~NextMessage(TRUE)
  <2> SUFFICES ASSUME NextMessage(TRUE) PROVE FALSE
    BY Zenon
  <2>1. \E u : kept = Append(kept, u)
    BY DEF NextMessage
  <2>2. Len(kept) = Len(kept) + 1 /\ Len(kept) \in Nat
    BY <1>1, <2>1
  <2> QED BY <2>2
<1>3. kept # <<>>
  OBVIOUS
<1>4. input' = input /\ \A a \in Addr : a < nextAllocPos => mem'[a] = mem[a]
  BY <1>2, <1>3, KeptFacts, Zenon
<1>5. nextAllocPos \in 0..AreaSize
  BY DEF ResumeInv, TypeOK
<1> QED BY <1>1, <1>4, <1>5, ValueSame

--------------------------------------------------------------------------------
\* The history: the kept units are the last ones delivered, and the unit that a
\* DONE has just delivered comes behind them.
IsSeq(s) == \E S : s \in Seq(S)
Pending == IF result = "DONE" THEN 1 ELSE 0
HistoryInv ==
    /\ IsSeq(msgs) /\ Len(kept) + Pending <= Len(msgs)
    /\ result = "DONE" => ValueIn(input, mem, num, ref) = msgs[Len(msgs)]
    /\ \A k \in 1..Len(kept) : ValueIn(input, mem, kept[k].num, kept[k].ref)
                                = msgs[Len(msgs) - Len(kept) - Pending + k]

\* Appending to a sequence, whatever its elements are.
LEMMA AppendAny ==
    ASSUME NEW s, IsSeq(s), NEW x
    PROVE  /\ IsSeq(Append(s, x)) /\ Len(s) \in Nat /\ Len(Append(s, x)) = Len(s) + 1
           /\ Append(s, x)[Len(s) + 1] = x
           /\ \A i \in 1..Len(s) : Append(s, x)[i] = s[i]
<1>1. PICK S : s \in Seq(S)
  BY DEF IsSeq
<1>2. s \in Seq(S \cup {x}) /\ Len(s) \in Nat
  BY <1>1
<1>3. Append(s, x) \in Seq(S \cup {x})
  BY <1>2
<1> QED BY <1>2, <1>3, AppendProperties DEF IsSeq

\* The history invariant says what KeptIntact says.
LEMMA HistoryKept == HistoryInv => KeptIntact
<1>1. \A n, r : Value(n, r) = ValueIn(input, mem, n, r)
  BY ValueReads
<1> QED BY <1>1 DEF HistoryInv, KeptIntact, Pending

\* Every step but a return with DONE and the application's resets only moves on
\* to another result than DONE, or changes none of what the history is about.
LEMMA HistoryFacts ==
    ASSUME [Next]_vars, ResumeInv
    PROVE  \/ kept' = kept /\ msgs' = msgs /\ result # "DONE" /\ result' # "DONE"
           \/ UNCHANGED <<kept, msgs, result, num, ref, input, mem>>
           \/ ReturnDone
           \/ NextMessage(TRUE)
           \/ kept' = <<>> /\ msgs' = msgs /\ result' # "DONE"
<1>1. CASE Receive \/ UNCHANGED vars
  BY <1>1, Zenon DEF Receive, vars, env, app, area, unit
<1>2. CASE Call
  BY <1>2, Zenon DEF Call, CallResume, CallRoot, CallAbort, MayCall
<1>3. CASE NextMessage(FALSE) \/ Restart
  BY <1>3 DEF NextMessage, Restart, ResetArea
<1>4. CASE Item
  <2>1. kept' = kept /\ result = "none" /\ result' \in {"none", "OUT_OF_DATA", "AREA_FULL"}
    BY <1>4, ParseFacts, ItemEffects DEF Parse
  <2>2. msgs' = msgs
    BY <1>4, Zenon DEF Item, IntItem, BytesItem, RangeItem, VarItem, SwitchItem, Proceed, Fail, app
  <2> QED BY <2>1, <2>2, Zenon
<1> QED BY <1>1, <1>2, <1>3, <1>4, Zenon DEF Next, Application, Parse

\* Every step keeps the history.
LEMMA NextHistory == ResumeInv /\ KeptInv /\ HistoryInv /\ [Next]_vars => HistoryInv'
<1> SUFFICES ASSUME ResumeInv, KeptInv, HistoryInv, [Next]_vars PROVE HistoryInv'
  OBVIOUS
<1> DEFINE Val(k) == ValueIn(input, mem, kept[k].num, kept[k].ref)
<1>0. kept \in Seq(KeptUnit) /\ Len(kept) \in Nat /\ IsSeq(msgs) /\ Len(msgs) \in Nat
  BY AppendAny, LenProperties DEF KeptInv, HistoryInv
<1>1. CASE kept' = kept /\ msgs' = msgs /\ result # "DONE" /\ result' # "DONE"
  <2>1. \A k \in 1..Len(kept) : ValueIn(input', mem', kept[k].num, kept[k].ref) = Val(k)
    BY <1>1, KeptSame
  <2>2. Pending = 0 /\ Pending' = 0
    BY <1>1 DEF Pending
  <2> QED BY <1>1, <2>1, <2>2 DEF HistoryInv
<1>2. CASE UNCHANGED <<kept, msgs, result, num, ref, input, mem>>
  <2>1. Pending' = Pending
    BY <1>2 DEF Pending
  <2> QED BY <1>2, <2>1 DEF HistoryInv
<1>3. CASE ReturnDone
  <2> DEFINE x == ValueIn(input, mem, num, ref)
  <2>1. /\ kept' = kept /\ input' = input /\ mem' = mem /\ num' = num /\ ref' = ref
        /\ result' = "DONE" /\ result = "none"
    BY <1>3, ParseFacts DEF Parse, ReturnDone, Return, env, area, unit
  <2>2. msgs' = Append(msgs, x)
    BY <1>3, ValueReads DEF ReturnDone
  <2>3. Pending = 0 /\ Pending' = 1
    BY <2>1 DEF Pending
  <2>4. x' = x
    BY <2>1
  <2> HIDE DEF x
  <2>5. /\ IsSeq(msgs') /\ Len(msgs') = Len(msgs) + 1 /\ msgs'[Len(msgs')] = x
        /\ \A i \in 1..Len(msgs) : msgs'[i] = msgs[i]
    BY <1>0, <2>2, AppendAny
  <2>6. Len(kept) <= Len(msgs)
    BY <1>0, <2>3 DEF HistoryInv
  <2>7. \A k \in 1..Len(kept) : Val(k) = msgs[Len(msgs) - Len(kept) + k]
    BY <1>0, <2>3 DEF HistoryInv
  <2>8. \A k \in 1..Len(kept) :
            ValueIn(input', mem', kept'[k].num, kept'[k].ref)
             = msgs'[Len(msgs') - Len(kept') - Pending' + k]
    <3> SUFFICES ASSUME NEW k \in 1..Len(kept)
                 PROVE  Val(k) = msgs'[Len(msgs') - Len(kept) - 1 + k]
      BY <2>1, <2>3
    <3>1. Len(msgs') - Len(kept) - 1 + k = Len(msgs) - Len(kept) + k
      BY <1>0, <2>5
    <3>2. Len(msgs) - Len(kept) + k \in 1..Len(msgs)
      BY <1>0, <2>6
    <3>3. Val(k) = msgs[Len(msgs) - Len(kept) + k]
      BY <2>7
    <3> HIDE DEF Val
    <3> QED BY <2>5, <3>1, <3>2, <3>3
  <2>9. Len(kept') + Pending' <= Len(msgs')
    BY <1>0, <2>1, <2>3, <2>5, <2>6
  <2>10. ValueIn(input', mem', num', ref') = msgs'[Len(msgs')]
    BY <2>4, <2>5 DEF x
  <2> QED BY <2>1, <2>5, <2>8, <2>9, <2>10 DEF HistoryInv
<1>4. CASE NextMessage(TRUE)
  <2> DEFINE u == [addr |-> stack[Len(stack)], num |-> num, ref |-> ref]
  <2>1. /\ kept' = Append(kept, u) /\ msgs' = msgs /\ input' = input /\ mem' = mem
        /\ result = "DONE" /\ result' = "none"
    BY <1>4 DEF NextMessage, env, area
  <2>2. u.num = num /\ u.ref = ref
    OBVIOUS
  <2> HIDE DEF u
  <2>3. IsSeq(kept)
    BY <1>0 DEF IsSeq
  <2>4. /\ Len(kept') = Len(kept) + 1 /\ kept'[Len(kept) + 1] = u
        /\ \A k \in 1..Len(kept) : kept'[k] = kept[k]
    BY <2>1, <2>3, AppendAny
  <2>5. Pending = 1 /\ Pending' = 0
    BY <2>1 DEF Pending
  <2>6. /\ Len(kept) + 1 <= Len(msgs) /\ ValueIn(input, mem, num, ref) = msgs[Len(msgs)]
        /\ \A k \in 1..Len(kept) : Val(k) = msgs[Len(msgs) - Len(kept) - 1 + k]
    BY <2>1, <2>5 DEF HistoryInv
  <2>7. \A k \in 1..Len(kept') :
            ValueIn(input', mem', kept'[k].num, kept'[k].ref)
             = msgs'[Len(msgs') - Len(kept') - Pending' + k]
    <3> SUFFICES ASSUME NEW k \in 1..(Len(kept) + 1)
                 PROVE  ValueIn(input, mem, kept'[k].num, kept'[k].ref)
                         = msgs[Len(msgs) - (Len(kept) + 1) - 0 + k]
      BY <2>1, <2>4, <2>5
    <3>1. Len(msgs) - (Len(kept) + 1) - 0 + k = Len(msgs) - Len(kept) - 1 + k
      BY <1>0
    <3>2. CASE k \in 1..Len(kept)
      BY <2>4, <2>6, <3>1, <3>2
    <3>3. CASE k = Len(kept) + 1
      <4>1. Len(msgs) - Len(kept) - 1 + k = Len(msgs)
        BY <1>0, <3>3
      <4> QED BY <2>2, <2>4, <2>6, <3>1, <3>3, <4>1
    <3> QED BY <1>0, <3>2, <3>3
  <2>8. Len(kept') + Pending' <= Len(msgs')
    <3>1. Len(kept') + Pending' = Len(kept) + 1
      BY <1>0, <2>4, <2>5
    <3> QED BY <2>1, <2>6, <3>1
  <2> QED BY <1>0, <2>1, <2>7, <2>8 DEF HistoryInv
<1>5. CASE kept' = <<>> /\ msgs' = msgs /\ result' # "DONE"
  <2>1. Len(kept') = 0 /\ Pending' = 0
    BY <1>5 DEF Pending
  <2>2. Len(kept') + Pending' <= Len(msgs')
    <3>1. Len(kept') + Pending' = 0
      BY <2>1
    <3> QED BY <1>0, <1>5, <3>1
  <2>3. 1..Len(kept') = {}
    BY <2>1
  <2>4. IsSeq(msgs')
    BY <1>0, <1>5
  <2> QED BY <1>5, <2>2, <2>3, <2>4 DEF HistoryInv
<1> QED BY <1>1, <1>2, <1>3, <1>4, <1>5, HistoryFacts, Zenon

\* Nothing is delivered at the start.
LEMMA InitHistory == Init => HistoryInv
<1> SUFFICES ASSUME Init PROVE HistoryInv
  OBVIOUS
<1>1. msgs = <<>> /\ kept = <<>> /\ Len(kept) = 0 /\ Len(msgs) = 0 /\ result = "none"
  BY DEF Init
<1>2. IsSeq(msgs)
  BY <1>1, EmptySeq DEF IsSeq
<1> QED BY <1>1, <1>2 DEF HistoryInv, Pending

\* A unit that the application keeps in the area still holds what parse()
\* delivered, whatever is parsed into the same area after it.
THEOREM KeptCorrect ==
    ASSUME NarrowRanges
    PROVE  Spec => []KeptIntact
<1>1. Init => AreaInv /\ HistoryInv
  BY AreaInvHolds, InitHistory
<1>2. (AreaInv /\ HistoryInv) /\ [Next]_vars => (AreaInv /\ HistoryInv)'
  BY AreaInvHolds, NextHistory DEF AreaInv
<1>3. AreaInv /\ HistoryInv => KeptIntact
  BY HistoryKept
<1> QED BY <1>1, <1>2, <1>3, PTL DEF Spec
================================================================================
