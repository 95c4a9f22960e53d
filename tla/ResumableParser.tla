---------------------------- MODULE ResumableParser ----------------------------
(***************************************************************************)
(* The generated parse() function, the ParserState and UnitArea it works   *)
(* on, and the application that feeds it a growing input buffer.           *)
(*                                                                         *)
(* parse() is resumable: an item for which the buffer is too short makes   *)
(* it return OUT_OF_DATA with the item's label in ParserState, and the     *)
(* next call jumps there.  The application (the loop of                    *)
(* MemcachedEvaluator and the test cases) calls again with a larger        *)
(* in_buf_end and the same in_buf_start, and resets the ParserState, and   *)
(* the UnitArea if it has no more use for its units, between messages.     *)
(*                                                                         *)
(* One step is one label of the generated function.  in_buf_end is an      *)
(* argument, so bytes that arrive during a call are not seen by it.        *)
(***************************************************************************)
EXTENDS UnitProgram

CONSTANTS
    Inputs,      \* the byte streams a peer may send
    AreaSize,    \* UnitArea::size()
    UnitSize,    \* sizeof of the unit's struct
    StackSize,   \* ParserState's stack_size_
    BlockSize,   \* sizeof(BlockState)
    Junk,        \* content of memory nobody has written
    RetryOnFull  \* the application calls again after AREA_FULL, resetting nothing

ASSUME SizeAssumption ==
    /\ AreaSize \in Nat /\ 2 * AreaSize < Modulus(8) /\ UnitSize \in Nat \ {0}
    /\ StackSize \in Nat /\ BlockSize \in Nat \ {0} /\ BlockSize < StackSize
    /\ RetryOnFull \in BOOLEAN

ASSUME InputAssumption == \A s \in Inputs : s \in Seq(Byte)

VARIABLES
    \* the connection
    input,          \* everything the peer sends
    received,       \* length of the prefix that has arrived
    \* the application
    in_buf_start, in_buf_end, result, bytes_read,
    kept,           \* units it still uses: [addr, num, ref]
    msgs,           \* history: what parse() has delivered, one entry per DONE
    \* control within parse(): the label to run next, 0 outside a call
    at,
    \* ParserState; stack holds one BlockState, its unit pointer, per element
    instruction, stream_pos, stack,
    \* UnitArea, as an offset from contents(), and the memory it hands out
    nextAllocPos, mem,
    \* the unit BLOCKSTATE points at: its integer members, and its var_bytes
    \* and var_stream_range members as [len, at]
    num, ref

env == <<input, received>>
app == <<in_buf_start, in_buf_end, result, bytes_read, kept, msgs>>
pstate == <<instruction, stream_pos, stack>>
area == <<nextAllocPos, mem>>
unit == <<num, ref>>
vars == <<env, app, at, pstate, area, unit>>

nullptr == -1
Results == {"none", "DONE", "OUT_OF_DATA", "AREA_FULL", "abort"}
Addr == 0..(AreaSize - 1)

\* The bytes a var_bytes or var_stream_range member stands for.
Contents(i, r) == IF Program[i].op = "range"
                  THEN Slice(input, r.at, r.len)
                  ELSE [k \in 1..r.len |-> mem[r.at + k - 1]]

Value(n, r) == [num |-> n, data |-> [i \in DOMAIN r |-> Contents(i, r[i])]]

Init ==
    /\ input \in Inputs
    /\ received = 0
    /\ in_buf_start = 0 /\ in_buf_end = 0
    /\ result = "none" /\ bytes_read = 0
    /\ kept = <<>> /\ msgs = <<>>
    /\ at = 0
    /\ instruction = 0 /\ stream_pos = nullptr /\ stack = <<>>
    /\ nextAllocPos = 0 /\ mem = [a \in Addr |-> Junk]
    /\ num = NoMembers /\ ref = NoMembers

--------------------------------------------------------------------------------
Receive ==
    /\ received < Len(input)
    /\ \E n \in 1..(Len(input) - received) : received' = received + n
    /\ UNCHANGED <<input, app, at, pstate, area, unit>>

Return(r) ==
    /\ result' = r
    /\ at' = 0
    /\ UNCHANGED <<env, in_buf_start, in_buf_end, kept>>

\* The application may call parse().
MayCall ==
    /\ at = 0
    /\ \/ result \in {"none", "OUT_OF_DATA"}
       \/ result = "AREA_FULL" /\ RetryOnFull

\* UnitArea::allocate() and allocate_new(): whether n bytes fit, and
\* nextAllocPos_ once they are taken.
AreaLacks(n) == AreaSize - nextAllocPos < n
AllocatedOverlapping(n) == IF n = 0 THEN nextAllocPos ELSE nextAllocPos + n - 1
AllocatedNothing(n) == nextAllocPos
Allocated(n) == nextAllocPos + n

\* parse() with an instruction to resume: goto *state->instruction().
CallResume ==
    /\ MayCall
    /\ instruction # 0
    /\ in_buf_end' = received
    /\ at' = instruction
    /\ result' = "none"
    /\ UNCHANGED <<env, in_buf_start, bytes_read, kept, msgs, pstate, area, unit>>

\* parse() from the root label.  Push the BlockState, then take the unit from
\* the area; the BlockState stays on the stack when the area is full.
HasStackSpaceNonStrict == StackSize - BlockSize * Len(stack) >= BlockSize
HasStackSpace == StackSize - BlockSize * Len(stack) > BlockSize

CallRoot ==
    /\ MayCall
    /\ instruction = 0
    /\ HasStackSpace
    /\ in_buf_end' = received
    /\ UNCHANGED <<env, in_buf_start, bytes_read, kept, msgs, instruction, mem, unit>>
    /\ IF AreaLacks(UnitSize)
       THEN /\ stack' = Append(stack, nullptr)
            /\ result' = "AREA_FULL"
            /\ UNCHANGED <<at, stream_pos, nextAllocPos>>
       ELSE /\ stack' = Append(stack, nextAllocPos)
            /\ nextAllocPos' = Allocated(UnitSize)
            /\ stream_pos' = in_buf_start
            /\ at' = 1
            /\ result' = "none"

\* The assertion in push() fails.
CallAbort ==
    /\ MayCall
    /\ instruction = 0
    /\ ~HasStackSpace
    /\ result' = "abort"
    /\ UNCHANGED <<env, in_buf_start, in_buf_end, bytes_read, kept, msgs, at, pstate,
                   area, unit>>

--------------------------------------------------------------------------------
Left == in_buf_end - stream_pos

\* Every item starts with state->advanceToInstruction(&&label).
AtItemFirstOnly(op) ==
    /\ at \in Labels
    /\ Program[at].op = op
    /\ instruction' = IF instruction = 0 THEN at ELSE instruction
    /\ UNCHANGED stack

AtItem(op) ==
    /\ at \in Labels
    /\ Program[at].op = op
    /\ instruction' = at
    /\ UNCHANGED stack

Proceed(v) ==
    /\ at' = Jump(at, v)
    /\ UNCHANGED <<env, app>>

Fail(r) ==
    /\ Return(r)
    /\ UNCHANGED <<bytes_read, msgs, stream_pos, area>>

\* in_buf_end - *pos_ptr < sizeof(T) compares as unsigned: a negative
\* difference counts as enough data.
LacksOffByOne(w) == Left >= 0 /\ Left + 1 < w
Lacks(w) == Left >= 0 /\ Left < w

IntItem ==
    /\ AtItem("int")
    /\ LET w == Program[at].width
           n == ParseInt(Program[at].order, Slice(input, stream_pos, w))
       IN IF Lacks(w)
          THEN Fail("OUT_OF_DATA") /\ UNCHANGED unit
          ELSE /\ stream_pos' = stream_pos + w
               /\ num' = Put(num, at, n)
               /\ Proceed(num')
               /\ UNCHANGED <<ref, area>>

\* len_ is assigned before the data is looked for; allocateCopyBytes checks the
\* data, with len_ cast to ssize_t, then the area, and changes nothing when either
\* is short.
Memcpy(dst, n) ==
    [a \in Addr |-> IF dst <= a /\ a < dst + n THEN input[stream_pos + (a - dst) + 1]
                                               ELSE mem[a]]

BytesItem ==
    /\ AtItem("bytes")
    /\ UNCHANGED num
    /\ LET n == ItemLen(at, num)
           data == IF at \in DOMAIN ref THEN ref[at].at ELSE nullptr
       IN IF Left < Signed(n) \/ AreaLacks(n)
          THEN /\ Fail(IF Left < Signed(n) THEN "OUT_OF_DATA" ELSE "AREA_FULL")
               /\ ref' = Put(ref, at, [len |-> n, at |-> data])
          ELSE /\ mem' = Memcpy(nextAllocPos, n)
               /\ nextAllocPos' = Allocated(n)
               /\ stream_pos' = stream_pos + n
               /\ ref' = Put(ref, at, [len |-> n, at |-> nextAllocPos])
               /\ Proceed(num)

\* len_ and start_ are assigned before advance() looks for the data and moves, by
\* len_ as an ssize_t.
RangeItemAtBufferStart ==
    /\ AtItem("range")
    /\ UNCHANGED num
    /\ LET n == ItemLen(at, num)
       IN /\ ref' = Put(ref, at, [len |-> n, at |-> in_buf_start])
          /\ IF Left < Signed(n)
             THEN Fail("OUT_OF_DATA")
             ELSE /\ stream_pos' = stream_pos + Signed(n)
                  /\ Proceed(num)
                  /\ UNCHANGED area

RangeItem ==
    /\ AtItem("range")
    /\ UNCHANGED num
    /\ LET n == ItemLen(at, num)
       IN /\ ref' = Put(ref, at, [len |-> n, at |-> stream_pos])
          /\ IF Left < Signed(n)
             THEN Fail("OUT_OF_DATA")
             ELSE /\ stream_pos' = stream_pos + Signed(n)
                  /\ Proceed(num)
                  /\ UNCHANGED area

VarItem ==
    /\ AtItem("var")
    /\ num' = Put(num, at, Truncated(ExprOf(at, num), Program[at].width))
    /\ Proceed(num')
    /\ UNCHANGED <<stream_pos, area, ref>>

SwitchItem ==
    /\ AtItem("switch")
    /\ Proceed(num)
    /\ UNCHANGED <<stream_pos, area, unit>>

\* Behind the last item.  The ParserState is left as it is.
ReturnDone ==
    /\ at = End
    /\ bytes_read' = stream_pos - in_buf_start
    /\ msgs' = Append(msgs, Value(num, ref))
    /\ Return("DONE")
    /\ UNCHANGED <<pstate, area, unit>>

--------------------------------------------------------------------------------
\* ParserState::reset() and UnitArea::reset()
ResetState == instruction' = 0 /\ stream_pos' = nullptr /\ stack' = <<>>
ResetArea == nextAllocPos' = 0 /\ kept' = <<>> /\ UNCHANGED mem

\* The application goes on behind a complete message, and either keeps the unit
\* in the area or is done with all units there.
NextMessage(keep) ==
    /\ at = 0 /\ result = "DONE"
    /\ in_buf_start' = in_buf_start + bytes_read
    /\ result' = "none"
    /\ ResetState
    /\ num' = NoMembers /\ ref' = NoMembers
    /\ IF keep
       THEN /\ kept' = Append(kept, [addr |-> stack[Len(stack)], num |-> num, ref |-> ref])
            /\ UNCHANGED area
       ELSE ResetArea
    /\ UNCHANGED <<env, in_buf_end, bytes_read, msgs, at>>

\* The application makes room and parses the message again from its start.
RestartKeepArea ==
    /\ at = 0 /\ result = "AREA_FULL"
    /\ result' = "none"
    /\ ResetState
    /\ num' = NoMembers /\ ref' = NoMembers
    /\ UNCHANGED <<env, in_buf_start, in_buf_end, bytes_read, msgs, kept, area, at>>

Restart ==
    /\ at = 0 /\ result = "AREA_FULL"
    /\ result' = "none"
    /\ ResetState /\ ResetArea
    /\ num' = NoMembers /\ ref' = NoMembers
    /\ UNCHANGED <<env, in_buf_start, in_buf_end, bytes_read, msgs, at>>

Call == CallResume \/ CallRoot \/ CallAbort
Item == IntItem \/ BytesItem \/ RangeItem \/ VarItem \/ SwitchItem
Parse == Item \/ ReturnDone
Application == Call \/ (\E keep \in BOOLEAN : NextMessage(keep)) \/ Restart

Next == Receive \/ Application \/ Parse

Spec == Init /\ [][Next]_vars

\* Bytes that were sent arrive, a call of parse() goes on to its return, and
\* the application goes on calling, as the loop of MemcachedEvaluator does.
FairSpec == Spec /\ WF_vars(Receive) /\ WF_vars(Parse) /\ WF_vars(Application)

--------------------------------------------------------------------------------
Ref == [len : Nat, at : Nat \cup {nullptr}]

\* v gives integer members of the unit a value of their width.
Numbers(v) ==
    /\ DOMAIN v \subseteq DOMAIN WidthOf /\ v \in [DOMAIN v -> Nat]
    /\ \A i \in DOMAIN v : v[i] < Modulus(WidthOf[i])

\* Every variable has its type: the members of a unit are a partial function of
\* the labels, an integer member holds a value of its width, and the memory of
\* the area holds bytes or was never written.
TypeOK ==
    /\ input \in Inputs /\ received \in Nat
    /\ in_buf_start \in Nat /\ in_buf_end \in Nat
    /\ result \in Results /\ bytes_read \in Nat
    /\ at \in 0..End
    /\ instruction \in 0..Len(Program)
    /\ stream_pos \in Nat \cup {nullptr}
    /\ stack \in Seq(Nat \cup {nullptr})
    /\ nextAllocPos \in 0..AreaSize
    /\ mem \in [Addr -> Byte \cup {Junk}]
    /\ Numbers(num)
    /\ DOMAIN ref \subseteq Labels /\ ref \in [DOMAIN ref -> Ref]

\* parse() never reads past the end of the buffer it was given, and never moves
\* behind the start of the message, over any sequence of resumed calls: this is
\* what makes the unsigned comparisons of copyAtomicType() sound.
NoOverread ==
    /\ in_buf_start <= received /\ in_buf_end <= received /\ received <= Len(input)
    /\ stream_pos # nullptr => in_buf_start <= stream_pos /\ stream_pos <= in_buf_end

\* The label parse() is at, or will resume at.
Current == IF at # 0 THEN at ELSE IF instruction # 0 THEN instruction ELSE 1

\* Labels below the current one have their bytes; the current one may have a
\* length only.
Stored(i) == i < Current \/ result = "DONE"

\* The pieces of the area that somebody uses: the structs of the kept units and
\* of the current one, and the bytes their members point at.
RegionsOf(id, addr, r) ==
    {[unit |-> id, label |-> 0, lo |-> addr, hi |-> addr + UnitSize]} \cup
    {[unit |-> id, label |-> i, lo |-> r[i].at, hi |-> r[i].at + r[i].len] :
        i \in {j \in DOMAIN r : Program[j].op = "bytes" /\ (id = 0 => Stored(j))}}

Regions ==
    (UNION {RegionsOf(k, kept[k].addr, kept[k].ref) : k \in 1..Len(kept)}) \cup
    (IF instruction = 0 /\ at = 0 THEN {} ELSE RegionsOf(0, stack[Len(stack)], ref))

\* UnitArea hands out every byte once and none is lost: over all the failed and
\* resumed calls, the pieces in use tile exactly the allocated part of the area.
AreaTiled ==
    /\ \A a \in 0..(nextAllocPos - 1) : \E r \in Regions : r.lo <= a /\ a < r.hi
    /\ \A r \in Regions : r.hi <= nextAllocPos
    /\ \A r, s \in Regions : r = s \/ r.hi <= s.lo \/ s.hi <= r.lo

\* A unit the application keeps still holds what was delivered: parsing later
\* messages into the same area does not disturb it.
KeptIntact ==
    LET before == Len(msgs) - Len(kept) - (IF result = "DONE" THEN 1 ELSE 0)
    IN \A k \in 1..Len(kept) : Value(kept[k].num, kept[k].ref) = msgs[before + k]

\* push() never writes past the stack, a resumed call finds a unit in the top
\* BlockState, and an application that resets after AREA_FULL never has more
\* than one BlockState nor runs into the assertion of push().
StackBounded ==
    /\ BlockSize * Len(stack) < StackSize
    /\ instruction # 0 \/ at # 0 => stack[Len(stack)] # nullptr
    /\ ~RetryOnFull => Len(stack) <= 1 /\ result # "abort"

\* ParseResult::DONE is documented as "unit complete, parser state reset".
ResetOnDone == result = "DONE" => instruction = 0 /\ stream_pos = nullptr /\ stack = <<>>

--------------------------------------------------------------------------------
\* Where control, ParserState and the unit stand to each other.
Flow ==
    /\ at # 0 => result = "none"
    /\ at > 1 => instruction # 0
    /\ at # 0 \/ instruction # 0 => stream_pos # nullptr /\ stack # <<>>
    /\ at = 0 /\ instruction = 0 =>
          stream_pos = nullptr /\ num = NoMembers /\ ref = NoMembers
    /\ result = "DONE" => instruction # 0 /\ bytes_read = stream_pos - in_buf_start
    /\ result # "DONE" => Defined[Current] \subseteq DOMAIN num

\* Only bytes items have written pointers, none behind the current label, and
\* what they point at in the area is allocated.
Pointers ==
    \A i \in DOMAIN ref :
        /\ Program[i].op \in {"bytes", "range"}
        /\ result # "DONE" => i <= Current
        /\ Stored(i) /\ Program[i].op = "bytes" =>
              0 <= ref[i].at /\ ref[i].at + ref[i].len <= nextAllocPos

\* The inductive invariant: when parse() is called again, the label it resumes
\* at finds the position, the unit and the integer members it needs.
ResumeInv == TypeOK /\ NoOverread /\ Flow /\ Pointers

--------------------------------------------------------------------------------
\* parse() over any number of resumed calls implements the interpreter that has
\* the whole stream and by-value members.  Between DONE and the application's
\* reset the message is already delivered.
Delivered == result = "DONE"
absStart == IF Delivered THEN in_buf_start + bytes_read ELSE in_buf_start
absLabel == IF Delivered THEN 1 ELSE Current
absPos   == IF Delivered \/ stream_pos = nullptr THEN absStart ELSE stream_pos
absNum   == IF Delivered THEN NoMembers ELSE num
absData  == IF Delivered THEN NoMembers
            ELSE [i \in {j \in DOMAIN ref : j < Current} |-> Contents(i, ref[i])]

OneShot == INSTANCE OneShotParser WITH
    start <- absStart, label <- absLabel, pos <- absPos, num <- absNum, data <- absData

\* What is delivered does not depend on how the stream is cut into calls.
ImplementsOneShot == OneShot!Spec
================================================================================
