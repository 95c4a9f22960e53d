------------------------------- MODULE Serializer ------------------------------
(***************************************************************************)
(* The generated serialize() function, its ParserState, and an application *)
(* that edits a unit and writes it, once or again, to an output buffer.    *)
(*                                                                         *)
(* A first call updates the members that hold lengths, then runs the       *)
(* &serialize attributes of the variables, then writes the fields.  Only   *)
(* fields have labels: a call that returned OUT_BUF_FULL is resumed at the *)
(* field that did not fit, with a larger out_buf_end and the same          *)
(* out_buf_start, and updates no length again.                             *)
(***************************************************************************)
EXTENDS SerializerProgram

CONSTANTS
    Units,        \* units the application starts from: [num, data, range, in_buf]
    Edits,        \* values it may give: integer member -> set of values
    Payloads,     \* byte strings it may give: bytes member -> set of byte strings
    OutSize,      \* length of the output buffer
    StackSize, BlockSize,
    Junk,         \* content of memory nobody has written
    ReuseInput    \* the application may reuse the input buffer

ASSUME BufferAssumption ==
    /\ OutSize \in Nat
    /\ StackSize \in Nat /\ BlockSize \in Nat \ {0} /\ BlockSize < StackSize
    /\ ReuseInput \in BOOLEAN

\* The bytes and range members of a unit: every field has its member, and none is
\* longer than an ssize_t can say.
MembersOK(d, r) ==
    /\ d \in [DOMAIN d -> Seq(Byte)] /\ \A m \in DOMAIN d : Signed(Len(d[m])) = Len(d[m])
    /\ r \in [DOMAIN r -> [at : Nat, len : Nat]] /\ \A m \in DOMAIN r : Signed(r[m].len) = r[m].len
    /\ \A i \in Labels : /\ Fields[i].op = "bytes" => Fields[i].member \in DOMAIN d
                         /\ Fields[i].op = "range" => Fields[i].member \in DOMAIN r
    /\ DOMAIN Payloads \subseteq DOMAIN d

ASSUME UnitsAssumption ==
    /\ \A u \in Units : MembersOK(u.data, u.range)
    /\ \A m \in DOMAIN Payloads : \A s \in Payloads[m] :
          s \in Seq(Byte) /\ Signed(Len(s)) = Len(s)

nullptr == -1

VARIABLES
    \* the unit: integers, var_bytes by contents, var_stream_range as [at, len]
    num, data, range,
    in_buf,
    \* the application
    out_buf, out_buf_end, result, bytes_written,
    \* control: which part of serialize() runs, and where in it; "none" outside a call
    part, at,
    \* ParserState
    instruction, stream_pos, stack

unit == <<num, data, range>>
app == <<out_buf_end, result, bytes_written>>
pstate == <<instruction, stream_pos, stack>>
vars == <<unit, in_buf, out_buf, app, part, at, pstate>>

Init ==
    /\ \E u \in Units : num = u.num /\ data = u.data /\ range = u.range /\ in_buf = u.in_buf
    /\ out_buf = [a \in 1..OutSize |-> Junk]
    /\ out_buf_end = 0 /\ result = "none" /\ bytes_written = 0
    /\ part = "none" /\ at = 0
    /\ instruction = 0 /\ stream_pos = nullptr /\ stack = 0

--------------------------------------------------------------------------------
\* The application works on a unit that is not being serialized.
EditInt ==
    /\ part = "none" /\ result = "none"
    /\ \E m \in DOMAIN Edits : \E v \in Edits[m] : num' = [num EXCEPT ![m] = v]
    /\ UNCHANGED <<data, range, in_buf, out_buf, app, part, at, pstate>>

EditBytes ==
    /\ part = "none" /\ result = "none"
    /\ \E m \in DOMAIN Payloads : \E s \in Payloads[m] : data' = [data EXCEPT ![m] = s]
    /\ UNCHANGED <<num, range, in_buf, out_buf, app, part, at, pstate>>

\* It receives the next message into the buffer a unit was parsed from.
OverwriteInput ==
    /\ ReuseInput /\ part = "none"
    /\ in_buf' = [k \in 1..Len(in_buf) |-> 0]
    /\ UNCHANGED <<unit, out_buf, app, part, at, pstate>>

\* space() > sizeof(BlockState), with `stack' BlockStates on the stack.
HasStackSpace == StackSize - BlockSize * stack > BlockSize

CallRoot ==
    /\ part = "none" /\ result = "none"
    /\ HasStackSpace
    /\ out_buf_end' \in 0..OutSize
    /\ stack' = stack + 1
    /\ stream_pos' = 0
    /\ part' = "lengths" /\ at' = 1
    /\ UNCHANGED <<unit, in_buf, out_buf, result, bytes_written, instruction>>

CallResume ==
    /\ part = "none" /\ result = "OUT_BUF_FULL"
    /\ out_buf_end' \in out_buf_end..OutSize
    /\ part' = "fields" /\ at' = instruction
    /\ result' = "none"
    /\ UNCHANGED <<unit, in_buf, out_buf, bytes_written, pstate>>

\* ParserState::reset().  The application writes the unit again, to a new buffer.
ResetKeepsStack == instruction' = 0 /\ stream_pos' = nullptr /\ UNCHANGED stack
ResetState == instruction' = 0 /\ stream_pos' = nullptr /\ stack' = 0

Again ==
    /\ part = "none" /\ result \in {"DONE", "OUT_BUF_FULL"}
    /\ result' = "none"
    /\ ResetState
    /\ out_buf' = [a \in 1..OutSize |-> Junk]
    /\ UNCHANGED <<unit, in_buf, out_buf_end, bytes_written, part, at>>

--------------------------------------------------------------------------------
inCall == <<data, range, in_buf, app, stack>>

LengthStep ==
    /\ part = "lengths" /\ at <= Len(LengthsOf)
    /\ num' = LengthUpdated(at, num, data)
    /\ at' = at + 1
    /\ UNCHANGED <<inCall, out_buf, part, instruction, stream_pos>>

RunVariables ==
    /\ part = "lengths" /\ at > Len(LengthsOf)
    /\ part' = "variables" /\ at' = 1
    /\ UNCHANGED <<inCall, num, out_buf, instruction, stream_pos>>

VariableStep ==
    /\ part = "variables" /\ at <= Len(Variables)
    /\ num' = Serialized(at, num)
    /\ at' = at + 1
    /\ UNCHANGED <<inCall, out_buf, part, instruction, stream_pos>>

RunFields ==
    /\ part = "variables" /\ at > Len(Variables)
    /\ part' = "fields" /\ at' = 1
    /\ UNCHANGED <<inCall, num, out_buf, instruction, stream_pos>>

--------------------------------------------------------------------------------
Left == out_buf_end - stream_pos

\* The bytes of field i.
BytesOf(i) == Wire(i, num, data, range, in_buf)

\* copyAtomicType() and serializeInt*() compare as unsigned, copyBytes() as signed.
LacksNone(i) == FALSE
LacksExactFit(i) == Left <= Len(BytesOf(i))
Lacks(i) ==
    IF Fields[i].op = "int" THEN Left >= 0 /\ Left < Fields[i].width
                            ELSE Left < Signed(Len(BytesOf(i)))

\* Every field starts with state->advanceToInstruction(&&label); one that does
\* not fit is left unwritten.
MarkNothing(i) == UNCHANGED instruction
Mark(i) == instruction' = i

WriteField ==
    /\ part = "fields" /\ at \in Labels
    /\ Mark(at)
    /\ ~Lacks(at)
    /\ out_buf' = [a \in 1..OutSize |->
                     IF stream_pos < a /\ a <= stream_pos + Len(BytesOf(at))
                     THEN BytesOf(at)[a - stream_pos] ELSE out_buf[a]]
    /\ stream_pos' = stream_pos + Len(BytesOf(at))
    /\ at' = Jump(at, num)
    /\ UNCHANGED <<inCall, num, part>>

FieldFull ==
    /\ part = "fields" /\ at \in Labels
    /\ Mark(at)
    /\ Lacks(at)
    /\ result' = "OUT_BUF_FULL"
    /\ part' = "none" /\ at' = 0
    /\ UNCHANGED <<unit, in_buf, out_buf, out_buf_end, bytes_written, stack, stream_pos>>

ReturnDone ==
    /\ part = "fields" /\ at = End
    /\ bytes_written' = stream_pos
    /\ result' = "DONE"
    /\ part' = "none" /\ at' = 0
    /\ UNCHANGED <<unit, in_buf, out_buf, out_buf_end, pstate>>

Application == EditInt \/ EditBytes \/ OverwriteInput \/ CallRoot \/ CallResume \/ Again
Prologue == LengthStep \/ RunVariables \/ VariableStep \/ RunFields
Step == Prologue \/ WriteField \/ FieldFull \/ ReturnDone
Next == Application \/ Step

Spec == Init /\ [][Next]_vars

\* A call of serialize() goes on to its return; the application owes nothing.
FairSpec == Spec /\ WF_vars(Step)
--------------------------------------------------------------------------------
\* Every variable has its type: members are partial functions of their names,
\* and the control state names a step of serialize() or none.
TypeOK ==
    /\ MembersOK(data, range)
    /\ out_buf = [a \in 1..OutSize |-> out_buf[a]]
    /\ out_buf_end \in 0..OutSize /\ bytes_written \in 0..OutSize
    /\ result \in {"none", "DONE", "OUT_BUF_FULL"}
    /\ part \in {"none", "lengths", "variables", "fields"}
    /\ at \in Nat /\ instruction \in 0..Len(Fields)
    /\ stream_pos \in 0..OutSize \cup {nullptr}
    /\ stack \in 0..1

\* A call writes behind what is written already and before out_buf_end, however
\* often it was resumed: the space checks of copyBytes() and of the integer
\* codecs, which compare as unsigned, suffice.
WritesInBuffer ==
    [][part = "fields" => \A a \in 1..OutSize :
          out_buf'[a] # out_buf[a] => stream_pos < a /\ a <= out_buf_end]_vars

\* While fields are written, and until the application takes over, a length member
\* holds the length of its field, to its width, unless a later length update or a
\* &serialize attribute assigns that very member: no other part of serialize()
\* undoes the update, and a resumed call does not lose it.
Current(k) ==
    /\ LengthsOf[k].to \in DOMAIN num
    /\ num[LengthsOf[k].to] = Truncated(Len(data[LengthsOf[k].of]), WidthOf[LengthsOf[k].to])

LengthsCurrent ==
    part = "fields" \/ result # "none" => \A k \in 1..Len(LengthsOf) : Lasting(k) => Current(k)

\* Where the parts of the state stand to each other: a resumed call finds its
\* position within the buffer, its label, and the one BlockState of the unit.
ResumeInv ==
    /\ part # "none" => result = "none"
    /\ part = "none" => at = 0
    /\ part # "none" \/ result # "none" =>
          stack = 1 /\ stream_pos \in 0..out_buf_end
    /\ part = "none" /\ result = "none" =>
          stack = 0 /\ instruction = 0 /\ stream_pos = nullptr
    /\ part \in {"lengths", "variables"} => instruction = 0 /\ stream_pos = 0 /\ at >= 1
    /\ part = "fields" => at \in 1..End
    /\ result = "OUT_BUF_FULL" => instruction \in Labels
    /\ result = "DONE" => bytes_written = stream_pos

--------------------------------------------------------------------------------
\* serialize() over any number of resumed calls implements the serializer with
\* an endless buffer.
absPart ==
    IF part # "none" THEN part
    ELSE IF result = "OUT_BUF_FULL" THEN "fields"
    ELSE IF result = "DONE" THEN "done" ELSE "idle"
absAt == IF part = "none" /\ result = "OUT_BUF_FULL" THEN instruction ELSE at
absOut == IF stream_pos = nullptr THEN <<>> ELSE [k \in 1..stream_pos |-> out_buf[k]]

Unbounded == INSTANCE UnboundedSerializer WITH part <- absPart, at <- absAt, out <- absOut

\* What is written does not depend on the sizes of the buffers it was written to.
ImplementsUnbounded == Unbounded!Spec
================================================================================
