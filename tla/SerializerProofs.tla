---------------------------- MODULE SerializerProofs ---------------------------
(***************************************************************************)
(* Proofs about Serializer, for every unit, edit and buffer size: resumed  *)
(* calls stay within the buffer, the length members are right when fields  *)
(* are written, and the buffer sizes do not show in what is written.       *)
(***************************************************************************)
EXTENDS Serializer, SequenceTheorems, TLAPS

Inv == TypeOK /\ ResumeInv

\* HostBytes gives a sequence of as many bytes as the width says.
LEMMA HostBytesLen ==
  ASSUME NEW n, NEW w \in Widths
  PROVE  /\ Len(HostBytes(n, w)) = w
         /\ HostBytes(n, w) = [k \in 1..w |-> HostBytes(n, w)[k]]
<1>1. CASE w = 1
  <2>1. \E a : HostBytes(n, w) = <<a>>
    BY <1>1 DEF HostBytes
  <2> QED BY <1>1, <2>1
<1>2. CASE w = 2
  <2>1. \E a, b : HostBytes(n, w) = <<a, b>>
    BY <1>2 DEF HostBytes
  <2> QED BY <1>2, <2>1
<1>3. CASE w = 4
  <2>1. \E a, b, c, d : HostBytes(n, w) = <<a, b, c, d>>
    BY <1>3 DEF HostBytes
  <2> QED BY <1>3, <2>1
<1>4. CASE w = 8
  <2>1. \E a, b, c, d, e, f, g, h : HostBytes(n, w) = <<a, b, c, d, e, f, g, h>>
    BY <1>4 DEF HostBytes
  <2> QED BY <1>4, <2>1
<1> QED BY <1>1, <1>2, <1>3, <1>4 DEF Widths

\* A field is a sequence of bytes on the wire, and an integer has its width.
LEMMA WireLen ==
  ASSUME NEW i \in Labels, NEW v, NEW d, NEW r, NEW b, MembersOK(d, r)
  PROVE  LET x == Wire(i, v, d, r, b)
         IN /\ Len(x) \in Nat
            /\ DOMAIN x = 1..Len(x)
            /\ x = [k \in 1..Len(x) |-> x[k]]
            /\ Fields[i].op = "int" => Len(x) = Fields[i].width
            /\ Fields[i].op \in {"bytes", "range"} => Signed(Len(x)) = Len(x)
<1> DEFINE x == Wire(i, v, d, r, b)
           f == Fields[i]
<1>1. FieldOK(i)
  BY FieldsAssumption
<1>2. CASE f.op = "int"
  <2> DEFINE h == HostBytes(v[f.member], f.width)
  <2>1. f.width \in Widths
    BY <1>1, <1>2 DEF FieldOK
  <2>2. x = IF f.order = "big" THEN Swap(h) ELSE h
    BY <1>2 DEF Wire, SerializeInt
  <2>3. Len(h) = f.width /\ h = [k \in 1..f.width |-> h[k]]
    BY HostBytesLen, <2>1
  <2>4. f.width \in Nat
    BY <2>1 DEF Widths
  <2>5. Swap(h) = [k \in 1..f.width |-> h[f.width + 1 - k]]
    BY <2>3 DEF Swap
  <2> HIDE DEF h
  <2>6. Len(Swap(h)) = f.width /\ Swap(h) = [k \in 1..f.width |-> Swap(h)[k]]
    BY <2>4, <2>5
  <2> QED BY <2>2, <2>3, <2>4, <2>6, <1>2
<1>3. CASE f.op = "bytes"
  <2>1. x = d[f.member] /\ f.member \in DOMAIN d
    BY <1>3 DEF Wire, MembersOK
  <2>2. x \in Seq(Byte) /\ Signed(Len(x)) = Len(x)
    BY <2>1 DEF MembersOK
  <2> QED BY <2>2, <1>3
<1>4. CASE f.op = "range"
  <2>1. x = Slice(b, r[f.member].at, r[f.member].len) /\ f.member \in DOMAIN r
    BY <1>4 DEF Wire, MembersOK
  <2>2. r[f.member].len \in Nat /\ Signed(r[f.member].len) = r[f.member].len
    BY <2>1 DEF MembersOK
  <2>3. x = [k \in 1..r[f.member].len |-> b[r[f.member].at + k]]
    BY <2>1 DEF Slice
  <2>4. Len(x) = r[f.member].len
    BY <2>2, <2>3
  <2> QED BY <2>2, <2>3, <2>4, <1>4
<1>5. CASE f.op = "switch"
  <2>1. x = <<>>
    BY <1>5 DEF Wire
  <2> QED BY <2>1, <1>5
<1> QED BY <1>1, <1>2, <1>3, <1>4, <1>5 DEF FieldOK

\* Control moves forward, to a label or the end.
LEMMA JumpForward ==
  ASSUME NEW i \in Labels, NEW v
  PROVE  Jump(i, v) \in 1..End
BY FieldsAssumption DEF Jump, FieldOK, Labels, End

\* The application starts with a valid unit and no call.
LEMMA InitInv == Init => Inv
BY UnitsAssumption, BufferAssumption, FieldsAssumption
   DEF Init, Inv, TypeOK, ResumeInv, nullptr

\* Edits keep every bytes member a byte string.
LEMMA EditStep ==
  ASSUME Inv, EditInt \/ EditBytes \/ OverwriteInput
  PROVE  Inv'
<1>1. MembersOK(data', range')
  <2>1. CASE EditInt \/ OverwriteInput
    BY <2>1 DEF EditInt, OverwriteInput, unit, Inv, TypeOK
  <2>2. CASE EditBytes
    <3>1. PICK m \in DOMAIN Payloads : \E s \in Payloads[m] : data' = [data EXCEPT ![m] = s]
      BY <2>2 DEF EditBytes
    <3>2. PICK s \in Payloads[m] : data' = [data EXCEPT ![m] = s]
      BY <3>1
    <3>3. s \in Seq(Byte) /\ Signed(Len(s)) = Len(s) /\ m \in DOMAIN data
      BY <3>2, UnitsAssumption DEF Inv, TypeOK, MembersOK
    <3>4. /\ data' \in [DOMAIN data -> Seq(Byte)] /\ DOMAIN data' = DOMAIN data /\ range' = range
          /\ \A k \in DOMAIN data : Signed(Len(data'[k])) = Len(data'[k])
      BY <3>2, <3>3, <2>2 DEF Inv, TypeOK, MembersOK, EditBytes
    <3> QED BY <3>4 DEF Inv, TypeOK, MembersOK
  <2> QED BY <2>1, <2>2
<1>2. UNCHANGED <<out_buf, app, part, at, pstate>>
  BY DEF EditInt, EditBytes, OverwriteInput
<1> QED BY <1>1, <1>2 DEF Inv, TypeOK, ResumeInv, app, pstate, MembersOK

\* Calls and resets.
LEMMA CallStep ==
  ASSUME Inv, CallRoot \/ CallResume \/ Again
  PROVE  Inv'
<1> USE DEF unit, Inv, TypeOK, ResumeInv, nullptr, pstate
<1>0. MembersOK(data', range')
  BY DEF CallRoot, CallResume, Again
<1>1. CASE CallRoot
  BY <1>0, <1>1, BufferAssumption DEF CallRoot, MembersOK
<1>2. CASE CallResume
  BY <1>0, <1>2, BufferAssumption, FieldsAssumption DEF CallResume, Labels, End, MembersOK
<1>3. CASE Again
  BY <1>0, <1>3 DEF Again, ResetState, MembersOK
<1> QED BY <1>1, <1>2, <1>3

\* The length updates and the variables write integer members only.
LEMMA PrologueStep ==
  ASSUME Inv, Prologue
  PROVE  Inv'
<1> USE DEF inCall, app, unit, nullptr
<1>1. UNCHANGED <<data, range, out_buf, app, stack, instruction, stream_pos>>
  BY DEF Prologue, LengthStep, RunVariables, VariableStep, RunFields
<1>2. part \in {"lengths", "variables"} /\ part' \in {"lengths", "variables", "fields"}
  BY DEF Prologue, LengthStep, RunVariables, VariableStep, RunFields
<1>3. at' \in Nat /\ at' >= 1 /\ (part' = "fields" => at' = 1)
  BY DEF Prologue, LengthStep, RunVariables, VariableStep, RunFields, Inv, TypeOK
<1> QED BY <1>1, <1>2, <1>3, FieldsAssumption DEF Inv, TypeOK, ResumeInv, End, MembersOK

\* The space check leaves the position within the buffer.
LEMMA Roomy ==
  ASSUME Inv, part = "fields", at \in Labels, ~Lacks(at)
  PROVE  /\ Len(BytesOf(at)) \in Nat
         /\ stream_pos \in Nat /\ out_buf_end \in 0..OutSize
         /\ stream_pos + Len(BytesOf(at)) <= out_buf_end
         /\ BytesOf(at) = [k \in 1..Len(BytesOf(at)) |-> BytesOf(at)[k]]
<1>1. MembersOK(data, range) /\ stream_pos \in 0..out_buf_end /\ out_buf_end \in 0..OutSize
  BY DEF Inv, TypeOK, ResumeInv
<1>2. /\ Len(BytesOf(at)) \in Nat
      /\ Fields[at].op = "int" => Len(BytesOf(at)) = Fields[at].width
      /\ Fields[at].op \in {"bytes", "range"} => Signed(Len(BytesOf(at))) = Len(BytesOf(at))
      /\ BytesOf(at) = [k \in 1..Len(BytesOf(at)) |-> BytesOf(at)[k]]
  BY <1>1, WireLen DEF BytesOf
<1>3. Fields[at].op = "switch" => Len(BytesOf(at)) = 0
  BY DEF BytesOf, Wire
<1>4. Fields[at].op \in {"int", "bytes", "range", "switch"}
  BY FieldsAssumption DEF FieldOK
<1> QED BY <1>1, <1>2, <1>3, <1>4, BufferAssumption DEF Lacks, Left

\* Writing a field, or returning BUFFER_FULL before it, keeps the invariant of
\* serialize().
LEMMA FieldStep ==
  ASSUME Inv, WriteField \/ FieldFull \/ ReturnDone
  PROVE  Inv'
<1> USE DEF inCall, app, unit, pstate, Mark
<1>1. CASE WriteField
  <2>1. /\ Len(BytesOf(at)) \in Nat /\ stream_pos \in Nat /\ out_buf_end \in 0..OutSize
        /\ stream_pos + Len(BytesOf(at)) <= out_buf_end
    BY <1>1, Roomy DEF WriteField
  <2>2. stream_pos' \in 0..out_buf_end /\ stream_pos' \in 0..OutSize /\ stream_pos' # nullptr
    BY <1>1, <2>1, BufferAssumption DEF WriteField, nullptr
  <2>3. at' \in 1..End /\ at' \in Nat
    BY <1>1, JumpForward, FieldsAssumption DEF WriteField, End
  <2>4. instruction' \in 1..Len(Fields)
    BY <1>1 DEF WriteField, Labels
  <2>5. out_buf' = [a \in 1..OutSize |-> out_buf'[a]]
    BY <1>1 DEF WriteField
  <2>6. UNCHANGED <<data, range, out_buf_end, result, bytes_written, stack, part>>
        /\ part = "fields"
    BY <1>1 DEF WriteField
  <2> QED BY <2>2, <2>3, <2>4, <2>5, <2>6, FieldsAssumption
          DEF Inv, TypeOK, ResumeInv, MembersOK
<1>2. CASE FieldFull
  BY <1>2, FieldsAssumption DEF FieldFull, Inv, TypeOK, ResumeInv, MembersOK, Labels
<1>3. CASE ReturnDone
  BY <1>3, FieldsAssumption, BufferAssumption
     DEF ReturnDone, Inv, TypeOK, ResumeInv, MembersOK
<1> QED BY <1>1, <1>2, <1>3

\* The invariant of serialize() is inductive.
LEMMA NextInv == Inv /\ [Next]_vars => Inv'
<1> SUFFICES ASSUME Inv, [Next]_vars PROVE Inv'
  OBVIOUS
<1>1. CASE UNCHANGED vars
  BY <1>1 DEF vars, unit, app, pstate, Inv, TypeOK, ResumeInv, MembersOK
<1> QED BY <1>1, EditStep, CallStep, PrologueStep, FieldStep DEF Next, Step, Application

\* A resumed call finds its position, its label and its BlockState, for every
\* unit and every sequence of buffer sizes.
THEOREM ResumeCorrect == Spec => [](TypeOK /\ ResumeInv)
<1>1. Init => Inv
  BY InitInv
<1>2. Inv /\ [Next]_vars => Inv'
  BY NextInv
<1> QED BY <1>1, <1>2, PTL DEF Spec, Inv

\* Every variable of serialize() and of the unit keeps its type, for every edit.
THEOREM TypeCorrect == Spec => []TypeOK
BY ResumeCorrect, PTL

\* serialize() writes no byte before its position nor behind out_buf_end.
THEOREM WritesBounded == Spec => WritesInBuffer
<1>1. Inv /\ [Next]_vars =>
        [part = "fields" => \A a \in 1..OutSize :
           out_buf'[a] # out_buf[a] => stream_pos < a /\ a <= out_buf_end]_vars
  <2> SUFFICES ASSUME Inv, Next, part = "fields", NEW a \in 1..OutSize, out_buf'[a] # out_buf[a]
               PROVE  stream_pos < a /\ a <= out_buf_end
    OBVIOUS
  <2>1. WriteField
    BY DEF Next, Step, Application, EditInt, EditBytes, OverwriteInput, CallRoot, CallResume, Again,
           Prologue, LengthStep, RunVariables, VariableStep, RunFields, FieldFull, ReturnDone
  <2>2. /\ Len(BytesOf(at)) \in Nat /\ stream_pos \in Nat /\ out_buf_end \in 0..OutSize
        /\ stream_pos + Len(BytesOf(at)) <= out_buf_end
    BY <2>1, Roomy DEF WriteField
  <2>3. stream_pos < a /\ a <= stream_pos + Len(BytesOf(at))
    BY <2>1 DEF WriteField
  <2> QED BY <2>2, <2>3, BufferAssumption
<1>2. Spec => []Inv
  BY ResumeCorrect DEF Inv
<1> QED BY <1>1, <1>2, PTL DEF Spec, WritesInBuffer

--------------------------------------------------------------------------------
\* A length member keeps its value when another member is written.
LEMMA PutOther ==
  ASSUME NEW v, NEW i, NEW x, NEW j, j # i, j \in DOMAIN v
  PROVE  j \in DOMAIN Put(v, i, x) /\ Put(v, i, x)[j] = v[j]
BY DEF Put

\* The assigned member then has the assigned value.
LEMMA PutSame ==
  ASSUME NEW v, NEW i, NEW x
  PROVE  i \in DOMAIN Put(v, i, x) /\ Put(v, i, x)[i] = x
BY DEF Put

\* LengthsCurrent made inductive: the length updates that have run so far hold.
LengthsSoFar ==
    /\ part = "lengths" => \A k \in 1..Len(LengthsOf) : k < at /\ Lasting(k) => Current(k)
    /\ part = "variables" => \A k \in 1..Len(LengthsOf) : Lasting(k) => Current(k)
    /\ LengthsCurrent

\* One length update keeps the earlier ones that last.
LEMMA LengthStepKeeps ==
  ASSUME Inv, LengthsSoFar, LengthStep
  PROVE  LengthsSoFar'
<1>1. /\ part = "lengths" /\ part' = "lengths" /\ at \in 1..Len(LengthsOf)
      /\ at' = at + 1 /\ data' = data /\ result' = result /\ result = "none"
      /\ num' = LengthUpdated(at, num, data) /\ at \in Nat
  BY PrologueAssumption DEF LengthStep, inCall, app, Inv, TypeOK, ResumeInv
<1>2. ASSUME NEW k \in 1..Len(LengthsOf), k < at', Lasting(k)
      PROVE  Current(k)'
  <2>1. k <= at
    BY <1>1, <1>2, PrologueAssumption
  <2>2. CASE k = at
    BY <1>1, <2>2, PutSame DEF LengthUpdated, Current
  <2>3. CASE k < at
    <3>1. at \in 1..Len(LengthsOf)
      BY <1>1, <2>3, PrologueAssumption
    <3>2. LengthsOf[k].to # LengthsOf[at].to
      BY <1>2, <2>3, <3>1, PrologueAssumption DEF Lasting
    <3>3. Current(k)
      BY <1>1, <1>2, <2>3 DEF LengthsSoFar
    <3> QED BY <1>1, <3>2, <3>3, PutOther, SMTT(30) DEF LengthUpdated, Current
  <2> QED BY <1>1, <2>1, <2>2, <2>3, PrologueAssumption
<1> QED BY <1>1, <1>2 DEF LengthsSoFar, LengthsCurrent

\* A &serialize attribute writes no length member that lasts.
LEMMA VariableStepKeeps ==
  ASSUME Inv, LengthsSoFar, VariableStep
  PROVE  LengthsSoFar'
<1>1. /\ part = "variables" /\ part' = "variables" /\ at <= Len(Variables)
      /\ data' = data /\ result' = result /\ result = "none"
      /\ num' = Serialized(at, num) /\ at \in 1..Len(Variables)
  BY PrologueAssumption DEF VariableStep, inCall, app, Inv, TypeOK, ResumeInv
<1>2. ASSUME NEW k \in 1..Len(LengthsOf), Lasting(k)
      PROVE  Current(k)'
  <2> DEFINE x == Variables[at].serialize
  <2>1. Current(k)
    BY <1>1, <1>2 DEF LengthsSoFar
  <2>2. x.op \in {"none", "set", "sum"} /\ (x.op # "none" => x.to # LengthsOf[k].to)
    BY <1>1, <1>2, PrologueAssumption DEF Lasting
  <2>3. num' = num \/ (x.op # "none" /\ \E y : num' = Put(num, x.to, y))
    BY <1>1, <2>2 DEF Serialized
  <2> HIDE DEF x
  <2> QED BY <1>1, <2>1, <2>2, <2>3, PutOther DEF Current
<1> QED BY <1>1, <1>2 DEF LengthsSoFar, LengthsCurrent

\* Every step keeps the length members that were brought up to date so far.
LEMMA NextLengths == Inv /\ LengthsSoFar /\ [Next]_vars => LengthsSoFar'
<1> SUFFICES ASSUME Inv, LengthsSoFar, [Next]_vars PROVE LengthsSoFar'
  OBVIOUS
<1> USE DEF LengthsSoFar, LengthsCurrent, Current, inCall, app, unit
<1>1. CASE UNCHANGED vars
  BY <1>1 DEF vars
<1>2. CASE EditInt \/ EditBytes \/ OverwriteInput
  BY <1>2 DEF EditInt, EditBytes, OverwriteInput
<1>3. CASE CallRoot \/ CallResume \/ Again
  BY <1>3, PrologueAssumption, SMTT(30) DEF CallRoot, CallResume, Again
<1>4. CASE RunVariables \/ RunFields
  BY <1>4, PrologueAssumption, SMTT(30) DEF RunVariables, RunFields, Inv, TypeOK, ResumeInv
<1>5. CASE WriteField \/ FieldFull \/ ReturnDone
  BY <1>5 DEF WriteField, FieldFull, ReturnDone
<1> QED BY <1>1, <1>2, <1>3, <1>4, <1>5, LengthStepKeeps, VariableStepKeeps
        DEF Next, Step, Application, Prologue

\* The strengthened invariant holds of every unit.
LEMMA LengthsSoFarCorrect == Spec => []LengthsSoFar
<1>1. Init => LengthsSoFar
  BY DEF Init, LengthsSoFar, LengthsCurrent
<1>2. Inv /\ LengthsSoFar /\ [Next]_vars => LengthsSoFar'
  BY NextLengths
<1>3. Spec => []Inv
  BY ResumeCorrect DEF Inv
<1> QED BY <1>1, <1>2, <1>3, PTL DEF Spec

\* When fields are written, every length member that no later length update and no
\* &serialize attribute assigns holds the length of its field, for every unit.
THEOREM LengthsCorrect == Spec => []LengthsCurrent
<1>1. LengthsSoFar => LengthsCurrent
  BY DEF LengthsSoFar
<1> QED BY <1>1, LengthsSoFarCorrect, PTL

--------------------------------------------------------------------------------
\* Serializer implements UnboundedSerializer: what is written does not depend on
\* where calls ran out of buffer.

\* Concatenation, as a function of the position.
LEMMA ConcatDef ==
  ASSUME NEW S, NEW s \in Seq(S), NEW t \in Seq(S)
  PROVE  s \o t = [k \in 1..(Len(s) + Len(t)) |->
                     IF k <= Len(s) THEN s[k] ELSE t[k - Len(s)]]
<1> DEFINE c == s \o t
<1>1. /\ c \in Seq(S) /\ Len(c) = Len(s) + Len(t)
      /\ \A k \in 1..(Len(s) + Len(t)) : c[k] = IF k <= Len(s) THEN s[k] ELSE t[k - Len(s)]
  BY ConcatProperties
<1> HIDE DEF c
<1>2. c = [k \in 1..Len(c) |-> c[k]]
  BY <1>1
<1>3. s \o t = [k \in 1..(Len(s) + Len(t)) |-> c[k]]
  BY <1>1, <1>2 DEF c
<1> QED BY <1>1, <1>3

\* The operators of the instance are those of SerializerProgram.
LEMMA SameOperators ==
  /\ \A i, v, d, r, b : Unbounded!Wire(i, v, d, r, b) = Wire(i, v, d, r, b)
  /\ \A i, v : Unbounded!Jump(i, v) = Jump(i, v)
  /\ \A k, v, d : Unbounded!LengthUpdated(k, v, d) = LengthUpdated(k, v, d)
  /\ \A k, v : Unbounded!Serialized(k, v) = Serialized(k, v)
  /\ Unbounded!Labels = Labels /\ Unbounded!End = End
<1>0. \A n, w : Unbounded!HostBytes(n, w) = HostBytes(n, w)
  BY DEF Unbounded!HostBytes, HostBytes
<1>1. \A i, v, d, r, b : Unbounded!Wire(i, v, d, r, b) = Wire(i, v, d, r, b)
  <2>1. \A o, n, w : Unbounded!SerializeInt(o, n, w) = SerializeInt(o, n, w)
    BY <1>0 DEF Unbounded!SerializeInt, SerializeInt, Unbounded!Swap, Swap
  <2>2. \A x, f, n : Unbounded!Slice(x, f, n) = Slice(x, f, n)
    BY DEF Unbounded!Slice, Slice
  <2> TAKE i, v, d, r, b
  <2> DEFINE f == Fields[i]
  <2>3. Unbounded!SerializeInt(f.order, v[f.member], f.width)
          = SerializeInt(f.order, v[f.member], f.width)
    BY <2>1, Zenon
  <2>4. Unbounded!Slice(b, r[f.member].at, r[f.member].len)
          = Slice(b, r[f.member].at, r[f.member].len)
    BY <2>2, Zenon
  <2> QED BY <2>3, <2>4 DEF Unbounded!Wire, Wire
<1>a. \A w : Unbounded!Modulus(w) = Modulus(w)
  BY DEF Unbounded!Modulus, Modulus
<1>b. \A n, w : Unbounded!Arith(n, w) = Arith(n, w)
  BY <1>a, Zenon DEF Unbounded!Arith, Arith
<1>c. \A w, x : Unbounded!Wider(w, x) = Wider(w, x)
  BY DEF Unbounded!Wider, Wider
<1>d. \A e, v, w : Unbounded!Eval(e, v, w) = Eval(e, v, w)
  BY <1>b, <1>c DEF Unbounded!Eval, Eval
<1>2. \A i, v : Unbounded!Jump(i, v) = Jump(i, v)
  BY <1>d DEF Unbounded!Jump, Jump
<1>3. \A n, w : Unbounded!Truncated(n, w) = Truncated(n, w)
  BY <1>a, Zenon DEF Unbounded!Truncated, Truncated
<1>4. \A f, i, x : Unbounded!Put(f, i, x) = Put(f, i, x)
  BY DEF Unbounded!Put, Put
<1>5. \A k, v, d : Unbounded!LengthUpdated(k, v, d) = LengthUpdated(k, v, d)
  BY <1>3, <1>4 DEF Unbounded!LengthUpdated, LengthUpdated
<1>6. \A k, v : Unbounded!Serialized(k, v) = Serialized(k, v)
  BY <1>3, <1>4, <1>b, <1>c DEF Unbounded!Serialized, Serialized
<1> QED BY <1>1, <1>2, <1>5, <1>6 DEF Unbounded!Labels, Labels, Unbounded!End, End

\* A new unit is idle.
LEMMA InitRefines == Init => Unbounded!Init
BY DEF Init, Unbounded!Init, absPart, absAt, absOut, nullptr

\* Edits and reuse of the input buffer.
LEMMA EditRefines ==
  ASSUME Inv, EditInt \/ EditBytes \/ OverwriteInput
  PROVE  Unbounded!Edit \/ Unbounded!OverwriteInput
<1> USE DEF unit, app, pstate, absPart, absAt, absOut
<1>1. UNCHANGED <<absPart, absAt, absOut>>
  BY DEF EditInt, EditBytes, OverwriteInput
<1>2. CASE EditInt \/ EditBytes
  BY <1>1, <1>2 DEF EditInt, EditBytes, Unbounded!Edit
<1>3. CASE OverwriteInput
  BY <1>1, <1>3 DEF OverwriteInput, Unbounded!OverwriteInput, Unbounded!unit
<1> QED BY <1>2, <1>3

\* A first call begins, a resumed one is no step, a reset takes or drops what is
\* written.
LEMMA CallRefines ==
  ASSUME Inv, CallRoot \/ CallResume \/ Again
  PROVE  Unbounded!Begin \/ Unbounded!Release \/ UNCHANGED Unbounded!vars
<1> USE DEF unit, pstate, absPart, absAt, absOut, Unbounded!unit, nullptr, Inv, TypeOK, ResumeInv
<1>1. CASE CallRoot
  BY <1>1 DEF CallRoot, Unbounded!Begin
<1>2. CASE CallResume
  BY <1>2 DEF CallResume, Unbounded!vars
<1>3. CASE Again
  <2>1. absPart \in {"fields", "done"}
    BY <1>3 DEF Again
  <2>2. absPart' = "idle" /\ absOut' = <<>>
    BY <1>3 DEF Again, ResetState
  <2>3. absAt' = 0
    BY <1>3 DEF Again
  <2> QED BY <1>3, <2>1, <2>2, <2>3 DEF Again, Unbounded!Release
<1> QED BY <1>1, <1>2, <1>3

\* Length updates and variables.
LEMMA PrologueRefines ==
  ASSUME Inv, Prologue
  PROVE  Unbounded!LengthStep \/ Unbounded!VariableStep \/ Unbounded!NextPart
<1> USE SameOperators
        DEF inCall, app, unit, absPart, absAt, Unbounded!unit
<1>1. UNCHANGED absOut
  BY DEF Prologue, LengthStep, RunVariables, VariableStep, RunFields, absOut
<1>2. CASE LengthStep
  BY <1>1, <1>2 DEF LengthStep, Unbounded!LengthStep
<1>3. CASE VariableStep
  BY <1>1, <1>3 DEF VariableStep, Unbounded!VariableStep
<1>4. CASE RunVariables
  BY <1>1, <1>4 DEF RunVariables, Unbounded!NextPart
<1>5. CASE RunFields
  BY <1>1, <1>5 DEF RunFields, Unbounded!NextPart
<1> QED BY <1>2, <1>3, <1>4, <1>5 DEF Prologue

\* A field that fits is appended to what is written.
LEMMA WriteRefines ==
  ASSUME Inv, WriteField
  PROVE  Unbounded!WriteField
<1> DEFINE b == BytesOf(at)
           n == Len(BytesOf(at))
<1>1. part = "fields" /\ part' = "fields" /\ at \in Labels /\ stream_pos' = stream_pos + n
      /\ UNCHANGED <<num, data, range, in_buf>> /\ at' = Jump(at, num)
  BY DEF WriteField, inCall
<1>2. n \in Nat /\ stream_pos \in Nat /\ out_buf_end \in 0..OutSize
      /\ stream_pos + n <= out_buf_end /\ b = [k \in 1..n |-> b[k]]
  BY Roomy DEF WriteField
<1>3. \A a \in 1..OutSize :
        out_buf'[a] = IF stream_pos < a /\ a <= stream_pos + n THEN b[a - stream_pos] ELSE out_buf[a]
  BY DEF WriteField
<1>4. absOut = [k \in 1..stream_pos |-> out_buf[k]]
  BY <1>2 DEF absOut, nullptr
<1>5. absOut' = [k \in 1..(stream_pos + n) |-> out_buf'[k]]
  BY <1>1, <1>2 DEF absOut, nullptr
<1> HIDE DEF b, n
<1>6. Len(absOut) = stream_pos
  BY <1>2, <1>4
<1>7. Len(b) = n
  BY DEF b, n
<1>8. absOut \o b = [k \in 1..(stream_pos + n) |->
                       IF k <= stream_pos THEN out_buf[k] ELSE b[k - stream_pos]]
  <2>1. absOut \o b = [k \in 1..(Len(absOut) + Len(b)) |->
                         IF k <= Len(absOut) THEN absOut[k] ELSE b[k - Len(absOut)]]
    <3> DEFINE S == {out_buf[k] : k \in 1..stream_pos} \cup {b[k] : k \in 1..n}
    <3>1. absOut \in Seq(S)
      BY <1>2, <1>4
    <3>2. b \in Seq(S)
      BY <1>2
    <3> HIDE DEF S
    <3> QED BY <3>1, <3>2, ConcatDef
  <2>2. \A k \in 1..(stream_pos + n) : k <= stream_pos => absOut[k] = out_buf[k]
    BY <1>2, <1>4
  <2> QED BY <2>1, <2>2, <1>6, <1>7
<1>9. absOut' = absOut \o b
  <2>1. \A k \in 1..(stream_pos + n) :
          out_buf'[k] = IF k <= stream_pos THEN out_buf[k] ELSE b[k - stream_pos]
    <3> TAKE k \in 1..(stream_pos + n)
    <3>1. k \in 1..OutSize
      BY <1>2, BufferAssumption
    <3> QED BY <1>2, <1>3, <3>1
  <2> QED BY <1>5, <1>8, <2>1
<1> QED BY <1>1, <1>9, SameOperators
        DEF Unbounded!WriteField, Unbounded!unit, absPart, absAt, b, BytesOf

\* A field that does not fit is no step.
LEMMA FullRefines ==
  ASSUME Inv, FieldFull
  PROVE  UNCHANGED Unbounded!vars
BY DEF FieldFull, Mark, unit, absPart, absAt, absOut, Unbounded!vars, Unbounded!unit, Inv,
       ResumeInv

\* Returning DONE is the last step of the serializer with an endless buffer.
LEMMA DoneRefines ==
  ASSUME Inv, ReturnDone
  PROVE  Unbounded!Done
BY SameOperators DEF ReturnDone, unit, pstate, absPart, absAt, absOut, Unbounded!Done,
       Unbounded!unit, Inv, ResumeInv

\* Every step of Serializer is a step of UnboundedSerializer, or none.
LEMMA StepRefines == Inv /\ [Next]_vars => [Unbounded!Next]_(Unbounded!vars)
<1> SUFFICES ASSUME Inv, [Next]_vars PROVE [Unbounded!Next]_(Unbounded!vars)
  OBVIOUS
<1>1. CASE UNCHANGED vars
  BY <1>1 DEF vars, unit, app, pstate, Unbounded!vars, Unbounded!unit, absPart, absAt, absOut
<1> QED BY <1>1, EditRefines, CallRefines, PrologueRefines, WriteRefines, FullRefines, DoneRefines
        DEF Next, Step, Application, Unbounded!Next

\* serialize() writes what the serializer with an endless buffer writes, for
\* every unit and every sequence of buffer sizes.
THEOREM UnboundedImplemented == Spec => ImplementsUnbounded
<1>1. Init => Unbounded!Init
  BY InitRefines
<1>2. Inv /\ [Next]_vars => [Unbounded!Next]_(Unbounded!vars)
  BY StepRefines
<1>3. Spec => []Inv
  BY ResumeCorrect DEF Inv
<1> QED BY <1>1, <1>2, <1>3, PTL DEF Spec, ImplementsUnbounded, Unbounded!Spec
================================================================================
