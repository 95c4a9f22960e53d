--------------------------- MODULE MCResumableParser ---------------------------
(***************************************************************************)
(* Instances of ResumableParser for TLC: the unit of examples/memcached.dgo *)
(* with a uint8 total_len and without opaque and cas, and the unit its      *)
(* instantiation in examples/memcached_inst.dgo is compacted to, on streams *)
(* of two commands.                                                         *)
(***************************************************************************)
EXTENDS ResumableParser, ParserGenerator, Memcached

MCProgram == <<
   [op |-> "int", width |-> 1, order |-> "big", next |-> 2],
   [op |-> "int", width |-> 1, order |-> "big", next |-> 3],
   [op |-> "var", width |-> 4, expr |-> Self(2), next |-> 4],
   [op |-> "int", width |-> 2, order |-> "big", next |-> 5],
   [op |-> "int", width |-> 1, order |-> "big", next |-> 6],
   [op |-> "bytes", expr |-> Const(1), next |-> 7],
   [op |-> "switch", expr |-> Self(1), cases |-> (REQUEST :> 8 @@ RESPONSE :> 9), next |-> 10],
   [op |-> "int", width |-> 2, order |-> "big", next |-> 10],
   [op |-> "int", width |-> 2, order |-> "big", next |-> 10],
   [op |-> "int", width |-> 1, order |-> "big", next |-> 11],
   [op |-> "var", width |-> 4, expr |-> Rest(10, 5, 4), next |-> 12],
   [op |-> "bytes", expr |-> Self(5), next |-> 13],
   [op |-> "bytes", expr |-> Self(4), next |-> 14],
   [op |-> "bytes", expr |-> Self(11), next |-> 15] >>

MCCompactProgram == <<
   [op |-> "range", expr |-> Const(1), next |-> 2],
   [op |-> "int", width |-> 1, order |-> "big", next |-> 3],
   [op |-> "var", width |-> 4, expr |-> Self(2), next |-> 4],
   [op |-> "int", width |-> 2, order |-> "big", next |-> 5],
   [op |-> "int", width |-> 1, order |-> "big", next |-> 6],
   [op |-> "range", expr |-> Const(3), next |-> 7],
   [op |-> "int", width |-> 1, order |-> "big", next |-> 8],
   [op |-> "var", width |-> 4, expr |-> Rest(7, 5, 4), next |-> 9],
   [op |-> "range", expr |-> Self(5), next |-> 10],
   [op |-> "bytes", expr |-> Self(4), next |-> 11],
   [op |-> "range", expr |-> Self(8), next |-> 12] >>

\* The programs above, written out for their labels, are the generated ones.
ASSUME MCProgram = Generate(MemcachedCommand, FALSE)
ASSUME MCCompactProgram = Generate(CompactMemcachedCommand, TRUE)

\* The hypothesis of the proofs holds of them.
ASSUME NarrowRanges

MCDefined == DefinedIn(MCProgram)
MCCompactDefined == DefinedIn(MCCompactProgram)

--------------------------------------------------------------------------------
StreamBytes(st) == FlattenSeq([k \in 1..Len(st) |-> Encode(st[k])])

Streams == {<<a, b>> : a \in {Get, Reply, Other}, b \in {Get, Reply, Other, Inconsistent}}
MCInputs == {StreamBytes(st) : st \in Streams}

\* The compact unit takes the switch for two bytes, so magic is one of two.
CompactStreams == {<<a, b>> : a \in {Get, Reply}, b \in {Get, Reply, Inconsistent}}
MCCompactInputs == {StreamBytes(st) : st \in CompactStreams}

Sent == CHOOSE st \in Streams : StreamBytes(st) = input

\* The unit u holds what command m says.
Holds(u, m) ==
    IF Program = MCProgram
    THEN /\ u.num[1] = m.magic /\ u.num[3] = m.opcode
         /\ m.magic = REQUEST => u.num[8] = m.vb
         /\ m.magic = RESPONSE => u.num[9] = m.vb
         /\ u.data[6] = <<3>> /\ u.data[12] = m.extras /\ u.data[13] = m.key
         /\ u.data[14] = m.value
    ELSE u.num[3] = m.opcode /\ u.data[10] = m.key /\ u.data[11] = m.value

\* However the stream is cut into calls, units that parse() has delivered are
\* the commands that were sent, in order, and a command whose total_len is too
\* small, so that value_len wraps, is never delivered.
DeliversSent ==
    /\ Len(msgs) <= Len(Sent)
    /\ \A k \in 1..Len(msgs) : Sent[k] # Inconsistent /\ Holds(msgs[k], Sent[k])
    /\ result = "DONE" => bytes_read = Len(Encode(Sent[Len(msgs)]))

\* Every consistent command is delivered in the end: calls that run out of data
\* or area lose nothing.
AllDelivered ==
    <>(Len(msgs) = Len(Sent) \/ Sent[Len(msgs) + 1] = Inconsistent)
================================================================================
