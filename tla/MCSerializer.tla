------------------------------ MODULE MCSerializer -----------------------------
(***************************************************************************)
(* Instances of Serializer for TLC: units parsed from memcached commands,  *)
(* whole and compacted, edited by the application and written.             *)
(***************************************************************************)
EXTENDS Serializer, SerializerGenerator, Memcached

IntF(m, w, next) == [member |-> m, op |-> "int", width |-> w, order |-> "big", next |-> next]
BytesF(m, e, next) == [member |-> m, op |-> "bytes", expr |-> e, next |-> next]
RangeF(m, e, next) == [member |-> m, op |-> "range", expr |-> e, next |-> next]

MCFields == <<
    IntF(1, 1, 2), IntF(2, 1, 3), IntF(4, 2, 4), IntF(5, 1, 5), BytesF(6, Const(1), 6),
    [member |-> 7, op |-> "switch", expr |-> Self(1),
     cases |-> (REQUEST :> 7 @@ RESPONSE :> 8), next |-> 9],
    IntF(8, 2, 9), IntF(9, 2, 9), IntF(10, 1, 10),
    BytesF(12, Self(5), 11), BytesF(13, Self(4), 12), BytesF(14, Self(11), 13) >>
MCLengthsOf == << [to |-> 5, of |-> 12], [to |-> 4, of |-> 13], [to |-> 11, of |-> 14] >>
MCVariables == << [id |-> 3, serialize |-> SetUnless(UNDEF, 2)],
                  [id |-> 11, serialize |-> SetSum(10, 4, 5)] >>
MCWidthOf == (1 :> 1 @@ 2 :> 1 @@ 3 :> 4 @@ 4 :> 2 @@ 5 :> 1 @@ 8 :> 2 @@ 9 :> 2 @@ 10 :> 1
              @@ 11 :> 4)

MCCompactFields == <<
    RangeF(1, Const(1), 2), IntF(2, 1, 3), IntF(4, 2, 4), IntF(5, 1, 5), RangeF(6, Const(3), 6),
    IntF(7, 1, 7), RangeF(9, Self(5), 8), BytesF(10, Self(4), 9), RangeF(11, Self(8), 10) >>
MCCompactLengthsOf == << [to |-> 4, of |-> 10] >>
MCCompactVariables == << [id |-> 3, serialize |-> SetUnless(UNDEF, 2)],
                         [id |-> 8, serialize |-> SetSum(7, 4, 5)] >>
MCCompactWidthOf == (2 :> 1 @@ 3 :> 4 @@ 4 :> 2 @@ 5 :> 1 @@ 7 :> 1 @@ 8 :> 4)

\* The programs above, written out, are the generated ones.
ASSUME /\ MCFields = FieldCode(MemcachedCommand, FALSE)
       /\ MCLengthsOf = LengthUpdates(MemcachedCommand)
       /\ MCVariables = VariableUpdates(MemcachedCommand)
       /\ MCWidthOf = IntWidths(MemcachedCommand)
ASSUME /\ MCCompactFields = FieldCode(CompactMemcachedCommand, TRUE)
       /\ MCCompactLengthsOf = LengthUpdates(CompactMemcachedCommand)
       /\ MCCompactVariables = VariableUpdates(CompactMemcachedCommand)
       /\ MCCompactWidthOf = IntWidths(CompactMemcachedCommand)

--------------------------------------------------------------------------------
\* The unit that the generated parse() makes of b.
RECURSIVE ParseFrom(_, _, _, _, _, _, _, _)
ParseFrom(code, w, b, i, pos, n, d, r) ==
    IF i > Len(code) THEN [num |-> n, data |-> d, range |-> r, in_buf |-> b]
    ELSE LET p == code[i]
             len == Eval(p.expr, n, w)
         IN CASE p.op = "int" ->
                   ParseFrom(code, w, b, p.next, pos + p.width,
                             Put(n, i, ParseInt(p.order, Slice(b, pos, p.width))), d, r)
              [] p.op = "var" ->
                   ParseFrom(code, w, b, p.next, pos, Put(n, i, Truncated(len, p.width)), d, r)
              [] p.op = "switch" ->
                   ParseFrom(code, w, b, IF len \in DOMAIN p.cases THEN p.cases[len] ELSE p.next,
                             pos, n, d, r)
              [] p.op = "bytes" ->
                   ParseFrom(code, w, b, p.next, pos + len, n, Put(d, i, Slice(b, pos, len)), r)
              [] p.op = "range" ->
                   ParseFrom(code, w, b, p.next, pos + len, n, d, Put(r, i, [at |-> pos, len |-> len]))

Parsed(items, input_pointers, m) ==
    LET code == Generate(items, input_pointers)
    IN ParseFrom(code, IntWidths(items), Encode(m), 1, 0, NoMembers, NoMembers, NoMembers)

MCUnits == {Parsed(MemcachedCommand, FALSE, m) : m \in {Get, Reply, Other}}
MCCompactUnits == {Parsed(CompactMemcachedCommand, TRUE, m) : m \in {Get, Reply}}

\* Four extras are more than extras_len can say.
MCEdits == (3 :> {UNDEF, 2})
MCPayloads == (12 :> {<<>>, <<3, 2, 1, 0>>} @@ 13 :> {<<1>>} @@ 14 :> {<<2>>, <<1, 3>>})
MCCompactPayloads == (10 :> {<<>>, <<1>>, <<3, 3>>, <<0, 1, 2, 3>>})

--------------------------------------------------------------------------------
Opcode == IF num[3] = UNDEF THEN num[2] ELSE num[3]

\* The command a unit stands for, from the members the application sees.
Meant ==
    Command(num[1], Opcode, IF num[1] = REQUEST THEN num[8] ELSE IF num[1] = RESPONSE THEN num[9] ELSE 0,
            data[12], data[13], data[14])

Fits(m) == Len(m.extras) < MCBase /\ m.total < MCBase

\* A unit whose lengths fit their members is written as the command it stands
\* for, so that serializing an unedited unit gives back the bytes it was parsed
\* from, and serializing twice gives the same bytes twice.
WritesCommand ==
    result = "DONE" /\ Fits(Meant) => Slice(out_buf, 0, bytes_written) = Encode(Meant)

\* The same for the compacted unit, whose other fields are what the input buffer
\* holds.  An application that reuses that buffer too early spoils those fields
\* and nothing else: the lengths, the opcode and the key stay right.
WritesCompactCommand ==
    LET key == data[10]
        extras == range[9].len
        total == extras + Len(key) + range[11].len
        written == Slice(out_buf, 0, bytes_written)
        hidden(m) == Slice(in_buf, range[m].at, range[m].len)
    IN result = "DONE" /\ total < MCBase =>
          /\ bytes_written = 9 + total
          /\ Slice(written, 1, 4) = <<Opcode, 0, Len(key), extras>>
          /\ written[9] = total
          /\ Slice(written, 9 + extras, Len(key)) = key
          /\ in_buf \in {Encode(Get), Encode(Reply)} =>
                written = hidden(1) \o Slice(written, 1, 4) \o hidden(6) \o <<total>>
                          \o hidden(9) \o key \o hidden(11)

\* Every call of serialize() returns, and one that is given room for the whole
\* command returns DONE, also when it resumes an earlier call, when the command
\* fills the buffer to its last byte, and when a length does not fit its member.
ReturnsWritten ==
    /\ part # "none" ~> part = "none"
    /\ part # "none" /\ 9 + range[9].len + Len(data[10]) + range[11].len <= out_buf_end
          ~> result = "DONE"
================================================================================
