------------------------------- MODULE Memcached -------------------------------
(***************************************************************************)
(* The units of examples/memcached.dgo, with a uint8 total_len and without *)
(* opaque and cas, and of examples/memcached_inst.dgo, and the commands of *)
(* the protocol as a peer writes them, with bytes of MCBase values.        *)
(***************************************************************************)
EXTENDS UnitAst

MCBase == 4
UNDEF == -1
REQUEST == 2
RESPONSE == 3

MemcachedCommand == <<
    IntField("magic_code", 1, "big"),
    IntField("opcode_binary", 1, "big"),
    Variable("opcode", 4, Self("opcode_binary"), SetUnless(UNDEF, "opcode_binary")),
    IntField("key_len", 2, "big"),
    IntField("extras_len", 1, "big"),
    BytesField("reserved", Const(1)),
    Switch("switch", Self("magic_code"),
           << Case({REQUEST}, FALSE, <<IntField("vbucket_id", 2, "big")>>),
              Case({RESPONSE}, FALSE, <<IntField("status", 2, "big")>>) >>),
    IntField("total_len", 1, "big"),
    Variable("value_len", 4, Rest("total_len", "extras_len", "key_len"),
             SetSum("total_len", "key_len", "extras_len")),
    BytesField("extras", Self("extras_len")),
    StringField("key", Self("key_len")),
    BytesField("value", Self("value_len")) >>

CompactMemcachedCommand == <<
    HiddenBytes("anon1", Const(1)),
    IntField("opcode_binary", 1, "big"),
    Variable("opcode", 4, Self("opcode_binary"), SetUnless(UNDEF, "opcode_binary")),
    IntField("key_len", 2, "big"),
    IntField("extras_len", 1, "big"),
    HiddenBytes("anon2", Const(3)),
    IntField("total_len", 1, "big"),
    Variable("value_len", 4, Rest("total_len", "extras_len", "key_len"),
             SetSum("total_len", "key_len", "extras_len")),
    HiddenBytes("extras", Self("extras_len")),
    StringField("key", Self("key_len")),
    HiddenBytes("value", Self("value_len")) >>

--------------------------------------------------------------------------------
\* Commands as a peer writes them, independently of Program.
Command(magic, opcode, vb, extras, key, value) ==
    [magic |-> magic, opcode |-> opcode, vb |-> vb, extras |-> extras, key |-> key,
     value |-> value, total |-> Len(extras) + Len(key) + Len(value)]

Encode(m) ==
    <<m.magic, m.opcode, 0, Len(m.key), Len(m.extras), 3>>
    \o (IF m.magic \in {REQUEST, RESPONSE} THEN <<m.vb \div MCBase, m.vb % MCBase>> ELSE <<>>)
    \o <<m.total>> \o m.extras \o m.key \o m.value

Get == Command(REQUEST, 0, 6, <<>>, <<1, 2>>, <<>>)
Reply == Command(RESPONSE, 1, 9, <<3>>, <<>>, <<2, 1>>)
Other == Command(1, 3, 0, <<2>>, <<1>>, <<0>>)
\* total_len is less than extras_len + key_len.
Inconsistent == [Get EXCEPT !.total = 1]
================================================================================
