--------------------------- MODULE SerializerProgram ---------------------------
(***************************************************************************)
(* The program SerializerGenerator emits for a unit, as data: which        *)
(* members get the length of which fields, the &serialize attributes of    *)
(* the variables, and the labelled instructions of the fields.  A field is *)
(* an instruction as in UnitProgram, "var" left out, with the name of the  *)
(* member it writes.                                                       *)
(***************************************************************************)
EXTENDS UnitCodec

CONSTANTS
    Fields,       \* the labelled instructions
    LengthsOf,    \* sequence of [to, of]: member `to' gets the len_ of member `of'
    Variables,    \* sequence of [id, serialize]
    WidthOf       \* width of every integer member

Labels == 1..Len(Fields)
End == Len(Fields) + 1

\* The integer members v after self.<to> = <of>.len_, with d the bytes members.
LengthUpdatedWide(k, v, d) == Put(v, LengthsOf[k].to, Len(d[LengthsOf[k].of]))
LengthUpdated(k, v, d) ==
    LET l == LengthsOf[k] IN Put(v, l.to, Truncated(Len(d[l.of]), WidthOf[l.to]))

\* The integer members v after the &serialize attribute of the k-th variable.
Serialized(k, v) ==
    LET x == Variables[k].serialize
        dollar == v[Variables[k].id]
        sum == Wider(WidthOf[x.a], WidthOf[x.b])
    IN CASE x.op = "none" -> v
         [] x.op = "set"  -> IF dollar = x.undef THEN v
                             ELSE Put(v, x.to, Truncated(dollar, WidthOf[x.to]))
         [] x.op = "sum"  -> Put(v, x.to, Truncated(Arith(Arith(v[x.a] + v[x.b], sum) + dollar,
                                                          Wider(sum, WidthOf[Variables[k].id])),
                                                    WidthOf[x.to]))

\* What field i is on the wire; r the var_stream_range members, which point
\* into the input buffer b.
Wire(i, v, d, r, b) ==
    LET f == Fields[i]
    IN CASE f.op = "int"    -> SerializeInt(f.order, v[f.member], f.width)
         [] f.op = "bytes"  -> d[f.member]
         [] f.op = "range"  -> Slice(b, r[f.member].at, r[f.member].len)
         [] f.op = "switch" -> <<>>

\* The label that runs after label i.
Jump(i, v) ==
    LET f == Fields[i]
    IN IF f.op = "switch" /\ Eval(f.expr, v, WidthOf) \in DOMAIN f.cases
       THEN f.cases[Eval(f.expr, v, WidthOf)]
       ELSE f.next

--------------------------------------------------------------------------------
\* The generator only jumps forward.
FieldOK(i) ==
    LET f == Fields[i]
    IN /\ f.op \in {"int", "bytes", "range", "switch"}
       /\ f.op = "int" => f.width \in Widths
       /\ f.op = "switch" => \A c \in DOMAIN f.cases : f.cases[c] \in (i + 1)..End
       /\ f.next \in (i + 1)..End

ASSUME FieldsAssumption == Len(Fields) \in Nat /\ \A i \in Labels : FieldOK(i)

ASSUME PrologueAssumption ==
    /\ Len(LengthsOf) \in Nat /\ Len(Variables) \in Nat
    /\ \A k \in 1..Len(Variables) : Variables[k].serialize.op \in {"none", "set", "sum"}

\* Nothing that runs behind the k-th length update assigns its member: no later
\* length update, and no &serialize attribute.  The compiler does not see to it.
Lasting(k) ==
    /\ \A l \in (k + 1)..Len(LengthsOf) : LengthsOf[l].to # LengthsOf[k].to
    /\ \A j \in 1..Len(Variables) :
          LET x == Variables[j].serialize IN x.op # "none" => x.to # LengthsOf[k].to
================================================================================
