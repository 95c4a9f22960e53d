-------------------------- MODULE SerializerGenerator --------------------------
(***************************************************************************)
(* SerializerGenerator::run(): from the items of a unit to the program of  *)
(* serialize().  Its switch and field code is laid out as the parser's;    *)
(* variables have no label and run before all fields.                      *)
(***************************************************************************)
EXTENDS ParserGenerator

\* updateLengthForField(): fields the application can set whose &length is a
\* member.  Only top-level fields are looked at.
LengthUpdates(items) ==
    LET Of == MembersOf(items)
        updated(x) == x.kind \in {"bytes", "string"} /\ x.accessible /\ x.length.op = "self"
        fields == SelectSeq(items, updated)
    IN [k \in 1..Len(fields) |-> [to |-> Of[fields[k].length.a], of |-> Of[fields[k].id]]]

TranslateUpdate(x, Of) ==
    CASE x.op = "none" -> x
      [] x.op = "set"  -> SetUnless(x.undef, Of[x.to])
      [] x.op = "sum"  -> SetSum(Of[x.to], Of[x.a], Of[x.b])

VariableUpdates(items) ==
    LET Of == MembersOf(items)
        vs == SelectSeq(items, LAMBDA x : x.kind = "var")
    IN [k \in 1..Len(vs) |->
          [id |-> Of[vs[k].id], serialize |-> TranslateUpdate(vs[k].serialize, Of)]]

\* serialize(): a variable gets no instruction of its own.
Instructions(items) == SelectSeq(items, LAMBDA x : x.kind # "var")

FieldCode(items, input_pointers) ==
    LET Of == MembersOf(items)
        fields == Instructions(items)
        all == EmittedAll(fields)
        code == Layout(fields, Of, input_pointers)
    IN [k \in 1..Len(code) |-> [member |-> Of[all[k].id]] @@ code[k]]

\* sizeof of the integer members.
IntWidths(items) ==
    LET all == EmittedAll(items)
    IN [k \in {i \in 1..Len(all) : all[i].kind \in {"int", "var"}} |-> all[k].width]
================================================================================
