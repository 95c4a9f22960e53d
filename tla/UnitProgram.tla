------------------------------ MODULE UnitProgram ------------------------------
(***************************************************************************)
(* The program ParserGenerator and SerializerGenerator emit for a unit, as *)
(* data: one instruction per item of the unit, Property items left out,    *)
(* the items of a switch's cases laid out behind the switch's own label.   *)
(* A unit stores what label i parses in a member of its own, so a label    *)
(* also names the member: v[i] is what `self.<id of item i>' reads.        *)
(*                                                                         *)
(* An instruction is a record                                              *)
(*   op     "int", "bytes" (bytes and string items), "range" (a bytes item *)
(*          kept as a pointer into the input), "var" or "switch"           *)
(*   width  sizeof of the integer type          (op = "int" or "var")      *)
(*   order  "big" or "little", the byteorder property (op = "int")         *)
(*   expr   &length, &parse or the switch's expression                     *)
(*   cases  case constant -> label of the first item of that case          *)
(*   next   label that follows; for a switch: its default case if it has   *)
(*          one, else the first label behind it                            *)
(***************************************************************************)
EXTENDS UnitCodec

CONSTANTS
    Program,    \* the sequence of instructions
    Defined     \* Defined[i]: integer members written on every path to label i

Labels == 1..Len(Program)
End == Len(Program) + 1
Ops == {"int", "bytes", "range", "var", "switch"}

\* sizeof of the integer members.
WidthOf == [i \in {j \in Labels : Program[j].op \in {"int", "var"}} |-> Program[i].width]

\* What the expression of label i gives.
ExprOf(i, v) == Eval(Program[i].expr, v, WidthOf)

\* Bytes of the stream that the item at label i takes; len_ is a size_t.
ItemLen(i, v) ==
    CASE Program[i].op = "int" -> Program[i].width
      [] Program[i].op \in {"bytes", "range"} -> SizeT(ExprOf(i, v))
      [] OTHER -> 0

\* The label that runs after label i.
Jump(i, v) ==
    LET p == Program[i]
    IN IF p.op = "switch" /\ ExprOf(i, v) \in DOMAIN p.cases
       THEN p.cases[ExprOf(i, v)]
       ELSE p.next

--------------------------------------------------------------------------------
IsExpr(e, i) ==
    /\ e.op \in {"const", "self", "rest"}
    /\ e.op = "const" => e.val \in Nat
    /\ Reads(e) \subseteq Defined[i]

\* The generator only jumps forward, and label i may run when the members in
\* Defined[i] are written.
FlowsTo(i, j) ==
    /\ j \in (i + 1)..End
    /\ Defined[j] \subseteq
          Defined[i] \cup (IF Program[i].op \in {"int", "var"} THEN {i} ELSE {})

(***************************************************************************)
(* What the generated code relies on.  That every length, &parse or switch *)
(* expression reads members written before it is not checked by the        *)
(* compiler; the units of examples/ satisfy it.                            *)
(***************************************************************************)
WellFormed(i) ==
    LET p == Program[i]
    IN /\ p.op \in Ops
       /\ p.op \in {"int", "var"} => p.width \in Widths
       /\ p.op = "int" => p.order \in {"big", "little"}
       /\ p.op # "int" => IsExpr(p.expr, i)
       /\ p.op = "switch" => \A c \in DOMAIN p.cases : FlowsTo(i, p.cases[c])
       /\ FlowsTo(i, p.next)

ASSUME ProgramAssumption ==
    /\ Len(Program) \in Nat \ {0}
    /\ Defined[1] = {}
    /\ \A i \in Labels : WellFormed(i)

(***************************************************************************)
(* advance() casts a length to ssize_t before it compares it with the data *)
(* that is left, and moves by it.  Nothing keeps a length from turning     *)
(* negative there; it does not when it is no int and no 8-byte integer.    *)
(* Bytes that are copied need no such condition: an area has no room for a *)
(* length whose cast is negative.                                          *)
(***************************************************************************)
NarrowRanges ==
    \A i \in Labels : Program[i].op = "range" =>
        LET e == Program[i].expr
        IN /\ e.op = "const" => 2 * e.val < Modulus(8)
           /\ \A m \in Reads(e) : Program[m].width < 8
           /\ e.op = "rest" => \E m \in Reads(e) : Program[m].width = 4
================================================================================
