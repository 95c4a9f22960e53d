-------------------------------- MODULE UnitAst --------------------------------
(***************************************************************************)
(* Units as the compiler's passes see them: a sequence of items, each      *)
(* named by an id, and the expressions in their attributes.                *)
(***************************************************************************)
EXTENDS Integers, Sequences

\* Expressions: a constant, self.a, and self.a - (self.b + self.c).
Const(n) == [op |-> "const", val |-> n]
Self(a) == [op |-> "self", a |-> a]
Rest(a, b, c) == [op |-> "rest", a |-> a, b |-> b, c |-> c]

\* &serialize attributes of a variable, $$ being its value: none,
\* `if ($$ != undef) then self.t = $$', and `self.t = self.a + self.b + $$'.
NoUpdate == [op |-> "none"]
SetUnless(undef, t) == [op |-> "set", undef |-> undef, to |-> t]
SetSum(t, a, b) == [op |-> "sum", to |-> t, a |-> a, b |-> b]

\* The members an expression reads.
Reads(e) ==
    CASE e.op = "const" -> {}
      [] e.op = "self"  -> {e.a}
      [] e.op = "rest"  -> {e.a, e.b, e.c}

\* Items.  `accessible' is application_accessible().
IntField(id, width, order) ==
    [kind |-> "int", id |-> id, width |-> width, order |-> order]
BytesField(id, length) ==
    [kind |-> "bytes", id |-> id, length |-> length, accessible |-> TRUE]
HiddenBytes(id, length) ==
    [kind |-> "bytes", id |-> id, length |-> length, accessible |-> FALSE]
StringField(id, length) ==
    [kind |-> "string", id |-> id, length |-> length, accessible |-> TRUE]
Variable(id, width, parse, serialize) ==
    [kind |-> "var", id |-> id, width |-> width, parse |-> parse, serialize |-> serialize]
Switch(id, on, cases) ==
    [kind |-> "switch", id |-> id, on |-> on, cases |-> cases]
Case(values, default, items) ==
    [values |-> values, default |-> default, items |-> items]
================================================================================
