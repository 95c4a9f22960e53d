---------------------------- MODULE ParserGenerator ----------------------------
(***************************************************************************)
(* ParserGenerator::run(): from the items of a unit to the labelled        *)
(* program of parse().  Cases hold no switch of their own.                 *)
(***************************************************************************)
EXTENDS UnitAst, SequencesExt

\* An item, then the items of its cases, in the order labels are handed out.
Emitted(item) ==
    IF item.kind = "switch"
    THEN <<item>> \o FlattenSeq([k \in 1..Len(item.cases) |-> item.cases[k].items])
    ELSE <<item>>

EmittedAll(items) == FlattenSeq([k \in 1..Len(items) |-> Emitted(items[k])])

\* translator_.expression(): `self.<id>' becomes the member of label Of[id].
Translate(e, Of) ==
    CASE e.op = "const" -> e
      [] e.op = "self"  -> Self(Of[e.a])
      [] e.op = "rest"  -> Rest(Of[e.a], Of[e.b], Of[e.c])

\* The code of one item; a bytes item the application cannot access is not
\* copied when the parser may keep pointers into the input.
Instruction(item, Of, input_pointers, next) ==
    CASE item.kind = "int" ->
            [op |-> "int", width |-> item.width, order |-> item.order, next |-> next]
      [] item.kind \in {"bytes", "string"} ->
            [op |-> IF item.kind = "bytes" /\ ~item.accessible /\ input_pointers
                    THEN "range" ELSE "bytes",
             expr |-> Translate(item.length, Of), next |-> next]
      [] item.kind = "var" ->
            [op |-> "var", width |-> item.width, expr |-> Translate(item.parse, Of), next |-> next]

\* The items of one case from label `first' on; the last one breaks to `after'.
CaseCode(c, Of, input_pointers, first, after) ==
    [k \in 1..Len(c.items) |->
        Instruction(c.items[k], Of, input_pointers,
                    IF k = Len(c.items) THEN after ELSE first + k)]

SwitchCode(item, Of, input_pointers, label) ==
    LET cs == item.cases
        n == Len(cs)
        after == label + Len(Emitted(item))
        first[k \in 1..n] == IF k = 1 THEN label + 1
                                      ELSE first[k - 1] + Len(cs[k - 1].items)
        entry(k) == IF cs[k].items = <<>> THEN after ELSE first[k]
        of(v) == CHOOSE k \in 1..n : v \in cs[k].values
        defaults == {k \in 1..n : cs[k].default}
    IN <<[op |-> "switch", expr |-> Translate(item.on, Of),
          cases |-> [v \in UNION {cs[k].values : k \in 1..n} |-> entry(of(v))],
          next |-> IF defaults = {} THEN after ELSE entry(CHOOSE k \in defaults : TRUE)]>>
       \o FlattenSeq([k \in 1..n |->
                        CaseCode(cs[k], Of, input_pointers, first[k], after)])

\* The member of the unit's struct an item is stored in, named by its place.
MembersOf(items) ==
    LET all == EmittedAll(items)
    IN [id \in {all[k].id : k \in 1..Len(all)} |->
          CHOOSE k \in 1..Len(all) : all[k].id = id]

Layout(items, Of, input_pointers) ==
    LET label(k) == 1 + Len(EmittedAll(SubSeq(items, 1, k - 1)))
        Parse(item, l) == IF item.kind = "switch"
                          THEN SwitchCode(item, Of, input_pointers, l)
                          ELSE <<Instruction(item, Of, input_pointers, l + 1)>>
    IN FlattenSeq([k \in 1..Len(items) |-> Parse(items[k], label(k))])

Generate(items, input_pointers) == Layout(items, MembersOf(items), input_pointers)

\* The integer members that are written before a label on every path there: no
\* jump leads past them.
DefinedIn(code) ==
    LET to(i) == {code[i].next} \cup
                 IF code[i].op = "switch" THEN {code[i].cases[v] : v \in DOMAIN code[i].cases}
                                          ELSE {}
        skipped(k, j) == \E i \in 1..(k - 1) : \E t \in to(i) : k < t /\ t <= j
    IN [j \in 1..(Len(code) + 1) |->
          {k \in 1..(j - 1) : code[k].op \in {"int", "var"} /\ ~skipped(k, j)}]
================================================================================
