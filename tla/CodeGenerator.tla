------------------------------ MODULE CodeGenerator ----------------------------
(***************************************************************************)
(* CodeGenerator::run: the classes, functions and enums of the C++ file    *)
(* that a module becomes.  The visitor goes through the AST by calls of    *)
(* processOne, each of which clears the visitor's errors; work holds the   *)
(* nodes still to be visited.  What parse() and serialize() contain is the *)
(* matter of ParserGenerator and SerializerGenerator; here their classes   *)
(* only say which unit they are for.                                       *)
(***************************************************************************)
EXTENDS Naturals, Sequences, Functions

CONSTANTS
    Nodes,     \* the declarations and items of the modules, nested ones too
    MaxDepth   \* how deep switches are nested

VARIABLES
    options,           \* [instantiation_only, input_pointers, store_parsing_only]
    decls,             \* the children of the module
    k,                 \* the child run() is at
    busy,              \* is run() in processOne of that child
    work,              \* the nodes that call has still to visit
    errors,            \* errors_ # 0
    parser_errors,     \* errors_ # 0 of parser_generator_
    serializer_errors, \* and of serializer_generator_
    result,            \* run()'s result so far
    classes, functions, enums,   \* file_
    unit_cls,          \* unit_cls_: the name of its class, or None
    function,          \* function_: its index in functions, or 0
    printed            \* has file_ been printed

file_ == <<classes, functions, enums>>
visitor == <<errors, parser_errors, serializer_errors>>
vars == <<options, decls, k, busy, work, visitor, result, file_, unit_cls, function, printed>>

None == "none"

Last(s) == s[Len(s)]

\* The sequences of a sequence, one after the other.
Flatten(ss) ==
    LET upto[n \in 0..Len(ss)] == IF n = 0 THEN <<>> ELSE upto[n-1] \o ss[n]
    IN upto[Len(ss)]

Init ==
    /\ k = 1 /\ busy = FALSE /\ work = <<>> /\ result = TRUE /\ printed = FALSE
    /\ errors = FALSE /\ parser_errors = FALSE /\ serializer_errors = FALSE
    /\ classes = <<>> /\ functions = <<>> /\ enums = <<>>
    /\ unit_cls = None /\ function = 0

--------------------------------------------------------------------------------
\* Nodes: declarations, the items of units, parameters and ids.
UnitDecl(name, params, items) == [kind |-> "Unit", name |-> name, params |-> params, items |-> items]
EnumDecl(name) == [kind |-> "Enum", name |-> name]
FunctionDecl(name, imported) == [kind |-> "Function", name |-> name, imported |-> imported]
Instantiation(name, units) == [kind |-> "Instantiation", name |-> name, compacted_units |-> units]
OtherDecl(name) == [kind |-> "Other", name |-> name]   \* a constant, or the name of another type
Stored(id, type) ==
    [kind |-> "Stored", id |-> id, type |-> type, accessible |-> TRUE, parsing_only |-> FALSE, translates |-> TRUE]
Hidden(id, type) == [Stored(id, type) EXCEPT !.accessible = FALSE]
Variable(id, type) == [Stored(id, type) EXCEPT !.kind = "Variable"]
Switch(items) == [kind |-> "Switch", items |-> items, expr |-> TRUE, translates |-> TRUE]
LookAhead(items) == [Switch(items) EXCEPT !.expr = FALSE]   \* a switch without an expression
Property(id) == [kind |-> "Property", id |-> id, translates |-> TRUE]
Parameter(id, type) == [kind |-> "Parameter", id |-> id, type |-> type, translates |-> TRUE]
Id(name) == [kind |-> "ID", name |-> name]

\* An item or parameter with an expression that ExpressionTranslator cannot
\* translate, or a field whose serialized type TypeTranslator cannot: the
\* &parse, &serialize and &length attributes and the default of an item, the
\* expression and the labels of a switch, the default of a parameter.
Untranslated(x) == [x EXCEPT !.translates = FALSE]

\* TypeTranslator has a C++ type for these and for no others.
Translated == {"bool", "bytes", "double", "enum", "integer", "sink", "string", "unit", "void"}

DeclNodes == {x \in Nodes : x.kind \in {"Unit", "Enum", "Function", "Instantiation", "Other"}}
UnitNodes == {x \in Nodes : x.kind = "Unit"}
ItemNodes == {x \in Nodes : x.kind \in {"Stored", "Variable", "Switch", "Property"}}
ParamNodes == {x \in Nodes : x.kind = "Parameter"}

\* What the grammar builds: a unit and a switch have items, an instantiation
\* has units.
Wellformed(x) ==
    /\ x.kind \in {"Unit", "Enum", "Function"} => x.name \in STRING
    /\ x.kind = "Parameter" => x.id \in STRING
    /\ x.kind = "Unit" => x.params \in Seq(ParamNodes) /\ x.items \in Seq(ItemNodes)
    /\ x.kind = "Switch" => x.items \in Seq(ItemNodes)
    /\ x.kind = "Instantiation" => x.compacted_units \in Seq(UnitNodes)

ASSUME NodesAssumption == \A x \in Nodes : Wellformed(x)

\* The items in which switches are nested at most d deep.
Nested[d \in 0..MaxDepth] ==
    {x \in ItemNodes : x.kind = "Switch" => d > 0 /\ x.items \in Seq(Nested[d-1])}

\* The items are those of a finite text.
ASSUME DepthAssumption == MaxDepth \in Nat /\ ItemNodes \subseteq Nested[MaxDepth]

\* The items, and after each switch the items of its cases.
Within[items \in Seq(ItemNodes)] ==
    Flatten([i \in DOMAIN items |->
        IF items[i].kind = "Switch" THEN <<items[i]>> \o Within[items[i].items] ELSE <<items[i]>>])

\* The visits ParserGenerator and SerializerGenerator make: a switch and, if
\* it has an expression, the items of its cases.
Visits[items \in Seq(ItemNodes)] ==
    Flatten([i \in DOMAIN items |->
        IF items[i].kind = "Switch" /\ items[i].expr
        THEN <<items[i]>> \o Visits[items[i].items] ELSE <<items[i]>>])

\* Everything that the two have to translate for a unit has a translation.
UnitTranslates(u) == \A i \in DOMAIN Visits[u.items] : Visits[u.items][i].translates

\* The types of fields that are logged as errors by the one and by the other.
\* A type neither supports becomes no code, and is no error.
ParserComplains(x) == x.kind = "Stored" /\ x.type \in {"any", "unknown", "void"}
SerializerComplains(x) == x.kind = "Stored" /\ x.type \in {"any", "unknown", "void"}

\* errors() when run() is over: each visit clears what was logged before it.
ErrorsAfter(before, complaints) == IF complaints = <<>> THEN before ELSE Last(complaints)

Variables(items) == SelectSeq(items, LAMBDA x : x.kind = "Variable")
Fields(items) == SelectSeq(items, LAMBDA x : x.kind \notin {"Property", "Variable"})

ParserErrors(u) ==
    LET vs == Visits[SelectSeq(u.items, LAMBDA x : x.kind # "Property")]
    IN ErrorsAfter(parser_errors, [i \in DOMAIN vs |-> ParserComplains(vs[i])])

SerializerErrors(u) ==
    LET vs == Visits[Variables(u.items)] \o Visits[Fields(u.items)]
    IN ErrorsAfter(serializer_errors, [i \in DOMAIN vs |-> SerializerComplains(vs[i])])

\* File::insertClass: a class of the same name is replaced where it is.
InsertClassLast(cs, c) == Append(SelectSeq(cs, LAMBDA d : d.name # c.name), c)

InsertClass(cs, c) ==
    IF \E i \in DOMAIN cs : cs[i].name = c.name
    THEN [i \in DOMAIN cs |-> IF cs[i].name = c.name THEN c ELSE cs[i]]
    ELSE Append(cs, c)

Class(name, of) == [name |-> name, of |-> of, members |-> <<>>]

\* The three classes of a unit.
UnitClasses(u) ==
    << Class(u.name, u.name), Class(u.name \o "Parser", u.name), Class(u.name \o "Serializer", u.name) >>

\* They have three names: something is added at the end of two of them.
ASSUME NamesAssumption ==
    \A u \in UnitNodes, i, j \in 1..3 : UnitClasses(u)[i].name = UnitClasses(u)[j].name => i = j

InsertUnit(cs, u) ==
    InsertClass(InsertClass(InsertClass(cs, UnitClasses(u)[1]), UnitClasses(u)[2]), UnitClasses(u)[3])

\* addSingleUnitField: the member of an item, if it has one with options o.
MemberOf(o, x) ==
    IF x.parsing_only /\ ~o.store_parsing_only THEN <<>>
    ELSE << [name |-> x.id,
             type |-> IF x.kind # "Variable" /\ ~x.accessible /\ o.input_pointers
                      THEN "var_stream_range" ELSE x.type] >>

--------------------------------------------------------------------------------
\* run(): the next child, unless it is a unit and only instantiations count.
SkipUnit ==
    /\ ~busy /\ k <= Len(decls)
    /\ options.instantiation_only /\ decls[k].kind = "Unit"
    /\ k' = k + 1
    /\ UNCHANGED <<options, decls, busy, work, visitor, result, file_, unit_cls, function, printed>>

BeginChild ==
    /\ ~busy /\ k <= Len(decls)
    /\ ~(options.instantiation_only /\ decls[k].kind = "Unit")
    /\ busy' = TRUE /\ work' = <<decls[k]>>
    /\ UNCHANGED <<options, decls, k, visitor, result, file_, unit_cls, function, printed>>

EndChild ==
    /\ busy /\ work = <<>>
    /\ busy' = FALSE /\ k' = k + 1 /\ result' = (result /\ ~errors)
    /\ UNCHANGED <<options, decls, work, visitor, file_, unit_cls, function, printed>>

\* processOne of the next node, whose visit goes on to children.
Visit(x, children) ==
    /\ busy /\ work # <<>> /\ x = Head(work)
    /\ work' = children \o Tail(work)
    /\ UNCHANGED <<options, decls, k, busy, result, printed>>

\* visit(declaration::Type) of a unit.  Its last child is its id.
VisitUnit(x) ==
    /\ x.kind = "Unit" /\ UnitTranslates(x)
    /\ Visit(x, x.params \o x.items \o <<Id(x.name)>>)
    /\ classes' = InsertUnit(classes, x)
    /\ unit_cls' = x.name
    /\ parser_errors' = ParserErrors(x) /\ serializer_errors' = SerializerErrors(x)
    /\ errors' = (parser_errors' \/ serializer_errors')
    /\ UNCHANGED <<functions, enums, function>>

VisitEnum(x) ==
    /\ x.kind = "Enum" /\ Visit(x, <<Id(x.name)>>)
    /\ enums' = Append(enums, x.name) /\ errors' = FALSE
    /\ UNCHANGED <<classes, functions, unit_cls, function, parser_errors, serializer_errors>>

\* The children of the declaration are an id and an ast::Function, which has
\* no visit: its result and its parameters are not reached.
VisitFunction(x) ==
    /\ x.kind = "Function" /\ ~x.imported /\ Visit(x, <<Id(x.name)>>)
    /\ functions' = Append(functions, [name |-> x.name, args |-> <<>>])
    /\ function' = Len(functions) + 1 /\ errors' = FALSE
    /\ UNCHANGED <<classes, enums, unit_cls, parser_errors, serializer_errors>>

VisitInstantiation(x) ==
    /\ x.kind = "Instantiation" /\ Visit(x, x.compacted_units)
    /\ errors' = FALSE
    /\ UNCHANGED <<file_, unit_cls, function, parser_errors, serializer_errors>>

\* A parameter goes to function_, whichever function that is.
ParameterTranslates(x) == x.type \in Translated /\ x.translates

VisitParameter(x) ==
    /\ x.kind = "Parameter" /\ Visit(x, <<>>)
    /\ function = 0 \/ ParameterTranslates(x)
    /\ functions' = IF function = 0 THEN functions
                    ELSE [functions EXCEPT ![function].args = Append(@, x.id)]
    /\ errors' = FALSE
    /\ UNCHANGED <<classes, enums, unit_cls, function, parser_errors, serializer_errors>>

\* addUnitField.
AddMember(x) ==
    /\ x.kind \in {"Stored", "Variable"} /\ Visit(x, <<>>)
    /\ classes' = [i \in DOMAIN classes |->
                     IF classes[i].name = unit_cls
                     THEN [classes[i] EXCEPT !.members = @ \o MemberOf(options, x)] ELSE classes[i]]
    /\ errors' = FALSE
    /\ UNCHANGED <<functions, enums, unit_cls, function, parser_errors, serializer_errors>>

\* addSingleUnitField translates the type of what becomes a member.
MemberTranslates(o, x) == MemberOf(o, x) # <<>> => x.type \in Translated

VisitMember(x) == AddMember(x) /\ MemberTranslates(options, x)

VisitSwitch(x) ==
    /\ x.kind = "Switch" /\ Visit(x, x.items)
    /\ errors' = FALSE
    /\ UNCHANGED <<file_, unit_cls, function, parser_errors, serializer_errors>>

VisitOther(x) ==
    /\ x.kind \in {"Other", "Property", "ID"} \/ (x.kind = "Function" /\ x.imported)
    /\ Visit(x, <<>>)
    /\ errors' = FALSE
    /\ UNCHANGED <<file_, unit_cls, function, parser_errors, serializer_errors>>

\* Translator::type or Translator::expression throws, and nothing catches it.
Throws ==
    /\ busy /\ work # <<>>
    /\ LET x == Head(work)
       IN \/ x.kind = "Unit" /\ ~UnitTranslates(x)
          \/ x.kind = "Parameter" /\ function # 0 /\ ~ParameterTranslates(x)
          \/ x.kind \in {"Stored", "Variable"} /\ ~MemberTranslates(options, x)

VisitNext ==
    /\ work # <<>>
    /\ LET x == Head(work)
       IN \/ VisitUnit(x) \/ VisitEnum(x) \/ VisitFunction(x) \/ VisitInstantiation(x)
          \/ VisitParameter(x) \/ VisitMember(x) \/ VisitSwitch(x) \/ VisitOther(x)

Finished == ~busy /\ k > Len(decls)

PrintFile ==
    /\ Finished /\ ~printed /\ result
    /\ printed' = TRUE
    /\ UNCHANGED <<options, decls, k, busy, work, visitor, result, file_, unit_cls, function>>
================================================================================
