# A TLA+ model of Diffingo

Diffingo compiles a description of a binary protocol (a `.dgo` file) to a C++ parser and serializer.
The generated code works on a small header-only runtime. This directory holds TLA+ modules translated
from that code, TLC configurations that check them on small instances, and proofs checked by TLAPS.

Paths below are relative to the repository; `PROJECT.json` names, for every definition, the lines it models.

## 1. The system

### Parts

| Part | Source | State | Operations |
|---|---|---|---|
| Generated parser | emitted by `generation/parsing/parser_generator.cpp`; `runtime/parsing/*`, `runtime/unit/*` | `ParserState` (instruction, stream position, stack of BlockStates), `UnitArea` (next free byte), the unit | `parse()`, one label per item; `ParserState::push/advanceToInstruction/reset`, `UnitArea::allocate/reset` |
| Generated serializer | emitted by `generation/serializing/serializer_generator.cpp`; `runtime/serializing/*` | `ParserState`, the unit, the output buffer | `serialize()`: length updates, `&serialize` attributes, fields |
| Application | `perfeval/memcached_evaluator.cpp`, `test/memcached/*` | input and output buffers, units in use | calls, calls again, resets, edits units |
| Parser and serializer generators | the two generators, `generation/output/*translator*` | label and temporary counters, code blocks | `run()`, one visit per item and type |
| Dependency map builder | `preprocessing/instantiation_dependency_resolver.cpp`, `DependencyMapBuilder` | map, tracking stack, current context | visits of items and expressions |
| Dependency resolver | the same file, `visit(Instantiation)` | dependencies, to_add, changed | a fixed-point loop |
| Instantiation type generator | `preprocessing/instantiation_type_generator.cpp` | items of the compact unit, run of hidden fields | one step per item |
| Name resolution | `preprocessing/scope_builder.cpp`, `unit_scope_builder.cpp`, `id_resolver.cpp`, `transform_resolver.cpp` | AST cells, back pointers, scopes, visited set | passes over the AST |
| Compiler driver | `main.cpp`, `generation/compiler.cpp` | module, open stream, exit code | parse, include, passes, generate, print |
| Code generator | `generation/output/code_generator.cpp` | file, `unit_cls_`, `function_`, errors | one visit per declaration and item |
| AST and visitor | `spec/ast/*` | `node_ptr` cells, back pointers | `replace`, `clone`, pre-order walk, `processOne` |
| Scanner and grammar | `spec/parser/*` | token stream | AST construction |

### How they interact

The driver parses the file and its includes into one module and runs the passes in order: scopes, names
(three runs of `IdResolver`, with `TransformResolver` between them), dependency maps and compaction of
instantiations. It then calls the code generator, which calls the parser and serializer generators
for each unit. An instantiation names the items an application uses: the resolver follows the
dependency map from them, and the type generator merges the other fields into hidden bytes fields.
With option `-p` hidden fields are kept as ranges of the input buffer.

The generated `parse()` is resumable. An item that lacks data returns `OUT_OF_DATA`, and the next call
jumps to the stored label. `serialize()` does the same with `OUT_BUF_FULL`.

### What is hard in it

- A call is resumed with state from an earlier call: label, position, unit and the members read so far.
- The area is bump-allocated across failed and repeated attempts; units the application keeps share it.
- Length members are updated once, before fields that may be written by a later call.
- Positions are compared as unsigned, lengths computed from a message wrap or become negative ints, lengths are
  cast to `ssize_t`, and length members truncate.
- AST nodes are replaced during a walk whose visited set and back pointers refer to them.
- Aliases may be used before they are resolved, and names may be circular.
- The resolver must stop on circular maps, and neither stop early nor keep too much.
- The code generator keeps pointers (`unit_cls_`, `function_`) from one visit to a later one.

`PROJECT.json` lists these as hazards, each with its line and the properties that would catch it.

## 2. Modules

### Parser

- `UnitAst` describes units as sequences of items; `Memcached` holds the unit of
  `examples/memcached.dgo`, the compacted one of `examples/memcached_inst.dgo`, and an independent
  definition of the commands as bytes.
- `ParserGenerator` turns a unit into its labelled program. `UnitProgram` says what such a program is
  and which assumptions the generated code makes of it. `UnitCodec` holds the integer
  codecs (byte swap, host order) and the expressions, in the arithmetic of the C++ they become: operands
  narrower than an `int` are promoted, wider ones wrap at their width, an assignment truncates, and
  `static_cast<ssize_t>` (`parsing/util.h:70,78,87`) turns the upper half of `size_t` negative (`Arith`, `Truncated`, `Signed`).
- `ResumableParser` runs the program. One step is one label of `parse()`, one call, one arrival of
  bytes, or one decision of the application (`NextMessage`, keeping the unit or resetting the area;
  `Restart` after `AREA_FULL`). Memory nobody has written holds `Junk`.
  `in_buf_end` is an argument of the call, so bytes that arrive during it are not seen.
- `OneShotParser` is what `parse()` promises: an interpreter with the whole stream, members by value
  and no memory limit.

| Variable of `ResumableParser` | Code |
|---|---|
| `instruction`, `stream_pos`, `stack` | `ParserState::instruction_`, `stream_pos_`, its stack; one element per `BlockState` |
| `nextAllocPos`, `mem` | `UnitArea::nextAllocPos_`, `contents()` |
| `num`, `ref` | integer members; `var_bytes`, `var_string` and `var_stream_range` members |
| `at` | the label being run, 0 outside a call |
| `in_buf_start`, `in_buf_end`, `bytes_read`, `result` | arguments and results of `parse()` |
| `kept`, `msgs` | units in use by the application; history of what was delivered |

### Serializer

`SerializerGenerator` turns a unit into length updates, variable updates and fields;
`SerializerProgram` states what they do. `Serializer` runs `serialize()` over a growing buffer for an
application that edits the unit between messages and may reuse the input buffer.
`UnboundedSerializer` is the abstract specification: one endless buffer.

### Instantiations

- `SpecNodes` builds items and expressions; `SpecAst` says what is computed of them: properties with the
  byte order they give, `static_serialized_length`, `serialized_length`, `clone`.
- `DependencyTracking`, `DependencyMapBuilder`: the visitors, their tracking stack and `from_`, the items that
  record. `visit(Unit)` pushes onto `from_` and clears it behind the item, so the first item of an embedded unit or of
  an element records for the field around it too (`Enter`).
- `DependencyResolver`: the fixed-point loop, one action per step of the inner loops.
- `InstantiationTypeGenerator`: one action per kind of item; the last one makes the compact unit, with
  `self` retyped as `SelfReplacerVisitor` does. It takes `Clone`, `LengthExpr`, `ReplacedItem` and
  `LengthTerms` as constant operators, so that its proofs do not depend on how `SpecAst` defines them by
  recursion; `UnitCompaction` gives it those of `SpecAst`.
- `UnitCompaction` composes the three: map, resolver, type generator, for the units of the examples
  and small ones.

### Compiler

- `NameResolution`: cells and nodes of the AST, scopes, the pre-order walk with its visited set, and the
  passes in the order of `executePasses`. Nodes are named by their places in the text. A scope maps a name to
  the set of its values: no visit asks for more than whether there is none, one or several. `Meanings` says what the
  names of a text mean by lexical scoping, without scopes, cells or passes.
- `CodeGenerator`: the stack of nested visits, the classes, functions and enums put into the file, the
  visitor's error count and the exceptions of `Translator::type` and `Translator::expression`: of members and
  parameters in their visits (`MemberTranslates`, `ParameterTranslates`), of all that the parser and serializer
  generators translate in the visit of the unit (`UnitTranslates`; they do not enter a switch without an
  expression, `LookAhead`, which the visitor does). `Nodes` is the set of AST nodes that modules are
  made of, and `MaxDepth` how deep switches are nested in them.
- `Compiler`: includes, passes as accept or reject, generation, printing, exit code. It extends
  `CodeGenerator`.

`MC*` modules give the constants their values. The theorems are in `ResumableParserProofs` and `SerializerProofs` (each
with its refinement), `ParserAreaProofs`, `DependencyResolverProofs`, `TypeGeneratorProofs`, `NameResolutionProofs` and
`CompilerProofs`, which rests on the lemmas of `CodeGeneratorProofs`.

## 3. Runs

| Run | Question | Distinct states |
|---|---|---|
| `parser_resumed` | Does `parse()` deliver what was sent, whatever the calls, with a small area? | 70,537 |
| `parser_pointers` | The same with `-p`, and an application that calls again after `AREA_FULL` | 32,335 |
| `parser_done` (violation) | Is the state reset on `DONE`, as `parse_result.h` says? | |
| `serializer_resumed` | Does `serialize()` write the command a unit stands for, after any edit? | 488,118 |
| `serializer_pointers` | The same for the compacted unit, with a reused input buffer; does every call return, with `DONE` if there is room? | 186,990 |
| `dependencies` | Is the resolved set the least closed one, and does the loop end? | 21,294 |
| `call_arguments` (violation) | Are the arguments of a call tracked? | |
| `compaction` | Does the map hold what each item uses, and does the compact unit parse the same bytes and serve the application? | 147,338 |
| `name_resolution` | Does every name become what lexical scoping says? | 791,137 |
| `item_pointers` (violation) | Can every item be asked for its node_ptr after the passes? | |
| `compile` | What is printed, and with which exit code? | 251,476 |
| `unit_parameters` (violation) | Are the parameters of units skipped? | |

### What they show

- **Parsing.** However a stream is cut into calls, the units delivered are the commands sent, in order
  (`DeliversSent`, against `Memcached!Encode`), and `parse()` implements `OneShotParser`
  (`ImplementsOneShot`, in `parser_resumed`). It never reads past `in_buf_end` (`NoOverread`). Kept units are not disturbed
  (`KeptIntact`). The pieces in use tile the allocated part of the area (`AreaTiled`). An application that
  resets after `AREA_FULL` has at most one BlockState; one that only calls again pushes more until the
  assertion of `push()` ends it, without writing past the stack (`StackBounded`). Every consistent
  command is delivered in the end (`AllDelivered`).
- **Serializing.** A unit is written as the command it stands for if its lengths fit their members
  (`WritesCommand`). Length members are current, truncated to their width, while fields are written
  (`LengthsCurrent`), unless a later update or a `&serialize` attribute assigns the same member, which the code
  lets undo the update (`Lasting`). Writes stay in the buffer (`WritesInBuffer`). With a reused input buffer only hidden
  fields are spoilt (`WritesCompactCommand`). Every call returns, and one whose buffer has room for the header
  and the three fields as they are when it begins returns `DONE`, be the room exact (`ReturnsWritten`).
- **Instantiations.** The resolver's result is closed under the map (`Resolved`) and contained in every
  closed set (`Least`). The map has all that an independent definition says an item uses, and nothing else but, for a
  field, what the items in it use (`MapFaithful`).
  Compaction moves no byte (`SameLayout`): the lengths of the items taken so far, term by term, are those of the
  items visited, and a field that is kept starts where the field of its name starts in the unit. The compact unit
  reads only what it parsed before and through
  its own type (`ParsesInOrder`, of whole members; those of embedded units and elements are not supported by the
  type generator), keeps what the application names (`Serves`), and reads and writes its fields
  in the byte order of the unit (`SameByteOrder`). For the memcached instantiation it is
  the unit the parser and serializer runs use (`CompactMemcached`), which ties the two halves together.
- **Names.** No replacement takes a name to anything else than what lexical scoping says it means
  (`NeverMisread`). When the passes succeed every name over at most four others has been followed to the end
  (`ResolvedRight`), and the items of units have the kinds and types that their names and attributes say (`ItemsRight`). Back
  pointers never lie (`BackPointers`), modules are rejected for an error only, or for one of three listed
  restrictions (`RejectedRight`), and the passes end (`Terminates`).
- **Driver.** The printed file has the classes, members, enums and functions that follow from the merged
  text (`OutputExact`; the arguments of functions are the matter of `unit_parameters`). Exit code 0 means that a
  file was printed, and a file is printed only if every file was there and parsed, every pass accepted, and every type
  and expression of the generated units that becomes code had a translation (`ExitTells`).

### Disagreements with the repository's own words

- `ResetOnDone`: `parse()` returns `DONE` with its state unchanged; `parse_result.h:35` says it is reset.
- `ArgumentsTracked`: `visit(Constant)` casts the wrong node, so arguments of calls are no dependencies.
- `UnitParametersSkipped`: `code_generator.cpp:184` says that parameters of units are still to be supported, and the
  guard below it skips them while there is no `function_`; after the first function there always is one, so they
  become arguments of the function declared last.
- `ItemsKnown`: a field given by a name loses its back pointer when `IdResolver` replaces it.

### Bounds, and why they are enough

- Bytes have 4 values and an integer's width is 1 or 2: values still differ by byte order, and lengths
  overflow their members. Four bytes have 256 values, which is large against all lengths, so one below zero wraps to
  something that never fits, as in the code. Eight have 65,536; no length of the runs turns negative in
  its cast (`NarrowRanges`, evaluated by TLC).
- Streams hold two commands out of a request, a response, one with another magic (no case taken) and one
  whose lengths are inconsistent: a second message follows kept, reset and abandoned ones.
  `received` grows by any amount, so every cut occurs.
- `AreaSize = 10` and `5` hold one unit with its bytes but not two of every kind: both outcomes of every
  allocation occur. `StackSize = 3` holds one BlockState, `6` two, because `push()` wants a byte more than it needs.
- `OutSize = 15` holds the longest command; `out_buf_end` takes every value below it. Edits include
  extras longer than `extras_len` can say.
- Dependency maps have three ids and `__length` with five varying edges, a cycle and a path of length two,
  and contexts of every kind. Expressions have two levels over the leaves, and there are units with items of every
  kind, also embedded units and elements whose first item reads, sets or has to be found. No find is nested in a find over
  another list: `cur_find_list_` is not restored after it (`instantiation_dependency_resolver.cpp:462`).
- Modules have up to five declarations that name each other in all combinations: aliases in both
  directions, circular ones, missing and doubled names. Chains of five types and of four constants come in every
  order, and two of six, which the passes do not follow to the end.
- Projects have one level of includes, as the driver follows no more, and up to two included files. Units have
  items and parameters with and without translations, at the top, in switches and in switches without an expression.

`CHECK_DEADLOCK FALSE` stands where the run ends by design: the resolver and the map builder finish, and in
`parser_pointers` the assertion of `push()` ends the process. In the other models a finished process stutters.

### Fairness

- `ResumableParser!FairSpec`: bytes sent arrive (the peer is a file or a connection that goes on), a call of
  `parse()` goes on to its return, and the application's loop goes on calling
  (`memcached_evaluator.cpp`). No fairness is assumed of single choices, such as keeping a unit.
- `Serializer!FairSpec`: a call of `serialize()` goes on to its return (`WF_vars(Step)`, one thread). Nothing is
  assumed of the application, which need not call again.
- `DependencyResolver` and `NameResolution`: one thread in a loop, `WF_vars(Next)`.

## 4. Proofs

All theorems hold for every value of the constants that satisfies the named assumptions.

| Theorem | Says |
|---|---|
| `ResumableParserProofs!ResumeCorrect`, `TypeCorrect`, `NeverOverreads` | `ResumeInv`, `TypeOK`, `NoOverread` are invariant, if `NarrowRanges` |
| `ParserAreaProofs!StackCorrect`, `AreaCorrect`, `KeptCorrect` | `StackBounded`, `AreaTiled`, `KeptIntact`, if `NarrowRanges` |
| `ResumableParserProofs!OneShotImplemented` | `Spec => ImplementsOneShot`, if `NarrowRanges` |
| `SerializerProofs!ResumeCorrect`, `TypeCorrect`, `WritesBounded` | `ResumeInv`, `TypeOK`, `WritesInBuffer` |
| `SerializerProofs!LengthsCorrect` | `LengthsCurrent` |
| `SerializerProofs!UnboundedImplemented` | `Spec => ImplementsUnbounded` |
| `DependencyResolverProofs!RoundCorrect`, `TypeCorrect`, `ResolvedCorrect`, `LeastCorrect`, `GrowthCorrect` | `RoundInv`, `TypeOK`, `Resolved`, `Least`, `OnlyGrows` |
| `TypeGeneratorProofs!LayoutCorrect`, `CompactUnitFits` | `SameLayout` of the type generator; the declared unit has the layout of the whole unit |
| `TypeGeneratorProofs!NeededKept` | What is needed is in the compact unit, in the order of the unit |
| `NameResolutionProofs!BackPointersCorrect` | `BackPointers` |
| `NameResolutionProofs!AstCorrect`, `NothingDangles` | Everything a visit or lookup follows is there; `TypeOK` |
| `CompilerProofs!OutputCorrect` | `OutputExact` |
| `CompilerProofs!ExitCorrect` | `ExitTells` |
| `CompilerProofs!MergedExact` | Passes and generation see exactly the declarations of the text, in order |
| `CompilerProofs!OneInclude` | A module with two includes or more is never compiled to a file |
| `CompilerProofs!ErrorsForgotten` | `CodeGenerator::run` never returns false |

**Parser.** Assumptions: labels jump forward and expressions read members written on every path
(`ProgramAssumption`), sizes are naturals with room for one BlockState (`SizeAssumption`), inputs are byte
sequences. The compiler does not check the second half of `ProgramAssumption`; the examples satisfy it.
The theorems have a hypothesis, `NarrowRanges`: a field that is kept as a pointer has no length that the cast in
`advance()` turns negative, that is, none computed as an `int` or taken from an 8-byte member. Without it the position can
move back, and the theorems are false; the compiler does not check it. Copied fields need no such hypothesis, since
`UnitArea::allocate` takes the length as it is and has no room for one in the upper half (`SizeAssumption`).
`NoOverread` is not inductive: that a resumed item starts within the buffer depends on the
label, the position and the members belonging together. `ResumeInv` adds `Flow` (control, ParserState and
members agree) and `Pointers` (what members point at is allocated, and none lies behind the label). One
lemma per action shows it is preserved. For the refinement, `at` and `instruction` map to the abstract
label, pointers to the bytes they stand for. Allocation only moves forward, so a step never changes the
contents of earlier members (`ContentsKept`); a failed item stutters, `Restart` is `Abandon`.

**Area.** The same assumptions. `AreaTiled` speaks of the pieces of the kept units and of the current one
together. A step does one of four things to them: it leaves them, adds one piece at `nextAllocPos`, turns the current
unit into a kept one, or resets the area and drops them all. Each has its lemma. That what is kept
lies in the allocated part (`KeptInv`) is needed first: the new piece could overlap it otherwise. `KeptIntact`
compares kept units with the history of what was delivered. `HistoryInv` says that the kept units are the last ones
delivered, with the values they had then; `memcpy` writes only at `nextAllocPos` and behind it, so no step changes
the bytes they point at.

**Serializer.** Assumptions: fields jump forward (`FieldsAssumption`), and length and `&serialize` updates are of the kinds
that are modelled (`PrologueAssumption`). Nothing is assumed of what an attribute assigns: `LengthsCurrent` itself
speaks of the members that nothing assigns after their update (`Lasting`). It becomes inductive as
`LengthsSoFar`, which says which updates have run and that the attributes run so far have left these members alone.

**Resolver.** Assumption: no entry of the map leads to `__length`. `RoundInv` says that in a round that has
changed nothing, all that follows from the list is in `to_add` and what was merged was known. `Finish` then
gives `Resolved`. `Least` needs a second invariant, `Sound`: the lists are below every solution.

**Type generator.** The theorems have a hypothesis, `NodeFacts`, about the constant operators: a copy of an item
is as long as the item, also after `SelfReplacerVisitor`; a hidden field is as long as it is told to be; the terms of
a sum are those of its parts; and sums of lengths are lengths. The last two are the defining equations of
`LengthTerms` and `Plus`. TLC evaluates the rest (`NodesAlike` in `MCUnitCompaction`) for all items of
the run and the sums of two of their lengths. `SameLayout` is not inductive: when the length of a field turns
out to be unknown the field ends the run of hidden ones and is copied after all, so where the fields *not yet* hidden
start matters too. `LayoutInv` says it of `unit_items \o compactable` together. That `compactAndAddItems`
keeps it is an induction over the run of fields, with the sum so far and the fields already put out. It is stated for the
type generator by itself; in `UnitCompaction`, where it follows the resolver, TLC checks it. `NeededKept` gives
each needed item its place in the compact unit, by a function that grows with every visit and is increasing: hidden fields
between them never swap two. With `Resolved`, which says that what an item reads is needed too, it is the reason for
`ParsesInOrder` and `Serves`.

**Name resolution.** `BackPointers` says that a node that knows a cell is in that cell. It is
not inductive: a pass makes new cells, and nothing so far keeps another node from knowing one of them in advance.
`OwnCells` adds that a node knows no cell but the one made with it, so replacing a cell's node can
only make back pointers forgotten, never wrong. This needs no assumptions. `NothingDangles` assumes what the grammar
guarantees of a module (`ProgramsAssumption`): names are sequences of strings, items and declarations have
their parts. `TypeOK` speaks of children and parents only, but a visit also follows the type of a
`TypeExpr`, the first child of a declaration, `transform_to`, the values and children of a scope, and the
scope of an item, and makes new nodes and names of what it finds. `AstInv` (`Graph`, and the cells on the
visitor's stack) says that all of these are there. One lemma per way of changing the graph (`GraphWithNodes`,
`GraphReplaced`, `GraphWithField`, ...) shows that it stays so, and one per visit that the visit is one of
them. `FindOK` and `LookupOK` are about the longest prefix of a path and the walk through the parents. That the
module stays a module is part of it: adding the built-in declarations replaces the children of the root, which would
leave a declaration without the child its visit takes.

**Driver.** Assumptions: nodes have the parts the grammar gives them (`NodesAssumption`), a file that parses has
declarations and a pass that rejects is one of the passes (`ProjectsAssumption`). `ExitTells` says that a file is
printed exactly when the exit code is 0, and then every file was there and parsed, all passes accepted, and all that
becomes code had a translation. `CompilerInv`
relates the first part to the control of `Compiler::run` (`ControlInv`), to what has been merged so far (`MergeInv`), to the passes
that have run (`PassInv`) and to the generator (`GeneratorInv`). `GeneratorInv` says that the error count is
not zero only inside nested visits, since every `processOne` clears it; so the errors of a unit are
forgotten before `run()` looks at them (`ErrorsForgotten`). `MergeInv` gives `MergedExact`, and, since
the stream of the first included file stays open, `OneInclude`.

**Output.** `OutputCorrect` says what is in the printed file, for all modules. Three assumptions are added: switches are nested to
some finite depth (`DepthAssumption`), the names of the three classes of a unit differ (`NamesAssumption`), and
declarations have the names, parameters and items the grammar gives them (`NodesAssumption`). The invariant,
`FileInv`, is an equation at every step of the visitor: what the file has, and what the nodes in `work` will still add to
it, is what the declarations up to the present one ask for. Each visit takes a node from `work` and puts its children there, so it
must be shown that a node adds as much as its visit and its children do (`Splits`). For a switch that is
an induction over the depth of nesting. Classes are harder, since `insertClass` replaces a class of the same name
and members go to whichever class has the name in `unit_cls_`. `ClassesState` names the units begun so far and the last of
them, whose class is filled and may hide an earlier one; `LastOf` is the relation between a list of classes and
the one with the last of each name, and is kept by inserting a class and by filling the last one. 
The last part of `ExitTells` goes along with it. When a unit is visited its items are still to come, so it cannot be said
of the units begun that all of them had a translation; `UnitsSound` says that they have one *if* the nodes in `work`
have. A visit that does not throw keeps that (`SoundNext`, with the same induction for switches), and when `work` is empty
nothing is left to be supposed.

**Induction.** The library's induction theorems take an operator as a parameter and cannot be used here. Where an
argument runs along a sequence (layouts, the run of hidden fields, `Removed`), it goes over a set of numbers
(`SetInduction`, from the least element of its complement), and that a recursive function has a
value at each number is itself shown that way.

### Only model-checked

- Liveness (`AllDelivered`, `ReturnsWritten`, `Terminates`): fairness and `ENABLED` are outside the prover.
- `DeliversSent`, `WritesCommand`, `WritesCompactCommand` and `CompactMemcached` are about one unit and an independent
  definition of its bytes; the theorems for all programs are `ImplementsOneShot` and `ImplementsUnbounded`.
- `MapFaithful`, `ParsesInOrder`, `Serves` and `SameByteOrder` rest on operators that are recursive over
  expressions and items (`Uses`, `ParsingReads`, `InheritedProperty`), which the prover cannot take.
- `NeverMisread`, `ResolvedRight`, `ItemsRight` and `RejectedRight` compare the passes with lexical scoping: that
  needs an argument along chains of aliases and the order of the visits, which is not done.

## 5. Limits

- Signed integer members are not told from unsigned ones; the codecs treat their bytes alike.
- Items for which the generators emit nothing (embedded units, lists, vectors, constants, constructors) are
  absent from the generated programs; cases hold no switch of their own there.
- Three runs of `IdResolver` do not follow all chains: of six types or constants, each naming the next, the first
  still is a name when `executePasses` has succeeded. `ResolvedRight` speaks of four names (`Farther`).
- `IdResolver::visit(ID)` looks a name up where it stands. In an item of a unit a name that was redirected to another
  name, or loses its module's name (`id_resolver.cpp:129` says it is then looked up "in the current module"), can meet a
  parameter of the unit, or `$$`. `Captured` lists these cases, which `NeverMisread` and `ResolvedRight` except.
- Lambda variables, bitsets and item scopes are left out of `NameResolution`. Of the built-in names it has
  one type, one function and one transform.
- The passes only accept or reject in `Compiler`; their effects are in the other modules.
- `Case::clone()` loses `default_` (`unit.cpp:776`). `CloneCase` models it; the compaction run has no unit
  with a default case. `Attribute::clone()` needs a value (`attribute.cpp:59`), so it has no attribute
  without one either.
- `SelfReplacerVisitor` does not reach the cases of a switch, the field of a container, conditions or argument
  tuples; `self` there keeps the type of the original unit. `ReplacedItem` models it, and `ParsesInOrder`
  speaks of the rest. `SameByteOrder` likewise excepts an order that only the module gives.
- A variable's default value is left out of `SpecAst`, as are wildcard types, which no resolved item has.
- `Bitfield::static_serialized_length()` counts bits where integers count bytes (`bitfield.cpp:81`);
  `TypeStaticLength` follows it, and no run has a bitfield, for which the generators have no code.
- The grammar appears only by the order in which declarations, properties and includes reach the module.

### Not modelled

- `externals/` holds third-party libraries (gtest, libkode, memcached, pantheios, stlsoft, tinyformat, utf8proc), by far most of the
  lines of the repository. They are not Diffingo's code. Of libkode, `Class` and `File::insertClass` are modelled.
- Text utilities and the AST printer, pure functions on text; value classes without behaviour; the empty
  `ParserTask`; timing and input generation of the benchmarks.
- Tokens and precedences: the input of flex and bison.

## 6. Plan

Built in this order: parser core and its proofs, refinement to the one-shot parser, serializer and its
proofs, resolver, map builder and compaction, name resolution, code generator and driver. Still to do:

1. properties of modules through includes (the driver's loop loses those of the main module), and `self` in
   the cases of a compacted switch;
2. generation errors: nested `processOne` calls clear them, although `visitor.h` says `processOne` tells
   whether one was reported;
3. lambdas and bitsets in `NameResolution`; default cases in compaction;
4. signed integer members;
5. proofs that names mean what lexical scoping says (`NeverMisread`, `ResolvedRight`), on top of `AstCorrect`.
