-------------------------------- MODULE Compiler -------------------------------
(***************************************************************************)
(* Compiler::run, from the specification file to the printed C++ file: the *)
(* file is parsed and the files it includes are merged into it, the passes *)
(* run, and CodeGenerator makes the output.  A file is what the parser     *)
(* makes of it.  The passes are modelled elsewhere; here each only accepts *)
(* the module or rejects one of its declarations.                          *)
(***************************************************************************)
EXTENDS CodeGenerator

CONSTANT Projects   \* the files, and the declarations a pass rejects

VARIABLES
    project,
    step,        \* where run() is
    fs,          \* the stream: "closed", "fresh", or "used" and still open
    includes,    \* the files still to be included
    properties,  \* the properties of the module m; decls are its declarations
    pass,        \* the pass that runs next
    exit         \* what the process ends with: 0, 1 or Crash

front == <<project, step, fs, includes, properties, pass, exit>>
allVars == <<vars, front>>

Missing == [missing |-> TRUE]
File(included, props, ds) ==
    [missing |-> FALSE, syntax |-> TRUE, includes |-> included, properties |-> props, decls |-> ds]
BadFile == [File(<<>>, {}, <<>>) EXCEPT !.syntax = FALSE]

Reverse(s) == [i \in 1..Len(s) |-> s[(Len(s) - i) + 1]]

Running == 2
Crash == 3

\* The passes, in order.
Passes == << "ScopeBuilder", "IdResolver", "UnitScopeBuilder", "IdResolver", "TransformResolver",
             "InstantiationDependencyResolver", "InstantiationTypeGenerator", "IdResolver" >>

\* A file that parses is a module; a pass that rejects a declaration is one of them.
ProjectOK(p) ==
    LET files == {p.main} \cup {p.files[f] : f \in Range(p.main.includes)}
    IN /\ p.main.includes \in Seq(STRING)
       /\ p.by \in 1..Len(Passes)
       /\ \A f \in files : ~f.missing /\ f.syntax => f.decls \in Seq(DeclNodes)

ASSUME ProjectsAssumption == \A p \in Projects : ~p.main.missing /\ p.main.syntax => ProjectOK(p)

\* store_parsing_only is a switch whose default is true: it cannot be off.
Options ==
    [instantiation_only: BOOLEAN, input_pointers: BOOLEAN, store_parsing_only: {TRUE}]

CompilerInit ==
    /\ Init
    /\ options \in Options /\ project \in Projects /\ decls = <<>>
    /\ step = "open" /\ fs = "closed" /\ includes = <<>> /\ properties = {}
    /\ pass = 1 /\ exit = Running

Ends(code) ==
    /\ exit' = code /\ step' = "ended"
    /\ UNCHANGED <<vars, project, fs, includes, properties, pass>>

--------------------------------------------------------------------------------
OpenMain ==
    /\ step = "open" /\ ~project.main.missing
    /\ fs' = "fresh" /\ step' = "parse"
    /\ UNCHANGED <<vars, project, includes, properties, pass, exit>>

OpenMainFails == step = "open" /\ project.main.missing /\ Ends(1)

\* Driver::parse makes a module, or nullptr if there was an error.
ParseMain ==
    /\ step = "parse" /\ project.main.syntax
    /\ decls' = project.main.decls /\ properties' = project.main.properties
    /\ includes' = Reverse(project.main.includes)
    /\ fs' = "closed" /\ step' = "include"
    /\ UNCHANGED <<options, k, busy, work, visitor, result, file_, unit_cls, function, printed,
                   project, pass, exit>>

ParseMainFails == step = "parse" /\ ~project.main.syntax /\ Ends(1)

\* The stream is not closed after an included file, so the next open fails.
\* is_open is true all the same, and the stream at its end.
OpenInclude ==
    /\ step = "include" /\ includes # <<>>
    /\ fs # "closed" \/ ~project.files[Head(includes)].missing
    /\ fs' = (IF fs = "closed" THEN "fresh" ELSE "used")
    /\ step' = "parse_included"
    /\ UNCHANGED <<vars, project, includes, properties, pass, exit>>

OpenIncludeFails ==
    /\ step = "include" /\ includes # <<>>
    /\ fs = "closed" /\ project.files[Head(includes)].missing
    /\ Ends(1)

\* The included module takes over the declarations of the module so far,
\* which come after its own.  The properties stay with the old module.
MergedAfter(m2, m) == m \o m2

Merged(m2, m) == m2 \o m

ParseIncluded ==
    LET file == project.files[Head(includes)]
    IN /\ step = "parse_included" /\ fs = "fresh" /\ file.syntax
       /\ decls' = Merged(file.decls, decls) /\ properties' = file.properties
       /\ includes' = Tail(includes) /\ step' = "include"
       /\ UNCHANGED <<options, k, busy, work, visitor, result, file_, unit_cls, function, printed,
                      project, fs, pass, exit>>

\* Driver::parse returned nullptr, and m2->addDeclarations uses it.
ParseIncludedFails ==
    /\ step = "parse_included"
    /\ fs = "used" \/ ~project.files[Head(includes)].syntax
    /\ Ends(Crash)

BeginPasses ==
    /\ step = "include" /\ includes = <<>>
    /\ step' = "passes"
    /\ UNCHANGED <<vars, project, fs, includes, properties, pass, exit>>

\* A declaration the pass rejects makes executePasses return false at once.
Rejects == \E i \in DOMAIN decls : decls[i].name \in project.rejected /\ project.by = pass

RunPass ==
    /\ step = "passes" /\ pass <= Len(Passes) /\ ~Rejects
    /\ pass' = pass + 1
    /\ UNCHANGED <<vars, project, step, fs, includes, properties, exit>>

PassFails == step = "passes" /\ pass <= Len(Passes) /\ Rejects /\ Ends(1)

BeginGeneration ==
    /\ step = "passes" /\ pass > Len(Passes)
    /\ step' = "generate"
    /\ UNCHANGED <<vars, project, fs, includes, properties, pass, exit>>

GenerateNext ==
    /\ step = "generate"
    /\ SkipUnit \/ BeginChild \/ VisitNext \/ EndChild \/ PrintFile
    /\ UNCHANGED front

GenerateThrows == step = "generate" /\ Throws /\ Ends(Crash)

\* run() returns 0 whatever CodeGenerator::run returned.
Complete == step = "generate" /\ Finished /\ (printed \/ ~result) /\ Ends(0)

Ended == step = "ended" /\ UNCHANGED allVars

Next ==
    \/ OpenMain \/ OpenMainFails \/ ParseMain \/ ParseMainFails
    \/ OpenInclude \/ OpenIncludeFails \/ ParseIncluded \/ ParseIncludedFails
    \/ BeginPasses \/ RunPass \/ PassFails
    \/ BeginGeneration \/ GenerateNext \/ GenerateThrows \/ Complete
    \/ Ended

Spec == CompilerInit /\ [][Next]_allVars

--------------------------------------------------------------------------------
\* What the file has to contain: the declarations in the order of the text,
\* an included file standing where its first line is.
Text == Flatten([i \in DOMAIN project.main.includes |-> project.files[project.main.includes[i]].decls])
        \o project.main.decls

\* The units that are generated with options o.
GeneratedFrom(o, d) ==
    CASE d.kind = "Unit" -> IF o.instantiation_only THEN <<>> ELSE <<d>>
      [] d.kind = "Instantiation" -> d.compacted_units
      [] OTHER -> <<>>

UnitsFrom(o, ds) == Flatten([i \in DOMAIN ds |-> GeneratedFrom(o, ds[i])])

MembersOf(o, u) ==
    Flatten([i \in DOMAIN Within[u.items] |->
        LET x == Within[u.items][i]
        IN IF x.kind \in {"Stored", "Variable"} THEN MemberOf(o, x) ELSE <<>>])

ClassesOf(o, u) == [UnitClasses(u) EXCEPT ![1].members = MembersOf(o, u)]

ClassesFrom(o, us) == Flatten([i \in DOMAIN us |-> ClassesOf(o, us[i])])

\* Of all classes, cs has the last of each name, in the order in which the
\* names came up.
HasLast(cs, all) ==
    /\ {c.name : c \in Range(cs)} = {c.name : c \in Range(all)}
    /\ \A i \in DOMAIN cs :
         \E p \in DOMAIN all : cs[i] = all[p] /\ \A q \in DOMAIN all : q > p => all[q].name # all[p].name
    /\ \A i, j \in DOMAIN cs : i < j =>
         \E p \in DOMAIN all :
            all[p].name = cs[i].name /\ \A q \in DOMAIN all : all[q].name = cs[j].name => p < q

EnumsFrom(ds) == Flatten([i \in DOMAIN ds |-> IF ds[i].kind = "Enum" THEN <<ds[i].name>> ELSE <<>>])

IsFunction(d) == d.kind = "Function" /\ ~d.imported

FunctionsFrom(ds) == Flatten([i \in DOMAIN ds |-> IF IsFunction(ds[i]) THEN <<ds[i].name>> ELSE <<>>])

NamesOf(fns) == [i \in DOMAIN fns |-> fns[i].name]

\* The printed file has the classes of every unit that is generated, that is
\* of each instantiation and, without -i, of each unit, with the members of
\* that unit and no other, in the order of the text with included files
\* first; of two classes of one name it has the later, in the place of the
\* earlier.  It has the enums and the functions of the module, each once and
\* in the order of the text (CodeGenerator::run, File::insertClass,
\* unit_cls_).
OutputExact ==
    printed =>
        /\ HasLast(classes, ClassesFrom(options, UnitsFrom(options, Text)))
        /\ enums = EnumsFrom(Text)
        /\ NamesOf(functions) = FunctionsFrom(Text)

\* The parameters of units are skipped, as "support parameters for units" is
\* still to be done: none becomes an argument of a function.  The parameters
\* of functions are not visited at all (visit(function::Parameter)).
UnitParametersSkipped == \A i \in DOMAIN functions : functions[i].args = <<>>

\* All of a unit has a translation: what the two generators translate, and
\* the types of the members of its class.
Translates(o, u) ==
    /\ UnitTranslates(u)
    /\ \A i \in DOMAIN Within[u.items] :
         LET x == Within[u.items][i]
         IN x.kind \in {"Stored", "Variable"} => MemberTranslates(o, x)

\* Nothing is printed unless every file was there and parsed, all passes
\* accepted the merged module, and of every unit that is generated all
\* expressions and types that become code had a translation, down to the
\* innermost switch; the process then ends with 0, and otherwise with 1 or by
\* a crash (Compiler::run, executePasses, Translator::type,
\* Translator::expression).
ExitTells ==
    LET files == {project.main} \cup {project.files[f] : f \in Range(project.main.includes)}
        broken == \/ \E f \in files : f.missing \/ ~f.syntax
                  \/ \E i \in DOMAIN Text : Text[i].name \in project.rejected
    IN step = "ended" =>
         /\ exit = 0 <=> printed
         /\ printed => ~broken /\ \A u \in Range(UnitsFrom(options, Text)) : Translates(options, u)
================================================================================
