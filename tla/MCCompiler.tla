------------------------------- MODULE MCCompiler ------------------------------
(***************************************************************************)
(* Projects for Compiler: one or two units in the main file or the file it *)
(* includes, with members of every kind, names that meet, functions before *)
(* and after units with parameters, types and expressions that have no     *)
(* translation, and files that are missing or broken.                      *)
(***************************************************************************)
EXTENDS Compiler

Items == { << Property("byteorder"), Stored("a", "integer"), Hidden("h", "bytes"), Variable("v", "integer") >>,
           << Switch(<<Stored("p", "integer"), Switch(<<Hidden("q", "bytes")>>)>>), Variable("w", "bool") >>,
           << Stored("a", "integer"), Stored("n", "void") >>,
           << Stored("l", "list"), Stored("a", "integer") >>,
           << Switch(<<Variable("m", "map")>>) >>,
           << Stored("a", "integer"), Switch(<<Untranslated(Variable("v", "integer"))>>) >>,
           << LookAhead(<<Stored("n", "void"), Untranslated(Hidden("t", "integer"))>>), Stored("b", "bytes") >>,
           <<>> }

X == Parameter("x", "integer")
Params == { <<>>, <<X>>, <<Parameter("x", "list")>>, <<X, Untranslated(X)>> }

Units == {UnitDecl("A", ps, is) : ps \in {<<>>, <<X>>}, is \in Items}
         \cup {UnitDecl("A", ps, <<Stored("a", "integer")>>) : ps \in Params}
         \cup {UnitDecl("AParser", <<X>>, <<Stored("z", "integer")>>)}

Compact == UnitDecl("C", <<X>>, << Stored("a", "integer"), Hidden("anon", "bytes") >>)
Renamed == [Compact EXCEPT !.name = "A"]

Insts == { Instantiation("C", <<Compact>>), Instantiation("A", <<Renamed>>) }
Functions == { FunctionDecl("f", FALSE), FunctionDecl("g", TRUE) }
Others == { EnumDecl("E"), OtherDecl("o") }

\* Main files: a function, a unit and one more declaration, in any order.
MainDecls ==
    UNION { {<<d, u, e>>, <<e, d, u>>, <<u, e, d>>} : d \in Functions, u \in Units, e \in Insts \cup Others }

Included ==
    { <<UnitDecl("A", <<X>>, <<Stored("a", "integer")>>), FunctionDecl("h", FALSE)>>,
      <<EnumDecl("F"), UnitDecl("B", <<>>, <<Stored("b", "string")>>)>> }

\* All of their nodes.
MCNodes ==
    LET tops == Units \cup Insts \cup Functions \cup Others \cup {Compact, Renamed, OtherDecl("q")}
                 \cup UNION {Range(ds) : ds \in Included}
        outer == UNION {Range(u.items) : u \in {d \in tops : d.kind = "Unit"}}
        params == UNION {Range(u.params) : u \in {d \in tops : d.kind = "Unit"}}
        inner(xs) == UNION {Range(x.items) : x \in {y \in xs : y.kind = "Switch"}}
    IN tops \cup params \cup outer \cup inner(outer) \cup inner(inner(outer))

Broken == {Missing, BadFile}

ProjectOf(main, lib, rejected, by) ==
    [main |-> main, files |-> [n \in {"lib", "lib2"} |-> lib], rejected |-> rejected, by |-> by]

Lib(ds) == File(<<"lib2">>, {"lib"}, ds)

MCProjects ==
    {ProjectOf(File(incl, {"main"}, ds), Lib(ds2), {}, 1) : incl \in {<<>>, <<"lib">>}, ds \in MainDecls, ds2 \in Included}
    \cup {ProjectOf(File(<<"lib", "lib2">>, {}, ds), Lib(ds2), {}, 1) : ds \in {<<EnumDecl("E")>>}, ds2 \in Included}
    \cup {ProjectOf(f, Lib(<<>>), {}, 1) : f \in Broken}
    \cup {ProjectOf(File(<<"lib">>, {}, <<EnumDecl("E")>>), f, {}, 1) : f \in Broken}
    \cup {ProjectOf(File(<<"lib">>, {}, <<EnumDecl("E"), OtherDecl("o")>>), Lib(<<OtherDecl("q")>>), {n}, p) :
            n \in {"o", "q"}, p \in {2, 5, 8}}
================================================================================
