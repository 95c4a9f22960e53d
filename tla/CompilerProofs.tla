------------------------------ MODULE CompilerProofs ---------------------------
(***************************************************************************)
(* What Compiler::run prints and what the process ends with, for all files *)
(* and options.  Two facts carry the argument: at most one file can be     *)
(* included, and the errors of a unit are forgotten before the end of its  *)
(* declaration, so that CodeGenerator::run always returns true.            *)
(***************************************************************************)
EXTENDS CodeGeneratorProofs

--------------------------------------------------------------------------------
\* Where run() is, and what it knows of the main file there.
ControlInv ==
    /\ project \in Projects
    /\ step \in {"open", "parse", "include", "parse_included", "passes", "generate", "ended"}
    /\ IF step = "ended" THEN exit \in {0, 1, Crash} ELSE exit = Running
    /\ step \notin {"generate", "ended"} => Init
    /\ step \notin {"open", "ended"} => ~project.main.missing
    /\ step \notin {"open", "parse", "ended"} => project.main.syntax

\* No file has been included.
NoneIncluded ==
    /\ decls = project.main.decls /\ includes = Reverse(project.main.includes)
    /\ IF step = "parse_included" THEN fs = "fresh" /\ ~project.files[Head(includes)].missing
       ELSE fs = "closed"

\* One has been, the last of the list, and no other can be.
OneIncluded ==
    LET f == project.files[Last(project.main.includes)]
    IN /\ project.main.includes # <<>> /\ ~f.missing /\ f.syntax
       /\ decls = f.decls \o project.main.decls
       /\ includes = Tail(Reverse(project.main.includes))
       /\ fs = IF step = "parse_included" THEN "used" ELSE "fresh"

MergeInv ==
    step \in {"include", "parse_included", "passes", "generate"} =>
        /\ decls \in Seq(DeclNodes)
        /\ NoneIncluded \/ OneIncluded
        /\ step = "parse_included" => includes # <<>>
        /\ step \in {"passes", "generate"} => includes = <<>>

\* The passes that have run accepted the declarations.
PassInv ==
    /\ pass \in 1..(Len(Passes) + 1)
    /\ step \in {"passes", "generate"} =>
         /\ step = "generate" => pass > Len(Passes)
         /\ pass > project.by => \A i \in DOMAIN decls : decls[i].name \notin project.rejected
    /\ step \in {"open", "parse", "include", "parse_included"} => pass = 1

\* Errors are only there while nodes are to be visited, so none is there when
\* the visit of a child of the module is over.
GeneratorInv ==
    /\ k \in Nat \ {0} /\ busy \in BOOLEAN /\ printed \in BOOLEAN
    /\ work \in Seq(Node)
    /\ errors => busy /\ work # <<>>
    /\ result = TRUE
    /\ printed => Finished

\* What the end of the process says of the files and the passes.
EndInv ==
    LET files == {project.main} \cup {project.files[f] : f \in Range(project.main.includes)}
        broken == \/ \E f \in files : f.missing \/ ~f.syntax
                  \/ \E i \in DOMAIN Text : Text[i].name \in project.rejected
    IN step = "ended" => (exit = 0 <=> printed) /\ (printed => ~broken)

CompilerInv ==
    ControlInv /\ MergeInv /\ PassInv /\ GeneratorInv /\ EndInv

--------------------------------------------------------------------------------
\* The list of includes is read from its end.
LEMMA ReverseFacts ==
  ASSUME NEW s \in Seq(STRING)
  PROVE  /\ Reverse(s) \in Seq(STRING) /\ Len(Reverse(s)) = Len(s)
         /\ s # <<>> => Reverse(s) # <<>> /\ Head(Reverse(s)) = Last(s)
         /\ s # <<>> /\ Tail(Reverse(s)) = <<>> => Len(s) = 1
<1>1. \A i \in 1..Len(s) : s[(Len(s) - i) + 1] \in STRING
  BY ElementOfSeq, Len(s) \in Nat
<1>2. Reverse(s) \in Seq(STRING) /\ Len(Reverse(s)) = Len(s)
  BY <1>1, IsASeq DEF Reverse
<1>3. s # <<>> => Len(s) >= 1
  BY EmptySeq
<1>4. s # <<>> => Reverse(s) # <<>> /\ Head(Reverse(s)) = Last(s)
  BY <1>2, <1>3, EmptySeq DEF Reverse, Last
<1>5. s # <<>> => Len(Tail(Reverse(s))) = Len(s) - 1
  BY <1>2, <1>4, HeadTailProperties
<1>6. s # <<>> /\ Tail(Reverse(s)) = <<>> => Len(s) = 1
  <2>1. Len(s) \in Nat /\ Len(<<>>) = 0
    BY LenProperties
  <2> DEFINE t == Tail(Reverse(s))
  <2>2. s # <<>> => Len(t) = Len(s) - 1
    BY <1>5
  <2> HIDE DEF t
  <2>3. s # <<>> /\ t = <<>> => Len(s) = 1
    BY <2>1, <2>2
  <2> QED BY <2>3 DEF t
<1> QED BY <1>2, <1>4, <1>6

\* Once nothing is left to be included, the declarations are those of the
\* text, every file was there and parsed, and at most one was included.
LEMMA IncludedAll ==
  ASSUME ControlInv, MergeInv, step \in {"passes", "generate"}
  PROVE  /\ Text = decls
         /\ \A f \in {project.main} \cup {project.files[n] : n \in Range(project.main.includes)} :
               ~f.missing /\ f.syntax
         /\ Len(project.main.includes) <= 1
<1> DEFINE m == project.main
           ds == [i \in DOMAIN m.includes |-> project.files[m.includes[i]].decls]
<1>1. ~m.missing /\ m.syntax /\ ProjectOK(project)
  BY ProjectsAssumption DEF ControlInv
<1>2. m.includes \in Seq(STRING) /\ m.decls \in Seq(DeclNodes)
  BY <1>1 DEF ProjectOK
<1>3. includes = <<>> /\ (NoneIncluded \/ OneIncluded)
  BY DEF MergeInv
<1>4. DOMAIN m.includes = 1..Len(m.includes) /\ Len(m.includes) \in Nat
  BY <1>2, LenProperties
<1>5. Text = Flatten(ds) \o m.decls
  BY DEF Text
<1>6. CASE NoneIncluded
  <2>1. m.includes = <<>>
    BY <1>2, <1>3, <1>6, ReverseFacts DEF NoneIncluded
  <2>2. ds = <<>>
    BY <2>1
  <2>3. Flatten(ds) = <<>>
    BY <2>2, FlattenOne
  <2>4. Range(m.includes) = {}
    BY <2>1 DEF Range
  <2>5. Len(m.includes) <= 1
    BY <2>1
  <2> QED BY <1>1, <1>2, <1>5, <1>6, <2>3, <2>4, <2>5, ConcatEmptySeq, Zenon DEF NoneIncluded
<1>7. CASE OneIncluded
  <2>1. Len(m.includes) = 1
    BY <1>2, <1>3, <1>7, ReverseFacts, Zenon DEF OneIncluded
  <2> DEFINE f == project.files[m.includes[1]]
  <2>2. Last(m.includes) = m.includes[1]
    BY <2>1 DEF Last
  <2>3. ~f.missing /\ f.syntax /\ decls = f.decls \o m.decls
    BY <1>7, <2>2, Zenon DEF OneIncluded
  <2>4. ds = <<f.decls>> /\ Len(ds) = 1 /\ ds[1] = f.decls
    BY <2>1, <1>4
  <2>5. Flatten(ds) = f.decls
    <3> HIDE DEF ds
    <3> QED BY <2>4, FlattenOne
  <2>6. Range(m.includes) = {m.includes[1]}
    BY <2>1, <1>4 DEF Range
  <2> HIDE DEF ds
  <2>7. Len(m.includes) <= 1
    BY <2>1
  <2> QED BY <1>1, <1>5, <2>3, <2>5, <2>6, <2>7, Zenon
<1> QED BY <1>3, <1>6, <1>7

--------------------------------------------------------------------------------
\* Where run() is, and what it found out on the way there.
LEMMA ControlNext == CompilerInv /\ [Next]_allVars => ControlInv'
<1> SUFFICES ASSUME CompilerInv, [Next]_allVars PROVE ControlInv'
  OBVIOUS
<1>0. ControlInv
  BY DEF CompilerInv
<1> USE <1>0 DEF ControlInv
<1>1. ASSUME NEW c \in {0, 1, Crash}, Ends(c) PROVE ControlInv'
  BY <1>1 DEF Ends
<1>2. CASE OpenMain
  BY <1>2 DEF OpenMain, Init, vars, visitor, file_
<1>3. CASE ParseMain
  BY <1>3 DEF ParseMain, Init, visitor, file_
<1>4. CASE OpenInclude
  BY <1>4 DEF OpenInclude, Init, vars, visitor, file_
<1>5. CASE ParseIncluded
  BY <1>5 DEF ParseIncluded, Init, visitor, file_
<1>6. CASE BeginPasses
  BY <1>6 DEF BeginPasses, Init, vars, visitor, file_
<1>7. CASE RunPass
  BY <1>7 DEF RunPass, Init, vars, visitor, file_
<1>8. CASE BeginGeneration
  BY <1>8 DEF BeginGeneration
<1>9. CASE GenerateNext
  BY <1>9 DEF GenerateNext, front
<1>10. CASE UNCHANGED allVars
  BY <1>10 DEF allVars, front, Init, vars, visitor, file_
<1> QED
  BY <1>1, <1>2, <1>3, <1>4, <1>5, <1>6, <1>7, <1>8, <1>9, <1>10
  DEF Next, OpenMainFails, ParseMainFails, OpenIncludeFails, ParseIncludedFails, PassFails,
      GenerateThrows, Complete, Ended

\* The generator does not touch the module it is given.
LEMMA GenerateKeeps == GenerateNext => UNCHANGED <<decls, options, project, step, fs, includes, pass>>
<1> USE DEF visitor, file_, front
<1>1. SkipUnit \/ BeginChild \/ EndChild \/ PrintFile => UNCHANGED <<decls, options>>
  BY DEF SkipUnit, BeginChild, EndChild, PrintFile
<1>2. VisitNext => UNCHANGED <<decls, options>>
  BY Zenon DEF VisitNext, VisitUnit, VisitEnum, VisitFunction, VisitInstantiation, VisitParameter,
         VisitMember, AddMember, VisitSwitch, VisitOther, Visit
<1> QED BY <1>1, <1>2 DEF GenerateNext

\* At most one file is included.
LEMMA MergeNext == CompilerInv /\ [Next]_allVars => MergeInv'
<1> SUFFICES ASSUME CompilerInv, [Next]_allVars PROVE MergeInv'
  OBVIOUS
<1>0. ControlInv /\ MergeInv
  BY DEF CompilerInv
<1> USE <1>0 DEF ControlInv
<1>a. step \notin {"open", "parse", "ended"} \/ (step = "parse" /\ project.main.syntax) =>
        /\ project.main.includes \in Seq(STRING)
        /\ project.main.decls \in Seq(DeclNodes)
        /\ \A n \in Range(project.main.includes) :
             ~project.files[n].missing /\ project.files[n].syntax => project.files[n].decls \in Seq(DeclNodes)
  BY ProjectsAssumption DEF ProjectOK
<1>1. ASSUME NEW c, Ends(c) PROVE MergeInv'
  BY <1>1 DEF Ends, MergeInv
<1>2. CASE OpenMain
  BY <1>2 DEF OpenMain, MergeInv
<1>3. CASE ParseMain
  BY <1>3, <1>a DEF ParseMain, MergeInv, NoneIncluded
<1>4. CASE OpenInclude
  <2>1. CASE NoneIncluded
    BY <1>4, <2>1 DEF OpenInclude, MergeInv, NoneIncluded, vars
  <2>2. CASE OneIncluded
    BY <1>4, <2>2, Zenon DEF OpenInclude, MergeInv, OneIncluded, vars
  <2> QED BY <1>4, <2>1, <2>2 DEF OpenInclude, MergeInv
<1>5. CASE ParseIncluded
  <2>1. NoneIncluded /\ includes # <<>>
    BY <1>5 DEF ParseIncluded, MergeInv, OneIncluded
  <2> DEFINE is == project.main.includes
  <2>2. is \in Seq(STRING)
    BY <1>5, <1>a DEF ParseIncluded
  <2>3. is # <<>>
    BY <2>1, <2>2, ReverseFacts, EmptySeq DEF NoneIncluded
  <2>4. Head(includes) = Last(is) /\ Last(is) \in Range(is)
    BY <2>1, <2>2, <2>3, ReverseFacts, EmptySeq DEF NoneIncluded, Last, Range
  <2> DEFINE f == project.files[Last(is)]
  <2>5. ~f.missing /\ f.syntax
    BY <1>5, <2>1, <2>4 DEF ParseIncluded, NoneIncluded
  <2>6. f.decls \in Seq(DeclNodes) /\ decls \in Seq(DeclNodes)
    BY <1>5, <1>a, <2>4, <2>5 DEF ParseIncluded, MergeInv
  <2>7. decls' = f.decls \o project.main.decls /\ includes' = Tail(Reverse(is))
    BY <1>5, <2>1, <2>4, Zenon DEF ParseIncluded, NoneIncluded, Merged
  <2>8. decls' \in Seq(DeclNodes)
    BY <1>5, <1>a, <2>6, <2>7, ConcatProperties, Zenon DEF ParseIncluded
  <2>9. OneIncluded'
    BY <1>5, <2>3, <2>5, <2>7, Zenon DEF ParseIncluded, OneIncluded
  <2> QED BY <1>5, <2>8, <2>9 DEF ParseIncluded, MergeInv
<1>6. CASE BeginPasses
  BY <1>6, Zenon DEF BeginPasses, MergeInv, NoneIncluded, OneIncluded, vars
<1>7. CASE RunPass
  BY <1>7, Zenon DEF RunPass, MergeInv, NoneIncluded, OneIncluded, vars
<1>8. CASE BeginGeneration
  BY <1>8, Zenon DEF BeginGeneration, MergeInv, NoneIncluded, OneIncluded, vars
<1>9. CASE GenerateNext
  BY <1>9, GenerateKeeps, Zenon DEF MergeInv, NoneIncluded, OneIncluded
<1>10. CASE UNCHANGED allVars
  BY <1>10, Zenon DEF allVars, front, vars, MergeInv, NoneIncluded, OneIncluded
<1> QED
  BY <1>1, <1>2, <1>3, <1>4, <1>5, <1>6, <1>7, <1>8, <1>9, <1>10
  DEF Next, OpenMainFails, ParseMainFails, OpenIncludeFails, ParseIncludedFails, PassFails,
      GenerateThrows, Complete, Ended

\* A pass that is over has rejected nothing.
LEMMA PassNext == CompilerInv /\ [Next]_allVars => PassInv'
<1> SUFFICES ASSUME CompilerInv, [Next]_allVars PROVE PassInv'
  OBVIOUS
<1>0. ControlInv /\ PassInv
  BY DEF CompilerInv
<1>a. Len(Passes) = 8
  BY DEF Passes
<1>b. step \in {"passes", "generate", "include"} => project.by \in 1..8
  BY <1>0, <1>a, ProjectsAssumption DEF ControlInv, ProjectOK
<1> USE <1>0, <1>a DEF PassInv
<1>1. ASSUME NEW c, Ends(c) PROVE PassInv'
  BY <1>1 DEF Ends
<1>2. CASE OpenMain
  BY <1>2 DEF OpenMain
<1>3. CASE ParseMain
  BY <1>3 DEF ParseMain
<1>4. CASE OpenInclude
  BY <1>4 DEF OpenInclude
<1>5. CASE ParseIncluded
  BY <1>5 DEF ParseIncluded
<1>6. CASE BeginPasses
  BY <1>6, <1>b DEF BeginPasses, vars
<1>7. CASE RunPass
  BY <1>7, <1>b DEF RunPass, Rejects, vars
<1>8. CASE BeginGeneration
  BY <1>8 DEF BeginGeneration, vars
<1>9. CASE GenerateNext
  BY <1>9, GenerateKeeps
<1>10. CASE UNCHANGED allVars
  BY <1>10 DEF allVars, front, vars
<1> QED
  BY <1>1, <1>2, <1>3, <1>4, <1>5, <1>6, <1>7, <1>8, <1>9, <1>10
  DEF Next, OpenMainFails, ParseMainFails, OpenIncludeFails, ParseIncludedFails, PassFails,
      GenerateThrows, Complete, Ended

--------------------------------------------------------------------------------
\* The children of a node are nodes; a unit has at least one, its id.
LEMMA ChildNodes ==
  ASSUME NEW x \in Node
  PROVE  /\ x.kind = "Unit" =>
              LET cs == x.params \o x.items \o <<Id(x.name)>>
              IN cs \in Seq(Node) /\ Len(cs) > 0
         /\ x.kind \in {"Enum", "Function"} => <<Id(x.name)>> \in Seq(Node)
         /\ x.kind = "Instantiation" => x.compacted_units \in Seq(Node)
         /\ x.kind = "Switch" => x.items \in Seq(Node)
<1>1. x.kind \notin {"Parameter", "ID"} => x \in Nodes /\ Wellformed(x)
  BY NodesAssumption DEF Node, DeclNodes, ItemNodes, ParamNodes, Id
<1>2. Seq(ItemNodes) \subseteq Seq(Node) /\ Seq(UnitNodes) \subseteq Seq(Node) /\ Seq(ParamNodes) \subseteq Seq(Node)
  BY SeqMonotonic DEF Node, UnitNodes, DeclNodes
<1>3. x.kind \in {"Unit", "Enum", "Function"} => x.name \in STRING /\ <<Id(x.name)>> \in Seq(Node)
  <2>1. ASSUME x.name \in STRING PROVE Id(x.name) \in Node
    BY <2>1 DEF Node
  <2> QED BY <1>1, <2>1 DEF Wellformed
<1>4. ASSUME x.kind = "Unit"
      PROVE  LET cs == x.params \o x.items \o <<Id(x.name)>>
             IN cs \in Seq(Node) /\ Len(cs) > 0
  <2> DEFINE ps == x.params
             id == <<Id(x.name)>>
  <2>1. ps \in Seq(Node) /\ x.items \in Seq(Node)
    BY <1>1, <1>2, <1>4 DEF Wellformed
  <2>5. id \in Seq(Node) /\ Len(id) = 1
    BY <1>3, <1>4
  <2> HIDE DEF ps, id
  <2> DEFINE most == ps \o x.items
  <2>6. most \in Seq(Node) /\ Len(most) \in Nat
    BY <2>1, ConcatProperties, LenProperties
  <2> HIDE DEF most
  <2>7. most \o id \in Seq(Node) /\ Len(most \o id) = Len(most) + Len(id)
    <3>1. id \in Seq(Node)
      BY <2>5
    <3> QED BY <2>6, <3>1, ConcatProperties
  <2>8. Len(most \o id) > 0
    BY <2>5, <2>6, <2>7
  <2> QED BY <2>7, <2>8 DEF ps, id, most
<1> QED BY <1>1, <1>2, <1>3, <1>4 DEF Wellformed

\* A visit that goes on to nodes leaves nodes to be visited.
LEMMA VisitNodes ==
  ASSUME GeneratorInv, NEW x, NEW cs \in Seq(Node), Visit(x, cs)
  PROVE  work' \in Seq(Node) /\ (Len(cs) > 0 => work' # <<>>)
<1>1. Tail(work) \in Seq(Node)
  BY HeadTailProperties DEF GeneratorInv, Visit
<1>2. work' = cs \o Tail(work)
  BY DEF Visit
<1> DEFINE t == Tail(work)
<1> HIDE DEF t
<1>3. work' \in Seq(Node) /\ Len(work') = Len(cs) + Len(t)
  BY <1>1, <1>2, ConcatProperties DEF t
<1>4. Len(cs) \in Nat /\ Len(t) \in Nat
  BY <1>1, LenProperties DEF t
<1>5. Len(cs) > 0 => Len(work') # 0
  BY <1>3, <1>4
<1> QED BY <1>3, <1>5

\* The initial state of the generator.
LEMMA GeneratorInit == Init => GeneratorInv
<1> SUFFICES ASSUME Init PROVE GeneratorInv
  OBVIOUS
<1>1. work \in Seq(Node)
  BY EmptySeq, Zenon DEF Init
<1>2. k \in Nat \ {0}
  BY DEF Init
<1> QED BY <1>1, <1>2, Zenon DEF Init, GeneratorInv

\* Each visit keeps the invariant of the generator: only a unit's leaves
\* errors, and then its children are still to be visited.
LEMMA VisitKeeps == GeneratorInv /\ VisitNext => GeneratorInv'
<1> SUFFICES ASSUME GeneratorInv, VisitNext PROVE GeneratorInv'
  OBVIOUS
<1> DEFINE x == Head(work)
<1>1. x \in Node
  BY HeadTailProperties DEF GeneratorInv, VisitNext
<1>2. <<>> \in Seq(Node)
  BY EmptySeq
<1>3. ASSUME NEW cs, Visit(x, cs) PROVE busy /\ UNCHANGED <<k, busy, result, printed, decls>>
  BY <1>3 DEF Visit
<1>4. ASSUME NEW cs \in Seq(Node), Visit(x, cs), ~errors' \/ Len(cs) > 0 PROVE GeneratorInv'
  <2>1. work' \in Seq(Node) /\ (Len(cs) > 0 => work' # <<>>)
    BY <1>4, VisitNodes
  <2>2. busy /\ ~printed
    BY <1>3, <1>4, Zenon DEF GeneratorInv, Finished
  <2> QED BY <1>3, <1>4, <2>1, <2>2, Zenon DEF GeneratorInv
<1> HIDE DEF x
<1>5. CASE VisitUnit(x)
  BY <1>1, <1>4, <1>5, ChildNodes, Zenon DEF VisitUnit
<1>6. CASE VisitEnum(x)
  BY <1>1, <1>4, <1>6, ChildNodes, Zenon DEF VisitEnum
<1>7. CASE VisitFunction(x)
  BY <1>1, <1>4, <1>7, ChildNodes, Zenon DEF VisitFunction
<1>8. CASE VisitInstantiation(x)
  BY <1>1, <1>4, <1>8, ChildNodes, Zenon DEF VisitInstantiation
<1>9. CASE VisitParameter(x)
  BY <1>2, <1>4, <1>9, Zenon DEF VisitParameter
<1>10. CASE VisitMember(x)
  BY <1>2, <1>4, <1>10, Zenon DEF VisitMember, AddMember
<1>11. CASE VisitSwitch(x)
  BY <1>1, <1>4, <1>11, ChildNodes, Zenon DEF VisitSwitch
<1>12. CASE VisitOther(x)
  BY <1>2, <1>4, <1>12, Zenon DEF VisitOther
<1> QED
  BY <1>5, <1>6, <1>7, <1>8, <1>9, <1>10, <1>11, <1>12 DEF VisitNext, x

LEMMA GeneratorNext == CompilerInv /\ [Next]_allVars => GeneratorInv'
<1> SUFFICES ASSUME CompilerInv, [Next]_allVars PROVE GeneratorInv'
  OBVIOUS
<1>0. ControlInv /\ MergeInv /\ GeneratorInv
  BY DEF CompilerInv
<1>1. CASE UNCHANGED vars
  BY <1>0, <1>1 DEF vars, visitor, GeneratorInv, Finished
<1>2. CASE ParseMain \/ ParseIncluded
  <2>1. Init'
    BY <1>0, <1>2 DEF ParseMain, ParseIncluded, ControlInv, Init, visitor, file_
  <2>2. Init' => GeneratorInv'
    BY GeneratorInit, PTL
  <2> QED BY <2>1, <2>2
<1>3. CASE GenerateNext
  <2>1. decls \in Seq(DeclNodes)
    BY <1>0, <1>3 DEF GenerateNext, MergeInv
  <2>2. CASE SkipUnit
    BY <1>0, <2>2 DEF SkipUnit, visitor, GeneratorInv, Finished
  <2>3. CASE BeginChild
    <3>1. decls[k] \in Node
      BY <1>0, <2>1, <2>3, ElementOfSeq DEF BeginChild, GeneratorInv, Node
    <3>2. <<decls[k]>> \in Seq(Node)
      BY <3>1
    <3> QED BY <1>0, <2>3, <3>2 DEF BeginChild, visitor, GeneratorInv, Finished
  <2>4. CASE EndChild
    <3>1. k' \in Nat \ {0} /\ ~errors /\ ~printed
      BY <1>0, <2>4 DEF EndChild, GeneratorInv, Finished
    <3>2. result' = TRUE /\ UNCHANGED <<work, printed, errors>> /\ busy' = FALSE
      BY <1>0, <2>4, <3>1, Zenon DEF EndChild, visitor, GeneratorInv
    <3> QED BY <1>0, <3>1, <3>2, Zenon DEF GeneratorInv
  <2>5. CASE PrintFile
    BY <1>0, <2>5 DEF PrintFile, visitor, GeneratorInv, Finished
  <2>6. CASE VisitNext
    BY <1>0, <2>6, VisitKeeps
  <2> QED BY <1>3, <2>2, <2>3, <2>4, <2>5, <2>6 DEF GenerateNext
<1> QED
  BY <1>1, <1>2, <1>3
  DEF Next, OpenMain, OpenMainFails, ParseMainFails, OpenInclude, OpenIncludeFails,
      ParseIncludedFails, BeginPasses, RunPass, PassFails, BeginGeneration, GenerateThrows,
      Complete, Ended, Ends, allVars

--------------------------------------------------------------------------------
\* How the process ends.
LEMMA EndNext == CompilerInv /\ [Next]_allVars => EndInv'
<1> SUFFICES ASSUME CompilerInv, [Next]_allVars PROVE EndInv'
  OBVIOUS
<1>0. ControlInv /\ MergeInv /\ PassInv /\ GeneratorInv /\ EndInv
  BY DEF CompilerInv
<1>1. ASSUME NEW c \in {1, Crash}, Ends(c), ~printed PROVE EndInv'
  <2>1. exit' # 0 /\ ~printed'
    BY <1>1 DEF Ends, Crash, vars
  <2> QED BY <2>1 DEF EndInv
<1>2. CASE step' # "ended"
  BY <1>2 DEF EndInv
<1>3. CASE OpenMainFails \/ ParseMainFails \/ OpenIncludeFails \/ ParseIncludedFails \/ PassFails
  <2>1. ~printed
    BY <1>0, <1>3 DEF OpenMainFails, ParseMainFails, OpenIncludeFails, ParseIncludedFails, PassFails,
                      ControlInv, Init
  <2> QED BY <1>1, <1>3, <2>1 DEF OpenMainFails, ParseMainFails, OpenIncludeFails,
                                  ParseIncludedFails, PassFails
<1>4. CASE GenerateThrows
  <2>1. ~printed
    BY <1>0, <1>4 DEF GenerateThrows, Throws, GeneratorInv, Finished
  <2> QED BY <1>1, <1>4, <2>1 DEF GenerateThrows
<1>5. CASE Complete
  <2>1. step = "generate" /\ printed /\ Ends(0)
    BY <1>0, <1>5, Zenon DEF Complete, GeneratorInv
  <2>2. exit' = 0 /\ printed' /\ project' = project
    BY <2>1 DEF Ends, vars
  <2> DEFINE files == {project.main} \cup {project.files[f] : f \in Range(project.main.includes)}
  <2>3. Text = decls /\ \A f \in files : ~f.missing /\ f.syntax
    BY <1>0, <2>1, IncludedAll
  <2>4. pass > project.by
    <3>1. project.by \in 1..Len(Passes)
      BY <1>0, <2>1, ProjectsAssumption DEF ControlInv, ProjectOK
    <3>2. Len(Passes) = 8
      BY DEF Passes
    <3> QED BY <1>0, <2>1, <3>1, <3>2 DEF PassInv
  <2>5. \A i \in DOMAIN Text : Text[i].name \notin project.rejected
    BY <1>0, <2>1, <2>3, <2>4 DEF PassInv
  <2>6. Text' = Text
    BY <2>2 DEF Text
  <2> QED BY <2>2, <2>3, <2>5, <2>6 DEF EndInv
<1>6. CASE UNCHANGED allVars
  BY <1>0, <1>6, Zenon DEF allVars, front, vars, EndInv, Text
<1>7. CASE Next /\ step' = "ended"
  <2>1. ~(OpenMain \/ ParseMain \/ OpenInclude \/ ParseIncluded \/ BeginPasses \/ RunPass
          \/ BeginGeneration \/ GenerateNext)
    BY <1>7, Zenon DEF OpenMain, ParseMain, OpenInclude, ParseIncluded, BeginPasses, RunPass,
                BeginGeneration, GenerateNext, front
  <2> QED BY <1>3, <1>4, <1>5, <1>6, <1>7, <2>1 DEF Next, Ended
<1> QED BY <1>2, <1>6, <1>7

\* The initial states satisfy the invariant.
LEMMA InitInv == CompilerInit => CompilerInv
<1> SUFFICES ASSUME CompilerInit PROVE CompilerInv
  OBVIOUS
<1>1. ControlInv /\ MergeInv /\ EndInv
  BY DEF CompilerInit, ControlInv, MergeInv, EndInv
<1>2. Len(Passes) = 8
  BY DEF Passes
<1>3. PassInv
  BY <1>2 DEF CompilerInit, PassInv
<1>4. GeneratorInv
  BY GeneratorInit DEF CompilerInit
<1> QED BY <1>1, <1>3, <1>4 DEF CompilerInv

\* The invariant holds throughout.
THEOREM InvariantCorrect == Spec => []CompilerInv
<1>1. CompilerInv /\ [Next]_allVars => CompilerInv'
  BY ControlNext, MergeNext, PassNext, GeneratorNext, EndNext DEF CompilerInv
<1> QED BY InitInv, <1>1, PTL DEF Spec

\* CodeGenerator::run never returns false: the errors the two generators log
\* for a unit are cleared by the visits of its children before run() looks.
THEOREM ErrorsForgotten == Spec => [](result = TRUE /\ (work = <<>> => ~errors))
<1>1. CompilerInv => result = TRUE /\ (work = <<>> => ~errors)
  BY Zenon DEF CompilerInv, GeneratorInv
<1> QED BY InvariantCorrect, <1>1, PTL

\* A module with two includes or more is never compiled: the stream that is
\* left open makes the second fail (Compiler::run).
THEOREM OneInclude == Spec => [](printed => Len(project.main.includes) <= 1)
<1> DEFINE P == printed => Len(project.main.includes) <= 1
<1>1. CompilerInit => P
  BY Zenon DEF CompilerInit, Init
<1>2. CompilerInv /\ P /\ [Next]_allVars => P'
  <2> SUFFICES ASSUME CompilerInv, P, [Next]_allVars PROVE P'
    OBVIOUS
  <2>1. CASE GenerateNext
    <3>1. step = "generate" /\ project' = project
      BY <2>1, GenerateKeeps DEF GenerateNext
    <3>2. Len(project.main.includes) <= 1
      BY <3>1, IncludedAll DEF CompilerInv
    <3> QED BY <3>1, <3>2
  <2>2. CASE UNCHANGED <<printed, project>>
    BY <2>2
  <2> QED
    BY <2>1, <2>2, Zenon
    DEF Next, OpenMain, OpenMainFails, ParseMain, ParseMainFails, OpenInclude, OpenIncludeFails,
        ParseIncluded, ParseIncludedFails, BeginPasses, RunPass, PassFails, BeginGeneration,
        GenerateThrows, Complete, Ended, Ends, allVars, vars, front
<1> QED BY InvariantCorrect, <1>1, <1>2, PTL DEF Spec

\* When passes and generation run, the module has exactly the declarations
\* of the text, in its order (Compiler::run, Module::addDeclarations).
THEOREM MergedExact == Spec => [](step \in {"passes", "generate"} => decls = Text)
<1>1. CompilerInv => (step \in {"passes", "generate"} => decls = Text)
  BY IncludedAll DEF CompilerInv
<1> QED BY InvariantCorrect, <1>1, PTL

--------------------------------------------------------------------------------
(***************************************************************************)
(* The file, as far as it is made: what it has, and what the nodes in w    *)
(* will add to it, is what the declarations in ds ask for.                 *)
(***************************************************************************)
FunctionsState(ds, w, fns) ==
    fns \in Seq(FunctionsOf) /\ Cat(NamesOf(fns), Flat(FunctionsLeft, w)) = FunctionsFrom(ds)

EnumsState(ds, w, es) == es \in Seq(STRING) /\ Cat(es, Flat(EnumsLeft, w)) = EnumsFrom(ds)

FileState(o, ds, w, cs, es, fns, uc) ==
    /\ ClassesState(o, UnitsFrom(o, ds), Flat(UnitsLeft, w), Flat(MembersLeft(o), w), cs, uc)
    /\ EnumsState(ds, w, es)
    /\ FunctionsState(ds, w, fns)

\* The names of functions.
LEMMA NamesFacts ==
  ASSUME NEW fns \in Seq(FunctionsOf)
  PROVE  /\ NamesOf(fns) \in Seq(STRING) /\ (fns = <<>> => NamesOf(fns) = <<>>)
         /\ \A f \in FunctionsOf : /\ Append(fns, f) \in Seq(FunctionsOf)
                                   /\ NamesOf(Append(fns, f)) = Cat(NamesOf(fns), <<f.name>>)
<1>1. Len(fns) \in Nat /\ DOMAIN fns = 1..Len(fns) /\ \A i \in 1..Len(fns) : fns[i] \in FunctionsOf
  BY LenProperties, ElementOfSeq
<1>2. \A i \in 1..Len(fns) : fns[i].name \in STRING
  BY <1>1 DEF FunctionsOf
<1> DEFINE ns == NamesOf(fns)
<1>3. ns \in Seq(STRING) /\ Len(ns) = Len(fns) /\ \A i \in 1..Len(fns) : ns[i] = fns[i].name
  BY <1>1, <1>2 DEF NamesOf
<1> HIDE DEF ns
<1>4. fns = <<>> => ns = <<>>
  BY <1>3, EmptySeq
<1>5. ASSUME NEW f \in FunctionsOf
      PROVE  Append(fns, f) \in Seq(FunctionsOf) /\ NamesOf(Append(fns, f)) = Cat(ns, <<f.name>>)
  <2> DEFINE g == Append(fns, f)
             s == Append(ns, f.name)
  <2>1. f.name \in STRING
    BY DEF FunctionsOf
  <2>2. /\ g \in Seq(FunctionsOf) /\ Len(g) = Len(fns) + 1 /\ DOMAIN g = 1..(Len(fns) + 1)
        /\ \A i \in 1..(Len(fns) + 1) : g[i] = IF i = Len(fns) + 1 THEN f ELSE fns[i]
    BY <1>1, AppendProperties
  <2>3. /\ s \in Seq(STRING) /\ DOMAIN s = 1..(Len(fns) + 1)
        /\ \A i \in 1..(Len(fns) + 1) : s[i] = IF i = Len(fns) + 1 THEN f.name ELSE ns[i]
    BY <1>1, <1>3, <2>1, AppendProperties
  <2>4. s = Cat(ns, <<f.name>>)
    BY <1>3, <2>1, AppendIsConcat DEF Cat
  <2> HIDE DEF g, s
  <2>5. \A i \in 1..(Len(fns) + 1) : g[i].name = s[i]
    BY <1>1, <1>3, <2>2, <2>3
  <2>6. NamesOf(g) = s
    <3>1. NamesOf(g) = [i \in 1..(Len(fns) + 1) |-> s[i]]
      BY <2>2, <2>5 DEF NamesOf
    <3>2. s = [i \in 1..(Len(fns) + 1) |-> s[i]]
      BY <2>3
    <3> QED BY <3>1, <3>2
  <2> QED BY <2>2, <2>4, <2>6 DEF g
<1> QED BY <1>3, <1>4, <1>5 DEF ns

\* What a declaration adds.
LEMMA DeclsAppend ==
  ASSUME NEW o, NEW ds \in Seq(DeclNodes), NEW d \in DeclNodes
  PROVE  /\ UnitsFrom(o, ds) \in Seq(UnitNodes) /\ GeneratedFrom(o, d) \in Seq(UnitNodes)
         /\ UnitsFrom(o, Append(ds, d)) = Cat(UnitsFrom(o, ds), GeneratedFrom(o, d))
         /\ EnumsFrom(ds) \in Seq(STRING) /\ EnumsMade[d] \in Seq(STRING)
         /\ EnumsFrom(Append(ds, d)) = Cat(EnumsFrom(ds), EnumsMade[d])
         /\ FunctionsFrom(ds) \in Seq(STRING) /\ FunctionsMade[d] \in Seq(STRING)
         /\ FunctionsFrom(Append(ds, d)) = Cat(FunctionsFrom(ds), FunctionsMade[d])
<1> DEFINE e == Append(ds, d)
           h == UnitsMade(o)
<1>1. e \in Seq(DeclNodes)
  BY AppendProperties
<1>2. /\ UnitsFrom(o, ds) = Flat(h, ds) /\ UnitsFrom(o, e) = Flat(h, e)
      /\ EnumsFrom(ds) = Flat(EnumsMade, ds) /\ EnumsFrom(e) = Flat(EnumsMade, e)
      /\ FunctionsFrom(ds) = Flat(FunctionsMade, ds) /\ FunctionsFrom(e) = Flat(FunctionsMade, e)
  BY <1>1, MadeIs, Zenon
<1>3. h[d] = GeneratedFrom(o, d)
  BY DEF UnitsMade
<1>4. Makes(h, DeclNodes, UnitNodes) /\ Makes(EnumsMade, DeclNodes, STRING) /\ Makes(FunctionsMade, DeclNodes, STRING)
  BY MadeTypes
<1> HIDE DEF h
<1>5. /\ Flat(h, e) = Flat(h, ds) \o h[d] /\ Flat(EnumsMade, e) = Flat(EnumsMade, ds) \o EnumsMade[d]
      /\ Flat(FunctionsMade, e) = Flat(FunctionsMade, ds) \o FunctionsMade[d]
  BY FlatAppend
<1>6. h[d] \in Seq(UnitNodes) /\ EnumsMade[d] \in Seq(STRING) /\ FunctionsMade[d] \in Seq(STRING)
  BY <1>4 DEF Makes
<1>7. Flat(h, ds) \in Seq(UnitNodes) /\ Flat(EnumsMade, ds) \in Seq(STRING) /\ Flat(FunctionsMade, ds) \in Seq(STRING)
  BY <1>4, FlatType
<1> HIDE DEF e
<1>8. /\ UnitsFrom(o, e) = Cat(UnitsFrom(o, ds), GeneratedFrom(o, d)) /\ EnumsFrom(e) = Cat(EnumsFrom(ds), EnumsMade[d])
      /\ FunctionsFrom(e) = Cat(FunctionsFrom(ds), FunctionsMade[d])
  BY <1>2, <1>3, <1>5 DEF Cat
<1> QED BY <1>2, <1>3, <1>6, <1>7, <1>8 DEF e

\* What is left of a declaration is what it adds.
LEMMA LeftOfDecl ==
  ASSUME NEW o, NEW d \in DeclNodes
  PROVE  /\ Flat(MembersLeft(o), <<d>>) = <<>>
         /\ Flat(EnumsLeft, <<d>>) = EnumsMade[d] /\ Flat(FunctionsLeft, <<d>>) = FunctionsMade[d]
         /\ ~(o.instantiation_only /\ d.kind = "Unit") => Flat(UnitsLeft, <<d>>) = GeneratedFrom(o, d)
         /\ o.instantiation_only /\ d.kind = "Unit" =>
              GeneratedFrom(o, d) = <<>> /\ EnumsMade[d] = <<>> /\ FunctionsMade[d] = <<>>
<1>1. d \in Node /\ d.kind \in {"Unit", "Enum", "Function", "Instantiation", "Other"}
  BY NodeKinds DEF DeclNodes
<1>2. /\ Flat(MembersLeft(o), <<d>>) = MembersLeft(o)[d] /\ Flat(EnumsLeft, <<d>>) = EnumsLeft[d]
      /\ Flat(UnitsLeft, <<d>>) = UnitsLeft[d] /\ Flat(FunctionsLeft, <<d>>) = FunctionsLeft[d]
  BY <1>1, MadeTypes, FlatOne
<1>3. MembersLeft(o)[d] = <<>>
  BY <1>1 DEF MembersLeft
<1>4. EnumsLeft[d] = EnumsMade[d] /\ FunctionsLeft[d] = FunctionsMade[d]
  BY <1>1 DEF EnumsLeft, EnumsMade, FunctionsLeft, FunctionsMade
<1>5. ASSUME ~(o.instantiation_only /\ d.kind = "Unit") PROVE UnitsLeft[d] = GeneratedFrom(o, d)
  BY <1>1, <1>5 DEF UnitsLeft, GeneratedFrom
<1>6. ASSUME o.instantiation_only, d.kind = "Unit"
      PROVE  GeneratedFrom(o, d) = <<>> /\ EnumsMade[d] = <<>> /\ FunctionsMade[d] = <<>>
  BY <1>6 DEF GeneratedFrom, EnumsMade, FunctionsMade, IsFunction
<1> QED BY <1>2, <1>3, <1>4, <1>5, <1>6

\* A child of the module is begun.
LEMMA FileBegin ==
  ASSUME NEW o, NEW ds \in Seq(DeclNodes), NEW d \in DeclNodes, NEW cs, NEW es, NEW fns, NEW uc,
         ~(o.instantiation_only /\ d.kind = "Unit"), FileState(o, ds, <<>>, cs, es, fns, uc)
  PROVE  FileState(o, Append(ds, d), <<d>>, cs, es, fns, uc)
<1>1. ClassesState(o, UnitsFrom(o, ds), <<>>, <<>>, cs, uc)
  BY FlatEmpty DEF FileState
<1>2. ClassesState(o, Cat(UnitsFrom(o, ds), GeneratedFrom(o, d)), GeneratedFrom(o, d), <<>>, cs, uc)
  BY <1>1, DeclsAppend, ClassesGrow, Zenon
<1>3. ClassesState(o, UnitsFrom(o, Append(ds, d)), Flat(UnitsLeft, <<d>>), Flat(MembersLeft(o), <<d>>), cs, uc)
  BY <1>2, DeclsAppend, LeftOfDecl, Zenon
<1>4. EnumsState(Append(ds, d), <<d>>, es)
  <2>1. es \in Seq(STRING) /\ Cat(es, <<>>) = EnumsFrom(ds)
    BY FlatEmpty DEF FileState, EnumsState
  <2>2. es = EnumsFrom(ds)
    BY <2>1, CatFacts
  <2> QED BY <2>1, <2>2, DeclsAppend, LeftOfDecl, Zenon DEF EnumsState
<1>5. FunctionsState(Append(ds, d), <<d>>, fns)
  <2>1. fns \in Seq(FunctionsOf) /\ Cat(NamesOf(fns), <<>>) = FunctionsFrom(ds)
    BY FlatEmpty DEF FileState, FunctionsState
  <2>2. NamesOf(fns) = FunctionsFrom(ds)
    BY <2>1, NamesFacts, CatFacts
  <2> QED BY <2>1, <2>2, DeclsAppend, LeftOfDecl, Zenon DEF FunctionsState
<1> QED BY <1>3, <1>4, <1>5, Zenon DEF FileState

\* A unit is left out.
LEMMA FileSkip ==
  ASSUME NEW o, NEW ds \in Seq(DeclNodes), NEW d \in DeclNodes, NEW cs, NEW es, NEW fns, NEW uc,
         o.instantiation_only, d.kind = "Unit", FileState(o, ds, <<>>, cs, es, fns, uc)
  PROVE  FileState(o, Append(ds, d), <<>>, cs, es, fns, uc)
<1>1. GeneratedFrom(o, d) = <<>> /\ EnumsMade[d] = <<>> /\ FunctionsMade[d] = <<>>
  BY LeftOfDecl, Zenon
<1>2. /\ UnitsFrom(o, Append(ds, d)) = UnitsFrom(o, ds) /\ EnumsFrom(Append(ds, d)) = EnumsFrom(ds)
      /\ FunctionsFrom(Append(ds, d)) = FunctionsFrom(ds)
  <2>1. /\ UnitsFrom(o, ds) \in Seq(UnitNodes) /\ UnitsFrom(o, Append(ds, d)) = Cat(UnitsFrom(o, ds), <<>>)
        /\ EnumsFrom(ds) \in Seq(STRING) /\ EnumsFrom(Append(ds, d)) = Cat(EnumsFrom(ds), <<>>)
        /\ FunctionsFrom(ds) \in Seq(STRING) /\ FunctionsFrom(Append(ds, d)) = Cat(FunctionsFrom(ds), <<>>)
    BY <1>1, DeclsAppend, Zenon
  <2> QED BY <2>1, CatFacts
<1> QED BY <1>2, Zenon DEF FileState, EnumsState, FunctionsState

\* What is left, with one node replaced by its children.
Splits(h, T, w, c) ==
    /\ Flat(h, w) = Cat(h[Head(w)], Flat(h, Tail(w)))
    /\ Flat(h, Cat(c, Tail(w))) = Cat(Flat(h, c), Flat(h, Tail(w)))
    /\ h[Head(w)] \in Seq(T) /\ Flat(h, Tail(w)) \in Seq(T) /\ Flat(h, c) \in Seq(T)

\* The units, members, enums and functions that are left.
LEMMA LeftSplits ==
  ASSUME NEW o, NEW w \in Seq(Node), w # <<>>, NEW c \in Seq(Node)
  PROVE  /\ Splits(UnitsLeft, UnitNodes, w, c) /\ Splits(MembersLeft(o), Members(o), w, c)
         /\ Splits(EnumsLeft, STRING, w, c) /\ Splits(FunctionsLeft, STRING, w, c)
<1>1. ASSUME NEW h, NEW T, Makes(h, Node, T) PROVE Splits(h, T, w, c)
  BY <1>1, FlatStep, Zenon DEF Splits
<1> QED BY <1>1, MadeTypes

\* A visit that adds nothing to the file, to a node that leaves what its
\* children leave.
LEMMA FileSame ==
  ASSUME NEW o, NEW ds, NEW w \in Seq(Node), w # <<>>, NEW c \in Seq(Node), NEW cs, NEW es, NEW fns, NEW uc,
         FileState(o, ds, w, cs, es, fns, uc),
         Flat(UnitsLeft, c) = UnitsLeft[Head(w)], Flat(MembersLeft(o), c) = MembersLeft(o)[Head(w)],
         Flat(EnumsLeft, c) = EnumsLeft[Head(w)], Flat(FunctionsLeft, c) = FunctionsLeft[Head(w)]
  PROVE  FileState(o, ds, Cat(c, Tail(w)), cs, es, fns, uc)
<1> DEFINE z == Cat(c, Tail(w))
<1>1. /\ Flat(UnitsLeft, z) = Flat(UnitsLeft, w) /\ Flat(MembersLeft(o), z) = Flat(MembersLeft(o), w)
      /\ Flat(EnumsLeft, z) = Flat(EnumsLeft, w) /\ Flat(FunctionsLeft, z) = Flat(FunctionsLeft, w)
  <2>1. /\ Splits(UnitsLeft, UnitNodes, w, c) /\ Splits(MembersLeft(o), Members(o), w, c)
        /\ Splits(EnumsLeft, STRING, w, c) /\ Splits(FunctionsLeft, STRING, w, c)
    BY LeftSplits
  <2> QED BY <2>1, Zenon DEF Splits
<1> HIDE DEF z
<1>2. FileState(o, ds, z, cs, es, fns, uc)
  BY <1>1 DEF FileState, EnumsState, FunctionsState
<1> QED BY <1>2 DEF z

\* A unit is visited.
LEMMA FileUnit ==
  ASSUME NEW o, NEW ds, NEW w \in Seq(Node), w # <<>>, Shape(w), NEW cs, NEW es, NEW fns, NEW uc,
         FileState(o, ds, w, cs, es, fns, uc), Head(w).kind = "Unit"
  PROVE  FileState(o, ds, Cat(Children(Head(w)), Tail(w)), InsertUnit(cs, Head(w)), es, fns, Head(w).name)
<1> DEFINE x == Head(w)
           c == Children(x)
           z == Cat(c, Tail(w))
           ul == Flat(UnitsLeft, Tail(w))
<1>1. x \in UnitNodes /\ Tail(w) \in Seq(UnitNodes)
  BY ShapeVisit, NodeKinds
<1>2. /\ c \in Seq(Leaves) /\ Flat(UnitsLeft, c) = <<>> /\ Flat(EnumsLeft, c) = <<>>
      /\ Flat(MembersLeft(o), c) = MembersOf(o, x) /\ Flat(FunctionsLeft, c) = <<>>
  BY <1>1, ChildrenLeft, Zenon
<1>4. c \in Seq(Node)
  <2>1. Leaves \subseteq Node
    BY LeftValues
  <2> HIDE DEF c
  <2> QED BY <1>2, <2>1
<1>5. UnitsLeft[x] = <<x>> /\ EnumsLeft[x] = <<>> /\ MembersLeft(o)[x] = <<>> /\ FunctionsLeft[x] = <<>>
  BY <1>1, LeftValues, Zenon
<1> HIDE DEF c
<1>6. /\ Splits(UnitsLeft, UnitNodes, w, c) /\ Splits(MembersLeft(o), Members(o), w, c)
      /\ Splits(EnumsLeft, STRING, w, c) /\ Splits(FunctionsLeft, STRING, w, c)
  BY <1>4, LeftSplits
<1>7. Flat(MembersLeft(o), Tail(w)) = <<>>
  <2>1. \A u \in UnitNodes : MembersLeft(o)[u] = <<>>
    BY LeftValues, Zenon
  <2> QED BY <1>1, <2>1, FlatNothing, Zenon
<1> HIDE DEF x
<1>8. Flat(UnitsLeft, w) = Cat(<<x>>, ul) /\ ul \in Seq(UnitNodes)
  BY <1>5, <1>6, Zenon DEF Splits, x
<1>9. Flat(UnitsLeft, z) = ul
  <2>1. Flat(UnitsLeft, z) = Cat(<<>>, ul)
    BY <1>2, <1>6, Zenon DEF Splits
  <2> HIDE DEF ul
  <2> QED BY <1>8, <2>1, CatFacts, Zenon
<1>10. Flat(MembersLeft(o), w) = <<>> /\ Flat(MembersLeft(o), z) = MembersOf(o, x)
  <2>1. <<>> \in Seq(Members(o)) /\ MembersOf(o, x) \in Seq(Members(o))
    BY <1>1, EmptySeq, ClassesFromFacts
  <2>2. Cat(<<>>, <<>>) = <<>> /\ Cat(MembersOf(o, x), <<>>) = MembersOf(o, x)
    BY <2>1, CatFacts, Zenon
  <2> QED BY <1>2, <1>5, <1>6, <1>7, <2>2, Zenon DEF Splits, x
<1>11. Flat(EnumsLeft, z) = Flat(EnumsLeft, w) /\ Flat(FunctionsLeft, z) = Flat(FunctionsLeft, w)
  BY <1>2, <1>5, <1>6, Zenon DEF Splits, x
<1>12. ClassesState(o, UnitsFrom(o, ds), Cat(<<x>>, ul), <<>>, cs, uc)
  BY <1>8, <1>10, Zenon DEF FileState
<1> HIDE DEF ul, z
<1>13. ClassesState(o, UnitsFrom(o, ds), Flat(UnitsLeft, z), Flat(MembersLeft(o), z), InsertUnit(cs, x), x.name)
  BY <1>1, <1>8, <1>9, <1>10, <1>12, ClassesUnit, Zenon
<1>14. EnumsState(ds, z, es) /\ FunctionsState(ds, z, fns)
  BY <1>11 DEF FileState, EnumsState, FunctionsState
<1>15. FileState(o, ds, z, InsertUnit(cs, x), es, fns, x.name)
  BY <1>13, <1>14, Zenon DEF FileState
<1> QED BY <1>15, Zenon DEF z, x, c

\* The id of a declaration leaves nothing.
LEMMA IdLeft ==
  ASSUME NEW o, NEW s \in STRING
  PROVE  /\ <<Id(s)>> \in Seq(Leaves) /\ <<Id(s)>> \in Seq(Node)
         /\ Flat(UnitsLeft, <<Id(s)>>) = <<>> /\ Flat(MembersLeft(o), <<Id(s)>>) = <<>>
         /\ Flat(EnumsLeft, <<Id(s)>>) = <<>> /\ Flat(FunctionsLeft, <<Id(s)>>) = <<>>
<1> DEFINE x == Id(s)
<1>1. x \in Leaves /\ x \in Node
  BY LeftValues DEF Leaves
<1>2. UnitsLeft[x] = <<>> /\ EnumsLeft[x] = <<>> /\ MembersLeft(o)[x] = <<>> /\ FunctionsLeft[x] = <<>>
  BY <1>1, LeftValues
<1> HIDE DEF x
<1>3. <<x>> \in Seq(Leaves) /\ <<x>> \in Seq(Node)
  BY <1>1
<1>4. /\ Flat(MembersLeft(o), <<x>>) = MembersLeft(o)[x] /\ Flat(EnumsLeft, <<x>>) = EnumsLeft[x]
      /\ Flat(UnitsLeft, <<x>>) = UnitsLeft[x] /\ Flat(FunctionsLeft, <<x>>) = FunctionsLeft[x]
  BY <1>1, MadeTypes, FlatOne
<1> QED BY <1>2, <1>3, <1>4, Zenon DEF x

\* An enum is visited.
LEMMA FileEnum ==
  ASSUME NEW o, NEW ds, NEW w \in Seq(Node), w # <<>>, Shape(w), NEW cs, NEW es, NEW fns, NEW uc,
         FileState(o, ds, w, cs, es, fns, uc), Head(w).kind = "Enum"
  PROVE  FileState(o, ds, Cat(<<Id(Head(w).name)>>, Tail(w)), cs, Append(es, Head(w).name), fns, uc)
<1> DEFINE x == Head(w)
           n == x.name
           c == <<Id(n)>>
           z == Cat(c, Tail(w))
           t == Tail(w)
<1>1. x \in Node /\ x \in DeclNodes /\ n \in STRING
  BY ShapeVisit, NodeKinds
<1>2. c \in Seq(Leaves) /\ c \in Seq(Node) /\ Flat(UnitsLeft, c) = <<>> /\ Flat(MembersLeft(o), c) = <<>>
      /\ Flat(EnumsLeft, c) = <<>> /\ Flat(FunctionsLeft, c) = <<>>
  BY <1>1, IdLeft, Zenon
<1> HIDE DEF c
<1>4. UnitsLeft[x] = <<>> /\ EnumsLeft[x] = <<n>> /\ MembersLeft(o)[x] = <<>> /\ FunctionsLeft[x] = <<>>
  BY <1>1 DEF UnitsLeft, EnumsLeft, MembersLeft, FunctionsLeft, IsFunction
<1>5. /\ Splits(UnitsLeft, UnitNodes, w, c) /\ Splits(MembersLeft(o), Members(o), w, c)
      /\ Splits(EnumsLeft, STRING, w, c) /\ Splits(FunctionsLeft, STRING, w, c)
  BY <1>2, LeftSplits
<1>6. /\ Flat(UnitsLeft, z) = Flat(UnitsLeft, w) /\ Flat(MembersLeft(o), z) = Flat(MembersLeft(o), w)
      /\ Flat(FunctionsLeft, z) = Flat(FunctionsLeft, w)
  BY <1>2, <1>4, <1>5, Zenon DEF Splits
<1>7. EnumsState(ds, z, Append(es, n))
  <2> DEFINE l == Flat(EnumsLeft, t)
             N == <<n>>
  <2>1. es \in Seq(STRING) /\ Cat(es, Flat(EnumsLeft, w)) = EnumsFrom(ds)
    BY DEF FileState, EnumsState
  <2>2. Flat(EnumsLeft, w) = Cat(N, l) /\ Flat(EnumsLeft, z) = Cat(<<>>, l) /\ l \in Seq(STRING) /\ N \in Seq(STRING)
    BY <1>2, <1>4, <1>5, Zenon DEF Splits
  <2>3. Append(es, n) = Cat(es, N) /\ Append(es, n) \in Seq(STRING)
    BY <1>1, <2>1, AppendIsConcat, AppendProperties, Zenon DEF Cat
  <2> HIDE DEF l, N, z
  <2>4. Cat(<<>>, l) = l /\ Cat(Cat(es, N), l) = Cat(es, Cat(N, l))
    BY <2>1, <2>2, CatFacts
  <2> QED BY <2>1, <2>2, <2>3, <2>4, Zenon DEF EnumsState
<1> HIDE DEF z, x
<1>9. FileState(o, ds, z, cs, Append(es, n), fns, uc)
  BY <1>6, <1>7 DEF FileState, FunctionsState
<1> QED BY <1>9, Zenon DEF z, x, c

\* A function is visited.
LEMMA FileFunction ==
  ASSUME NEW o, NEW ds, NEW w \in Seq(Node), w # <<>>, Shape(w), NEW cs, NEW es, NEW fns, NEW uc,
         FileState(o, ds, w, cs, es, fns, uc), IsFunction(Head(w))
  PROVE  FileState(o, ds, Cat(<<Id(Head(w).name)>>, Tail(w)), cs, es,
                   Append(fns, [name |-> Head(w).name, args |-> <<>>]), uc)
<1> DEFINE x == Head(w)
           n == x.name
           c == <<Id(n)>>
           z == Cat(c, Tail(w))
           f == [name |-> n, args |-> <<>>]
           t == Tail(w)
<1>0. x.kind = "Function"
  BY DEF IsFunction
<1>1. x \in Node /\ x \in DeclNodes /\ n \in STRING
  BY <1>0, ShapeVisit, NodeKinds
<1>2. c \in Seq(Leaves) /\ c \in Seq(Node) /\ Flat(UnitsLeft, c) = <<>> /\ Flat(MembersLeft(o), c) = <<>>
      /\ Flat(EnumsLeft, c) = <<>> /\ Flat(FunctionsLeft, c) = <<>>
  BY <1>1, IdLeft, Zenon
<1> HIDE DEF c
<1>4. UnitsLeft[x] = <<>> /\ EnumsLeft[x] = <<>> /\ MembersLeft(o)[x] = <<>> /\ FunctionsLeft[x] = <<n>>
  BY <1>0, <1>1 DEF UnitsLeft, EnumsLeft, MembersLeft, FunctionsLeft
<1>5. /\ Splits(UnitsLeft, UnitNodes, w, c) /\ Splits(MembersLeft(o), Members(o), w, c)
      /\ Splits(EnumsLeft, STRING, w, c) /\ Splits(FunctionsLeft, STRING, w, c)
  BY <1>2, LeftSplits
<1>6. /\ Flat(UnitsLeft, z) = Flat(UnitsLeft, w) /\ Flat(MembersLeft(o), z) = Flat(MembersLeft(o), w)
      /\ Flat(EnumsLeft, z) = Flat(EnumsLeft, w)
  BY <1>2, <1>4, <1>5, Zenon DEF Splits
<1>7. f \in FunctionsOf /\ f.name = n
  <2>1. <<>> \in Seq(STRING)
    BY EmptySeq
  <2> QED BY <1>1, <2>1 DEF FunctionsOf
<1> HIDE DEF f
<1>8. FunctionsState(ds, z, Append(fns, f))
  <2> DEFINE l == Flat(FunctionsLeft, t)
             N == <<n>>
             ns == NamesOf(fns)
  <2>1. fns \in Seq(FunctionsOf) /\ Cat(ns, Flat(FunctionsLeft, w)) = FunctionsFrom(ds)
    BY DEF FileState, FunctionsState
  <2>2. Flat(FunctionsLeft, w) = Cat(N, l) /\ Flat(FunctionsLeft, z) = Cat(<<>>, l) /\ l \in Seq(STRING) /\ N \in Seq(STRING)
    BY <1>2, <1>4, <1>5, Zenon DEF Splits
  <2>3. NamesOf(Append(fns, f)) = Cat(ns, N) /\ Append(fns, f) \in Seq(FunctionsOf) /\ ns \in Seq(STRING)
    BY <1>7, <2>1, NamesFacts, Zenon
  <2> HIDE DEF l, N, z, ns
  <2>4. Cat(<<>>, l) = l /\ Cat(Cat(ns, N), l) = Cat(ns, Cat(N, l))
    BY <2>2, <2>3, CatFacts
  <2> QED BY <2>1, <2>2, <2>3, <2>4, Zenon DEF FunctionsState
<1> HIDE DEF z, x
<1>9. FileState(o, ds, z, cs, es, Append(fns, f), uc)
  BY <1>6, <1>8 DEF FileState, EnumsState
<1> QED BY <1>9, Zenon DEF z, x, c, f

\* A parameter is visited: no name changes, whichever function gets it.
LEMMA FileParameter ==
  ASSUME NEW o, NEW ds, NEW w \in Seq(Node), w # <<>>, Shape(w), NEW cs, NEW es, NEW fns, NEW uc, NEW fn,
         FileState(o, ds, w, cs, es, fns, uc), Head(w).kind = "Parameter"
  PROVE  FileState(o, ds, Cat(<<>>, Tail(w)), cs, es,
                   IF fn = 0 THEN fns ELSE [fns EXCEPT ![fn].args = Append(@, Head(w).id)], uc)
<1> DEFINE x == Head(w)
           c == <<>>
           z == Cat(c, Tail(w))
           gs == IF fn = 0 THEN fns ELSE [fns EXCEPT ![fn].args = Append(@, x.id)]
<1>1. x \in Node /\ x.id \in STRING
  BY ShapeVisit, NodeKinds
<1>2. UnitsLeft[x] = <<>> /\ EnumsLeft[x] = <<>> /\ MembersLeft(o)[x] = <<>> /\ FunctionsLeft[x] = <<>>
  BY <1>1 DEF UnitsLeft, EnumsLeft, MembersLeft, FunctionsLeft, IsFunction
<1>3. c \in Seq(Node) /\ \A h : Flat(h, c) = <<>>
  BY EmptySeq, FlatEmpty
<1>4. FileState(o, ds, z, cs, es, fns, uc)
  BY <1>2, <1>3, FileSame, Zenon
<1>5. fns \in Seq(FunctionsOf)
  BY DEF FileState, FunctionsState
<1>6. ASSUME fn # 0 PROVE gs \in Seq(FunctionsOf) /\ NamesOf(gs) = NamesOf(fns)
  <2>1. Len(fns) \in Nat /\ DOMAIN fns = 1..Len(fns) /\ \A i \in 1..Len(fns) : fns[i] \in FunctionsOf
    BY <1>5, LenProperties, ElementOfSeq
  <2>2. ASSUME NEW f \in FunctionsOf
        PROVE  LET g == [f EXCEPT !.args = Append(@, x.id)] IN g \in FunctionsOf /\ g.name = f.name
    <3>1. Append(f.args, x.id) \in Seq(STRING)
      BY <1>1, AppendProperties DEF FunctionsOf
    <3> QED BY <3>1 DEF FunctionsOf
  <2>3. DOMAIN gs = 1..Len(fns) /\ \A i \in 1..Len(fns) : gs[i] \in FunctionsOf /\ gs[i].name = fns[i].name
    <3>1. DOMAIN gs = 1..Len(fns)
      BY <1>6, <2>1
    <3>2. ASSUME NEW i \in 1..Len(fns) PROVE gs[i] = fns[i] \/ gs[i] = [fns[i] EXCEPT !.args = Append(@, x.id)]
      BY <1>6, <2>1
    <3> HIDE DEF gs
    <3> QED BY <2>1, <2>2, <3>1, <3>2
  <2> HIDE DEF gs
  <2>4. gs \in Seq(FunctionsOf)
    <3>1. gs = [i \in 1..Len(fns) |-> gs[i]]
      BY <1>6, <2>3 DEF gs
    <3> QED BY <2>1, <2>3, <3>1, IsASeq
  <2>5. NamesOf(gs) = NamesOf(fns)
    BY <2>1, <2>3 DEF NamesOf
  <2> QED BY <2>4, <2>5
<1>7. gs \in Seq(FunctionsOf) /\ NamesOf(gs) = NamesOf(fns)
  BY <1>5, <1>6
<1> HIDE DEF gs, z
<1>8. FileState(o, ds, z, cs, es, gs, uc)
  BY <1>4, <1>7, Zenon DEF FileState, FunctionsState
<1> QED BY <1>8 DEF z, x, c, gs

Filled(o, cs, uc, x) ==
    [i \in DOMAIN cs |-> IF cs[i].name = uc THEN [cs[i] EXCEPT !.members = @ \o MemberOf(o, x)] ELSE cs[i]]

\* A field or a variable is visited.
LEMMA FileMember ==
  ASSUME NEW o, NEW ds, NEW w \in Seq(Node), w # <<>>, Shape(w), NEW cs, NEW es, NEW fns, NEW uc,
         FileState(o, ds, w, cs, es, fns, uc), Head(w).kind \in {"Stored", "Variable"}
  PROVE  FileState(o, ds, Cat(<<>>, Tail(w)), Filled(o, cs, uc, Head(w)), es, fns, uc)
<1> DEFINE x == Head(w)
           c == <<>>
           z == Cat(c, Tail(w))
           M == MemberOf(o, x)
           l == Flat(MembersLeft(o), Tail(w))
           es2 == [i \in DOMAIN cs |-> IF cs[i].name = uc THEN [cs[i] EXCEPT !.members = @ \o M] ELSE cs[i]]
<1>1. x \in Node
  BY ShapeVisit
<1>2. c \in Seq(Leaves) /\ c \in Seq(Node)
  BY EmptySeq
<1>4. UnitsLeft[x] = <<>> /\ EnumsLeft[x] = <<>> /\ MembersLeft(o)[x] = M /\ FunctionsLeft[x] = <<>>
  BY <1>1 DEF UnitsLeft, EnumsLeft, MembersLeft, FunctionsLeft, IsFunction
<1>5. /\ Splits(UnitsLeft, UnitNodes, w, c) /\ Splits(MembersLeft(o), Members(o), w, c)
      /\ Splits(EnumsLeft, STRING, w, c) /\ Splits(FunctionsLeft, STRING, w, c)
  BY <1>2, LeftSplits, Zenon
<1>6. \A h : Flat(h, c) = <<>>
  BY FlatEmpty
<1>7. /\ Flat(UnitsLeft, z) = Flat(UnitsLeft, w) /\ Flat(FunctionsLeft, z) = Flat(FunctionsLeft, w)
      /\ Flat(EnumsLeft, z) = Flat(EnumsLeft, w)
  <2> HIDE DEF M
  <2> QED BY <1>4, <1>5, <1>6, Zenon DEF Splits
<1>8. M \in Seq(Members(o)) /\ l \in Seq(Members(o)) /\ Flat(MembersLeft(o), w) = Cat(M, l) /\ Flat(MembersLeft(o), z) = l
  <2> HIDE DEF M
  <2>1. /\ M \in Seq(Members(o)) /\ l \in Seq(Members(o)) /\ Flat(MembersLeft(o), w) = Cat(M, l)
        /\ Flat(MembersLeft(o), z) = Cat(<<>>, l)
    BY <1>4, <1>5, <1>6, Zenon DEF Splits
  <2> HIDE DEF l
  <2> QED BY <2>1, CatFacts, Zenon
<1>9. ClassesState(o, UnitsFrom(o, ds), Flat(UnitsLeft, w), Cat(M, l), cs, uc)
  BY <1>8, Zenon DEF FileState
<1>10. ClassesState(o, UnitsFrom(o, ds), Flat(UnitsLeft, w), l, es2, uc)
  <2> HIDE DEF M, l
  <2> QED BY <1>8, <1>9, ClassesMember
<1> HIDE DEF es2, z, x, l, M, c
<1>12. EnumsState(ds, z, es) /\ FunctionsState(ds, z, fns)
  BY <1>7 DEF FileState, EnumsState, FunctionsState
<1>13. FileState(o, ds, z, es2, es, fns, uc)
  BY <1>7, <1>8, <1>10, <1>12, Zenon DEF FileState
<1>14. Filled(o, cs, uc, x) = es2
  BY DEF Filled, es2, M
<1> QED BY <1>13, <1>14 DEF z, x, c

\* A switch is visited: its items are next.
LEMMA FileSwitch ==
  ASSUME NEW o, NEW ds, NEW w \in Seq(Node), w # <<>>, Shape(w), NEW cs, NEW es, NEW fns, NEW uc,
         FileState(o, ds, w, cs, es, fns, uc), Head(w).kind = "Switch"
  PROVE  FileState(o, ds, Cat(Head(w).items, Tail(w)), cs, es, fns, uc) /\ Head(w).items \in Seq(Leaves)
<1> DEFINE x == Head(w)
           c == x.items
<1>1. x \in Node /\ c \in Seq(ItemNodes)
  BY ShapeVisit, NodeKinds
<1>2. UnitsLeft[x] = <<>> /\ EnumsLeft[x] = <<>> /\ MembersLeft(o)[x] = Flat(MembersMade(o), Within[c]) /\ FunctionsLeft[x] = <<>>
  BY <1>1 DEF UnitsLeft, EnumsLeft, MembersLeft, FunctionsLeft, IsFunction
<1> HIDE DEF c
<1>3. c \in Seq(Leaves)
  <2>1. ItemNodes \subseteq Leaves
    BY DEF Leaves
  <2> QED BY <1>1, <2>1
<1>4. c \in Seq(Node)
  <2>1. Leaves \subseteq Node
    BY LeftValues
  <2> QED BY <1>3, <2>1
<1>5. Flat(MembersLeft(o), c) = MembersLeft(o)[x]
  BY <1>1, <1>2, MembersVisited, Zenon
<1>6. Flat(UnitsLeft, c) = <<>> /\ Flat(EnumsLeft, c) = <<>> /\ Flat(FunctionsLeft, c) = <<>>
  <2>1. \A y \in Leaves : UnitsLeft[y] = <<>> /\ EnumsLeft[y] = <<>> /\ FunctionsLeft[y] = <<>>
    BY LeftValues, Zenon
  <2> QED BY <1>1, <1>3, <2>1, FlatNothing
<1>7. FileState(o, ds, Cat(c, Tail(w)), cs, es, fns, uc)
  BY <1>2, <1>4, <1>5, <1>6, FileSame, Zenon
<1> QED BY <1>3, <1>7, Zenon DEF c

\* An instantiation is visited: its units are next.
LEMMA FileInstantiation ==
  ASSUME NEW o, NEW ds, NEW w \in Seq(Node), w # <<>>, Shape(w), NEW cs, NEW es, NEW fns, NEW uc,
         FileState(o, ds, w, cs, es, fns, uc), Head(w).kind = "Instantiation"
  PROVE  /\ FileState(o, ds, Cat(Head(w).compacted_units, Tail(w)), cs, es, fns, uc)
         /\ Inner(Cat(Head(w).compacted_units, Tail(w))) /\ Cat(Head(w).compacted_units, Tail(w)) \in Seq(Node)
<1> DEFINE x == Head(w)
           c == x.compacted_units
           z == Cat(c, Tail(w))
<1>1. x \in Node /\ c \in Seq(UnitNodes) /\ Tail(w) = <<>>
  BY ShapeVisit, NodeKinds
<1>2. UnitsLeft[x] = c /\ EnumsLeft[x] = <<>> /\ MembersLeft(o)[x] = <<>> /\ FunctionsLeft[x] = <<>>
  BY <1>1 DEF UnitsLeft, EnumsLeft, MembersLeft, FunctionsLeft, IsFunction
<1> HIDE DEF c
<1>3. /\ \A y \in UnitNodes : /\ UnitsLeft[y] = <<y>> /\ EnumsLeft[y] = <<>>
                             /\ MembersLeft(o)[y] = <<>> /\ FunctionsLeft[y] = <<>>
      /\ UnitNodes \subseteq Node
  BY LeftValues, Zenon
<1>4. c \in Seq(Node)
  BY <1>1, <1>3
<1>5. Flat(MembersLeft(o), c) = <<>> /\ Flat(EnumsLeft, c) = <<>> /\ Flat(FunctionsLeft, c) = <<>>
  BY <1>1, <1>3, FlatNothing, Zenon
<1>6. Flat(UnitsLeft, c) = c
  BY <1>1, <1>3, FlatEach
<1>7. z = c
  BY <1>1, CatFacts, Zenon
<1>8. Inner(c)
  <2>1. Len(c) \in Nat /\ \A i \in 1..Len(c) : c[i] \in UnitNodes
    BY <1>1, LenProperties, ElementOfSeq
  <2>2. 0 \in 0..Len(c) /\ 1..0 = {} /\ 0 + 1 = 1
    BY <2>1
  <2> QED BY <2>1, <2>2 DEF Inner
<1>9. z \in Seq(Node) /\ Inner(z)
  BY <1>4, <1>7, <1>8
<1>10. FileState(o, ds, z, cs, es, fns, uc)
  BY <1>2, <1>4, <1>5, <1>6, FileSame, Zenon
<1> QED BY <1>9, <1>10, Zenon DEF c

\* A node that adds nothing is visited.
LEMMA FileOther ==
  ASSUME NEW o, NEW ds, NEW w \in Seq(Node), w # <<>>, Shape(w), NEW cs, NEW es, NEW fns, NEW uc,
         FileState(o, ds, w, cs, es, fns, uc),
         Head(w).kind \in {"Other", "Property", "ID"} \/ (Head(w).kind = "Function" /\ Head(w).imported)
  PROVE  FileState(o, ds, Cat(<<>>, Tail(w)), cs, es, fns, uc)
<1> DEFINE x == Head(w)
           c == <<>>
<1>1. x \in Node
  BY ShapeVisit
<1>2. UnitsLeft[x] = <<>> /\ EnumsLeft[x] = <<>> /\ MembersLeft(o)[x] = <<>> /\ FunctionsLeft[x] = <<>>
  BY <1>1 DEF UnitsLeft, EnumsLeft, MembersLeft, FunctionsLeft, IsFunction
<1>3. c \in Seq(Node) /\ \A h : Flat(h, c) = <<>>
  BY EmptySeq, FlatEmpty
<1> HIDE DEF c
<1>4. FileState(o, ds, Cat(c, Tail(w)), cs, es, fns, uc)
  BY <1>2, <1>3, FileSame, Zenon
<1> QED BY <1>4 DEF c

\* The file before anything was visited, and when nothing is left.
LEMMA FileEnds ==
  ASSUME NEW o
  PROVE  /\ FileState(o, <<>>, <<>>, <<>>, <<>>, <<>>, None) /\ UnitsFrom(o, <<>>) = <<>>
         /\ \A ds \in Seq(DeclNodes) : \A cs, es, fns, uc :
              FileState(o, ds, <<>>, cs, es, fns, uc) =>
                /\ HasLast(cs, ClassesFrom(o, UnitsFrom(o, ds)))
                /\ es = EnumsFrom(ds) /\ NamesOf(fns) = FunctionsFrom(ds)
<1>1. \A h : Flat(h, <<>>) = <<>>
  BY FlatEmpty
<1>2. UnitsFrom(o, <<>>) = <<>> /\ EnumsFrom(<<>>) = <<>> /\ FunctionsFrom(<<>>) = <<>>
  <2>1. <<>> \in Seq(DeclNodes)
    BY EmptySeq
  <2> QED BY <1>1, <2>1, MadeIs, Zenon
<1>3. FileState(o, <<>>, <<>>, <<>>, <<>>, <<>>, None)
  <2>1. <<>> \in Seq(DeclNodes) /\ <<>> \in Seq(STRING) /\ <<>> \in Seq(FunctionsOf) /\ Len(<<>>) = 0
    BY EmptySeq
  <2>4. Cat(<<>>, <<>>) = <<>>
    BY <2>1, CatFacts, Zenon
  <2>5. ClassesState(o, <<>>, <<>>, <<>>, <<>>, None)
    BY DEF ClassesState
  <2>6. NamesOf(<<>>) = <<>>
    BY <2>1, NamesFacts
  <2> QED BY <1>1, <1>2, <2>1, <2>4, <2>5, <2>6, Zenon DEF FileState, EnumsState, FunctionsState
<1>4. ASSUME NEW ds \in Seq(DeclNodes), NEW cs, NEW es, NEW fns, NEW uc,
             FileState(o, ds, <<>>, cs, es, fns, uc)
      PROVE  HasLast(cs, ClassesFrom(o, UnitsFrom(o, ds))) /\ es = EnumsFrom(ds) /\ NamesOf(fns) = FunctionsFrom(ds)
  <2>1. ClassesState(o, UnitsFrom(o, ds), <<>>, <<>>, cs, uc)
    <3>1. ClassesState(o, UnitsFrom(o, ds), Flat(UnitsLeft, <<>>), Flat(MembersLeft(o), <<>>), cs, uc)
      BY <1>4, Zenon DEF FileState
    <3>2. Flat(UnitsLeft, <<>>) = <<>> /\ Flat(MembersLeft(o), <<>>) = <<>>
      BY <1>1
    <3> QED BY <3>1, <3>2, Zenon
  <2>2. UnitsFrom(o, ds) \in Seq(UnitNodes)
    <3>1. UnitsFrom(o, ds) = Flat(UnitsMade(o), ds) /\ Makes(UnitsMade(o), DeclNodes, UnitNodes)
      BY MadeIs, MadeTypes, Zenon
    <3> QED BY <3>1, FlatType
  <2>3. HasLast(cs, ClassesFrom(o, UnitsFrom(o, ds)))
    BY <2>1, <2>2, ClassesDone
  <2>4. es \in Seq(STRING) /\ Cat(es, <<>>) = EnumsFrom(ds)
    BY <1>1, <1>4, Zenon DEF FileState, EnumsState
  <2>5. es = EnumsFrom(ds)
    BY <2>4, CatFacts
  <2>6. fns \in Seq(FunctionsOf) /\ Cat(NamesOf(fns), <<>>) = FunctionsFrom(ds)
    BY <1>1, <1>4, Zenon DEF FileState, FunctionsState
  <2>7. NamesOf(fns) = FunctionsFrom(ds)
    BY <2>6, NamesFacts, CatFacts
  <2> QED BY <2>3, <2>5, <2>7
<1> QED BY <1>2, <1>3, <1>4

--------------------------------------------------------------------------------
(***************************************************************************)
(* What is printed.  While the visitor goes through the module, the file   *)
(* has what the declarations up to the present one ask for, except for     *)
(* what the nodes still to be visited will add.                            *)
(***************************************************************************)
\* The units so far have translations, if the nodes still to be visited have.
UnitsSound(o, ds, w) == w \in Seq(Sound(o)) => UnitsFrom(o, ds) \in Seq(Fit(o))

Upto == SubSeq(decls, 1, IF busy THEN k ELSE k - 1)

FileInv ==
    /\ k <= Len(decls) + 1 /\ (busy => k <= Len(decls)) /\ (~busy => work = <<>>)
    /\ Shape(work)
    /\ FileState(options, Upto, work, classes, enums, functions, unit_cls)
    /\ UnitsSound(options, Upto, work)

AllTranslate == printed => \A u \in Range(UnitsFrom(options, Text)) : Translates(options, u)

OutputInv == (step = "generate" => FileInv) /\ OutputExact /\ AllTranslate

\* Each visit keeps what the file is going to have.
LEMMA FileVisit ==
  ASSUME NEW ds, work \in Seq(Node), Shape(work), VisitNext,
         FileState(options, ds, work, classes, enums, functions, unit_cls)
  PROVE  /\ FileState(options, ds, work', classes', enums', functions', unit_cls')
         /\ Shape(work') /\ UNCHANGED <<decls, options, k, busy, printed>>
<1> DEFINE x == Head(work)
           Result == /\ FileState(options, ds, work', classes', enums', functions', unit_cls')
                     /\ Inner(work') /\ UNCHANGED <<decls, options, k, busy, printed>>
<1> USE DEF Visit, file_
<1>0. work # <<>> /\ \A c \in Seq(Leaves) : Inner(Cat(c, Tail(work)))
  BY ShapeVisit DEF VisitNext
<1>1. <<>> \in Seq(Leaves)
  BY EmptySeq
<1>2. ASSUME VisitUnit(x) PROVE Result
  <2>1. x.kind = "Unit" /\ x \in UnitNodes
    BY <1>0, <1>2, ShapeVisit, NodeKinds, Zenon DEF VisitUnit
  <2>2. /\ work' = Cat(Children(x), Tail(work)) /\ classes' = InsertUnit(classes, x) /\ unit_cls' = x.name
        /\ UNCHANGED <<functions, enums, function, decls, options, k, busy, printed>>
    BY <1>2, Zenon DEF VisitUnit, Cat, Children
  <2>3. Children(x) \in Seq(Leaves)
    BY <2>1, ChildrenLeft, Zenon
  <2>4. FileState(options, ds, Cat(Children(x), Tail(work)), InsertUnit(classes, x), enums, functions, x.name)
    BY <1>0, <2>1, FileUnit, Zenon
  <2> QED BY <1>0, <2>2, <2>3, <2>4, Zenon
<1>3. ASSUME VisitEnum(x) PROVE Result
  <2>1. x.kind = "Enum" /\ x.name \in STRING
    BY <1>0, <1>3, ShapeVisit, NodeKinds DEF VisitEnum
  <2>2. /\ work' = Cat(<<Id(x.name)>>, Tail(work)) /\ enums' = Append(enums, x.name)
        /\ UNCHANGED <<classes, functions, unit_cls, function, decls, options, k, busy, printed>>
    BY <1>3, Zenon DEF VisitEnum, Cat
  <2>3. <<Id(x.name)>> \in Seq(Leaves)
    BY <2>1, IdLeft, Zenon
  <2>4. FileState(options, ds, Cat(<<Id(x.name)>>, Tail(work)), classes, Append(enums, x.name), functions, unit_cls)
    BY <1>0, <2>1, FileEnum, Zenon
  <2> QED BY <1>0, <2>2, <2>3, <2>4, Zenon
<1>4. ASSUME VisitFunction(x) PROVE Result
  <2>1. IsFunction(x) /\ x.name \in STRING
    BY <1>0, <1>4, ShapeVisit, NodeKinds DEF VisitFunction, IsFunction
  <2>2. /\ work' = Cat(<<Id(x.name)>>, Tail(work))
        /\ functions' = Append(functions, [name |-> x.name, args |-> <<>>]) /\ function' = Len(functions) + 1
        /\ UNCHANGED <<classes, enums, unit_cls, decls, options, k, busy, printed>>
    BY <1>4, Zenon DEF VisitFunction, Cat
  <2>3. <<Id(x.name)>> \in Seq(Leaves)
    BY <2>1, IdLeft, Zenon
  <2>4. FileState(options, ds, Cat(<<Id(x.name)>>, Tail(work)), classes, enums,
                  Append(functions, [name |-> x.name, args |-> <<>>]), unit_cls)
    BY <1>0, <2>1, FileFunction, Zenon
  <2> QED BY <1>0, <2>2, <2>3, <2>4, Zenon
<1>5. ASSUME VisitInstantiation(x) PROVE Result
  <2>1. x.kind = "Instantiation"
    BY <1>5 DEF VisitInstantiation
  <2>2. /\ work' = Cat(x.compacted_units, Tail(work))
        /\ UNCHANGED <<classes, enums, functions, unit_cls, function, decls, options, k, busy, printed>>
    BY <1>5, Zenon DEF VisitInstantiation, Cat
  <2>3. /\ FileState(options, ds, Cat(x.compacted_units, Tail(work)), classes, enums, functions, unit_cls)
        /\ Inner(Cat(x.compacted_units, Tail(work)))
    BY <1>0, <2>1, FileInstantiation, Zenon
  <2> QED BY <2>2, <2>3, Zenon
<1>6. ASSUME VisitParameter(x) PROVE Result
  <2>1. x.kind = "Parameter"
    BY <1>6 DEF VisitParameter
  <2> DEFINE gs == IF function = 0 THEN functions ELSE [functions EXCEPT ![function].args = Append(@, x.id)]
  <2>2. /\ work' = Cat(<<>>, Tail(work)) /\ functions' = gs
        /\ UNCHANGED <<classes, enums, unit_cls, function, decls, options, k, busy, printed>>
    BY <1>6, Zenon DEF VisitParameter, Cat
  <2>3. FileState(options, ds, Cat(<<>>, Tail(work)), classes, enums, gs, unit_cls)
    BY <1>0, <2>1, FileParameter, Zenon
  <2> HIDE DEF gs
  <2> QED BY <1>0, <1>1, <2>2, <2>3, Zenon
<1>7. ASSUME VisitMember(x) PROVE Result
  <2>1. x.kind \in {"Stored", "Variable"}
    BY <1>7 DEF VisitMember, AddMember
  <2> DEFINE cs == Filled(options, classes, unit_cls, x)
  <2>2. /\ work' = Cat(<<>>, Tail(work)) /\ classes' = cs
        /\ UNCHANGED <<functions, enums, unit_cls, function, decls, options, k, busy, printed>>
    BY <1>7, Zenon DEF VisitMember, AddMember, Cat, Filled
  <2>3. FileState(options, ds, Cat(<<>>, Tail(work)), cs, enums, functions, unit_cls)
    BY <1>0, <2>1, FileMember
  <2> HIDE DEF cs
  <2> QED BY <1>0, <1>1, <2>2, <2>3, Zenon
<1>8. ASSUME VisitSwitch(x) PROVE Result
  <2>1. x.kind = "Switch"
    BY <1>8 DEF VisitSwitch
  <2>2. /\ work' = Cat(x.items, Tail(work))
        /\ UNCHANGED <<classes, enums, functions, unit_cls, function, decls, options, k, busy, printed>>
    BY <1>8, Zenon DEF VisitSwitch, Cat
  <2>3. FileState(options, ds, Cat(x.items, Tail(work)), classes, enums, functions, unit_cls) /\ x.items \in Seq(Leaves)
    BY <1>0, <2>1, FileSwitch, Zenon
  <2> QED BY <1>0, <2>2, <2>3, Zenon
<1>9. ASSUME VisitOther(x) PROVE Result
  <2>1. x.kind \in {"Other", "Property", "ID"} \/ (x.kind = "Function" /\ x.imported)
    BY <1>9 DEF VisitOther
  <2>2. /\ work' = Cat(<<>>, Tail(work))
        /\ UNCHANGED <<classes, enums, functions, unit_cls, function, decls, options, k, busy, printed>>
    BY <1>9, Zenon DEF VisitOther, Cat
  <2>3. FileState(options, ds, Cat(<<>>, Tail(work)), classes, enums, functions, unit_cls)
    BY <1>0, <2>1, FileOther
  <2> QED BY <1>0, <1>1, <2>2, <2>3, Zenon
<1>10. Result
  <2> HIDE DEF Result
  <2> QED BY <1>2, <1>3, <1>4, <1>5, <1>6, <1>7, <1>8, <1>9, Zenon DEF VisitNext
<1> QED BY <1>10 DEF Shape

\* A visit that does not throw leaves behind nodes that are sound only if the
\* nodes before it were.
LEMMA SoundNext ==
  ASSUME work \in Seq(Node), VisitNext, work' \in Seq(Sound(options))
  PROVE  work \in Seq(Sound(options))
<1> DEFINE x == Head(work)
           S == Sound(options)
<1> USE DEF Visit
<1>0. work # <<>> /\ x \in Node
  BY HeadTailProperties DEF VisitNext
<1>1. <<>> \in Seq(Node) /\ <<>> \in Seq(S)
  BY EmptySeq
<1>2. ASSUME NEW c \in Seq(Node), work' = Cat(c, Tail(work)), c \in Seq(S) => x \in S PROVE work \in Seq(S)
  BY <1>0, <1>2, SoundVisit, Zenon
<1>3. ASSUME x \notin ItemNodes, x.kind \notin {"Unit", "Instantiation"} PROVE x \in S
  BY <1>0, <1>3 DEF Sound, UnitNodes
<1> HIDE DEF S
<1>4. ASSUME VisitUnit(x) PROVE work \in Seq(S)
  <2>1. x \in UnitNodes /\ UnitTranslates(x) /\ work' = Cat(Children(x), Tail(work))
    BY <1>0, <1>4, NodeKinds DEF VisitUnit, Cat, Children
  <2>2. Children(x) \in Seq(Node)
    <3>1. Children(x) \in Seq(Leaves)
      BY <2>1, ChildrenLeft, Zenon
    <3>2. Leaves \subseteq Node
      BY LeftValues
    <3> QED BY <3>1, <3>2, SeqMonotonic
  <2>3. ASSUME Children(x) \in Seq(S) PROVE x \in S
    <3>1. x \in Fit(options)
      BY <2>1, <2>3, SoundUnit DEF S
    <3>2. x \notin ItemNodes /\ x.kind # "Instantiation"
      BY <2>1, NodeKinds DEF ItemNodes, UnitNodes
    <3> QED BY <1>0, <3>1, <3>2 DEF S, Sound
  <2> QED BY <1>2, <2>1, <2>2, <2>3, Zenon
<1>5. ASSUME VisitEnum(x) \/ VisitFunction(x) PROVE work \in Seq(S)
  <2>1. x.kind \in {"Enum", "Function"} /\ work' = Cat(<<Id(x.name)>>, Tail(work))
    BY <1>5 DEF VisitEnum, VisitFunction, Cat
  <2>2. x \notin ItemNodes /\ x.name \in STRING
    BY <1>0, <2>1, NodeKinds DEF ItemNodes
  <2>3. <<Id(x.name)>> \in Seq(Node)
    BY <2>2, IdLeft
  <2>4. x \in S
    BY <1>3, <2>1, <2>2
  <2> QED BY <1>2, <2>1, <2>3, <2>4, Zenon
<1>6. ASSUME VisitInstantiation(x) PROVE work \in Seq(S)
  <2> DEFINE c == x.compacted_units
  <2>1. x.kind = "Instantiation" /\ work' = Cat(c, Tail(work)) /\ c \in Seq(UnitNodes)
    BY <1>0, <1>6, NodeKinds DEF VisitInstantiation, Cat
  <2> HIDE DEF c
  <2>2. c \in Seq(Node)
    BY <2>1, LeftValues
  <2>3. ASSUME c \in Seq(S) PROVE x \in S
    <3>1. \A i \in 1..Len(c) : c[i] \in UnitNodes /\ c[i] \in S
      BY <2>1, <2>3, ElementOfSeq
    <3>2. \A i \in 1..Len(c) : c[i] \in Fit(options)
      BY <3>1 DEF S, Sound
    <3>3. c \in Seq(Fit(options))
      BY <2>1, <3>2, LenProperties
    <3>4. x \notin ItemNodes /\ x \notin UnitNodes
      BY <2>1, NodeKinds DEF ItemNodes, UnitNodes
    <3> QED BY <1>0, <3>3, <3>4 DEF S, Sound, c
  <2> QED BY <1>2, <2>1, <2>2, <2>3, Zenon
<1>7. ASSUME VisitParameter(x) PROVE work \in Seq(S)
  <2>1. x.kind = "Parameter" /\ work' = Cat(<<>>, Tail(work))
    BY <1>7 DEF VisitParameter, Cat
  <2>2. x \in S
    BY <1>3, <2>1, NodeKinds DEF ItemNodes
  <2> QED BY <1>1, <1>2, <2>1, <2>2, Zenon
<1>8. ASSUME VisitMember(x) PROVE work \in Seq(S)
  <2>1. x.kind \in {"Stored", "Variable"} /\ MemberTranslates(options, x) /\ work' = Cat(<<>>, Tail(work))
    BY <1>8 DEF VisitMember, AddMember, Cat
  <2>2. x \in ItemNodes
    BY <1>0, <2>1, NodeKinds
  <2>3. x \in S
    BY <2>1, <2>2, SoundItem DEF S
  <2> QED BY <1>1, <1>2, <2>1, <2>3, Zenon
<1>9. ASSUME VisitSwitch(x) PROVE work \in Seq(S)
  <2>1. x.kind = "Switch" /\ work' = Cat(x.items, Tail(work))
    BY <1>9 DEF VisitSwitch, Cat
  <2>2. x \in ItemNodes /\ x.items \in Seq(ItemNodes)
    BY <1>0, <2>1, NodeKinds
  <2>3. x.items \in Seq(Node)
    BY <2>2, NodeKinds
  <2>4. x.items \in Seq(S) => x \in S
    BY <2>1, <2>2, SoundItem DEF S
  <2> QED BY <1>2, <2>1, <2>3, <2>4, Zenon
<1>10. ASSUME VisitOther(x) PROVE work \in Seq(S)
  <2>1. x.kind \in {"Other", "Property", "ID", "Function"} /\ work' = Cat(<<>>, Tail(work))
    BY <1>10 DEF VisitOther, Cat
  <2>2. CASE x \in ItemNodes
    <3>1. x.kind = "Property"
      BY <2>1, <2>2, NodeKinds DEF ItemNodes
    <3>2. x \in S
      BY <2>2, <3>1, SoundItem DEF S
    <3> QED BY <1>1, <1>2, <2>1, <3>2, Zenon
  <2>3. CASE x \notin ItemNodes
    <3>1. x \in S
      BY <1>3, <2>1, <2>3
    <3> QED BY <1>1, <1>2, <2>1, <3>1, Zenon
  <2> QED BY <2>2, <2>3
<1> QED BY <1>4, <1>5, <1>6, <1>7, <1>8, <1>9, <1>10, Zenon DEF VisitNext, S

\* A child that is sound asks for units that have translations, and a unit
\* that is left out for none.
LEMMA SoundDecl ==
  ASSUME NEW o, NEW ds \in Seq(DeclNodes), NEW d \in DeclNodes, UnitsFrom(o, ds) \in Seq(Fit(o))
  PROVE  /\ UnitsSound(o, Append(ds, d), <<d>>)
         /\ o.instantiation_only /\ d.kind = "Unit" => UnitsSound(o, Append(ds, d), <<>>)
<1> DEFINE g == GeneratedFrom(o, d)
<1>1. UnitsFrom(o, Append(ds, d)) = Cat(UnitsFrom(o, ds), g)
  BY DeclsAppend
<1>2. ASSUME g \in Seq(Fit(o)) PROVE UnitsFrom(o, Append(ds, d)) \in Seq(Fit(o))
  <2> HIDE DEF g
  <2> QED BY <1>1, <1>2, CatFacts
<1>3. ASSUME <<d>> \in Seq(Sound(o)) PROVE g \in Seq(Fit(o))
  <2>1. d \in Sound(o)
    <3>1. Len(<<d>>) = 1 /\ <<d>>[1] = d
      OBVIOUS
    <3> QED BY <1>3, <3>1, ElementOfSeq
  <2>2. <<>> \in Seq(Fit(o))
    BY EmptySeq
  <2>3. d.kind = "Unit" => <<d>> \in Seq(Fit(o))
    <3>1. d.kind = "Unit" => d \in UnitNodes
      BY DEF UnitNodes, DeclNodes
    <3>2. d.kind = "Unit" => d \in Fit(o)
      BY <2>1, <3>1, Zenon DEF Sound
    <3> QED BY <3>2
  <2>4. d.kind = "Instantiation" => d.compacted_units \in Seq(Fit(o))
    BY <2>1 DEF Sound
  <2> QED BY <2>2, <2>3, <2>4 DEF GeneratedFrom
<1>4. ASSUME o.instantiation_only, d.kind = "Unit" PROVE g \in Seq(Fit(o))
  <2>1. g = <<>>
    BY <1>4, LeftOfDecl
  <2> QED BY <2>1, EmptySeq
<1> QED BY <1>2, <1>3, <1>4, Zenon DEF UnitsSound

\* The declarations up to the present one.
LEMMA UptoFacts ==
  ASSUME NEW n \in Nat, NEW ds \in Seq(DeclNodes), n <= Len(ds)
  PROVE  /\ SubSeq(ds, 1, n) \in Seq(DeclNodes)
         /\ n = 0 => SubSeq(ds, 1, n) = <<>>
         /\ n = Len(ds) => SubSeq(ds, 1, n) = ds
         /\ n < Len(ds) => /\ ds[n+1] \in DeclNodes
                           /\ SubSeq(ds, 1, n + 1) = Append(SubSeq(ds, 1, n), ds[n+1])
<1>1. Len(ds) \in Nat /\ \A i \in 1..Len(ds) : ds[i] \in DeclNodes
  BY LenProperties, ElementOfSeq
<1>2. \A i \in 1..n : ds[i] \in DeclNodes
  BY <1>1
<1>3. SubSeq(ds, 1, n) \in Seq(DeclNodes) /\ Len(SubSeq(ds, 1, n)) = n /\ \A i \in 1..n : SubSeq(ds, 1, n)[i] = ds[i]
  BY <1>1, <1>2
<1>4. n = 0 => SubSeq(ds, 1, n) = <<>>
  BY <1>3, EmptySeq
<1>5. n = Len(ds) => SubSeq(ds, 1, n) = ds
  BY <1>3, SeqEqual
<1>6. ASSUME n < Len(ds) PROVE ds[n+1] \in DeclNodes /\ SubSeq(ds, 1, n + 1) = Append(SubSeq(ds, 1, n), ds[n+1])
  <2>1. n + 1 \in 1..Len(ds)
    BY <1>1, <1>6
  <2> QED BY <1>1, <1>2, <2>1
<1> QED BY <1>3, <1>4, <1>5, <1>6

\* A step of the generator keeps the invariant, and prints what it should.
LEMMA FileNext ==
  ASSUME CompilerInv, OutputInv, GenerateNext
  PROVE  OutputInv'
<1>0. ControlInv /\ MergeInv /\ GeneratorInv /\ step = "generate" /\ FileInv /\ OutputExact /\ AllTranslate
  BY DEF CompilerInv, OutputInv, GenerateNext
<1>1. decls \in Seq(DeclNodes) /\ k \in Nat \ {0} /\ Len(decls) \in Nat /\ Text = decls
  BY <1>0, IncludedAll, LenProperties DEF MergeInv, GeneratorInv
<1>2. UNCHANGED <<decls, options, project, step>>
  BY GenerateKeeps
<1>3. Text' = Text
  BY <1>2 DEF Text
<1>4. k - 1 \in Nat /\ (k - 1) + 1 = k /\ k - 1 <= Len(decls)
  BY <1>0, <1>1 DEF FileInv
<1>5. /\ SubSeq(decls, 1, k - 1) \in Seq(DeclNodes)
      /\ k <= Len(decls) => decls[k] \in DeclNodes /\ SubSeq(decls, 1, k) = Append(SubSeq(decls, 1, k - 1), decls[k])
  <2>1. k <= Len(decls) <=> k - 1 < Len(decls)
    BY <1>1
  <2> QED BY <1>1, <1>4, <2>1, UptoFacts
<1> DEFINE before == SubSeq(decls, 1, k - 1)
           now == SubSeq(decls, 1, k)
<1> HIDE DEF before, now
<1>6. ASSUME busy PROVE Upto = now
  BY <1>6, Zenon DEF Upto, now
<1>7. ASSUME ~busy PROVE Upto = before /\ work = <<>>
  BY <1>0, <1>7, Zenon DEF Upto, FileInv, before
<1>13. ASSUME work = <<>> PROVE UnitsFrom(options, Upto) \in Seq(Fit(options))
  <2>1. <<>> \in Seq(Sound(options))
    BY EmptySeq
  <2> QED BY <1>0, <1>13, <2>1, Zenon DEF FileInv, UnitsSound
<1>14. ASSUME UNCHANGED printed, ~printed \/ UNCHANGED <<classes, enums, functions>>, FileInv' PROVE OutputInv'
  BY <1>0, <1>2, <1>3, <1>14, Zenon DEF OutputInv, OutputExact, AllTranslate
<1>8. CASE SkipUnit
  <2>1. /\ ~busy /\ k <= Len(decls) /\ options.instantiation_only /\ decls[k].kind = "Unit" /\ k' = k + 1
        /\ UNCHANGED <<busy, work, classes, enums, functions, unit_cls, function, printed>>
    BY <1>8, Zenon DEF SkipUnit, file_
  <2>2. Upto = before /\ work = <<>> /\ FileState(options, before, <<>>, classes, enums, functions, unit_cls)
    BY <1>0, <1>7, <2>1, Zenon DEF FileInv
  <2>3. decls[k] \in DeclNodes /\ before \in Seq(DeclNodes) /\ now = Append(before, decls[k])
    BY <1>5, <2>1, Zenon DEF before, now
  <2>4. FileState(options, now, <<>>, classes, enums, functions, unit_cls)
    BY <2>1, <2>2, <2>3, FileSkip, Zenon
  <2>5. Upto' = now
    BY <1>1, <1>2, <2>1 DEF Upto, now
  <2>6. Shape(work') /\ (k' <= Len(decls') + 1)
    BY <1>0, <1>1, <1>2, <2>1 DEF FileInv
  <2>7. UnitsSound(options, now, <<>>)
    BY <1>13, <2>1, <2>2, <2>3, SoundDecl, Zenon
  <2>8. FileInv'
    BY <1>2, <2>1, <2>2, <2>4, <2>5, <2>6, <2>7, Zenon DEF FileInv
  <2> QED BY <1>14, <2>1, <2>8, Zenon
<1>9. CASE BeginChild
  <2>1. /\ ~busy /\ k <= Len(decls) /\ ~(options.instantiation_only /\ decls[k].kind = "Unit")
        /\ busy' = TRUE /\ work' = <<decls[k]>>
        /\ UNCHANGED <<k, classes, enums, functions, unit_cls, function, printed>>
    BY <1>9 DEF BeginChild, file_
  <2>2. FileState(options, before, <<>>, classes, enums, functions, unit_cls)
    BY <1>0, <1>7, <2>1, Zenon DEF FileInv
  <2>3. decls[k] \in DeclNodes /\ before \in Seq(DeclNodes) /\ now = Append(before, decls[k])
    BY <1>5, <2>1, Zenon DEF before, now
  <2>4. FileState(options, now, <<decls[k]>>, classes, enums, functions, unit_cls)
    BY <2>1, <2>2, <2>3, FileBegin, Zenon
  <2>5. Upto' = now
    BY <1>2, <2>1, Zenon DEF Upto, now
  <2>6. Shape(work') /\ (k' <= Len(decls') + 1) /\ k' <= Len(decls')
    BY <1>1, <1>2, <2>1 DEF Shape
  <2>7. UnitsSound(options, now, <<decls[k]>>)
    BY <1>7, <1>13, <2>1, <2>3, SoundDecl, Zenon
  <2>8. FileInv'
    BY <1>2, <2>1, <2>4, <2>5, <2>6, <2>7, Zenon DEF FileInv
  <2> QED BY <1>14, <2>1, <2>8, Zenon
<1>10. CASE EndChild
  <2>1. /\ busy /\ work = <<>> /\ busy' = FALSE /\ k' = k + 1
        /\ UNCHANGED <<work, classes, enums, functions, unit_cls, function, printed>>
    BY <1>10 DEF EndChild, file_
  <2>2. FileState(options, now, <<>>, classes, enums, functions, unit_cls) /\ k <= Len(decls)
    BY <1>0, <1>6, <2>1 DEF FileInv
  <2>3. Upto' = now
    BY <1>1, <1>2, <2>1 DEF Upto, now
  <2>4. Shape(work') /\ (k' <= Len(decls') + 1)
    BY <1>0, <1>1, <1>2, <2>1, <2>2 DEF FileInv
  <2>5. UnitsSound(options, now, <<>>)
    BY <1>0, <1>6, <2>1, Zenon DEF FileInv
  <2>6. FileInv'
    BY <1>2, <2>1, <2>2, <2>3, <2>4, <2>5, Zenon DEF FileInv
  <2> QED BY <1>14, <2>1, <2>6, Zenon
<1>11. CASE VisitNext
  <2>1. work \in Seq(Node) /\ Shape(work) /\ busy /\ ~printed
    <3>1. busy
      BY <1>0, <1>7, <1>11 DEF VisitNext
    <3> QED BY <1>0, <3>1 DEF GeneratorInv, FileInv, Finished
  <2>2. FileState(options, Upto, work, classes, enums, functions, unit_cls)
    BY <1>0 DEF FileInv
  <2>3. /\ FileState(options, Upto, work', classes', enums', functions', unit_cls')
        /\ Shape(work') /\ UNCHANGED <<decls, options, k, busy, printed>>
    BY <1>11, <2>1, <2>2, FileVisit, Zenon
  <2>4. Upto' = Upto
    BY <2>3 DEF Upto
  <2>5. UnitsSound(options, Upto, work')
    <3>1. work' \in Seq(Sound(options)) => work \in Seq(Sound(options))
      BY <1>11, <2>1, SoundNext
    <3>2. UnitsSound(options, Upto, work)
      BY <1>0 DEF FileInv
    <3> QED BY <3>1, <3>2, Zenon DEF UnitsSound
  <2>6. FileInv'
    BY <1>0, <2>1, <2>3, <2>4, <2>5, Zenon DEF FileInv
  <2> QED BY <1>14, <2>1, <2>3, <2>6, Zenon
<1>12. CASE PrintFile
  <2>1. /\ ~busy /\ k > Len(decls)
        /\ UNCHANGED <<k, busy, work, classes, enums, functions, unit_cls, function>>
    BY <1>12 DEF PrintFile, Finished, file_
  <2>2. before = decls
    <3>1. k - 1 = Len(decls)
      BY <1>1, <1>4, <2>1
    <3> QED BY <1>1, <1>4, <3>1, UptoFacts DEF before
  <2>3. FileState(options, decls, <<>>, classes, enums, functions, unit_cls)
    BY <1>0, <1>7, <2>1, <2>2 DEF FileInv
  <2>4. /\ HasLast(classes, ClassesFrom(options, UnitsFrom(options, Text)))
        /\ enums = EnumsFrom(Text) /\ NamesOf(functions) = FunctionsFrom(Text)
    BY <1>1, <2>3, FileEnds, Zenon
  <2>5. OutputExact'
    BY <1>2, <1>3, <2>1, <2>4, Zenon DEF OutputExact
  <2>6. FileInv'
    BY <1>0, <1>2, <2>1, Zenon DEF FileInv, Upto
  <2>7. AllTranslate'
    <3> DEFINE us == UnitsFrom(options, Text)
    <3>1. us \in Seq(Fit(options))
      BY <1>1, <1>7, <1>13, <2>1, <2>2
    <3>2. us' = us
      BY <1>2, <1>3
    <3> HIDE DEF us
    <3>3. \A u \in Range(us) : Translates(options, u)
      BY <3>1 DEF Range, Fit
    <3> QED BY <1>2, <3>2, <3>3 DEF AllTranslate, us
  <2> QED BY <1>0, <1>2, <2>5, <2>6, <2>7, Zenon DEF OutputInv
<1> QED BY <1>8, <1>9, <1>10, <1>11, <1>12 DEF GenerateNext

\* The generator begins with an empty file, and after it nothing changes.
LEMMA OutputNext == CompilerInv /\ OutputInv /\ [Next]_allVars => OutputInv'
<1> SUFFICES ASSUME CompilerInv, OutputInv, [Next]_allVars PROVE OutputInv'
  OBVIOUS
<1>0. ControlInv /\ MergeInv /\ OutputExact /\ AllTranslate
  BY DEF CompilerInv, OutputInv
<1>1. CASE GenerateNext
  BY <1>1, FileNext
<1>2. ASSUME UNCHANGED <<printed, classes, enums, functions, options, project>> PROVE OutputExact' /\ AllTranslate'
  <2>1. Text' = Text
    BY <1>2 DEF Text
  <2> QED BY <1>0, <1>2, <2>1, Zenon DEF OutputExact, AllTranslate
<1>3. CASE BeginGeneration
  <2>1. Init /\ step = "passes" /\ UNCHANGED <<vars, project>> /\ decls \in Seq(DeclNodes)
    BY <1>0, <1>3 DEF BeginGeneration, ControlInv, MergeInv
  <2>2. UNCHANGED <<decls, options, k, busy, work, classes, enums, functions, unit_cls, function, printed>>
    BY <2>1 DEF vars, file_
  <2>3. k = 1 /\ ~busy /\ work = <<>> /\ classes = <<>> /\ functions = <<>> /\ enums = <<>> /\ unit_cls = None /\ function = 0
    BY <2>1 DEF Init
  <2>4. Upto = <<>>
    <3>1. SubSeq(decls, 1, 0) = <<>>
      BY <2>1, LenProperties, UptoFacts
    <3> QED BY <2>3, <3>1 DEF Upto
  <2>5. FileState(options, Upto, work, classes, enums, functions, unit_cls)
    BY <2>3, <2>4, FileEnds
  <2>6. Shape(work) /\ k <= Len(decls) + 1
    <3>1. Len(<<>>) = 0 /\ 0 \in 0..0 /\ 1..0 = {} /\ (0+1)..0 = {}
      OBVIOUS
    <3>2. Inner(<<>>)
      BY <3>1 DEF Inner
    <3> QED BY <2>1, <2>3, <3>2, LenProperties DEF Shape
  <2>9. UnitsSound(options, Upto, work)
    BY <2>4, FileEnds, EmptySeq DEF UnitsSound
  <2>7. FileInv
    BY <2>3, <2>5, <2>6, <2>9, Zenon DEF FileInv
  <2>8. FileInv'
    BY <2>2, <2>7, Zenon DEF FileInv, Upto
  <2> QED BY <1>2, <2>1, <2>2, <2>8 DEF OutputInv
<1>4. CASE UNCHANGED allVars
  <2>1. UNCHANGED <<step, decls, options, k, busy, work, classes, enums, functions, unit_cls, function, printed, project>>
    BY <1>4 DEF allVars, vars, file_, front
  <2>2. FileInv => FileInv'
    BY <2>1, Zenon DEF FileInv, Upto
  <2> QED BY <1>2, <2>1, <2>2 DEF OutputInv
<1>5. ASSUME UNCHANGED <<printed, classes, enums, functions, options, project>>, step' # "generate" PROVE OutputInv'
  BY <1>2, <1>5 DEF OutputInv
<1> QED
  BY <1>1, <1>3, <1>4, <1>5, Zenon
  DEF Next, OpenMain, OpenMainFails, ParseMain, ParseMainFails, OpenInclude, OpenIncludeFails,
      ParseIncluded, ParseIncludedFails, BeginPasses, RunPass, PassFails, GenerateThrows,
      Complete, Ended, Ends, vars, file_

\* What is printed is so in every state.
LEMMA OutputInvCorrect == Spec => []OutputInv
<1>1. CompilerInit => OutputInv
  BY Zenon DEF CompilerInit, Init, OutputInv, OutputExact, AllTranslate
<1> QED BY InvariantCorrect, OutputNext, <1>1, PTL DEF Spec

\* Whatever the files and the options, and however deep the switches, the
\* file that is printed has the classes of exactly the units that are to be
\* generated, each with its members, the enums and the functions of the
\* text, in its order (CodeGenerator::run, File::insertClass, unit_cls_).
THEOREM OutputCorrect == Spec => []OutputExact
<1>1. OutputInv => OutputExact
  BY DEF OutputInv
<1> QED BY OutputInvCorrect, <1>1, PTL

\* However many files there are, whatever they include and whatever the
\* options, a file is printed exactly when the process ends with 0, and only
\* if all files were there and parsed, all passes accepted all of the
\* declarations of the text, and every type and expression of the units that
\* are generated had a translation (Compiler::run, executePasses,
\* Translator::type, Translator::expression).
THEOREM ExitCorrect == Spec => []ExitTells
<1>1. CompilerInv /\ OutputInv => ExitTells
  BY Zenon DEF CompilerInv, OutputInv, EndInv, AllTranslate, ExitTells
<1> QED BY InvariantCorrect, OutputInvCorrect, <1>1, PTL
================================================================================
