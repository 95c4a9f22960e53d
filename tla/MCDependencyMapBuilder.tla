------------------------ MODULE MCDependencyMapBuilder -------------------------
(***************************************************************************)
(* Units for DependencyMapBuilder of one variable, whose &parse calls a    *)
(* method with an argument.                                                *)
(***************************************************************************)
EXTENDS DependencyMapBuilder

Leaves == {Num(1), SelfDot("a"), DollarDollar, Op("Index", <<SelfDot("l"), SelfDot("a")>>)}

\* Arguments of a method call.
Calls == {<<VariableItem("w", <<Attribute("parse", Op("MethodCall",
             <<SelfDot("a"), Member("f"), Tuple(<<e>>)>>))>>)>> : e \in Leaves}
================================================================================
