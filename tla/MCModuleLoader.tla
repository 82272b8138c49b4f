--------------------------- MODULE MCModuleLoader ---------------------------
(* A program of three files: stdlib/main.p4, the entry given by that path,   *)
(* and two modules ./a.p4 and ./b.p4 that import it, each other and          *)
(* themselves.  In a.p4 "import main" ends at the path stdlib/main.p4 and    *)
(* "import stdlib.main" at ./stdlib/main.p4, another spelling of the entry.  *)
EXTENDS ModuleLoader, TLC

CONSTANTS main, dotmain, a, b, f, g

Def(op, sym)          == [op |-> op, sym |-> sym]
Whole(p)              == [op |-> "import", of |-> p]
Part(p, sym, renamed) == [op |-> "from", of |-> p, sym |-> sym, alias |-> renamed]

MCPath   == {main, dotmain, a, b}
MCFileOf == [p \in MCPath |-> IF p = dotmain THEN main ELSE p]
MCSymbol == {f, g}

OfMain == {Def("function", f), Whole(a), Whole(b), Part(a, f, FALSE), Part(b, g, FALSE)}
MCStatements ==
  main :> OfMain @@ dotmain :> OfMain
  @@ a :> {Def("function", f), Def("value", f), Whole(b), Whole(main), Whole(dotmain), Part(b, f, FALSE)}
  @@ b :> {Def("function", f), Def("function", g), Def("enum", g), Whole(a), Part(a, f, TRUE)}
MCMaxBody == main :> 3 @@ dotmain :> 3 @@ a :> 2 @@ b :> 2
=============================================================================
