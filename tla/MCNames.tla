------------------------------ MODULE MCNames ------------------------------
(* Programs of a main module and a module v, by what they put to the test.  *)
EXTENDS Names

CONSTANTS main, v, x, y, u, f, g, run

Param(n, t) == <<[name |-> n, type |-> t]>>
Typed(m, n, t)    == [op |-> "typed", module |-> m, name |-> n, type |-> t]
Inferred(m, n, t) == [op |-> "inferred", module |-> m, name |-> n, type |-> t]
Fun(m, n, params) == [op |-> "function", module |-> m, name |-> n, params |-> params, nested |-> << >>]
RunIn(m, nested)  == [op |-> "function", module |-> m, name |-> run, params |-> << >>, nested |-> nested]
Inside(n, params) == [name |-> n, params |-> params]
Whole             == [local |-> v, module |-> v, symbol |-> NULL]
From(n, as)       == [local |-> as, module |-> v, symbol |-> n]

Program(root, unemitted, imports, words, bound) ==
  [root |-> root,
   globals |-> SelectSeq(root, LAMBDA i : i.op # "function") \o unemitted,
   imports |-> main :> imports @@ v :> << >>,
   run |-> CHOOSE i \in DOMAIN root : root[i].name = run,
   words |-> words, bound |-> bound]

\* Two nested functions; the second has a parameter and the name of a
\* top-level function.
Closures(bound) ==
  Program(<<Fun(main, g, << >>), RunIn(main, <<Inside(f, << >>), Inside(g, Param(y, "int"))>>)>>,
          << >>, << >>, {x, y}, bound)

\* A global before, and one after the function.
Globals(bound) ==
  Program(<<Typed(main, x, "float"), RunIn(main, <<Inside(f, << >>)>>), Inferred(main, y, "int")>>,
          << >>, << >>, {x, y}, bound)

\* import v, before and after the function.
ImportWhole(bound) ==
  {Program(<<Typed(v, x, "int"), Typed(v, u, "int"), Fun(v, f, Param(x, "float")), Inferred(main, y, "int"),
             RunIn(main, << >>)>>, << >>, <<Whole>>, {x, y, u}, bound),
   Program(<<RunIn(main, << >>), Inferred(v, x, "int"), Typed(v, u, "int"), Fun(v, u, << >>),
             Inferred(main, y, "int")>>, << >>, <<Whole>>, {x, y, u}, bound)}

\* from v import y, where v has an x that is not copied.
ImportFrom(bound) ==
  {Program(<<RunIn(main, << >>), Typed(v, y, "int")>>, <<Typed(v, x, "int")>>, <<From(y, y)>>, {x, y}, bound),
   Program(<<Typed(v, y, "int"), Inferred(main, x, "float"), RunIn(main, << >>)>>,
           <<Typed(v, x, "int")>>, <<From(y, y)>>, {x, y}, bound),
   Program(<<RunIn(main, << >>), Typed(v, u, "int")>>, << >>, <<From(u, u)>>, {u}, bound)}

\* Overloads: own, imported, and imported under another name.
Overloads(bound) ==
  {Program(<<Fun(main, f, Param(x, "float")), Fun(main, f, Param(x, "int")), Fun(main, f, << >>),
             Fun(v, f, Param(x, "int")), RunIn(main, <<Inside(g, << >>), Inside(f, Param(x, "int"))>>)>>,
           << >>, <<Whole>>, {x}, bound),
   Program(<<Fun(v, f, Param(x, "int")), Fun(v, f, Param(x, "float")), Fun(main, f, Param(x, "float")),
             RunIn(main, << >>)>>, << >>, <<From(f, f)>>, {x}, bound),
   Program(<<Fun(v, f, Param(x, "int")), Fun(v, g, Param(x, "int")), RunIn(main, << >>)>>,
           << >>, <<From(f, g)>>, {x}, bound)}

\* The function is in v and main imports only it: its globals are not copied.
FromInside(bound) ==
  Program(<<RunIn(v, << >>)>>, <<Typed(v, x, "int")>>, <<From(run, run)>>, {x, y}, bound)

\* Globals of one name in both modules.
Homonyms(bound) ==
  {Program(<<Typed(v, x, "int"), Inferred(main, x, t), RunIn(main, << >>)>>, << >>, <<Whole>>, {x}, bound) : t \in Type}
  \cup {Program(<<Typed(v, x, "int"), Typed(main, x, t), RunIn(main, << >>)>>, << >>, <<Whole>>, {x}, bound) : t \in Type}

\* Refused before any body is checked.
Refused ==
  {Program(<<Fun(v, f, << >>), Fun(v, f, << >>), RunIn(main, << >>)>>, << >>, << >>, {}, 0),
   Program(<<RunIn(main, <<Inside(f, << >>), Inside(f, << >>)>>)>>, << >>, << >>, {}, 0),
   Program(<<Typed(main, x, "int"), Inferred(main, x, "int"), RunIn(main, << >>)>>, << >>, << >>, {}, 0),
   Program(<<RunIn(main, << >>)>>, << >>, <<From(f, f), From(g, f)>>, {}, 0)}

MCPrograms ==
  {Closures(5), Globals(4), FromInside(3)} \cup ImportWhole(3) \cup ImportFrom(3) \cup Overloads(3)
  \cup Homonyms(3) \cup Refused
MCName == {x, y, u, f, g, run}
=============================================================================
