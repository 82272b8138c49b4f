---------------------------- MODULE MCTypeTables ----------------------------
(* Programs of a main module and of modules it imports, by what the names   *)
(* of their declarations put to the test.                                   *)
EXTENDS TypeTables, TLC

Decl(kind, m, n) == [kind |-> kind, module |-> m, name |-> n]
Whole(m)    == [into |-> "main", local |-> m, from |-> m, symbol |-> NULL]
From(m, n)  == [into |-> "main", local |-> n, from |-> m, symbol |-> n]
Write(q, n) == [module |-> "main", qualifier |-> q, name |-> n]
Bare(ns)    == {Write(NULL, n) : n \in ns}

Bounded(decls, imports, writes, words, forms, bound) ==
  [decls |-> decls, imports |-> imports, private |-> {"_P"}, writes |-> writes, words |-> words,
   letters |-> "Long" :> 62, forms |-> forms, steps |-> bound]
Forms == {"list", "dict", "tuple", "union"}
Program(decls, imports, writes, words) == Bounded(decls, imports, writes, words, Forms, 5)

\* Primitive types alone, and with one class of two words.
Primitives == Program(<< >>, {}, Bare({"int", "float", "str", "None"}), << >>)
Nested     == Bounded(<< >>, {}, Bare({"int", "None"}), << >>, Forms, 7)
Unions     == Bounded(<< >>, {}, Bare({"int", "float", "bool"}), << >>, {"union"}, 7)
TwoWords ==
  Program(<<Decl("class", "main", "list_int"), Decl("enum", "main", "E")>>, {},
          Bare({"int", "None", "list_int", "E"}), "list_int" :> <<"list", "int">>)

\* A class named by a word of the composed names, and one with a long name.
Optionals ==
  Bounded(<<Decl("class", "main", "optional")>>, {}, Bare({"optional", "None"}), << >>,
          {"tuple", "union"}, 10)
LongNames == Program(<<Decl("class", "main", "Long")>>, {}, Bare({"Long", "int"}), << >>)

\* A native type, a class of the same name in main, and another class.
Values2 ==
  {Program(<<Decl("native", "json", "Value")>> \o own, {Whole("json")},
           {Write("json", "Value")} \cup Bare({"int", "Value", "None"}), << >>) :
     own \in {<< >>, <<Decl("class", "main", "C")>>, <<Decl("class", "main", "Value")>>}}

\* Imported classes: whole, by name, private, and one that is not imported.
Imported ==
  {Program(<<Decl("class", "m", "C"), Decl("class", "m", "_P"), Decl("enum", "main", "E")>>, i,
           {Write("m", "C"), Write("m", "_P"), Write("m", "E")} \cup Bare({"C", "_P", "E"}), << >>) :
     i \in {{Whole("m")}, {From("m", "C"), From("m", "_P")}, {}}}

\* Names taken twice, a native type the runtime does not have, and too many
\* classes.
Taken ==
  {Program(ds, {}, Bare({"C", "int"}), << >>) :
     ds \in {<<Decl("class", "main", "C"), Decl("enum", "m", "C")>>,
             <<Decl("enum", "main", "C"), Decl("enum", "m", "C")>>,
             <<Decl("native", "io", "File"), Decl("native", "io", "File")>>,
             <<Decl("native", "io", "File"), Decl("native", "json", "File")>>,
             <<Decl("class", "main", "A"), Decl("class", "main", "B"), Decl("class", "main", "C")>>}}

MCPrograms ==
  {Primitives, Nested, Unions, TwoWords, Optionals, LongNames} \cup Values2 \cup Imported \cup Taken
=============================================================================
