---------------------------- MODULE MCExpressions ----------------------------
(* Statements over trees of up to three operations: every form over names   *)
(* and representative operations of each type, and some forms over those.   *)
EXTENDS Expressions

E(op, type, kids)  == [op |-> op, type |-> type, kids |-> kids, takes |-> << >>, resets |-> FALSE]
Var(name, type)    == [name |-> name] @@ E("var", type, << >>)
Call(type, args)   == [E("call", type, args) EXCEPT !.takes = [i \in DOMAIN args |-> args[i].type]]
Takes(e, types)    == [e EXCEPT !.takes = types]
Resetting(e)       == [e EXCEPT !.resets = TRUE]

x == Var(X, "ref")
g == Var(G, "ref")
b == Var(B, "box")
n == Var(<<"n">>, "nest")
d == Var(<<"d">>, "dict")
k == E("const", "int", << >>)
s == E("const", "str", << >>)

\* Operands of each type: names, borrowed parts, owned values, and values
\* with a prelude, some of which act.
Mk      == Call("ref", << >>)
Ints    == {k, Call("int", << >>), Resetting(Call("int", << >>)), Call("int", <<E("copy", "ref", <<g>>)>>),
            E("len", "int", <<Mk>>), E("len", "int", <<g>>)}
Strs    == {s, Call("str", << >>), E("str method", "str", <<Call("str", << >>)>>)}
Fresh1  == {Mk, E("copy", "ref", <<g>>), E("list", "ref", << >>), E("pop", "ref", <<n>>)}
Refs    == Fresh1 \cup {x, g, E("field", "ref", <<b>>), E("index", "ref", <<n, k>>), E("get", "ref", <<d>>)}
Nests   == {n, Call("nest", << >>), E("list", "nest", <<x>>), E("list", "nest", <<Mk>>)}
Dicts   == {d, Call("dict", << >>), E("dict", "dict", <<g>>)}
Boxes   == {b, Call("box", << >>), E("new", "box", <<x>>), E("tuple", "box", <<Mk>>), E("new", "box", <<E("field", "ref", <<b>>)>>)}

On(op, type, A)        == {E(op, type, <<a>>) : a \in A}
On2(op, type, A, C)    == {E(op, type, <<a, c>>) : a \in A, c \in C}
On3(op, type, A, C, D) == {E(op, type, <<a, c, e>>) : a \in A, c \in C, e \in D}

Few  == {k, Call("int", << >>), Call("int", <<E("copy", "ref", <<g>>)>>)}

IntForms ==
  {Call("int", <<a>>) : a \in Refs \cup Nests \cup Boxes} \cup {Resetting(Call("int", <<a>>)) : a \in Refs}
  \cup {Call("int", <<a, c>>) : a \in Refs, c \in Ints} \cup {Call("int", <<a, c>>) : a \in Ints, c \in {Mk, g}}
  \cup {Takes(E("module call", "int", <<a>>), <<t>>) : a \in Refs, t \in {"ref", "opt"}}
  \cup {Takes(E("class method", "int", <<a, c>>), <<"box", "ref">>) : a \in Boxes, c \in {g, Mk}}
  \cup {Takes(Call("int", <<a>>), <<"opt">>) : a \in {g, Mk}}
  \cup On2("and", "int", Ints, Ints) \cup On2("or", "int", Few, Few) \cup On2("sum", "int", Ints, Ints)
  \cup On3("chain", "int", Few, Few, Few) \cup On("not", "int", Ints) \cup On("len", "int", Refs \cup Nests \cup Dicts)
  \cup On2("in", "int", Ints, Dicts) \cup On2("index", "int", Refs, Ints)
RefForms ==
  On("copy", "ref", Refs) \cup On("pop", "ref", Nests \ {Call("nest", << >>)}) \cup On2("index", "ref", Nests, Ints)
  \cup On("field", "ref", Boxes) \cup On("get", "ref", Dicts) \cup On2("index", "ref", Dicts, Few)
  \cup On3("match", "ref", Few, {x, Mk, E("field", "ref", <<b>>)}, {g, Mk}) \cup {E("typed", "ref", <<s>>)}
  \cup {Call("ref", <<a>>) : a \in Refs}
BoxForms ==
  On("new", "box", Refs) \cup On("init", "box", Refs) \cup On("module init", "box", Refs) \cup On("tuple", "box", Refs)
  \cup {Call("box", <<a>>) : a \in {x, Mk}}
StrForms ==
  On("str method", "str", Strs) \cup On2("str method", "str", Strs, Strs) \cup On2("slice", "str", Strs, Few)
  \cup On3("slice", "str", Strs, Few, {k}) \cup On2("sum", "str", Strs, Strs)
  \cup On2("index", "str", Strs, Few)
NoneForms ==
  On2("append", "None", {x, g, E("field", "ref", <<b>>), Mk}, Ints) \cup On2("append", "None", Nests, Refs)
  \cup On2("list append", "None", Nests, Refs) \cup {Call("None", <<a>>) : a \in Refs}
  \cup {Takes(E("class method", "None", <<a>>), <<"box">>) : a \in Boxes}
  \cup {E(op, "None", <<a>>) : op \in {"super", "super init"}, a \in Refs}

\* Operations over the ones above.
Deep ==
  On2("sum", "int", IntForms, Few) \cup On2("and", "int", Few, IntForms) \cup On("len", "int", RefForms)
  \cup {Call("int", <<a, Call("int", << >>)>>) : a \in RefForms} \cup On("field", "ref", BoxForms)
  \cup On2("append", "None", {n}, RefForms) \cup On("new", "box", RefForms) \cup On("copy", "ref", RefForms)
  \cup On2("sum", "str", StrForms, Strs) \cup On2("str method", "str", Strs, StrForms)

St(op, kids) == E(op, "None", kids)
AllStatements ==
  {St("expression", <<e>>) : e \in IntForms \cup RefForms \cup BoxForms \cup StrForms \cup NoneForms \cup Deep}
  \cup {St(op, <<e>>) : op \in {"declare", "module declaration", "assign", "return"}, e \in RefForms \cup Refs}
  \cup {St("assign field", <<e>>) : e \in Refs}
  \cup {St("declare", <<e>>) : e \in BoxForms \cup Nests \cup Ints}
  \cup {St("print", <<e>>) : e \in Ints \cup Refs}
  \cup {St("set item", <<n, a, c>>) : a \in Few, c \in Refs \ On("pop", "ref", {n})}
  \cup {St("assert", <<a, c>>) : a \in Ints, c \in Strs}
  \cup {St("if", <<a, c>>) : a \in Ints, c \in Ints}
  \cup {St("match statement", <<a>>) : a \in Ints \ {k}}
  \cup {St(op, <<e>>) : op \in {"destructure", "destructure into"}, e \in Boxes}
  \cup {St("range", <<a, c>>) : a \in Ints, c \in Ints} \cup {St("with", <<e>>) : e \in Refs}
  \cup {St("for", <<e>>) : e \in (Refs \cup Nests) \ {Call("nest", << >>)}} \cup {Resetting(St("for", <<e>>)) : e \in Refs}
  \cup {St("while", <<a>>) : a \in Ints \cup On("not", "int", Ints)}
=============================================================================
