----------------------------- MODULE MCRecords -----------------------------
(* Three classes, declared in the order A, B, C, in three families: every  *)
(* graph of bases with clashing fields and methods, every graph of struct  *)
(* members, and the programs that use json.                                *)
EXTENDS Records

MCPrivate == {"__p"}
Names == {"A", "B", "C"}
IntType == [kind |-> "int", name |-> "", of |-> <<>>]
CharType == [kind |-> "char", name |-> "", of |-> <<>>]
Of(k, parts) == [kind |-> k, name |-> "", of |-> parts]
Field(n, t) == [name |-> n, type |-> t]
(* The types written inside a type, itself included.  Three levels is what *)
(* the programs nest.                                                      *)
Inside(t) ==
  LET Parts(S) == S \cup UNION {ToSet(u.of) : u \in S} IN Parts(Parts({t}))
NoBases == [c \in Names |-> NoClass]
NoMethods == [c \in Names |-> <<>>]
Text(classes, enums, base, own, defs, asked, json) ==
  [classes |-> classes, enums |-> enums, base |-> base, fields |-> own,
   methods |-> defs, asked |-> asked, json |-> json,
   types |-> {ClassType(classes[i]) : i \in 1 .. Len(classes)}
               \cup UNION {Inside(f.type) : f \in UNION {ToSet(own[c]) : c \in Names}}]
ABC == <<"A", "B", "C">>

NameClashes ==
  {Text(p[1], p[2], NoBases, NoMethods, NoMethods, NoClass, FALSE) :
     p \in {<<ABC, <<"D">>>>, <<ABC, <<"B">>>>, <<ABC, <<"D", "D">>>>,
            <<<<"A", "B", "C", "A">>, <<>>>>}}

(* Fields x, y, m and methods m, __p: a field can clash with a field, a    *)
(* method or an inherited method, and a method can be overridden.          *)
OwnFields(names) == {<<>>} \cup {<<Field(n, IntType)>> : n \in names}
Inheritance(links) ==
  {Text(ABC, <<>>, [A |-> l[1], B |-> l[2], C |-> l[3]],
        [A |-> f[1], B |-> f[2], C |-> f[3]], [A |-> m[1], B |-> m[2], C |-> m[3]],
        NoClass, FALSE) :
     l \in links,
     f \in OwnFields({"x", "m"}) \X OwnFields({"y", "m"}) \X OwnFields({"x"}),
     m \in {<<>>, <<"m">>, <<"__p", "m">>} \X {<<>>, <<"m">>, <<"__p">>} \X {<<>>, <<"m">>}}
Links == {NoClass, "A", "B", "C"} \X {NoClass, "A", "C"} \X {NoClass, "A", "B"}

(* Every way in which three classes hold one another.                      *)
Fresh == [A |-> "a", B |-> "b", C |-> "c"]
OneField(type) == [c \in Names |-> <<Field(Fresh[c], type[c])>>]
Members(kinds, names) ==
  {IntType} \cup {ClassType(c) : c \in names}
    \cup {Of(k, IF k = "tuple" THEN <<IntType, ClassType(c)>> ELSE <<ClassType(c)>>) :
            k \in kinds, c \in names}
Structs(bases) ==
  {Text(ABC, <<>>, base, OneField([A |-> a, B |-> b, C |-> c]), NoMethods, NoClass, FALSE) :
     base \in bases, a \in Members({"list", "opt", "tuple"}, {"B", "C"}),
     b \in Members({"list", "opt", "tuple"}, Names), c \in Members({"opt"}, {"A", "B"})}
Bases == {NoBases, [NoBases EXCEPT !["B"] = "A"], [NoBases EXCEPT !["A"] = "C"],
          [NoBases EXCEPT !["B"] = "A", !["C"] = "B"]}

(* Only programs whose classes do not reach themselves through a container.*)
Json(bases) ==
  {Text(ABC, <<>>, base, OneField([A |-> a, B |-> b, C |-> c]), NoMethods, asked, TRUE) :
     base \in bases,
     a \in {CharType} \cup Members({"list", "dict", "intdict", "tuple"}, {"B", "C"}),
     b \in {IntType, CharType, ClassType("C"), Of("list", <<Of("opt", <<ClassType("C")>>)>>)},
     c \in {IntType, CharType}, asked \in {NoClass, "A", "B"}}

MCProgram ==
  NameClashes \cup Inheritance(Links) \cup Structs(Bases)
    \cup Json({NoBases, [NoBases EXCEPT !["A"] = "B"]})

(* A class that holds a list of its own kind, as trees do.                 *)
Trees ==
  {Text(ABC, <<>>, NoBases, OneField([A |-> a, B |-> IntType, C |-> IntType]), NoMethods,
        asked, TRUE) :
     asked \in {NoClass, "A"},
     a \in {IntType, Of("list", <<ClassType("A")>>)}}
=============================================================================
