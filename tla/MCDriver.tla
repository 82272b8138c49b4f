------------------------------ MODULE MCDriver ------------------------------
(* A working directory with two programs, one without extension, and tests  *)
(* of the same name in two directories.                                     *)
EXTENDS Driver

AllWords == {"default", "tests/py4", "test", "--emit-c", "--tree", "--compile", "--release", "-o", "--opt-level",
             "--backend", "empty", "2", "main.p4", "prog", "lib/main.p4", "lib", "out", "lost_test.p4"}

MCPathOf ==
  [w \in AllWords |->
     CASE w = "default"      -> <<"examples", "transpiler_example0", ".p4">>
       [] w = "tests/py4"    -> <<"tests/py4", "", "">>
       [] w = "lib"          -> <<"lib", "", "">>
       [] w = "main.p4"      -> <<"", "main", ".p4">>
       [] w = "lib/main.p4"  -> <<"lib", "main", ".p4">>
       [] w = "lost_test.p4" -> <<"", "lost_test", ".p4">>
       [] OTHER              -> <<"", w, "">>]

MCSorted == <<<<"", "main", ".p4">>, <<"", "prog", "">>, <<"lib", "main", ".p4">>,
              <<"tests/py4", "a_test", ".p4">>, <<"tests/py4/sub", "a_test", ".p4">>,
              <<"tests/py4/sub", "b_test", ".p4">>>>

MCBelow == [d \in {"tests/py4", "lib"} |-> IF d = "lib" THEN {d} ELSE {d, "tests/py4/sub"}]

Given == {"--emit-c", "--tree", "--compile", "--release", "-o", "--opt-level", "--backend", "empty", "2",
          "main.p4", "prog", "lib/main.p4", "out"}

MCCommandLines ==
  {<< >>} \cup {<<a>> : a \in Given} \cup {<<a, b>> : a, b \in Given}
  \cup {<<a, b, c>> : a, b, c \in Given}
  \cup {<<"-o", a, b, c>> : a \in {"out", "main.p4"}, b, c \in {"--emit-c", "--tree", "prog", "lib/main.p4"}}
  \cup {<<"test">>, <<"test", "lib">>, <<"test", "main.p4">>, <<"test", "lost_test.p4">>, <<"test", "out">>}
=============================================================================
