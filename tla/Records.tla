------------------------------ MODULE Records ------------------------------
(***************************************************************************)
(* Class declarations, from the registration of their names to the order   *)
(* in which their C structs are written (semantic_types.c,                 *)
(* semantic_analysis.c, semantic_resolve.c, codegen_types.c).              *)
(*                                                                         *)
(* The compiler walks graphs that the program draws: a class and its base, *)
(* a type and the types it is made of.  It does so by recursive functions, *)
(* here one step per call, with the calls that have not returned yet on    *)
(* stack.  A frame holds what the call is about and how many of its        *)
(* children it has looked at.                                              *)
(*                                                                         *)
(* prog is the program text, chosen once.  Its types are terms: a kind, a  *)
(* class name for the kind "class", and the sequence of their components;  *)
(* types is the set of all the types that it mentions.                     *)
(* The widths of the type tables, union types and the checks of self and   *)
(* of the result of __init__ are left out.                                 *)
(***************************************************************************)
EXTENDS Naturals, FiniteSets, Sequences, SequencesExt

CONSTANTS
  Program,     \* the program texts
  Private,     \* the member names that start with two underscores
  NoClass,     \* the base of a class that declares none
  MaxFields    \* MAX_CLASS_FIELDS

ClassType(c) == [kind |-> "class", name |-> c, of |-> <<>>]

ASSUME ProgramAssumption ==
  /\ MaxFields \in Nat
  /\ \A p \in Program :
       /\ DOMAIN p = {"enums", "classes", "base", "fields", "methods", "types", "asked", "json"}
       /\ p.enums \in Seq(ToSet(p.enums)) /\ p.classes \in Seq(DOMAIN p.base)
       /\ ToSet(p.classes) = DOMAIN p.base /\ NoClass \notin DOMAIN p.base
       /\ DOMAIN p.fields = DOMAIN p.base /\ DOMAIN p.methods = DOMAIN p.base
       /\ \A c \in DOMAIN p.base :
            /\ p.base[c] \in DOMAIN p.base \cup {NoClass}
            /\ p.fields[c] \in Seq(ToSet(p.fields[c])) /\ p.methods[c] \in Seq(ToSet(p.methods[c]))
            /\ \A f \in ToSet(p.fields[c]) : f.type \in p.types
            /\ ClassType(c) \in p.types
       /\ IsFiniteSet(p.types)
       /\ \A t \in p.types : /\ t.of \in Seq(p.types)
                             /\ t.kind = "class" => \E c \in DOMAIN p.base : t = ClassType(c)
       /\ p.asked \in DOMAIN p.base \cup {NoClass}
       /\ p.json \in BOOLEAN

VARIABLES
  prog,        \* the program that is compiled
  phase,       \* the pass of the compiler
  stack,       \* the calls of the recursive function of the pass
  done,        \* fields_defined, done[] or emitted_...[] of the pass
  fields,      \* CLASS_TYPES[].field_names, field_types: [Class -> Seq]
  methods,     \* info->methods; a class has one of each name, so that the
               \* order of the list does not matter
  structs,     \* the struct definitions written so far
  encoders,    \* the classes that get a json encoder and decoder
  reason       \* the error that ended the compilation

vars == <<prog, phase, stack, done, fields, methods, structs, encoders, reason>>

Classes == ToSet(prog.classes)

(* The interned types.                                                     *)
Mentioned == prog.types

----------------------------------------------------------------------------
(* What each recursive function calls itself on.                           *)

BaseOf(c) == IF prog.base[c] = NoClass THEN <<>> ELSE <<prog.base[c]>>

Components(t) ==
  IF t.kind = "class" THEN [i \in 1 .. Len(fields[t.name]) |-> fields[t.name][i].type]
                      ELSE t.of

(* A list or a dict is a pointer in the struct that holds it.              *)
ByValue(t) == t.kind \in {"class", "tuple", "opt"}

ClassChildren(x) ==
  CASE phase \in {"fields", "inherit"} -> BaseOf(x)
    [] phase = "structs" /\ x.kind # "class" -> <<>>
    [] OTHER -> Components(x)

Children(x) == IF phase \in {"fields", "inherit"} THEN BaseOf(x) ELSE Components(x)

(* json: what a type that has no components answers by itself.             *)
Unsupported(t) == t.kind \in {"char", "enum", "intdict"}
Leaf(t) == t.kind \notin {"class", "tuple", "opt", "list", "dict"}

Refuse(why) ==
  /\ phase' = "refused" /\ reason' = why
  /\ stack' = <<>>
  /\ UNCHANGED <<prog, done, fields, methods, structs, encoders>>

GoTo(next) ==
  /\ phase' = next
  /\ stack' = <<>> /\ done' = {}
  /\ UNCHANGED <<prog, reason>>

----------------------------------------------------------------------------
(* collect_enums and collect_classes: names are registered in the order of *)
(* the program; a second declaration of a name is refused.                 *)
Collect ==
  /\ phase = "collect"
  /\ IF IsInjective(prog.enums \o prog.classes)
       THEN GoTo("fields") /\ UNCHANGED <<fields, methods, structs, encoders>>
       ELSE Refuse("name")

(* The loop of a pass calls its function on each class, or type, in order; *)
(* a call that has nothing to do returns at once.  Structs are written for *)
(* classes, then for tuples and optionals, each in the order in which they *)
(* have been interned, which may be any.                                   *)
Roots ==
  CASE phase \in {"fields", "inherit"} -> prog.classes
    [] phase = "call" /\ prog.asked # NoClass -> <<ClassType(prog.asked)>>
    [] phase = "structs" \/ (phase = "json" /\ prog.json) ->
         [i \in 1 .. Len(prog.classes) |-> ClassType(prog.classes[i])]
    [] OTHER -> <<>>

ToDo ==
  LET left == {i \in DOMAIN Roots : Roots[i] \notin done}
      Others(k) == {t \in Mentioned : phase = "structs" /\ t.kind = k /\ t \notin done}
  IN IF left # {} THEN {Roots[Min(left)]}
     ELSE IF Others("tuple") # {} THEN Others("tuple") ELSE Others("opt")

Frame(x) == [on |-> x, seen |-> 0]

StartCall ==
  /\ stack = <<>>
  /\ \E x \in ToDo : stack' = <<Frame(x)>>
  /\ UNCHANGED <<prog, phase, done, fields, methods, structs, encoders, reason>>

Top == Last(stack)
KeptVisiting == {stack[i].on : i \in 1 .. Len(stack)} \cup done
Visiting == {stack[i].on : i \in 1 .. Len(stack)}
Unseen == stack # <<>> /\ Top.seen < Len(Children(Top.on))
NextChild == Children(Top.on)[Top.seen + 1]

(* Nothing is done for a type that is not held by value, a list or a dict  *)
(* being a pointer.  The json functions keep no marks: they call           *)
(* themselves on every component that is not a leaf, whatever they have    *)
(* looked at before.                                                       *)
Marked == phase \in {"fields", "inherit", "structs"}
Returned(x) ==
  IF Marked THEN x \in done \/ (phase = "structs" /\ ~ByValue(x)) ELSE Leaf(x) /\ ~Unsupported(x)

CallChild ==
  /\ Unseen
  /\ IF Marked THEN NextChild \notin Visiting ELSE ~Unsupported(NextChild)
  /\ LET parent == [Top EXCEPT !.seen = @ + 1]
         rest == [stack EXCEPT ![Len(stack)] = parent]
     IN stack' = IF Returned(NextChild) THEN rest ELSE Append(rest, Frame(NextChild))
  /\ UNCHANGED <<prog, phase, done, fields, methods, structs, encoders, reason>>

(* defining_fields, visiting[]: a call that meets itself is an error.      *)
MeetItselfInBases ==
  /\ Marked /\ phase # "structs" /\ Unseen /\ NextChild \in Visiting
  /\ Refuse(IF NextChild = Top.on THEN "self" ELSE "cycle")

MeetItself ==
  /\ Marked /\ Unseen /\ NextChild \in Visiting
  /\ Refuse(IF phase = "structs" THEN "value"
            ELSE IF NextChild = Top.on THEN "self" ELSE "cycle")

Pop == stack' = Front(stack) /\ done' = done \cup {Top.on}

----------------------------------------------------------------------------
(* semantic_define_class_fields, after the base is done: the fields of the *)
(* base, then those of the class, each checked against all before it.      *)

Inherited(c) == IF prog.base[c] = NoClass THEN <<>> ELSE fields[prog.base[c]]
OwnFirst(c) == prog.fields[c] \o Inherited(c)
AllFields(c) == Inherited(c) \o prog.fields[c]

TooMany(c) == prog.fields[c] # <<>> /\ Len(AllFields(c)) > MaxFields

DefineFields ==
  /\ phase = "fields" /\ stack # <<>> /\ ~Unseen
  /\ LET c == Top.on
         names == [i \in 1 .. Len(AllFields(c)) |-> AllFields(c)[i].name]
     IN IF ~IsInjective(names) \/ TooMany(c)
          THEN Refuse("field")
          ELSE /\ fields' = [fields EXCEPT ![c] = AllFields(c)]
               /\ Pop
               /\ UNCHANGED <<prog, phase, methods, structs, encoders, reason>>

FieldNames(c) == {fields[c][i].name : i \in 1 .. Len(fields[c])}
MethodsOf(c) == {e \in methods : e.owner = c}
HasMethod(c, m) == \E e \in MethodsOf(c) : e.name = m

Method(c, source, m) == [owner |-> c, source |-> source, name |-> m]

(* collect_methods: the methods of one class.                              *)
CollectMethods ==
  /\ phase = "methods"
  /\ \E i \in 1 .. Len(prog.classes) :
       LET c == prog.classes[i]
           own == prog.methods[c]
       IN /\ c \notin done /\ \A j \in 1 .. i - 1 : prog.classes[j] \in done
          /\ IF ~IsInjective(own) \/ ToSet(own) \cap FieldNames(c) # {}
               THEN Refuse("method")
               ELSE /\ methods' = methods \cup {Method(c, c, m) : m \in ToSet(own)}
                    /\ done' = done \cup {c}
                    /\ UNCHANGED <<prog, phase, stack, fields, structs, encoders, reason>>

(* synthesize_class_methods_recursive, after the base is done: a wrapper   *)
(* for each method of the base, its own or a wrapper, that is not private  *)
(* and that the class does not declare.                                    *)
Wrapped(c) ==
  {e.name : e \in {e \in MethodsOf(prog.base[c]) : e.name \notin Private /\ ~HasMethod(c, e.name)}}

InheritMethods ==
  /\ phase = "inherit" /\ stack # <<>> /\ ~Unseen
  /\ LET c == Top.on
     IN IF Wrapped(c) \cap FieldNames(c) # {}
          THEN Refuse("inherited")
          ELSE /\ methods' = methods \cup {Method(c, prog.base[c], m) : m \in Wrapped(c)}
               /\ Pop
               /\ UNCHANGED <<prog, phase, fields, structs, encoders, reason>>

----------------------------------------------------------------------------
(* json.to_string(x) and json.from_string, x of the class prog.asked       *)
(* (json_from_string_type_supported), and, once the structs are written,   *)
(* the choice of the classes that get helpers (json_encode_type_supported, *)
(* json_decode_type_supported).  A component that is not supported ends    *)
(* every call of the stack with 0.                                         *)

Root == stack[1].on

AnswerNoToCaller ==
  /\ ~Marked /\ Unseen /\ Unsupported(NextChild)
  /\ stack' = Front(stack) /\ done' = done \cup {Top.on}
  /\ UNCHANGED <<prog, phase, fields, methods, structs, encoders, reason>>

AnswerNo ==
  /\ ~Marked /\ Unseen /\ Unsupported(NextChild)
  /\ IF phase = "call"
       THEN Refuse("json")
       ELSE /\ stack' = <<>> /\ done' = done \cup {Root}
            /\ UNCHANGED <<prog, phase, fields, methods, structs, encoders, reason>>

AnswerYes ==
  /\ ~Marked /\ stack # <<>> /\ ~Unseen
  /\ IF Len(stack) > 1
       THEN stack' = Front(stack) /\ UNCHANGED <<done, encoders>>
       ELSE /\ Pop
            /\ encoders' = IF phase = "json" THEN encoders \cup {Root.name} ELSE encoders
  /\ UNCHANGED <<prog, phase, fields, methods, structs, reason>>

(* emit_class_, emit_tuple_, emit_optional_definition_recursive, after     *)
(* everything that is held by value.                                       *)
WriteStruct ==
  /\ phase = "structs" /\ stack # <<>> /\ ~Unseen
  /\ structs' = Append(structs, Top.on)
  /\ Pop
  /\ UNCHANGED <<prog, phase, fields, methods, encoders, reason>>

PassAfter == [fields |-> "methods", methods |-> "inherit", inherit |-> "call",
              call |-> "structs", structs |-> "json", json |-> "done"]

EndPass ==
  /\ phase \in DOMAIN PassAfter /\ stack = <<>>
  /\ IF phase = "methods" THEN Classes \subseteq done ELSE ToDo = {}
  /\ GoTo(PassAfter[phase])
  /\ UNCHANGED <<fields, methods, structs, encoders>>

Init ==
  /\ prog \in Program
  /\ phase = "collect" /\ stack = <<>> /\ done = {}
  /\ fields = [c \in ToSet(prog.classes) |-> <<>>]
  /\ methods = {} /\ structs = <<>> /\ encoders = {}
  /\ reason = "none"

Next ==
  \/ Collect \/ StartCall \/ CallChild \/ MeetItself \/ EndPass
  \/ DefineFields \/ CollectMethods \/ InheritMethods
  \/ AnswerNo \/ AnswerYes \/ WriteStruct

Spec == Init /\ [][Next]_vars /\ WF_vars(Next)
----------------------------------------------------------------------------
(* What a program says, read without the compiler.                         *)

(* The elements that can be reached from x by at least one step of next.   *)
Reached(x, next) ==
  LET R[n \in 0 .. Cardinality(DOMAIN next)] ==
        IF n = 0 THEN next[x] ELSE R[n - 1] \cup UNION {next[y] : y \in R[n - 1]}
  IN R[Cardinality(DOMAIN next)]

Above(c) == Reached(c, [d \in Classes |-> ToSet(BaseOf(d))])
Lineage(c) == {c} \cup Above(c)
Declared(c) == UNION {{<<d, i>> : i \in 1 .. Len(prog.fields[d])} : d \in Lineage(c)}
FieldAt(p) == prog.fields[p[1]][p[2]]
FieldsNamed(c) == {FieldAt(p).name : p \in Declared(c)}
Declares(c, m) == m \in ToSet(prog.methods[c])

PartsOf(t) == IF t.kind = "class" THEN {FieldAt(p).type : p \in Declared(t.name)}
                                  ELSE ToSet(t.of)
HeldBy(t) == IF ByValue(t) THEN {u \in PartsOf(t) : ByValue(u)} ELSE {}
Held(t) == Reached(t, [u \in Mentioned |-> HeldBy(u)])
MadeOf(t) == IF Leaf(t) THEN {} ELSE PartsOf(t)
Everything(t) == Reached(t, [u \in Mentioned |-> MadeOf(u)])
Encodable(c) == \A t \in Everything(ClassType(c)) : ~Unsupported(t)

Defect(why) ==
  CASE why = "name" -> ~IsInjective(prog.enums \o prog.classes)
    [] why = "self" -> \E c \in Classes : prog.base[c] = c
    [] why = "cycle" -> \E c \in Classes : c \in Above(c)
    [] why = "field" -> \E c \in Classes :
         \/ \E p, q \in Declared(c) : p # q /\ FieldAt(p).name = FieldAt(q).name
         \/ Cardinality(Declared(c)) > MaxFields
    [] why = "method" -> \E c \in Classes :
         \/ ~IsInjective(prog.methods[c])
         \/ \E m \in FieldsNamed(c) : Declares(c, m)
    [] why = "inherited" -> \E c \in Classes : \E m \in FieldsNamed(c) \ Private :
         \E d \in Above(c) : Declares(d, m)
    [] why = "value" -> \E t \in Mentioned : t \in Held(t)
    [] why = "json" -> prog.asked # NoClass /\ ~Encodable(prog.asked)

Reasons == {"name", "self", "cycle", "field", "method", "inherited", "value", "json"}

----------------------------------------------------------------------------

(* The declarations are refused for a defect they have, and accepted only  *)
(* if they have none: marks that are set too late, cleared too early or    *)
(* shared between two walks refuse a good program (a diamond of structs is *)
(* not a cycle) or accept one that C cannot lay out.                       *)
Verdict ==
  /\ phase = "refused" => Defect(reason)
  /\ phase = "done" => \A why \in Reasons : ~Defect(why)

(* The entry of a method in the list of a class, where the chain of        *)
(* wrappers that starts there ends, and the declarations in its reach.     *)
Entry(c, m) == CHOOSE e \in MethodsOf(c) : e.name = m
Sources(m) == [c \in Classes |-> IF HasMethod(c, m) THEN {Entry(c, m).source} ELSE {}]
Runs(c, m) ==
  CHOOSE d \in {c} \cup Reached(c, Sources(m)) : HasMethod(d, m) /\ Entry(d, m).source = d
Visible(c, m) == {d \in Lineage(c) : Declares(d, m) /\ (m \in Private => d = c)}

(* A method call c.m(), c of class C, runs the nearest declaration of m    *)
(* above C, through the chain of wrappers that the compiler made, whatever *)
(* the order in which the classes are declared; a private method only runs *)
(* on its own class; and every wrapper builds its base_self from the       *)
(* leading fields of its class, which are those of the base, in its order. *)
Dispatch ==
  phase \in {"call", "structs", "json", "done"} =>
    \A c \in Classes, m \in UNION {ToSet(prog.methods[d]) : d \in Classes} :
      /\ HasMethod(c, m) <=> Visible(c, m) # {}
      /\ HasMethod(c, m) =>
           /\ Runs(c, m) \in Visible(c, m)
           /\ Visible(c, m) \subseteq Lineage(Runs(c, m))
           /\ IsPrefix(fields[Entry(c, m).source], fields[c])

(* A struct is written after every struct it holds by value, and once; in  *)
(* the end all that the program mentions is written.  A C compiler accepts *)
(* no other order.                                                         *)
DefinedBeforeUse ==
  /\ IsInjective(structs)
  /\ \A i \in 1 .. Len(structs) :
       HeldBy(structs[i]) \subseteq {structs[j] : j \in 1 .. i - 1}
  /\ phase \in {"json", "done"} => ToSet(structs) = {t \in Mentioned : ByValue(t)}

(* The classes that get json helpers are those all of whose parts, at any  *)
(* depth and through every container, are supported: the helper of a class *)
(* calls those of its fields.                                              *)
EncodersExact ==
  phase = "done" => encoders = {c \in Classes : prog.json /\ Encodable(c)}

(* Every pass ends: the compilation is accepted or refused.                *)
Ends == <>(phase \in {"done", "refused"})

(* The check behind json.to_string ends on every class: since its answer   *)
(* depends on the type only, it never comes back to a type it is in the    *)
(* middle of.  The message of the check lists classes and lists among what *)
(* is supported (semantic_resolve.c:594), and a class that holds a list of *)
(* its own kind is a legal class.                                          *)
SupportCheckReturns == phase \in {"call", "json"} =>
  \A i, j \in 1 .. Len(stack) : stack[i].on = stack[j].on => i = j
=============================================================================
