----------------------------- MODULE TypeTables -----------------------------
(***************************************************************************)
(* Types in the checker are numbers.  A primitive type is a bit, a list of *)
(* a primitive another bit, a union the bitwise or of its members; every   *)
(* other type is a place in one of seven tables, and two annotations mean  *)
(* the same type exactly when they are given the same number.              *)
(*                                                                         *)
(* A behaviour registers the declarations of a program and then parses     *)
(* type annotations.  An annotation is parsed from its leaves: each step   *)
(* makes one type of types already made, on a stack that stands for the    *)
(* recursion of the parser.  Beside its number, a type carries (as         *)
(* history) what it means, and the words of its two C names.               *)
(***************************************************************************)
EXTENDS Naturals, Sequences, FiniteSets, SequencesExt

CONSTANTS
  Programs,    (* declarations, imports, the names and the forms of type   *)
               (* it writes, and a bound on the steps of parsing           *)
  MaxTuple, MaxClass, MaxList, MaxNative, MaxOptional, MaxDict, MaxEnum,
               (* sizes of the tables                                      *)
  MaxElements, (* elements of a tuple                                      *)
  MaxName,     (* size of the buffer for the name of a tuple               *)
  NULL

ASSUME SizesAssumption ==
  /\ {MaxTuple, MaxClass, MaxList, MaxNative, MaxOptional, MaxDict, MaxEnum} \subseteq 1 .. 64
  /\ MaxElements \in 2 .. 8 /\ MaxName \in 1 .. 128

VARIABLES
  prog,      (* the program: declarations, imports, names it writes        *)
  waiting,   (* the declarations not registered yet                        *)
  natives, enums, classes,        (* tables of declarations                *)
  tuples, lists, options, dicts,  (* tables of types made of types         *)
  stack,     (* the types made and not used yet, of one annotation         *)
  named,     (* history: every type an annotation has named                *)
  steps,
  refusal    (* history: NULL, the meaning of what the checker refused, or *)
             (* NoRoom                                                     *)

declared == <<natives, enums, classes>>
tables   == <<tuples, lists, options, dicts>>
vars == <<prog, waiting, natives, enums, classes, tuples, lists, options, dicts, stack, named, steps, refusal>>

-----------------------------------------------------------------------------
(***************************************************************************)
(* Numbers.                                                                *)
(***************************************************************************)
Prim == [int |-> 1, float |-> 2, bool |-> 4, char |-> 8, str |-> 16, None |-> 32]
ListOfPrim(id) == 64 * id

TupleBase    == 65536
ClassBase    == TupleBase + MaxTuple
ListBase     == ClassBase + MaxClass
NativeBase   == ListBase + MaxList
OptionalBase == NativeBase + MaxNative
DictBase     == OptionalBase + MaxOptional
EnumBase     == DictBase + MaxDict

IsTuple(t)    == t \in TupleBase .. ClassBase - 1
IsClass(t)    == t \in ClassBase .. ListBase - 1
IsList(t)     == t \in {64, 128, 256, 512, 1024} \/ t \in ListBase .. NativeBase - 1
IsNative(t)   == t \in NativeBase .. OptionalBase - 1
IsOptional(t) == t \in OptionalBase .. DictBase - 1
IsDict(t)     == t \in DictBase .. EnumBase - 1
IsEnum(t)     == t \in EnumBase .. EnumBase + MaxEnum - 1
IsWhole(t)    == IsTuple(t) \/ IsClass(t) \/ IsList(t) \/ IsNative(t) \/ IsDict(t) \/ IsEnum(t)

Bits(t)  == {k \in 0 .. 17 : (t \div 2 ^ k) % 2 = 1}
Or(ts)   == FoldSet(LAMBDA k, sum : sum + 2 ^ k, 0, UNION {Bits(t) : t \in ts})

\* Only primitive bits count: a number above the mask is never a union.
IsUnion(t) == ~IsWhole(t) /\ ~IsOptional(t) /\ t < 4096 /\ Cardinality(Bits(t)) > 1

HasMember(t, member) ==
  IF IsOptional(t) THEN member = Prim.None \/ member = options[t - OptionalBase + 1]
  ELSE IF IsWhole(t) \/ IsWhole(member) THEN t = member
  ELSE member # 0 /\ Bits(member) \subseteq Bits(t)

\* Variant with a fault: the search stops before the last entry.
PlaceShort(table, entry) ==
  IF \E k \in 1 .. Len(table) - 1 : table[k] = entry
  THEN CHOOSE k \in DOMAIN table : table[k] = entry ELSE Len(table) + 1

\* The make functions search their table, and append what they do not find.
Place(table, entry) ==
  IF entry \in Range(table) THEN CHOOSE k \in DOMAIN table : table[k] = entry ELSE Len(table) + 1
Extended(table, entry) == IF Place(table, entry) > Len(table) THEN Append(table, entry) ELSE table

-----------------------------------------------------------------------------
(***************************************************************************)
(* Meanings, and the rules of the language, without numbers.               *)
(***************************************************************************)
Illegal  == <<"illegal">>
NoRoom   == <<"no room">>
None     == <<"prim", "None">>
IsU(m)  == m[1] = "union"
Keys     == {<<"prim", k>> : k \in {"int", "bool", "char", "str"}}

MeansList(m)    == IF IsU(m) \/ m \in {None, Illegal} THEN Illegal ELSE <<"list", m>>
MeansDict(k, m) == IF (k \in Keys \/ (k[1] = "decl" /\ k[2] = "enum")) /\ MeansList(m) # Illegal
                   THEN <<"dict", k, m>> ELSE Illegal
MeansTuple(ms)  == IF /\ Len(ms) <= MaxElements
                      /\ \A k \in DOMAIN ms : MeansList(ms[k]) # Illegal
                   THEN <<"tuple", ms>> ELSE Illegal

\* T | None for one type T that is not None, or distinct primitive types.
MeansUnion(ms) ==
  LET all == Range(ms) IN
  IF Illegal \in all \/ Cardinality(all) < Len(ms) THEN Illegal
  ELSE IF Len(ms) = 2 /\ None \in all
  THEN <<"optional", CHOOSE m \in all : m # None>>
  ELSE IF \A m \in all : m[1] = "prim" THEN <<"union", all>> ELSE Illegal

Declares(module, n) == {d \in Range(prog.decls) : d.module = module /\ d.name = n}
Imports(module)     == {i \in prog.imports : i.into = module}
WholeImport(module, local) == {i \in Imports(module) : i.local = local /\ i.symbol = NULL}
FromImport(module, local)  == {i \in Imports(module) : i.local = local /\ i.symbol # NULL}
Meaning(d) == <<"decl", d.kind, d.module, d.name>>

\* The declaration a name stands for: its module's own, or the imported one.
Meant(w) ==
  LET homes == IF w.qualifier = NULL
               THEN IF Declares(w.module, w.name) # {} THEN {w.module}
                    ELSE {i.from : i \in {j \in FromImport(w.module, w.name) : j.symbol = w.name}}
               ELSE {i.from : i \in WholeImport(w.module, w.qualifier)}
      found == UNION {Declares(h, w.name) : h \in homes}
      seen  == IF w.module \in homes THEN found
               ELSE {d \in found : /\ d.name \notin prog.private
                                   /\ w.qualifier = NULL => d.kind # "native"}
  IN IF w.name \in DOMAIN Prim THEN <<"prim", w.name>>
     ELSE IF Cardinality(seen) = 1 THEN Meaning(CHOOSE d \in seen : TRUE) ELSE Illegal

\* A program's declarations are legal if no name is taken twice, and every
\* native type is one the runtime has; they fit if no table overflows.
Supported == {<<"io", "File">>, <<"json", "Value">>}
Conflict(d, e) == /\ d.name = e.name /\ (d.kind = "native" <=> e.kind = "native")
                  /\ d.kind = "native" => d.module = e.module
Legal(ds) ==
  /\ \A j, k \in DOMAIN ds : Conflict(ds[j], ds[k]) => j = k
  /\ \A d \in Range(ds) : /\ d.name \notin DOMAIN Prim
                          /\ d.kind = "native" => <<d.module, d.name>> \in Supported
Fits(ds) ==
  LET OfKind(k) == {j \in DOMAIN ds : ds[j].kind = k}
  IN /\ Cardinality(OfKind("native")) <= MaxNative
     /\ Cardinality(OfKind("enum")) <= MaxEnum /\ Cardinality(OfKind("class")) <= MaxClass

\* Some other module declares a class or an enum of that name.
Clash(w) == \E d \in Range(prog.decls) : d.name = w.name /\ d.kind # "native" /\ Meaning(d) # Meant(w)
-----------------------------------------------------------------------------
(***************************************************************************)
(* The registration of declarations: natives, then enums, then classes.    *)
(***************************************************************************)
Init ==
  /\ prog \in Programs
  /\ waiting = prog.decls
  /\ natives = << >> /\ enums = << >> /\ classes = << >>
  /\ tuples = << >> /\ lists = << >> /\ options = << >> /\ dicts = << >>
  /\ stack = << >> /\ named = {} /\ steps = 0 /\ refusal = NULL

Names(table)     == {d.name : d \in Range(table)}
Kind(k)          == SelectSeq(waiting, LAMBDA d : d.kind = k)
Done(d)          == waiting' = RemoveFirst(waiting, d)
Stop(means)      == refusal' = means

\* The first declaration of kind k is entered; it is refused when its name
\* is taken or the table is full.
Enters(k, table, max, taken) ==
  /\ refusal = NULL /\ Kind(k) # << >>
  /\ Head(Kind(k)).name \notin taken \cup DOMAIN Prim /\ Len(table) < max
  /\ Done(Head(Kind(k)))
  /\ UNCHANGED <<prog, tables, stack, named, steps, refusal>>

Rejects(k, table, max, taken) ==
  /\ refusal = NULL /\ Kind(k) # << >>
  /\ Head(Kind(k)).name \in taken \cup DOMAIN Prim \/ Len(table) = max
  /\ Stop(IF ~Legal(prog.decls) THEN Illegal ELSE IF ~Fits(prog.decls) THEN NoRoom ELSE <<"legal">>)
  /\ UNCHANGED <<prog, waiting, declared, tables, stack, named, steps>>

\* Natives come first: the test for an enum of that name finds none.  A native
\* type that the runtime does not have is refused too.
TakenByNatives == {d.name : d \in {e \in Range(natives) : e.module = Head(Kind("native")).module}}
Unsupported == {d.name : d \in {e \in {Head(Kind("native"))} : <<e.module, e.name>> \notin Supported}}

RegisterNative ==
  \/ /\ Enters("native", natives, MaxNative, TakenByNatives \cup Unsupported)
     /\ natives' = Append(natives, Head(Kind("native"))) /\ UNCHANGED <<enums, classes>>
  \/ Rejects("native", natives, MaxNative, TakenByNatives \cup Unsupported)

RegisterEnum ==
  /\ Kind("native") = << >>
  /\ \/ /\ Enters("enum", enums, MaxEnum, Names(enums))
        /\ enums' = Append(enums, Head(Kind("enum"))) /\ UNCHANGED <<natives, classes>>
     \/ Rejects("enum", enums, MaxEnum, Names(enums))

RegisterClass ==
  /\ Kind("native") = << >> /\ Kind("enum") = << >>
  /\ \/ /\ Enters("class", classes, MaxClass, Names(enums) \cup Names(classes))
        /\ classes' = Append(classes, Head(Kind("class"))) /\ UNCHANGED <<natives, enums>>
     \/ Rejects("class", classes, MaxClass, Names(enums) \cup Names(classes))

-----------------------------------------------------------------------------
(***************************************************************************)
(* The parsing of annotations.                                             *)
(***************************************************************************)
Parsing == waiting = << >> /\ refusal = NULL /\ steps < prog.steps
Writes(form) == Parsing /\ form \in prog.forms

\* A type made: number, meaning, words of its C name and of its name in
\* function names, letters of its name in messages; atom: it may stand in a
\* union; odd: see the properties; plain: no tuple in a tuple, and every name
\* is one word that no composed name uses; open: it has a tuple or a union,
\* whose words have no end.
Type(id, means, c, fn, letters) ==
  [id |-> id, means |-> means, c |-> c, fn |-> fn, letters |-> letters,
   atom |-> TRUE, odd |-> FALSE, plain |-> TRUE, open |-> FALSE]

Of(e, parts) ==
  [e EXCEPT !.odd   = @ \/ \E p \in Range(parts) : p.odd,
            !.plain = @ /\ \A p \in Range(parts) : p.plain,
            !.open  = @ \/ \E p \in Range(parts) : p.open]

Top(n)  == SubSeq(stack, Len(stack) - n + 1, Len(stack))
Ids(ts) == [k \in DOMAIN ts |-> ts[k].id]
Meanings(ts) == [k \in DOMAIN ts |-> ts[k].means]
Joined(first, seqs) == FlattenSeq(<<first>> \o seqs)

Push(n, e) ==
  /\ stack' = Append(SubSeq(stack, 1, Len(stack) - n), e)
  /\ named' = named \cup {e}
  /\ steps' = steps + 1
  /\ UNCHANGED <<prog, waiting, declared, refusal>>

\* The checker stops; a full table, or the buffer of a tuple's name, stops it
\* whatever the annotation means.
Refuse(means) ==
  /\ Stop(means)
  /\ UNCHANGED <<prog, waiting, declared, tables, stack, named, steps>>
RefuseFull == Refuse(NoRoom)

\* The first place of a table among those at, or 0.
First(base, at) == IF at = {} THEN 0 ELSE base + Min(at) - 1

\* Classes and enums are found by name alone, natives in one module.
Find(n, module) ==
  LET found == <<First(ClassBase, {k \in DOMAIN classes : classes[k].name = n}),
                 First(EnumBase, {k \in DOMAIN enums : enums[k].name = n}),
                 First(NativeBase, {k \in DOMAIN natives :
                                      natives[k].name = n /\ natives[k].module = module})>>
      hits  == {k \in 1 .. 3 : found[k] # 0}
  IN IF hits = {} THEN 0 ELSE found[Min(hits)]

\* The number a name is given, or 0.
Resolve(w) ==
  LET own  == Declares(w.module, w.name) # {}
      from == {i \in FromImport(w.module, w.name) : i.symbol = w.name}
  IN IF w.name \in DOMAIN Prim THEN Prim[w.name]
     ELSE IF w.qualifier # NULL
     THEN IF WholeImport(w.module, w.qualifier) = {} \/ w.name \in prog.private THEN 0
          ELSE Find(w.name, (CHOOSE i \in WholeImport(w.module, w.qualifier) : TRUE).from)
     ELSE IF own \/ (from # {} /\ w.name \notin prog.private) THEN Find(w.name, w.module)
     ELSE 0

Words(n) == IF n \in DOMAIN prog.words THEN prog.words[n] ELSE <<n>>

\* Names have one letter if the program does not say otherwise.
Written == [int |-> 3, float |-> 5, bool |-> 4, char |-> 4, str |-> 3, None |-> 4] @@ prog.letters
Letters(n) == IF n \in DOMAIN Written THEN Written[n] ELSE 1

\* The words that C names are composed with and that may be names (list, dict
\* and the primitive types may not).
Composing == {"py4", "optional"} \cup {d.module : d \in Range(natives)}

\* The C names are made of the declaration that was found.
Named(id, w, odd) ==
  LET name == Words(w.name)
      m == natives[id - NativeBase + 1].module
      e == IF IsNative(id)
           THEN Type(id, Meant(w), <<m>> \o name, <<"native", m>> \o name, Letters(m) + 1 + Letters(w.name))
           ELSE Type(id, Meant(w), name,
                     (IF IsClass(id) THEN <<"class">> ELSE IF IsEnum(id) THEN <<"enum">> ELSE << >>) \o name,
                     Letters(w.name))
  IN [e EXCEPT !.odd = odd, !.plain = Len(name) = 1 /\ name[1] \notin Composing]

Name(w) ==
  /\ Parsing /\ w \in prog.writes
  /\ IF Resolve(w) = 0 THEN Refuse(Meant(w))
     ELSE Push(0, Named(Resolve(w), w, Clash(w))) /\ UNCHANGED tables

Unknown == 7
IsElement(t) == t \in {1, 2, 4, 8, 16} \/ IsWhole(t) \/ IsOptional(t)

\* semantic_type_name does not know a list of anything but a primitive type:
\* it says "unknown".
MakeList ==
  /\ Writes("list") /\ stack # << >>
  /\ LET e == Top(1)[1]
         made(id, letters) ==
           Of(Type(id, MeansList(e.means), <<"list">> \o e.c, <<"list">> \o e.fn, letters), <<e>>)
     IN IF e.id \in {1, 2, 4, 8, 16}
        THEN Push(1, made(ListOfPrim(e.id), e.letters + 6)) /\ UNCHANGED tables
        ELSE IF ~IsElement(e.id) THEN Refuse(MeansList(e.means))
        ELSE IF Place(lists, e.id) > MaxList THEN RefuseFull
        ELSE /\ Push(1, made(ListBase + Place(lists, e.id) - 1, Unknown))
             /\ lists' = Extended(lists, e.id)
             /\ UNCHANGED <<tuples, options, dicts>>

MakeDict ==
  /\ Writes("dict") /\ Len(stack) >= 2
  /\ LET k  == Top(2)[1]
         v  == Top(2)[2]
         kv == <<k.id, v.id>>
     IN IF ~(k.id \in {1, 4, 8, 16} \/ IsEnum(k.id)) \/ ~IsElement(v.id)
        THEN Refuse(MeansDict(k.means, v.means))
        ELSE IF Place(dicts, kv) > MaxDict THEN RefuseFull
        ELSE /\ Push(2, Of(Type(DictBase + Place(dicts, kv) - 1, MeansDict(k.means, v.means),
                                <<"dict">> \o k.c \o v.c, <<"dict">> \o k.fn \o v.fn,
                                k.letters + v.letters + 8), <<k, v>>))
             /\ dicts' = Extended(dicts, kv)
             /\ UNCHANGED <<tuples, lists, options>>

\* The name of a new tuple is written into a buffer that must have two bytes
\* to spare.  (Names of dicts and optionals are cut at 191 letters; such a part
\* does not fit either way.)
TupleLetters(es) == FoldSeq(LAMBDA e, sum : e.letters + sum, Len(es) + 1, es)
TooLong(es) == TupleLetters(es) + 2 >= MaxName

MakeTuple(n) ==
  /\ Writes("tuple") /\ Len(stack) >= n
  /\ LET es == Top(n)
         e(id) == [Of(Type(id, MeansTuple(Meanings(es)),
                           Joined(<<"py4", "tuple">>, [k \in 1 .. n |-> es[k].c]),
                           Joined(<<"tuple">>, [k \in 1 .. n |-> es[k].fn]), TupleLetters(es)), es)
                     EXCEPT !.open = TRUE, !.plain = @ /\ \A k \in 1 .. n : ~es[k].open]
     IN IF n > MaxElements \/ \E k \in 1 .. n : IsUnion(es[k].id) \/ es[k].id = Prim.None
        THEN Refuse(MeansTuple(Meanings(es)))
        ELSE IF Place(tuples, Ids(es)) > MaxTuple THEN RefuseFull
        ELSE IF Place(tuples, Ids(es)) > Len(tuples) /\ TooLong(es) THEN RefuseFull
        ELSE /\ Push(n, e(TupleBase + Place(tuples, Ids(es)) - 1))
             /\ tuples' = Extended(tuples, Ids(es))
             /\ UNCHANGED <<lists, options, dicts>>

\* One other type with None: an optional of it.
OptionalOf(ids) ==
  IF Len(ids) = 2 /\ Prim.None \in Range(ids)
  THEN {b \in Range(ids) : b # Prim.None /\ ~IsUnion(b) /\ ~IsOptional(b)} ELSE {}

InNoUnion(t) == IsTuple(t) \/ IsClass(t) \/ IsEnum(t) \/ IsList(t) \/ IsDict(t)

\* Variant with a fault: a member given before is accepted again.
UnionRefusesLess(ids) == \E k \in DOMAIN ids : InNoUnion(ids[k])

\* Natives pass: the or of the numbers is no union that would be looked into.
UnionRefuses(ids) ==
  \/ \E k \in DOMAIN ids :
       LET before == Or({ids[j] : j \in 1 .. k - 1})
       IN InNoUnion(ids[k]) \/ InNoUnion(before) \/ HasMember(before, ids[k])
  \/ IsUnion(Or(Range(ids))) /\ \E k \in DOMAIN ids : IsNative(ids[k])

Order == <<"int", "float", "bool", "char", "str", "None">>
Members(ids) == SelectSeq(Order, LAMBDA m : Prim[m] \in Range(ids))
UnionWords(first, ids) == first \o Members(ids)

\* Variant with a fault: the name of the type inside.
OptionalWordsBare(words) == words
OptionalWords(words) == <<"optional">> \o words

MakeUnion(n) ==
  /\ Writes("union") /\ Len(stack) >= n /\ \A k \in 1 .. n : Top(n)[k].atom
  /\ LET es    == Top(n)
         ids   == Ids(es)
         means == MeansUnion(Meanings(es))
     IN IF OptionalOf(ids) # {}
        THEN LET b    == CHOOSE t \in OptionalOf(ids) : TRUE
                 part == es[CHOOSE k \in {1, 2} : ids[k] = b]
             IN IF Place(options, b) > MaxOptional THEN RefuseFull
                ELSE /\ Push(2, [Of(Type(OptionalBase + Place(options, b) - 1, means,
                                         OptionalWords(part.c), OptionalWords(part.fn),
                                         part.letters + 7), es)
                                   EXCEPT !.atom = FALSE])
                     /\ options' = Extended(options, b)
                     /\ UNCHANGED <<tuples, lists, dicts>>
        ELSE IF UnionRefuses(ids) THEN Refuse(means)
        ELSE /\ Push(n, [Of(Type(Or(Range(ids)), means, UnionWords(<<"py4", "union">>, ids),
                                 UnionWords(<<"union">>, ids), Unknown), es)
                           EXCEPT !.atom = FALSE, !.open = TRUE,
                                  !.odd = @ \/ \E k \in 1 .. n : IsNative(ids[k])])
             /\ UNCHANGED tables

\* The annotation has been parsed; another one may follow.
EndAnnotation ==
  /\ refusal = NULL /\ Len(stack) = 1
  /\ stack' = << >>
  /\ UNCHANGED <<prog, waiting, declared, tables, named, steps, refusal>>

Next ==
  \/ RegisterNative \/ RegisterEnum \/ RegisterClass
  \/ \E w \in prog.writes : Name(w)
  \/ MakeList \/ MakeDict
  \/ \E n \in 2 .. MaxElements + 1 : MakeTuple(n)
  \/ \E n \in 2 .. 3 : MakeUnion(n)
  \/ EndAnnotation

Spec == Init /\ [][Next]_vars

-----------------------------------------------------------------------------
(***************************************************************************)
(* Properties.  They leave out the types that are odd: those that name a   *)
(* type whose name another module gives to a class or an enum (which is    *)
(* then taken in its place), and unions with a native type (whose number   *)
(* is that of some other type).                                            *)
(***************************************************************************)
Sound == {e \in named : ~e.odd}

\* Two annotations are given one number exactly when they mean one type,
\* whatever tables they went through and in whatever order.
NumbersFaithful == \A e, f \in Sound : e.id = f.id <=> e.means = f.means

\* Some table of types is full, or the tuple on the stack has too long a name.
Crowded ==
  \/ Len(tuples) = MaxTuple \/ Len(lists) = MaxList
  \/ Len(options) = MaxOptional \/ Len(dicts) = MaxDict
  \/ \E n \in 2 .. MaxElements : Len(stack) >= n /\ TooLong(Top(n))

\* What the checker accepts is legal: declarations whatever the order they
\* are collected in, and annotations however they are nested.  What it
\* refuses is not, or does not fit: a table would overflow, or the name of a
\* tuple its buffer.
VerdictRight ==
  /\ \A e \in Sound : e.means # Illegal
  /\ waiting = << >> => Legal(prog.decls) /\ Fits(prog.decls)
  /\ refusal \in {NULL, Illegal, NoRoom}
  /\ refusal = NoRoom => ~Fits(prog.decls) \/ Crowded

Values(m) == IF IsU(m) THEN m[2] ELSE IF m[1] = "optional" THEN {m[2], None} ELSE {m}

\* Variant with a fault: an optional gives its value away unnarrowed.
AssignableUnwrapped(target, value) ==
  IF IsOptional(target) THEN value \in {Prim.None, options[target - OptionalBase + 1], target}
  ELSE IF IsOptional(value) THEN target = options[value - OptionalBase + 1]
  ELSE target = value

Assignable(target, value) ==
  IF IsOptional(target) THEN value \in {Prim.None, options[target - OptionalBase + 1], target}
  ELSE IF IsOptional(value) \/ IsWhole(target) \/ IsWhole(value) THEN target = value
  ELSE \A m \in DOMAIN Prim :
         HasMember(value, Prim[m]) => \/ HasMember(target, Prim[m])
                                      \/ (m = "int" /\ HasMember(target, Prim.float))

\* A value may be assigned only where each value of its type fits, an int
\* as a float; and it may wherever that is so, unless one of the two types
\* is an optional: an optional takes itself, the type inside and None, and
\* is given to itself alone (float | None does not take int | None).
AssignableRight ==
  \A e, f \in Sound :
    LET fits == \A m \in Values(f.means) :
                  \/ m \in Values(e.means)
                  \/ (m = <<"prim", "int">> /\ <<"prim", "float">> \in Values(e.means))
        given == Assignable(e.id, f.id)
    IN /\ given => fits
       /\ IF e.means[1] = "optional" THEN given <=> f.means \in {e.means, e.means[2], None}
          ELSE IF f.means[1] = "optional" THEN ~given
          ELSE given <=> fits

\* Different types have different C names and different overloads different
\* function names, when no tuple lies in a tuple, no name has several words
\* or is a word that composed names use (a class named optional), and (for
\* overloads) no parameter but the last has a tuple or a union: f(x: int |
\* float, y: bool) and f(x: int | float | bool) are one C function.
NamesApart ==
  LET Plain == {e \in Sound : e.plain}
      Flat  == {e \in Plain : ~e.open}
  IN /\ \A e, f \in Plain : e.id # f.id => e.c # f.c /\ e.fn # f.fn
     /\ \A e, f \in Flat, g, h \in Plain :
          /\ <<e.id, g.id>> # <<f.id, h.id>> => e.fn \o g.fn # f.fn \o h.fn
          /\ e.fn \o g.fn # f.fn /\ e.fn \o g.fn # h.fn
=============================================================================
