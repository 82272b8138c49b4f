---------------------------- MODULE ModuleLoader ----------------------------
(***************************************************************************)
(* How load_program_from_entry turns a tree of modules into the list of    *)
(* parsed modules and the one list of top-level statements, the emission   *)
(* root, that the rest of the compiler works on.                           *)
(*                                                                         *)
(* load_file and import_module_symbol call each other recursively, one     *)
(* activation per import that is being executed; the recursion is the      *)
(* variable stack.  A file's content is chosen when the file is parsed, so *)
(* one behaviour is one source tree.                                       *)
(***************************************************************************)
EXTENDS Naturals, Sequences, FiniteSets

CONSTANTS
  Path,        (* paths as they are spelled on the command line or by      *)
               (* resolve_import_path: one file may have several           *)
  FileOf,      (* FileOf[p]: the file that is opened under the path p      *)
  Entry,       (* the path given on the command line                       *)
  Symbol,      (* names defined at top level                               *)
  NULL,        (* no symbol                                                *)
  Statements,  (* Statements[p]: the top-level statements p may hold       *)
  MaxBody      (* bound, per path: top-level statements of a file          *)

\* A definition, or one of the two kinds of import.  A function can be wrapped
\* by an alias, a value (a variable, a class, a native type) cannot, and an
\* enum's name is not looked at by top_level_symbol_name at all.
Kind       == {"function", "value", "enum"}
Definition == [op : Kind, sym : Symbol]
Import     == [op : {"import"}, of : Path]
FromImport == [op : {"from"}, of : Path, sym : Symbol, alias : BOOLEAN]

IsImport(s) == s.op \in {"import", "from"}

\* A statement as it stands in its file, where a spelled path has no place.
Text(s) == IF IsImport(s) THEN [s EXCEPT !.of = FileOf[@]] ELSE s
SameText(b, c) == Len(b) = Len(c) /\ \A n \in DOMAIN b : Text(b[n]) = Text(c[n])

ASSUME PathAssumption ==
  IsFiniteSet(Path) /\ Entry \in Path /\ NULL \notin Symbol /\ DOMAIN FileOf = Path
ASSUME BodyAssumption ==
  /\ Statements \in [Path -> SUBSET (Definition \cup Import \cup FromImport)]
  /\ MaxBody \in [Path -> Nat]
  /\ \A p, q \in Path : FileOf[p] = FileOf[q] =>
       /\ {Text(s) : s \in Statements[p]} = {Text(s) : s \in Statements[q]}
       /\ MaxBody[p] = MaxBody[q]

VARIABLES
  body,      (* body[p]: the parsed statements of p                        *)
  visited,   (* visited_paths                                              *)
  modules,   (* the paths of program->modules                              *)
  emitted,   (* emission_root: <<p, sym, kind>> of each copied statement   *)
  stack,     (* activations of load_file and import_module_symbol          *)
  status     (* "loading", "loaded", or the import error that ended it     *)

vars == <<body, visited, modules, emitted, stack, status>>

Bodies(p) == UNION {[1 .. n -> Statements[p]] : n \in 0 .. MaxBody[p]}

-----------------------------------------------------------------------------
Top == stack[Len(stack)]
Popped == SubSeq(stack, 1, Len(stack) - 1)
Running == status = "loading" /\ stack # << >>
Current == body[Top.path][Top.next]
AtStatement == Running /\ Top.next <= Len(body[Top.path])

\* The caller goes on with its next statement when the call returns.
Advanced == [stack EXCEPT ![Len(stack)].next = @ + 1]
Call(p, sym, alias) == [path |-> p, sym |-> sym, alias |-> alias, next |-> 1]

\* mark_visited, parse_file and add_loaded_module.  has_visited compares paths
\* as they are spelled, so a file is parsed again under another spelling.
Visit(p) ==
  /\ visited' = visited \cup {p}
  /\ modules' = Append(modules, p)
  /\ \E b \in Bodies(p) :
       /\ \A q \in visited : FileOf[q] = FileOf[p] => SameText(b, body[q])
       /\ body' = [q \in visited' |-> IF q = p THEN b ELSE body[q]]

Init ==
  /\ visited = {Entry} /\ modules = <<Entry>>
  /\ \E b \in Bodies(Entry) : body = [q \in {Entry} |-> b]
  /\ emitted = << >>
  /\ stack = <<Call(Entry, NULL, FALSE)>>
  /\ status = "loading"

\* Variant with a fault: load_file does not look whether the path was visited
\* (the guard on the depth only keeps the variant finite).
ImportUnchecked ==
  /\ AtStatement /\ Current.op = "import"
  /\ Len(stack) <= Cardinality(Path)
  /\ IF Current.of \in visited
     THEN /\ modules' = Append(modules, Current.of)
          /\ UNCHANGED <<body, visited>>
     ELSE Visit(Current.of)
  /\ stack' = Append(Advanced, Call(Current.of, NULL, FALSE))
  /\ UNCHANGED <<emitted, status>>

\* Variant with a fault: the imported module is put on a list of files to
\* load when the current ones are done.
ImportDeferred ==
  /\ AtStatement /\ Current.op = "import"
  /\ IF Current.of \in visited
     THEN stack' = Advanced /\ UNCHANGED <<body, visited, modules>>
     ELSE Visit(Current.of) /\ stack' = <<Call(Current.of, NULL, FALSE)>> \o Advanced
  /\ UNCHANGED <<emitted, status>>

\* import m
ImportModule ==
  /\ AtStatement /\ Current.op = "import"
  /\ IF Current.of \in visited
     THEN stack' = Advanced /\ UNCHANGED <<body, visited, modules>>
     ELSE Visit(Current.of) /\ stack' = Append(Advanced, Call(Current.of, NULL, FALSE))
  /\ UNCHANGED <<emitted, status>>

\* Variant with a fault: a from import returns early for a visited module,
\* the way load_file does.
ImportSymbolUnlessVisited ==
  /\ AtStatement /\ Current.op = "from"
  /\ IF Current.of \in visited
     THEN stack' = Advanced /\ UNCHANGED <<body, visited, modules>>
     ELSE /\ Visit(Current.of)
          /\ stack' = Append(Advanced, Call(Current.of, Current.sym, Current.alias))
  /\ UNCHANGED <<emitted, status>>

\* Variant with a fault: the first pass of import_module_symbol copies the
\* definitions as load_file does.
CopyAlways ==
  /\ AtStatement /\ ~IsImport(Current)
  /\ emitted' = Append(emitted, <<Top.path, Current.sym, Current.op>>)
  /\ stack' = Advanced
  /\ UNCHANGED <<body, visited, modules, status>>

\* from m import s [as a]: only a module seen for the first time has its
\* imports executed; a visited one goes straight to the selection.
ImportSymbol ==
  /\ AtStatement /\ Current.op = "from"
  /\ LET call == Call(Current.of, Current.sym, Current.alias)
     IN IF Current.of \in visited
        THEN /\ stack' = Append(Advanced, [call EXCEPT !.next = Len(body[Current.of]) + 1])
             /\ UNCHANGED <<body, visited, modules>>
        ELSE Visit(Current.of) /\ stack' = Append(Advanced, call)
  /\ status' = IF Current.of \in visited /\ ~\E k \in DOMAIN modules : modules[k] = Current.of
               THEN "tracking failed" ELSE status
  /\ UNCHANGED emitted

\* load_file copies a definition; import_module_symbol's first pass skips it.
CopyDefinition ==
  /\ AtStatement /\ ~IsImport(Current)
  /\ emitted' = IF Top.sym = NULL
                THEN Append(emitted, <<Top.path, Current.sym, Current.op>>) ELSE emitted
  /\ stack' = Advanced
  /\ UNCHANGED <<body, visited, modules, status>>

AtEnd == Running /\ Top.next > Len(body[Top.path])

EndFile ==
  /\ AtEnd /\ Top.sym = NULL
  /\ stack' = Popped
  /\ status' = IF Len(stack) = 1 THEN "loaded" ELSE status
  /\ UNCHANGED <<body, visited, modules, emitted>>

\* The definitions of a symbol in p, by position, those is_exported_top_level
\* finds, and positions in order.
Defined(p, sym) == {k \in DOMAIN body[p] : ~IsImport(body[p][k]) /\ body[p][k].sym = sym}
Exports(p, sym) == {k \in Defined(p, sym) : body[p][k].op # "enum"}
InOrder(D) ==
  {sel \in [1 .. Cardinality(D) -> D] : \A j, k \in DOMAIN sel : j < k => sel[j] < sel[k]}

\* Each is followed by its wrapper if the import renames it.
Copies(sel) ==
  LET copy(k) == <<Top.path, Top.sym, body[Top.path][sel[k]].op>>
  IN IF Top.alias
     THEN [k \in 1 .. 2 * Len(sel) |->
             IF k % 2 = 1 THEN copy((k + 1) \div 2) ELSE <<Top.path, Top.sym, "wrapper">>]
     ELSE [k \in 1 .. Len(sel) |-> copy(k)]

SelectSymbol ==
  /\ AtEnd /\ Top.sym # NULL
  /\ IF Exports(Top.path, Top.sym) = {} THEN status' = "no export" /\ UNCHANGED emitted
     ELSE IF Top.alias /\ \E k \in Exports(Top.path, Top.sym) : body[Top.path][k].op = "value"
     THEN status' = "alias target" /\ UNCHANGED emitted
     ELSE /\ \E sel \in InOrder(Exports(Top.path, Top.sym)) : emitted' = emitted \o Copies(sel)
          /\ UNCHANGED status
  /\ stack' = Popped
  /\ UNCHANGED <<body, visited, modules>>

Next == ImportModule \/ ImportSymbol \/ CopyDefinition \/ EndFile \/ SelectSymbol

Spec == Init /\ [][Next]_vars
FairSpec == Spec /\ WF_vars(Next)

-----------------------------------------------------------------------------
\* What the loaded program must be, said of the files alone.
Loaded == status = "loaded"

\* The executed imports: positions <<file, statement>>.
Imports == {i \in UNION {{p} \X DOMAIN body[p] : p \in visited} : IsImport(body[i[1]][i[2]])}
At(i) == body[i[1]][i[2]]
NamedBy(op, p) == \E i \in Imports : At(i).op = op /\ At(i).of = p
FromImports(p, sym) == {i \in Imports : At(i).op = "from" /\ At(i).of = p /\ At(i).sym = sym}

CopiesOf(p, sym, kind) == {k \in DOMAIN emitted : emitted[k] = <<p, sym, kind>>}
OfKind(p, sym, kind) == {k \in Defined(p, sym) : body[p][k].op = kind}
Chosen(p, sym, kind) == OfKind(p, sym, kind) \cap Exports(p, sym)
Renamed(froms) == {i \in froms : At(i).alias}

(***************************************************************************)
(* Whatever the import graph, cycles included, each path is parsed and     *)
(* recorded once, in one entry of program->modules, so a file is recorded  *)
(* once for each spelling it was reached under and not more often; the     *)
(* internal error "module tracking failed" cannot happen, and the          *)
(* recursion is no deeper than the number of paths, plus one selection     *)
(* from a visited one.  (A file is loaded once if every import spells it   *)
(* alike: the entry main.p4 is ./main.p4 to a module that imports it, and  *)
(* is then parsed, recorded and copied a second time.)                     *)
(***************************************************************************)
LoadedOnce ==
  /\ \A i, j \in DOMAIN modules : modules[i] = modules[j] => i = j
  /\ {modules[i] : i \in DOMAIN modules} = visited
  /\ \A file \in {FileOf[p] : p \in visited} :
       Cardinality({i \in DOMAIN modules : FileOf[modules[i]] = file}) =
         Cardinality({p \in visited : FileOf[p] = file})
  /\ status # "tracking failed"
  /\ Len(stack) <= Cardinality(visited) + 1

(***************************************************************************)
(* The emission root holds exactly what was asked for: what is parsed      *)
(* under a path is copied whole or not at all - whole if no from import    *)
(* names it, not at all if it is not the entry and only from imports name  *)
(* it - and every from import adds one copy of each exported definition of *)
(* its symbol (and a wrapper if it renames it), however often and from     *)
(* wherever the path was visited.  An enum is copied with its file only.   *)
(***************************************************************************)
EmissionExact ==
  Loaded => \A p \in visited : \E whole \in {0, 1} :
    /\ ~NamedBy("from", p) => whole = 1
    /\ p # Entry /\ ~NamedBy("import", p) => whole = 0
    /\ \A sym \in Symbol :
         LET froms == FromImports(p, sym)
         IN /\ \A kind \in Kind :
                 Cardinality(CopiesOf(p, sym, kind)) =
                   whole * Cardinality(OfKind(p, sym, kind))
                   + Cardinality(froms) * Cardinality(Chosen(p, sym, kind))
            /\ Cardinality(CopiesOf(p, sym, "wrapper")) =
                 Cardinality(Renamed(froms)) * Cardinality(Exports(p, sym))

\* What p imports, directly or not: the least set of files that has what p
\* imports, and with a file what that imports.
ImportedBy(q) == {At(i).of : i \in {h \in Imports : h[1] = q}} \cap visited
Closed(C) == \A q \in C : ImportedBy(q) \subseteq C
Imported(p) ==
  {q \in visited : \A C \in SUBSET visited : ImportedBy(p) \subseteq C /\ Closed(C) => q \in C}

\* The place in the emission root of the copy of the definition at j of q.
Rank(q, j) == Cardinality({n \in 1 .. j : ~IsImport(body[q][n])})
IsCopy(k, q, j) ==
  /\ emitted[k][1] = q
  /\ Cardinality({m \in 1 .. k : emitted[m][1] = q}) = Rank(q, j)

\* All of p comes before the definition at j of q.
Precedes(p, q, j) ==
  \A k, m \in DOMAIN emitted : IsCopy(k, q, j) /\ emitted[m][1] = p => m < k

\* A file that no from import takes apart.
Undivided(p) == ~NamedBy("from", p)

(***************************************************************************)
(* Definitions are emitted, and top-level values initialised, in an order  *)
(* the imports justify: what a file imports comes before the definitions   *)
(* that follow the import, unless the imported file is part of an import   *)
(* cycle with it.  A file stands here for what is parsed under one path.   *)
(* (Files that from imports name are copied in pieces and are the subject  *)
(* of EmissionExact.)                                                      *)
(***************************************************************************)
ImportsFirst ==
  Loaded => \A i \in Imports :
    LET q == i[1]
        p == At(i).of
    IN Undivided(p) /\ Undivided(q) /\ q \notin Imported(p) =>
         \A j \in DOMAIN body[q] : j > i[2] /\ ~IsImport(body[q][j]) => Precedes(p, q, j)

(***************************************************************************)
(* A program is loaded only if every from import in every file found what  *)
(* it names, and an import error has a cause in the files: some import     *)
(* really names a symbol its file does not define, or defines as nothing   *)
(* but an enum (is_exported_top_level does not find enums: the code says   *)
(* "no export" of a symbol the file does define), or renames a value.      *)
(***************************************************************************)
Resolved ==
  LET known == {i \in Imports : At(i).of \in visited}
      froms == {i \in known : At(i).op = "from"}
      missing == {i \in froms : \A k \in Defined(At(i).of, At(i).sym) : body[At(i).of][k].op = "enum"}
      badAlias == {i \in froms : /\ At(i).alias
                                 /\ \E k \in Defined(At(i).of, At(i).sym) :
                                      body[At(i).of][k].op = "value"}
  IN /\ Loaded => known = Imports /\ missing = {} /\ badAlias = {}
     /\ status = "no export" => missing # {}
     /\ status = "alias target" => badAlias # {}

(***************************************************************************)
(* Loading ends, with a program or an error, for cyclic imports too.       *)
(***************************************************************************)
LoadingEnds == <>(status # "loading")

-----------------------------------------------------------------------------
(***************************************************************************)
(* What makes LoadedOnce and Resolved inductive.                           *)
(***************************************************************************)
TypeOK ==
  /\ visited \subseteq Path /\ DOMAIN body = visited
  /\ \A p \in visited : body[p] \in Seq(Statements[p])
  /\ modules \in Seq(Path)
  /\ stack \in Seq([path : Path, sym : Symbol \cup {NULL}, alias : BOOLEAN, next : Nat])
  /\ status \in {"loading", "loaded", "no export", "alias target"}

Recorded ==
  /\ \A i, j \in DOMAIN modules : modules[i] = modules[j] => i = j
  /\ {modules[i] : i \in DOMAIN modules} = visited

\* A selection from a file that was visited before has nothing to execute.
Selecting(k) == stack[k].sym # NULL /\ stack[k].next = Len(body[stack[k].path]) + 1

\* Only the activation on top can be a second one of its file.
Activations ==
  /\ \A k \in DOMAIN stack : /\ stack[k].path \in visited
                             /\ stack[k].next \in 1 .. Len(body[stack[k].path]) + 1
  /\ \A j, k \in DOMAIN stack : j < k /\ stack[j].path = stack[k].path => k = Len(stack) /\ Selecting(k)

\* An activation works for the import its caller executed last.
Works(call, s) ==
  /\ s.op \in {"import", "from"} /\ s.of = call.path
  /\ s.op = "import" => call.sym = NULL
  /\ s.op = "from" => call.sym = s.sym /\ call.alias = s.alias

Callers ==
  /\ stack # << >> => stack[1].sym = NULL
  /\ \A k \in DOMAIN stack : k > 1 =>
       LET c == stack[k - 1]
       IN c.next > 1 /\ Works(stack[k], body[c.path][c.next - 1])

Found(s) ==
  /\ Exports(s.of, s.sym) # {}
  /\ s.alias => \A k \in Exports(s.of, s.sym) : body[s.of][k].op # "value"

\* An import is still to be executed, or its file is there, and what it names
\* of it too, unless the selection is under way.
Ahead(p, n)    == \E k \in DOMAIN stack : stack[k].path = p /\ n >= stack[k].next
UnderWay(p, n) == \E k \in DOMAIN stack : k < Len(stack) /\ stack[k].path = p /\ n = stack[k].next - 1
Handled(p, n) ==
  /\ body[p][n].of \in visited
  /\ body[p][n].op = "from" => Found(body[p][n]) \/ UnderWay(p, n)
Executed ==
  status \in {"loading", "loaded"} =>
    \A p \in visited : \A n \in DOMAIN body[p] : IsImport(body[p][n]) => Ahead(p, n) \/ Handled(p, n)

\* An import that could not be served.
Refused(s, error) ==
  /\ s.op = "from" /\ s.of \in visited
  /\ error = "no export" => Exports(s.of, s.sym) = {}
  /\ error = "alias target" => s.alias /\ \E k \in Exports(s.of, s.sym) : body[s.of][k].op = "value"

Outcome ==
  /\ status = "loaded" => stack = << >>
  /\ status \in {"no export", "alias target"} =>
       \E p \in visited : \E n \in DOMAIN body[p] : Refused(body[p][n], status)

IInv == TypeOK /\ Recorded /\ Activations /\ Callers /\ Executed /\ Outcome

-----------------------------------------------------------------------------
(***************************************************************************)
(* What makes EmissionExact inductive: the account of what each file has   *)
(* in the emission root so far.                                            *)
(***************************************************************************)
Done(i) == ~Ahead(i[1], i[2]) /\ ~UnderWay(i[1], i[2])
Served(p, sym) == {i \in FromImports(p, sym) : Done(i)}
Written(p, sym, kind) == {k \in OfKind(p, sym, kind) : ~Ahead(p, k)}

\* A file is copied whole if an import, not a from import, was the first to
\* reach it.
Origin(p, whole) ==
  /\ whole = 1 => p = Entry \/ NamedBy("import", p)
  /\ whole = 0 => NamedBy("from", p)
  /\ \A k \in DOMAIN stack : stack[k].path = p =>
       /\ stack[k].sym = NULL => whole = 1
       /\ stack[k].sym # NULL /\ stack[k].next <= Len(body[p]) => whole = 0

Balanced(p, whole) ==
  \A sym \in Symbol :
    /\ \A kind \in Kind :
         Cardinality(CopiesOf(p, sym, kind)) =
           whole * Cardinality(Written(p, sym, kind))
           + Cardinality(Served(p, sym)) * Cardinality(Chosen(p, sym, kind))
    /\ Cardinality(CopiesOf(p, sym, "wrapper")) =
         Cardinality(Renamed(Served(p, sym))) * Cardinality(Exports(p, sym))

Account(p) == \E whole \in {0, 1} : Origin(p, whole) /\ Balanced(p, whole)

Emission ==
  /\ emitted \in Seq(Path \X Symbol \X (Kind \cup {"wrapper"}))
  /\ \A k \in DOMAIN emitted : emitted[k][1] \in visited
  /\ status \in {"loading", "loaded"} => \A p \in visited : Account(p)

-----------------------------------------------------------------------------
(***************************************************************************)
(* What makes ImportsFirst inductive.                                      *)
(***************************************************************************)
\* A file that is copied whole is copied in the order it is written.
InTurn(q) ==
  Cardinality({k \in DOMAIN emitted : emitted[k][1] = q}) =
    Cardinality({j \in DOMAIN body[q] : ~IsImport(body[q][j]) /\ ~Ahead(q, j)})

\* An import that is done left its file complete, unless it came back to a
\* file that is being executed.
OnStack(p) == \E k \in DOMAIN stack : stack[k].path = p
Settled(i) == Done(i) /\ OnStack(At(i).of) => i[1] \in Imported(At(i).of)

Ordered(i) ==
  LET q == i[1]
      p == At(i).of
  IN Undivided(q) /\ q \notin Imported(p) =>
       \A j \in DOMAIN body[q] :
         j > i[2] /\ ~IsImport(body[q][j]) /\ ~Ahead(q, j) => Precedes(p, q, j)

Order ==
  status \in {"loading", "loaded"} =>
    /\ \A q \in visited : Undivided(q) => InTurn(q)
    /\ \A i \in Imports : Undivided(At(i).of) => Settled(i) /\ Ordered(i)
=============================================================================
