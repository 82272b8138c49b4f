------------------------------- MODULE Layout -------------------------------
(***************************************************************************)
(* From indentation to suites.  The lexer turns the indentation of each    *)
(* line into INDENT and DEDENT tokens with a stack of columns; the parser  *)
(* builds suites from these tokens, and throws them away inside brackets,  *)
(* where the lexer still writes them and still moves its stack.  So the    *)
(* two can come to disagree about how deep the program is.                 *)
(*                                                                         *)
(* A line is its indentation and what kind of text it holds: "stmt" is a   *)
(* statement that is no expression (x = 1), "open" one that ends inside a  *)
(* bracket (x = f([), "item" an element and its comma, "close" the rest of *)
(* the bracketed statement; "loop" stands for every header without clauses *)
(* (for, while, with, def, class, enum, match and its cases).  The lexer   *)
(* runs to the end of the file before the parser starts; here it hands a   *)
(* line over when the parser has used up the tokens of the one before,     *)
(* which gives the parser the same tokens.                                 *)
(***************************************************************************)
EXTENDS Naturals, Sequences, FiniteSets

CONSTANTS
  Column,     (* columns a line can start in                               *)
  Kind,       (* the kinds of lines                                        *)
  MaxLevels,  (* MAX_INDENT_LEVELS                                         *)
  MaxLines    (* bound: lines of a file                                    *)

Header == {"if", "loop", "elif", "else"}      (* lines that end in a colon *)
Clause == {"elif", "else"}
Continuation == {"item", "close"}             (* lines inside a bracket    *)

ASSUME ColumnAssumption == Column \subseteq Nat /\ 0 \in Column
ASSUME KindAssumption == Kind \subseteq {"blank", "stmt", "open"} \cup Header \cup Continuation
ASSUME BoundAssumption == MaxLevels \in Nat \ {0} /\ MaxLines \in Nat

VARIABLES
  lines,    (* the lines read so far                                       *)
  indents,  (* indent_stack[0 .. depth]                                    *)
  tokens,   (* the tokens the parser has still to read, each with its line *)
  ended,    (* the lexer has reached the end of the file                   *)
  suites,   (* parse_statement_list activations: the header line of each   *)
  want,     (* where in its grammar rule the innermost activation stands   *)
  last,     (* the clause whose suite was closed last                      *)
  tree,     (* tree[j]: the header (or, of elif and else, the clause) that *)
            (*   statement j was attached to, 0 at top level               *)
  status    (* "reading", "accepted", "rejected"                           *)

vars == <<lines, indents, tokens, ended, suites, want, last, tree, status>>

Init ==
  /\ lines = << >> /\ indents = <<0>> /\ tokens = << >> /\ ended = FALSE
  /\ suites = <<0>> /\ want = "statement" /\ last = 0
  /\ tree = [j \in {} |-> 0]
  /\ status = "reading"

-----------------------------------------------------------------------------
(***************************************************************************)
(* The lexer.                                                              *)
(***************************************************************************)
Token(kind) == [kind |-> kind, line |-> Len(lines) + 1]
Times(n, kind) == [i \in 1 .. n |-> Token(kind)]
Column0 == indents[Len(indents)]
lexer == <<lines, indents, ended>>
parser == <<suites, want, last, tree>>

Reading == status = "reading" /\ tokens = << >> /\ ~ended

\* Brackets do not nest over lines: an element can hold complete ones.
NextLine(n, k) ==
  /\ Reading /\ Len(lines) < MaxLines
  /\ want = "bracket" => k # "open"
  /\ lines' = Append(lines, [indent |-> n, kind |-> k])
  /\ UNCHANGED <<ended, parser>>

\* A line of blanks or a comment is a NEWLINE and has no indentation.
BlankLine(n, k) ==
  /\ NextLine(n, k) /\ k = "blank" /\ n = 0
  /\ tokens' = <<Token("NEWLINE")>>
  /\ UNCHANGED <<indents, status>>

SameLine(n, k) ==
  /\ NextLine(n, k) /\ k # "blank" /\ n = Column0
  /\ tokens' = <<Token(k), Token("NEWLINE")>>
  /\ UNCHANGED <<indents, status>>

DeeperLine(n, k) ==
  /\ NextLine(n, k) /\ k # "blank" /\ n > Column0
  /\ IF Len(indents) < MaxLevels
     THEN /\ indents' = Append(indents, n)
          /\ tokens' = <<Token("INDENT"), Token(k), Token("NEWLINE")>>
          /\ UNCHANGED status
     ELSE status' = "rejected" /\ UNCHANGED <<indents, tokens>>

\* Variant with a fault: a line may end at a column no open line started in.
LooserLine(n, k) ==
  /\ NextLine(n, k) /\ k # "blank" /\ n < Column0
  /\ LET kept == Cardinality({i \in DOMAIN indents : indents[i] <= n})
     IN /\ indents' = SubSeq(indents, 1, kept)
        /\ tokens' = Times(Len(indents) - kept, "DEDENT") \o <<Token(k), Token("NEWLINE")>>
        /\ UNCHANGED status

\* One DEDENT for each column popped; the line must come to rest on one.
ShallowerLine(n, k) ==
  /\ NextLine(n, k) /\ k # "blank" /\ n < Column0
  /\ LET kept == Cardinality({i \in DOMAIN indents : indents[i] <= n})
     IN IF indents[kept] = n
        THEN /\ indents' = SubSeq(indents, 1, kept)
             /\ tokens' = Times(Len(indents) - kept, "DEDENT") \o <<Token(k), Token("NEWLINE")>>
             /\ UNCHANGED status
        ELSE status' = "rejected" /\ UNCHANGED <<indents, tokens>>

EndOfFile ==
  /\ Reading
  /\ ended' = TRUE
  /\ tokens' = Append(Times(Len(indents) - 1, "DEDENT"), Token("EOF"))
  /\ UNCHANGED <<lines, indents, parser, status>>

-----------------------------------------------------------------------------
(***************************************************************************)
(* The parser.                                                             *)
(***************************************************************************)
Peek == IF tokens = << >> THEN [kind |-> "none", line |-> 0] ELSE Head(tokens)
Peeks(w, K) == status = "reading" /\ want = w /\ Peek.kind \in K
Consume == tokens' = Tail(tokens) /\ UNCHANGED <<lexer, status>>

InSuite == Len(suites) > 1
Suite == suites[Len(suites)]

\* The statement on the line of the next token belongs to h.
Attach(h) == tree' = [j \in DOMAIN tree \cup {Peek.line} |-> IF j = Peek.line THEN h ELSE tree[j]]

SkipNewline ==
  /\ Peeks("statement", {"NEWLINE"})
  /\ Consume /\ UNCHANGED parser

SimpleStatement ==
  /\ Peeks("statement", {"stmt"})
  /\ Consume /\ Attach(Suite)
  /\ UNCHANGED <<suites, want, last>>

OpenBracket ==
  /\ Peeks("statement", {"open"})
  /\ Consume /\ Attach(Suite) /\ want' = "bracket"
  /\ UNCHANGED <<suites, last>>

\* parse_skip_container_layout and the elements.
SkipInBracket ==
  /\ Peeks("bracket", {"NEWLINE", "INDENT", "DEDENT", "item"})
  /\ Consume /\ UNCHANGED parser

CloseBracket ==
  /\ Peeks("bracket", {"close"})
  /\ Consume /\ want' = "statement"
  /\ UNCHANGED <<suites, last, tree>>

CompoundStatement ==
  /\ Peeks("statement", {"if", "loop"})
  /\ Consume /\ Attach(Suite)
  /\ suites' = Append(suites, Peek.line) /\ want' = "newline"
  /\ UNCHANGED last

ExpectNewline ==
  /\ Peeks("newline", {"NEWLINE"})
  /\ Consume /\ want' = "indent"
  /\ UNCHANGED <<suites, last, tree>>

ExpectIndent ==
  /\ Peeks("indent", {"INDENT"})
  /\ Consume /\ want' = "statement"
  /\ UNCHANGED <<suites, last, tree>>

\* The list ends at the token that cannot start a statement of it.
EndSuite ==
  /\ Peeks("statement", {"DEDENT", "EOF"} \cup Clause) /\ InSuite
  /\ want' = "dedent"
  /\ UNCHANGED <<lexer, tokens, suites, last, tree, status>>

\* Variant with a fault: an elif or else is taken for the next statement.
ExpectDedentOnly ==
  /\ Peeks("dedent", {"DEDENT"})
  /\ Consume
  /\ suites' = SubSeq(suites, 1, Len(suites) - 1) /\ last' = Suite
  /\ want' = "statement"
  /\ UNCHANGED tree

ExpectDedent ==
  /\ Peeks("dedent", {"DEDENT"})
  /\ Consume
  /\ suites' = SubSeq(suites, 1, Len(suites) - 1) /\ last' = Suite
  /\ want' = IF lines[Suite].kind \in {"if", "elif"} THEN "clause" ELSE "statement"
  /\ UNCHANGED tree

NextClause ==
  /\ Peeks("clause", Clause)
  /\ Consume /\ Attach(last)
  /\ suites' = Append(suites, Peek.line) /\ want' = "newline"
  /\ UNCHANGED last

NoClause ==
  /\ status = "reading" /\ want = "clause" /\ tokens # << >> /\ Peek.kind \notin Clause
  /\ want' = "statement"
  /\ UNCHANGED <<lexer, tokens, suites, last, tree, status>>

Accept ==
  /\ Peeks("statement", {"EOF"}) /\ ~InSuite
  /\ status' = "accepted"
  /\ UNCHANGED <<lexer, tokens, parser>>

\* What the rule the parser is in can go on with.
Expected ==
  CASE want = "statement" -> {"NEWLINE", "EOF", "stmt", "open", "if", "loop"}
                             \cup IF InSuite THEN {"DEDENT"} \cup Clause ELSE {}
    [] want = "newline"   -> {"NEWLINE"}
    [] want = "indent"    -> {"INDENT"}
    [] want = "dedent"    -> {"DEDENT"}
    [] want = "bracket"   -> {"NEWLINE", "INDENT", "DEDENT", "item", "close"}
    [] want = "clause"    -> {Peek.kind}

ParseError ==
  /\ status = "reading" /\ tokens # << >> /\ Peek.kind \notin Expected
  /\ status' = "rejected"
  /\ UNCHANGED <<lexer, tokens, parser>>

ReadLine(n, k) == BlankLine(n, k) \/ SameLine(n, k) \/ DeeperLine(n, k) \/ ShallowerLine(n, k)

Parse ==
  \/ SkipNewline \/ SimpleStatement \/ CompoundStatement
  \/ OpenBracket \/ SkipInBracket \/ CloseBracket
  \/ ExpectNewline \/ ExpectIndent \/ EndSuite \/ ExpectDedent
  \/ NextClause \/ NoClause \/ Accept \/ ParseError

Next == EndOfFile \/ Parse \/ \E n \in Column, k \in Kind : ReadLine(n, k)

Spec == Init /\ [][Next]_vars

-----------------------------------------------------------------------------
\* The reference: what the indentation of the lines says.
Col(j) == lines[j].indent
Is(j, K) == lines[j].kind \in K
Statements == {j \in DOMAIN lines : ~Is(j, Continuation \cup {"blank"})}

Latest(S) == IF S = {} THEN 0 ELSE CHOOSE j \in S : \A i \in S : i <= j
Owner(j) == Latest({i \in Statements : i < j /\ Col(i) < Col(j)})
Before(j) == Latest({i \in Statements : i < j /\ i > Owner(j) /\ Col(i) <= Col(j)})
Opener(j) == Latest({i \in DOMAIN lines : i < j /\ Is(i, {"open"})})
Opened(j) == Opener(j) # 0 /\ ~\E i \in Opener(j) .. j - 1 : Is(i, {"close"})

\* The layout of every bracket in the repository's programs: elements indented
\* alike and more than the line that opens the bracket, the closing line as
\* that line.
Hanging ==
  \A j \in DOMAIN lines : Is(j, Continuation) /\ Opener(j) # 0 =>
    /\ Is(j, {"close"}) => Col(j) = Col(Opener(j))
    /\ Is(j, {"item"}) => Col(j) > Col(Opener(j))
    /\ \A i \in Opener(j) .. j : Is(i, {"item"}) /\ Is(j, {"item"}) => Col(i) = Col(j)

\* The lines are the beginning of a program whose layout is right.  The first
\* statement of a suite follows its header at once: the grammar has no NEWLINE
\* between the two, so a blank or comment line there is an error.
WellFormed ==
  /\ Hanging
  /\ \A j \in DOMAIN lines : Is(j, Continuation) <=> Opened(j) /\ ~Is(j, {"blank"})
  /\ \A j \in Statements :
       /\ IF Owner(j) = 0 THEN Col(j) = 0 ELSE Is(Owner(j), Header)
       /\ \A i \in Statements : i < j /\ Owner(i) = Owner(j) => Col(i) = Col(j)
       /\ Is(j, Clause) => Before(j) # 0 /\ Is(Before(j), {"if", "elif"})
       /\ Is(j, Header) /\ j < Len(lines) => j + 1 \in Statements /\ Owner(j + 1) = j
  /\ ended => \A j \in DOMAIN lines : j = Len(lines) =>
                ~Is(j, Header) /\ ~(Is(j, {"open", "item"})) /\ ~Opened(j + 1)

\* The columns that line j leaves open: a correct stack holds these.
OpenColumns(j) ==
  {0} \cup {Col(i) : i \in {i \in 1 .. j : /\ ~Is(i, {"blank"})
                                           /\ \A m \in i .. j : Is(m, {"blank"}) \/ Col(m) >= Col(i)}}

TooDeep == \E j \in DOMAIN lines : Cardinality(OpenColumns(j)) > MaxLevels

(***************************************************************************)
(* Properties.                                                             *)
(***************************************************************************)
\* An accepted program with hanging brackets has the structure its
\* indentation shows: every statement was parsed, once, as a statement of
\* the suite of the nearest less indented header, and every elif and else
\* continues the if before it in the same column.
AcceptedFaithful ==
  status = "accepted" /\ Hanging =>
    /\ DOMAIN tree = Statements
    /\ \A j \in Statements : tree[j] = IF Is(j, Clause) THEN Before(j) ELSE Owner(j)

\* A file is refused only when its layout is wrong or nested too deeply, by
\* the lexer at a dedent to no open column or by the parser at any token.
RejectedJustified == status = "rejected" => ~WellFormed \/ TooDeep
=============================================================================
