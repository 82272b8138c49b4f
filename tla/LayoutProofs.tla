---------------------------- MODULE LayoutProofs ----------------------------
(***************************************************************************)
(* AcceptedFaithful and RejectedJustified hold for files of any length,    *)
(* with any columns and any bound on the nesting: IInv is inductive.  What *)
(* relates the lexer's columns to the parser's suites is Core; it holds    *)
(* while the brackets hang and the parser is not Doomed, that is, as long  *)
(* as the tokens of the last line do not force a ParseError.               *)
(***************************************************************************)
EXTENDS Layout, TLAPS, FiniteSetTheorems, NaturalsInduction, WellFoundedInduction

TextKind == {"blank", "stmt", "open"} \cup Header \cup Continuation
LineType == [indent : Nat, kind : TextKind]
TokenType == [kind : TextKind \cup {"INDENT", "DEDENT", "NEWLINE", "EOF"}, line : Nat]

TypeOK ==
  /\ lines \in Seq(LineType)
  /\ indents \in Seq(Nat) /\ tokens \in Seq(TokenType)
  /\ ended \in BOOLEAN
  /\ suites \in Seq(Nat) /\ last \in Nat
  /\ want \in {"statement", "newline", "indent", "dedent", "bracket", "clause"}
  /\ status \in {"reading", "accepted", "rejected"}

-----------------------------------------------------------------------------
(***************************************************************************)
(* What the pending tokens say.                                            *)
(***************************************************************************)
\* The text of the last line is still among the tokens; the lines and the
\* statements that the parser has seen.
Pending == ~ended /\ Len(tokens) >= 2
Seen == IF Pending THEN Len(lines) - 1 ELSE Len(lines)
Done == {s \in Statements : s <= Seen}
Top == indents[Len(indents)]

IndentPending == tokens # << >> /\ tokens[1].kind = "INDENT"
Dedents ==
  IF tokens = << >> \/ IndentPending THEN 0
  ELSE IF ended THEN Len(tokens) - 1
       ELSE IF Len(tokens) >= 2 THEN Len(tokens) - 2 ELSE 0

\* The lexer does not pop the columns it closes at the end of the file.
Levels == IF ended THEN 1 ELSE Len(indents)

Stack ==
  /\ Len(indents) >= 1 /\ indents[1] = 0
  /\ \A i, j \in DOMAIN indents : i < j => indents[i] < indents[j]

LineTokens ==
  /\ ~ended /\ tokens # << >> => tokens[Len(tokens)].kind = "NEWLINE" /\ Len(lines) >= 1
  /\ Pending =>
       /\ tokens[Len(tokens) - 1].kind = lines[Len(lines)].kind
       /\ tokens[Len(tokens) - 1].line = Len(lines)
       /\ ~Is(Len(lines), {"blank"})
       /\ Col(Len(lines)) = Top
       /\ IF IndentPending THEN Len(tokens) = 3 /\ Len(indents) >= 2
          ELSE \A i \in 1 .. Len(tokens) - 2 : tokens[i].kind = "DEDENT"

EndTokens ==
  ended => /\ tokens # << >> /\ tokens[Len(tokens)].kind = "EOF"
           /\ \A i \in 1 .. Len(tokens) - 1 : tokens[i].kind = "DEDENT"

Waits ==
  /\ want = "newline" => ~ended /\ Len(tokens) = 1
  /\ want \in {"dedent", "clause"} => ended \/ Pending

\* Every column of the stack is open.
OpenStack ==
  \A i \in DOMAIN indents : i # 1 =>
    \E l \in DOMAIN lines : /\ ~Is(l, {"blank"}) /\ Col(l) = indents[i]
                            /\ \A q \in l .. Len(lines) : Is(q, {"blank"}) \/ Col(q) >= Col(l)

TreeDomain == DOMAIN tree = Done

Reads == Stack /\ LineTokens /\ EndTokens /\ Waits /\ OpenStack /\ TreeDomain

-----------------------------------------------------------------------------
(***************************************************************************)
(* Columns and suites.                                                     *)
(***************************************************************************)
\* Whatever the parser does with the tokens it has, it ends in a ParseError.
Doomed ==
  /\ tokens # << >>
  /\ \/ want = "bracket" /\ (ended \/ (Pending /\ ~Is(Len(lines), Continuation)))
     \/ want # "bracket" /\ Pending /\ Is(Len(lines), Continuation)
     \/ want = "indent" /\ ~IndentPending
     \/ want \in {"statement", "clause"} /\ IndentPending
     \/ want = "dedent" /\ Dedents = 0
     \/ want = "statement" /\ Pending /\ Dedents = 0 /\ ~IndentPending /\ Is(Len(lines), Clause)
     \/ want = "indent" /\ Pending /\ Is(Len(lines), Clause)

SuitesOK ==
  /\ Len(suites) >= 1 /\ suites[1] = 0
  /\ \A i, j \in DOMAIN suites : i < j => suites[i] < suites[j]
  /\ \A i \in DOMAIN suites : i # 1 => suites[i] \in Done /\ Is(suites[i], Header)

\* Columns still to be closed count, those still to be opened do not.
LevelsOK ==
  /\ want \in {"statement", "dedent", "clause"} => Len(suites) = Levels + Dedents
  /\ want \in {"newline", "indent"} => Len(suites) = Len(indents) + IF IndentPending THEN 0 ELSE 1
  /\ want = "bracket" => Len(suites) \in DOMAIN indents

\* The header of a suite owns every statement that follows in its column.
Owners ==
  \A i \in DOMAIN indents \cap DOMAIN suites :
    \A s \in Done : s > suites[i] => Col(s) >= indents[i]

\* A header stands in the column of the suite around it.
Heads ==
  \A i \in DOMAIN indents : i + 1 \in DOMAIN suites =>
    /\ Col(suites[i + 1]) = indents[i]
    /\ \A s \in Done : s > suites[i + 1] => Col(s) > indents[i]

Parent(j) == IF Is(j, Clause) THEN Before(j) ELSE Owner(j)
TreeOK == \A j \in Done : tree[j] = Parent(j)

\* A clause in the innermost column would continue h.
Continues(h) ==
  /\ h \in Done /\ h > Suite /\ Col(h) = Top /\ Is(h, {"if", "elif"})
  /\ \A s \in Done : s > h => Col(s) > Top
LastOK == want = "clause" /\ Dedents = 0 /\ ~ended => Continues(last)

Newest(s) ==
  /\ s \in Done /\ \A r \in Done : r <= s
  /\ want # "bracket" => Col(s) = Top
  /\ Is(s, Header) <=> want \in {"newline", "indent"}
NewestOK ==
  ~Pending /\ ~ended =>
    /\ (Done = {} /\ Top = 0 /\ want = "statement") \/ \E s \in Done : Newest(s)
    /\ want \in {"newline", "indent"} => Suite = Len(lines) /\ Len(lines) \in Done

\* The bracket that line b opens.
Indented(b) ==
  IF Pending /\ Is(Len(lines), {"close"}) THEN Len(indents) = Len(suites)
  ELSE IF \E i \in b + 1 .. Len(lines) : Is(i, {"item"})
       THEN /\ Len(indents) = Len(suites) + 1
            /\ \A i \in b + 1 .. Len(lines) : Is(i, {"item"}) => Col(i) = Top
       ELSE Len(indents) = Len(suites)
Holds(b) ==
  /\ b \in 1 .. Seen /\ Is(b, {"open"}) /\ Col(b) = indents[Len(suites)]
  /\ \A i \in b + 1 .. Seen : Is(i, {"item", "blank"})
  /\ Indented(b)
Closed(b) == \E i \in b + 1 .. Seen : Is(i, {"close"})
Brackets ==
  /\ want = "bracket" => \E b \in 1 .. Seen : Holds(b)
  /\ want # "bracket" => \A b \in 1 .. Seen : Is(b, {"open"}) => Closed(b)

Core == SuitesOK /\ LevelsOK /\ Owners /\ Heads /\ TreeOK /\ LastOK /\ NewestOK /\ Brackets

\* There is a suite to close where a DEDENT is expected.
Nesting == Len(suites) >= 1 /\ (want \in {"newline", "indent", "dedent"} => Len(suites) > 1)

ReadsInv == status # "rejected" => Reads
CoreInv == status # "rejected" /\ Hanging /\ ~Doomed => Core
DoomInv == status # "rejected" /\ WellFormed => ~Doomed
AcceptInv == status = "accepted" => ended /\ Len(tokens) = 1 /\ ~Doomed

IInv == TypeOK /\ Nesting /\ ReadsInv /\ CoreInv /\ DoomInv /\ AcceptInv /\ RejectedJustified

-----------------------------------------------------------------------------
(***************************************************************************)
(* Types.                                                                  *)
(***************************************************************************)
LEMMA TypeFacts ==
  ASSUME TypeOK
  PROVE  /\ Len(lines) \in Nat /\ DOMAIN lines = 1 .. Len(lines)
         /\ Len(indents) \in Nat /\ DOMAIN indents = 1 .. Len(indents)
         /\ Len(tokens) \in Nat /\ DOMAIN tokens = 1 .. Len(tokens)
         /\ Len(suites) \in Nat /\ DOMAIN suites = 1 .. Len(suites)
         /\ tokens # << >> <=> Len(tokens) > 0
         /\ \A j \in 1 .. Len(lines) : lines[j] \in LineType /\ Col(j) \in Nat
         /\ \A i \in 1 .. Len(indents) : indents[i] \in Nat
         /\ \A i \in 1 .. Len(tokens) : tokens[i] \in TokenType
         /\ \A i \in 1 .. Len(suites) : suites[i] \in Nat
         /\ Statements \subseteq 1 .. Len(lines)
<1>1. \A j \in 1 .. Len(lines) : lines[j] \in LineType
  BY DEF TypeOK
<1>2. \A j \in 1 .. Len(lines) : Col(j) \in Nat
  BY <1>1 DEF LineType, Col
<1>3. /\ Len(lines) \in Nat /\ DOMAIN lines = 1 .. Len(lines)
      /\ Len(indents) \in Nat /\ DOMAIN indents = 1 .. Len(indents)
      /\ Len(tokens) \in Nat /\ DOMAIN tokens = 1 .. Len(tokens)
      /\ Len(suites) \in Nat /\ DOMAIN suites = 1 .. Len(suites)
  BY DEF TypeOK
<1>4. /\ \A i \in 1 .. Len(indents) : indents[i] \in Nat
      /\ \A i \in 1 .. Len(tokens) : tokens[i] \in TokenType
      /\ \A i \in 1 .. Len(suites) : suites[i] \in Nat
  BY DEF TypeOK
<1>5. tokens # << >> <=> Len(tokens) > 0
  BY DEF TypeOK
<1>6. Statements \subseteq 1 .. Len(lines)
  BY <1>3 DEF Statements
<1> QED
  BY <1>1, <1>2, <1>3, <1>4, <1>5, <1>6

\* The kinds of token there are, and where in the list they stand.
PeekSays ==
  /\ Peek = tokens[1] /\ Len(tokens) \in Nat /\ Len(tokens) > 0
  /\ Peek.kind = "NEWLINE" => ~ended /\ Len(tokens) = 1
  /\ Peek.kind = "EOF" => ended /\ Len(tokens) = 1
  /\ Peek.kind = "INDENT" <=> IndentPending
  /\ IndentPending => ~ended /\ Len(tokens) = 3
  /\ Peek.kind = "DEDENT" <=> Dedents > 0
  /\ Dedents \in Nat
  /\ Peek.kind \notin {"NEWLINE", "EOF", "INDENT", "DEDENT"} =>
       /\ ~ended /\ Len(tokens) = 2 /\ Dedents = 0 /\ ~IndentPending
       /\ Peek.kind = lines[Len(lines)].kind /\ Peek.line = Len(lines)
  /\ ended /\ Len(tokens) = 1 => Peek.kind = "EOF"
  /\ ~ended /\ Len(tokens) = 1 => Peek.kind = "NEWLINE"
  /\ ~ended /\ Len(tokens) = 2 =>
       Peek.kind = lines[Len(lines)].kind /\ Peek.line = Len(lines)

LEMMA Phases ==
  ASSUME TypeOK, LineTokens, EndTokens, tokens # << >>
  PROVE  PeekSays
<1>1. /\ Peek = tokens[1] /\ Len(tokens) \in Nat /\ Len(tokens) > 0
      /\ Peek.kind = "INDENT" <=> IndentPending
  BY TypeFacts DEF Peek, IndentPending, TypeOK
<1>2. CASE ended
  <2>1. /\ tokens[Len(tokens)].kind = "EOF"
        /\ \A i \in 1 .. Len(tokens) - 1 : tokens[i].kind = "DEDENT"
    BY <1>2 DEF EndTokens
  <2>2. ~IndentPending /\ Dedents = Len(tokens) - 1
    <3>1. tokens[1].kind \in {"EOF", "DEDENT"}
      BY <2>1, <1>1
    <3> QED
      BY <3>1, <1>2 DEF IndentPending, Dedents
  <2>3. Len(tokens) = 1 => Peek.kind = "EOF"
    BY <2>1, <1>1
  <2>4. Len(tokens) > 1 => Peek.kind = "DEDENT"
    BY <2>1, <1>1
  <2> QED
    BY <1>1, <1>2, <2>2, <2>3, <2>4 DEF PeekSays
<1>3. CASE ~ended /\ Len(tokens) = 1
  <2>1. Peek.kind = "NEWLINE"
    BY <1>1, <1>3 DEF LineTokens
  <2> QED
    BY <1>1, <1>3, <2>1 DEF Dedents, PeekSays
<1>4. CASE ~ended /\ Len(tokens) >= 2
  <2>0. Len(tokens) \in Nat /\ Len(tokens) > 0
    BY <1>1
  <2>1. Pending
    BY <1>4 DEF Pending
  <2>2. /\ tokens[Len(tokens) - 1].kind = lines[Len(lines)].kind
        /\ tokens[Len(tokens) - 1].line = Len(lines)
        /\ Len(lines) >= 1
        /\ IF IndentPending THEN Len(tokens) = 3 /\ Len(indents) >= 2
           ELSE \A i \in 1 .. Len(tokens) - 2 : tokens[i].kind = "DEDENT"
    BY <2>1, <1>4 DEF LineTokens
  <2>3. lines[Len(lines)].kind \in TextKind
    BY <2>2, TypeFacts DEF LineType
  <2>4. CASE IndentPending
    <3>1. Peek.kind = "INDENT" /\ Len(tokens) = 3
      BY <1>1, <2>2, <2>4
    <3>2. Dedents = 0
      BY <2>4 DEF Dedents
    <3> QED
      BY <1>1, <1>4, <2>4, <3>1, <3>2 DEF PeekSays
  <2>5. CASE ~IndentPending /\ Len(tokens) = 2
    <3> Len(tokens) = 2 /\ tokens # << >> /\ ~ended
      BY <2>5, <1>4
    <3>1. Peek.kind = lines[Len(lines)].kind /\ Peek.line = Len(lines)
      BY <1>1, <2>2, <2>5
    <3>2. Dedents = 0
      BY <2>5, <1>4 DEF Dedents
    <3>3. Peek.kind \notin {"NEWLINE", "EOF", "INDENT", "DEDENT"}
      BY <3>1, <2>3 DEF TextKind, Header, Continuation
    <3> QED
      BY <1>1, <1>4, <2>5, <3>1, <3>2, <3>3 DEF PeekSays
  <2>6. CASE ~IndentPending /\ Len(tokens) > 2
    <3>1. Peek.kind = "DEDENT"
      BY <1>1, <2>2, <2>6
    <3>2. Len(tokens) >= 2 /\ ~ended /\ tokens # << >> /\ ~IndentPending
      BY <2>6, <1>4
    <3>3. Dedents = Len(tokens) - 2
      BY ONLY <3>2 DEF Dedents
    <3>4. Dedents > 0 /\ Dedents \in Nat
      BY ONLY <3>3, <2>0, <2>6
    <3>5. \A n \in Nat : n > 2 => n # 1 /\ n # 2
      OBVIOUS
    <3>7. Len(tokens) > 2
      BY <2>6
    <3>8. Len(tokens) # 1 /\ Len(tokens) # 2
      BY ONLY <2>0, <3>5, <3>7
    <3>6. Peek = tokens[1] /\ (Peek.kind = "INDENT" <=> IndentPending)
      BY <1>1
    <3> QED
      BY ONLY <2>0, <3>2, <3>8, <3>1, <3>4, <3>6 DEF PeekSays
  <2>7. Len(tokens) = 2 \/ Len(tokens) > 2
    BY ONLY <2>0, <1>4
  <2>8. \/ IndentPending
        \/ ~IndentPending /\ Len(tokens) = 2
        \/ ~IndentPending /\ Len(tokens) > 2
    BY ONLY <2>7
  <2> QED
    BY ONLY <2>4, <2>5, <2>6, <2>8
<1>5. ended \/ (~ended /\ Len(tokens) = 1) \/ (~ended /\ Len(tokens) >= 2)
  <2>1. Len(tokens) \in Nat /\ Len(tokens) > 0
    BY <1>1
  <2>2. \A n \in Nat : n > 0 => n = 1 \/ n >= 2
    OBVIOUS
  <2>3. Len(tokens) = 1 \/ Len(tokens) >= 2
    BY ONLY <2>1, <2>2
  <2> QED
    BY ONLY <2>3
<1> QED
  BY ONLY <1>2, <1>3, <1>4, <1>5

\* Where there is no token there is nothing to wait for.
LEMMA NoTokens ==
  ASSUME tokens = << >>
  PROVE  ~Pending /\ ~IndentPending /\ Dedents = 0 /\ Seen = Len(lines) /\ ~Doomed
BY DEF Pending, IndentPending, Dedents, Seen, Doomed

-----------------------------------------------------------------------------
(***************************************************************************)
(* What stays when the lines stay.                                         *)
(***************************************************************************)
LEMMA SameLines ==
  ASSUME lines' = lines
  PROVE  /\ \A j : Col(j)' = Col(j)
         /\ \A j, K : Is(j, K)' = Is(j, K)
         /\ Statements' = Statements
         /\ \A j : Owner(j)' = Owner(j) /\ Before(j)' = Before(j) /\ Opener(j)' = Opener(j)
         /\ \A j : Parent(j)' = Parent(j)
         /\ Hanging' = Hanging
         /\ TooDeep' = TooDeep
<1>1. /\ \A j : Col(j)' = Col(j)
      /\ \A j, K : Is(j, K)' = Is(j, K)
  BY DEF Col, Is
<1>2. Statements' = Statements
  BY DEF Statements, Is, Continuation
<1>3. \A j : Owner(j)' = Owner(j) /\ Before(j)' = Before(j) /\ Opener(j)' = Opener(j)
  BY DEF Owner, Before, Opener, Statements, Is, Col, Latest, Continuation
<1>4. \A j : Parent(j)' = Parent(j)
  BY <1>3 DEF Parent, Is, Clause
<1>5. Hanging' = Hanging
  BY DEF Hanging, Is, Col, Opener, Latest, Continuation
<1>6. TooDeep' = TooDeep
  BY DEF TooDeep, OpenColumns, Is, Col
<1> QED
  BY <1>1, <1>2, <1>3, <1>4, <1>5, <1>6

LEMMA SameProgram ==
  ASSUME lines' = lines, ended' = ended
  PROVE  WellFormed' = WellFormed
BY DEF WellFormed, Hanging, Statements, Owner, Before, Opener, Opened, Is, Col, Latest,
       Continuation, Header, Clause

-----------------------------------------------------------------------------
(***************************************************************************)
(* Reading one token.                                                      *)
(***************************************************************************)
LEMMA Counting ==
  /\ \A n \in Nat : n > 0 => n = 1 \/ n >= 2
  /\ \A n \in Nat : n # 0 => n > 0 /\ n >= 1 /\ n - 1 \in Nat
  /\ \A n \in Nat : n >= 2 <=> n # 0 /\ n # 1
OBVIOUS

LEMMA Consumed ==
  ASSUME TypeOK, tokens # << >>, Consume
  PROVE  /\ tokens' \in Seq(TokenType) /\ Len(tokens') = Len(tokens) - 1 /\ Len(tokens') \in Nat
         /\ \A i \in 1 .. Len(tokens') : tokens'[i] = tokens[i + 1]
         /\ tokens' # << >> <=> Len(tokens') > 0
         /\ lines' = lines /\ indents' = indents /\ ended' = ended /\ status' = status
<1>1. tokens \in Seq(TokenType) /\ tokens' = Tail(tokens)
  BY DEF TypeOK, Consume
<1>2. /\ Tail(tokens) \in Seq(TokenType) /\ Len(Tail(tokens)) = Len(tokens) - 1
      /\ Len(Tail(tokens)) \in Nat
      /\ \A i \in 1 .. Len(Tail(tokens)) : Tail(tokens)[i] = tokens[i + 1]
  BY ONLY <1>1, tokens # << >>
<1>3. tokens' # << >> <=> Len(tokens') > 0
  BY ONLY <1>1, <1>2
<1> QED
  BY <1>1, <1>2, <1>3 DEF Consume, lexer

\* A step of the parser: the text that is pending stays the same.
SameText ==
  /\ Pending' <=> Pending
  /\ Seen' = Seen /\ Done' = Done
  /\ lines' = lines /\ indents' = indents /\ ended' = ended

LEMMA NewlineRead ==
  ASSUME TypeOK, LineTokens, EndTokens, tokens # << >>, Consume, Peek.kind = "NEWLINE"
  PROVE  /\ SameText /\ ~Pending /\ ~ended /\ tokens' = << >>
         /\ ~IndentPending /\ ~IndentPending' /\ Dedents = 0 /\ Dedents' = 0
         /\ LineTokens' /\ EndTokens'
<1>1. ~ended /\ Len(tokens) = 1 /\ ~IndentPending
  BY Phases DEF PeekSays
<1>2. ~(Len(tokens) >= 2)
  BY <1>1
<1>3. tokens' = << >> /\ ended' = ended /\ lines' = lines /\ indents' = indents
  BY <1>1, Consumed
<1>4. ~Pending /\ ~Pending' /\ Dedents = 0 /\ Dedents' = 0 /\ ~IndentPending'
  BY <1>1, <1>2, <1>3 DEF Pending, Dedents, IndentPending
<1>5. Statements' = Statements
  BY <1>3, SameLines
<1>6. Seen' = Seen /\ Done' = Done
  BY <1>3, <1>4, <1>5 DEF Seen, Done
<1>7. LineTokens' /\ EndTokens'
  BY <1>1, <1>3, <1>4 DEF LineTokens, EndTokens
<1> QED
  BY <1>1, <1>3, <1>4, <1>6, <1>7 DEF SameText

LEMMA IndentRead ==
  ASSUME TypeOK, LineTokens, EndTokens, tokens # << >>, Consume, Peek.kind = "INDENT"
  PROVE  /\ SameText /\ Pending /\ ~ended /\ Len(tokens') = 2 /\ tokens' # << >>
         /\ IndentPending /\ ~IndentPending' /\ Dedents = 0 /\ Dedents' = 0
         /\ LineTokens' /\ EndTokens'
<1>1. ~ended /\ Len(tokens) = 3 /\ IndentPending
  BY Phases DEF PeekSays
<1>2. /\ Len(tokens') = 2 /\ ended' = ended /\ lines' = lines /\ indents' = indents
      /\ tokens' # << >> /\ tokens'[1] = tokens[2] /\ tokens'[2] = tokens[3]
  <2>1. /\ Len(tokens') = 3 - 1 /\ ended' = ended /\ lines' = lines /\ indents' = indents
        /\ \A i \in 1 .. Len(tokens') : tokens'[i] = tokens[i + 1]
        /\ tokens' # << >> <=> Len(tokens') > 0
    BY <1>1, Consumed
  <2>2. Len(tokens') = 2
    BY <2>1
  <2>3. tokens'[1] = tokens[1 + 1] /\ tokens'[2] = tokens[2 + 1]
    BY ONLY <2>1, <2>2
  <2> QED
    BY ONLY <2>1, <2>2, <2>3
<1>3. Pending /\ Pending'
  BY <1>1, <1>2 DEF Pending
<1>4. /\ tokens[2].kind = lines[Len(lines)].kind /\ tokens[2].line = Len(lines) /\ Len(lines) >= 1
      /\ tokens[3].kind = "NEWLINE" /\ ~Is(Len(lines), {"blank"}) /\ Col(Len(lines)) = Top
  BY <1>1, <1>3 DEF LineTokens
<1>5. tokens'[1].kind \in TextKind
  BY <1>2, <1>4, TypeFacts DEF LineType
<1>6. ~IndentPending'
  BY <1>5 DEF IndentPending, TextKind, Header, Continuation
<1>7. Dedents = 0 /\ Dedents' = 0
  BY <1>1, <1>2, <1>6 DEF Dedents
<1>8. Statements' = Statements /\ Top' = Top
  BY <1>2, SameLines DEF Top
<1>9. Seen' = Seen /\ Done' = Done
  BY <1>2, <1>3, <1>8 DEF Seen, Done
<1>10. LineTokens'
  <2>1. (~ended /\ tokens # << >>)' => (tokens[Len(tokens)].kind = "NEWLINE" /\ Len(lines) >= 1)'
    BY <1>2, <1>4
  <2>2. /\ (tokens[Len(tokens) - 1].kind = lines[Len(lines)].kind)'
        /\ (tokens[Len(tokens) - 1].line = Len(lines))'
    BY <1>2, <1>4
  <2>3. (~Is(Len(lines), {"blank"}) /\ Col(Len(lines)) = Top)'
    BY <1>2, <1>4, <1>8 DEF Is, Col
  <2>4. \A i \in 1 .. Len(tokens') - 2 : tokens'[i].kind = "DEDENT"
    BY <1>2
  <2> QED
    BY <1>6, <2>1, <2>2, <2>3, <2>4 DEF LineTokens
<1>11. EndTokens'
  BY <1>1, <1>2 DEF EndTokens
<1> QED
  BY <1>1, <1>2, <1>3, <1>6, <1>7, <1>9, <1>10, <1>11 DEF SameText

LEMMA DedentRead ==
  ASSUME TypeOK, LineTokens, EndTokens, tokens # << >>, Consume, Peek.kind = "DEDENT"
  PROVE  /\ SameText /\ (ended \/ Pending) /\ tokens' # << >>
         /\ ~IndentPending /\ ~IndentPending' /\ Dedents \in Nat /\ Dedents > 0 /\ Dedents' = Dedents - 1
         /\ LineTokens' /\ EndTokens'
<1>1. ~IndentPending /\ Dedents > 0 /\ Dedents \in Nat
  BY Phases DEF PeekSays
<1>2. /\ Len(tokens) \in Nat /\ Len(tokens') = Len(tokens) - 1 /\ Len(tokens') \in Nat
      /\ ended' = ended /\ lines' = lines /\ indents' = indents
      /\ \A i \in 1 .. Len(tokens') : tokens'[i] = tokens[i + 1]
      /\ tokens' # << >> <=> Len(tokens') > 0
  BY Consumed, TypeFacts
<1>3. Statements' = Statements /\ Top' = Top
  BY <1>2, SameLines DEF Top
<1>4. CASE ended
  <2>1. Dedents = Len(tokens) - 1
    BY <1>1, <1>4 DEF Dedents
  <2>2. Len(tokens) >= 2 /\ Len(tokens') >= 1 /\ tokens' # << >>
    BY <1>1, <1>2, <2>1
  <2>3. /\ tokens[Len(tokens)].kind = "EOF"
        /\ \A i \in 1 .. Len(tokens) - 1 : tokens[i].kind = "DEDENT"
    BY <1>4 DEF EndTokens
  <2>4. /\ tokens'[Len(tokens')].kind = "EOF"
        /\ \A i \in 1 .. Len(tokens') - 1 : tokens'[i].kind = "DEDENT"
    BY <1>2, <2>2, <2>3
  <2>5. tokens'[1].kind \in {"EOF", "DEDENT"}
    BY <2>2, <2>4, <1>2
  <2>6. ~IndentPending'
    BY <2>5 DEF IndentPending
  <2>7. Dedents' = Dedents - 1
    BY <1>2, <1>4, <2>1, <2>2, <2>6 DEF Dedents
  <2>8. ~Pending /\ ~Pending' /\ Seen' = Seen /\ Done' = Done
    BY <1>2, <1>3, <1>4 DEF Pending, Seen, Done
  <2>9. LineTokens' /\ EndTokens'
    BY <1>2, <1>4, <2>2, <2>4, <2>8 DEF LineTokens, EndTokens
  <2> QED
    BY <1>1, <1>2, <1>4, <2>2, <2>6, <2>7, <2>8, <2>9 DEF SameText
<1>5. CASE ~ended
  <2>1. Len(tokens) >= 2 /\ Dedents = Len(tokens) - 2
    <3>1. Len(tokens) >= 2
      BY <1>1, <1>5 DEF Dedents
    <3> QED
      BY <3>1, <1>1, <1>5 DEF Dedents
  <2>2. Len(tokens) >= 3 /\ Len(tokens') >= 2 /\ tokens' # << >>
    BY <1>1, <1>2, <2>1
  <2>3. Pending /\ Pending'
    BY <1>2, <1>5, <2>1, <2>2 DEF Pending
  <2>4. /\ tokens[Len(tokens)].kind = "NEWLINE" /\ Len(lines) >= 1
        /\ tokens[Len(tokens) - 1].kind = lines[Len(lines)].kind
        /\ tokens[Len(tokens) - 1].line = Len(lines)
        /\ ~Is(Len(lines), {"blank"}) /\ Col(Len(lines)) = Top
        /\ \A i \in 1 .. Len(tokens) - 2 : tokens[i].kind = "DEDENT"
    BY <1>1, <1>5, <2>2, <2>3 DEF LineTokens
  <2>5. /\ tokens'[Len(tokens')].kind = "NEWLINE"
        /\ tokens'[Len(tokens') - 1].kind = lines[Len(lines)].kind
        /\ tokens'[Len(tokens') - 1].line = Len(lines)
        /\ \A i \in 1 .. Len(tokens') - 2 : tokens'[i].kind = "DEDENT"
    <3> DEFINE n == Len(tokens')
    <3>1. n \in Nat /\ n >= 2 /\ Len(tokens) = n + 1
      BY ONLY <1>2, <2>2
    <3>2. \A i \in 1 .. n : tokens'[i] = tokens[i + 1]
      BY <1>2
    <3> HIDE DEF n
    <3>3. tokens'[n] = tokens[n + 1] /\ tokens'[n - 1] = tokens[(n - 1) + 1] /\ (n - 1) + 1 = n
      BY ONLY <3>1, <3>2
    <3>4. (n + 1) - 1 = n /\ (n + 1) - 2 = n - 1
      BY ONLY <3>1
    <3>5. \A i \in 1 .. n - 2 : i \in 1 .. n /\ i + 1 \in 1 .. n - 1
      BY ONLY <3>1
    <3>6. \A i \in 1 .. n - 2 : tokens'[i].kind = "DEDENT"
      BY <3>1, <3>2, <3>4, <3>5, <2>4
    <3>7. tokens'[n].kind = "NEWLINE" /\ tokens'[n - 1] = tokens[n]
      BY <3>1, <3>3, <2>4
    <3> QED
      BY <3>1, <3>4, <3>6, <3>7, <2>4 DEF n
  <2>6. ~IndentPending'
    <3>1. lines[Len(lines)].kind \in TextKind
      BY <2>4, TypeFacts DEF LineType
    <3>2. tokens'[1].kind \in TextKind \cup {"DEDENT"}
      <4>1. CASE Len(tokens') = 2
        BY <4>1, <2>5, <3>1
      <4>2. CASE Len(tokens') > 2
        BY <4>2, <2>5, <1>2
      <4> QED
        BY <4>1, <4>2, <1>2, <2>2
    <3> QED
      BY <3>2 DEF IndentPending, TextKind, Header, Continuation
  <2>7. Dedents' = Dedents - 1
    <3>1. Dedents' = Len(tokens') - 2
      BY <1>2, <1>5, <2>2, <2>6 DEF Dedents
    <3> QED
      BY <3>1, <1>2, <2>1
  <2>8. Seen' = Seen /\ Done' = Done
    BY <1>2, <1>3, <2>3 DEF Seen, Done
  <2>9. (~Is(Len(lines), {"blank"}) /\ Col(Len(lines)) = Top)'
    BY <1>2, <1>3, <2>4 DEF Is, Col
  <2>10. LineTokens' /\ EndTokens'
    BY <1>2, <1>5, <2>2, <2>3, <2>4, <2>5, <2>6, <2>9 DEF LineTokens, EndTokens
  <2> QED
    BY <1>1, <1>2, <2>2, <2>3, <2>6, <2>7, <2>8, <2>10 DEF SameText
<1> QED
  BY <1>4, <1>5

\* The text of the last line: from now on the parser has seen it.
LEMMA TextRead ==
  ASSUME TypeOK, LineTokens, EndTokens, tokens # << >>, Consume,
         Peek.kind \notin {"NEWLINE", "EOF", "INDENT", "DEDENT"}
  PROVE  /\ lines' = lines /\ indents' = indents /\ ended' = ended /\ ~ended
         /\ Pending /\ ~Pending' /\ Len(tokens') = 1 /\ tokens' # << >>
         /\ Len(lines) >= 1 /\ Seen = Len(lines) - 1 /\ Seen' = Len(lines)
         /\ ~IndentPending /\ ~IndentPending' /\ Dedents = 0 /\ Dedents' = 0
         /\ Peek.kind = lines[Len(lines)].kind /\ Peek.line = Len(lines)
         /\ Col(Len(lines)) = Top /\ ~Is(Len(lines), {"blank"})
         /\ Len(lines) \notin Done
         /\ Done' = Done \cup (Statements \cap {Len(lines)})
         /\ LineTokens' /\ EndTokens'
<1>1. /\ ~ended /\ Len(tokens) = 2 /\ Dedents = 0 /\ ~IndentPending
      /\ Peek.kind = lines[Len(lines)].kind /\ Peek.line = Len(lines)
  BY Phases DEF PeekSays
<1>2. /\ Len(tokens') = 1 /\ ended' = ended /\ lines' = lines /\ indents' = indents
      /\ tokens' # << >> /\ tokens'[1] = tokens[2]
  <2>1. /\ Len(tokens') = 2 - 1 /\ ended' = ended /\ lines' = lines /\ indents' = indents
        /\ \A i \in 1 .. Len(tokens') : tokens'[i] = tokens[i + 1]
        /\ tokens' # << >> <=> Len(tokens') > 0
    BY <1>1, Consumed
  <2>2. Len(tokens') = 1
    BY <2>1
  <2>3. tokens'[1] = tokens[1 + 1]
    BY ONLY <2>1, <2>2
  <2> QED
    BY ONLY <2>1, <2>2, <2>3
<1>3. Pending /\ ~Pending' /\ ~(Len(tokens') >= 2)
  BY <1>1, <1>2 DEF Pending
<1>4. /\ Len(lines) >= 1 /\ tokens[2].kind = "NEWLINE"
      /\ ~Is(Len(lines), {"blank"}) /\ Col(Len(lines)) = Top
  BY <1>1, <1>3 DEF LineTokens, Pending
<1>5. ~IndentPending' /\ Dedents' = 0
  BY <1>1, <1>2, <1>3, <1>4 DEF IndentPending, Dedents
<1>6. Seen = Len(lines) - 1 /\ Seen' = Len(lines)
  BY <1>2, <1>3 DEF Seen
<1>7. Statements' = Statements /\ Statements \subseteq 1 .. Len(lines) /\ Len(lines) \in Nat
  BY <1>2, SameLines, TypeFacts
<1>8. Len(lines) \notin Done
  BY <1>6, <1>7 DEF Done
<1>9. Done' = Done \cup (Statements \cap {Len(lines)})
  <2>1. Done' = {s \in Statements : s <= Len(lines)}
    BY <1>6, <1>7 DEF Done
  <2>2. Done = {s \in Statements : s <= Len(lines) - 1}
    BY <1>6 DEF Done
  <2> QED
    <3> DEFINE n == Len(lines)
    <3>1. n \in Nat /\ Statements \subseteq 1 .. n
      BY <1>7
    <3>2. Done' = {s \in Statements : s <= n} /\ Done = {s \in Statements : s <= n - 1}
      BY <2>1, <2>2
    <3> HIDE DEF n
    <3>3. \A s \in Statements : s <= n /\ (s <= n - 1 <=> s # n)
      BY ONLY <3>1
    <3>4. Done' = Done \cup (Statements \cap {n})
      BY ONLY <3>2, <3>3
    <3> QED
      BY <3>4 DEF n
<1>10. LineTokens' /\ EndTokens'
  BY <1>1, <1>2, <1>3, <1>4 DEF LineTokens, EndTokens
<1> QED
  BY <1>1, <1>2, <1>3, <1>4, <1>5, <1>6, <1>8, <1>9, <1>10

-----------------------------------------------------------------------------
(***************************************************************************)
(* The stack of columns.                                                   *)
(***************************************************************************)
\* A nonempty set of natural numbers has a least element.
LEMMA Smallest ==
  ASSUME NEW S, S \subseteq Nat, S # {}
  PROVE  \E s \in S : \A t \in S : s <= t
<1>1. IsWellFoundedOn(OpToRel(<, Nat), Nat)
  BY NatLessThanWellFounded
<1>2. \E s \in S : \A t \in S : ~(<<t, s>> \in OpToRel(<, Nat))
  BY <1>1, WFMin
<1>3. PICK s \in S : \A t \in S : ~(<<t, s>> \in OpToRel(<, Nat))
  BY <1>2
<1>4. \A t \in S : ~(t < s)
  BY <1>3 DEF OpToRel
<1> QED
  BY <1>4

\* The columns up to n are at the bottom of the stack.
LEMMA Kept ==
  ASSUME TypeOK, Stack, NEW n \in Nat
  PROVE  LET kept == Cardinality({i \in DOMAIN indents : indents[i] <= n})
         IN  /\ kept \in 1 .. Len(indents)
             /\ \A i \in 1 .. kept : indents[i] <= n
             /\ \A i \in kept + 1 .. Len(indents) : indents[i] > n
<1> DEFINE size == Len(indents)
           S == {i \in DOMAIN indents : indents[i] <= n}
<1>1. /\ size \in Nat /\ size >= 1 /\ DOMAIN indents = 1 .. size /\ indents[1] = 0
      /\ \A i \in 1 .. size : indents[i] \in Nat
      /\ \A i, j \in 1 .. size : i < j => indents[i] < indents[j]
  BY TypeFacts DEF Stack
<1> HIDE DEF size
<1>2. \E k \in 1 .. size : S = 1 .. k
  <2>1. CASE \A i \in 1 .. size : indents[i] <= n
    <3>1. S = 1 .. size
      BY <1>1, <2>1
    <3> QED
      BY <3>1, <1>1
  <2>2. CASE \E i \in 1 .. size : indents[i] > n
    <3> DEFINE B == {i \in 1 .. size : indents[i] > n}
    <3>1. PICK m \in B : \A i \in B : m <= i
      <4>1. B # {}
        BY ONLY <2>2
      <4>2. B \subseteq 1 .. size /\ 1 .. size \subseteq Nat
        BY ONLY <1>1
      <4>3. B \subseteq Nat
        BY ONLY <4>2
      <4> HIDE DEF B
      <4> QED
        BY <4>1, <4>3, Smallest
    <3>2. m \in 1 .. size /\ indents[m] > n
      OBVIOUS
    <3>3. m > 1
      BY <1>1, <3>2
    <3>4. \A i \in 1 .. size : i < m => indents[i] <= n
      BY <1>1, <3>1
    <3>5. \A i \in 1 .. size : i > m => indents[i] > n
      BY <1>1, <3>2
    <3>6. S = 1 .. m - 1
      <4>1. /\ \A i \in 1 .. size : indents[i] <= n <=> i < m
            /\ size \in Nat /\ m \in 1 .. size
        BY <1>1, <3>2, <3>4, <3>5
      <4>2. S = {i \in 1 .. size : i < m}
        BY ONLY <1>1, <4>1
      <4>3. {i \in 1 .. size : i < m} = 1 .. m - 1
        BY ONLY <4>1
      <4> QED
        BY ONLY <4>2, <4>3
    <3> QED
      BY <3>2, <3>3, <3>6, <1>1
  <2>3. (\A i \in 1 .. size : indents[i] <= n) \/ \E i \in 1 .. size : indents[i] > n
    BY <1>1
  <2> QED
    BY <2>1, <2>2, <2>3
<1>3. PICK k \in 1 .. size : S = 1 .. k
  BY <1>2
<1>4. Cardinality(S) = k
  <2>1. k \in Int /\ 1 \in Int /\ k >= 1
    BY <1>1
  <2>2. Cardinality(1 .. k) = k
    BY <2>1, FS_Interval
  <2> QED
    BY <2>2, <1>3
<1>5. \A i \in 1 .. size : i \in S <=> indents[i] <= n
  BY <1>1
<1>6. /\ \A i \in 1 .. k : indents[i] <= n
      /\ \A i \in k + 1 .. size : indents[i] > n
  <2> HIDE DEF S
  <2>1. \A i \in 1 .. k : i \in 1 .. size /\ i \in S
    BY <1>1, <1>3
  <2>2. \A i \in k + 1 .. size : i \in 1 .. size /\ i \notin S
    BY <1>1, <1>3
  <2> QED
    BY <1>1, <1>5, <2>1, <2>2
<1> QED
  BY <1>4, <1>6, <1>1 DEF size

\* A prefix of the stack.
LEMMA Prefix ==
  ASSUME NEW s \in Seq(Nat), NEW k \in 0 .. Len(s)
  PROVE  /\ SubSeq(s, 1, k) \in Seq(Nat) /\ Len(SubSeq(s, 1, k)) = k
         /\ \A i \in 1 .. k : SubSeq(s, 1, k)[i] = s[i]
<1>1. k \in Nat /\ Len(s) \in Nat
  OBVIOUS
<1> QED
  BY <1>1

-----------------------------------------------------------------------------
(***************************************************************************)
(* A new line.                                                             *)
(***************************************************************************)
LEMMA LineAdded ==
  ASSUME TypeOK, NEW n \in Column, NEW k \in Kind, NextLine(n, k)
  PROVE  /\ status = "reading" /\ tokens = << >> /\ ~ended /\ ended' = ended
         /\ suites' = suites /\ want' = want /\ last' = last /\ tree' = tree
         /\ lines' \in Seq(LineType) /\ Len(lines') = Len(lines) + 1 /\ Len(lines) \in Nat
         /\ \A j \in 1 .. Len(lines) : lines'[j] = lines[j]
         /\ lines'[Len(lines')] = [indent |-> n, kind |-> k]
         /\ n \in Nat /\ k \in TextKind
<1>1. n \in Nat /\ k \in TextKind
  BY ColumnAssumption, KindAssumption DEF TextKind
<1>2. /\ status = "reading" /\ tokens = << >> /\ ~ended /\ ended' = ended
      /\ suites' = suites /\ want' = want /\ last' = last /\ tree' = tree
      /\ lines' = Append(lines, [indent |-> n, kind |-> k])
  BY DEF NextLine, Reading, parser
<1>3. lines \in Seq(LineType) /\ [indent |-> n, kind |-> k] \in LineType
  BY <1>1 DEF TypeOK, LineType
<1>4. /\ lines' \in Seq(LineType) /\ Len(lines') = Len(lines) + 1 /\ Len(lines) \in Nat
      /\ \A j \in 1 .. Len(lines) : lines'[j] = lines[j]
      /\ lines'[Len(lines) + 1] = [indent |-> n, kind |-> k]
  BY ONLY <1>2, <1>3
<1> QED
  BY <1>1, <1>2, <1>4

\* What the indentation says of the earlier lines does not change.
LEMMA EarlierLines ==
  ASSUME TypeOK, NEW n \in Column, NEW k \in Kind, NextLine(n, k)
  PROVE  /\ \A j \in 1 .. Len(lines) : Col(j)' = Col(j)
         /\ \A j \in 1 .. Len(lines) : \A K : Is(j, K)' <=> Is(j, K)
         /\ Col(Len(lines))' = n /\ \A K : Is(Len(lines), K)' <=> k \in K
         /\ \A j : j = Len(lines) + 1 => Col(j)' = n /\ \A K : Is(j, K)' <=> k \in K
         /\ Statements' = Statements \cup (IF k \in Continuation \cup {"blank"} THEN {} ELSE {Len(lines) + 1})
         /\ \A j \in 1 .. Len(lines) : /\ Owner(j)' = Owner(j) /\ Before(j)' = Before(j)
                                       /\ Opener(j)' = Opener(j) /\ Parent(j)' = Parent(j)
<1> DEFINE size == Len(lines)
<1>1. /\ size \in Nat /\ DOMAIN lines = 1 .. size /\ DOMAIN lines' = 1 .. size + 1 /\ Len(lines') = size + 1
      /\ \A j \in 1 .. size : lines'[j] = lines[j]
      /\ lines'[size + 1] = [indent |-> n, kind |-> k]
  BY LineAdded, TypeFacts
<1>2. /\ \A j \in 1 .. size : Col(j)' = Col(j)
      /\ \A j \in 1 .. size : \A K : Is(j, K)' <=> Is(j, K)
  BY <1>1 DEF Col, Is
<1>3. Col(Len(lines))' = n /\ \A K : Is(Len(lines), K)' <=> k \in K
  BY <1>1 DEF Col, Is
<1>4. \A j : j = size + 1 => Col(j)' = n /\ \A K : Is(j, K)' <=> k \in K
  BY <1>1 DEF Col, Is
<1> HIDE DEF size
<1>5. Statements' = {j \in 1 .. size + 1 : ~Is(j, Continuation \cup {"blank"})'}
  BY <1>1 DEF Statements
<1>6. Statements = {j \in 1 .. size : ~Is(j, Continuation \cup {"blank"})}
  BY <1>1 DEF Statements
<1>7. Statements' = Statements \cup (IF k \in Continuation \cup {"blank"} THEN {} ELSE {size + 1})
  <2>1. \A j \in 1 .. size + 1 : j \in 1 .. size \/ j = size + 1
    BY <1>1
  <2>2. \A j \in 1 .. size : j \in 1 .. size + 1
    BY <1>1
  <2>3. size + 1 \in 1 .. size + 1
    BY <1>1
  <2> QED
    BY <1>2, <1>4, <1>5, <1>6, <2>1, <2>2, <2>3
<1>8. \A i \in Statements : i \in 1 .. size
  BY <1>6
<1>9. \A j \in 1 .. size : \A i : i < j => (i \in Statements' <=> i \in Statements)
  BY <1>1, <1>7
<1>10. \A j \in 1 .. size : Owner(j)' = Owner(j)
  <2> SUFFICES ASSUME NEW j \in 1 .. size
               PROVE  Owner(j)' = Owner(j)
    OBVIOUS
  <2>1. {i \in Statements : i < j /\ Col(i) < Col(j)}' = {i \in Statements : i < j /\ Col(i) < Col(j)}
    BY <1>2, <1>8, <1>9
  <2> QED
    BY <2>1 DEF Owner
<1>11. \A j \in 1 .. size : Before(j)' = Before(j)
  <2> SUFFICES ASSUME NEW j \in 1 .. size
               PROVE  Before(j)' = Before(j)
    OBVIOUS
  <2>1. {i \in Statements : i < j /\ i > Owner(j) /\ Col(i) <= Col(j)}'
          = {i \in Statements : i < j /\ i > Owner(j) /\ Col(i) <= Col(j)}
    BY <1>2, <1>8, <1>9, <1>10
  <2> QED
    BY <2>1 DEF Before
<1>12. \A j \in 1 .. size : Opener(j)' = Opener(j)
  <2> SUFFICES ASSUME NEW j \in 1 .. size
               PROVE  Opener(j)' = Opener(j)
    OBVIOUS
  <2>1. {i \in DOMAIN lines : i < j /\ Is(i, {"open"})}' = {i \in DOMAIN lines : i < j /\ Is(i, {"open"})}
    <3>1. \A i \in 1 .. size + 1 : i < j => i \in 1 .. size
      BY <1>1
    <3>2. \A i \in 1 .. size : i \in 1 .. size + 1
      BY <1>1
    <3> QED
      BY <1>1, <1>2, <3>1, <3>2
  <2> QED
    BY <2>1 DEF Opener
<1>13. \A j \in 1 .. size : Parent(j)' = Parent(j)
  BY <1>2, <1>10, <1>11 DEF Parent
<1> QED
  BY <1>2, <1>3, <1>4, <1>7, <1>10, <1>11, <1>12, <1>13 DEF size

\* The latest line of a set of lines is one of them.
LEMMA LatestIn ==
  ASSUME NEW S, S \subseteq Nat, NEW b \in Nat, \A s \in S : s <= b
  PROVE  /\ S = {} => Latest(S) = 0
         /\ S # {} => Latest(S) \in S /\ \A s \in S : s <= Latest(S)
<1>1. CASE S = {}
  BY <1>1 DEF Latest
<1>2. CASE S # {}
  <2> DEFINE U == {u \in Nat : \A s \in S : s <= u}
  <2>1. PICK u \in U : \A v \in U : u <= v
    <3>1. b \in U /\ U \subseteq Nat
      OBVIOUS
    <3> HIDE DEF U
    <3> QED
      BY <3>1, Smallest
  <2>2. u \in S
    <3> SUFFICES ASSUME u \notin S
                 PROVE  FALSE
      OBVIOUS
    <3>1. \A s \in S : s \in Nat /\ s < u
      <4>1. \A s \in S : s \in Nat /\ s <= u /\ s # u
        BY <2>1
      <4> QED
        BY <4>1
    <3>2. u > 0
      <4>1. PICK s \in S : s \in Nat /\ s < u
        BY <1>2, <3>1
      <4>2. u \in Nat
        OBVIOUS
      <4> QED
        BY ONLY <4>1, <4>2
    <3>3. u - 1 \in Nat /\ \A s \in S : s <= u - 1
      BY <3>1, <3>2
    <3>4. u - 1 \in U
      BY <3>3
    <3> QED
      BY <2>1, <3>2, <3>4
  <2>3. \E j \in S : \A i \in S : i <= j
    BY <2>1, <2>2
  <2> QED
    BY <2>3, <1>2 DEF Latest
<1> QED
  BY <1>1, <1>2

\* It is known by its place.
LEMMA LatestIs ==
  ASSUME NEW S, S \subseteq Nat, NEW m \in S, \A s \in S : s <= m
  PROVE  Latest(S) = m
<1>1. \A j \in S : (\A i \in S : i <= j) => j = m
  BY ONLY S \subseteq Nat, m \in S, \A s \in S : s <= m
<1> QED
  BY <1>1 DEF Latest

LEMMA OpenerRange ==
  ASSUME TypeOK, NEW j \in 1 .. Len(lines) + 1
  PROVE  /\ Opener(j) # 0 => /\ Opener(j) \in 1 .. Len(lines) /\ Opener(j) < j /\ Is(Opener(j), {"open"})
                             /\ \A i \in 1 .. Len(lines) : i < j /\ Is(i, {"open"}) => i <= Opener(j)
         /\ Opener(j) = 0 => \A i \in 1 .. Len(lines) : i < j => ~Is(i, {"open"})
<1> DEFINE S == {i \in DOMAIN lines : i < j /\ Is(i, {"open"})}
<1>1. Len(lines) \in Nat /\ DOMAIN lines = 1 .. Len(lines)
  BY TypeFacts
<1>2. S \subseteq Nat /\ \A s \in S : s <= Len(lines)
  BY <1>1
<1>3. Opener(j) = Latest(S)
  BY DEF Opener
<1>4. /\ S = {} => Latest(S) = 0
      /\ S # {} => Latest(S) \in S /\ \A s \in S : s <= Latest(S)
  <2> HIDE DEF S
  <2> QED
    BY <1>1, <1>2, LatestIn
<1>5. CASE S = {}
  BY <1>1, <1>3, <1>4, <1>5
<1>6. CASE S # {}
  <2>1. Opener(j) \in S /\ \A s \in S : s <= Opener(j)
    BY <1>3, <1>4, <1>6
  <2>2. Opener(j) # 0
    BY <1>1, <2>1
  <2> QED
    BY <1>1, <2>1, <2>2
<1> QED
  BY <1>5, <1>6

\* A beginning of a program with hanging brackets has them too.
LEMMA HangingBefore ==
  ASSUME TypeOK, NEW n \in Column, NEW k \in Kind, NextLine(n, k), Hanging'
  PROVE  Hanging
<1> DEFINE size == Len(lines)
<1>1. /\ size \in Nat /\ DOMAIN lines = 1 .. size /\ DOMAIN lines' = 1 .. size + 1
      /\ \A j \in 1 .. size : Col(j)' = Col(j)
      /\ \A j \in 1 .. size : \A K : Is(j, K)' <=> Is(j, K)
      /\ \A j \in 1 .. size : Opener(j)' = Opener(j)
  <2>1. DOMAIN lines' = 1 .. size + 1
    <3>1. lines' \in Seq(LineType) /\ Len(lines') = size + 1
      BY LineAdded
    <3> QED
      BY ONLY <3>1
  <2>2. size \in Nat /\ DOMAIN lines = 1 .. size
    BY TypeFacts
  <2> QED
    BY <2>1, <2>2, EarlierLines
<1>2. \A j \in 1 .. size : Opener(j) # 0 => Opener(j) \in 1 .. size
  BY OpenerRange
<1> HIDE DEF size
<1> SUFFICES ASSUME NEW j \in 1 .. size, Is(j, Continuation), Opener(j) # 0
             PROVE  /\ Is(j, {"close"}) => Col(j) = Col(Opener(j))
                    /\ Is(j, {"item"}) => Col(j) > Col(Opener(j))
                    /\ \A i \in Opener(j) .. j : Is(i, {"item"}) /\ Is(j, {"item"}) => Col(i) = Col(j)
  BY <1>1 DEF Hanging
<1>3. PICK o \in 1 .. size : o = Opener(j)
  BY <1>2
<1>4. j \in 1 .. size + 1 /\ Is(j, Continuation)' /\ Opener(j)' # 0 /\ Opener(j)' = o
  BY <1>1, <1>3
<1>5. /\ Is(j, {"close"})' => Col(j)' = Col(o)'
      /\ Is(j, {"item"})' => Col(j)' > Col(o)'
      /\ \A i \in o .. j : Is(i, {"item"})' /\ Is(j, {"item"})' => Col(i)' = Col(j)'
  BY <1>1, <1>4 DEF Hanging
<1>6. \A i \in o .. j : i \in 1 .. size
  BY <1>1
<1> QED
  BY <1>1, <1>3, <1>5, <1>6

LEMMA OwnerRange ==
  ASSUME TypeOK, NEW j \in 1 .. Len(lines)
  PROVE  /\ Owner(j) # 0 => Owner(j) \in Statements /\ Owner(j) < j /\ Col(Owner(j)) < Col(j)
         /\ \A i \in Statements : i < j /\ Col(i) < Col(j) => Owner(j) # 0 /\ i <= Owner(j)
         /\ Owner(j) \in Nat
<1> DEFINE S == {i \in Statements : i < j /\ Col(i) < Col(j)}
<1>1. Len(lines) \in Nat /\ Statements \subseteq 1 .. Len(lines)
  BY TypeFacts
<1>2. S \subseteq Nat /\ \A s \in S : s <= Len(lines)
  <2>1. S \subseteq Statements
    OBVIOUS
  <2> HIDE DEF S
  <2> QED
    BY <1>1, <2>1
<1>3. Owner(j) = Latest(S)
  BY DEF Owner
<1>4. /\ S = {} => Latest(S) = 0
      /\ S # {} => Latest(S) \in S /\ \A s \in S : s <= Latest(S)
  <2> HIDE DEF S
  <2> QED
    BY <1>1, <1>2, LatestIn
<1>5. CASE S = {}
  BY <1>1, <1>3, <1>4, <1>5
<1>6. CASE S # {}
  <2>1. Owner(j) \in S /\ \A s \in S : s <= Owner(j)
    BY <1>3, <1>4, <1>6
  <2>2. Owner(j) # 0 /\ Owner(j) \in Nat
    <3>1. Owner(j) \in 1 .. Len(lines)
      BY <1>1, <2>1
    <3> QED
      BY <3>1
  <2> QED
    BY <1>1, <2>1, <2>2
<1> QED
  BY <1>5, <1>6

LEMMA BeforeRange ==
  ASSUME TypeOK, NEW j \in 1 .. Len(lines)
  PROVE  /\ Before(j) # 0 => /\ Before(j) \in Statements /\ Before(j) < j
                             /\ Before(j) > Owner(j) /\ Col(Before(j)) <= Col(j)
         /\ \A i \in Statements : i < j /\ i > Owner(j) /\ Col(i) <= Col(j) => Before(j) # 0 /\ i <= Before(j)
<1> DEFINE S == {i \in Statements : i < j /\ i > Owner(j) /\ Col(i) <= Col(j)}
<1>1. Len(lines) \in Nat /\ Statements \subseteq 1 .. Len(lines)
  BY TypeFacts
<1>2. S \subseteq Nat /\ \A s \in S : s <= Len(lines)
  <2>1. S \subseteq Statements
    OBVIOUS
  <2> HIDE DEF S
  <2> QED
    BY <1>1, <2>1
<1>3. Before(j) = Latest(S)
  BY DEF Before
<1>4. /\ S = {} => Latest(S) = 0
      /\ S # {} => Latest(S) \in S /\ \A s \in S : s <= Latest(S)
  <2> HIDE DEF S
  <2> QED
    BY <1>1, <1>2, LatestIn
<1>5. CASE S = {}
  BY <1>1, <1>3, <1>4, <1>5
<1>6. CASE S # {}
  <2>1. Before(j) \in S /\ \A s \in S : s <= Before(j)
    BY <1>3, <1>4, <1>6
  <2>2. Before(j) # 0
    BY <1>1, <2>1
  <2> QED
    BY <1>1, <2>1, <2>2
<1> QED
  BY <1>5, <1>6

\* The parts of WellFormed.
BracketsRight == \A j \in DOMAIN lines : Is(j, Continuation) <=> Opened(j) /\ ~Is(j, {"blank"})
StatementRight(j) ==
  /\ IF Owner(j) = 0 THEN Col(j) = 0 ELSE Is(Owner(j), Header)
  /\ \A i \in Statements : i < j /\ Owner(i) = Owner(j) => Col(i) = Col(j)
  /\ Is(j, Clause) => Before(j) # 0 /\ Is(Before(j), {"if", "elif"})
  /\ Is(j, Header) /\ j < Len(lines) => j + 1 \in Statements /\ Owner(j + 1) = j
Ends ==
  ended => \A j \in DOMAIN lines : j = Len(lines) =>
             ~Is(j, Header) /\ ~(Is(j, {"open", "item"})) /\ ~Opened(j + 1)

LEMMA WellFormedParts ==
  WellFormed <=> Hanging /\ BracketsRight /\ (\A j \in Statements : StatementRight(j)) /\ Ends
BY DEF WellFormed, BracketsRight, StatementRight, Ends

LEMMA WellFormedPartsNext ==
  WellFormed' <=> Hanging' /\ BracketsRight' /\ (\A j \in Statements' : StatementRight(j)') /\ Ends'
BY DEF WellFormed, BracketsRight, StatementRight, Ends

\* A beginning of a well-formed program is one.
LEMMA WellFormedBefore ==
  ASSUME TypeOK, NEW n \in Column, NEW k \in Kind, NextLine(n, k), WellFormed'
  PROVE  WellFormed
<1> DEFINE size == Len(lines)
<1>1. /\ size \in Nat /\ DOMAIN lines = 1 .. size /\ DOMAIN lines' = 1 .. size + 1
      /\ Len(lines') = size + 1 /\ ~ended
  <2>1. lines' \in Seq(LineType) /\ Len(lines') = size + 1 /\ ~ended
    BY LineAdded
  <2>2. size \in Nat /\ DOMAIN lines = 1 .. size
    BY TypeFacts
  <2> QED
    BY ONLY <2>1, <2>2
<1>2. /\ \A j \in 1 .. size : Col(j)' = Col(j)
      /\ \A j \in 1 .. size : \A K : Is(j, K)' <=> Is(j, K)
      /\ \A j \in 1 .. size : /\ Owner(j)' = Owner(j) /\ Before(j)' = Before(j)
                              /\ Opener(j)' = Opener(j)
  BY EarlierLines
<1>3. /\ \A j \in 1 .. size : j \in Statements' <=> j \in Statements
      /\ Statements \subseteq 1 .. size
  BY EarlierLines, TypeFacts, <1>1
<1>4. /\ \A j \in 1 .. size : Owner(j) # 0 => Owner(j) \in 1 .. size
      /\ \A j \in 1 .. size : Before(j) # 0 => Before(j) \in 1 .. size
      /\ \A j \in 1 .. size : Opener(j) # 0 => Opener(j) \in 1 .. size
  <2>1. \A j \in 1 .. size : j \in 1 .. size + 1
    BY <1>1
  <2> QED
    BY OwnerRange, BeforeRange, OpenerRange, <1>3, <2>1
<1> HIDE DEF size
<1>5. Hanging
  BY HangingBefore, WellFormedPartsNext
<1>6. \A j \in 1 .. size : Opened(j)' <=> Opened(j)
  <2> SUFFICES ASSUME NEW j \in 1 .. size
               PROVE  Opened(j)' <=> Opened(j)
    OBVIOUS
  <2>1. CASE Opener(j) = 0
    BY <1>2, <2>1 DEF Opened
  <2>2. CASE Opener(j) # 0
    <3>1. PICK o \in 1 .. size : o = Opener(j)
      BY <1>4, <2>2
    <3>2. Opener(j)' = o
      BY <1>2, <3>1
    <3>3. \A i \in o .. j - 1 : i \in 1 .. size
      BY <1>1
    <3>4. \A i \in o .. j - 1 : Is(i, {"close"})' <=> Is(i, {"close"})
      BY <1>2, <3>3
    <3> QED
      BY <3>1, <3>2, <3>4 DEF Opened
  <2> QED
    BY <2>1, <2>2
<1>7. BracketsRight
  <2>1. \A j \in 1 .. size : j \in 1 .. size + 1
    BY <1>1
  <2>2. \A j \in 1 .. size + 1 : Is(j, Continuation)' <=> Opened(j)' /\ ~Is(j, {"blank"})'
    BY <1>1, WellFormedPartsNext DEF BracketsRight
  <2>3. \A j \in 1 .. size : Is(j, Continuation) <=> Opened(j) /\ ~Is(j, {"blank"})
    BY <2>1, <2>2, <1>2, <1>6
  <2> QED
    BY <1>1, <2>3 DEF BracketsRight
<1>8. \A j \in Statements : StatementRight(j)
  <2> SUFFICES ASSUME NEW j \in Statements
               PROVE  StatementRight(j)
    OBVIOUS
  <2>1. j \in 1 .. size /\ j \in Statements'
    BY <1>3
  <2>2. StatementRight(j)'
    BY <2>1, WellFormedPartsNext
  <2>3. IF Owner(j) = 0 THEN Col(j) = 0 ELSE Is(Owner(j), Header)
    <3>1. PICK o : o = Owner(j)
      OBVIOUS
    <3>2. Owner(j)' = o /\ (o # 0 => o \in 1 .. size)
      BY <1>2, <1>4, <2>1, <3>1
    <3>3. IF o = 0 THEN Col(j)' = 0 ELSE Is(o, Header)'
      BY <2>2, <3>2 DEF StatementRight
    <3> QED
      BY <3>1, <3>2, <3>3, <1>2, <2>1
  <2>4. \A i \in Statements : i < j /\ Owner(i) = Owner(j) => Col(i) = Col(j)
    <3>1. \A i \in Statements' : i < j /\ Owner(i)' = Owner(j)' => Col(i)' = Col(j)'
      BY <2>2 DEF StatementRight
    <3> QED
      BY <3>1, <1>2, <1>3, <2>1
  <2>5. Is(j, Clause) => Before(j) # 0 /\ Is(Before(j), {"if", "elif"})
    <3>1. PICK b : b = Before(j)
      OBVIOUS
    <3>2. Before(j)' = b /\ (b # 0 => b \in 1 .. size)
      BY <1>2, <1>4, <2>1, <3>1
    <3>3. Is(j, Clause)' => b # 0 /\ Is(b, {"if", "elif"})'
      BY <2>2, <3>2 DEF StatementRight
    <3> QED
      BY <3>1, <3>2, <3>3, <1>2, <2>1
  <2>6. Is(j, Header) /\ j < size => j + 1 \in Statements /\ Owner(j + 1) = j
    <3> SUFFICES ASSUME Is(j, Header), j < size
                 PROVE  j + 1 \in Statements /\ Owner(j + 1) = j
      OBVIOUS
    <3>1. j < size + 1 /\ j + 1 \in 1 .. size
      BY <1>1, <2>1
    <3>2. j + 1 \in Statements' /\ Owner(j + 1)' = j
      <4>1. Is(j, Header)' /\ j < Len(lines')
        BY <1>1, <1>2, <2>1, <3>1
      <4> QED
        BY <4>1, <2>2 DEF StatementRight
    <3>3. PICK m : m = j + 1
      OBVIOUS
    <3>4. m \in Statements' /\ Owner(m)' = j /\ m \in 1 .. size
      BY <3>1, <3>2, <3>3
    <3>5. m \in Statements /\ Owner(m) = j
      BY <3>4, <1>2, <1>3
    <3> QED
      BY <3>3, <3>5
  <2> QED
    BY <2>3, <2>4, <2>5, <2>6 DEF StatementRight, size
<1>9. Ends
  BY <1>1 DEF Ends
<1> QED
  BY <1>5, <1>7, <1>8, <1>9, WellFormedParts

\* So is a program before its end.
LEMMA WellFormedAtEnd ==
  ASSUME EndOfFile, WellFormed'
  PROVE  WellFormed
<1>1. lines' = lines /\ ~ended
  BY DEF EndOfFile, Reading
<1>2. /\ \A j : Col(j)' = Col(j)
      /\ \A j, K : Is(j, K)' = Is(j, K)
      /\ Statements' = Statements
      /\ \A j : Owner(j)' = Owner(j) /\ Before(j)' = Before(j) /\ Opener(j)' = Opener(j)
      /\ Hanging' = Hanging
  BY <1>1, SameLines
<1>3. BracketsRight
  BY <1>1, WellFormedPartsNext DEF BracketsRight, Is, Opened, Opener, Latest, Continuation
<1>4. \A j \in Statements : StatementRight(j)
  <2> SUFFICES ASSUME NEW j \in Statements
               PROVE  StatementRight(j)
    OBVIOUS
  <2>1. StatementRight(j)'
    BY <1>2, WellFormedPartsNext
  <2> QED
    BY <1>1, <1>2, <2>1 DEF StatementRight, Is, Col, Header, Clause
<1>5. Ends
  BY <1>1 DEF Ends
<1> QED
  BY <1>2, <1>3, <1>4, <1>5, WellFormedParts, WellFormedPartsNext

-----------------------------------------------------------------------------
(***************************************************************************)
(* The tokens of a line.                                                   *)
(***************************************************************************)
TokenKind == TextKind \cup {"INDENT", "DEDENT", "NEWLINE", "EOF"}

LEMMA TokenFacts ==
  ASSUME TypeOK, NEW kind \in TokenKind
  PROVE  Token(kind) \in TokenType /\ Token(kind).kind = kind /\ Token(kind).line = Len(lines) + 1
BY TypeFacts DEF Token, TokenType, TokenKind

LEMMA TimesFacts ==
  ASSUME TypeOK, NEW n \in Nat
  PROVE  /\ Times(n, "DEDENT") \in Seq(TokenType) /\ Len(Times(n, "DEDENT")) = n
         /\ \A i \in 1 .. n : Times(n, "DEDENT")[i].kind = "DEDENT"
<1>1. Token("DEDENT") \in TokenType /\ Token("DEDENT").kind = "DEDENT"
  BY TokenFacts DEF TokenKind
<1> DEFINE t == Token("DEDENT")
<1>2. t \in TokenType /\ t.kind = "DEDENT" /\ Times(n, "DEDENT") = [i \in 1 .. n |-> t]
  BY <1>1 DEF Times
<1> HIDE DEF t
<1> QED
  BY <1>2

\* Tokens before the last two.
LEMMA Joined ==
  ASSUME NEW T, NEW s \in Seq(T), NEW a \in T, NEW b \in T
  PROVE  /\ s \o <<a, b>> \in Seq(T) /\ Len(s \o <<a, b>>) = Len(s) + 2
         /\ \A i \in 1 .. Len(s) : (s \o <<a, b>>)[i] = s[i]
         /\ (s \o <<a, b>>)[Len(s) + 1] = a /\ (s \o <<a, b>>)[Len(s) + 2] = b
OBVIOUS

LEMMA StackStays ==
  ASSUME TypeOK, OpenStack, NEW n \in Column, NEW k \in Kind, NextLine(n, k),
         DOMAIN indents' = 1 .. Len(indents'),
         \A i \in 1 .. Len(indents') :
            \/ k # "blank" /\ indents'[i] = n
            \/ /\ i \in 1 .. Len(indents) /\ indents'[i] = indents[i]
               /\ k = "blank" \/ indents[i] <= n
  PROVE  OpenStack'
<1> DEFINE size == Len(lines)
<1>1. /\ size \in Nat /\ DOMAIN lines = 1 .. size /\ DOMAIN lines' = 1 .. size + 1
      /\ Len(lines') = size + 1 /\ n \in Nat
  <2>1. lines' \in Seq(LineType) /\ Len(lines') = size + 1 /\ n \in Nat
    BY LineAdded
  <2>2. size \in Nat /\ DOMAIN lines = 1 .. size
    BY TypeFacts
  <2> QED
    BY ONLY <2>1, <2>2
<1>2. /\ \A j \in 1 .. size : Col(j)' = Col(j) /\ Col(j) \in Nat
      /\ \A j \in 1 .. size : \A K : Is(j, K)' <=> Is(j, K)
      /\ \A j : j = size + 1 => Col(j)' = n /\ \A K : Is(j, K)' <=> k \in K
  BY EarlierLines, TypeFacts
<1> HIDE DEF size
<1> SUFFICES ASSUME NEW i \in 1 .. Len(indents'), i # 1
             PROVE  \E l \in 1 .. size + 1 :
                      /\ ~Is(l, {"blank"})' /\ Col(l)' = indents'[i]
                      /\ \A q \in l .. size + 1 : Is(q, {"blank"})' \/ Col(q)' >= Col(l)'
  BY <1>1 DEF OpenStack
<1>3. PICK m : m = size + 1
  OBVIOUS
<1>4. Col(m)' = n /\ (\A K : Is(m, K)' <=> k \in K) /\ m \in 1 .. size + 1
  BY <1>1, <1>2, <1>3
<1>5. CASE k # "blank" /\ indents'[i] = n
  <2>1. \A q \in m .. size + 1 : q = m
    BY <1>1, <1>3
  <2>2. ~Is(m, {"blank"})' /\ Col(m)' = indents'[i] /\ Col(m)' >= Col(m)'
    BY <1>1, <1>4, <1>5
  <2> QED
    BY <1>4, <2>1, <2>2
<1>6. CASE /\ i \in 1 .. Len(indents) /\ indents'[i] = indents[i]
           /\ k = "blank" \/ indents[i] <= n
  <2>1. i \in DOMAIN indents
    BY <1>6, TypeFacts
  <2>2. PICK l \in 1 .. size : /\ ~Is(l, {"blank"}) /\ Col(l) = indents[i]
                               /\ \A q \in l .. size : Is(q, {"blank"}) \/ Col(q) >= Col(l)
    BY <1>1, <2>1 DEF OpenStack, size
  <2>3. l \in 1 .. size + 1 /\ ~Is(l, {"blank"})' /\ Col(l)' = indents'[i]
    BY <1>1, <1>2, <1>6, <2>2
  <2>4. \A q \in l .. size : q \in 1 .. size /\ (Is(q, {"blank"})' \/ Col(q)' >= Col(l)')
    BY <1>1, <1>2, <2>2
  <2>5. Is(m, {"blank"})' \/ Col(m)' >= Col(l)'
    BY <1>4, <1>6, <2>3
  <2>6. \A q \in l .. size + 1 : q \in l .. size \/ q = m
    BY <1>1, <1>3
  <2> QED
    BY <2>3, <2>4, <2>5, <2>6
<1> QED
  BY <1>5, <1>6

\* A line the lexer has read: the text of the program up to it is the same,
\* and the parser has seen no more than before.
LineReads ==
  /\ Reads' /\ TypeOK' /\ status' = "reading"
  /\ tokens' # << >> /\ Done' = Done

LEMMA Waiting ==
  ASSUME TypeOK, Reads, tokens = << >>, ~ended
  PROVE  want \in {"statement", "indent", "bracket"} /\ Seen = Len(lines) /\ ~Pending
<1>1. Len(tokens) = 0
  OBVIOUS
<1>2. ~Pending
  BY NoTokens
<1> QED
  BY <1>1, <1>2, NoTokens DEF Reads, Waits, TypeOK

\* The statements do not count the new line before the parser has seen it.
LEMMA NotYetSeen ==
  ASSUME TypeOK, NEW n \in Column, NEW k \in Kind, NextLine(n, k),
         k = "blank" => ~Pending', k # "blank" => Pending'
  PROVE  Done' = Done /\ Seen' = (IF k = "blank" THEN Len(lines) + 1 ELSE Len(lines)) /\ Seen = Len(lines)
<1> DEFINE size == Len(lines)
<1>1. /\ size \in Nat /\ Len(lines') = size + 1 /\ Statements \subseteq 1 .. size /\ Seen = size
      /\ Statements' = Statements \cup (IF k \in Continuation \cup {"blank"} THEN {} ELSE {size + 1})
  BY LineAdded, EarlierLines, TypeFacts, NoTokens
<1> HIDE DEF size
<1>2. Done = Statements
  <2>1. \A s \in Statements : s <= Seen
    BY <1>1
  <2> QED
    BY <2>1 DEF Done
<1>3. CASE k = "blank"
  <2>1. Statements' = Statements /\ Seen' = size + 1
    BY <1>1, <1>3 DEF Seen
  <2>2. \A s \in Statements' : s <= Seen'
    BY <1>1, <2>1
  <2>3. Done' = Statements'
    BY <2>2 DEF Done
  <2> QED
    BY <1>1, <1>2, <1>3, <2>1, <2>3 DEF size
<1>4. CASE k # "blank"
  <2>1. Seen' = size
    BY <1>1, <1>4 DEF Seen
  <2>2. \A s \in Statements' : s <= size <=> s \in Statements
    BY <1>1
  <2>3. Done' = Statements
    BY <2>1, <2>2, <1>1 DEF Done
  <2> QED
    BY <1>1, <1>2, <1>4, <2>1, <2>3 DEF size
<1> QED
  BY <1>3, <1>4

LEMMA BlankReads ==
  ASSUME TypeOK, Reads, NEW n \in Column, NEW k \in Kind, BlankLine(n, k)
  PROVE  /\ LineReads /\ ~Pending' /\ ~IndentPending' /\ Dedents' = 0 /\ indents' = indents /\ k = "blank"
         /\ Len(tokens') = 1 /\ Seen' = Len(lines) + 1
<1>1. NextLine(n, k) /\ k = "blank" /\ indents' = indents /\ status' = status /\ tokens' = <<Token("NEWLINE")>>
  BY DEF BlankLine
<1>2. /\ status = "reading" /\ tokens = << >> /\ ~ended /\ ended' = ended
      /\ suites' = suites /\ want' = want /\ last' = last /\ tree' = tree
      /\ lines' \in Seq(LineType) /\ Len(lines') = Len(lines) + 1 /\ Len(lines) \in Nat
  BY <1>1, LineAdded
<1>3. /\ tokens' \in Seq(TokenType) /\ Len(tokens') = 1 /\ tokens'[1].kind = "NEWLINE" /\ tokens' # << >>
  <2>1. Token("NEWLINE") \in TokenType /\ Token("NEWLINE").kind = "NEWLINE"
    BY TokenFacts DEF TokenKind
  <2> QED
    BY ONLY <1>1, <2>1
<1>4. TypeOK'
  BY <1>1, <1>2, <1>3 DEF TypeOK
<1>5. ~Pending' /\ ~IndentPending' /\ Dedents' = 0
  <2>1. ~(Len(tokens') >= 2)
    BY ONLY <1>3
  <2> QED
    BY <1>2, <1>3, <2>1 DEF Pending, IndentPending, Dedents
<1>6. Done' = Done /\ Seen' = Len(lines) + 1
  BY <1>1, <1>5, NotYetSeen
<1>7. Stack'
  BY <1>1 DEF Reads, Stack
<1>8. OpenStack'
  <2>1. DOMAIN indents' = 1 .. Len(indents')
    BY <1>1, TypeFacts
  <2>2. \A i \in 1 .. Len(indents') : i \in 1 .. Len(indents) /\ indents'[i] = indents[i]
    BY <1>1
  <2> QED
    BY <1>1, <2>1, <2>2, StackStays DEF Reads
<1>9. LineTokens' /\ EndTokens'
  <2>1. Len(lines') >= 1
    BY ONLY <1>2
  <2> QED
    BY <1>2, <1>3, <1>5, <2>1 DEF LineTokens, EndTokens
<1>10. Waits' /\ TreeDomain'
  BY <1>2, <1>6, Waiting DEF Waits, Reads, TreeDomain
<1> QED
  BY <1>1, <1>2, <1>3, <1>4, <1>5, <1>6, <1>7, <1>8, <1>9, <1>10 DEF LineReads, Reads

LEMMA SameReads ==
  ASSUME TypeOK, Reads, NEW n \in Column, NEW k \in Kind, SameLine(n, k)
  PROVE  /\ LineReads /\ Pending' /\ ~IndentPending' /\ Dedents' = 0 /\ indents' = indents
         /\ k # "blank" /\ n = Top /\ Seen' = Len(lines)
<1>1. /\ NextLine(n, k) /\ k # "blank" /\ n = Top /\ indents' = indents /\ status' = status
      /\ tokens' = <<Token(k), Token("NEWLINE")>>
  BY DEF SameLine, Column0, Top
<1>2. /\ status = "reading" /\ tokens = << >> /\ ~ended /\ ended' = ended
      /\ suites' = suites /\ want' = want /\ last' = last /\ tree' = tree
      /\ lines' \in Seq(LineType) /\ Len(lines') = Len(lines) + 1 /\ Len(lines) \in Nat
      /\ lines'[Len(lines')] = [indent |-> n, kind |-> k] /\ n \in Nat /\ k \in TextKind
  BY <1>1, LineAdded
<1>3. /\ tokens' \in Seq(TokenType) /\ Len(tokens') = 2 /\ tokens'[1].kind = k /\ tokens'[2].kind = "NEWLINE"
      /\ tokens'[1].line = Len(lines') /\ tokens' # << >>
  <2>1. /\ Token("NEWLINE") \in TokenType /\ Token("NEWLINE").kind = "NEWLINE"
        /\ Token(k) \in TokenType /\ Token(k).kind = k /\ Token(k).line = Len(lines) + 1
    BY <1>2, TokenFacts DEF TokenKind
  <2> QED
    BY ONLY <1>1, <1>2, <2>1
<1>4. TypeOK'
  BY <1>1, <1>2, <1>3 DEF TypeOK
<1>5. Pending' /\ ~IndentPending' /\ Dedents' = 0
  BY <1>2, <1>3 DEF Pending, IndentPending, Dedents, TextKind, Header, Continuation
<1>6. Done' = Done /\ Seen' = Len(lines)
  BY <1>1, <1>5, NotYetSeen
<1>7. Stack'
  BY <1>1 DEF Reads, Stack
<1>8. OpenStack'
  <2>1. /\ DOMAIN indents' = 1 .. Len(indents') /\ Len(indents) \in Nat
        /\ \A i \in 1 .. Len(indents) : indents[i] \in Nat
    BY <1>1, TypeFacts
  <2>2. \A i \in 1 .. Len(indents') : i \in 1 .. Len(indents) /\ indents'[i] = indents[i] /\ indents[i] <= n
    <3>1. \A i, j \in 1 .. Len(indents) : i < j => indents[i] < indents[j]
      BY TypeFacts DEF Reads, Stack
    <3>2. n = indents[Len(indents)]
      BY <1>1 DEF Top
    <3> QED
      BY <1>1, <2>1, <3>1, <3>2
  <2> QED
    BY <1>1, <2>1, <2>2, StackStays DEF Reads
<1>9. LineTokens' /\ EndTokens'
  <2>1. Len(lines') >= 1
    BY ONLY <1>2
  <2>2. (~Is(Len(lines), {"blank"}) /\ Col(Len(lines)) = Top)'
    BY <1>1, <1>2 DEF Is, Col, Top
  <2>3. (tokens[Len(tokens) - 1].kind = lines[Len(lines)].kind)' /\ (tokens[Len(tokens) - 1].line = Len(lines))'
    BY <1>2, <1>3
  <2>4. \A i \in 1 .. Len(tokens') - 2 : tokens'[i].kind = "DEDENT"
    BY <1>3
  <2> QED
    BY <1>2, <1>3, <1>5, <2>1, <2>2, <2>3, <2>4 DEF LineTokens, EndTokens
<1>10. Waits' /\ TreeDomain'
  BY <1>2, <1>6, Waiting DEF Waits, Reads, TreeDomain
<1> QED
  BY <1>1, <1>2, <1>3, <1>4, <1>5, <1>6, <1>7, <1>8, <1>9, <1>10 DEF LineReads, Reads

LEMMA DeeperReads ==
  ASSUME TypeOK, Reads, NEW n \in Column, NEW k \in Kind, DeeperLine(n, k), status' # "rejected"
  PROVE  /\ LineReads /\ Pending' /\ IndentPending' /\ Dedents' = 0
         /\ k # "blank" /\ n > Top /\ Seen' = Len(lines)
         /\ Len(indents') = Len(indents) + 1 /\ indents'[Len(indents')] = n
         /\ \A i \in 1 .. Len(indents) : indents'[i] = indents[i]
<1>1. /\ NextLine(n, k) /\ k # "blank" /\ n > Top /\ indents' = Append(indents, n)
      /\ tokens' = <<Token("INDENT"), Token(k), Token("NEWLINE")>> /\ status' = status
  BY DEF DeeperLine, Column0, Top
<1>2. /\ status = "reading" /\ tokens = << >> /\ ~ended /\ ended' = ended
      /\ suites' = suites /\ want' = want /\ last' = last /\ tree' = tree
      /\ lines' \in Seq(LineType) /\ Len(lines') = Len(lines) + 1 /\ Len(lines) \in Nat
      /\ lines'[Len(lines')] = [indent |-> n, kind |-> k] /\ n \in Nat /\ k \in TextKind
  BY <1>1, LineAdded
<1>3. /\ tokens' \in Seq(TokenType) /\ Len(tokens') = 3 /\ tokens'[1].kind = "INDENT" /\ tokens'[2].kind = k
      /\ tokens'[3].kind = "NEWLINE" /\ tokens'[2].line = Len(lines') /\ tokens' # << >>
  <2>1. /\ Token("NEWLINE") \in TokenType /\ Token("NEWLINE").kind = "NEWLINE"
        /\ Token("INDENT") \in TokenType /\ Token("INDENT").kind = "INDENT"
        /\ Token(k) \in TokenType /\ Token(k).kind = k /\ Token(k).line = Len(lines) + 1
    BY <1>2, TokenFacts DEF TokenKind
  <2> QED
    BY ONLY <1>1, <1>2, <2>1
<1>4. /\ indents' \in Seq(Nat) /\ Len(indents') = Len(indents) + 1 /\ Len(indents) \in Nat
      /\ indents'[Len(indents')] = n /\ \A i \in 1 .. Len(indents) : indents'[i] = indents[i]
  <2>1. indents \in Seq(Nat)
    BY DEF TypeOK
  <2> QED
    BY ONLY <1>1, <1>2, <2>1
<1>5. TypeOK'
  BY <1>1, <1>2, <1>3, <1>4 DEF TypeOK
<1>6. Pending' /\ IndentPending' /\ Dedents' = 0
  BY <1>2, <1>3 DEF Pending, IndentPending, Dedents
<1>7. Done' = Done /\ Seen' = Len(lines)
  BY <1>1, <1>6, NotYetSeen
<1>8. /\ Len(indents) >= 1 /\ indents[1] = 0
      /\ \A i \in 1 .. Len(indents) : indents[i] \in Nat /\ indents[i] <= Top
      /\ \A i, j \in 1 .. Len(indents) : i < j => indents[i] < indents[j]
  <2>1. /\ Len(indents) >= 1 /\ indents[1] = 0
        /\ \A i, j \in 1 .. Len(indents) : i < j => indents[i] < indents[j]
        /\ \A i \in 1 .. Len(indents) : indents[i] \in Nat
    BY TypeFacts DEF Reads, Stack
  <2>2. \A i \in 1 .. Len(indents) : i = Len(indents) \/ i < Len(indents)
    BY <1>4
  <2> QED
    BY <2>1, <2>2, <1>4 DEF Top
<1>9. Stack'
  <2> DEFINE size == Len(indents)
  <2>1. Top \in Nat /\ n \in Nat /\ n > Top
    BY <1>1, <1>2, <1>4, <1>8 DEF Top
  <2>2. /\ size \in Nat /\ size >= 1 /\ DOMAIN indents' = 1 .. size + 1 /\ indents'[size + 1] = n
        /\ \A i \in 1 .. size : indents'[i] = indents[i]
    BY <1>4, <1>8
  <2> HIDE DEF size
  <2>3. \A i \in 1 .. size + 1 : i \in 1 .. size \/ i = size + 1
    BY <2>2
  <2>4. \A i \in 1 .. size : indents[i] < n
    BY <2>1, <1>8 DEF size
  <2>5. \A i, j \in 1 .. size + 1 : i < j => indents'[i] < indents'[j]
    <3> SUFFICES ASSUME NEW i \in 1 .. size + 1, NEW j \in 1 .. size + 1, i < j
                 PROVE  indents'[i] < indents'[j]
      OBVIOUS
    <3>1. i \in 1 .. size
      BY <2>2
    <3> QED
      BY <3>1, <2>2, <2>3, <2>4, <1>8 DEF size
  <2>6. Len(indents') >= 1 /\ indents'[1] = 0
    BY <1>4, <1>8
  <2> QED
    BY <2>2, <2>5, <2>6 DEF Stack
<1>10. OpenStack'
  <2>1. DOMAIN indents' = 1 .. Len(indents')
    BY <1>4
  <2>2. Top \in Nat /\ n \in Nat /\ n > Top
    BY <1>1, <1>2, <1>4, <1>8 DEF Top
  <2>3. \A i \in 1 .. Len(indents') : i \in 1 .. Len(indents) \/ i = Len(indents')
    BY <1>4
  <2>4. \A i \in 1 .. Len(indents) : indents'[i] = indents[i] /\ indents[i] <= n
    BY <1>4, <1>8, <2>2
  <2>5. \A i \in 1 .. Len(indents') : \/ k # "blank" /\ indents'[i] = n
                                      \/ /\ i \in 1 .. Len(indents) /\ indents'[i] = indents[i]
                                         /\ k = "blank" \/ indents[i] <= n
    BY <1>1, <1>4, <2>3, <2>4
  <2> QED
    BY <1>1, <2>1, <2>5, StackStays DEF Reads
<1>11. LineTokens' /\ EndTokens'
  <2>1. Len(lines') >= 1 /\ Len(indents') >= 2
    BY <1>2, <1>4, <1>8
  <2>2. (~Is(Len(lines), {"blank"}) /\ Col(Len(lines)) = Top)'
    BY <1>1, <1>2, <1>4 DEF Is, Col, Top
  <2>3. (tokens[Len(tokens) - 1].kind = lines[Len(lines)].kind)' /\ (tokens[Len(tokens) - 1].line = Len(lines))'
    BY <1>2, <1>3
  <2> QED
    BY <1>2, <1>3, <1>6, <2>1, <2>2, <2>3 DEF LineTokens, EndTokens
<1>12. Waits' /\ TreeDomain'
  BY <1>2, <1>7, Waiting DEF Waits, Reads, TreeDomain
<1> QED
  BY <1>1, <1>2, <1>3, <1>4, <1>5, <1>6, <1>7, <1>9, <1>10, <1>11, <1>12 DEF LineReads, Reads

LEMMA ShallowerReads ==
  ASSUME TypeOK, Reads, NEW n \in Column, NEW k \in Kind, ShallowerLine(n, k), status' # "rejected"
  PROVE  /\ LineReads /\ Pending' /\ ~IndentPending'
         /\ k # "blank" /\ n < Top /\ Seen' = Len(lines)
         /\ Len(indents') \in 1 .. Len(indents) - 1 /\ indents'[Len(indents')] = n
         /\ Dedents' = Len(indents) - Len(indents')
         /\ \A i \in 1 .. Len(indents') : indents'[i] = indents[i]
<1> DEFINE kept == Cardinality({i \in DOMAIN indents : indents[i] <= n})
<1>1. /\ NextLine(n, k) /\ k # "blank" /\ n < Top /\ indents' = SubSeq(indents, 1, kept)
      /\ tokens' = Times(Len(indents) - kept, "DEDENT") \o <<Token(k), Token("NEWLINE")>>
      /\ indents[kept] = n /\ status' = status
  BY DEF ShallowerLine, Column0, Top
<1>2. /\ status = "reading" /\ tokens = << >> /\ ~ended /\ ended' = ended
      /\ suites' = suites /\ want' = want /\ last' = last /\ tree' = tree
      /\ lines' \in Seq(LineType) /\ Len(lines') = Len(lines) + 1 /\ Len(lines) \in Nat
      /\ lines'[Len(lines')] = [indent |-> n, kind |-> k] /\ n \in Nat /\ k \in TextKind
  BY <1>1, LineAdded
<1>3. kept \in 1 .. Len(indents) /\ \A i \in 1 .. kept : indents[i] <= n
  BY <1>2, Kept DEF Reads
<1> HIDE DEF kept
<1>4. /\ indents \in Seq(Nat) /\ Len(indents) \in Nat /\ Len(indents) >= 1 /\ indents[1] = 0
      /\ \A i, j \in 1 .. Len(indents) : i < j => indents[i] < indents[j]
      /\ \A i \in 1 .. Len(indents) : indents[i] \in Nat
  BY TypeFacts DEF Reads, Stack, TypeOK
<1>5. kept < Len(indents)
  <2>1. kept # Len(indents)
    BY <1>1, <1>2 DEF Top
  <2> QED
    BY <2>1, <1>3, <1>4
<1>6. /\ indents' \in Seq(Nat) /\ Len(indents') = kept
      /\ \A i \in 1 .. kept : indents'[i] = indents[i]
  <2>1. kept \in 0 .. Len(indents)
    BY <1>3, <1>4
  <2> QED
    BY <1>1, <1>4, <2>1, Prefix
<1> DEFINE d == Len(indents) - kept
<1>7. d \in Nat /\ d >= 1
  BY <1>3, <1>4, <1>5
<1>8. /\ tokens' \in Seq(TokenType) /\ Len(tokens') = d + 2
      /\ \A i \in 1 .. d : tokens'[i].kind = "DEDENT"
      /\ tokens'[d + 1].kind = k /\ tokens'[d + 1].line = Len(lines')
      /\ tokens'[d + 2].kind = "NEWLINE"
  <2>1. /\ Token("NEWLINE") \in TokenType /\ Token("NEWLINE").kind = "NEWLINE"
        /\ Token(k) \in TokenType /\ Token(k).kind = k /\ Token(k).line = Len(lines) + 1
    BY <1>2, TokenFacts DEF TokenKind
  <2> DEFINE s == Times(d, "DEDENT")
             a == Token(k)
             b == Token("NEWLINE")
  <2>2. s \in Seq(TokenType) /\ Len(s) = d /\ \A i \in 1 .. d : s[i].kind = "DEDENT"
    BY <1>7, TimesFacts
  <2>3. a \in TokenType /\ b \in TokenType /\ tokens' = s \o <<a, b>>
    BY <1>1, <2>1
  <2> HIDE DEF s, a, b
  <2>4. /\ s \o <<a, b>> \in Seq(TokenType) /\ Len(s \o <<a, b>>) = Len(s) + 2
        /\ \A i \in 1 .. Len(s) : (s \o <<a, b>>)[i] = s[i]
        /\ (s \o <<a, b>>)[Len(s) + 1] = a /\ (s \o <<a, b>>)[Len(s) + 2] = b
    BY ONLY <2>2, <2>3, Joined
  <2> HIDE DEF d
  <2>5. /\ tokens' \in Seq(TokenType) /\ Len(tokens') = d + 2
        /\ \A i \in 1 .. d : tokens'[i] = s[i]
        /\ tokens'[d + 1] = a /\ tokens'[d + 2] = b
    BY ONLY <2>2, <2>3, <2>4
  <2> QED
    BY <1>2, <2>1, <2>2, <2>5 DEF a, b
<1>9. TypeOK'
  BY <1>1, <1>2, <1>6, <1>8 DEF TypeOK
<1> HIDE DEF d
<1>10. /\ Len(tokens') >= 3 /\ Len(tokens') - 2 = d /\ Len(tokens') - 1 = d + 1 /\ tokens' # << >>
       /\ 1 \in 1 .. d
  <2>1. Len(tokens') >= 3 /\ Len(tokens') - 2 = d /\ Len(tokens') - 1 = d + 1 /\ 1 \in 1 .. d
    BY ONLY <1>7, <1>8
  <2> QED
    BY <2>1
<1>11. Pending' /\ ~IndentPending' /\ Dedents' = d
  <2>1. Len(tokens') >= 2
    BY ONLY <1>10, <1>7, <1>8
  <2>2. tokens'[1].kind = "DEDENT"
    BY <1>8, <1>10
  <2> QED
    BY <1>2, <1>10, <2>1, <2>2 DEF Pending, IndentPending, Dedents
<1>12. Done' = Done /\ Seen' = Len(lines)
  BY <1>1, <1>11, NotYetSeen
<1>13. Stack'
  <2>1. DOMAIN indents' = 1 .. kept /\ \A i \in 1 .. kept : i \in 1 .. Len(indents)
    BY <1>3, <1>4, <1>6
  <2>2. Len(indents') >= 1 /\ indents'[1] = 0 /\ DOMAIN indents = 1 .. Len(indents)
    BY <1>3, <1>4, <1>6 DEF Stack
  <2>3. \A i, j \in 1 .. kept : i < j => indents'[i] < indents'[j]
    BY ONLY <1>4, <1>6, <2>1
  <2> QED
    BY <2>1, <2>2, <2>3 DEF Stack
<1>14. OpenStack'
  <2>1. DOMAIN indents' = 1 .. Len(indents')
    BY <1>6
  <2>2. \A i \in 1 .. kept : i \in 1 .. Len(indents)
    BY <1>3, <1>4
  <2>3. \A i \in 1 .. Len(indents') : /\ i \in 1 .. Len(indents) /\ indents'[i] = indents[i]
                                      /\ k = "blank" \/ indents[i] <= n
    BY <1>3, <1>6, <2>2
  <2> QED
    BY <1>1, <2>1, <2>3, StackStays DEF Reads
<1>15. indents'[Len(indents')] = n
  BY <1>1, <1>3, <1>6
<1>16. LineTokens' /\ EndTokens'
  <2>1. Len(lines') >= 1
    BY ONLY <1>2
  <2>2. (~Is(Len(lines), {"blank"}) /\ Col(Len(lines)) = Top)'
    <3>1. lines'[Len(lines')].kind = k /\ lines'[Len(lines')].indent = n /\ k # "blank"
      BY <1>1, <1>2
    <3> QED
      BY ONLY <1>15, <3>1 DEF Is, Col, Top
  <2>3. (tokens[Len(tokens) - 1].kind = lines[Len(lines)].kind)' /\ (tokens[Len(tokens) - 1].line = Len(lines))'
    BY <1>2, <1>8, <1>10
  <2>4. \A i \in 1 .. Len(tokens') - 2 : tokens'[i].kind = "DEDENT"
    BY <1>8, <1>10
  <2>5. tokens'[Len(tokens')].kind = "NEWLINE"
    BY <1>8
  <2> QED
    BY <1>2, <1>11, <2>1, <2>2, <2>3, <2>4, <2>5 DEF LineTokens, EndTokens
<1>17. Waits' /\ TreeDomain'
  BY <1>2, <1>12, Waiting DEF Waits, Reads, TreeDomain
<1>18. LineReads
  BY <1>1, <1>2, <1>9, <1>10, <1>12, <1>13, <1>14, <1>16, <1>17 DEF LineReads, Reads
<1>19. kept \in 1 .. Len(indents) - 1
  BY <1>3, <1>4, <1>5
<1> QED
  BY <1>1, <1>6, <1>11, <1>12, <1>15, <1>18, <1>19 DEF d

-----------------------------------------------------------------------------
(***************************************************************************)
(* Core, when the lexer reads a line.                                      *)
(***************************************************************************)
LEMMA StackFacts ==
  ASSUME TypeOK, Stack
  PROVE  /\ Len(indents) \in Nat /\ Len(indents) >= 1 /\ DOMAIN indents = 1 .. Len(indents)
         /\ \A i \in 1 .. Len(indents) : indents[i] \in Nat /\ indents[i] <= Top
         /\ \A i, j \in 1 .. Len(indents) : (i < j <=> indents[i] < indents[j]) /\ (i = j <=> indents[i] = indents[j])
         /\ Top \in Nat /\ Top = indents[Len(indents)] /\ Len(indents) \in 1 .. Len(indents)
         /\ 1 \in 1 .. Len(indents) /\ indents[1] = 0
<1>1. /\ Len(indents) \in Nat /\ Len(indents) >= 1 /\ DOMAIN indents = 1 .. Len(indents)
      /\ \A i \in 1 .. Len(indents) : indents[i] \in Nat
      /\ \A i, j \in 1 .. Len(indents) : i < j => indents[i] < indents[j]
      /\ indents[1] = 0 /\ Top = indents[Len(indents)]
  BY TypeFacts DEF Stack, Top
<1> DEFINE size == Len(indents)
<1>2. size \in Nat /\ size >= 1 /\ size \in 1 .. size /\ 1 \in 1 .. size
  BY <1>1
<1>3. \A i \in 1 .. size : i = size \/ i < size
  BY <1>2
<1>4. \A i \in 1 .. size : indents[i] <= Top
  <2> SUFFICES ASSUME NEW i \in 1 .. size
               PROVE  indents[i] <= Top
    OBVIOUS
  <2>1. CASE i = size
    BY <1>1, <1>2, <2>1
  <2>2. CASE i < size
    BY <1>1, <1>2, <2>2
  <2> QED
    BY <1>3, <2>1, <2>2
<1>5. \A i, j \in 1 .. size : i < j \/ i = j \/ j < i
  BY <1>2
<1>6. \A i, j \in 1 .. size : (i < j <=> indents[i] < indents[j]) /\ (i = j <=> indents[i] = indents[j])
  BY <1>1, <1>5
<1> QED
  BY <1>1, <1>2, <1>4, <1>6

\* A part of Core that holds for every kind of line.
LEMMA LineCore ==
  ASSUME TypeOK, Reads, Core, NEW n \in Column, NEW k \in Kind, NextLine(n, k), LineReads,
         \A i \in 1 .. Len(indents') :
            \/ i \in 1 .. Len(indents) /\ indents'[i] = indents[i]
            \/ want = "indent" /\ i = Len(suites)
            \/ want = "bracket" /\ i > Len(suites)
  PROVE  SuitesOK' /\ Owners' /\ Heads' /\ TreeOK' /\ LastOK'
<1>1. /\ suites' = suites /\ want' = want /\ last' = last /\ tree' = tree /\ tokens = << >> /\ ~ended
      /\ Done' = Done
  BY LineAdded DEF LineReads
<1>2. want \in {"statement", "indent", "bracket"} /\ ~Pending
  BY <1>1, Waiting
<1>3. /\ Done \subseteq 1 .. Len(lines)
      /\ \A j \in Done : Col(j)' = Col(j) /\ Parent(j)' = Parent(j) /\ Col(j) \in Nat
      /\ \A j \in Done : \A K : Is(j, K)' <=> Is(j, K)
  <2>1. Done \subseteq 1 .. Len(lines)
    BY TypeFacts DEF Done
  <2> QED
    BY <2>1, EarlierLines, TypeFacts
<1>4. /\ Len(suites) \in Nat /\ DOMAIN suites = 1 .. Len(suites)
      /\ DOMAIN indents = 1 .. Len(indents) /\ DOMAIN indents' = 1 .. Len(indents')
      /\ \A i \in 1 .. Len(suites) : suites[i] \in Nat
  <2>1. TypeOK'
    BY DEF LineReads
  <2> QED
    BY <2>1, TypeFacts DEF TypeOK
<1>5. \A i \in 1 .. Len(suites) : i # 1 => suites[i] \in Done /\ Is(suites[i], Header)
  BY <1>4 DEF Core, SuitesOK
<1>6. SuitesOK'
  <2>1. \A i \in 1 .. Len(suites) : i # 1 => suites[i] \in Done' /\ Is(suites[i], Header)'
    <3> SUFFICES ASSUME NEW i \in 1 .. Len(suites), i # 1
                 PROVE  suites[i] \in Done' /\ Is(suites[i], Header)'
      OBVIOUS
    <3>1. PICK h \in Done : h = suites[i]
      BY <1>5
    <3>2. Is(h, Header)'
      BY <1>3, <1>5, <3>1
    <3>3. suites'[i] = h
      BY <1>1, <3>1
    <3>4. Is(suites[i], Header)'
      BY <3>2, <3>3 DEF Is
    <3> QED
      BY <1>1, <3>1, <3>4
  <2> QED
    BY <1>1, <1>4, <2>1 DEF Core, SuitesOK
<1>7. Owners'
  <2> SUFFICES ASSUME NEW i \in 1 .. Len(indents'), i \in 1 .. Len(suites), NEW s \in Done, s > suites[i]
               PROVE  Col(s)' >= indents'[i]
    BY <1>1, <1>4 DEF Owners
  <2>1. CASE i \in 1 .. Len(indents) /\ indents'[i] = indents[i]
    <3>1. Col(s) >= indents[i]
      BY <1>4, <2>1 DEF Core, Owners
    <3> QED
      BY <1>3, <2>1, <3>1
  <2>2. CASE want = "indent" /\ i = Len(suites)
    <3>1. suites[i] = Len(lines)
      <4>1. NewestOK
        BY DEF Core
      <4>2. Suite = Len(lines)
        BY <1>1, <1>2, <2>2, <4>1 DEF NewestOK
      <4> QED
        BY <2>2, <4>2 DEF Suite
    <3>2. s <= Len(lines) /\ s \in Nat /\ Len(lines) \in Nat
      <4>1. s \in 1 .. Len(lines) /\ Len(lines) \in Nat
        BY <1>3, TypeFacts
      <4> QED
        BY ONLY <4>1
    <3> QED
      BY <3>1, <3>2
  <2>3. CASE want = "bracket" /\ i > Len(suites)
    BY <1>4, <2>3
  <2> QED
    BY <2>1, <2>2, <2>3
<1>8. Heads'
  <2> SUFFICES ASSUME NEW i \in 1 .. Len(indents'), i + 1 \in 1 .. Len(suites)
               PROVE  /\ Col(suites[i + 1])' = indents'[i]
                      /\ \A s \in Done : s > suites[i + 1] => Col(s)' > indents'[i]
    BY <1>1, <1>4 DEF Heads
  <2>1. i \in 1 .. Len(indents) /\ indents'[i] = indents[i]
    <3>1. i # Len(suites) /\ ~(i > Len(suites))
      <4>1. PICK m \in Nat : m = Len(suites)
        BY <1>4
      <4>2. i \in Int /\ i + 1 <= m
        BY <4>1
      <4>3. i # m /\ ~(i > m)
        BY ONLY <4>1, <4>2
      <4> QED
        BY ONLY <4>1, <4>3
    <3> QED
      BY <3>1
  <2>2. i + 1 # 1
    OBVIOUS
  <2>3. PICK h \in Done : h = suites[i + 1]
    BY <1>5, <2>2
  <2>4. Col(h) = indents[i] /\ \A s \in Done : s > h => Col(s) > indents[i]
    BY <1>4, <2>1, <2>3 DEF Core, Heads
  <2>5. Col(h)' = indents'[i] /\ \A s \in Done : s > h => Col(s)' > indents'[i]
    BY <1>3, <2>1, <2>4
  <2>6. suites'[i + 1] = h
    BY <1>1, <2>3
  <2>7. Col(suites[i + 1])' = indents'[i]
    BY <2>5, <2>6 DEF Col
  <2> QED
    BY <2>3, <2>5, <2>7
<1>9. TreeOK'
  BY <1>1, <1>3 DEF Core, TreeOK
<1>10. LastOK'
  BY <1>1, <1>2 DEF LastOK
<1> QED
  BY <1>6, <1>7, <1>8, <1>9, <1>10

\* Outside a bracket a line leaves the brackets closed.
LEMMA LineClosed ==
  ASSUME TypeOK, Reads, Core, NEW n \in Column, NEW k \in Kind, NextLine(n, k),
         k = "blank" => Seen' = Len(lines) + 1, k # "blank" => Seen' = Len(lines), want # "bracket"
  PROVE  Brackets'
<1>1. want' = want /\ Len(lines) \in Nat /\ Seen = Len(lines)
  BY LineAdded, NoTokens
<1>2. \A b \in 1 .. Len(lines) : Is(b, {"open"}) => \E i \in b + 1 .. Len(lines) : Is(i, {"close"})
  BY <1>1 DEF Core, Brackets, Closed
<1>3. /\ \A j \in 1 .. Len(lines) : \A K : Is(j, K)' <=> Is(j, K)
      /\ \A j : j = Len(lines) + 1 => \A K : Is(j, K)' <=> k \in K
  BY EarlierLines
<1> SUFFICES ASSUME NEW b \in 1 .. Seen', Is(b, {"open"})'
             PROVE  \E i \in b + 1 .. Seen' : Is(i, {"close"})'
  BY <1>1 DEF Brackets, Closed
<1>4. b \in 1 .. Len(lines)
  <2>1. CASE k = "blank"
    <3>1. b # Len(lines) + 1
      BY <1>3, <2>1
    <3> QED
      BY <1>1, <2>1, <3>1
  <2>2. CASE k # "blank"
    BY <2>2
  <2> QED
    BY <2>1, <2>2
<1>5. PICK i \in b + 1 .. Len(lines) : Is(i, {"close"})
  BY <1>2, <1>3, <1>4
<1>6. i \in 1 .. Len(lines) /\ i \in b + 1 .. Seen'
  BY <1>1, <1>4
<1> QED
  BY <1>3, <1>5, <1>6

\* In a bracket with hanging elements the column of a line is known.
LEMMA BracketLine ==
  ASSUME TypeOK, Reads, NEW n \in Column, NEW k \in Kind, NextLine(n, k), Hanging',
         k \in Continuation, NEW b \in 1 .. Len(lines), Is(b, {"open"}),
         \A i \in b + 1 .. Len(lines) : Is(i, {"item", "blank"})
  PROVE  /\ k = "close" => n = Col(b)
         /\ k = "item" => /\ n > Col(b)
                          /\ \A i \in b + 1 .. Len(lines) : Is(i, {"item"}) => Col(i) = n
<1> DEFINE size == Len(lines)
<1>1. /\ size \in Nat /\ DOMAIN lines' = 1 .. size + 1 /\ Len(lines') = size + 1
  <2>1. lines' \in Seq(LineType) /\ Len(lines') = size + 1 /\ size \in Nat
    BY LineAdded
  <2> QED
    BY ONLY <2>1
<1>2. /\ \A j \in 1 .. size : Col(j)' = Col(j)
      /\ \A j \in 1 .. size : \A K : Is(j, K)' <=> Is(j, K)
      /\ \A j : j = size + 1 => Col(j)' = n /\ \A K : Is(j, K)' <=> k \in K
  BY EarlierLines
<1>3. \A i \in b + 1 .. size : ~Is(i, {"open"})
  BY DEF Is
<1> HIDE DEF size
<1>4. PICK m : m = size + 1
  OBVIOUS
<1>5. /\ Col(m)' = n /\ m \in 1 .. size + 1 /\ m > 0 /\ m \in Nat
      /\ Is(m, Continuation)' /\ (k = "close" => Is(m, {"close"})') /\ (k = "item" => Is(m, {"item"})')
  BY <1>1, <1>2, <1>4
<1>6. b \in 1 .. size /\ b < m /\ Is(b, {"open"})'
  BY <1>1, <1>2, <1>4 DEF size
<1>7. Opener(m)' = b
  <2> DEFINE S == {i \in 1 .. size + 1 : i < m /\ Is(i, {"open"})'}
  <2>1. \A i \in 1 .. size + 1 : i < m => i \in 1 .. b \/ i \in b + 1 .. size
    BY <1>1, <1>4, <1>6
  <2>2. \A i \in b + 1 .. size : i \in 1 .. size
    BY <1>6, <1>1
  <2>3. \A i \in S : i <= b
    BY <1>2, <1>3, <2>1, <2>2
  <2>4. S \subseteq Nat /\ b \in S
    BY <1>1, <1>6
  <2>5. Opener(m)' = Latest(S)
    BY <1>1 DEF Opener
  <2> HIDE DEF S
  <2> QED
    BY <2>3, <2>4, <2>5, LatestIs
<1>8. /\ Is(m, {"close"})' => Col(m)' = Col(b)'
      /\ Is(m, {"item"})' => Col(m)' > Col(b)'
      /\ \A i \in b .. m : Is(i, {"item"})' /\ Is(m, {"item"})' => Col(i)' = Col(m)'
  <2>1. b # 0
    BY <1>6, <1>1
  <2>2. m \in DOMAIN lines'
    BY <1>1, <1>5
  <2>3. /\ Is(m, {"close"})' => Col(m)' = Col(Opener(m))'
        /\ Is(m, {"item"})' => Col(m)' > Col(Opener(m))'
        /\ \A i \in Opener(m)' .. m : Is(i, {"item"})' /\ Is(m, {"item"})' => Col(i)' = Col(m)'
    BY <2>1, <2>2, <1>5, <1>7 DEF Hanging
  <2>4. Col(Opener(m))' = Col(b)'
    BY <1>7 DEF Col
  <2> QED
    BY <2>3, <2>4, <1>7
<1>9. \A i \in b + 1 .. size : i \in b .. m /\ i \in 1 .. size
  BY <1>1, <1>4, <1>6
<1>10. Col(b)' = Col(b)
  BY <1>2, <1>6
<1> QED
  BY <1>2, <1>5, <1>8, <1>9, <1>10 DEF size

\* The bracket stays open when the column of the line is on the stack.
LEMMA LineHolds ==
  ASSUME TypeOK, Reads, NEW n \in Column, NEW k \in Kind, NextLine(n, k),
         NEW b \in 1 .. Len(lines), Is(b, {"open"}), Col(b) = indents[Len(suites)],
         \A i \in b + 1 .. Len(lines) : Is(i, {"item", "blank"}),
         k = "blank" => Seen' = Len(lines) + 1, k # "blank" => Seen' = Len(lines),
         indents'[Len(suites)] = indents[Len(suites)], Indented(b)'
  PROVE  Holds(b)'
<1>1. suites' = suites /\ Len(lines) \in Nat
  BY LineAdded
<1>2. /\ \A j \in 1 .. Len(lines) : Col(j)' = Col(j)
      /\ \A j \in 1 .. Len(lines) : \A K : Is(j, K)' <=> Is(j, K)
      /\ \A j : j = Len(lines) + 1 => \A K : Is(j, K)' <=> k \in K
  BY EarlierLines
<1>3. b \in 1 .. Seen'
  BY <1>1
<1>4. \A i \in b + 1 .. Seen' : Is(i, {"item", "blank"})'
  <2> SUFFICES ASSUME NEW i \in b + 1 .. Seen'
               PROVE  Is(i, {"item", "blank"})'
    OBVIOUS
  <2>1. i \in b + 1 .. Len(lines) \/ (i = Len(lines) + 1 /\ k = "blank")
    BY <1>1
  <2>2. \A q \in b + 1 .. Len(lines) : q \in 1 .. Len(lines)
    BY <1>1
  <2> QED
    BY <1>2, <2>1, <2>2
<1>5. Is(b, {"open"})' /\ (Col(b) = indents[Len(suites)])'
  BY <1>1, <1>2
<1> QED
  BY <1>3, <1>4, <1>5 DEF Holds

\* The elements that are there when a line has been added.
LEMMA LineItems ==
  ASSUME TypeOK, NEW n \in Column, NEW k \in Kind, NextLine(n, k), NEW b \in 1 .. Len(lines)
  PROVE  /\ (\E i \in b + 1 .. Len(lines) : Is(i, {"item"}))' <=>
              k = "item" \/ \E i \in b + 1 .. Len(lines) : Is(i, {"item"})
         /\ /\ \A i \in b + 1 .. Len(lines) : Is(i, {"item"}) => Col(i) = Top'
            /\ k = "item" => n = Top'
            => (\A i \in b + 1 .. Len(lines) : Is(i, {"item"}) => Col(i) = Top)'
<1>1. Len(lines') = Len(lines) + 1 /\ Len(lines) \in Nat
  BY LineAdded
<1>2. /\ \A j \in 1 .. Len(lines) : Col(j)' = Col(j)
      /\ \A j \in 1 .. Len(lines) : \A K : Is(j, K)' <=> Is(j, K)
      /\ \A j : j = Len(lines) + 1 => Col(j)' = n /\ \A K : Is(j, K)' <=> k \in K
  BY EarlierLines
<1>3. PICK m : m = Len(lines) + 1
  OBVIOUS
<1>4. m \in b + 1 .. Len(lines') /\ (Is(m, {"item"})' <=> k = "item") /\ Col(m)' = n
  BY <1>1, <1>2, <1>3
<1>5. /\ \A i \in b + 1 .. Len(lines') : i = m \/ i \in b + 1 .. Len(lines)
      /\ \A i \in b + 1 .. Len(lines) : i \in b + 1 .. Len(lines') /\ i \in 1 .. Len(lines)
  BY <1>1, <1>3
<1>6. (\E i \in b + 1 .. Len(lines) : Is(i, {"item"}))' <=>
         k = "item" \/ \E i \in b + 1 .. Len(lines) : Is(i, {"item"})
  BY <1>2, <1>4, <1>5
<1>7. ASSUME \A i \in b + 1 .. Len(lines) : Is(i, {"item"}) => Col(i) = Top',
             k = "item" => n = Top'
      PROVE  (\A i \in b + 1 .. Len(lines) : Is(i, {"item"}) => Col(i) = Top)'
  BY <1>2, <1>4, <1>5, <1>7
<1> QED
  BY <1>6, <1>7

LEMMA BlankCore ==
  ASSUME TypeOK, Reads, Core, NEW n \in Column, NEW k \in Kind, BlankLine(n, k), ~Doomed'
  PROVE  Core'
<1>1. /\ LineReads /\ ~Pending' /\ ~IndentPending' /\ Dedents' = 0 /\ indents' = indents /\ k = "blank"
      /\ Len(tokens') = 1 /\ Seen' = Len(lines) + 1 /\ NextLine(n, k)
  BY BlankReads DEF BlankLine
<1>2. /\ suites' = suites /\ want' = want /\ tokens = << >> /\ ~ended /\ ended' = ended /\ Done' = Done
      /\ tokens' # << >>
  BY <1>1, LineAdded DEF LineReads
<1>3. want \in {"statement", "bracket"} /\ ~Pending /\ Dedents = 0 /\ ~IndentPending /\ Seen = Len(lines)
  <2>1. want # "indent"
    BY <1>1, <1>2 DEF Doomed
  <2> QED
    BY <1>2, <2>1, Waiting, NoTokens
<1>4. SuitesOK' /\ Owners' /\ Heads' /\ TreeOK' /\ LastOK'
  <2>1. \A i \in 1 .. Len(indents') : i \in 1 .. Len(indents) /\ indents'[i] = indents[i]
    BY <1>1
  <2> QED
    BY <1>1, <2>1, LineCore
<1>5. LevelsOK'
  BY <1>1, <1>2, <1>3 DEF Core, LevelsOK, Levels
<1>6. Top' = Top
  BY <1>1 DEF Top
<1>7. \A j \in Done : /\ Col(j)' = Col(j)
                      /\ \A K : Is(j, K)' <=> Is(j, K)
  BY <1>1, EarlierLines, TypeFacts DEF Done
<1>8. NewestOK'
  <2>1. (Done = {} /\ Top = 0 /\ want = "statement") \/ \E s \in Done : Newest(s)
    BY <1>2, <1>3 DEF Core, NewestOK
  <2>2. \A s \in Done : Newest(s) => Newest(s)'
    BY <1>2, <1>6, <1>7 DEF Newest
  <2>3. (Done' = {} /\ Top' = 0 /\ want' = "statement") \/ \E s \in Done' : Newest(s)'
    BY <1>2, <1>6, <2>1, <2>2
  <2> QED
    BY <1>2, <1>3, <2>3 DEF NewestOK
<1>9. Brackets'
  <2>1. CASE want # "bracket"
    BY <1>1, <2>1, LineClosed
  <2>2. CASE want = "bracket"
    <3>1. PICK b \in 1 .. Len(lines) : Holds(b)
      BY <1>3, <2>2 DEF Core, Brackets
    <3>2. /\ Is(b, {"open"}) /\ Col(b) = indents[Len(suites)]
          /\ \A i \in b + 1 .. Len(lines) : Is(i, {"item", "blank"})
          /\ IF \E i \in b + 1 .. Len(lines) : Is(i, {"item"})
             THEN /\ Len(indents) = Len(suites) + 1
                  /\ \A i \in b + 1 .. Len(lines) : Is(i, {"item"}) => Col(i) = Top
             ELSE Len(indents) = Len(suites)
      BY <1>3, <3>1 DEF Holds, Indented
    <3>3. Indented(b)'
      <4>1. (\E i \in b + 1 .. Len(lines) : Is(i, {"item"}))' <=> \E i \in b + 1 .. Len(lines) : Is(i, {"item"})
        BY <1>1, LineItems
      <4>2. CASE \E i \in b + 1 .. Len(lines) : Is(i, {"item"})
        <5>1. \A i \in b + 1 .. Len(lines) : Is(i, {"item"}) => Col(i) = Top'
          BY <1>6, <3>2, <4>2
        <5>2. (\A i \in b + 1 .. Len(lines) : Is(i, {"item"}) => Col(i) = Top)'
          BY <1>1, <5>1, LineItems
        <5>3. (Len(indents) = Len(suites) + 1)'
          BY <1>1, <1>2, <3>2, <4>2
        <5> QED
          BY <1>1, <4>1, <4>2, <5>2, <5>3 DEF Indented
      <4>3. CASE ~\E i \in b + 1 .. Len(lines) : Is(i, {"item"})
        <5>1. (Len(indents) = Len(suites))'
          BY <1>1, <1>2, <3>2, <4>3
        <5> QED
          BY <1>1, <4>1, <4>3, <5>1 DEF Indented
      <4> QED
        BY <4>2, <4>3
    <3>4. Holds(b)'
      BY <1>1, <3>2, <3>3, LineHolds
    <3>5. b \in 1 .. Seen'
      BY <1>1, TypeFacts
    <3> QED
      BY <1>2, <2>2, <3>4, <3>5 DEF Brackets
  <2> QED
    BY <2>1, <2>2
<1> QED
  BY <1>4, <1>5, <1>8, <1>9 DEF Core

\* A line of text, wherever it stands: what is left to show of Core.
LEMMA TextCore ==
  ASSUME TypeOK, Reads, Core, NEW n \in Column, NEW k \in Kind, NextLine(n, k), k # "blank",
         LineReads, Pending', Seen' = Len(lines),
         \A i \in 1 .. Len(indents') :
            \/ i \in 1 .. Len(indents) /\ indents'[i] = indents[i]
            \/ want = "indent" /\ i = Len(suites)
            \/ want = "bracket" /\ i > Len(suites),
         LevelsOK',
         want = "bracket" => \E b \in 1 .. Len(lines) : Holds(b)'
  PROVE  Core'
<1>1. SuitesOK' /\ Owners' /\ Heads' /\ TreeOK' /\ LastOK'
  BY LineCore
<1>2. NewestOK'
  BY DEF NewestOK
<1>3. want' = want
  BY LineAdded
<1>4. Brackets'
  <2>1. CASE want # "bracket"
    BY <2>1, LineClosed
  <2>2. CASE want = "bracket"
    BY <1>3, <2>2 DEF Brackets
  <2> QED
    BY <2>1, <2>2
<1> QED
  BY <1>1, <1>2, <1>4 DEF Core

\* What a bracket looks like before the line.
LEMMA BracketBefore ==
  ASSUME TypeOK, Reads, Core, tokens = << >>, ~ended, want = "bracket"
  PROVE  /\ Len(suites) \in 1 .. Len(indents)
         /\ \E b \in 1 .. Len(lines) :
              /\ Is(b, {"open"}) /\ Col(b) = indents[Len(suites)]
              /\ \A i \in b + 1 .. Len(lines) : Is(i, {"item", "blank"})
              /\ \/ /\ \E i \in b + 1 .. Len(lines) : Is(i, {"item"})
                    /\ Len(indents) = Len(suites) + 1
                    /\ \A i \in b + 1 .. Len(lines) : Is(i, {"item"}) => Col(i) = Top
                 \/ /\ ~\E i \in b + 1 .. Len(lines) : Is(i, {"item"})
                    /\ Len(indents) = Len(suites)
<1>1. ~Pending /\ Seen = Len(lines)
  BY NoTokens
<1>2. PICK b \in 1 .. Len(lines) : Holds(b)
  BY <1>1 DEF Core, Brackets
<1>3. /\ Is(b, {"open"}) /\ Col(b) = indents[Len(suites)]
      /\ \A i \in b + 1 .. Len(lines) : Is(i, {"item", "blank"})
      /\ IF \E i \in b + 1 .. Len(lines) : Is(i, {"item"})
         THEN /\ Len(indents) = Len(suites) + 1
              /\ \A i \in b + 1 .. Len(lines) : Is(i, {"item"}) => Col(i) = Top
         ELSE Len(indents) = Len(suites)
  BY <1>1, <1>2 DEF Holds, Indented
<1>4. Len(suites) \in 1 .. Len(indents)
  BY TypeFacts DEF Core, LevelsOK
<1> QED
  BY <1>3, <1>4

\* In a bracket only its own lines are of use to the parser.
LEMMA BracketText ==
  ASSUME TypeOK, NEW n \in Column, NEW k \in Kind, NextLine(n, k), want = "bracket",
         Pending', tokens' # << >>, ~Doomed'
  PROVE  k \in Continuation
<1>1. want' = want /\ (Is(Len(lines), Continuation)' <=> k \in Continuation)
  BY LineAdded, EarlierLines
<1> QED
  BY <1>1 DEF Doomed

\* The line that closes a bracket, or its next element.
LEMMA CloseHolds ==
  ASSUME TypeOK, Reads, NEW n \in Column, NEW k \in Kind, NextLine(n, k), k \in Continuation,
         NEW b \in 1 .. Len(lines), Is(b, {"open"}), Col(b) = indents[Len(suites)],
         \A i \in b + 1 .. Len(lines) : Is(i, {"item", "blank"}),
         Pending', Seen' = Len(lines), indents'[Len(suites)] = indents[Len(suites)],
         k = "close" => Len(indents') = Len(suites),
         k = "item" => /\ Len(indents') = Len(suites) + 1 /\ n = Top'
                       /\ \A i \in b + 1 .. Len(lines) : Is(i, {"item"}) => Col(i) = Top'
  PROVE  Holds(b)'
<1>1. suites' = suites /\ (Is(Len(lines), {"close"})' <=> k = "close")
  BY LineAdded, EarlierLines
<1>2. k = "close" \/ (k = "item" /\ k # "close")
  BY DEF Continuation
<1>3. Indented(b)'
  <2>1. CASE k = "close"
    BY <1>1, <2>1 DEF Indented
  <2>2. CASE k = "item" /\ k # "close"
    <3>1. /\ (\E i \in b + 1 .. Len(lines) : Is(i, {"item"}))'
          /\ (\A i \in b + 1 .. Len(lines) : Is(i, {"item"}) => Col(i) = Top)'
      BY <2>2, LineItems
    <3>2. (Len(indents) = Len(suites) + 1)'
      BY <1>1, <2>2
    <3> QED
      BY <1>1, <2>2, <3>1, <3>2 DEF Indented
  <2> QED
    BY <1>2, <2>1, <2>2
<1>4. k # "blank"
  BY DEF Continuation
<1> QED
  BY <1>3, <1>4, LineHolds

LEMMA SameCore ==
  ASSUME TypeOK, Reads, Core, NEW n \in Column, NEW k \in Kind, SameLine(n, k), Hanging', ~Doomed'
  PROVE  Core'
<1>1. /\ LineReads /\ Pending' /\ ~IndentPending' /\ Dedents' = 0 /\ indents' = indents
      /\ k # "blank" /\ n = Top /\ Seen' = Len(lines) /\ NextLine(n, k)
  BY SameReads DEF SameLine
<1>2. /\ suites' = suites /\ want' = want /\ tokens = << >> /\ ~ended /\ ended' = ended
      /\ tokens' # << >>
  BY <1>1, LineAdded DEF LineReads
<1>3. want \in {"statement", "bracket"} /\ Dedents = 0 /\ ~IndentPending
  <2>1. want # "indent"
    BY <1>1, <1>2 DEF Doomed
  <2> QED
    BY <1>2, <2>1, Waiting, NoTokens
<1>4. LevelsOK'
  BY <1>1, <1>2, <1>3 DEF Core, LevelsOK, Levels
<1>5. ASSUME want = "bracket"
      PROVE  \E b \in 1 .. Len(lines) : Holds(b)'
  <2>1. k \in Continuation
    BY <1>1, <1>2, <1>5, BracketText
  <2>2. PICK b \in 1 .. Len(lines) :
              /\ Is(b, {"open"}) /\ Col(b) = indents[Len(suites)]
              /\ \A i \in b + 1 .. Len(lines) : Is(i, {"item", "blank"})
              /\ \/ /\ \E i \in b + 1 .. Len(lines) : Is(i, {"item"})
                    /\ Len(indents) = Len(suites) + 1
                    /\ \A i \in b + 1 .. Len(lines) : Is(i, {"item"}) => Col(i) = Top
                 \/ /\ ~\E i \in b + 1 .. Len(lines) : Is(i, {"item"})
                    /\ Len(indents) = Len(suites)
    BY <1>2, <1>5, BracketBefore
  <2>3. /\ k = "close" => n = Col(b)
        /\ k = "item" => n > Col(b)
    BY <1>1, <2>1, <2>2, BracketLine
  <2>4. /\ Len(suites) \in 1 .. Len(indents) /\ Top = indents[Len(indents)] /\ Top \in Nat
        /\ Len(indents) \in 1 .. Len(indents)
        /\ \A i, j \in 1 .. Len(indents) : i = j <=> indents[i] = indents[j]
    BY <1>2, <1>5, BracketBefore, StackFacts DEF Reads
  <2>5. k = "close" => Len(indents') = Len(suites)
    BY <1>1, <2>2, <2>3, <2>4
  <2>6. k = "item" => /\ Len(indents') = Len(suites) + 1 /\ n = Top'
                      /\ \A i \in b + 1 .. Len(lines) : Is(i, {"item"}) => Col(i) = Top'
    <3> SUFFICES ASSUME k = "item"
                 PROVE  /\ Len(indents) = Len(suites) + 1
                        /\ \A i \in b + 1 .. Len(lines) : Is(i, {"item"}) => Col(i) = Top
      BY <1>1 DEF Top
    <3>1. Len(indents) # Len(suites)
      BY <1>1, <2>2, <2>3, <2>4
    <3> QED
      BY <2>2, <3>1
  <2>7. Holds(b)'
    BY <1>1, <2>1, <2>2, <2>5, <2>6, CloseHolds
  <2> QED
    BY <2>7
<1>6. \A i \in 1 .. Len(indents') : i \in 1 .. Len(indents) /\ indents'[i] = indents[i]
  BY <1>1
<1> QED
  BY <1>1, <1>4, <1>5, <1>6, TextCore

LEMMA DeeperCore ==
  ASSUME TypeOK, Reads, Core, NEW n \in Column, NEW k \in Kind, DeeperLine(n, k), status' # "rejected",
         Hanging', ~Doomed'
  PROVE  Core'
<1>1. /\ LineReads /\ Pending' /\ IndentPending' /\ Dedents' = 0
      /\ k # "blank" /\ n > Top /\ Seen' = Len(lines) /\ NextLine(n, k)
      /\ Len(indents') = Len(indents) + 1 /\ indents'[Len(indents')] = n
      /\ \A i \in 1 .. Len(indents) : indents'[i] = indents[i]
  BY DeeperReads DEF DeeperLine
<1>2. /\ suites' = suites /\ want' = want /\ tokens = << >> /\ ~ended /\ ended' = ended
      /\ tokens' # << >> /\ n \in Nat
  BY <1>1, LineAdded DEF LineReads
<1>3. want \in {"indent", "bracket"} /\ Dedents = 0 /\ ~IndentPending
  <2>1. want # "statement"
    BY <1>1, <1>2 DEF Doomed
  <2> QED
    BY <1>2, <2>1, Waiting, NoTokens
<1>4. Len(indents) \in Nat /\ DOMAIN indents' = 1 .. Len(indents') /\ Len(suites) \in Nat
  <2>1. TypeOK'
    BY <1>1 DEF LineReads
  <2> QED
    BY <2>1, TypeFacts DEF TypeOK
<1>5. /\ want = "indent" => Len(suites) = Len(indents) + 1
      /\ want = "bracket" => Len(suites) \in 1 .. Len(indents)
  BY <1>3, TypeFacts DEF Core, LevelsOK
<1>6. LevelsOK'
  <2>1. want = "indent" => Len(suites') = Len(indents')
    BY <1>1, <1>2, <1>5
  <2>2. want = "bracket" => Len(suites') \in DOMAIN indents'
    BY <1>1, <1>2, <1>4, <1>5
  <2> QED
    BY <1>1, <1>2, <1>3, <1>4, <2>1, <2>2 DEF LevelsOK
<1>7. ASSUME want = "bracket"
      PROVE  \E b \in 1 .. Len(lines) : Holds(b)'
  <2>1. k \in Continuation
    BY <1>1, <1>2, <1>7, BracketText
  <2>2. PICK b \in 1 .. Len(lines) :
              /\ Is(b, {"open"}) /\ Col(b) = indents[Len(suites)]
              /\ \A i \in b + 1 .. Len(lines) : Is(i, {"item", "blank"})
              /\ \/ /\ \E i \in b + 1 .. Len(lines) : Is(i, {"item"})
                    /\ Len(indents) = Len(suites) + 1
                    /\ \A i \in b + 1 .. Len(lines) : Is(i, {"item"}) => Col(i) = Top
                 \/ /\ ~\E i \in b + 1 .. Len(lines) : Is(i, {"item"})
                    /\ Len(indents) = Len(suites)
    BY <1>2, <1>7, BracketBefore
  <2>3. /\ k = "close" => n = Col(b)
        /\ k = "item" => \A i \in b + 1 .. Len(lines) : Is(i, {"item"}) => Col(i) = n
    BY <1>1, <2>1, <2>2, BracketLine
  <2>4. /\ Len(suites) \in 1 .. Len(indents) /\ Top \in Nat
        /\ indents[Len(suites)] \in Nat /\ indents[Len(suites)] <= Top
    BY <1>2, <1>7, BracketBefore, StackFacts DEF Reads
  <2>5. n # Top /\ ~(n <= Top)
    BY ONLY <1>1, <1>2, <2>4
  <2>6. k # "close"
    BY <2>2, <2>3, <2>4, <2>5
  <2>7. k = "item"
    BY <2>1, <2>6 DEF Continuation
  <2>8. ~\E i \in b + 1 .. Len(lines) : Is(i, {"item"})
    BY <2>2, <2>3, <2>5, <2>7
  <2>9. Len(indents') = Len(suites) + 1
    BY <1>1, <2>2, <2>8
  <2>10. n = Top'
    BY <1>1 DEF Top
  <2>11. Holds(b)'
    BY <1>1, <2>1, <2>2, <2>4, <2>6, <2>8, <2>9, <2>10, CloseHolds
  <2> QED
    BY <2>11
<1>8. \A i \in 1 .. Len(indents') :
         \/ i \in 1 .. Len(indents) /\ indents'[i] = indents[i]
         \/ want = "indent" /\ i = Len(suites)
         \/ want = "bracket" /\ i > Len(suites)
  <2>1. \A i \in 1 .. Len(indents') : i \in 1 .. Len(indents) \/ i = Len(indents) + 1
    BY <1>1, <1>4
  <2>2. want = "bracket" => Len(indents) + 1 > Len(suites)
    BY <1>4, <1>5
  <2> QED
    BY <1>1, <1>3, <1>5, <2>1, <2>2
<1> QED
  BY <1>1, <1>6, <1>7, <1>8, TextCore

LEMMA ShallowerCore ==
  ASSUME TypeOK, Reads, Core, NEW n \in Column, NEW k \in Kind, ShallowerLine(n, k), status' # "rejected",
         Hanging', ~Doomed'
  PROVE  Core'
<1>1. /\ LineReads /\ Pending' /\ ~IndentPending'
      /\ k # "blank" /\ n < Top /\ Seen' = Len(lines) /\ NextLine(n, k)
      /\ Len(indents') \in 1 .. Len(indents) - 1 /\ indents'[Len(indents')] = n
      /\ Dedents' = Len(indents) - Len(indents')
      /\ \A i \in 1 .. Len(indents') : indents'[i] = indents[i]
  BY ShallowerReads DEF ShallowerLine
<1>2. /\ suites' = suites /\ want' = want /\ tokens = << >> /\ ~ended /\ ended' = ended
      /\ tokens' # << >> /\ n \in Nat
  BY <1>1, LineAdded DEF LineReads
<1>3. want \in {"statement", "bracket"} /\ Dedents = 0 /\ ~IndentPending
  <2>1. want # "indent"
    BY <1>1, <1>2 DEF Doomed
  <2> QED
    BY <1>2, <2>1, Waiting, NoTokens
<1>4. /\ Len(indents) \in Nat /\ DOMAIN indents' = 1 .. Len(indents') /\ Len(suites) \in Nat
      /\ Len(indents') \in Nat /\ \A i \in 1 .. Len(indents') : i \in 1 .. Len(indents)
  <2>1. TypeOK'
    BY <1>1 DEF LineReads
  <2>2. Len(indents) \in Nat /\ DOMAIN indents' = 1 .. Len(indents') /\ Len(suites) \in Nat
    BY <2>1, TypeFacts DEF TypeOK
  <2> QED
    BY <1>1, <2>2
<1>5. ASSUME want = "bracket"
      PROVE  /\ \E b \in 1 .. Len(lines) : Holds(b)'
             /\ Len(suites) \in 1 .. Len(indents')
  <2>1. k \in Continuation
    BY <1>1, <1>2, <1>5, BracketText
  <2>2. PICK b \in 1 .. Len(lines) :
              /\ Is(b, {"open"}) /\ Col(b) = indents[Len(suites)]
              /\ \A i \in b + 1 .. Len(lines) : Is(i, {"item", "blank"})
              /\ \/ /\ \E i \in b + 1 .. Len(lines) : Is(i, {"item"})
                    /\ Len(indents) = Len(suites) + 1
                    /\ \A i \in b + 1 .. Len(lines) : Is(i, {"item"}) => Col(i) = Top
                 \/ /\ ~\E i \in b + 1 .. Len(lines) : Is(i, {"item"})
                    /\ Len(indents) = Len(suites)
    BY <1>2, <1>5, BracketBefore
  <2>3. /\ k = "close" => n = Col(b)
        /\ k = "item" => n > Col(b) /\ \A i \in b + 1 .. Len(lines) : Is(i, {"item"}) => Col(i) = n
    BY <1>1, <2>1, <2>2, BracketLine
  <2>4. /\ Len(suites) \in 1 .. Len(indents) /\ Top \in Nat /\ Top = indents[Len(indents)]
        /\ \A i, j \in 1 .. Len(indents) : i = j <=> indents[i] = indents[j]
    BY <1>2, <1>5, BracketBefore, StackFacts DEF Reads
  <2>5. n # Top /\ ~(n > Top)
    BY ONLY <1>1, <1>2, <2>4
  <2>6. k # "item"
    BY <2>2, <2>3, <2>4, <2>5
  <2>7. k = "close"
    BY <2>1, <2>6 DEF Continuation
  <2>8. Len(indents') = Len(suites)
    <3>1. Len(indents') \in 1 .. Len(indents) /\ indents[Len(indents')] = indents[Len(suites)]
      BY <1>1, <1>4, <2>2, <2>3, <2>7
    <3> QED
      BY <2>4, <3>1
  <2>9. Holds(b)'
    BY <1>1, <2>1, <2>2, <2>6, <2>8, CloseHolds
  <2> QED
    BY <1>1, <2>8, <2>9
<1>6. LevelsOK'
  <2>1. want = "statement" => Len(suites) = Len(indents)
    BY <1>2, <1>3, <1>4 DEF Core, LevelsOK, Levels
  <2>2. want = "statement" => Len(suites') = Levels' + Dedents'
    BY <1>1, <1>2, <1>4, <2>1 DEF Levels
  <2> QED
    BY <1>2, <1>3, <1>4, <1>5, <2>2 DEF LevelsOK
<1>7. \A i \in 1 .. Len(indents') : i \in 1 .. Len(indents) /\ indents'[i] = indents[i]
  BY <1>1, <1>4
<1> QED
  BY <1>1, <1>5, <1>6, <1>7, TextCore

-----------------------------------------------------------------------------
(***************************************************************************)
(* The end of the file.                                                    *)
(***************************************************************************)
LEMMA Appended ==
  ASSUME NEW T, NEW s \in Seq(T), NEW a \in T
  PROVE  /\ Append(s, a) \in Seq(T) /\ Len(Append(s, a)) = Len(s) + 1 /\ Len(s) \in Nat
         /\ \A i \in 1 .. Len(s) : Append(s, a)[i] = s[i]
         /\ Append(s, a)[Len(s) + 1] = a
OBVIOUS

LEMMA EndReads ==
  ASSUME TypeOK, Reads, EndOfFile
  PROVE  /\ TypeOK' /\ Reads' /\ status' = "reading" /\ ended' /\ ~ended
         /\ lines' = lines /\ indents' = indents /\ suites' = suites /\ want' = want
         /\ last' = last /\ tree' = tree /\ Done' = Done /\ Seen' = Seen
         /\ tokens = << >> /\ tokens' # << >> /\ ~Pending /\ ~Pending' /\ ~IndentPending'
         /\ Dedents' = Len(indents) - 1
<1>1. /\ status = "reading" /\ status' = status /\ ended' = TRUE /\ ~ended /\ tokens = << >>
      /\ lines' = lines /\ indents' = indents /\ suites' = suites /\ want' = want
      /\ last' = last /\ tree' = tree
      /\ tokens' = Append(Times(Len(indents) - 1, "DEDENT"), Token("EOF"))
  BY DEF EndOfFile, Reading, parser
<1> DEFINE d == Len(indents) - 1
<1>2. d \in Nat
  BY TypeFacts DEF Reads, Stack
<1>3. /\ tokens' \in Seq(TokenType) /\ Len(tokens') = d + 1
      /\ \A i \in 1 .. d : tokens'[i].kind = "DEDENT"
      /\ tokens'[d + 1].kind = "EOF"
  <2>1. /\ Token("EOF") \in TokenType /\ Token("EOF").kind = "EOF"
    BY TokenFacts DEF TokenKind
  <2> DEFINE s == Times(d, "DEDENT")
             a == Token("EOF")
  <2>2. s \in Seq(TokenType) /\ Len(s) = d /\ \A i \in 1 .. d : s[i].kind = "DEDENT"
    BY <1>2, TimesFacts
  <2>3. a \in TokenType /\ tokens' = Append(s, a)
    BY <1>1, <2>1
  <2> HIDE DEF s, a
  <2>4. /\ Append(s, a) \in Seq(TokenType) /\ Len(Append(s, a)) = Len(s) + 1
        /\ \A i \in 1 .. Len(s) : Append(s, a)[i] = s[i]
        /\ Append(s, a)[Len(s) + 1] = a
    BY ONLY <2>2, <2>3, Appended
  <2> HIDE DEF d
  <2>5. /\ tokens' \in Seq(TokenType) /\ Len(tokens') = d + 1
        /\ \A i \in 1 .. d : tokens'[i] = s[i]
        /\ tokens'[d + 1] = a
    BY ONLY <2>2, <2>3, <2>4
  <2> QED
    BY <2>1, <2>2, <2>5 DEF a
<1> HIDE DEF d
<1>4. Len(tokens') - 1 = d /\ Len(tokens') >= 1 /\ tokens' # << >>
  <2>1. Len(tokens') - 1 = d /\ Len(tokens') >= 1
    BY ONLY <1>2, <1>3
  <2> QED
    BY <2>1
<1>5. tokens'[1].kind \in {"EOF", "DEDENT"}
  <2>1. d = 0 \/ 1 \in 1 .. d
    BY ONLY <1>2
  <2>2. CASE d = 0
    BY <1>3, <2>2
  <2>3. CASE 1 \in 1 .. d
    BY <1>3, <2>3
  <2> QED
    BY <2>1, <2>2, <2>3
<1>6. ~IndentPending' /\ ~Pending' /\ ~Pending
  BY <1>1, <1>5, NoTokens DEF IndentPending, Pending
<1>7. Dedents' = d
  BY <1>1, <1>4, <1>6 DEF Dedents
<1>8. Statements' = Statements /\ Seen' = Seen /\ Done' = Done
  BY <1>1, <1>6, SameLines DEF Seen, Done
<1>9. TypeOK'
  BY <1>1, <1>3 DEF TypeOK
<1>10. Stack'
  BY <1>1 DEF Reads, Stack
<1>11. LineTokens' /\ EndTokens'
  BY <1>1, <1>3, <1>4, <1>6 DEF LineTokens, EndTokens
<1>12. Waits' /\ TreeDomain'
  BY <1>1, <1>8, Waiting DEF Waits, Reads, TreeDomain
<1>13. OpenStack'
  BY <1>1 DEF Reads, OpenStack, Is, Col
<1> QED
  BY <1>1, <1>4, <1>6, <1>7, <1>8, <1>9, <1>10, <1>11, <1>12, <1>13 DEF Reads, d

\* Core where lines and statements, suites and tree do not change.
LEMMA CoreStays ==
  ASSUME TypeOK, SuitesOK, Owners, Heads, TreeOK,
         lines' = lines, indents' = indents, suites' = suites, tree' = tree, Done' = Done
  PROVE  SuitesOK' /\ Owners' /\ Heads' /\ TreeOK'
<1>1. /\ \A j : Col(j)' = Col(j) /\ Parent(j)' = Parent(j)
      /\ \A j, K : Is(j, K)' = Is(j, K)
  BY SameLines
<1>2. SuitesOK'
  BY DEF SuitesOK, Is, Header
<1>3. Owners'
  BY DEF Owners, Col
<1>4. Heads'
  BY DEF Heads, Col
<1>5. TreeOK'
  BY <1>1 DEF TreeOK
<1> QED
  BY <1>2, <1>3, <1>4, <1>5

LEMMA ClosedStays ==
  ASSUME Brackets, lines' = lines, Seen' = Seen, want # "bracket", want' # "bracket"
  PROVE  Brackets'
BY DEF Brackets, Closed, Is

LEMMA EndCore ==
  ASSUME TypeOK, Reads, Core, EndOfFile, ~Doomed'
  PROVE  Core'
<1>1. /\ ended' /\ ~ended
      /\ lines' = lines /\ indents' = indents /\ suites' = suites /\ want' = want
      /\ last' = last /\ tree' = tree /\ Done' = Done /\ Seen' = Seen
      /\ tokens = << >> /\ tokens' # << >> /\ ~Pending /\ ~Pending' /\ ~IndentPending'
      /\ Dedents' = Len(indents) - 1
  BY EndReads
<1>2. want = "statement"
  <2>1. want # "indent" /\ want # "bracket"
    BY <1>1 DEF Doomed
  <2> QED
    BY <1>1, <2>1, Waiting
<1>3. SuitesOK' /\ Owners' /\ Heads' /\ TreeOK'
  BY <1>1, CoreStays DEF Core
<1>4. LevelsOK'
  <2>1. Len(suites) = Len(indents) /\ Len(indents) \in Nat
    BY <1>1, <1>2, NoTokens, TypeFacts DEF Core, LevelsOK, Levels
  <2>2. Len(suites') = Levels' + Dedents'
    BY <1>1, <2>1 DEF Levels
  <2> QED
    BY <1>1, <1>2, <2>2 DEF LevelsOK
<1>5. LastOK' /\ NewestOK'
  BY <1>1 DEF LastOK, NewestOK
<1>6. Brackets'
  BY <1>1, <1>2, ClosedStays DEF Core
<1> QED
  BY <1>3, <1>4, <1>5, <1>6 DEF Core

-----------------------------------------------------------------------------
(***************************************************************************)
(* The reference and the suites: whom the next statement belongs to.       *)
(***************************************************************************)
LEMMA DoneFacts ==
  ASSUME TypeOK
  PROVE  /\ Done \subseteq Statements /\ Done \subseteq 1 .. Len(lines)
         /\ \A s \in Done : s \in Nat /\ s > 0 /\ s <= Seen /\ Col(s) \in Nat
<1>1. Done \subseteq Statements /\ Done \subseteq 1 .. Len(lines) /\ \A s \in Done : s <= Seen
  BY TypeFacts DEF Done
<1>2. \A s \in 1 .. Len(lines) : s \in Nat /\ s > 0 /\ Col(s) \in Nat
  BY TypeFacts
<1> QED
  BY <1>1, <1>2

LEMMA SuiteFacts ==
  ASSUME TypeOK, SuitesOK
  PROVE  /\ Len(suites) \in Nat /\ Len(suites) >= 1 /\ DOMAIN suites = 1 .. Len(suites)
         /\ Len(suites) \in 1 .. Len(suites) /\ 1 \in 1 .. Len(suites) /\ suites[1] = 0
         /\ Suite = suites[Len(suites)] /\ Suite \in Nat
         /\ \A i \in 1 .. Len(suites) : suites[i] \in Nat /\ suites[i] <= Suite
         /\ Suite # 0 => Suite \in Done
<1>1. /\ Len(suites) \in Nat /\ DOMAIN suites = 1 .. Len(suites) /\ \A i \in 1 .. Len(suites) : suites[i] \in Nat
      /\ Suite = suites[Len(suites)]
  BY TypeFacts DEF Suite
<1>2. /\ Len(suites) >= 1 /\ suites[1] = 0
      /\ \A i, j \in 1 .. Len(suites) : i < j => suites[i] < suites[j]
      /\ \A i \in 1 .. Len(suites) : i # 1 => suites[i] \in Done
  BY <1>1 DEF SuitesOK
<1>3. Len(suites) \in 1 .. Len(suites) /\ 1 \in 1 .. Len(suites)
  BY ONLY <1>1, <1>2
<1>4. \A i \in 1 .. Len(suites) : suites[i] <= Suite
  <2> SUFFICES ASSUME NEW i \in 1 .. Len(suites)
               PROVE  suites[i] <= Suite
    OBVIOUS
  <2> PICK m \in Nat : m = Len(suites)
    BY <1>1
  <2>1. /\ i \in 1 .. m /\ m \in 1 .. m
        /\ \A a, b \in 1 .. m : a < b => suites[a] < suites[b]
        /\ \A a \in 1 .. m : suites[a] \in Nat
        /\ Suite = suites[m]
    BY ONLY <1>1, <1>2, <1>3, i \in 1 .. Len(suites), m = Len(suites)
  <2>2. i = m \/ i < m
    BY ONLY <2>1, m \in Nat
  <2>3. suites[i] \in Nat /\ suites[m] \in Nat /\ (i = m \/ suites[i] < suites[m])
    BY ONLY <2>1, <2>2
  <2> QED
    BY ONLY <2>1, <2>3
<1> QED
  BY <1>1, <1>2, <1>3, <1>4

\* The innermost suite, when the lexer holds as many columns.
LEMMA Innermost ==
  ASSUME TypeOK, Reads, SuitesOK, Owners, Heads, Len(suites) = Len(indents)
  PROVE  /\ \A s \in Done : s > Suite => Col(s) >= Top
         /\ Suite # 0 => Suite \in Done /\ Col(Suite) < Top
         /\ Suite = 0 => Top = 0
<1>1. /\ Len(indents) \in 1 .. Len(indents) /\ Top = indents[Len(indents)] /\ DOMAIN indents = 1 .. Len(indents)
      /\ indents[1] = 0 /\ Len(indents) \in Nat
      /\ \A i, j \in 1 .. Len(indents) : i < j <=> indents[i] < indents[j]
  BY StackFacts DEF Reads
<1>2. /\ DOMAIN suites = 1 .. Len(suites) /\ Suite = suites[Len(suites)] /\ suites[1] = 0
      /\ (Suite # 0 => Suite \in Done)
  BY SuiteFacts
<1>3. \A s \in Done : s > Suite => Col(s) >= Top
  BY <1>1, <1>2 DEF Owners
<1>4. ASSUME Suite # 0
      PROVE  Suite \in Done /\ Col(Suite) < Top
  <2>1. Len(suites) # 1
    BY <1>2, <1>4
  <2> DEFINE i == Len(suites) - 1
  <2>2. i \in 1 .. Len(indents) /\ i + 1 = Len(suites) /\ i < Len(indents)
    BY ONLY <2>1, <1>1, Len(suites) = Len(indents)
  <2> HIDE DEF i
  <2>3. i + 1 \in DOMAIN suites /\ i \in DOMAIN indents
    BY <1>1, <1>2, <2>2
  <2>4. Col(suites[i + 1]) = indents[i]
    BY <2>3 DEF Heads
  <2>5. suites[i + 1] = Suite
    BY <1>2, <2>2
  <2> QED
    BY <1>1, <1>2, <1>4, <2>2, <2>4, <2>5
<1>5. ASSUME Suite = 0
      PROVE  Top = 0
  <2>1. \A i \in 1 .. Len(suites) : i # 1 => suites[i] # 0
    <3>1. \A i \in 1 .. Len(suites) : i # 1 => suites[i] \in Done
      BY <1>2 DEF SuitesOK
    <3> QED
      BY <3>1, DoneFacts
  <2>2. Len(suites) = 1
    BY <2>1, <1>1, <1>2, <1>5
  <2> QED
    BY <1>1, <2>2
<1> QED
  BY <1>3, <1>4, <1>5

\* The line whose text comes next belongs to the innermost suite.
LEMMA OwnerIs ==
  ASSUME TypeOK, Reads, SuitesOK, Owners, Heads, Len(suites) = Len(indents), Pending
  PROVE  Owner(Len(lines)) = Suite
<1>1. /\ \A s \in Done : s > Suite => Col(s) >= Top
      /\ Suite # 0 => Suite \in Done /\ Col(Suite) < Top
      /\ Suite = 0 => Top = 0
  BY Innermost
<1>2. Col(Len(lines)) = Top /\ Seen = Len(lines) - 1 /\ Len(lines) \in Nat
  BY TypeFacts DEF Reads, LineTokens, Seen
<1>3. /\ Done \subseteq Statements /\ Statements \subseteq 1 .. Len(lines)
      /\ \A s \in Done : s \in Nat /\ s > 0 /\ s <= Seen /\ Col(s) \in Nat
      /\ \A i \in Statements : i < Len(lines) => i \in Done
  <2>1. \A i \in Statements : i < Len(lines) => i <= Seen
    BY <1>2, TypeFacts
  <2> QED
    BY <2>1, DoneFacts, TypeFacts DEF Done
<1>4. Suite \in Nat
  BY SuiteFacts
<1>5. Top \in Nat
  BY StackFacts DEF Reads
<1> DEFINE S == {i \in Statements : i < Len(lines) /\ Col(i) < Col(Len(lines))}
<1>6. Owner(Len(lines)) = Latest(S)
  BY DEF Owner
<1>7. S \subseteq Nat /\ \A s \in S : s \in Done /\ Col(s) < Top /\ s <= Suite
  <2>1. \A s \in S : s \in Done /\ Col(s) < Top
    BY <1>2, <1>3
  <2>2. S \subseteq Nat
    BY <2>1, <1>3
  <2>3. ASSUME NEW s \in S
        PROVE  s <= Suite
    <3>1. s \in Done /\ s \in Nat /\ Col(s) \in Nat /\ Col(s) < Top
      BY <2>1, <1>3
    <3>2. s > Suite => Col(s) >= Top
      BY <3>1, <1>1
    <3> QED
      BY ONLY <3>1, <3>2, <1>4, <1>5
  <2> QED
    BY <2>1, <2>2, <2>3
<1>8. CASE Suite = 0
  <2>1. S = {}
    BY <1>1, <1>3, <1>7, <1>8
  <2> QED
    BY <1>6, <1>8, <2>1 DEF Latest
<1>9. CASE Suite # 0
  <2>1. Suite \in S
    <3>2. Suite \in Statements /\ Suite \in Nat /\ Suite <= Seen
      BY <1>1, <1>3, <1>9
    <3>1. Suite \in Statements /\ Suite < Len(lines)
      BY ONLY <3>2, <1>2
    <3> QED
      BY <3>1, <1>1, <1>2, <1>9
  <2> HIDE DEF S
  <2> QED
    BY <1>6, <1>7, <2>1, LatestIs
<1> QED
  BY <1>8, <1>9

\* A statement continues the last one of its suite in its column.
LEMMA BeforeIs ==
  ASSUME TypeOK, Reads, Pending,
         NEW h \in Done, Col(h) = Top, \A s \in Done : s > h => Col(s) > Top
  PROVE  Before(Len(lines)) = h
<1>2. Col(Len(lines)) = Top /\ Seen = Len(lines) - 1 /\ Len(lines) \in Nat
  BY TypeFacts DEF Reads, LineTokens, Seen
<1>3. /\ Done \subseteq Statements /\ Statements \subseteq 1 .. Len(lines)
      /\ \A s \in Done : s \in Nat /\ s > 0 /\ s <= Seen /\ Col(s) \in Nat
      /\ \A i \in Statements : i < Len(lines) => i \in Done
  <2>1. \A i \in Statements : i < Len(lines) => i <= Seen
    BY <1>2, TypeFacts
  <2> QED
    BY <2>1, DoneFacts, TypeFacts DEF Done
<1>5. Top \in Nat
  BY StackFacts DEF Reads
<1>1. Owner(Len(lines)) \in Nat /\ Owner(Len(lines)) < h
  <2> PICK o : o = Owner(Len(lines))
    OBVIOUS
  <2>1. Len(lines) \in 1 .. Len(lines)
    <3>1. Len(lines) >= 1
      BY DEF Reads, LineTokens, Pending
    <3> QED
      BY <1>2, <3>1
  <2>2. o \in Nat /\ (o # 0 => o \in Statements /\ o < Len(lines) /\ Col(o) < Top)
    BY <2>1, <1>2, OwnerRange
  <2>3. o # 0 => o \in Done /\ Col(o) \in Nat /\ Col(o) < Top
    BY <2>2, <1>3
  <2>4. o # 0 => ~(o > h) /\ o # h
    BY <2>3, <1>5
  <2>5. h \in Nat /\ h > 0
    BY <1>3
  <2> QED
    BY ONLY <2>2, <2>4, <2>5, o = Owner(Len(lines))
<1> DEFINE S == {i \in Statements : i < Len(lines) /\ i > Owner(Len(lines)) /\ Col(i) <= Col(Len(lines))}
<1>6. Before(Len(lines)) = Latest(S)
  BY DEF Before
<1>7. S \subseteq Nat /\ \A s \in S : s <= h
  <2>1. \A s \in S : s \in Done /\ Col(s) <= Top
    BY <1>2, <1>3
  <2>2. S \subseteq Nat
    BY <2>1, <1>3
  <2>3. ASSUME NEW s \in S
        PROVE  s <= h
    <3>1. s \in Done /\ s \in Nat /\ Col(s) \in Nat /\ Col(s) <= Top
      BY <2>1, <1>3
    <3>2. s > h => Col(s) > Top
      BY <3>1
    <3>3. h \in Nat
      BY <1>3
    <3> QED
      BY ONLY <3>1, <3>2, <3>3, <1>5
  <2> QED
    BY <2>2, <2>3
<1>8. h \in S
  <2>1. h \in Statements /\ h < Len(lines) /\ Col(h) <= Top
    BY <1>2, <1>3, <1>5
  <2> QED
    BY <2>1, <1>1, <1>2
<1> HIDE DEF S
<1> QED
  BY <1>6, <1>7, <1>8, LatestIs

-----------------------------------------------------------------------------
(***************************************************************************)
(* The steps of the parser.                                                *)
(***************************************************************************)
LEMMA ParserReads ==
  ASSUME TypeOK, Reads, lines' = lines, indents' = indents,
         LineTokens', EndTokens', Waits', TreeDomain'
  PROVE  Reads'
<1>1. Stack'
  BY DEF Reads, Stack
<1>2. OpenStack'
  BY DEF Reads, OpenStack, Is, Col
<1> QED
  BY <1>1, <1>2 DEF Reads

\* A step that reads no token.
LEMMA Unread ==
  ASSUME lines' = lines, indents' = indents, ended' = ended, tokens' = tokens
  PROVE  /\ SameText /\ (IndentPending' <=> IndentPending) /\ Dedents' = Dedents
         /\ (LineTokens <=> LineTokens') /\ (EndTokens <=> EndTokens')
<1>1. Pending' <=> Pending
  BY DEF Pending
<1>2. IndentPending' <=> IndentPending
  BY DEF IndentPending
<1>3. Statements' = Statements
  BY SameLines
<1>4. Seen' = Seen /\ Done' = Done
  BY <1>1, <1>3 DEF Seen, Done
<1>5. Dedents' = Dedents
  BY <1>2 DEF Dedents
<1>6. LineTokens' <=> LineTokens
  BY <1>1, <1>2 DEF LineTokens, Is, Col, Top
<1>7. EndTokens' <=> EndTokens
  BY DEF EndTokens
<1> QED
  BY <1>1, <1>2, <1>4, <1>5, <1>6, <1>7 DEF SameText

\* What a step of the parser comes to.
ParserStep ==
  /\ TypeOK' /\ Reads'
  /\ ~Doomed' => ~Doomed
  /\ ~Doomed' /\ Core => Core'

LEMMA SkipNewlineStep ==
  ASSUME TypeOK, Reads, SkipNewline
  PROVE  ParserStep /\ ~Doomed'
<1>1. /\ status = "reading" /\ want = "statement" /\ Peek.kind = "NEWLINE" /\ Consume
      /\ suites' = suites /\ want' = want /\ last' = last /\ tree' = tree
      /\ tokens # << >>
  BY DEF SkipNewline, Peeks, parser, Peek
<1>2. /\ SameText /\ ~Pending /\ ~ended /\ tokens' = << >>
      /\ ~IndentPending /\ ~IndentPending' /\ Dedents = 0 /\ Dedents' = 0
      /\ LineTokens' /\ EndTokens'
  BY <1>1, NewlineRead DEF Reads
<1>3. TypeOK'
  BY <1>1, Consumed DEF TypeOK
<1>4. Reads'
  <2>1. Waits'
    BY <1>1 DEF Waits
  <2>2. TreeDomain'
    BY <1>1, <1>2 DEF Reads, TreeDomain, SameText
  <2> QED
    BY <1>2, <2>1, <2>2, ParserReads DEF SameText
<1>5. ~Doomed /\ ~Doomed'
  BY <1>1, <1>2 DEF Doomed
<1>6. ASSUME Core PROVE Core'
  <2>1. SuitesOK' /\ Owners' /\ Heads' /\ TreeOK'
    BY <1>1, <1>2, <1>6, CoreStays DEF Core, SameText
  <2>2. LevelsOK'
    BY <1>1, <1>2, <1>6 DEF Core, LevelsOK, Levels, SameText
  <2>3. LastOK'
    BY <1>1 DEF LastOK
  <2>4. NewestOK'
    BY <1>1, <1>2, <1>6 DEF Core, NewestOK, Newest, SameText, Top, Col, Is, Suite
  <2>5. Brackets'
    BY <1>1, <1>2, <1>6, ClosedStays DEF Core, SameText
  <2> QED
    BY <2>1, <2>2, <2>3, <2>4, <2>5 DEF Core
<1> QED
  BY <1>3, <1>4, <1>5, <1>6 DEF ParserStep

LEMMA ExpectNewlineStep ==
  ASSUME TypeOK, Reads, ExpectNewline
  PROVE  ParserStep /\ ~Doomed'
<1>1. /\ status = "reading" /\ want = "newline" /\ Peek.kind = "NEWLINE" /\ Consume
      /\ suites' = suites /\ want' = "indent" /\ last' = last /\ tree' = tree
      /\ tokens # << >>
  BY DEF ExpectNewline, Peeks, Peek
<1>2. /\ SameText /\ ~Pending /\ ~ended /\ tokens' = << >>
      /\ ~IndentPending /\ ~IndentPending' /\ Dedents = 0 /\ Dedents' = 0
      /\ LineTokens' /\ EndTokens'
  BY <1>1, NewlineRead DEF Reads
<1>3. TypeOK'
  BY <1>1, Consumed DEF TypeOK
<1>4. Reads'
  <2>1. Waits'
    BY <1>1 DEF Waits
  <2>2. TreeDomain'
    BY <1>1, <1>2 DEF Reads, TreeDomain, SameText
  <2> QED
    BY <1>2, <2>1, <2>2, ParserReads DEF SameText
<1>5. ~Doomed /\ ~Doomed'
  BY <1>1, <1>2 DEF Doomed
<1>6. ASSUME Core PROVE Core'
  <2>1. SuitesOK' /\ Owners' /\ Heads' /\ TreeOK'
    BY <1>1, <1>2, <1>6, CoreStays DEF Core, SameText
  <2>2. LevelsOK'
    BY <1>1, <1>2, <1>6 DEF Core, LevelsOK, Levels, SameText
  <2>3. LastOK'
    BY <1>1 DEF LastOK
  <2>4. NewestOK'
    BY <1>1, <1>2, <1>6 DEF Core, NewestOK, Newest, SameText, Top, Col, Is, Suite
  <2>5. Brackets'
    BY <1>1, <1>2, <1>6, ClosedStays DEF Core, SameText
  <2> QED
    BY <2>1, <2>2, <2>3, <2>4, <2>5 DEF Core
<1> QED
  BY <1>3, <1>4, <1>5, <1>6 DEF ParserStep

LEMMA ExpectIndentStep ==
  ASSUME TypeOK, Reads, ExpectIndent
  PROVE  ParserStep /\ (Doomed' => Doomed)
<1>1. /\ status = "reading" /\ want = "indent" /\ Peek.kind = "INDENT" /\ Consume
      /\ suites' = suites /\ want' = "statement" /\ last' = last /\ tree' = tree
      /\ tokens # << >>
  BY DEF ExpectIndent, Peeks, Peek
<1>2. /\ SameText /\ Pending /\ ~ended /\ Len(tokens') = 2 /\ tokens' # << >>
      /\ IndentPending /\ ~IndentPending' /\ Dedents = 0 /\ Dedents' = 0
      /\ LineTokens' /\ EndTokens'
  BY <1>1, IndentRead DEF Reads
<1>3. TypeOK'
  BY <1>1, Consumed DEF TypeOK
<1>4. Reads'
  <2>1. Waits'
    BY <1>1 DEF Waits
  <2>2. TreeDomain'
    BY <1>1, <1>2 DEF Reads, TreeDomain, SameText
  <2> QED
    BY <1>2, <2>1, <2>2, ParserReads DEF SameText
<1>5. Doomed' <=> Doomed
  <2>1. Pending' /\ Pending /\ ~ended /\ ~ended'
    BY <1>2 DEF SameText
  <2>2. Doomed' <=> Is(Len(lines), Continuation \cup Clause)
    BY <1>1, <1>2, <2>1 DEF Doomed, Is, SameText
  <2>3. Doomed <=> Is(Len(lines), Continuation \cup Clause)
    BY <1>1, <1>2, <2>1 DEF Doomed, Is
  <2> QED
    BY <2>2, <2>3
<1>6. ASSUME Core PROVE Core'
  <2>1. SuitesOK' /\ Owners' /\ Heads' /\ TreeOK'
    BY <1>1, <1>2, <1>6, CoreStays DEF Core, SameText
  <2>2. LevelsOK'
    <3>1. Len(suites) = Len(indents) /\ Len(indents) \in Nat
      BY <1>1, <1>2, <1>6, TypeFacts DEF Core, LevelsOK
    <3>2. Len(suites') = Levels' + Dedents'
      BY <1>1, <1>2, <3>1 DEF Levels, SameText
    <3> QED
      BY <1>1, <3>2 DEF LevelsOK
  <2>3. LastOK' /\ NewestOK'
    BY <1>1, <1>2 DEF LastOK, NewestOK, SameText
  <2>5. Brackets'
    BY <1>1, <1>2, <1>6, ClosedStays DEF Core, SameText
  <2> QED
    BY <2>1, <2>2, <2>3, <2>5 DEF Core
<1> QED
  BY <1>3, <1>4, <1>5, <1>6 DEF ParserStep

\* Layout inside a bracket: NEWLINE, INDENT and DEDENT.
LEMMA SkipLayoutStep ==
  ASSUME TypeOK, Reads, SkipInBracket, Peek.kind # "item"
  PROVE  ParserStep /\ (Doomed' => Doomed)
<1>1. /\ status = "reading" /\ want = "bracket" /\ Peek.kind \in {"NEWLINE", "INDENT", "DEDENT"} /\ Consume
      /\ suites' = suites /\ want' = want /\ last' = last /\ tree' = tree
      /\ tokens # << >>
  BY DEF SkipInBracket, Peeks, Peek, parser
<1>2. /\ SameText /\ LineTokens' /\ EndTokens'
      /\ tokens' = << >> => ~Pending /\ ~ended
  BY <1>1, NewlineRead, IndentRead, DedentRead DEF Reads
<1>3. TypeOK'
  BY <1>1, Consumed DEF TypeOK
<1>4. Reads'
  <2>1. Waits'
    BY <1>1 DEF Waits
  <2>2. TreeDomain'
    BY <1>1, <1>2 DEF Reads, TreeDomain, SameText
  <2> QED
    BY <1>2, <2>1, <2>2, ParserReads DEF SameText
<1>5. Doomed' <=> Doomed
  BY <1>1, <1>2 DEF Doomed, Is, SameText
<1>6. ASSUME Core PROVE Core'
  <2>1. SuitesOK' /\ Owners' /\ Heads' /\ TreeOK'
    BY <1>1, <1>2, <1>6, CoreStays DEF Core, SameText
  <2>2. LevelsOK'
    BY <1>1, <1>2, <1>6 DEF Core, LevelsOK, SameText
  <2>3. LastOK'
    BY <1>1 DEF LastOK
  <2>4. NewestOK'
    BY <1>1, <1>2, <1>6 DEF Core, NewestOK, Newest, SameText, Top, Col, Is, Suite
  <2>5. Brackets'
    BY <1>1, <1>2, <1>6 DEF Core, Brackets, Holds, Indented, SameText, Top, Col, Is
  <2> QED
    BY <2>1, <2>2, <2>3, <2>4, <2>5 DEF Core
<1> QED
  BY <1>3, <1>4, <1>5, <1>6 DEF ParserStep

LEMMA EndSuiteStep ==
  ASSUME TypeOK, Reads, EndSuite
  PROVE  ParserStep /\ (Core /\ ~Doomed => ~Doomed')
<1>1. /\ status = "reading" /\ want = "statement" /\ Peek.kind \in {"DEDENT", "EOF"} \cup Clause
      /\ Len(suites) > 1
      /\ suites' = suites /\ want' = "dedent" /\ last' = last /\ tree' = tree /\ tokens' = tokens
      /\ lines' = lines /\ indents' = indents /\ ended' = ended /\ status' = status
      /\ tokens # << >>
  BY DEF EndSuite, Peeks, Peek, lexer, InSuite, Clause
<1>2. /\ SameText /\ (IndentPending' <=> IndentPending) /\ Dedents' = Dedents
      /\ LineTokens' /\ EndTokens'
  BY <1>1, Unread DEF Reads
<1>3. TypeOK'
  BY <1>1 DEF TypeOK
<1>p. PeekSays
  BY <1>1, Phases DEF Reads
<1>4. (ended \/ Pending) /\ ~IndentPending
  <2>1. Peek.kind = "EOF" => ended
    BY <1>p DEF PeekSays
  <2>2. Peek.kind = "DEDENT" => ended \/ Pending
    <3>1. Peek.kind = "DEDENT" => Dedents > 0
      BY <1>p DEF PeekSays
    <3>2. Dedents > 0 => ended \/ Pending
      BY DEF Dedents, Pending
    <3> QED
      BY <3>1, <3>2
  <2>3. Peek.kind \in Clause => Pending
    <3>1. Peek.kind \in Clause => ~ended /\ Len(tokens) = 2
      BY <1>p DEF PeekSays, Clause
    <3> QED
      BY <3>1 DEF Pending
  <2>4. ~IndentPending
    BY <1>1, <1>p DEF PeekSays, Clause
  <2> QED
    BY <1>1, <2>1, <2>2, <2>3, <2>4
<1>5. Reads'
  <2>1. Waits'
    BY <1>1, <1>2, <1>4 DEF Waits, SameText
  <2>2. TreeDomain'
    BY <1>1, <1>2 DEF Reads, TreeDomain, SameText
  <2> QED
    BY <1>2, <2>1, <2>2, ParserReads DEF SameText
<1>6. ASSUME ~Doomed' PROVE ~Doomed
  <2>1. Dedents # 0 /\ ~(Pending /\ Is(Len(lines), Continuation))
    BY <1>1, <1>2, <1>6 DEF Doomed, Is, SameText
  <2> QED
    BY <1>1, <1>4, <2>1 DEF Doomed
<1>7. ASSUME Core PROVE Core'
  <2>1. SuitesOK' /\ Owners' /\ Heads' /\ TreeOK'
    BY <1>1, <1>2, <1>7, CoreStays DEF Core, SameText
  <2>2. LevelsOK'
    BY <1>1, <1>2, <1>7 DEF Core, LevelsOK, Levels
  <2>3. LastOK' /\ NewestOK'
    BY <1>1, <1>2, <1>4 DEF LastOK, NewestOK, SameText
  <2>5. Brackets'
    BY <1>1, <1>2, <1>7, ClosedStays DEF Core, SameText
  <2> QED
    BY <2>1, <2>2, <2>3, <2>5 DEF Core
<1>8. ASSUME Core, ~Doomed PROVE ~Doomed'
  <2>1. ~(Pending /\ Is(Len(lines), Continuation))
    BY <1>1, <1>8 DEF Doomed
  <2>2. Dedents # 0
    <3>1. SUFFICES ASSUME Dedents = 0 PROVE FALSE
      OBVIOUS
    <3>2. Peek.kind # "DEDENT"
      BY <3>1, <1>p DEF PeekSays
    <3>3. CASE Peek.kind = "EOF"
      <4>1. ended
        BY <3>3, <1>p DEF PeekSays
      <4>2. Len(suites) = Levels + Dedents
        BY <1>1, <1>8 DEF Core, LevelsOK
      <4>3. Levels = 1
        BY <4>1 DEF Levels
      <4> QED
        BY ONLY <1>1, <3>1, <4>2, <4>3
    <3>4. CASE Peek.kind \in Clause
      <4>1. ~ended /\ Len(tokens) = 2 /\ Peek.kind = lines[Len(lines)].kind
        BY <3>4, <1>p DEF PeekSays, Clause
      <4>2. Pending /\ Is(Len(lines), Clause)
        BY <3>4, <4>1 DEF Pending, Is
      <4> QED
        BY <1>1, <1>4, <1>8, <3>1, <4>2 DEF Doomed
    <3> QED
      BY <1>1, <3>2, <3>3, <3>4
  <2> QED
    BY <1>1, <1>2, <2>1, <2>2 DEF Doomed, Is, SameText
<1> QED
  BY <1>3, <1>5, <1>6, <1>7, <1>8 DEF ParserStep

LEMMA NoClauseStep ==
  ASSUME TypeOK, Reads, NoClause
  PROVE  ParserStep /\ (~Doomed => ~Doomed')
<1>1. /\ status = "reading" /\ want = "clause" /\ Peek.kind \notin Clause
      /\ suites' = suites /\ want' = "statement" /\ last' = last /\ tree' = tree /\ tokens' = tokens
      /\ lines' = lines /\ indents' = indents /\ ended' = ended /\ status' = status
      /\ tokens # << >>
  BY DEF NoClause, lexer
<1>2. /\ SameText /\ (IndentPending' <=> IndentPending) /\ Dedents' = Dedents
      /\ LineTokens' /\ EndTokens'
  BY <1>1, Unread DEF Reads
<1>3. TypeOK'
  BY <1>1 DEF TypeOK
<1>p. PeekSays
  BY <1>1, Phases DEF Reads
<1>4. ended \/ Pending
  BY <1>1 DEF Reads, Waits
<1>5. Reads'
  <2>1. Waits'
    BY <1>1 DEF Waits
  <2>2. TreeDomain'
    BY <1>1, <1>2 DEF Reads, TreeDomain, SameText
  <2> QED
    BY <1>2, <2>1, <2>2, ParserReads DEF SameText
<1>6. Pending /\ Dedents = 0 /\ ~IndentPending => ~Is(Len(lines), Clause)
  <2>1. SUFFICES ASSUME Pending, Dedents = 0, ~IndentPending PROVE ~Is(Len(lines), Clause)
    OBVIOUS
  <2>2. ~ended /\ Len(tokens) >= 2 /\ Len(tokens) \in Nat
    BY <2>1, <1>p DEF Pending, PeekSays
  <2>3. Len(tokens) = 2
    BY <1>1, <2>1, <2>2 DEF Dedents
  <2>4. Peek.kind = lines[Len(lines)].kind
    BY <2>2, <2>3, <1>p DEF PeekSays
  <2> QED
    BY <1>1, <2>4 DEF Is
<1>7. Doomed' <=> Doomed
  <2>1. Doomed <=> (Pending /\ Is(Len(lines), Continuation)) \/ IndentPending
    BY <1>1 DEF Doomed
  <2>2. Doomed' <=> (Pending /\ Is(Len(lines), Continuation)) \/ IndentPending
    BY <1>1, <1>2, <1>6 DEF Doomed, Is, SameText
  <2> QED
    BY <2>1, <2>2
<1>8. ASSUME Core PROVE Core'
  <2>1. SuitesOK' /\ Owners' /\ Heads' /\ TreeOK'
    BY <1>1, <1>2, <1>8, CoreStays DEF Core, SameText
  <2>2. LevelsOK'
    BY <1>1, <1>2, <1>8 DEF Core, LevelsOK, Levels
  <2>3. LastOK' /\ NewestOK'
    BY <1>1, <1>2, <1>4 DEF LastOK, NewestOK, SameText
  <2>5. Brackets'
    BY <1>1, <1>2, <1>8, ClosedStays DEF Core, SameText
  <2> QED
    BY <2>1, <2>2, <2>3, <2>5 DEF Core
<1> QED
  BY <1>3, <1>5, <1>7, <1>8 DEF ParserStep

\* The stack of suites without its last.
LEMMA Popped ==
  ASSUME TypeOK, SuitesOK, Len(suites) > 1, suites' = SubSeq(suites, 1, Len(suites) - 1)
  PROVE  /\ suites' \in Seq(Nat) /\ Len(suites') = Len(suites) - 1 /\ Len(suites') \in Nat /\ Len(suites') >= 1
         /\ DOMAIN suites' = 1 .. Len(suites') /\ Len(suites') \in 1 .. Len(suites)
         /\ \A i \in 1 .. Len(suites') : i \in 1 .. Len(suites) /\ suites'[i] = suites[i]
         /\ Suite' < Suite /\ Suite \in Done /\ Suite # 0 /\ Is(Suite, Header)
<1> PICK m \in Nat : m = Len(suites)
  BY TypeFacts
<1>1. suites \in Seq(Nat) /\ m - 1 \in 0 .. m /\ m > 1
  BY DEF TypeOK
<1>2. /\ suites' \in Seq(Nat) /\ Len(suites') = m - 1
      /\ \A i \in 1 .. m - 1 : suites'[i] = suites[i]
  BY <1>1, Prefix
<1>3. DOMAIN suites' = 1 .. m - 1
  BY <1>2
<1>4. m - 1 \in 1 .. m /\ m \in 1 .. m /\ m - 1 < m /\ m # 1 /\ m - 1 \in 1 .. m - 1
  BY ONLY <1>1, m \in Nat
<1>5. DOMAIN suites = 1 .. m
  BY TypeFacts
<1>6. Suite = suites[m] /\ Suite' = suites[m - 1]
  BY <1>2, <1>4 DEF Suite
<1>7. suites[m - 1] < suites[m] /\ suites[m] \in Done /\ Is(suites[m], Header)
  BY <1>4, <1>5 DEF SuitesOK
<1>8. suites[m] # 0
  BY <1>7, DoneFacts
<1>9. \A i \in 1 .. m - 1 : i \in 1 .. m
  BY ONLY m \in Nat
<1> QED
  BY <1>1, <1>2, <1>3, <1>4, <1>6, <1>7, <1>8, <1>9

\* The suite that ExpectDedent closes is the last line's candidate for a clause.
LEMMA ExpectDedentStep ==
  ASSUME TypeOK, Reads, Nesting, ExpectDedent
  PROVE  ParserStep /\ (Core /\ WellFormed /\ ~Doomed => ~Doomed')
<1>1. /\ status = "reading" /\ want = "dedent" /\ Peek.kind = "DEDENT" /\ Consume
      /\ suites' = SubSeq(suites, 1, Len(suites) - 1) /\ last' = Suite /\ tree' = tree
      /\ want' = (IF lines[Suite].kind \in {"if", "elif"} THEN "clause" ELSE "statement")
      /\ tokens # << >>
  BY DEF ExpectDedent, Peeks, Peek
<1>2. /\ SameText /\ (ended \/ Pending) /\ tokens' # << >>
      /\ ~IndentPending /\ ~IndentPending' /\ Dedents \in Nat /\ Dedents > 0 /\ Dedents' = Dedents - 1
      /\ LineTokens' /\ EndTokens'
  BY <1>1, DedentRead DEF Reads
<1>w. want' \in {"statement", "clause"} /\ want' # "bracket"
  BY <1>1
<1>4. Reads'
  <2>1. Waits'
    BY <1>2, <1>w DEF Waits, SameText
  <2>2. TreeDomain'
    BY <1>1, <1>2 DEF Reads, TreeDomain, SameText
  <2> QED
    BY <1>2, <2>1, <2>2, ParserReads DEF SameText
<1>5. ~Doomed' => ~Doomed
  BY <1>1, <1>2, <1>w DEF Doomed, Is, SameText
<1>6. Len(suites) > 1
  BY <1>1 DEF Nesting
<1>3. TypeOK'
  <2> PICK m \in Nat : m = Len(suites)
    BY TypeFacts
  <2>1. suites \in Seq(Nat) /\ m - 1 \in 0 .. m /\ m \in 1 .. m
    BY <1>6 DEF TypeOK
  <2>2. suites' \in Seq(Nat)
    BY <1>1, <2>1, Prefix
  <2>3. Suite \in Nat
    BY <2>1, TypeFacts DEF Suite
  <2>4. tokens' \in Seq(TokenType) /\ status' = status
    BY <1>1, Consumed
  <2> QED
    BY <1>1, <1>2, <1>w, <2>2, <2>3, <2>4 DEF TypeOK, SameText
<1>7. ASSUME Core
      PROVE  /\ Core' /\ last' \in Done /\ last' > Suite' /\ Len(suites') = Levels + Dedents'
             /\ Dedents' = 0 /\ ~ended => Col(last') = Top /\ \A s \in Done : s > last' => Col(s) > Top
  <2>1. /\ Len(suites') = Len(suites) - 1 /\ Len(suites') \in Nat /\ Len(suites') >= 1
        /\ DOMAIN suites' = 1 .. Len(suites')
        /\ \A i \in 1 .. Len(suites') : i \in 1 .. Len(suites) /\ suites'[i] = suites[i]
        /\ Suite' < Suite /\ Suite \in Done
    BY <1>1, <1>6, <1>7, Popped DEF Core
  <2>2. /\ \A j : Col(j)' = Col(j) /\ Parent(j)' = Parent(j)
        /\ \A j, K : Is(j, K)' = Is(j, K)
    BY <1>2, SameLines DEF SameText
  <2>3. DOMAIN suites = 1 .. Len(suites) /\ DOMAIN indents = 1 .. Len(indents)
    BY TypeFacts
  <2>4. SuitesOK'
    <3>1. /\ suites[1] = 0
          /\ \A i, j \in 1 .. Len(suites) : i < j => suites[i] < suites[j]
          /\ \A i \in 1 .. Len(suites) : i # 1 => suites[i] \in Done /\ Is(suites[i], Header)
      BY <1>7, <2>3 DEF Core, SuitesOK
    <3>2. 1 \in 1 .. Len(suites')
      BY ONLY <2>1
    <3>3. suites'[1] = 0 /\ \A i, j \in 1 .. Len(suites') : i < j => suites'[i] < suites'[j]
      BY ONLY <2>1, <3>1, <3>2
    <3>4. ASSUME NEW i \in 1 .. Len(suites'), i # 1
          PROVE  suites'[i] \in Done' /\ (Is(suites[i], Header))'
      <4> PICK x : x = suites[i]
        OBVIOUS
      <4>1. suites'[i] = x /\ x \in Done /\ Is(x, Header)
        BY <2>1, <3>1, <3>4
      <4>2. Is(x, Header)'
        BY <1>2, <4>1 DEF Is, SameText, Header
      <4> QED
        BY <1>2, <4>1, <4>2 DEF SameText, Is, Header
    <3> QED
      BY <2>1, <3>3, <3>4 DEF SuitesOK
  <2>5. Owners'
    BY <1>2, <1>7, <2>1, <2>2, <2>3 DEF Core, Owners, SameText, Col
  <2>6. Heads'
    BY <1>2, <1>7, <2>1, <2>2, <2>3 DEF Core, Heads, SameText, Col
  <2>7. TreeOK'
    BY <1>1, <1>2, <1>7, <2>2 DEF Core, TreeOK, SameText
  <2>8. Len(suites) = Levels + Dedents /\ Levels' = Levels /\ Levels \in Nat
    BY <1>1, <1>2, <1>7, TypeFacts DEF Core, LevelsOK, Levels, SameText
  <2>9. Len(suites') = Levels + Dedents'
    BY ONLY <1>2, <2>1, <2>8
  <2>10. LevelsOK'
    BY <1>w, <2>8, <2>9 DEF LevelsOK
  <2>11. last' = Suite /\ Suite \in Done /\ Suite > Suite'
    <3>1. Suite \in Nat /\ Suite' \in Nat
      <4>1. Suite \in Nat
        BY <1>7, SuiteFacts DEF Core
      <4>2. Suite' = suites[Len(suites')] /\ Len(suites') \in 1 .. Len(suites)
        BY <2>1 DEF Suite
      <4> QED
        BY <4>1, <4>2, TypeFacts
    <3> QED
      BY <1>1, <2>1, <3>1
  <2>12. ASSUME Dedents' = 0, ~ended
         PROVE  Col(last') = Top /\ \A s \in Done : s > last' => Col(s) > Top
    <3>1. Levels = Len(indents)
      BY <2>12 DEF Levels
    <3> PICK l \in Nat : l = Len(indents)
      BY TypeFacts
    <3>2. Len(suites) = l + 1 /\ l \in 1 .. l
      BY ONLY <1>2, <2>1, <2>8, <2>12, <3>1, l = Len(indents), l \in Nat
    <3>3. l \in DOMAIN indents /\ l + 1 \in DOMAIN suites /\ Suite = suites[l + 1] /\ Top = indents[l]
      BY <2>3, <3>2 DEF Suite, Top
    <3> QED
      BY <1>7, <2>11, <3>3 DEF Core, Heads
  <2>13. LastOK'
    <3>1. SUFFICES ASSUME want' = "clause", Dedents' = 0, ~ended'
                   PROVE  Continues(last)'
      BY DEF LastOK
    <3>2. ~ended /\ Is(last', {"if", "elif"})
      BY <1>1, <1>2, <2>11, <3>1 DEF SameText, Is
    <3> QED
      BY <1>2, <2>2, <2>11, <2>12, <3>1, <3>2 DEF Continues, SameText, Top, Col, Is
  <2>14. NewestOK'
    BY <1>2 DEF NewestOK, SameText
  <2>15. Brackets'
    BY <1>1, <1>2, <1>7, <1>w, ClosedStays DEF Core, SameText
  <2> QED
    BY <2>4, <2>5, <2>6, <2>7, <2>9, <2>10, <2>11, <2>12, <2>13, <2>14, <2>15 DEF Core
<1>8. ASSUME Core, WellFormed, ~Doomed
      PROVE  ~Doomed'
  <2>1. SUFFICES ASSUME Doomed' PROVE FALSE
    OBVIOUS
  <2>2. ~(Pending /\ Is(Len(lines), Continuation))
    BY <1>1, <1>8 DEF Doomed
  <2>3. want' = "statement" /\ Pending /\ Dedents' = 0 /\ Is(Len(lines), Clause) /\ ~ended
    <3>1. want' = "statement" /\ Pending /\ Dedents' = 0 /\ Is(Len(lines), Clause)
      BY <1>2, <1>w, <2>1, <2>2 DEF Doomed, SameText, Is
    <3> QED
      BY <3>1 DEF Pending
  <2>4. /\ Suite \in Done /\ Col(Suite) = Top /\ \A s \in Done : s > Suite => Col(s) > Top
        /\ ~Is(Suite, {"if", "elif"})
    <3>1. last' = Suite
      BY <1>1
    <3>2. ~Is(Suite, {"if", "elif"})
      BY <1>1, <2>3 DEF Is
    <3> QED
      BY <1>7, <1>8, <2>3, <3>1, <3>2
  <2>5. Before(Len(lines)) = Suite
    BY <2>3, <2>4, BeforeIs
  <2>6. Len(lines) \in Statements
    <3>2. Len(lines) >= 1
      BY <1>1, <2>3 DEF Reads, LineTokens
    <3>3. Len(lines) \in Nat /\ DOMAIN lines = 1 .. Len(lines)
      BY TypeFacts
    <3>1. Len(lines) \in DOMAIN lines
      BY ONLY <3>2, <3>3
    <3> QED
      BY <2>3, <3>1 DEF Statements, Is, Clause, Continuation
  <2> QED
    BY <1>8, <2>3, <2>4, <2>5, <2>6, WellFormedParts DEF StatementRight
<1> QED
  BY <1>3, <1>4, <1>5, <1>7, <1>8 DEF ParserStep

-----------------------------------------------------------------------------
(***************************************************************************)
(* The text of a statement: it is attached to the tree.                    *)
(***************************************************************************)
\* What the parser does next with the statement on line n.
Goes(n) ==
  \/ suites' = suites /\ want' = "statement" /\ Is(n, {"stmt"})
  \/ suites' = suites /\ want' = "bracket" /\ Is(n, {"open"})
  \/ suites' = Append(suites, n) /\ want' = "newline" /\ Is(n, Header)

LEMMA AttachReads ==
  ASSUME TypeOK, Reads, tokens # << >>, Consume, Attach(last) \/ Attach(Suite),
         Peek.kind \in {"stmt", "open"} \cup Header, Goes(Len(lines)), last' = last
  PROVE  /\ TypeOK' /\ Reads' /\ ~Doomed'
         /\ Len(lines) \in Statements /\ Done' = Done \cup {Len(lines)}
<1>1. Peek.kind \notin {"NEWLINE", "EOF", "INDENT", "DEDENT"}
  BY DEF Header
<1>2. /\ lines' = lines /\ indents' = indents /\ ended' = ended /\ ~ended
      /\ Pending /\ ~Pending' /\ Len(tokens') = 1 /\ tokens' # << >>
      /\ Len(lines) >= 1 /\ Seen = Len(lines) - 1 /\ Seen' = Len(lines)
      /\ ~IndentPending /\ ~IndentPending' /\ Dedents = 0 /\ Dedents' = 0
      /\ Peek.kind = lines[Len(lines)].kind /\ Peek.line = Len(lines)
      /\ Done' = Done \cup (Statements \cap {Len(lines)})
      /\ LineTokens' /\ EndTokens'
  BY <1>1, TextRead DEF Reads
<1>3. Len(lines) \in Nat /\ DOMAIN lines = 1 .. Len(lines)
  BY TypeFacts
<1>4. Len(lines) \in Statements
  <2>1. Len(lines) \in DOMAIN lines
    BY ONLY <1>2, <1>3
  <2> QED
    BY <1>2, <2>1 DEF Statements, Is, Continuation, Header
<1>5. Done' = Done \cup {Len(lines)}
  BY <1>2, <1>4
<1>6. suites' \in Seq(Nat) /\ want' \in {"statement", "bracket", "newline"}
  <2>1. suites \in Seq(Nat)
    BY DEF TypeOK
  <2>2. Append(suites, Len(lines)) \in Seq(Nat)
    BY ONLY <1>3, <2>1, Appended
  <2> QED
    BY <2>1, <2>2 DEF Goes
<1>7. TypeOK'
  BY <1>2, <1>6, Consumed DEF TypeOK
<1>8. Reads'
  <2>1. Waits'
    BY <1>2, <1>6 DEF Waits
  <2>2. TreeDomain'
    <3>1. DOMAIN tree = Done
      BY DEF Reads, TreeDomain
    <3>2. DOMAIN tree' = DOMAIN tree \cup {Peek.line}
      BY DEF Attach
    <3> QED
      BY <1>2, <1>5, <3>1, <3>2 DEF TreeDomain
  <2> QED
    BY <1>2, <2>1, <2>2, ParserReads
<1>9. ~Doomed'
  BY <1>2, <1>6 DEF Doomed
<1> QED
  BY <1>4, <1>5, <1>7, <1>8, <1>9

LEMMA AttachCore ==
  ASSUME TypeOK, Reads, Core, tokens # << >>, Consume, NEW h, Attach(h),
         Attach(last) \/ Attach(Suite),
         Peek.kind \in {"stmt", "open"} \cup Header, Goes(Len(lines)), last' = last,
         want \in {"statement", "clause"}, h = Parent(Len(lines))
  PROVE  Core'
<1>1. Peek.kind \notin {"NEWLINE", "EOF", "INDENT", "DEDENT"}
  BY DEF Header
<1> PICK n : n = Len(lines)
  OBVIOUS
<1>2. /\ lines' = lines /\ indents' = indents /\ ended' = ended /\ ~ended
      /\ Pending /\ ~Pending' /\ Len(tokens') = 1 /\ tokens' # << >>
      /\ n >= 1 /\ n \in Nat /\ Seen = n - 1 /\ Seen' = n
      /\ ~IndentPending /\ ~IndentPending' /\ Dedents = 0 /\ Dedents' = 0
      /\ Peek.kind = lines[n].kind /\ Peek.line = n
      /\ Col(n) = Top
  BY <1>1, TextRead, TypeFacts DEF Reads
<1>3. n \in Statements /\ Done' = Done \cup {n} /\ TypeOK'
  BY AttachReads
<1>4. want' \in {"statement", "bracket", "newline"}
  BY DEF Goes
<1>5. Len(suites) = Len(indents)
  <2>1. Len(suites) = Levels + Dedents /\ Levels = Len(indents) /\ Len(indents) \in Nat
    BY <1>2, TypeFacts DEF Core, LevelsOK, Levels
  <2> QED
    BY ONLY <1>2, <2>1
<1>6. /\ \A j : Col(j)' = Col(j) /\ Parent(j)' = Parent(j)
      /\ \A j, K : Is(j, K)' = Is(j, K)
  BY <1>2, SameLines
<1>7. \A s \in Done : s \in Nat /\ s > 0 /\ s < n /\ s # n /\ Col(s) \in Nat
  <2>1. \A s \in Done : s \in Nat /\ s > 0 /\ s <= Seen /\ Col(s) \in Nat
    BY DoneFacts
  <2>2. \A s \in Nat : s <= Seen => s < n /\ s # n
    BY ONLY <1>2
  <2> QED
    BY <2>1, <2>2
<1> PICK m : m = Len(indents)
  OBVIOUS
<1>8. /\ m = Len(suites) /\ m = Len(indents) /\ m \in Nat /\ m >= 1 /\ m \in 1 .. m
      /\ DOMAIN indents = 1 .. m /\ DOMAIN suites = 1 .. m
      /\ Top = indents[m] /\ Suite = suites[m] /\ Top \in Nat
      /\ \A i \in 1 .. m : suites[i] \in Nat /\ suites[i] < n /\ indents[i] \in Nat /\ indents[i] <= Top
      /\ \A i \in 1 .. m : i # m => indents[i] < Top
  <2>1. /\ Len(indents) \in Nat /\ Len(indents) >= 1 /\ DOMAIN indents = 1 .. Len(indents)
        /\ \A i \in 1 .. Len(indents) : indents[i] \in Nat /\ indents[i] <= Top
        /\ \A i, j \in 1 .. Len(indents) : i = j <=> indents[i] = indents[j]
        /\ Top \in Nat /\ Top = indents[Len(indents)] /\ Len(indents) \in 1 .. Len(indents)
    BY StackFacts DEF Reads
  <2>2. /\ DOMAIN suites = 1 .. Len(suites) /\ Suite = suites[Len(suites)]
        /\ \A i \in 1 .. Len(suites) : suites[i] \in Nat /\ suites[i] <= Suite
        /\ Suite \in Nat /\ (Suite # 0 => Suite \in Done)
    BY SuiteFacts DEF Core
  <2>3. Suite < n
    BY <1>2, <1>7, <2>2
  <2>4. \A a \in Nat : a <= Suite => a < n
    BY ONLY <1>2, <2>2, <2>3
  <2>5. \A i \in 1 .. m : i # m => indents[i] < Top
    BY <2>1
  <2> QED
    BY <1>5, <2>1, <2>2, <2>4, <2>5
<1>9. \/ suites' = suites /\ ~Is(n, Header)
      \/ suites' = Append(suites, n) /\ Is(n, Header) /\ want' = "newline"
  BY DEF Goes, Is, Header
<1>10. /\ suites' \in Seq(Nat) /\ DOMAIN suites' = 1 .. Len(suites')
       /\ \/ Len(suites') = m /\ suites' = suites /\ ~Is(n, Header)
          \/ Len(suites') = m + 1 /\ suites'[m + 1] = n /\ Is(n, Header) /\ suites' = Append(suites, n)
       /\ \A i \in 1 .. m : suites'[i] = suites[i]
  <2>1. suites \in Seq(Nat) /\ suites' \in Seq(Nat)
    BY <1>3 DEF TypeOK
  <2>2. DOMAIN suites' = 1 .. Len(suites')
    BY ONLY <2>1
  <2>3. CASE suites' = suites /\ ~Is(n, Header)
    BY <1>8, <2>1, <2>2, <2>3
  <2>4. CASE suites' = Append(suites, n) /\ Is(n, Header)
    <3>1. /\ Len(Append(suites, n)) = Len(suites) + 1
          /\ \A i \in 1 .. Len(suites) : Append(suites, n)[i] = suites[i]
          /\ Append(suites, n)[Len(suites) + 1] = n
      BY ONLY <1>2, <2>1, Appended
    <3> QED
      BY <1>8, <2>1, <2>2, <2>4, <3>1
  <2> QED
    BY <1>9, <2>3, <2>4
<1>11. SuitesOK'
  <2>1. /\ suites[1] = 0 /\ 1 \in 1 .. m
        /\ \A i, j \in 1 .. m : i < j => suites[i] < suites[j]
        /\ \A i \in 1 .. m : i # 1 => suites[i] \in Done /\ Is(suites[i], Header)
    <3>1. DOMAIN suites = 1 .. m /\ m \in Nat /\ m >= 1
      BY <1>8
    <3>2. 1 \in 1 .. m
      BY ONLY <3>1
    <3> QED
      BY <3>1, <3>2 DEF Core, SuitesOK
  <2>2. Len(suites') \in {m, m + 1} /\ Len(suites') >= 1 /\ suites'[1] = 0
    <3>1. m \in Nat /\ m >= 1
      BY <1>8
    <3>2. Len(suites') \in {m, m + 1} /\ suites'[1] = 0
      BY <1>10, <2>1
    <3> QED
      BY ONLY <3>1, <3>2
  <2>3. ASSUME NEW i \in 1 .. Len(suites'), NEW j \in 1 .. Len(suites'), i < j
        PROVE  suites'[i] < suites'[j]
    <3>1. i \in 1 .. m
      BY ONLY <1>8, <2>2, <2>3
    <3>2. CASE j \in 1 .. m
      BY <1>10, <2>1, <2>3, <3>1, <3>2
    <3>3. CASE j = m + 1 /\ Len(suites') = m + 1
      <4>1. suites'[j] = n
        BY <1>8, <1>10, <3>3
      <4> QED
        BY <1>8, <1>10, <3>1, <4>1
    <3>4. j \in 1 .. m \/ (j = m + 1 /\ Len(suites') = m + 1)
      BY ONLY <1>8, <2>2, j \in 1 .. Len(suites')
    <3> QED
      BY <3>2, <3>3, <3>4
  <2>4. ASSUME NEW i \in 1 .. Len(suites'), i # 1
        PROVE  suites'[i] \in Done' /\ (Is(suites[i], Header))'
    <3>1. i \in 1 .. m \/ (i = m + 1 /\ Len(suites') = m + 1)
      BY ONLY <1>8, <2>2, i \in 1 .. Len(suites')
    <3>2. PICK x : x = suites'[i]
      OBVIOUS
    <3>3. x \in Done' /\ Is(x, Header)
      <4>1. CASE i \in 1 .. m
        BY <1>3, <1>10, <2>1, <2>4, <3>2, <4>1
      <4>2. CASE i = m + 1 /\ Len(suites') = m + 1
        <5>1. x = n /\ Is(n, Header)
          BY <1>8, <1>10, <3>2, <4>2
        <5> QED
          BY <1>3, <5>1
      <4> QED
        BY <3>1, <4>1, <4>2
    <3>4. Is(x, Header)'
      BY <1>2, <3>3 DEF Is, Header
    <3> QED
      BY <3>2, <3>3, <3>4
  <2> QED
    BY <1>10, <2>2, <2>3, <2>4 DEF SuitesOK
<1>12. Owners'
  <2>1. \A i \in 1 .. m : \A s \in Done : s > suites[i] => Col(s) >= indents[i]
    BY <1>8 DEF Core, Owners
  <2>2. ASSUME NEW i \in 1 .. m, NEW s \in Done', s > suites[i]
        PROVE  Col(s) >= indents[i]
    <3>1. CASE s \in Done
      BY <2>1, <2>2, <3>1
    <3>2. CASE s = n
      BY <1>2, <1>8, <3>2
    <3> QED
      BY <1>3, <3>1, <3>2
  <2>3. \A i \in DOMAIN indents' \cap DOMAIN suites' : i \in 1 .. m /\ suites'[i] = suites[i] /\ indents'[i] = indents[i]
    BY <1>2, <1>8, <1>10
  <2> QED
    BY <1>2, <2>2, <2>3 DEF Owners, Col
<1>13. Heads'
  <2>1. \A i \in 1 .. m : i + 1 \in 1 .. m =>
          /\ Col(suites[i + 1]) = indents[i]
          /\ \A s \in Done : s > suites[i + 1] => Col(s) > indents[i]
    BY <1>8 DEF Core, Heads
  <2>2. ASSUME NEW i \in 1 .. m, i + 1 \in 1 .. Len(suites')
        PROVE  /\ Col(suites'[i + 1]) = indents[i]
               /\ \A s \in Done' : s > suites'[i + 1] => Col(s) > indents[i]
    <3>1. CASE i + 1 \in 1 .. m
      <4>0. i # m
        BY ONLY <1>8, <3>1, i \in 1 .. m
      <4>1. i # m /\ suites'[i + 1] = suites[i + 1]
        BY <1>10, <3>1, <4>0
      <4>2. Col(n) > indents[i]
        BY <1>2, <1>8, <4>1
      <4> QED
        BY <1>3, <2>1, <3>1, <4>1, <4>2
    <3>2. CASE i = m /\ Len(suites') = m + 1
      <4>1. suites'[i + 1] = n
        BY <1>8, <1>10, <3>2
      <4>2. \A s \in Done' : ~(s > n)
        BY <1>2, <1>3, <1>7
      <4> QED
        BY <1>2, <1>8, <3>2, <4>1, <4>2
    <3>3. i + 1 \in 1 .. m \/ (i = m /\ Len(suites') = m + 1)
      <4>1. Len(suites') \in {m, m + 1}
        BY <1>10
      <4> QED
        BY ONLY <1>8, <2>2, <4>1, i \in 1 .. m
    <3> QED
      BY <3>1, <3>2, <3>3
  <2> QED
    BY <1>2, <1>8, <1>10, <2>2 DEF Heads, Col
<1>14. TreeOK'
  <2>1. \A j \in Done : tree[j] = Parent(j)
    BY DEF Core, TreeOK
  <2>2. DOMAIN tree = Done
    BY DEF Reads, TreeDomain
  <2>3. tree' = [j \in Done' |-> IF j = n THEN h ELSE tree[j]]
    BY <1>2, <1>3, <2>2 DEF Attach
  <2>4. \A j \in Done' : tree'[j] = Parent(j)
    BY <1>3, <2>1, <2>3
  <2> QED
    BY <1>6, <2>4 DEF TreeOK
<1>15. LevelsOK'
  <2>1. Levels' = m
    BY <1>2, <1>8 DEF Levels
  <2>2. Len(suites') = m \/ want' = "newline"
    BY <1>9, <1>10, <1>8
  <2>3. want' = "newline" => Len(suites') = m + 1
    BY <1>8, <1>10 DEF Goes, Is, Header
  <2>4. /\ want' = "statement" => Len(suites') = Levels' + Dedents'
        /\ want' = "newline" => Len(suites') = Len(indents') + 1
        /\ want' = "bracket" => Len(suites') \in DOMAIN indents'
    BY <1>2, <1>8, <2>1, <2>2, <2>3
  <2> QED
    BY <1>2, <1>4, <2>4 DEF LevelsOK
<1>16. LastOK'
  BY <1>4 DEF LastOK
<1>17. NewestOK'
  <2>1. n \in Done' /\ \A r \in Done' : r <= n
    BY <1>2, <1>3, <1>7
  <2>2. Is(n, Header) <=> want' \in {"newline", "indent"}
    BY DEF Goes, Is, Header
  <2>3. want' \in {"newline", "indent"} => Suite' = Len(lines') /\ Len(lines') \in Done'
    <3>1. SUFFICES ASSUME want' = "newline" PROVE Suite' = n
      BY <1>2, <1>4, <2>1
    <3>2. Len(suites') = m + 1 /\ suites'[m + 1] = n
      BY <1>8, <1>10, <2>2, <3>1
    <3> QED
      BY <3>2 DEF Suite
  <2>4. Newest(n)'
    BY <1>2, <2>1, <2>2 DEF Newest, Is, Header, Col, Top
  <2> QED
    BY <2>1, <2>3, <2>4 DEF NewestOK
<1>18. Brackets'
  <2>1. ASSUME want' = "bracket" PROVE Holds(n)'
    <3>1. Is(n, {"open"}) /\ Len(suites') = m
      BY <1>8, <2>1 DEF Goes
    <3>2. ~\E i \in n + 1 .. n : TRUE
      BY <1>2
    <3>3. Indented(n)'
      BY <1>2, <1>8, <3>1, <3>2 DEF Indented
    <3>4. n \in 1 .. Seen'
      BY ONLY <1>2
    <3> QED
      BY <1>2, <1>8, <3>1, <3>2, <3>3, <3>4 DEF Holds, Is, Col
  <2>2. ASSUME want' # "bracket" PROVE \A b \in 1 .. Seen' : Is(b, {"open"}) => Closed(b)'
    <3>1. ~Is(n, {"open"})
      BY <2>2 DEF Goes, Is, Header
    <3>2. want # "bracket"
      OBVIOUS
    <3>3. \A b \in 1 .. Seen : Is(b, {"open"}) => Closed(b)
      BY <3>2 DEF Core, Brackets
    <3>4. \A b : Closed(b) => Closed(b)'
      <4>1. \A b : \A i \in b + 1 .. Seen : i \in b + 1 .. Seen'
        BY ONLY <1>2
      <4> QED
        BY <1>2, <4>1 DEF Closed, Is
    <3>5. \A b \in 1 .. Seen' : b = n \/ b \in 1 .. Seen
      BY ONLY <1>2
    <3> QED
      BY <3>1, <3>3, <3>4, <3>5
  <2> QED
    BY <1>2, <1>6, <2>1, <2>2 DEF Brackets, Is
<1> QED
  BY <1>11, <1>12, <1>13, <1>14, <1>15, <1>16, <1>17, <1>18 DEF Core

LEMMA StatementStep ==
  ASSUME TypeOK, Reads, SimpleStatement \/ OpenBracket \/ CompoundStatement
  PROVE  ParserStep /\ ~Doomed'
<1>1. /\ status = "reading" /\ want = "statement" /\ Peek.kind \in {"stmt", "open", "if", "loop"}
      /\ tokens # << >> /\ Consume /\ Attach(Suite) /\ last' = last
  BY DEF SimpleStatement, OpenBracket, CompoundStatement, Peeks, Peek
<1>2. PeekSays
  BY <1>1, Phases DEF Reads
<1>3. /\ Peek.kind = lines[Len(lines)].kind /\ Peek.line = Len(lines) /\ Dedents = 0 /\ ~IndentPending
      /\ ~ended /\ Len(tokens) = 2
  BY <1>1, <1>2 DEF PeekSays
<1>4. Goes(Len(lines))
  BY <1>1, <1>3 DEF SimpleStatement, OpenBracket, CompoundStatement, Peeks, Goes, Is, Header
<1>5. TypeOK' /\ Reads' /\ ~Doomed' /\ Len(lines) \in Statements
  BY <1>1, <1>4, AttachReads DEF Header
<1>6. Pending /\ ~Is(Len(lines), Continuation \cup Clause)
  BY <1>1, <1>3 DEF Pending, Is, Continuation, Clause
<1>7. ~Doomed
  BY <1>1, <1>3, <1>6 DEF Doomed, Is
<1>8. ASSUME Core PROVE Core'
  <2>1. Len(suites) = Len(indents)
    <3>1. Len(suites) = Levels + Dedents /\ Levels = Len(indents) /\ Len(indents) \in Nat
      BY <1>1, <1>3, <1>8, TypeFacts DEF Core, LevelsOK, Levels
    <3> QED
      BY ONLY <1>3, <3>1
  <2>2. Owner(Len(lines)) = Suite
    BY <1>6, <1>8, <2>1, OwnerIs DEF Core
  <2>3. Suite = Parent(Len(lines))
    BY <1>6, <2>2 DEF Parent, Is
  <2> QED
    BY <1>1, <1>4, <1>8, <2>3, AttachCore DEF Header
<1> QED
  BY <1>5, <1>7, <1>8 DEF ParserStep

LEMMA NextClauseStep ==
  ASSUME TypeOK, Reads, NextClause
  PROVE  ParserStep /\ ~Doomed'
<1>1. /\ status = "reading" /\ want = "clause" /\ Peek.kind \in Clause
      /\ tokens # << >> /\ Consume /\ Attach(last) /\ last' = last
      /\ suites' = Append(suites, Peek.line) /\ want' = "newline"
  BY DEF NextClause, Peeks, Peek, Clause
<1>2. PeekSays
  BY <1>1, Phases DEF Reads
<1>3. /\ Peek.kind = lines[Len(lines)].kind /\ Peek.line = Len(lines) /\ Dedents = 0 /\ ~IndentPending
      /\ ~ended /\ Len(tokens) = 2
  BY <1>1, <1>2 DEF PeekSays, Clause
<1>4. Goes(Len(lines))
  BY <1>1, <1>3 DEF Goes, Is, Header, Clause
<1>5. TypeOK' /\ Reads' /\ ~Doomed' /\ Len(lines) \in Statements
  BY <1>1, <1>4, AttachReads DEF Header, Clause
<1>6. Pending /\ ~Is(Len(lines), Continuation) /\ Is(Len(lines), Clause)
  BY <1>1, <1>3 DEF Pending, Is, Continuation, Clause
<1>7. ~Doomed
  BY <1>1, <1>3, <1>6 DEF Doomed, Is
<1>8. ASSUME Core PROVE Core'
  <2>1. Continues(last)
    BY <1>1, <1>3, <1>8 DEF Core, LastOK
  <2>2. Before(Len(lines)) = last
    BY <1>6, <2>1, BeforeIs DEF Continues
  <2>3. last = Parent(Len(lines))
    BY <1>6, <2>2 DEF Parent
  <2> QED
    BY <1>1, <1>4, <1>8, <2>3, AttachCore DEF Header, Clause
<1> QED
  BY <1>5, <1>7, <1>8 DEF ParserStep

-----------------------------------------------------------------------------
(***************************************************************************)
(* The lines inside a bracket.                                             *)
(***************************************************************************)
LEMMA BracketRead ==
  ASSUME TypeOK, Reads, Consume, tokens # << >>, Peek.kind \in Continuation,
         tree' = tree, suites' = suites, last' = last, want' \in {"bracket", "statement"},
         want = "bracket"
  PROVE  /\ TypeOK' /\ Reads' /\ ~Doomed' /\ ~Doomed
         /\ lines' = lines /\ indents' = indents /\ ended' = ended /\ ~ended
         /\ Pending /\ ~Pending' /\ Len(lines) \in Nat /\ Len(lines) >= 1
         /\ Seen = Len(lines) - 1 /\ Seen' = Len(lines) /\ Done' = Done
         /\ Is(Len(lines), {Peek.kind}) /\ ~IndentPending' /\ Dedents' = 0
<1>1. Peek.kind \notin {"NEWLINE", "EOF", "INDENT", "DEDENT"}
  BY DEF Continuation
<1>2. /\ lines' = lines /\ indents' = indents /\ ended' = ended /\ ~ended
      /\ Pending /\ ~Pending' /\ Len(tokens') = 1 /\ tokens' # << >>
      /\ Len(lines) >= 1 /\ Seen = Len(lines) - 1 /\ Seen' = Len(lines)
      /\ ~IndentPending /\ ~IndentPending' /\ Dedents = 0 /\ Dedents' = 0
      /\ Peek.kind = lines[Len(lines)].kind /\ Peek.line = Len(lines)
      /\ Done' = Done \cup (Statements \cap {Len(lines)})
      /\ LineTokens' /\ EndTokens'
  BY <1>1, TextRead DEF Reads
<1>3. Len(lines) \in Nat
  BY TypeFacts
<1>4. Is(Len(lines), {Peek.kind}) /\ Is(Len(lines), Continuation)
  BY <1>2 DEF Is
<1>5. Done' = Done
  BY <1>2, <1>4 DEF Statements, Is
<1>6. TypeOK'
  BY <1>2, Consumed DEF TypeOK
<1>7. Reads'
  <2>1. Waits'
    BY <1>2 DEF Waits
  <2>2. TreeDomain'
    BY <1>5 DEF Reads, TreeDomain
  <2> QED
    BY <1>2, <2>1, <2>2, ParserReads
<1>8. ~Doomed'
  BY <1>2 DEF Doomed
<1>9. ~Doomed
  BY <1>2, <1>4 DEF Doomed
<1> QED
  BY <1>2, <1>3, <1>4, <1>5, <1>6, <1>7, <1>8, <1>9

\* The statement that opens the bracket is the newest there is.
LEMMA BracketNewest ==
  ASSUME TypeOK, NEW b \in 1 .. Seen, Is(b, {"open"}), Seen \in Nat, Seen <= Len(lines),
         \A i \in b + 1 .. Seen : Is(i, {"item", "blank"})
  PROVE  b \in Done /\ (\A r \in Done : r <= b) /\ ~Is(b, Header)
<1>1. b \in 1 .. Len(lines) /\ DOMAIN lines = 1 .. Len(lines)
  BY TypeFacts
<1>2. b \in Done
  BY <1>1 DEF Done, Statements, Is, Continuation
<1>3. ASSUME NEW r \in Done PROVE r <= b
  <2>1. r \in Nat /\ r <= Seen /\ r \in Statements
    BY DoneFacts
  <2>2. ~Is(r, {"item", "blank"})
    BY <2>1 DEF Statements, Is, Continuation
  <2>3. r \notin b + 1 .. Seen
    BY <2>2
  <2> QED
    BY <2>1, <2>3
<1> QED
  BY <1>2, <1>3 DEF Is, Header

LEMMA BracketStep ==
  ASSUME TypeOK, Reads, CloseBracket \/ (SkipInBracket /\ Peek.kind = "item")
  PROVE  ParserStep /\ ~Doomed'
<1>1. /\ want = "bracket" /\ Consume /\ tokens # << >>
      /\ tree' = tree /\ suites' = suites /\ last' = last
      /\ \/ Peek.kind = "close" /\ want' = "statement"
         \/ Peek.kind = "item" /\ want' = "bracket"
  BY DEF CloseBracket, SkipInBracket, Peeks, Peek, parser
<1>2. /\ TypeOK' /\ Reads' /\ ~Doomed' /\ ~Doomed
      /\ lines' = lines /\ indents' = indents /\ ended' = ended /\ ~ended
      /\ Pending /\ ~Pending' /\ Len(lines) \in Nat /\ Len(lines) >= 1
      /\ Seen = Len(lines) - 1 /\ Seen' = Len(lines) /\ Done' = Done
      /\ Is(Len(lines), {Peek.kind}) /\ ~IndentPending' /\ Dedents' = 0
  BY <1>1, BracketRead DEF Continuation
<1>3. ASSUME Core PROVE Core'
  <2>1. SuitesOK' /\ Owners' /\ Heads' /\ TreeOK'
    BY <1>1, <1>2, <1>3, CoreStays DEF Core
  <2>2. PICK b \in 1 .. Seen : Holds(b)
    BY <1>1, <1>3 DEF Core, Brackets
  <2>3. /\ Is(b, {"open"}) /\ Col(b) = indents[Len(suites)]
        /\ \A i \in b + 1 .. Seen : Is(i, {"item", "blank"})
        /\ Indented(b)
    BY <2>2 DEF Holds
  <2>4. b \in Done /\ (\A r \in Done : r <= b) /\ ~Is(b, Header)
    BY <1>2, <2>3, BracketNewest
  <2>5. LastOK'
    BY <1>1 DEF LastOK
  <2>6. NewestOK'
    <3>1. want' # "bracket" => Col(b) = Top
      <4>1. SUFFICES ASSUME Peek.kind = "close" PROVE Col(b) = Top
        BY <1>1
      <4>2. Len(indents) = Len(suites)
        BY <1>2, <2>3, <4>1 DEF Indented
      <4> QED
        BY <2>3, <4>2 DEF Top
    <3>2. Newest(b)'
      BY <1>1, <1>2, <2>4, <3>1 DEF Newest, Is, Col, Top, Header
    <3> QED
      BY <1>1, <1>2, <2>4, <3>2 DEF NewestOK
  <2>7. LevelsOK' /\ Brackets'
    <3>1. CASE Peek.kind = "close"
      <4>1. Len(indents) = Len(suites) /\ Len(indents) \in Nat /\ want' = "statement"
        BY <1>1, <1>2, <2>3, <3>1, TypeFacts DEF Indented
      <4>2. Len(suites') = Levels' + Dedents'
        BY <1>1, <1>2, <4>1 DEF Levels
      <4>3. LevelsOK'
        BY <4>1, <4>2 DEF LevelsOK
      <4>4. ASSUME NEW c \in 1 .. Seen', Is(c, {"open"}) PROVE Closed(c)'
        <5>1. c # Len(lines)
          BY <1>2, <3>1, <4>4 DEF Is
        <5>2. Len(lines) \in c + 1 .. Seen'
          BY ONLY <1>2, <5>1, c \in 1 .. Seen'
        <5>3. Is(Len(lines), {"close"})
          BY <1>2, <3>1
        <5> QED
          BY <1>2, <5>2, <5>3 DEF Closed, Is
      <4> QED
        BY <1>2, <4>1, <4>3, <4>4 DEF Brackets, Is
    <3>2. CASE Peek.kind = "item"
      <4>1. LevelsOK'
        BY <1>1, <1>2, <1>3, <3>2 DEF Core, LevelsOK
      <4>2. /\ Is(Len(lines), {"item"}) /\ ~Is(Len(lines), {"close"})
            /\ Len(lines) \in b + 1 .. Len(lines) /\ b \in 1 .. Seen'
        <5>1. Is(Len(lines), {"item"}) /\ ~Is(Len(lines), {"close"})
          BY <1>2, <3>2 DEF Is
        <5> QED
          BY ONLY <1>2, <5>1, b \in 1 .. Seen
      <4>3. /\ Len(indents) = Len(suites) + 1
            /\ \A i \in b + 1 .. Len(lines) : Is(i, {"item"}) => Col(i) = Top
        BY <2>3, <4>2 DEF Indented
      <4>4. Indented(b)'
        BY <1>1, <1>2, <4>2, <4>3 DEF Indented, Is, Col, Top
      <4>5. \A i \in b + 1 .. Seen' : Is(i, {"item", "blank"})
        <5>1. \A i \in b + 1 .. Seen' : i \in b + 1 .. Seen \/ i = Len(lines)
          BY ONLY <1>2, b \in 1 .. Seen
        <5> QED
          BY <2>3, <4>2, <5>1 DEF Is
      <4>6. Holds(b)'
        BY <1>1, <1>2, <2>3, <4>2, <4>4, <4>5 DEF Holds, Is, Col
      <4> QED
        BY <1>1, <3>2, <4>1, <4>2, <4>6 DEF Brackets
    <3> QED
      BY <1>1, <3>1, <3>2
  <2> QED
    BY <2>1, <2>5, <2>6, <2>7 DEF Core
<1> QED
  BY <1>2, <1>3 DEF ParserStep

LEMMA AcceptStep ==
  ASSUME TypeOK, Reads, Accept
  PROVE  ParserStep /\ ~Doomed' /\ ended' /\ Len(tokens') = 1 /\ status' = "accepted"
<1>1. /\ status = "reading" /\ want = "statement" /\ Peek.kind = "EOF" /\ tokens # << >>
      /\ tokens' = tokens /\ lines' = lines /\ indents' = indents /\ ended' = ended
      /\ suites' = suites /\ want' = want /\ last' = last /\ tree' = tree /\ status' = "accepted"
  BY DEF Accept, Peeks, Peek, lexer, parser
<1>2. PeekSays
  BY <1>1, Phases DEF Reads
<1>3. ended /\ Len(tokens) = 1 /\ ~IndentPending
  BY <1>1, <1>2 DEF PeekSays
<1>4. /\ SameText /\ (IndentPending' <=> IndentPending) /\ Dedents' = Dedents
      /\ LineTokens' /\ EndTokens'
  BY <1>1, Unread DEF Reads
<1>5. TypeOK'
  BY <1>1 DEF TypeOK
<1>6. Reads'
  <2>1. Waits'
    BY <1>1 DEF Waits
  <2>2. TreeDomain'
    BY <1>1, <1>4 DEF Reads, TreeDomain, SameText
  <2> QED
    BY <1>1, <1>4, <2>1, <2>2, ParserReads
<1>7. ~Pending /\ ~Pending'
  BY <1>3, <1>4 DEF Pending, SameText
<1>8. ~Doomed /\ ~Doomed'
  BY <1>1, <1>3, <1>4, <1>7 DEF Doomed
<1>9. ASSUME Core PROVE Core'
  <2>1. SuitesOK' /\ Owners' /\ Heads' /\ TreeOK'
    BY <1>1, <1>4, <1>9, CoreStays DEF Core, SameText
  <2>2. LevelsOK'
    BY <1>1, <1>4, <1>9 DEF Core, LevelsOK, Levels
  <2>3. LastOK' /\ NewestOK'
    BY <1>1, <1>3 DEF LastOK, NewestOK
  <2>5. Brackets'
    BY <1>1, <1>4, <1>9, ClosedStays DEF Core, SameText
  <2> QED
    BY <2>1, <2>2, <2>3, <2>5 DEF Core
<1> QED
  BY <1>1, <1>3, <1>5, <1>6, <1>8, <1>9 DEF ParserStep

\* As long as the parser is not doomed it can go on with the next token.
LEMMA GoesOn ==
  ASSUME TypeOK, Reads, Core, ~Doomed, tokens # << >>
  PROVE  Peek.kind \in Expected
<1>1. PeekSays
  BY Phases DEF Reads
<1>2. want \in {"statement", "newline", "indent", "dedent", "bracket", "clause"}
  BY DEF TypeOK
<1>3. Peek.kind \in TextKind \cup {"INDENT", "DEDENT", "NEWLINE", "EOF"}
  <2>1. Peek = tokens[1] /\ 1 \in 1 .. Len(tokens)
    BY <1>1 DEF PeekSays
  <2> QED
    BY <2>1, TypeFacts DEF TokenType
<1>4. Peek.kind \in TextKind =>
        /\ ~ended /\ Pending /\ Dedents = 0 /\ ~IndentPending
        /\ Is(Len(lines), {Peek.kind}) /\ Peek.kind # "blank"
  <2>1. SUFFICES ASSUME Peek.kind \in TextKind
                 PROVE  /\ ~ended /\ Pending /\ Dedents = 0 /\ ~IndentPending
                        /\ Is(Len(lines), {Peek.kind}) /\ Peek.kind # "blank"
    OBVIOUS
  <2>2. Peek.kind \notin {"NEWLINE", "EOF", "INDENT", "DEDENT"}
    BY <2>1 DEF TextKind, Header, Continuation
  <2>3. /\ ~ended /\ Len(tokens) = 2 /\ Dedents = 0 /\ ~IndentPending
        /\ Peek.kind = lines[Len(lines)].kind
    BY <1>1, <2>2 DEF PeekSays
  <2>4. Pending
    BY <2>3 DEF Pending
  <2>5. ~Is(Len(lines), {"blank"})
    BY <2>4 DEF Reads, LineTokens
  <2> QED
    BY <2>3, <2>4, <2>5 DEF Is
<1>5. CASE want = "statement"
  <2>1. Peek.kind # "INDENT"
    BY <1>1, <1>5 DEF PeekSays, Doomed
  <2>2. Peek.kind = "DEDENT" => InSuite
    <3>1. SUFFICES ASSUME Peek.kind = "DEDENT" PROVE InSuite
      OBVIOUS
    <3>2. Dedents \in Nat /\ Dedents > 0
      BY <1>1, <3>1 DEF PeekSays
    <3>3. Len(suites) = Levels + Dedents /\ Levels \in Nat /\ Levels >= 1
      <4>1. Len(indents) \in Nat /\ Len(indents) >= 1
        BY StackFacts DEF Reads
      <4> QED
        BY <1>5, <4>1 DEF Core, LevelsOK, Levels
    <3>4. Len(suites) > 1
      BY ONLY <3>2, <3>3
    <3> QED
      BY <3>4 DEF InSuite
  <2>3. Peek.kind \in TextKind => Peek.kind \in {"stmt", "open", "if", "loop"}
    BY <1>4, <1>5 DEF Doomed, Is, TextKind, Header, Clause, Continuation
  <2> QED
    BY <1>3, <1>5, <2>1, <2>2, <2>3 DEF Expected
<1>6. CASE want = "newline"
  <2>1. ~ended /\ Len(tokens) = 1
    BY <1>6 DEF Reads, Waits
  <2> QED
    BY <1>1, <1>6, <2>1 DEF PeekSays, Expected
<1>7. CASE want = "indent"
  BY <1>1, <1>7 DEF PeekSays, Expected, Doomed
<1>8. CASE want = "dedent"
  <2>1. Dedents # 0
    BY <1>8 DEF Doomed
  <2>2. Peek.kind = "DEDENT"
    BY <1>1, <2>1 DEF PeekSays
  <2> QED
    BY <1>8, <2>2 DEF Expected
<1>9. CASE want = "bracket"
  <2>1. Peek.kind # "EOF"
    BY <1>1, <1>9 DEF PeekSays, Doomed
  <2>2. Peek.kind \in TextKind => Peek.kind \in Continuation
    BY <1>4, <1>9 DEF Doomed, Is
  <2> QED
    BY <1>3, <1>9, <2>1, <2>2 DEF Expected, Continuation
<1>10. CASE want = "clause"
  BY <1>10 DEF Expected
<1> QED
  BY <1>2, <1>5, <1>6, <1>7, <1>8, <1>9, <1>10

-----------------------------------------------------------------------------
(***************************************************************************)
(* A well-formed program does not doom the parser.                         *)
(***************************************************************************)
LEMMA LineOpened ==
  ASSUME TypeOK, NEW n \in Column, NEW k \in Kind, NextLine(n, k), NEW m, m = Len(lines) + 1
  PROVE  Opened(m)' <=> Opened(m)
<1> PICK size : size = Len(lines)
  OBVIOUS
<1>1. /\ size \in Nat /\ DOMAIN lines = 1 .. size /\ DOMAIN lines' = 1 .. size + 1 /\ m = size + 1
  <2>1. lines' \in Seq(LineType) /\ Len(lines') = size + 1
    BY LineAdded
  <2>2. size \in Nat /\ DOMAIN lines = 1 .. size
    BY TypeFacts
  <2> QED
    BY ONLY <2>1, <2>2, m = Len(lines) + 1, size = Len(lines)
<1>2. \A j \in 1 .. size : \A K : Is(j, K)' <=> Is(j, K)
  BY EarlierLines
<1>3. /\ \A i : i \in 1 .. size + 1 /\ i < m <=> i \in 1 .. size
      /\ \A i : i \in 1 .. size /\ i < m <=> i \in 1 .. size
  BY ONLY <1>1
<1>4. Opener(m)' = Opener(m)
  <2> DEFINE S == {i \in 1 .. size + 1 : i < m /\ Is(i, {"open"})'}
             T == {i \in 1 .. size : i < m /\ Is(i, {"open"})}
  <2>1. S = T
    BY <1>2, <1>3
  <2>2. Opener(m)' = Latest(S)
    BY <1>1 DEF Opener
  <2>3. Opener(m) = Latest(T)
    BY <1>1 DEF Opener
  <2> HIDE DEF S, T
  <2> QED
    BY <2>1, <2>2, <2>3
<1>5. PICK o : o = Opener(m)
  OBVIOUS
<1>6. o # 0 => o \in 1 .. size
  <2>1. m \in 1 .. size + 1
    BY ONLY <1>1
  <2> QED
    BY <1>5, <2>1, OpenerRange
<1>7. o # 0 => \A i \in o .. m - 1 : i \in 1 .. size
  BY ONLY <1>1, <1>6
<1>8. o # 0 => \A i \in o .. m - 1 : Is(i, {"close"})' <=> Is(i, {"close"})
  BY <1>2, <1>7
<1>9. Opener(m)' = o
  BY <1>4, <1>5
<1> QED
  BY <1>5, <1>8, <1>9 DEF Opened

LEMMA BracketOpened ==
  ASSUME TypeOK, Reads, Core, tokens = << >>, ~ended, NEW m, m = Len(lines) + 1
  PROVE  want = "bracket" <=> Opened(m)
<1> PICK size : size = Len(lines)
  OBVIOUS
<1>1. size \in Nat /\ m = size + 1 /\ m \in 1 .. size + 1 /\ Seen = size
  <2>1. size \in Nat /\ Seen = size
    BY TypeFacts, NoTokens
  <2> QED
    BY ONLY <2>1, m = Len(lines) + 1, size = Len(lines)
<1>2. PICK o : o = Opener(m)
  OBVIOUS
<1>3. /\ o # 0 => /\ o \in 1 .. size /\ Is(o, {"open"})
                  /\ \A i \in 1 .. size : i < m /\ Is(i, {"open"}) => i <= o
      /\ o = 0 => \A i \in 1 .. size : i < m => ~Is(i, {"open"})
  BY <1>1, <1>2, OpenerRange
<1>4. Opened(m) <=> o # 0 /\ ~\E i \in o .. m - 1 : Is(i, {"close"})
  BY <1>2 DEF Opened
<1>5. CASE want = "bracket"
  <2>1. PICK b \in 1 .. size : /\ Is(b, {"open"})
                               /\ \A i \in b + 1 .. size : Is(i, {"item", "blank"})
    BY <1>5, BracketBefore
  <2>2. b < m /\ b \in Nat
    BY ONLY <1>1, b \in 1 .. size
  <2>3. o # 0 /\ b <= o
    BY <1>3, <2>1, <2>2
  <2>4. o \in b + 1 .. size \/ o = b
    BY ONLY <1>1, <1>3, <2>3, b \in 1 .. size
  <2>5. o = b
    BY <1>3, <2>1, <2>3, <2>4 DEF Is
  <2>6. \A i \in o .. m - 1 : i = b \/ i \in b + 1 .. size
    BY ONLY <1>1, <2>2, <2>5
  <2>7. \A i \in o .. m - 1 : ~Is(i, {"close"})
    BY <2>1, <2>6 DEF Is
  <2> QED
    BY <1>4, <1>5, <2>3, <2>7
<1>6. CASE want # "bracket"
  <2>1. SUFFICES ASSUME o # 0 PROVE \E i \in o .. m - 1 : Is(i, {"close"})
    BY <1>4, <1>6
  <2>2. Closed(o)
    BY <1>1, <1>3, <1>6, <2>1 DEF Core, Brackets
  <2>3. PICK i \in o + 1 .. size : Is(i, {"close"})
    BY <1>1, <2>2 DEF Closed
  <2>4. i \in o .. m - 1
    BY ONLY <1>1, <1>3, <2>1, i \in o + 1 .. size
  <2> QED
    BY <2>3, <2>4
<1> QED
  BY <1>5, <1>6

LEMMA LineContinues ==
  ASSUME TypeOK, Reads, Core, NEW n \in Column, NEW k \in Kind, NextLine(n, k),
         WellFormed', k # "blank"
  PROVE  want = "bracket" <=> k \in Continuation
<1>1. PICK m : m = Len(lines) + 1
  OBVIOUS
<1>2. Opened(m)' <=> want = "bracket"
  BY <1>1, LineOpened, BracketOpened, LineAdded
<1>3. \A K : Is(m, K)' <=> k \in K
  BY <1>1, EarlierLines
<1>4. m \in DOMAIN lines'
  <2>1. lines' \in Seq(LineType) /\ Len(lines') = Len(lines) + 1 /\ Len(lines) \in Nat
    BY LineAdded
  <2> QED
    BY ONLY <1>1, <2>1
<1>5. Is(m, Continuation)' <=> Opened(m)' /\ ~Is(m, {"blank"})'
  BY <1>4, WellFormedPartsNext DEF BracketsRight
<1> QED
  BY <1>2, <1>3, <1>5

\* The owner of the next line, and the statement before it.
LEMMA LineOwner ==
  ASSUME TypeOK, NEW n \in Column, NEW k \in Kind, NextLine(n, k), NEW m, m = Len(lines) + 1
  PROVE  /\ Owner(m)' = Latest({i \in Statements : Col(i) < n})
         /\ Before(m)' = Latest({i \in Statements : i > Owner(m)' /\ Col(i) <= n})
<1> PICK size : size = Len(lines)
  OBVIOUS
<1>1. /\ size \in Nat /\ m = size + 1 /\ Statements \subseteq 1 .. size
  BY TypeFacts
<1>2. \A j \in 1 .. size : Col(j)' = Col(j)
  BY EarlierLines
<1>3. Col(m)' = n
  BY EarlierLines
<1>4. \A i : i < m /\ i \in Statements' <=> i \in Statements
  <2>1. Statements' = Statements \cup (IF k \in Continuation \cup {"blank"} THEN {} ELSE {m})
    BY EarlierLines
  <2>2. ~(m < m) /\ \A i \in 1 .. size : i < m
    BY ONLY <1>1
  <2> QED
    BY <1>1, <2>1, <2>2
<1>5. \A i \in Statements : Col(i)' = Col(i)
  BY <1>1, <1>2
<1>6. PICK o : o = Owner(m)'
  OBVIOUS
<1>7. Owner(m)' = Latest({i \in Statements : Col(i) < n})
  <2> DEFINE S == {i \in Statements' : i < m /\ Col(i)' < n}
             T == {i \in Statements : Col(i) < n}
  <2>1. S = T
    BY <1>4, <1>5
  <2>2. Owner(m)' = Latest(S)
    BY <1>3 DEF Owner
  <2> HIDE DEF S
  <2> QED
    BY <2>1, <2>2
<1>8. Before(m)' = Latest({i \in Statements : i > o /\ Col(i) <= n})
  <2> DEFINE S == {i \in Statements' : i < m /\ i > o /\ Col(i)' <= n}
             T == {i \in Statements : i > o /\ Col(i) <= n}
  <2>1. S = T
    BY <1>4, <1>5
  <2>2. Before(m)' = Latest(S)
    BY <1>3, <1>6 DEF Before
  <2> HIDE DEF S
  <2> QED
    BY <2>1, <2>2
<1> QED
  BY <1>6, <1>7, <1>8

\* What a well-formed program says of its last line, o and b the owner of the
\* line and the statement before it.
LEMMA LineRight ==
  ASSUME TypeOK, NEW n \in Column, NEW k \in Kind, NextLine(n, k), WellFormed',
         k \notin Continuation, k # "blank", NEW m, m = Len(lines) + 1,
         NEW o, o = Owner(m)', NEW b, b = Before(m)'
  PROVE  /\ o # 0 => o \in Statements /\ Is(o, Header) /\ Col(o) < n
                     /\ \A i \in Statements : Col(i) < n => i <= o
         /\ o = 0 => n = 0
         /\ \A i \in Statements : Owner(i) = o => Col(i) = n
         /\ k \in Clause => b \in Statements /\ b > o /\ Col(b) <= n /\ Is(b, {"if", "elif"})
                            /\ \A i \in Statements : i > o /\ Col(i) <= n => i <= b
<1> PICK size : size = Len(lines)
  OBVIOUS
<1>1. /\ size \in Nat /\ m = size + 1 /\ Statements \subseteq 1 .. size
  BY TypeFacts
<1>2. /\ \A j \in 1 .. size : Col(j)' = Col(j)
      /\ \A j \in 1 .. size : \A K : Is(j, K)' <=> Is(j, K)
      /\ \A j \in 1 .. size : Owner(j)' = Owner(j)
      /\ Col(m)' = n /\ \A K : Is(m, K)' <=> k \in K
  BY EarlierLines
<1>3. m \in Statements' /\ \A i \in Statements : i \in Statements' /\ i < m
  <2>1. Statements' = Statements \cup {m}
    BY EarlierLines
  <2>2. \A i \in 1 .. size : i < m
    BY ONLY <1>1
  <2> QED
    BY <1>1, <2>1, <2>2
<1>4. StatementRight(m)'
  BY <1>3, WellFormedPartsNext
<1>5. /\ IF o = 0 THEN Col(m)' = 0 ELSE Is(o, Header)'
      /\ \A i \in Statements' : i < m /\ Owner(i)' = o => Col(i)' = Col(m)'
      /\ Is(m, Clause)' => b # 0 /\ Is(b, {"if", "elif"})'
  <2>1. /\ IF Owner(m)' = 0 THEN Col(m)' = 0 ELSE (Is(Owner(m), Header))'
        /\ \A i \in Statements' : i < m /\ Owner(i)' = Owner(m)' => Col(i)' = Col(m)'
        /\ Is(m, Clause)' => Before(m)' # 0 /\ (Is(Before(m), {"if", "elif"}))'
    BY <1>4 DEF StatementRight
  <2>2. (Is(Owner(m), Header))' <=> Is(o, Header)'
    BY DEF Is, Header
  <2>3. (Is(Before(m), {"if", "elif"}))' <=> Is(b, {"if", "elif"})'
    BY DEF Is
  <2> QED
    BY <2>1, <2>2, <2>3
<1>6. /\ o = Latest({i \in Statements : Col(i) < n})
      /\ b = Latest({i \in Statements : i > o /\ Col(i) <= n})
  BY LineOwner
<1>7. \A i \in Statements : i \in Nat /\ i <= size
  BY <1>1
<1>8. o # 0 => o \in Statements /\ Col(o) < n /\ \A i \in Statements : Col(i) < n => i <= o
  <2> DEFINE S == {i \in Statements : Col(i) < n}
  <2>1. S \subseteq Nat /\ \A s \in S : s <= size
    BY <1>7
  <2>2. S \subseteq Statements
    OBVIOUS
  <2>3. o = Latest(S)
    BY <1>6
  <2> HIDE DEF S
  <2>4. o # 0 => o \in S /\ \A s \in S : s <= o
    BY <1>1, <2>1, <2>3, LatestIn
  <2> QED
    BY <2>4 DEF S
<1>9. b # 0 => b \in Statements /\ b > o /\ Col(b) <= n /\ \A i \in Statements : i > o /\ Col(i) <= n => i <= b
  <2> DEFINE S == {i \in Statements : i > o /\ Col(i) <= n}
  <2>1. S \subseteq Nat /\ \A s \in S : s <= size
    BY <1>7
  <2>3. b = Latest(S)
    BY <1>6
  <2> HIDE DEF S
  <2>4. b # 0 => b \in S /\ \A s \in S : s <= b
    BY <1>1, <2>1, <2>3, LatestIn
  <2> QED
    BY <2>4 DEF S
<1> QED
  BY <1>1, <1>2, <1>3, <1>5, <1>8, <1>9

LEMMA LineHeader ==
  ASSUME TypeOK, NEW n \in Column, NEW k \in Kind, NextLine(n, k), WellFormed',
         NEW h \in Statements, Is(h, Header), NEW m, m = Len(lines) + 1
  PROVE  /\ h = Len(lines) => k \notin Continuation /\ k # "blank" /\ Owner(m)' = h
         /\ h < Len(lines) => h + 1 \in Statements /\ Owner(h + 1) = h
<1> PICK size : size = Len(lines)
  OBVIOUS
<1>1. /\ size \in Nat /\ m = size + 1 /\ Statements \subseteq 1 .. size /\ Len(lines') = size + 1
  BY TypeFacts, LineAdded
<1>2. /\ \A j \in 1 .. size : \A K : Is(j, K)' <=> Is(j, K)
      /\ \A j \in 1 .. size : Owner(j)' = Owner(j)
  BY EarlierLines
<1>3. Statements' = Statements \cup (IF k \in Continuation \cup {"blank"} THEN {} ELSE {m})
  BY EarlierLines
<1>4. h \in 1 .. size /\ h \in Nat /\ h < size + 1 /\ (h < size => h + 1 \in 1 .. size /\ h + 1 # m)
  BY ONLY <1>1, h \in Statements
<1>5. StatementRight(h)' /\ Is(h, Header)'
  BY <1>2, <1>3, <1>4, WellFormedPartsNext
<1>6. PICK g : g = h + 1
  OBVIOUS
<1>7. g \in Statements' /\ Owner(g)' = h
  <2>1. h + 1 \in Statements' /\ Owner(h + 1)' = h
    BY <1>1, <1>4, <1>5 DEF StatementRight
  <2> QED
    BY <1>6, <2>1
<1>8. ASSUME h = size PROVE k \notin Continuation /\ k # "blank" /\ Owner(m)' = h
  <2>1. g = m /\ m \notin Statements
    BY ONLY <1>1, <1>6, <1>8
  <2> QED
    BY <1>3, <1>7, <2>1
<1>9. ASSUME h < size PROVE h + 1 \in Statements /\ Owner(h + 1) = h
  <2>1. g \in Statements /\ g \in 1 .. size
    BY <1>3, <1>4, <1>6, <1>7, <1>9
  <2>2. Owner(g) = h
    BY <1>2, <1>7, <2>1
  <2> QED
    BY <1>6, <2>1, <2>2
<1> QED
  BY <1>8, <1>9

\* Where the parser stands when it needs the next line.
Stands ==
  /\ Done = Statements /\ want \in {"statement", "indent", "bracket"}
  /\ want = "statement" =>
       /\ Len(suites) = Len(indents)
       /\ \/ Statements = {} /\ Top = 0
          \/ \E s \in Statements : /\ \A r \in Statements : r <= s
                                   /\ Col(s) = Top /\ ~Is(s, Header)
  /\ want = "indent" =>
       /\ Suite = Len(lines) /\ Suite \in Statements /\ Is(Suite, Header) /\ Col(Suite) = Top

LEMMA AtLine ==
  ASSUME TypeOK, Reads, Core, tokens = << >>, ~ended
  PROVE  Stands
<1>1. want \in {"statement", "indent", "bracket"} /\ Seen = Len(lines) /\ ~Pending /\ Dedents = 0
  BY Waiting, NoTokens
<1>2. Done = Statements
  <2>1. \A s \in Statements : s <= Seen
    BY <1>1, TypeFacts
  <2> QED
    BY <2>1 DEF Done
<1>3. Levels = Len(indents) /\ Len(indents) \in Nat
  BY TypeFacts DEF Levels
<1>4. /\ (Done = {} /\ Top = 0 /\ want = "statement") \/ \E s \in Done : Newest(s)
      /\ want \in {"newline", "indent"} => Suite = Len(lines) /\ Len(lines) \in Done
  BY <1>1 DEF Core, NewestOK
<1>5. ASSUME want = "statement"
      PROVE  /\ Len(suites) = Len(indents)
             /\ \/ Statements = {} /\ Top = 0
                \/ \E s \in Statements : /\ \A r \in Statements : r <= s
                                         /\ Col(s) = Top /\ ~Is(s, Header)
  <2>1. Len(suites) = Len(indents)
    BY <1>1, <1>3, <1>5 DEF Core, LevelsOK
  <2>2. ASSUME NEW s \in Done, Newest(s)
        PROVE  (\A r \in Statements : r <= s) /\ Col(s) = Top /\ ~Is(s, Header)
    BY <1>2, <1>5, <2>2 DEF Newest
  <2> QED
    BY <1>2, <1>4, <2>1, <2>2
<1>6. ASSUME want = "indent"
      PROVE  Suite = Len(lines) /\ Suite \in Statements /\ Is(Suite, Header) /\ Col(Suite) = Top
  <2>1. Suite = Len(lines) /\ Suite \in Statements
    BY <1>2, <1>4, <1>6
  <2>2. PICK s \in Done : Newest(s)
    BY <1>4, <1>6
  <2>3. s \in Statements /\ (\A r \in Statements : r <= s) /\ Is(s, Header) /\ Col(s) = Top
    BY <1>2, <1>6, <2>2 DEF Newest
  <2>4. s = Len(lines)
    <3>1. s \in Nat /\ s <= Len(lines) /\ Len(lines) <= s /\ Len(lines) \in Nat
      BY <2>1, <2>3, TypeFacts
    <3> QED
      BY ONLY <3>1
  <2> QED
    BY <2>1, <2>3, <2>4
<1> QED
  BY <1>1, <1>2, <1>5, <1>6 DEF Stands

\* Nor does a line of a program that is well formed up to it.
LEMMA LineSafe ==
  ASSUME TypeOK, Reads, Core, NEW n \in Column, NEW k \in Kind, NextLine(n, k), WellFormed',
         tokens' # << >>,
         \/ k = "blank" /\ ~Pending' /\ ~IndentPending'
         \/ k # "blank" /\ n = Top /\ Pending' /\ ~IndentPending'
         \/ k # "blank" /\ n > Top /\ Pending' /\ IndentPending'
         \/ k # "blank" /\ n < Top /\ Pending' /\ ~IndentPending' /\ Dedents' # 0
  PROVE  ~Doomed'
<1>1. PICK m : m = Len(lines) + 1
  OBVIOUS
<1>2. /\ tokens = << >> /\ ~ended /\ ~ended' /\ want' = want /\ m = Len(lines')
      /\ n \in Nat /\ Len(lines) \in Nat
  BY <1>1, LineAdded
<1>3. Stands /\ Top \in Nat
  BY <1>2, AtLine, StackFacts DEF Reads
<1>4. want \in {"statement", "indent", "bracket"}
  BY <1>3 DEF Stands
<1>5. \A K : Is(m, K)' <=> k \in K
  BY <1>1, EarlierLines
<1>6. k # "blank" => (want = "bracket" <=> k \in Continuation)
  BY LineContinues
<1>7. PICK o, b : o = Owner(m)' /\ b = Before(m)'
  OBVIOUS
<1>8. ASSUME want = "indent"
      PROVE  k # "blank" /\ k \notin Continuation /\ o = Len(lines) /\ Top < n
  <2>1. /\ Suite = Len(lines) /\ Suite \in Statements /\ Is(Suite, Header) /\ Col(Suite) = Top
    BY <1>3, <1>8 DEF Stands
  <2>2. k \notin Continuation /\ k # "blank" /\ o = Len(lines)
    BY <1>1, <1>7, <2>1, LineHeader
  <2>3. o # 0
    BY <2>1, <2>2, TypeFacts
  <2>4. Col(o) < n
    BY <1>1, <1>7, <2>2, <2>3, LineRight
  <2> QED
    BY <2>1, <2>2, <2>4
<1>9. ASSUME k \in Clause, want = "indent" PROVE FALSE
  <2>1. k # "blank" /\ k \notin Continuation /\ o = Len(lines)
    BY <1>8, <1>9
  <2>2. b \in Statements /\ b > o
    BY <1>1, <1>7, <1>9, <2>1, LineRight
  <2>3. b \in 1 .. Len(lines)
    BY <2>2, TypeFacts
  <2> QED
    BY ONLY <1>2, <2>1, <2>2, <2>3
<1>10. ASSUME want = "statement", k # "blank", n > Top PROVE FALSE
  <2>1. k \notin Continuation
    BY <1>6, <1>10
  <2>2. /\ o # 0 => o \in Statements /\ Is(o, Header)
                     /\ \A i \in Statements : Col(i) < n => i <= o
        /\ o = 0 => n = 0
        /\ o \in Nat
    <3>1. o \in Nat
      BY <1>1, <1>7, <1>10, <2>1, LineRight, TypeFacts
    <3> QED
      BY <1>1, <1>7, <1>10, <2>1, <3>1, LineRight
  <2>3. o # 0
    BY ONLY <1>2, <1>3, <1>10, <2>2
  <2>4. PICK s \in Statements : (\A r \in Statements : r <= s) /\ Col(s) = Top /\ ~Is(s, Header)
    BY <1>3, <1>10, <2>2, <2>3 DEF Stands
  <2>5. o <= s /\ s <= o /\ o \in Nat /\ s \in Nat
    BY <1>10, <2>2, <2>3, <2>4, TypeFacts
  <2>6. o = s
    BY ONLY <2>5
  <2> QED
    BY <2>2, <2>3, <2>4, <2>6
<1>11. ASSUME want = "statement", k \in Clause, n = Top PROVE FALSE
  <2>1. k # "blank" /\ k \notin Continuation
    BY <1>11 DEF Clause, Continuation
  <2>2. /\ o # 0 => o \in Statements /\ Col(o) < n
        /\ b \in Statements /\ Is(b, {"if", "elif"})
        /\ \A i \in Statements : i > o /\ Col(i) <= n => i <= b
    BY <1>1, <1>7, <1>11, <2>1, LineRight
  <2>4. PICK s \in Statements : (\A r \in Statements : r <= s) /\ Col(s) = Top /\ ~Is(s, Header)
    BY <1>3, <1>11, <2>2 DEF Stands
  <2>5. s \in Nat /\ s > 0 /\ b \in Nat /\ b <= s /\ (o # 0 => o \in Nat /\ o <= s /\ o # s)
    <3>1. s \in Nat /\ s > 0 /\ b \in Nat /\ b <= s /\ (o # 0 => o \in Nat /\ o <= s)
      BY <2>2, <2>4, TypeFacts
    <3>2. o # 0 => o # s
      BY <1>2, <1>3, <1>11, <2>2, <2>4
    <3> QED
      BY <3>1, <3>2
  <2>6. s > o
    BY ONLY <2>5
  <2>7. s <= b
    BY <1>2, <1>3, <1>11, <2>2, <2>4, <2>6
  <2>8. s = b
    BY ONLY <2>5, <2>7
  <2> QED
    BY <2>2, <2>4, <2>8 DEF Is, Header
<1>12. /\ ~(want = "bracket" /\ Pending' /\ k \notin Continuation)
       /\ ~(want # "bracket" /\ Pending' /\ k \in Continuation)
       /\ ~(want = "indent" /\ ~IndentPending')
       /\ ~(want = "statement" /\ IndentPending')
       /\ ~(want = "statement" /\ Pending' /\ Dedents' = 0 /\ ~IndentPending' /\ k \in Clause)
       /\ ~(want = "indent" /\ Pending' /\ k \in Clause)
  <2>1. /\ ~(want = "bracket" /\ Pending' /\ k \notin Continuation)
        /\ ~(want # "bracket" /\ Pending' /\ k \in Continuation)
    BY <1>6
  <2>2. ~(want = "indent" /\ ~IndentPending')
    BY <1>2, <1>3, <1>8
  <2>3. ~(want = "statement" /\ IndentPending')
    BY <1>10
  <2>4. ~(want = "statement" /\ Pending' /\ Dedents' = 0 /\ ~IndentPending' /\ k \in Clause)
    BY <1>11
  <2>5. ~(want = "indent" /\ Pending' /\ k \in Clause)
    BY <1>9
  <2> QED
    BY <2>1, <2>2, <2>3, <2>4, <2>5
<1> QED
  BY <1>2, <1>4, <1>5, <1>12 DEF Doomed

LEMMA EndSafe ==
  ASSUME TypeOK, Reads, Core, EndOfFile, WellFormed'
  PROVE  ~Doomed'
<1>1. /\ ended' /\ ~ended /\ lines' = lines /\ want' = want
      /\ tokens = << >> /\ ~Pending' /\ ~IndentPending'
  BY EndReads
<1>2. Stands
  BY <1>1, AtLine
<1>3. Len(lines) \in Nat /\ DOMAIN lines = 1 .. Len(lines) /\ Statements \subseteq 1 .. Len(lines)
  BY TypeFacts
<1>4. \A j \in DOMAIN lines : j = Len(lines) => ~Is(j, Header) /\ ~Opened(j + 1)
  <2>1. Ends'
    BY WellFormedPartsNext
  <2>2. \A j \in DOMAIN lines' : j = Len(lines') => ~Is(j, Header)' /\ ~Opened(j + 1)'
    BY <1>1, <2>1 DEF Ends, Header
  <2>3. \A j : \A K : Is(j, K)' <=> Is(j, K)
    BY <1>1 DEF Is
  <2>4. \A j : Opened(j)' <=> Opened(j)
    BY <1>1 DEF Opened, Opener, Is, Latest
  <2> QED
    BY <1>1, <2>2, <2>3, <2>4 DEF Header
<1>5. want # "indent"
  BY <1>2, <1>3, <1>4 DEF Stands
<1>6. want # "bracket"
  <2>1. SUFFICES ASSUME want = "bracket" PROVE FALSE
    OBVIOUS
  <2>2. PICK b \in 1 .. Len(lines) : Is(b, {"open"})
    BY <1>1, <2>1, BracketBefore
  <2>3. Len(lines) \in DOMAIN lines
    BY ONLY <1>3, b \in 1 .. Len(lines)
  <2>4. ~Opened(Len(lines) + 1)
    BY <1>4, <2>3
  <2> QED
    BY <1>1, <2>1, <2>4, BracketOpened
<1>7. want = "statement"
  BY <1>2, <1>5, <1>6 DEF Stands
<1> QED
  BY <1>1, <1>7 DEF Doomed

-----------------------------------------------------------------------------
(***************************************************************************)
(* The lexer refuses a line.                                               *)
(***************************************************************************)
\* The columns of the stack are open in the line, and so is its own.
LEMMA DeepReject ==
  ASSUME TypeOK, Reads, NEW n \in Column, NEW k \in Kind, DeeperLine(n, k), status' = "rejected"
  PROVE  TooDeep'
<1>1. /\ NextLine(n, k) /\ k # "blank" /\ n > Top /\ Len(indents) >= MaxLevels
  <2>1. NextLine(n, k) /\ k # "blank" /\ n > Top
    BY DEF DeeperLine, Column0, Top
  <2>2. status = "reading"
    BY <2>1, LineAdded
  <2>3. ~(Len(indents) < MaxLevels)
    BY <2>2 DEF DeeperLine
  <2>4. Len(indents) \in Nat /\ MaxLevels \in Nat
    BY TypeFacts, BoundAssumption
  <2>5. Len(indents) >= MaxLevels
    BY ONLY <2>3, <2>4
  <2> QED
    BY <2>1, <2>5
<1> PICK size, L : size = Len(lines) /\ L = Len(indents)
  OBVIOUS
<1>2. /\ size \in Nat /\ DOMAIN lines' = 1 .. size + 1 /\ n \in Nat /\ DOMAIN lines = 1 .. size
  <2>1. lines' \in Seq(LineType) /\ Len(lines') = size + 1 /\ size \in Nat /\ n \in Nat
    BY <1>1, LineAdded
  <2>2. DOMAIN lines = 1 .. size
    BY TypeFacts
  <2> QED
    BY ONLY <2>1, <2>2
<1>3. /\ L \in Nat /\ L >= 1 /\ DOMAIN indents = 1 .. L /\ indents[1] = 0
      /\ \A i \in 1 .. L : indents[i] \in Nat /\ indents[i] <= Top
      /\ \A i, j \in 1 .. L : i = j <=> indents[i] = indents[j]
      /\ Top \in Nat
  BY StackFacts DEF Reads
<1> PICK m : m = size + 1
  OBVIOUS
<1>4. /\ \A j \in 1 .. size : Col(j)' = Col(j)
      /\ \A j \in 1 .. size : \A K : Is(j, K)' <=> Is(j, K)
      /\ Col(m)' = n /\ \A K : Is(m, K)' <=> k \in K
      /\ \A j \in 1 .. size : Col(j) \in Nat
  BY <1>1, EarlierLines, TypeFacts
<1>5. \A j \in 1 .. m : j \in 1 .. size \/ j = m
  BY ONLY <1>2, m = size + 1
<1>6. m \in Nat /\ m \in 1 .. m /\ m \in DOMAIN lines'
  BY ONLY <1>2, m = size + 1
<1> PICK C : C = OpenColumns(m)'
  OBVIOUS
<1>7. C = {0} \cup {Col(i)' : i \in {i \in 1 .. m : /\ ~Is(i, {"blank"})'
                                                   /\ \A q \in i .. m : Is(q, {"blank"})' \/ Col(q)' >= Col(i)'}}
  BY DEF OpenColumns
<1>8. C \subseteq Nat /\ \A c \in C : c <= n
  <2>1. ASSUME NEW c \in C PROVE c \in Nat /\ c <= n
    <3>1. CASE c = 0
      BY <1>2, <3>1
    <3>2. CASE c # 0
      <4>1. PICK i \in 1 .. m : c = Col(i)' /\ \A q \in i .. m : Is(q, {"blank"})' \/ Col(q)' >= Col(i)'
        BY <1>7, <3>2
      <4>2. m \in i .. m
        BY ONLY <1>6, i \in 1 .. m
      <4>3. ~Is(m, {"blank"})'
        BY <1>1, <1>4
      <4>4. Col(m)' >= Col(i)'
        BY <4>1, <4>2, <4>3
      <4>5. Col(i)' \in Nat
        BY <1>2, <1>4, <1>5
      <4> QED
        BY <1>2, <1>4, <4>1, <4>4, <4>5
    <3> QED
      BY <3>1, <3>2
  <2> QED
    BY <2>1
<1>9. IsFiniteSet(C) /\ Cardinality(C) \in Nat
  BY <1>2, <1>8, FS_BoundedSetOfNaturals, FS_CardinalityType
<1>10. n \in C
  <2>1. \A q \in m .. m : q = m
    BY ONLY <1>6
  <2>2. ~Is(m, {"blank"})' /\ \A q \in m .. m : Is(q, {"blank"})' \/ Col(q)' >= Col(m)'
    BY <1>1, <1>2, <1>4, <2>1
  <2> QED
    BY <1>4, <1>6, <1>7, <2>2
<1>11. \A i \in 1 .. L : indents[i] \in C
  <2> SUFFICES ASSUME NEW i \in 1 .. L
               PROVE  indents[i] \in C
    OBVIOUS
  <2>1. CASE i = 1
    BY <1>3, <1>7, <2>1
  <2>2. CASE i # 1
    <3>1. PICK l \in 1 .. size :
            /\ ~Is(l, {"blank"}) /\ Col(l) = indents[i]
            /\ \A q \in l .. size : Is(q, {"blank"}) \/ Col(q) >= Col(l)
      BY <1>2, <1>3, <2>2 DEF Reads, OpenStack
    <3>2. l \in 1 .. m /\ \A q \in l .. m : (q \in l .. size /\ q \in 1 .. size) \/ q = m
      BY ONLY <1>2, m = size + 1, l \in 1 .. size
    <3>3. Col(l)' = indents[i] /\ ~Is(l, {"blank"})' /\ n >= indents[i]
      BY <1>1, <1>2, <1>3, <1>4, <3>1
    <3>4. \A q \in l .. m : Is(q, {"blank"})' \/ Col(q)' >= Col(l)'
      BY <1>4, <3>1, <3>2, <3>3
    <3> QED
      BY <1>7, <3>2, <3>3, <3>4
  <2> QED
    BY <2>1, <2>2
<1>12. L + 1 <= Cardinality(C)
  <2> DEFINE f == [i \in 1 .. L + 1 |-> IF i \in 1 .. L THEN indents[i] ELSE n]
  <2>1. \A i \in 1 .. L + 1 : i \in 1 .. L \/ i = L + 1
    BY ONLY <1>3
  <2>2. f \in [1 .. L + 1 -> C]
    BY <1>10, <1>11
  <2>3. \A i \in 1 .. L : indents[i] # n
    BY <1>1, <1>2, <1>3
  <2>4. \A i, j \in 1 .. L + 1 : f[i] = f[j] => i = j
    BY <1>3, <2>1, <2>3
  <2> HIDE DEF f
  <2>5. f \in Injection(1 .. L + 1, C)
    BY <2>2, <2>4 DEF Injection, IsInjective
  <2>6. Cardinality(1 .. L + 1) <= Cardinality(C)
    BY <1>9, <2>5, FS_Injection
  <2>7. 1 \in Int /\ L + 1 \in Int /\ L + 1 >= 1
    BY ONLY <1>3
  <2>8. Cardinality(1 .. L + 1) = L + 1
    BY <2>7, FS_Interval
  <2> QED
    BY <2>6, <2>8
<1>13. Cardinality(OpenColumns(m)') > MaxLevels
  BY <1>1, <1>3, <1>9, <1>12, BoundAssumption
<1> QED
  BY <1>6, <1>13 DEF TooDeep

\* A line that ends on no open column is no line of a well-formed program.
LEMMA ShallowReject ==
  ASSUME TypeOK, Reads, Core, NEW n \in Column, NEW k \in Kind, ShallowerLine(n, k),
         status' = "rejected", WellFormed'
  PROVE  FALSE
<1> DEFINE kept == Cardinality({i \in DOMAIN indents : indents[i] <= n})
<1>1. /\ NextLine(n, k) /\ k # "blank" /\ n < Top /\ indents[kept] # n
  BY LineAdded DEF ShallowerLine, Column0, Top
<1>2. /\ tokens = << >> /\ ~ended /\ n \in Nat
  BY <1>1, LineAdded
<1> PICK L, size : L = Len(indents) /\ size = Len(lines)
  OBVIOUS
<1>3. /\ L \in Nat /\ DOMAIN indents = 1 .. L /\ Top = indents[L] /\ Top \in Nat
      /\ \A i \in 1 .. L : indents[i] \in Nat
      /\ \A i, j \in 1 .. L : (i < j <=> indents[i] < indents[j]) /\ (i = j <=> indents[i] = indents[j])
  BY StackFacts DEF Reads
<1>4. PICK g : /\ g \in 1 .. L /\ indents[g] # n
               /\ \A i \in 1 .. g : indents[i] <= n
               /\ \A i \in g + 1 .. L : indents[i] > n
  BY <1>1, <1>2, Kept DEF Reads
<1>5. g \in 1 .. g /\ g \in Nat /\ indents[g] < n
  <2>1. g \in 1 .. g /\ g \in Nat
    BY ONLY <1>3, <1>4
  <2> QED
    BY <1>2, <1>3, <1>4, <2>1
<1>6. g < L /\ g + 1 \in 1 .. L /\ g + 1 \in g + 1 .. L
  <2>1. g # L
    BY <1>1, <1>2, <1>3, <1>5
  <2> QED
    BY ONLY <1>3, <1>4, <2>1
<1>7. \A i \in 1 .. L : indents[i] # n
  <2>1. \A i \in 1 .. L : i \in 1 .. g \/ i \in g + 1 .. L
    BY ONLY <1>3, <1>4
  <2>2. \A i \in 1 .. g : indents[i] <= indents[g]
    <3>1. \A i \in 1 .. g : i \in 1 .. L /\ (i < g \/ i = g)
      BY ONLY <1>3, <1>4
    <3> QED
      BY <1>3, <1>4, <3>1
  <2>3. \A i \in 1 .. g : i \in 1 .. L
    BY ONLY <1>3, <1>4
  <2> QED
    BY <1>2, <1>3, <1>4, <1>5, <2>1, <2>2, <2>3
<1>8. Stands
  BY <1>2, AtLine
<1>9. Hanging'
  BY WellFormedPartsNext
<1>10. want = "bracket" <=> k \in Continuation
  BY <1>1, LineContinues
<1>11. PICK m : m = Len(lines) + 1
  OBVIOUS
<1>12. PICK o, c : o = Owner(m)' /\ c = Before(m)'
  OBVIOUS
<1>13. CASE want = "bracket"
  <2>1. /\ Len(suites) \in 1 .. Len(indents)
        /\ \E b \in 1 .. Len(lines) :
              /\ Is(b, {"open"}) /\ Col(b) = indents[Len(suites)]
              /\ \A i \in b + 1 .. Len(lines) : Is(i, {"item", "blank"})
              /\ \/ /\ \E i \in b + 1 .. Len(lines) : Is(i, {"item"})
                    /\ Len(indents) = Len(suites) + 1
                    /\ \A i \in b + 1 .. Len(lines) : Is(i, {"item"}) => Col(i) = Top
                 \/ /\ ~\E i \in b + 1 .. Len(lines) : Is(i, {"item"})
                    /\ Len(indents) = Len(suites)
    BY <1>2, <1>13, BracketBefore
  <2>2. PICK b \in 1 .. Len(lines) :
              /\ Is(b, {"open"}) /\ Col(b) = indents[Len(suites)]
              /\ \A i \in b + 1 .. Len(lines) : Is(i, {"item", "blank"})
              /\ \/ /\ \E i \in b + 1 .. Len(lines) : Is(i, {"item"})
                    /\ \A i \in b + 1 .. Len(lines) : Is(i, {"item"}) => Col(i) = Top
                 \/ Len(indents) = Len(suites)
    BY <2>1
  <2>3. /\ k = "close" => n = Col(b)
        /\ k = "item" => /\ n > Col(b)
                         /\ \A i \in b + 1 .. Len(lines) : Is(i, {"item"}) => Col(i) = n
    BY <1>1, <1>9, <1>10, <1>13, <2>2, BracketLine
  <2>4. k # "close"
    BY <1>7, <2>1, <2>2, <2>3
  <2>5. k = "item"
    BY <1>10, <1>13, <2>4 DEF Continuation
  <2>6. n = Top \/ Col(b) = Top
    BY <1>3, <2>2, <2>3, <2>5
  <2> QED
    BY <1>1, <1>2, <1>3, <2>3, <2>5, <2>6
<1>14. CASE want = "indent"
  <2>1. Suite = Len(lines) /\ Suite \in Statements /\ Is(Suite, Header) /\ Col(Suite) = Top
    BY <1>8, <1>14 DEF Stands
  <2>2. o = Suite /\ k \notin Continuation
    BY <1>1, <1>11, <1>12, <2>1, LineHeader
  <2>3. o # 0
    BY <2>1, <2>2, TypeFacts
  <2>4. Col(o) < n
    BY <1>1, <1>11, <1>12, <2>2, <2>3, LineRight
  <2> QED
    BY <1>1, <1>2, <1>3, <2>1, <2>2, <2>4
<1>15. CASE want = "statement"
  <2>1. /\ Len(suites) = L /\ Done = Statements /\ k \notin Continuation
    BY <1>8, <1>10, <1>15 DEF Stands
  <2>2. DOMAIN suites = 1 .. L
    BY <2>1, TypeFacts
  <2> PICK h : h = suites[g + 1]
    OBVIOUS
  <2>3. /\ Col(h) = indents[g] /\ \A s \in Statements : s > h => Col(s) >= indents[g + 1]
    <3>1. g \in DOMAIN indents /\ g + 1 \in DOMAIN suites /\ g + 1 \in DOMAIN indents \cap DOMAIN suites
      BY <1>3, <1>4, <1>6, <2>2
    <3> QED
      BY <2>1, <3>1 DEF Core, Heads, Owners
  <2>4. h \in Statements /\ Is(h, Header)
    <3>1. g + 1 # 1
      BY ONLY <1>4, <1>3
    <3> QED
      BY <1>6, <2>1, <2>2, <3>1 DEF Core, SuitesOK
  <2>5. /\ o # 0 => o \in Statements /\ Col(o) < n /\ \A i \in Statements : Col(i) < n => i <= o
        /\ o = 0 => n = 0
        /\ \A i \in Statements : Owner(i) = o => Col(i) = n
    BY <1>1, <1>11, <1>12, <2>1, LineRight
  <2>6. o = h
    <3>1. o # 0
      BY <1>2, <1>3, <1>4, <1>5, <2>5
    <3>2. Col(h) < n
      BY <1>5, <2>3
    <3>3. h <= o /\ o \in Nat /\ h \in Nat
      BY <2>4, <2>5, <3>1, <3>2, TypeFacts
    <3>4. ~(o > h)
      <4>1. indents[g + 1] > n /\ indents[g + 1] \in Nat
        BY <1>3, <1>4, <1>6
      <4>2. o \in Statements /\ Col(o) < n /\ Col(o) \in Nat
        BY <2>5, <3>1, TypeFacts
      <4> QED
        BY <1>2, <2>3, <4>1, <4>2
    <3> QED
      BY ONLY <3>3, <3>4
  <2>7. h < size
    <3>1. PICK s \in Statements : (\A r \in Statements : r <= s) /\ ~Is(s, Header)
      BY <1>8, <1>15, <2>4 DEF Stands
    <3>2. h # s /\ h <= s /\ s \in 1 .. size /\ h \in Nat /\ size \in Nat
      BY <2>4, <3>1, TypeFacts
    <3> QED
      BY ONLY <3>2
  <2>8. h + 1 \in Statements /\ Owner(h + 1) = h
    BY <1>1, <1>11, <2>4, <2>7, LineHeader
  <2>9. Col(h + 1) = n
    BY <2>5, <2>6, <2>8
  <2>10. Col(h + 1) >= indents[g + 1]
    <3>1. h + 1 > h
      BY <2>4, TypeFacts
    <3> QED
      BY <2>3, <2>8, <3>1
  <2> QED
    BY <1>2, <1>3, <1>4, <1>6, <2>9, <2>10
<1> QED
  BY <1>8, <1>13, <1>14, <1>15 DEF Stands

-----------------------------------------------------------------------------
(***************************************************************************)
(* Every step keeps the invariant.                                         *)
(***************************************************************************)
\* What a step that started while the parser was reading comes to.
StepKeeps ==
  /\ TypeOK'
  /\ status' # "rejected" => /\ Reads'
                             /\ Hanging' /\ ~Doomed' => Core'
                             /\ WellFormed' => ~Doomed'
  /\ status' = "accepted" => ended' /\ Len(tokens') = 1 /\ ~Doomed'
  /\ status' = "rejected" => ~WellFormed' \/ TooDeep'

LEMMA RefusedType ==
  ASSUME TypeOK, NEW n \in Column, NEW k \in Kind, NextLine(n, k),
         indents' = indents, tokens' = tokens, status' = "rejected"
  PROVE  TypeOK'
BY LineAdded DEF TypeOK

LEMMA ReadLineKeeps ==
  ASSUME TypeOK, Reads, Hanging /\ ~Doomed => Core, NEW n \in Column, NEW k \in Kind, ReadLine(n, k)
  PROVE  StepKeeps
<1>1. NextLine(n, k)
  BY DEF ReadLine, BlankLine, SameLine, DeeperLine, ShallowerLine
<1>2. status = "reading" /\ tokens = << >>
  BY <1>1, LineAdded
<1>3. Hanging' => Core
  BY <1>1, <1>2, HangingBefore, NoTokens
<1>4. WellFormed' => Hanging'
  BY WellFormedPartsNext
<1>5. CASE BlankLine(n, k)
  <2>1. LineReads /\ ~Pending' /\ ~IndentPending' /\ k = "blank"
    BY <1>5, BlankReads
  <2>2. Hanging' /\ ~Doomed' => Core'
    BY <1>3, <1>5, BlankCore
  <2>3. WellFormed' => ~Doomed'
    BY <1>1, <1>3, <1>4, <2>1, LineSafe DEF LineReads
  <2> QED
    BY <2>1, <2>2, <2>3 DEF LineReads, StepKeeps
<1>6. CASE SameLine(n, k)
  <2>1. LineReads /\ Pending' /\ ~IndentPending' /\ k # "blank" /\ n = Top
    BY <1>6, SameReads
  <2>2. Hanging' /\ ~Doomed' => Core'
    BY <1>3, <1>6, SameCore
  <2>3. WellFormed' => ~Doomed'
    BY <1>1, <1>3, <1>4, <2>1, LineSafe DEF LineReads
  <2> QED
    BY <2>1, <2>2, <2>3 DEF LineReads, StepKeeps
<1>7. CASE DeeperLine(n, k) /\ status' # "rejected"
  <2>1. LineReads /\ Pending' /\ IndentPending' /\ k # "blank" /\ n > Top
    BY <1>7, DeeperReads
  <2>2. Hanging' /\ ~Doomed' => Core'
    BY <1>3, <1>7, DeeperCore
  <2>3. WellFormed' => ~Doomed'
    BY <1>1, <1>3, <1>4, <2>1, LineSafe DEF LineReads
  <2> QED
    BY <2>1, <2>2, <2>3 DEF LineReads, StepKeeps
<1>8. CASE ShallowerLine(n, k) /\ status' # "rejected"
  <2>1. /\ LineReads /\ Pending' /\ ~IndentPending' /\ k # "blank" /\ n < Top
        /\ Len(indents') \in 1 .. Len(indents) - 1 /\ Dedents' = Len(indents) - Len(indents')
    BY <1>8, ShallowerReads
  <2>2. Dedents' # 0
    <3>1. Len(indents) \in Nat
      BY TypeFacts
    <3> QED
      BY ONLY <2>1, <3>1
  <2>3. Hanging' /\ ~Doomed' => Core'
    BY <1>3, <1>8, ShallowerCore
  <2>4. WellFormed' => ~Doomed'
    BY <1>1, <1>3, <1>4, <2>1, <2>2, LineSafe DEF LineReads
  <2> QED
    BY <2>1, <2>3, <2>4 DEF LineReads, StepKeeps
<1>9. CASE DeeperLine(n, k) /\ status' = "rejected"
  <2>1. indents' = indents /\ tokens' = tokens
    BY <1>2, <1>9 DEF DeeperLine
  <2>2. TypeOK'
    BY <1>1, <1>9, <2>1, RefusedType
  <2>3. TooDeep'
    BY <1>9, DeepReject
  <2> QED
    BY <1>9, <2>2, <2>3 DEF StepKeeps
<1>10. CASE ShallowerLine(n, k) /\ status' = "rejected"
  <2>1. indents' = indents /\ tokens' = tokens
    BY <1>2, <1>10 DEF ShallowerLine
  <2>2. TypeOK'
    BY <1>1, <1>10, <2>1, RefusedType
  <2>3. ~WellFormed'
    BY <1>3, <1>4, <1>10, ShallowReject
  <2> QED
    BY <1>10, <2>2, <2>3 DEF StepKeeps
<1> QED
  BY <1>5, <1>6, <1>7, <1>8, <1>9, <1>10 DEF ReadLine

LEMMA EndKeeps ==
  ASSUME TypeOK, Reads, Hanging /\ ~Doomed => Core, EndOfFile
  PROVE  StepKeeps
<1>1. TypeOK' /\ Reads' /\ status' = "reading" /\ lines' = lines /\ tokens = << >>
  BY EndReads
<1>2. Hanging' <=> Hanging
  BY <1>1, SameLines
<1>3. Hanging' => Core
  BY <1>1, <1>2, NoTokens
<1>4. Hanging' /\ ~Doomed' => Core'
  BY <1>3, EndCore
<1>5. WellFormed' => ~Doomed'
  BY <1>3, EndSafe, WellFormedPartsNext
<1> QED
  BY <1>1, <1>4, <1>5 DEF StepKeeps

LEMMA ParseFacts ==
  ASSUME Parse
  PROVE  /\ status = "reading" /\ lines' = lines /\ ended' = ended
         /\ status' = "accepted" => Accept
         /\ status' = "rejected" => ParseError
BY DEF Parse, SkipNewline, SimpleStatement, CompoundStatement, OpenBracket, SkipInBracket,
       CloseBracket, ExpectNewline, ExpectIndent, EndSuite, ExpectDedent, NextClause, NoClause,
       Accept, ParseError, Peeks, Consume, lexer

LEMMA ParseSteps ==
  ASSUME TypeOK, Reads, Nesting, Parse, ~ParseError
  PROVE  ParserStep /\ (Core /\ WellFormed /\ ~Doomed => ~Doomed')
<1>1. CASE SkipNewline
  BY <1>1, SkipNewlineStep
<1>2. CASE SimpleStatement \/ CompoundStatement \/ OpenBracket
  BY <1>2, StatementStep
<1>3. CASE SkipInBracket /\ Peek.kind # "item"
  BY <1>3, SkipLayoutStep
<1>4. CASE CloseBracket \/ (SkipInBracket /\ Peek.kind = "item")
  BY <1>4, BracketStep
<1>5. CASE ExpectNewline
  BY <1>5, ExpectNewlineStep
<1>6. CASE ExpectIndent
  BY <1>6, ExpectIndentStep
<1>7. CASE EndSuite
  BY <1>7, EndSuiteStep
<1>8. CASE ExpectDedent
  BY <1>8, ExpectDedentStep
<1>9. CASE NextClause
  BY <1>9, NextClauseStep
<1>10. CASE NoClause
  BY <1>10, NoClauseStep
<1>11. CASE Accept
  BY <1>11, AcceptStep
<1> QED
  BY <1>1, <1>2, <1>3, <1>4, <1>5, <1>6, <1>7, <1>8, <1>9, <1>10, <1>11 DEF Parse

LEMMA ParseKeeps ==
  ASSUME TypeOK, Reads, Nesting, Hanging /\ ~Doomed => Core, WellFormed => ~Doomed, Parse
  PROVE  StepKeeps
<1>1. /\ status = "reading" /\ lines' = lines /\ ended' = ended
      /\ status' = "accepted" => Accept
      /\ status' = "rejected" => ParseError
  BY ParseFacts
<1>2. (WellFormed' <=> WellFormed) /\ (Hanging' <=> Hanging)
  BY <1>1, SameProgram, SameLines
<1>3. WellFormed => Hanging
  BY WellFormedParts
<1>4. CASE ParseError
  <2>1. /\ Peek.kind \notin Expected /\ tokens # << >> /\ status' = "rejected"
        /\ tokens' = tokens /\ indents' = indents /\ suites' = suites /\ want' = want
        /\ last' = last /\ tree' = tree
    BY <1>4 DEF ParseError, lexer, parser
  <2>2. TypeOK'
    BY <1>1, <2>1 DEF TypeOK
  <2>3. ~WellFormed
    BY <1>3, <2>1, GoesOn
  <2> QED
    BY <1>2, <2>1, <2>2, <2>3 DEF StepKeeps
<1>5. CASE ~ParseError
  <2>1. ParserStep /\ (Core /\ WellFormed /\ ~Doomed => ~Doomed')
    BY <1>5, ParseSteps
  <2>2. TypeOK' /\ Reads' /\ status' # "rejected"
    BY <1>1, <1>5, <2>1 DEF ParserStep
  <2>3. Hanging' /\ ~Doomed' => Core'
    BY <1>2, <2>1 DEF ParserStep
  <2>4. WellFormed' => ~Doomed'
    BY <1>2, <1>3, <2>1
  <2>5. status' = "accepted" => ended' /\ Len(tokens') = 1 /\ ~Doomed'
    BY <1>1, AcceptStep
  <2> QED
    BY <2>2, <2>3, <2>4, <2>5 DEF StepKeeps
<1> QED
  BY <1>4, <1>5

LEMMA NestingKept ==
  ASSUME TypeOK, Nesting, Next
  PROVE  Nesting'
<1>1. Len(suites) \in Nat /\ suites \in Seq(Nat)
  BY TypeFacts DEF TypeOK
<1>2. CASE suites' = suites /\ want' = want
  BY <1>2 DEF Nesting
<1>3. CASE suites' = suites /\ want \in {"newline", "indent"} /\ want' \in {"indent", "statement"}
  BY <1>3 DEF Nesting
<1>4. CASE suites' = suites /\ want' \in {"statement", "bracket"}
  BY <1>4 DEF Nesting
<1>5. CASE suites' = suites /\ Len(suites) > 1
  BY <1>5 DEF Nesting
<1>6. CASE ExpectDedent
  <2>1. Len(suites) > 1 /\ suites' = SubSeq(suites, 1, Len(suites) - 1) /\ want' \in {"clause", "statement"}
    BY <1>6 DEF ExpectDedent, Peeks, Nesting
  <2>2. Len(suites) - 1 \in 0 .. Len(suites)
    BY ONLY <1>1, <2>1
  <2>3. Len(suites') = Len(suites) - 1
    BY <1>1, <2>1, <2>2, Prefix
  <2>4. Len(suites') >= 1
    BY ONLY <1>1, <2>1, <2>3
  <2> QED
    BY <2>1, <2>4 DEF Nesting
<1>7. CASE suites' = Append(suites, Peek.line)
  <2>1. Len(suites') = Len(suites) + 1
    BY <1>1, <1>7
  <2>2. Len(suites) >= 1
    BY DEF Nesting
  <2>3. Len(suites') > 1 /\ Len(suites') >= 1
    BY ONLY <1>1, <2>1, <2>2
  <2> QED
    BY <2>3 DEF Nesting
<1>8. CASE EndOfFile \/ \E n \in Column, k \in Kind : ReadLine(n, k)
  <2>1. suites' = suites /\ want' = want
    BY <1>8 DEF EndOfFile, ReadLine, BlankLine, SameLine, DeeperLine, ShallowerLine, NextLine, parser
  <2> QED
    BY <1>2, <2>1
<1>9. CASE Parse
  <2>1. \/ SkipNewline \/ SkipInBracket \/ Accept \/ ParseError => suites' = suites /\ want' = want
    BY DEF SkipNewline, SkipInBracket, Accept, ParseError, parser
  <2>2. SimpleStatement => suites' = suites /\ want' = want
    BY DEF SimpleStatement
  <2>3. OpenBracket \/ CloseBracket \/ NoClause => suites' = suites /\ want' \in {"statement", "bracket"}
    BY DEF OpenBracket, CloseBracket, NoClause
  <2>4. ExpectNewline \/ ExpectIndent =>
          suites' = suites /\ want \in {"newline", "indent"} /\ want' \in {"indent", "statement"}
    BY DEF ExpectNewline, ExpectIndent, Peeks
  <2>5. EndSuite => suites' = suites /\ Len(suites) > 1
    BY DEF EndSuite, InSuite
  <2>6. CompoundStatement \/ NextClause => suites' = Append(suites, Peek.line)
    BY DEF CompoundStatement, NextClause
  <2> QED
    BY <1>2, <1>3, <1>4, <1>5, <1>6, <1>7, <1>9, <2>1, <2>2, <2>3, <2>4, <2>5, <2>6 DEF Parse
<1> QED
  BY <1>8, <1>9 DEF Next

LEMMA Stutters ==
  ASSUME TypeOK, IInv, UNCHANGED vars
  PROVE  IInv'
<1>1. /\ lines' = lines /\ indents' = indents /\ tokens' = tokens /\ ended' = ended
      /\ suites' = suites /\ want' = want /\ last' = last /\ tree' = tree /\ status' = status
  BY DEF vars
<1>2. /\ SameText /\ (IndentPending' <=> IndentPending) /\ Dedents' = Dedents
      /\ (LineTokens <=> LineTokens') /\ (EndTokens <=> EndTokens')
  BY <1>1, Unread
<1>3. (Hanging' <=> Hanging) /\ (TooDeep' <=> TooDeep) /\ (WellFormed' <=> WellFormed)
  BY <1>1, SameLines, SameProgram
<1>4. TypeOK' /\ Nesting'
  BY <1>1 DEF IInv, TypeOK, Nesting
<1>5. Doomed' <=> Doomed
  BY <1>1, <1>2 DEF Doomed, Is, SameText
<1>6. Reads => Reads'
  <2>1. Waits => Waits'
    BY <1>1, <1>2 DEF Waits, SameText
  <2>2. TreeDomain => TreeDomain'
    BY <1>1, <1>2 DEF TreeDomain, SameText
  <2> QED
    BY <1>1, <1>2, <2>1, <2>2, ParserReads DEF Reads
<1>7. Core => Core'
  <2>1. SUFFICES ASSUME Core PROVE Core'
    OBVIOUS
  <2>2. SuitesOK' /\ Owners' /\ Heads' /\ TreeOK'
    BY <1>1, <1>2, <2>1, CoreStays DEF Core, SameText
  <2>3. LevelsOK'
    BY <1>1, <1>2, <2>1 DEF Core, LevelsOK, Levels
  <2>4. LastOK'
    BY <1>1, <1>2, <2>1 DEF Core, LastOK, Continues, SameText, Suite, Top, Col, Is
  <2>5. NewestOK'
    BY <1>1, <1>2, <2>1 DEF Core, NewestOK, Newest, SameText, Suite, Top, Col, Is, Header
  <2>6. Brackets'
    BY <1>1, <1>2, <2>1 DEF Core, Brackets, Closed, Holds, Indented, SameText, Top, Col, Is
  <2> QED
    BY <2>2, <2>3, <2>4, <2>5, <2>6 DEF Core
<1> QED
  BY <1>1, <1>3, <1>4, <1>5, <1>6, <1>7 DEF IInv, ReadsInv, CoreInv, DoomInv, AcceptInv, RejectedJustified

LEMMA Keeps ==
  ASSUME IInv, [Next]_vars
  PROVE  IInv'
<1>1. TypeOK /\ Nesting
  BY DEF IInv
<1>2. CASE UNCHANGED vars
  BY <1>1, <1>2, Stutters
<1>3. CASE Next
  <2>1. status = "reading"
    <3>1. EndOfFile => status = "reading"
      BY DEF EndOfFile, Reading
    <3>2. ASSUME NEW n \in Column, NEW k \in Kind, ReadLine(n, k) PROVE status = "reading"
      BY <3>2 DEF ReadLine, BlankLine, SameLine, DeeperLine, ShallowerLine, NextLine, Reading
    <3> QED
      BY <1>3, <3>1, <3>2, ParseFacts DEF Next
  <2>2. Reads /\ (Hanging /\ ~Doomed => Core) /\ (WellFormed => ~Doomed)
    BY <2>1 DEF IInv, ReadsInv, CoreInv, DoomInv
  <2>3. StepKeeps
    BY <1>1, <1>3, <2>2, ReadLineKeeps, EndKeeps, ParseKeeps DEF Next
  <2>4. Nesting'
    BY <1>1, <1>3, NestingKept
  <2> QED
    BY <2>3, <2>4 DEF StepKeeps, IInv, ReadsInv, CoreInv, DoomInv, AcceptInv, RejectedJustified
<1> QED
  BY <1>2, <1>3

LEMMA Starts ==
  ASSUME Init
  PROVE  IInv
<1>1. /\ lines = << >> /\ indents = <<0>> /\ tokens = << >> /\ ended = FALSE
      /\ suites = <<0>> /\ want = "statement" /\ last = 0
      /\ tree = [j \in {} |-> 0] /\ status = "reading"
  BY DEF Init
<1>2. TypeOK /\ Nesting
  <2>1. lines \in Seq(LineType) /\ tokens \in Seq(TokenType)
    BY <1>1
  <2>2. indents \in Seq(Nat) /\ suites \in Seq(Nat) /\ Len(suites) = 1
    BY <1>1
  <2>3. /\ ended \in BOOLEAN /\ last \in Nat /\ status \in {"reading", "accepted", "rejected"}
        /\ want \in {"statement", "newline", "indent", "dedent", "bracket", "clause"}
    BY <1>1
  <2>4. TypeOK
    BY ONLY <2>1, <2>2, <2>3 DEF TypeOK
  <2>5. Nesting
    BY <1>1, <2>2 DEF Nesting
  <2> QED
    BY <2>4, <2>5
<1>3. /\ Len(lines) = 0 /\ DOMAIN lines = {} /\ Len(indents) = 1 /\ DOMAIN indents = {1} /\ indents[1] = 0
      /\ Len(suites) = 1 /\ DOMAIN suites = {1} /\ suites[1] = 0
  BY <1>1
<1>4. ~Pending /\ ~IndentPending /\ Dedents = 0 /\ Seen = 0 /\ ~Doomed
  BY <1>1, <1>3, NoTokens
<1>5. Statements = {} /\ Done = {}
  BY <1>3 DEF Statements, Done
<1>6. Reads
  <2>1. Stack
    BY <1>3 DEF Stack
  <2>2. LineTokens /\ EndTokens /\ Waits
    BY <1>1, <1>4 DEF LineTokens, EndTokens, Waits
  <2>3. OpenStack
    BY <1>3 DEF OpenStack
  <2>4. TreeDomain
    BY <1>1, <1>5 DEF TreeDomain
  <2> QED
    BY <2>1, <2>2, <2>3, <2>4 DEF Reads
<1>7. Core
  <2>1. SuitesOK
    BY <1>3 DEF SuitesOK
  <2>2. LevelsOK
    BY <1>1, <1>3, <1>4 DEF LevelsOK, Levels
  <2>3. Owners /\ Heads /\ TreeOK
    BY <1>3, <1>5 DEF Owners, Heads, TreeOK
  <2>4. LastOK
    BY <1>1 DEF LastOK
  <2>5. NewestOK
    BY <1>1, <1>3, <1>5 DEF NewestOK, Top
  <2>6. Brackets
    BY <1>1, <1>4 DEF Brackets
  <2> QED
    BY <2>1, <2>2, <2>3, <2>4, <2>5, <2>6 DEF Core
<1> QED
  BY <1>1, <1>2, <1>4, <1>6, <1>7 DEF IInv, ReadsInv, CoreInv, DoomInv, AcceptInv, RejectedJustified

-----------------------------------------------------------------------------
(***************************************************************************)
(* The theorems.                                                           *)
(***************************************************************************)
\* The columns of the lexer, the suites of the parser and the tree say the
\* same of the lines read, in every state of a program with hanging brackets
\* that the parser can still accept.
THEOREM Inductive == Spec => []IInv
<1>1. Init => IInv
  BY Starts
<1>2. IInv /\ [Next]_vars => IInv'
  BY Keeps
<1> QED
  BY <1>1, <1>2, PTL DEF Spec

\* An accepted program with hanging brackets has the tree that its
\* indentation shows: no statement is lost, none is attached to the wrong
\* header, and every elif and else continues the if before it.
THEOREM Faithful == Spec => []AcceptedFaithful
<1>1. IInv => AcceptedFaithful
  <2>1. SUFFICES ASSUME IInv, status = "accepted", Hanging
                 PROVE  /\ DOMAIN tree = Statements
                        /\ \A j \in Statements : tree[j] = IF Is(j, Clause) THEN Before(j) ELSE Owner(j)
    BY DEF AcceptedFaithful
  <2>2. ended /\ ~Doomed
    BY <2>1 DEF IInv, AcceptInv
  <2>3. TypeOK /\ Reads /\ Core
    BY <2>1, <2>2 DEF IInv, ReadsInv, CoreInv
  <2>4. Seen = Len(lines)
    BY <2>2 DEF Seen, Pending
  <2>5. Done = Statements
    <3>1. \A s \in Statements : s <= Seen
      BY <2>3, <2>4, TypeFacts
    <3> QED
      BY <3>1 DEF Done
  <2> QED
    BY <2>3, <2>5 DEF Reads, TreeDomain, Core, TreeOK, Parent
<1> QED
  BY <1>1, Inductive, PTL

\* The lexer and the parser refuse no file whose layout is right and whose
\* columns fit the stack.
THEOREM Justified == Spec => []RejectedJustified
<1>1. IInv => RejectedJustified
  BY DEF IInv
<1> QED
  BY <1>1, Inductive, PTL
=============================================================================
