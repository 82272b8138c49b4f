------------------------ MODULE CleanupScopesProofs ------------------------
(***************************************************************************)
(* What CleanupScopes says of the releases a function executes holds for   *)
(* functions of any length and any nesting.                                *)
(*                                                                         *)
(* The argument is that of a compiler: the code, while it grows, can be    *)
(* annotated with the locals that hold a reference at each instruction     *)
(* (Held) and with the instructions that can be reached (Reached); both    *)
(* are consistent along every step from an instruction to the next, so the *)
(* function that runs agrees with them.                                    *)
(***************************************************************************)
EXTENDS CleanupScopes, NaturalsInduction, WellFoundedInduction, TLAPS

-----------------------------------------------------------------------------
(***************************************************************************)
(* Types.                                                                  *)
(***************************************************************************)
Operation == {"declare", "release", "take", "if", "else", "last", "end",
              "loop", "label", "next", "goto", "return"}
Instruction == [op : Operation, id : Nat, local : Nat, name : Name \cup {NULL},
                act : 0 .. 2, skips : SUBSET Nat]
SuiteKind == {"function", "if", "last", "while", "for", "with"}
SuiteType == [kind : SuiteKind, id : Nat, prior : BOOLEAN, returns : BOOLEAN]

TypeOK ==
  /\ kind \in {"none", "value", "managed"}
  /\ code \in Seq(Instruction)
  /\ locals \in Seq(Nat) /\ starts \in Seq(Nat) /\ loops \in Seq(Nat)
  /\ suites \in Seq(SuiteType)
  /\ pc \in Nat /\ refs \in Seq(Nat) /\ action \in 0 .. 2 /\ result \in Nat

Size  == Len(code)
Depth == Len(suites)

-----------------------------------------------------------------------------
(***************************************************************************)
(* What the generator keeps.                                               *)
(***************************************************************************)
IsLoop(s)  == s.kind \in {"while", "for"}
IsChain(s) == s.kind \in {"if", "last"}
Has(k, op, id) == code[k].op = op /\ code[k].id = id

\* Nothing runs before the code is complete, and then it ends in a return.
Halves ==
  /\ suites # << >> => pc = 0 /\ refs = << >> /\ action = 0 /\ result = 0 /\ bad = {} /\ leaked = {}
  /\ suites = << >> => /\ locals = << >> /\ Size > 0 /\ code[Size].op = "return"
                       /\ pc \in 0 .. Size /\ Len(refs) = Size

\* The suites around the current statement, each with the instruction that
\* opened it and the number of locals there were.
Suites ==
  /\ Len(starts) = Depth
  /\ suites # << >> => starts[1] = 0 /\ suites[1].kind = "function" /\ suites[1].id = 0
  /\ \A i \in 1 .. Depth :
       /\ starts[i] <= Len(locals)
       /\ i > 1 => suites[i].kind # "function" /\ suites[i].id \in 1 .. Size
       /\ IsChain(suites[i]) => Has(suites[i].id, "if", suites[i].id)
       /\ IsLoop(suites[i]) => Has(suites[i].id, "loop", suites[i].id)
       /\ suites[i].kind = "for" => suites[i].id > 1 /\ code[suites[i].id - 1].name = NULL
  /\ \A i, j \in 1 .. Depth : i < j => starts[i] <= starts[j] /\ suites[i].id < suites[j].id

\* Two registered locals of one name belong to different scopes.
Locals ==
  /\ \A j \in 1 .. Len(locals) : locals[j] \in 1 .. Size /\ code[locals[j]].name \in Name
  /\ \A j, k \in 1 .. Len(locals) : j < k => locals[j] < locals[k]
  /\ \A j, k \in 1 .. Len(locals) :
       j < k /\ code[locals[j]].name = code[locals[k]].name =>
         \E i \in 1 .. Depth : j <= starts[i] /\ starts[i] < k

Loops ==
  /\ \A i \in 1 .. Depth : IsLoop(suites[i]) => \E m \in 1 .. Len(loops) : loops[m] = suites[i].id
  /\ \A m \in 1 .. Len(loops) : \E i \in 1 .. Depth : IsLoop(suites[i]) /\ suites[i].id = loops[m]
  /\ \A m, p \in 1 .. Len(loops) : m < p => loops[m] < loops[p]

\* Each chain and each loop is open, or has the one end, or label and test,
\* that jumps go to.
Open(k) == \E i \in 1 .. Depth : (IsChain(suites[i]) \/ IsLoop(suites[i])) /\ suites[i].id = k
Marks   == {"end", "label", "next"}
Jumps   == {"else", "last", "goto"}
Marked(op, id) == \E e \in 1 .. Size : Has(e, op, id)
Targets ==
  /\ \A k \in 1 .. Size : code[k].op \in {"if", "loop"} => code[k].id = k
  /\ \A k \in 1 .. Size : code[k].op = "if" => Open(k) \/ Marked("end", k)
  /\ \A k \in 1 .. Size : code[k].op = "loop" => Open(k) \/ (Marked("label", k) /\ Marked("next", k))
  /\ \A k \in 1 .. Size : code[k].op \in {"else", "last", "end"} =>
       code[k].id \in 1 .. k - 1 /\ code[code[k].id].op = "if"
  /\ \A k \in 1 .. Size : code[k].op \in {"goto", "label", "next"} =>
       code[k].id \in 1 .. k - 1 /\ code[code[k].id].op = "loop"
  /\ \A k \in 1 .. Size : code[k].op \in Marks => ~Open(code[k].id)
  /\ \A j, k \in 1 .. Size : code[k].op \in Marks /\ Has(j, code[k].op, code[k].id) => j = k
  /\ \A j, k \in 1 .. Size : code[j].op \in Jumps /\ code[k].op \in Marks /\ code[j].id = code[k].id => j < k

Shape == TypeOK /\ Halves /\ Suites /\ Locals /\ Loops /\ Targets

-----------------------------------------------------------------------------
(***************************************************************************)
(* The locals that hold a reference at each instruction: A[k] are those    *)
(* held when instruction k is reached by falling into it.                  *)
(***************************************************************************)
Kept(i)  == IF i = Depth THEN Len(locals) ELSE starts[i + 1]
First(m) == {d \in Nat : \E j \in 1 .. m : d = locals[j]}
Iter(i)  == {d \in Nat : \E j \in 1 .. i : suites[j].kind = "for" /\ d = suites[j].id - 1}
Base(i)  == First(starts[i]) \cup Iter(i)
Own(i)   == First(Kept(i)) \cup Iter(i)

\* From k on there are releases, then the return r that hands over v: the
\* releases of v name v and no local that hides it.
Leaves(k, r, v, A) ==
  /\ r \in k .. Size /\ code[r].op = "return" /\ v \notin A[r]
  /\ \A j \in k .. r - 1 : code[j].op = "release" /\ (code[j].local = v => code[j].id = v)

\* What a goto g of a loop may bring to the label, where the locals in held
\* are: what it skips, and what is declared behind it.
Brings(A, g, held) ==
  /\ A[g] \subseteq held \cup code[g].skips
  /\ \A d \in held : d \in A[g] \/ d > g

\* Between the label of a loop and its test k there are only releases, one
\* for every local of the iteration.
Clears(A, k, head) ==
  \E L \in 1 .. k - 1 :
    /\ Has(L, "label", head)
    /\ \A j \in L + 1 .. k - 1 : code[j].op = "release"
    /\ \A d \in A[L] : d > head => \E r \in L .. k - 1 : code[r].op = "release" /\ code[r].local = d

EdgeDeclare(A, k) == code[k].op = "declare" => A[k + 1] = A[k] \cup {k}
EdgeRelease(A, k) == code[k].op = "release" =>
  code[k].local \in A[k] /\ A[k + 1] = A[k] \ {code[k].local} /\ code[k].id \notin A[k + 1]
EdgeTake(A, k) == code[k].op = "take" =>
  /\ code[k].id \in A[k] /\ A[k + 1] = A[k]
  /\ \E r \in 1 .. Size : Leaves(k + 1, r, code[k].id, A)
EdgePass(A, k) == code[k].op \in {"if", "loop", "label", "end"} => A[k + 1] = A[k]
EdgeBack(A, k) == code[k].op \in {"else", "last", "end", "next"} =>
  A[k] = A[code[k].id] /\ A[k + 1] = A[k]
EdgeLabel(A, k) == code[k].op = "label" =>
  \A g \in 1 .. k - 1 : Has(g, "goto", code[k].id) => Brings(A, g, A[k])
EdgeNext(A, k) == code[k].op = "next" => Clears(A, k, code[k].id)
EdgeReturn(A, k) == code[k].op = "return" => A[k] \subseteq code[k].skips
Edge(A, k) ==
  /\ EdgeDeclare(A, k) /\ EdgeRelease(A, k) /\ EdgeTake(A, k) /\ EdgePass(A, k)
  /\ EdgeBack(A, k) /\ EdgeLabel(A, k) /\ EdgeNext(A, k) /\ EdgeReturn(A, k)

HeldInside(A) ==
  /\ suites # << >> => A[Size + 1] = Own(Depth)
  /\ \A i \in 1 .. Depth : IsChain(suites[i]) \/ IsLoop(suites[i]) => A[suites[i].id] = Base(i)
  /\ \A i \in 1 .. Depth, g \in 1 .. Size :
       IsLoop(suites[i]) /\ Has(g, "goto", suites[i].id) => Brings(A, g, Own(i))
Held(A) ==
  /\ A[1] = {}
  /\ \A k \in 1 .. Size + 1 : A[k] \subseteq 1 .. k - 1
  /\ \A k \in 1 .. Size : Edge(A, k)
  /\ HeldInside(A)

-----------------------------------------------------------------------------
(***************************************************************************)
(* The instructions that can be reached: those of R.                       *)
(***************************************************************************)
Dead(i) == \E k \in 1 .. i : suites[k].returns

ArrivesNext(R, k) ==
  /\ code[k].op \notin {"else", "last", "goto", "return"} /\ k \in R => k + 1 \in R
  /\ code[k].op \in {"else", "last", "next"} /\ code[k].id \in R => k + 1 \in R
  /\ code[k].op = "next" /\ k \in R => code[k].id \in R
ArrivesEnd(R, k) == code[k].op = "end" =>
  /\ \A j \in 1 .. k - 1 : code[j].op \in {"else", "last"} /\ code[j].id = code[k].id /\ j \in R => k \in R
  /\ code[k].id \in R /\ (\A j \in 1 .. k - 1 : code[j] # Instr("last", code[k].id)) => k \in R
ArrivesLabel(R, k) == code[k].op = "label" =>
  \A g \in 1 .. k - 1 : Has(g, "goto", code[k].id) /\ g \in R => k \in R
Arrives(R, k) == ArrivesNext(R, k) /\ ArrivesEnd(R, k) /\ ArrivesLabel(R, k)

ReachedChain(R, i) ==
  /\ suites[i].kind = "last" => \E j \in 1 .. Size : code[j] = Instr("last", suites[i].id)
  /\ \A j \in 1 .. Size : code[j].op \in {"else", "last"} /\ code[j].id = suites[i].id /\ j \in R =>
       ~suites[i].prior /\ ~Dead(i - 1)
ReachedLoop(R, i) ==
  \A g \in 1 .. Size : Has(g, "goto", suites[i].id) /\ g \in R => ~Dead(i - 1)
ReachedInside(R) ==
  /\ suites # << >> => (Size + 1 \in R <=> ~Dead(Depth))
  /\ suites = << >> => (Size \in R => kind = "none")
  /\ \A i \in 1 .. Depth : IsChain(suites[i]) \/ IsLoop(suites[i]) => (suites[i].id \in R <=> ~Dead(i - 1))
  /\ \A i \in 1 .. Depth : IsChain(suites[i]) => ReachedChain(R, i)
  /\ \A i \in 1 .. Depth : IsLoop(suites[i]) => ReachedLoop(R, i)
Reached(R) ==
  /\ 1 \in R
  /\ \A k \in 1 .. Size : Arrives(R, k)
  /\ ReachedInside(R)

-----------------------------------------------------------------------------
(***************************************************************************)
(* The function that runs agrees with both.                                *)
(***************************************************************************)
\* A jump has passed the declaration of d, and its release is still ahead.
Late(d, k) ==
  /\ LateDeclared(d)
  /\ \E L \in 1 .. k, n \in k + 1 .. Size :
       /\ code[L].op = "label" /\ code[L].id < d /\ Has(n, "next", code[L].id)
       /\ \A j \in L + 1 .. n - 1 : code[j].op = "release"
Explained(d) ==
  \/ \E e \in 1 .. Size : d \in code[e].skips
  \/ \E k \in 1 .. Size : Shadowed(k) /\ code[k].local = d
Hidden(d) == \E k \in 1 .. Size : Shadowed(k) /\ code[k].id = d

OneEach(A) ==
  /\ \A d \in A[pc] : refs[d] > 0 \/ Late(d, pc)
  /\ \A d \in 1 .. Size : d # result => refs[d] <= 1 /\ (refs[d] > 0 /\ d \notin A[pc] => Explained(d))
OneOver(A) == result # 0 =>
  /\ result \in 1 .. Size
  /\ \E r \in 1 .. Size : Leaves(pc, r, result, A)
  /\ Hidden(result) \/ refs[result] = (IF result \in A[pc] THEN 2 ELSE 1)
Counts(A) == pc # 0 => OneEach(A) /\ OneOver(A)

Outcome == ReleasesSound /\ LeaksExplained /\ ResultOwned

IInv ==
  /\ Shape /\ Outcome
  /\ \E A : Held(A) /\ Counts(A)
  /\ \E R : Reached(R) /\ (pc # 0 => pc \in R)

-----------------------------------------------------------------------------
(***************************************************************************)
(* Sequences.                                                              *)
(***************************************************************************)
LEMMA Concat ==
  ASSUME NEW S, NEW s \in Seq(S), NEW t \in Seq(S)
  PROVE  /\ s \o t \in Seq(S) /\ Len(s \o t) = Len(s) + Len(t) /\ Len(s) \in Nat /\ Len(t) \in Nat
         /\ \A k \in 1 .. Len(s) : (s \o t)[k] = s[k]
         /\ \A k \in 1 .. Len(t) : (s \o t)[Len(s) + k] = t[k]
<1>1. s \o t \in Seq(S) /\ Len(s \o t) = Len(s) + Len(t) /\ Len(s) \in Nat /\ Len(t) \in Nat
  OBVIOUS
<1>2. \A k \in 1 .. Len(s) : (s \o t)[k] = s[k]
  BY <1>1
<1>3. \A k \in 1 .. Len(t) : (s \o t)[Len(s) + k] = t[k]
  BY <1>1
<1> QED
  BY <1>1, <1>2, <1>3

LEMMA Added ==
  ASSUME NEW S, NEW s \in Seq(S), NEW x \in S
  PROVE  /\ Append(s, x) \in Seq(S) /\ Len(Append(s, x)) = Len(s) + 1 /\ Len(s) \in Nat
         /\ \A k \in 1 .. Len(s) : Append(s, x)[k] = s[k]
         /\ Append(s, x)[Len(s) + 1] = x
OBVIOUS

LEMMA Single ==
  ASSUME NEW S, NEW x \in S
  PROVE  <<x>> \in Seq(S) /\ Len(<<x>>) = 1 /\ <<x>>[1] = x
OBVIOUS

LEMMA Prefix ==
  ASSUME NEW S, NEW s \in Seq(S), NEW m \in 0 .. Len(s)
  PROVE  /\ SubSeq(s, 1, m) \in Seq(S) /\ Len(SubSeq(s, 1, m)) = m
         /\ \A k \in 1 .. m : SubSeq(s, 1, m)[k] = s[k]
OBVIOUS

LEMMA WithoutLast ==
  ASSUME NEW S, NEW s \in Seq(S), s # << >>
  PROVE  /\ ButLast(s) \in Seq(S) /\ Len(ButLast(s)) = Len(s) - 1 /\ Len(s) \in Nat \ {0}
         /\ \A k \in 1 .. Len(s) - 1 : ButLast(s)[k] = s[k]
         /\ LastOf(s) = s[Len(s)] /\ LastOf(s) \in S
<1>1. Len(s) \in Nat \ {0} /\ Len(s) - 1 \in 0 .. Len(s)
  OBVIOUS
<1>2. s[Len(s)] \in S
  BY <1>1
<1> QED
  BY <1>1, <1>2, Prefix DEF ButLast, LastOf

LEMMA Smallest ==
  ASSUME NEW T \in SUBSET Nat, T # {}
  PROVE  \E x \in T : \A y \in T : x <= y
<1> DEFINE R == OpToRel(<, Nat)
<1>1. IsWellFoundedOn(R, Nat)
  BY NatLessThanWellFounded
<1>2. PICK x \in T : \A y \in T : ~ (<<y, x>> \in R)
  BY <1>1, WFMin
<1>3. \A y \in T : ~(y < x)
  BY <1>2 DEF OpToRel
<1> QED
  BY <1>3

LEMMA Largest ==
  ASSUME NEW m \in Nat, NEW T \in SUBSET (1 .. m), T # {}
  PROVE  \E x \in T : \A y \in T : y <= x
<1> DEFINE U == {m - x : x \in T}
<1>1. U \in SUBSET Nat /\ U # {}
  <2>1. \A x \in T : m - x \in Nat
    OBVIOUS
  <2> QED
    BY <2>1
<1>2. PICK u \in U : \A y \in U : u <= y
  BY <1>1, Smallest
<1>3. PICK x \in T : u = m - x
  BY <1>2
<1>4. \A y \in T : m - x <= m - y
  BY <1>2, <1>3
<1> QED
  BY <1>4

-----------------------------------------------------------------------------
(***************************************************************************)
(* Names and releases.                                                     *)
(***************************************************************************)
LEMMA Types ==
  ASSUME TypeOK
  PROVE  /\ Size \in Nat /\ Depth \in Nat /\ Len(locals) \in Nat /\ Len(loops) \in Nat /\ Len(starts) \in Nat
         /\ \A k \in 1 .. Size : code[k] \in Instruction
         /\ \A i \in 1 .. Depth : suites[i] \in SuiteType
         /\ \A j \in 1 .. Len(locals) : locals[j] \in Nat
         /\ \A i \in 1 .. Len(starts) : starts[i] \in Nat
         /\ \A m \in 1 .. Len(loops) : loops[m] \in Nat
         /\ DOMAIN code = 1 .. Size /\ DOMAIN locals = 1 .. Len(locals) /\ DOMAIN suites = 1 .. Depth
         /\ (suites = << >> <=> Depth = 0) /\ (loops = << >> <=> Len(loops) = 0)
<1> USE DEF TypeOK, Size, Depth
<1>1. Size \in Nat /\ Depth \in Nat /\ Len(locals) \in Nat /\ Len(loops) \in Nat /\ Len(starts) \in Nat
  OBVIOUS
<1>2. (\A k \in 1 .. Size : code[k] \in Instruction) /\ (\A i \in 1 .. Depth : suites[i] \in SuiteType)
  OBVIOUS
<1>3. /\ \A j \in 1 .. Len(locals) : locals[j] \in Nat
      /\ \A i \in 1 .. Len(starts) : starts[i] \in Nat
      /\ \A m \in 1 .. Len(loops) : loops[m] \in Nat
  OBVIOUS
<1>4. DOMAIN code = 1 .. Size /\ DOMAIN locals = 1 .. Len(locals) /\ DOMAIN suites = 1 .. Depth
  OBVIOUS
<1>5. (suites = << >> <=> Depth = 0) /\ (loops = << >> <=> Len(loops) = 0)
  OBVIOUS
<1> QED
  BY <1>1, <1>2, <1>3, <1>4, <1>5

\* A C identifier denotes the last registered local of that name.
LEMMA VisibleLocal ==
  ASSUME TypeOK, NEW n, InScope(n) # {}
  PROVE  \E v \in 1 .. Len(locals) : /\ Visible(n) = locals[v] /\ code[locals[v]].name = n
                                     /\ \A j \in InScope(n) : j <= v
<1>1. InScope(n) \in SUBSET (1 .. Len(locals)) /\ Len(locals) \in Nat
  BY Types DEF InScope
<1>2. \E x \in InScope(n) : \A y \in InScope(n) : y <= x
  BY <1>1, Largest
<1> DEFINE v == CHOOSE k \in InScope(n) : \A j \in InScope(n) : j <= k
<1>3. v \in InScope(n) /\ \A j \in InScope(n) : j <= v
  BY <1>2
<1>4. v \in 1 .. Len(locals) /\ code[locals[v]].name = n
  BY <1>1, <1>3 DEF InScope
<1>5. Visible(n) = locals[v]
  BY DEF Visible
<1> QED
  BY <1>3, <1>4, <1>5

\* A release of the j-th local: the name in it may be a later local's.
IsRelease(r, j) ==
  /\ r \in Instruction /\ r.op = "release" /\ r.local = locals[j] /\ r.skips = {}
  /\ r.id = Visible(code[locals[j]].name)
  /\ \E v \in j .. Len(locals) : r.id = locals[v]

LEMMA ReleaseLocal ==
  ASSUME TypeOK, NEW j \in 1 .. Len(locals)
  PROVE  IsRelease(Release(locals[j]), j)
<1> DEFINE n == code[locals[j]].name
           x == Visible(n)
<1>1. j \in InScope(n)
  BY Types DEF InScope
<1>2. PICK v \in 1 .. Len(locals) : x = locals[v] /\ \A i \in InScope(n) : i <= v
  BY <1>1, VisibleLocal
<1>3. v \in j .. Len(locals) /\ x \in Nat /\ locals[j] \in Nat
  BY <1>1, <1>2, Types
<1> HIDE DEF n, x
<1>4. Instr("release", x) \in Instruction
  BY <1>3 DEF Instr, Instruction, Operation
<1>5. Release(locals[j]) = [Instr("release", x) EXCEPT !.local = locals[j]]
  BY DEF Release, n, x
<1>6. /\ Release(locals[j]) \in Instruction
      /\ Release(locals[j]).op = "release" /\ Release(locals[j]).local = locals[j]
      /\ Release(locals[j]).skips = {} /\ Release(locals[j]).id = x
  BY <1>3, <1>4, <1>5 DEF Instr, Instruction, Operation
<1> QED
  BY <1>2, <1>3, <1>6 DEF IsRelease, n, x

LEMMA ReleaseList ==
  ASSUME TypeOK, NEW m \in 0 .. Len(locals)
  PROVE  /\ Releases(m) \in Seq(Instruction) /\ Len(Releases(m)) = Len(locals) - m
         /\ \A p \in 1 .. Len(locals) - m :
              Len(locals) + 1 - p \in m + 1 .. Len(locals) /\ IsRelease(Releases(m)[p], Len(locals) + 1 - p)
<1>1. Len(locals) \in Nat /\ Len(locals) - m \in Nat
  BY Types
<1>2. \A p \in 1 .. Len(locals) - m : Len(locals) + 1 - p \in m + 1 .. Len(locals) /\ Len(locals) + 1 - p \in 1 .. Len(locals)
  BY <1>1
<1>3. \A p \in 1 .. Len(locals) - m : IsRelease(Release(locals[Len(locals) + 1 - p]), Len(locals) + 1 - p)
  BY <1>2, ReleaseLocal
<1>4. \A p \in 1 .. Len(locals) - m : Release(locals[Len(locals) + 1 - p]) \in Instruction
  BY <1>3 DEF IsRelease
<1>5. Releases(m) = [p \in 1 .. Len(locals) - m |-> Release(locals[Len(locals) + 1 - p])]
  BY DEF Releases
<1>6. Releases(m) \in Seq(Instruction) /\ Len(Releases(m)) = Len(locals) - m
  BY <1>1, <1>4, <1>5
<1>7. \A p \in 1 .. Len(locals) - m : Releases(m)[p] = Release(locals[Len(locals) + 1 - p])
  BY <1>5
<1> QED
  BY <1>2, <1>3, <1>6, <1>7

-----------------------------------------------------------------------------
(***************************************************************************)
(* What a step of the generator does to the suites and the locals.         *)
(***************************************************************************)
Grown == /\ code' \in Seq(Instruction) /\ Size' \in Nat /\ Size <= Size'
         /\ \A k \in 1 .. Size : code'[k] = code[k]
Emits(q, m) == \A p \in 1 .. Len(locals) - m :
  Len(locals) + 1 - p \in m + 1 .. Len(locals) /\ IsRelease(code'[q + p], Len(locals) + 1 - p)

SameBlock(s, t) ==
  /\ s.id = t.id /\ (IsLoop(s) <=> IsLoop(t)) /\ (IsChain(s) <=> IsChain(t))
  /\ (s.kind = "for" <=> t.kind = "for") /\ (s.kind = "function" <=> t.kind = "function")

\* At least the first m locals stay.
LocalsFrom(m) ==
  /\ locals' \in Seq(Nat) /\ Len(locals') \in Nat /\ m <= Len(locals')
  /\ \A j \in 1 .. Len(locals) : j <= Len(locals') => locals'[j] = locals[j]

SuitesFrame ==
  /\ Depth \in Nat \ {0} /\ Depth' \in Nat \ {0} /\ Depth' <= Depth + 1 /\ Depth <= Depth' + 1
  /\ suites' \in Seq(SuiteType)
  /\ \A i \in 1 .. Depth : i < Depth' => suites'[i] = suites[i]
  /\ Depth' <= Depth => SameBlock(suites'[Depth'], suites[Depth'])

StartsFrame ==
  /\ starts' \in Seq(Nat) /\ Len(starts') = Depth'
  /\ \A i \in 1 .. Depth : i <= Depth' => starts'[i] = starts[i]
  /\ Depth' > Depth => starts'[Depth'] = Len(locals) /\ LocalsFrom(Len(locals))
  /\ Depth' = Depth => LocalsFrom(starts[Depth])
  /\ Depth' < Depth => LocalsFrom(starts[Depth]) /\ Len(locals') = starts[Depth]

Frame == SuitesFrame /\ StartsFrame /\ kind' = kind /\ run' = run

LEMMA Inside ==
  ASSUME Shape, suites # << >>
  PROVE  /\ Depth \in Nat \ {0} /\ Len(starts) = Depth /\ starts \in Seq(Nat) /\ suites \in Seq(SuiteType)
         /\ starts # << >> /\ LastOf(starts) = starts[Depth] /\ LastOf(suites) = suites[Depth]
         /\ starts[Depth] \in 0 .. Len(locals) /\ Len(locals) \in Nat /\ Depth \in 1 .. Depth
         /\ suites[Depth] \in SuiteType /\ starts[1] = 0 /\ suites[1].kind = "function"
<1>1. TypeOK /\ Suites
  BY DEF Shape
<1>2. Depth \in Nat \ {0} /\ Len(starts) = Depth /\ starts \in Seq(Nat) /\ suites \in Seq(SuiteType)
  BY <1>1, Types DEF TypeOK, Suites
<1>3. starts # << >> /\ LastOf(starts) = starts[Depth] /\ LastOf(suites) = suites[Depth]
  BY <1>2 DEF LastOf, Depth
<1>4. Depth \in 1 .. Depth /\ starts[Depth] <= Len(locals) /\ starts[Depth] \in Nat /\ Len(locals) \in Nat
  BY <1>1, <1>2, Types DEF Suites
<1> QED
  BY <1>1, <1>2, <1>3, <1>4, Types DEF Suites

LEMMA FrameEnter ==
  ASSUME Shape, suites # << >>, NEW k \in SuiteKind, NEW id \in Nat, NEW prior \in BOOLEAN,
         Enter(k, id, prior, starts), LocalsFrom(Len(locals)), kind' = kind, run' = run
  PROVE  /\ Frame /\ Depth' = Depth + 1
         /\ suites'[Depth + 1] = Suite(k, id, prior) /\ Suite(k, id, prior) \in SuiteType
<1>1. Suite(k, id, prior) \in SuiteType
  BY DEF Suite, SuiteType
<1>2. /\ suites' \in Seq(SuiteType) /\ Depth' = Depth + 1 /\ suites'[Depth + 1] = Suite(k, id, prior)
      /\ \A i \in 1 .. Depth : suites'[i] = suites[i]
  BY <1>1, Inside, Added DEF Enter, Depth
<1>3. /\ starts' \in Seq(Nat) /\ Len(starts') = Depth + 1 /\ starts'[Depth + 1] = Len(locals)
      /\ \A i \in 1 .. Depth : starts'[i] = starts[i]
  BY Inside, Added DEF Enter
<1>4. SuitesFrame
  BY <1>2, Inside DEF SuitesFrame
<1>5. StartsFrame
  BY <1>2, <1>3, Inside DEF StartsFrame
<1> QED
  BY <1>1, <1>2, <1>4, <1>5 DEF Frame

LEMMA FrameStay ==
  ASSUME Shape, suites # << >>, suites' \in Seq(SuiteType), Depth' = Depth,
         \A i \in 1 .. Depth : i < Depth => suites'[i] = suites[i],
         SameBlock(suites'[Depth], suites[Depth]),
         starts' = starts, LocalsFrom(starts[Depth]), kind' = kind, run' = run
  PROVE  Frame
<1>1. SuitesFrame
  BY Inside DEF SuitesFrame
<1>2. StartsFrame
  BY Inside DEF StartsFrame
<1> QED
  BY <1>1, <1>2 DEF Frame

LEMMA FrameLeave ==
  ASSUME Shape, suites # << >>, LastOf(suites).kind # "function", NEW returns \in BOOLEAN,
         Leave(returns), PopScope, starts' = ButLast(starts), kind' = kind, run' = run
  PROVE  /\ Frame /\ Depth > 1 /\ Depth' = Depth - 1 /\ locals' = SubSeq(locals, 1, starts[Depth])
         /\ suites'[Depth - 1].returns = (suites[Depth - 1].returns \/ returns)
         /\ suites'[Depth - 1].kind = suites[Depth - 1].kind
         /\ suites'[Depth - 1].prior = suites[Depth - 1].prior
<1>1. Depth > 1
  BY Inside
<1> DEFINE s == ButLast(suites)
<1>2. s \in Seq(SuiteType) /\ Len(s) = Depth - 1 /\ \A i \in 1 .. Depth - 1 : s[i] = suites[i]
  BY Inside, WithoutLast DEF Depth
<1> HIDE DEF s
<1>3. suites' = [s EXCEPT ![Depth - 1].returns = s[Depth - 1].returns \/ returns]
  BY DEF Leave, Depth, s
<1>4. s[Depth - 1] \in SuiteType /\ Depth - 1 \in 1 .. Depth - 1 /\ DOMAIN s = 1 .. Depth - 1
  BY <1>1, <1>2, Inside
<1> DEFINE u == [s[Depth - 1] EXCEPT !.returns = s[Depth - 1].returns \/ returns]
<1>5. u \in SuiteType /\ u.kind = s[Depth - 1].kind /\ u.id = s[Depth - 1].id /\ u.prior = s[Depth - 1].prior
      /\ u.returns = (s[Depth - 1].returns \/ returns)
  BY <1>4 DEF SuiteType
<1>6. suites' = [s EXCEPT ![Depth - 1] = u]
  BY <1>3
<1> HIDE DEF u
<1>7. suites' \in Seq(SuiteType) /\ Len(suites') = Depth - 1 /\ suites'[Depth - 1] = u
      /\ \A i \in 1 .. Depth - 1 : i # Depth - 1 => suites'[i] = s[i]
  BY <1>2, <1>4, <1>5, <1>6
<1>8. locals \in Seq(Nat) /\ locals' = SubSeq(locals, 1, starts[Depth])
  BY Inside DEF PopScope, Shape, TypeOK
<1>9. LocalsFrom(starts[Depth]) /\ Len(locals') = starts[Depth]
  BY <1>8, Inside, Prefix DEF LocalsFrom
<1>10. starts' \in Seq(Nat) /\ Len(starts') = Depth - 1 /\ \A i \in 1 .. Depth - 1 : starts'[i] = starts[i]
  BY Inside, WithoutLast
<1>11. SuitesFrame
  <2>1. Depth' = Depth - 1 /\ Depth - 1 \in Nat \ {0}
    BY <1>1, <1>7, Inside DEF Depth
  <2>2. SameBlock(suites'[Depth - 1], suites[Depth - 1])
    BY <1>2, <1>4, <1>5, <1>7 DEF SameBlock, IsLoop, IsChain
  <2>3. \A i \in 1 .. Depth : i < Depth - 1 => suites'[i] = suites[i]
    BY <1>2, <1>7, Inside
  <2> QED
    BY <1>1, <1>7, <2>1, <2>2, <2>3, Inside DEF SuitesFrame
<1>12. Depth' = Depth - 1
  BY <1>7 DEF Depth
<1>13. StartsFrame
  BY <1>1, <1>9, <1>10, <1>12, Inside DEF StartsFrame
<1> QED
  BY <1>1, <1>2, <1>4, <1>5, <1>7, <1>8, <1>11, <1>12, <1>13 DEF Frame

-----------------------------------------------------------------------------
(***************************************************************************)
(* What each action emits.                                                 *)
(***************************************************************************)
LEMMA Concat3 ==
  ASSUME NEW S, NEW s \in Seq(S), NEW t \in Seq(S), NEW u \in Seq(S)
  PROVE  /\ s \o t \o u \in Seq(S) /\ Len(s \o t \o u) = Len(s) + Len(t) + Len(u)
         /\ Len(s) \in Nat /\ Len(t) \in Nat /\ Len(u) \in Nat
         /\ \A k \in 1 .. Len(s) : (s \o t \o u)[k] = s[k]
         /\ \A k \in 1 .. Len(t) : (s \o t \o u)[Len(s) + k] = t[k]
         /\ \A k \in 1 .. Len(u) : (s \o t \o u)[Len(s) + Len(t) + k] = u[k]
<1> DEFINE c == s \o t
<1>1. /\ c \in Seq(S) /\ Len(c) = Len(s) + Len(t) /\ Len(s) \in Nat /\ Len(t) \in Nat
      /\ \A k \in 1 .. Len(s) : c[k] = s[k]
      /\ \A k \in 1 .. Len(t) : c[Len(s) + k] = t[k]
  BY Concat
<1> HIDE DEF c
<1>2. /\ c \o u \in Seq(S) /\ Len(c \o u) = Len(c) + Len(u) /\ Len(u) \in Nat
      /\ \A k \in 1 .. Len(c) : (c \o u)[k] = c[k]
      /\ \A k \in 1 .. Len(u) : (c \o u)[Len(c) + k] = u[k]
  <2>1. c \in Seq(S)
    BY <1>1
  <2> QED
    BY ONLY <2>1, u \in Seq(S), Concat
<1>3. \A k \in 1 .. Len(s) : (c \o u)[k] = s[k]
  BY <1>1, <1>2
<1>4. \A k \in 1 .. Len(t) : (c \o u)[Len(s) + k] = t[k]
  <2> TAKE k \in 1 .. Len(t)
  <2>1. Len(s) + k \in 1 .. Len(c)
    BY <1>1
  <2> QED
    BY <1>1, <1>2, <2>1
<1> QED
  BY <1>1, <1>2, <1>3, <1>4 DEF c

LEMMA Made ==
  ASSUME NEW op \in Operation, NEW id \in Nat
  PROVE  /\ Instr(op, id) \in Instruction /\ Instr(op, id).op = op /\ Instr(op, id).id = id
         /\ Instr(op, id).local = id /\ Instr(op, id).skips = {} /\ Instr(op, id).name = NULL
  BY DEF Instr, Instruction

LEMMA MadeDeclaration ==
  ASSUME NEW n \in Name \cup {NULL}
  PROVE  /\ Declaration(n) \in Instruction /\ Declaration(n).op = "declare"
         /\ Declaration(n).name = n /\ Declaration(n).skips = {}
  BY DEF Declaration, Instr, Instruction, Operation

LEMMA GrowOne ==
  ASSUME TypeOK, NEW x \in Instruction, code' = Append(code, x)
  PROVE  Grown /\ Size' = Size + 1 /\ code'[Size + 1] = x
<1>1. code \in Seq(Instruction) /\ Size \in Nat
  BY Types DEF TypeOK
<1> QED
  BY <1>1, Added DEF Grown, Size

LEMMA GrowTwo ==
  ASSUME TypeOK, NEW t \in Seq(Instruction), NEW u \in Seq(Instruction), code' = code \o t \o u
  PROVE  /\ Grown /\ Size' = Size + Len(t) + Len(u) /\ Len(t) \in Nat /\ Len(u) \in Nat
         /\ \A p \in 1 .. Len(t) : code'[Size + p] = t[p]
         /\ \A p \in 1 .. Len(u) : code'[Size + Len(t) + p] = u[p]
<1>1. code \in Seq(Instruction) /\ Size \in Nat
  BY Types DEF TypeOK
<1>6. PICK c : c = code \o t \o u
  OBVIOUS
<1>7. /\ c \in Seq(Instruction) /\ Len(c) = Len(code) + Len(t) + Len(u) /\ Len(t) \in Nat /\ Len(u) \in Nat
      /\ \A k \in 1 .. Len(code) : c[k] = code[k]
      /\ \A p \in 1 .. Len(t) : c[Len(code) + p] = t[p]
      /\ \A p \in 1 .. Len(u) : c[Len(code) + Len(t) + p] = u[p]
  <2>1. t \in Seq(Instruction) /\ u \in Seq(Instruction)
    OBVIOUS
  <2> QED
    BY ONLY <1>1, <1>6, <2>1, Concat3
<1>2. /\ code' \in Seq(Instruction) /\ Len(code') = Size + Len(t) + Len(u) /\ Len(t) \in Nat /\ Len(u) \in Nat
      /\ \A k \in 1 .. Size : code'[k] = code[k]
  BY <1>6, <1>7 DEF Size
<1>3. \A p \in 1 .. Len(t) : code'[Size + p] = t[p]
  BY <1>6, <1>7 DEF Size
<1>5. \A p \in 1 .. Len(u) : code'[Size + Len(t) + p] = u[p]
  BY <1>6, <1>7 DEF Size
<1>4. Size' = Len(code')
  BY DEF Size
<1> QED
  BY <1>1, <1>2, <1>3, <1>4, <1>5 DEF Grown

\* The locals of the innermost scope.
Scope == Len(locals) - starts[Depth]

LEMMA ScopeList ==
  ASSUME Shape, suites # << >>
  PROVE  /\ ScopeReleases \in Seq(Instruction) /\ Len(ScopeReleases) = Scope /\ Scope \in Nat
         /\ \A p \in 1 .. Scope : /\ Len(locals) + 1 - p \in starts[Depth] + 1 .. Len(locals)
                                  /\ IsRelease(ScopeReleases[p], Len(locals) + 1 - p)
<1>1. starts[Depth] \in 0 .. Len(locals) /\ Len(locals) \in Nat /\ LastOf(starts) = starts[Depth] /\ TypeOK
  BY Inside DEF Shape
<1>2. ScopeReleases = Releases(starts[Depth])
  BY <1>1 DEF ScopeReleases
<1>3. Len(locals) - starts[Depth] \in Nat
  BY <1>1
<1> QED
  BY <1>1, <1>2, <1>3, ReleaseList DEF Scope

LEMMA LiveList ==
  ASSUME TypeOK
  PROVE  /\ Live \in Seq(Instruction) /\ Len(Live) = Len(locals) /\ Len(locals) \in Nat
         /\ \A p \in 1 .. Len(locals) : /\ Len(locals) + 1 - p \in 1 .. Len(locals)
                                        /\ IsRelease(Live[p], Len(locals) + 1 - p)
<1>1. 0 \in 0 .. Len(locals) /\ Len(locals) \in Nat /\ Len(locals) - 0 = Len(locals)
  BY Types
<1> DEFINE z == 0
<1>2. /\ Releases(z) \in Seq(Instruction) /\ Len(Releases(z)) = Len(locals) - z
      /\ \A p \in 1 .. Len(locals) - z :
           Len(locals) + 1 - p \in z + 1 .. Len(locals) /\ IsRelease(Releases(z)[p], Len(locals) + 1 - p)
  <2> HIDE DEF z
  <2>1. z \in 0 .. Len(locals)
    BY <1>1 DEF z
  <2> QED
    BY <2>1, ReleaseList
<1> QED
  BY <1>1, <1>2 DEF Live

\* The releases of the innermost scope, then one instruction.
LEMMA EmitsScope ==
  ASSUME Shape, suites # << >>, NEW x \in Instruction, code' = code \o ScopeReleases \o <<x>>
  PROVE  /\ Grown /\ Scope \in Nat /\ Size' = Size + Scope + 1
         /\ Emits(Size, starts[Depth]) /\ code'[Size + Scope + 1] = x
<1>1. <<x>> \in Seq(Instruction) /\ Len(<<x>>) = 1 /\ <<x>>[1] = x
  BY Single
<1> DEFINE u == <<x>>
<1> HIDE DEF u
<1>2. u \in Seq(Instruction) /\ Len(u) = 1 /\ u[1] = x /\ code' = code \o ScopeReleases \o u
  BY <1>1 DEF u
<1>3. /\ Grown /\ Size' = Size + Len(ScopeReleases) + Len(u)
      /\ \A p \in 1 .. Len(ScopeReleases) : code'[Size + p] = ScopeReleases[p]
      /\ \A p \in 1 .. Len(u) : code'[Size + Len(ScopeReleases) + p] = u[p]
  BY <1>2, ScopeList, GrowTwo DEF Shape
<1>4. Emits(Size, starts[Depth])
  <2>1. \A p \in 1 .. Scope : code'[Size + p] = ScopeReleases[p]
    BY <1>3, ScopeList
  <2>2. \A p \in 1 .. Scope : IsRelease(code'[Size + p], Len(locals) + 1 - p)
    BY <2>1, ScopeList
  <2> QED
    BY <2>2, ScopeList DEF Emits, Scope
<1>5. code'[Size + Scope + 1] = x
  <2>1. 1 \in 1 .. Len(u)
    BY <1>2
  <2>2. code'[Size + Len(ScopeReleases) + 1] = u[1]
    BY ONLY <1>3, <2>1
  <2> QED
    BY <1>2, <2>2, ScopeList
<1> QED
  BY <1>2, <1>3, <1>4, <1>5, ScopeList

\* The releases of all locals, then one instruction.
LEMMA EmitsLive ==
  ASSUME Shape, NEW x \in Instruction, code' = code \o Live \o <<x>>
  PROVE  /\ Grown /\ Size' = Size + Len(locals) + 1 /\ Len(locals) \in Nat
         /\ Emits(Size, 0) /\ code'[Size + Len(locals) + 1] = x
<1>1. <<x>> \in Seq(Instruction) /\ Len(<<x>>) = 1 /\ <<x>>[1] = x
  BY Single
<1> DEFINE u == <<x>>
<1> HIDE DEF u
<1>2. u \in Seq(Instruction) /\ Len(u) = 1 /\ u[1] = x /\ code' = code \o Live \o u /\ TypeOK
  BY <1>1 DEF u, Shape
<1>3. /\ Grown /\ Size' = Size + Len(Live) + Len(u)
      /\ \A p \in 1 .. Len(Live) : code'[Size + p] = Live[p]
      /\ \A p \in 1 .. Len(u) : code'[Size + Len(Live) + p] = u[p]
  BY <1>2, LiveList, GrowTwo
<1>4. Len(locals) - 0 = Len(locals) /\ 0 + 1 = 1
  BY <1>2, LiveList
<1>5. \A p \in 1 .. Len(locals) : Len(locals) + 1 - p \in 1 .. Len(locals) /\ IsRelease(code'[Size + p], Len(locals) + 1 - p)
  BY <1>2, <1>3, LiveList
<1>6. Emits(Size, 0)
  <2> DEFINE z == 0
  <2>1. Len(locals) - z = Len(locals) /\ z + 1 = 1
    BY <1>4
  <2> HIDE DEF z
  <2>2. Emits(Size, z)
    BY <1>5, <2>1 DEF Emits
  <2> QED
    BY <2>2 DEF z
<1>7. code'[Size + Len(locals) + 1] = x
  <2>1. 1 \in 1 .. Len(u)
    BY <1>2
  <2>2. code'[Size + Len(Live) + 1] = u[1]
    BY ONLY <1>3, <2>1
  <2> QED
    BY <1>2, <2>2, LiveList
<1> QED
  BY <1>2, <1>3, <1>6, <1>7, LiveList

LEMMA EmitsWith ==
  ASSUME Shape, suites # << >>, code' = code \o ScopeReleases
  PROVE  Grown /\ Scope \in Nat /\ Size' = Size + Scope /\ Emits(Size, starts[Depth])
<1>1. code \in Seq(Instruction) /\ Size \in Nat
  BY Types DEF Shape, TypeOK
<1> DEFINE t == ScopeReleases
<1>2. t \in Seq(Instruction) /\ Len(t) = Scope /\ Scope \in Nat
      /\ \A p \in 1 .. Scope : IsRelease(t[p], Len(locals) + 1 - p)
  BY ScopeList
<1>3. code' = code \o t
  OBVIOUS
<1> HIDE DEF t
<1>4. /\ code' \in Seq(Instruction) /\ Len(code') = Size + Len(t)
      /\ \A k \in 1 .. Size : code'[k] = code[k]
      /\ \A k \in 1 .. Len(t) : code'[Size + k] = t[k]
  <2>1. code \in Seq(Instruction) /\ t \in Seq(Instruction)
    BY <1>1, <1>2
  <2>2. /\ code \o t \in Seq(Instruction) /\ Len(code \o t) = Len(code) + Len(t)
        /\ \A k \in 1 .. Len(code) : (code \o t)[k] = code[k]
        /\ \A k \in 1 .. Len(t) : (code \o t)[Len(code) + k] = t[k]
    BY ONLY <2>1, Concat
  <2> QED
    BY <1>3, <2>2 DEF Size
<1>5. Emits(Size, starts[Depth])
  <2>1. \A p \in 1 .. Scope : IsRelease(code'[Size + p], Len(locals) + 1 - p)
    BY <1>2, <1>4
  <2> QED
    BY <2>1, ScopeList DEF Emits, Scope
<1> QED
  BY <1>1, <1>2, <1>4, <1>5 DEF Grown, Size

\* The label, the releases of the scope, the test, and what follows.
LEMMA EmitsLoop ==
  ASSUME Shape, suites # << >>, NEW x \in Instruction, NEW y \in Instruction, NEW w \in Seq(Instruction),
         code' = code \o <<x>> \o ScopeReleases \o <<y>> \o w
  PROVE  /\ Grown /\ Scope \in Nat /\ Len(w) \in Nat /\ Size' = Size + Scope + 2 + Len(w)
         /\ code'[Size + 1] = x /\ Emits(Size + 1, starts[Depth]) /\ code'[Size + Scope + 2] = y
         /\ \A p \in 1 .. Len(w) : code'[Size + Scope + 2 + p] = w[p]
<1>1. code \in Seq(Instruction) /\ Size \in Nat
  BY Types DEF Shape, TypeOK
<1> DEFINE a == <<x>>
           b == <<y>>
           t == ScopeReleases
<1>2. a \in Seq(Instruction) /\ Len(a) = 1 /\ a[1] = x /\ b \in Seq(Instruction) /\ Len(b) = 1 /\ b[1] = y
  BY Single
<1>3. t \in Seq(Instruction) /\ Len(t) = Scope /\ Scope \in Nat
      /\ \A p \in 1 .. Scope : IsRelease(t[p], Len(locals) + 1 - p)
  BY ScopeList
<1>4. code' = code \o a \o t \o b \o w
  OBVIOUS
<1> HIDE DEF a, b, t
<1> DEFINE c == code \o a
<1>5. /\ c \in Seq(Instruction) /\ Len(c) = Size + 1
      /\ \A k \in 1 .. Size : c[k] = code[k]
      /\ c[Size + 1] = x
  <2>1. /\ c \in Seq(Instruction) /\ Len(c) = Size + Len(a)
        /\ \A k \in 1 .. Size : c[k] = code[k]
        /\ \A k \in 1 .. Len(a) : c[Size + k] = a[k]
    <3>1. a \in Seq(Instruction)
      BY <1>2
    <3> QED
      BY ONLY <1>1, <3>1, Concat DEF Size
  <2>2. 1 \in 1 .. Len(a)
    BY <1>2
  <2> QED
    BY <1>2, <2>1, <2>2
<1> HIDE DEF c
<1> DEFINE d == c \o t \o b
<1>6. /\ d \in Seq(Instruction) /\ Len(d) = Size + Scope + 2
      /\ \A k \in 1 .. Size + 1 : d[k] = c[k]
      /\ \A k \in 1 .. Scope : d[Size + 1 + k] = t[k]
      /\ d[Size + Scope + 2] = y
  <2>1. /\ d \in Seq(Instruction) /\ Len(d) = Len(c) + Len(t) + Len(b)
        /\ \A k \in 1 .. Len(c) : d[k] = c[k]
        /\ \A k \in 1 .. Len(t) : d[Len(c) + k] = t[k]
        /\ \A k \in 1 .. Len(b) : d[Len(c) + Len(t) + k] = b[k]
    <3>1. c \in Seq(Instruction) /\ t \in Seq(Instruction) /\ b \in Seq(Instruction)
      BY <1>2, <1>3, <1>5
    <3> QED
      BY ONLY <3>1, Concat3
  <2>2. 1 \in 1 .. Len(b)
    BY <1>2
  <2>3. d[Len(c) + Len(t) + 1] = b[1]
    BY <2>1, <2>2
  <2> QED
    BY <1>1, <1>2, <1>3, <1>5, <2>1, <2>3
<1> HIDE DEF d
<1>7. /\ code' \in Seq(Instruction) /\ Len(code') = Len(d) + Len(w) /\ Len(w) \in Nat
      /\ \A k \in 1 .. Len(d) : code'[k] = d[k]
      /\ \A k \in 1 .. Len(w) : code'[Len(d) + k] = w[k]
  <2>1. code' = d \o w
    BY <1>4 DEF c, d
  <2>2. d \in Seq(Instruction)
    BY <1>6
  <2>3. /\ d \o w \in Seq(Instruction) /\ Len(d \o w) = Len(d) + Len(w) /\ Len(w) \in Nat
        /\ \A k \in 1 .. Len(d) : (d \o w)[k] = d[k]
        /\ \A k \in 1 .. Len(w) : (d \o w)[Len(d) + k] = w[k]
    BY ONLY <2>2, w \in Seq(Instruction), Concat
  <2> QED
    BY <2>1, <2>3
<1>8. \A k \in 1 .. Size : code'[k] = code[k]
  <2> TAKE k \in 1 .. Size
  <2>1. k \in 1 .. Len(d) /\ k \in 1 .. Size + 1
    BY <1>1, <1>3, <1>6
  <2> QED
    BY <1>5, <1>6, <1>7, <2>1
<1>9. code'[Size + 1] = x /\ code'[Size + Scope + 2] = y
  <2>1. Size + 1 \in 1 .. Len(d) /\ Size + 1 \in 1 .. Size + 1 /\ Size + Scope + 2 \in 1 .. Len(d)
    BY <1>1, <1>3, <1>6
  <2> QED
    BY <1>5, <1>6, <1>7, <2>1
<1>10. Emits(Size + 1, starts[Depth])
  <2>1. \A p \in 1 .. Scope : code'[Size + 1 + p] = t[p]
    <3> TAKE p \in 1 .. Scope
    <3>1. Size + 1 + p \in 1 .. Len(d)
      BY <1>1, <1>3, <1>6
    <3> QED
      BY <1>6, <1>7, <3>1
  <2>2. \A p \in 1 .. Scope : IsRelease(code'[Size + 1 + p], Len(locals) + 1 - p)
    BY <1>3, <2>1
  <2> QED
    BY <2>2, ScopeList DEF Emits, Scope
<1>11. Size' = Size + Scope + 2 + Len(w)
  BY <1>6, <1>7 DEF Size
<1>12. Grown
  <2>1. code' \in Seq(Instruction)
    BY <1>7
  <2>2. Size + Scope + 2 + Len(w) \in Nat /\ Size <= Size + Scope + 2 + Len(w)
    BY <1>1, <1>3, <1>7
  <2>3. Size' \in Nat /\ Size <= Size'
    BY <1>11, <2>2
  <2> QED
    BY <1>8, <2>1, <2>3 DEF Grown
<1>13. \A p \in 1 .. Len(w) : code'[Size + Scope + 2 + p] = w[p]
  BY <1>6, <1>7
<1> QED
  BY <1>3, <1>7, <1>9, <1>10, <1>11, <1>12, <1>13

LEMMA EmitsTake ==
  ASSUME Shape, NEW x \in Instruction, NEW y \in Instruction, code' = code \o (<<x>> \o Live) \o <<y>>
  PROVE  /\ Grown /\ Size' = Size + Len(locals) + 2 /\ Len(locals) \in Nat
         /\ code'[Size + 1] = x /\ Emits(Size + 1, 0) /\ code'[Size + Len(locals) + 2] = y
<1>1. code \in Seq(Instruction) /\ Size \in Nat /\ TypeOK
  BY Types DEF Shape, TypeOK
<1> DEFINE a == <<x>>
           b == <<y>>
           t == Live
<1>2. a \in Seq(Instruction) /\ Len(a) = 1 /\ a[1] = x /\ b \in Seq(Instruction) /\ Len(b) = 1 /\ b[1] = y
  BY Single
<1>3. t \in Seq(Instruction) /\ Len(t) = Len(locals) /\ Len(locals) \in Nat
      /\ \A p \in 1 .. Len(locals) : /\ Len(locals) + 1 - p \in 1 .. Len(locals)
                                     /\ IsRelease(t[p], Len(locals) + 1 - p)
  BY <1>1, LiveList
<1>4. code' = code \o (a \o t) \o b
  OBVIOUS
<1> HIDE DEF a, b, t
<1> DEFINE c == a \o t
<1>5. /\ c \in Seq(Instruction) /\ Len(c) = Len(locals) + 1 /\ c[1] = x
      /\ \A k \in 1 .. Len(locals) : c[1 + k] = t[k]
  <2>1. /\ c \in Seq(Instruction) /\ Len(c) = Len(a) + Len(t)
        /\ \A k \in 1 .. Len(a) : c[k] = a[k]
        /\ \A k \in 1 .. Len(t) : c[Len(a) + k] = t[k]
    <3>1. a \in Seq(Instruction) /\ t \in Seq(Instruction)
      BY <1>2, <1>3
    <3> QED
      BY ONLY <3>1, Concat
  <2>2. 1 \in 1 .. Len(a)
    BY <1>2
  <2> QED
    BY <1>2, <1>3, <2>1, <2>2
<1> HIDE DEF c
<1>6. /\ Grown /\ Size' = Size + Len(c) + Len(b)
      /\ \A p \in 1 .. Len(c) : code'[Size + p] = c[p]
      /\ \A p \in 1 .. Len(b) : code'[Size + Len(c) + p] = b[p]
  <2>1. code' = code \o c \o b
    BY <1>4 DEF c
  <2> QED
    BY <1>1, <1>2, <1>5, <2>1, GrowTwo
<1>7. code'[Size + 1] = x /\ code'[Size + Len(locals) + 2] = y
  <2>1. 1 \in 1 .. Len(b) /\ 1 \in 1 .. Len(c)
    BY <1>2, <1>3, <1>5
  <2>2. code'[Size + Len(c) + 1] = b[1] /\ code'[Size + 1] = c[1]
    BY <1>6, <2>1
  <2>3. Size + Len(c) + 1 = Size + Len(locals) + 2
    BY <1>1, <1>3, <1>5
  <2> QED
    BY <1>2, <1>5, <2>2, <2>3
<1>8. \A p \in 1 .. Len(locals) : code'[Size + 1 + p] = t[p]
  <2> TAKE p \in 1 .. Len(locals)
  <2>1. 1 + p \in 1 .. Len(c) /\ Size + (1 + p) = Size + 1 + p
    BY <1>1, <1>3, <1>5
  <2>2. code'[Size + (1 + p)] = c[1 + p]
    BY <1>6, <2>1
  <2> QED
    BY <1>5, <2>1, <2>2
<1>9. Emits(Size + 1, 0)
  <2> DEFINE z == 0
  <2>1. Len(locals) - z = Len(locals) /\ z + 1 = 1
    BY <1>3
  <2>2. \A p \in 1 .. Len(locals) : /\ Len(locals) + 1 - p \in 1 .. Len(locals)
                                    /\ IsRelease(code'[Size + 1 + p], Len(locals) + 1 - p)
    BY <1>3, <1>8
  <2> HIDE DEF z
  <2>3. Emits(Size + 1, z)
    BY <2>1, <2>2 DEF Emits
  <2> QED
    BY <2>3 DEF z
<1>10. Size' = Size + Len(locals) + 2
  BY <1>1, <1>2, <1>3, <1>5, <1>6
<1> QED
  BY <1>3, <1>6, <1>7, <1>9, <1>10

-----------------------------------------------------------------------------
(***************************************************************************)
(* The actions of the generator, one by one.                               *)
(***************************************************************************)
LEMMA LocalsAppend ==
  ASSUME TypeOK, NEW x \in Nat, locals' = Append(locals, x)
  PROVE  /\ LocalsFrom(Len(locals)) /\ Len(locals') = Len(locals) + 1 /\ locals'[Len(locals) + 1] = x
         /\ \A m \in Nat : m <= Len(locals) => LocalsFrom(m)
<1>1. locals \in Seq(Nat) /\ Len(locals) \in Nat
  BY DEF TypeOK
<1>2. /\ locals' \in Seq(Nat) /\ Len(locals') = Len(locals) + 1 /\ locals'[Len(locals) + 1] = x
      /\ \A j \in 1 .. Len(locals) : locals'[j] = locals[j]
  BY <1>1, Added
<1> QED
  BY <1>1, <1>2 DEF LocalsFrom

LEMMA LocalsSame ==
  ASSUME TypeOK, locals' = locals
  PROVE  /\ LocalsFrom(Len(locals)) /\ Len(locals') = Len(locals)
         /\ \A m \in Nat : m <= Len(locals) => LocalsFrom(m)
<1>1. locals \in Seq(Nat) /\ Len(locals) \in Nat
  BY DEF TypeOK
<1> QED
  BY <1>1 DEF LocalsFrom

LEMMA HereNext ==
  ASSUME TypeOK
  PROVE  Here = Size + 1 /\ Here \in Nat /\ Size \in Nat /\ Here + 1 = Size + 2 /\ Here + 2 = Size + 3
BY Types DEF Here, Size

\* The suites as they are, but perhaps for the last one's flags.
LEMMA FrameSame ==
  ASSUME Shape, suites # << >>, suites' = suites, starts' = starts, LocalsFrom(starts[Depth]), kind' = kind, run' = run
  PROVE  Frame /\ Depth' = Depth
<1>1. Depth' = Depth /\ suites' \in Seq(SuiteType)
  BY Inside DEF Depth
<1>2. SameBlock(suites'[Depth], suites[Depth])
  BY DEF SameBlock
<1> QED
  BY <1>1, <1>2, FrameStay

LEMMA DeclareStep ==
  ASSUME Shape, NEW n \in Name, Declare(n)
  PROVE  /\ Grown /\ Size' = Size + 1 /\ code'[Size + 1] = Declaration(n)
         /\ suites # << >> /\ Frame /\ suites' = suites /\ starts' = starts /\ loops' = loops /\ Depth' = Depth
         /\ locals' = Append(locals, Size + 1) /\ Registrable(n)
<1>1. suites # << >> /\ TypeOK
  BY DEF Declare, Walking, Shape
<1>2. Grown /\ Size' = Size + 1 /\ code'[Size + 1] = Declaration(n)
  <2>1. Declaration(n) \in Instruction /\ code' = Append(code, Declaration(n))
    BY MadeDeclaration DEF Declare
  <2> QED
    BY <1>1, <2>1, GrowOne
<1>3. locals' = Append(locals, Size + 1) /\ Size + 1 \in Nat
  BY <1>1, HereNext DEF Declare
<1>4. Frame /\ Depth' = Depth
  <2>1. LocalsFrom(starts[Depth])
    BY <1>1, <1>3, LocalsAppend, Inside
  <2> QED
    BY <1>1, <2>1, FrameSame DEF Declare
<1> QED
  BY <1>1, <1>2, <1>3, <1>4 DEF Declare

LEMMA BeginIfStep ==
  ASSUME Shape, BeginIf
  PROVE  /\ Grown /\ Size' = Size + 1 /\ code'[Size + 1] = Instr("if", Size + 1)
         /\ suites # << >> /\ Frame /\ Depth' = Depth + 1 /\ locals' = locals /\ loops' = loops
         /\ suites'[Depth + 1] = Suite("if", Size + 1, TRUE)
<1>1. suites # << >> /\ TypeOK /\ Here = Size + 1 /\ Here \in Nat
  BY HereNext DEF BeginIf, Deeper, Walking, Shape
<1>2. Grown /\ Size' = Size + 1 /\ code'[Size + 1] = Instr("if", Size + 1)
  <2>1. Instr("if", Here) \in Instruction /\ code' = Append(code, Instr("if", Here))
    BY <1>1, Made DEF BeginIf, Operation
  <2> QED
    BY <1>1, <2>1, GrowOne
<1>3. Frame /\ Depth' = Depth + 1 /\ suites'[Depth + 1] = Suite("if", Here, TRUE)
  BY <1>1, LocalsSame, FrameEnter DEF BeginIf, SuiteKind
<1> QED
  BY <1>1, <1>2, <1>3 DEF BeginIf

LEMMA BeginWhileStep ==
  ASSUME Shape, BeginWhile
  PROVE  /\ Grown /\ Size' = Size + 1 /\ code'[Size + 1] = Instr("loop", Size + 1)
         /\ suites # << >> /\ Frame /\ Depth' = Depth + 1 /\ locals' = locals
         /\ loops' = Append(loops, Size + 1)
         /\ suites'[Depth + 1] = Suite("while", Size + 1, FALSE)
<1>1. suites # << >> /\ TypeOK /\ Here = Size + 1 /\ Here \in Nat
  BY HereNext DEF BeginWhile, Deeper, Walking, Shape
<1>2. Grown /\ Size' = Size + 1 /\ code'[Size + 1] = Instr("loop", Size + 1)
  <2>1. Instr("loop", Here) \in Instruction /\ code' = Append(code, Instr("loop", Here))
    BY <1>1, Made DEF BeginWhile, Operation
  <2> QED
    BY <1>1, <2>1, GrowOne
<1>3. Frame /\ Depth' = Depth + 1 /\ suites'[Depth + 1] = Suite("while", Here, FALSE)
  BY <1>1, LocalsSame, FrameEnter DEF BeginWhile, SuiteKind
<1> QED
  BY <1>1, <1>2, <1>3 DEF BeginWhile

LEMMA BeginForStep ==
  ASSUME Shape, NEW n \in Name, BeginFor(n)
  PROVE  /\ Grown /\ Size' = Size + 3 /\ code'[Size + 1] = Declaration(NULL)
         /\ code'[Size + 2] = Instr("loop", Size + 2) /\ code'[Size + 3] = Declaration(n)
         /\ suites # << >> /\ Frame /\ Depth' = Depth + 1
         /\ locals' = Append(locals, Size + 3) /\ loops' = Append(loops, Size + 2)
         /\ suites'[Depth + 1] = Suite("for", Size + 2, FALSE)
<1>1. suites # << >> /\ TypeOK /\ Here + 1 = Size + 2 /\ Here + 2 = Size + 3 /\ Here + 1 \in Nat /\ Here + 2 \in Nat /\ Size \in Nat
  BY HereNext DEF BeginFor, Deeper, Walking, Shape
<1> DEFINE x == Declaration(NULL)
           y == Instr("loop", Here + 1)
           z == Declaration(n)
           t == <<x, y, z>>
<1>2. x \in Instruction /\ y \in Instruction /\ z \in Instruction
  BY <1>1, Made, MadeDeclaration DEF Operation
<1>3. code' = code \o <<x, y, z>>
  BY DEF BeginFor
<1> HIDE DEF x, y, z
<1>4. t \in Seq(Instruction) /\ Len(t) = 3 /\ t[1] = x /\ t[2] = y /\ t[3] = z
  BY <1>2
<1> HIDE DEF t
<1>5. code \in Seq(Instruction) /\ code' = code \o t
  BY <1>1, <1>3 DEF TypeOK, t
<1>6. /\ code' \in Seq(Instruction) /\ Len(code') = Size + 3
      /\ \A k \in 1 .. Size : code'[k] = code[k]
      /\ \A p \in 1 .. 3 : code'[Size + p] = t[p]
  <2>1. /\ code \o t \in Seq(Instruction) /\ Len(code \o t) = Len(code) + Len(t)
        /\ \A k \in 1 .. Len(code) : (code \o t)[k] = code[k]
        /\ \A k \in 1 .. Len(t) : (code \o t)[Len(code) + k] = t[k]
    <3>1. code \in Seq(Instruction) /\ t \in Seq(Instruction)
      BY <1>4, <1>5
    <3> QED
      BY ONLY <3>1, Concat
  <2> QED
    BY <1>4, <1>5, <2>1 DEF Size
<1>7. code'[Size + 1] = x /\ code'[Size + 2] = y /\ code'[Size + 3] = z
  BY <1>4, <1>6
<1>8. Grown /\ Size' = Size + 3
  BY <1>1, <1>6 DEF Grown, Size
<1>9. Frame /\ Depth' = Depth + 1 /\ suites'[Depth + 1] = Suite("for", Here + 1, FALSE)
  <2>1. LocalsFrom(Len(locals)) /\ locals' = Append(locals, Size + 3)
    BY <1>1, LocalsAppend DEF BeginFor
  <2> QED
    BY <1>1, <2>1, FrameEnter DEF BeginFor, SuiteKind
<1> QED
  BY <1>1, <1>7, <1>8, <1>9 DEF BeginFor, x, y, z

LEMMA BeginWithStep ==
  ASSUME Shape, NEW n \in Name, BeginWith(n)
  PROVE  /\ Grown /\ Size' = Size + 1 /\ code'[Size + 1] = Declaration(n)
         /\ suites # << >> /\ Frame /\ Depth' = Depth + 1
         /\ locals' = Append(locals, Size + 1) /\ loops' = loops
         /\ suites'[Depth + 1] = Suite("with", Size + 1, FALSE)
<1>1. suites # << >> /\ TypeOK /\ Here = Size + 1 /\ Here \in Nat
  BY HereNext DEF BeginWith, Deeper, Walking, Shape
<1>2. Grown /\ Size' = Size + 1 /\ code'[Size + 1] = Declaration(n)
  <2>1. Declaration(n) \in Instruction /\ code' = Append(code, Declaration(n))
    BY MadeDeclaration DEF BeginWith
  <2> QED
    BY <1>1, <2>1, GrowOne
<1>3. Frame /\ Depth' = Depth + 1 /\ suites'[Depth + 1] = Suite("with", Here, FALSE)
  <2>1. LocalsFrom(Len(locals)) /\ locals' = Append(locals, Size + 1)
    BY <1>1, LocalsAppend DEF BeginWith
  <2> QED
    BY <1>1, <2>1, FrameEnter DEF BeginWith, SuiteKind
<1> QED
  BY <1>1, <1>2, <1>3 DEF BeginWith

LEMMA BranchStep ==
  ASSUME Shape, NEW k \in {"else", "last"}, Branch(k)
  PROVE  LET s == suites[Depth]
         IN /\ Grown /\ Scope \in Nat /\ Size' = Size + Scope + 1 /\ Emits(Size, starts[Depth])
            /\ code'[Size + Scope + 1] = Instr(k, s.id)
            /\ suites # << >> /\ s.kind = "if" /\ Frame /\ Depth' = Depth /\ Depth > 1
            /\ locals' = SubSeq(locals, 1, starts[Depth]) /\ Len(locals') = starts[Depth] /\ loops' = loops
            /\ suites'[Depth] = Suite(IF k = "last" THEN "last" ELSE "if", s.id, s.prior /\ s.returns)
<1> DEFINE s == suites[Depth]
           new == Suite(IF k = "last" THEN "last" ELSE "if", s.id, s.prior /\ s.returns)
<1>1. suites # << >> /\ TypeOK /\ LastOf(suites) = s /\ s.kind = "if" /\ s \in SuiteType /\ Depth > 1
  BY Inside DEF Branch, Walking, Shape
<1>2. new \in SuiteType /\ new.id = s.id /\ new.kind \in {"if", "last"}
  BY <1>1 DEF Suite, SuiteType, SuiteKind
<1>3. suites' = Append(ButLast(suites), new) /\ code' = code \o ScopeReleases \o <<Instr(k, s.id)>>
  BY <1>1 DEF Branch
<1>4. Instr(k, s.id) \in Instruction
  BY <1>1, Made DEF Operation, SuiteType
<1> HIDE DEF new
<1>5. /\ Grown /\ Scope \in Nat /\ Size' = Size + Scope + 1 /\ Emits(Size, starts[Depth])
      /\ code'[Size + Scope + 1] = Instr(k, s.id)
  BY <1>1, <1>3, <1>4, EmitsScope
<1>6. /\ suites' \in Seq(SuiteType) /\ Depth' = Depth /\ suites'[Depth] = new
      /\ \A i \in 1 .. Depth : i < Depth => suites'[i] = suites[i]
  <2> DEFINE b == ButLast(suites)
  <2>1. b \in Seq(SuiteType) /\ Len(b) = Depth - 1 /\ \A i \in 1 .. Depth - 1 : b[i] = suites[i]
    BY <1>1, Inside, WithoutLast DEF Depth
  <2>2. suites' = Append(b, new)
    BY <1>3
  <2> HIDE DEF b
  <2>3. /\ suites' \in Seq(SuiteType) /\ Len(suites') = Len(b) + 1 /\ suites'[Len(b) + 1] = new
        /\ \A i \in 1 .. Len(b) : suites'[i] = b[i]
    BY <1>2, <2>1, <2>2, Added
  <2>4. Depth \in Nat
    BY <1>1, Inside
  <2> QED
    BY <2>1, <2>3, <2>4 DEF Depth
<1>7. SameBlock(suites'[Depth], suites[Depth])
  BY <1>1, <1>2, <1>6 DEF SameBlock, IsChain, IsLoop
<1>8. locals' = SubSeq(locals, 1, starts[Depth]) /\ locals \in Seq(Nat)
  BY <1>1, Inside DEF Branch, PopScope, TypeOK
<1>9. LocalsFrom(starts[Depth]) /\ Len(locals') = starts[Depth]
  <2>1. starts[Depth] \in 0 .. Len(locals) /\ Len(locals) \in Nat
    BY <1>1, Inside
  <2>2. /\ locals' \in Seq(Nat) /\ Len(locals') = starts[Depth]
        /\ \A j \in 1 .. starts[Depth] : locals'[j] = locals[j]
    BY <1>8, <2>1, Prefix
  <2> QED
    BY <2>1, <2>2 DEF LocalsFrom
<1>10. Frame
  BY <1>1, <1>6, <1>7, <1>9, FrameStay DEF Branch
<1> QED
  BY <1>1, <1>5, <1>6, <1>8, <1>9, <1>10 DEF Branch, new

LEMMA EndIfStep ==
  ASSUME Shape, EndIf
  PROVE  LET s == suites[Depth]
         IN /\ Grown /\ Scope \in Nat /\ Size' = Size + Scope + 1 /\ Emits(Size, starts[Depth])
            /\ code'[Size + Scope + 1] = Instr("end", s.id)
            /\ suites # << >> /\ IsChain(s) /\ Frame /\ Depth' = Depth - 1 /\ Depth > 1
            /\ locals' = SubSeq(locals, 1, starts[Depth]) /\ loops' = loops
            /\ suites'[Depth - 1].returns = (suites[Depth - 1].returns \/ (s.kind = "last" /\ s.prior /\ s.returns))
            /\ suites'[Depth - 1].kind = suites[Depth - 1].kind
            /\ suites'[Depth - 1].prior = suites[Depth - 1].prior
<1> DEFINE s == suites[Depth]
           returns == s.kind = "last" /\ s.prior /\ s.returns
<1>1. suites # << >> /\ TypeOK /\ LastOf(suites) = s /\ IsChain(s) /\ s \in SuiteType /\ Depth > 1 /\ s.kind # "function"
  BY Inside DEF EndIf, Shape, IsChain
<1>2. returns \in BOOLEAN /\ Leave(returns) /\ code' = code \o ScopeReleases \o <<Instr("end", s.id)>>
  BY <1>1 DEF EndIf
<1>3. Instr("end", s.id) \in Instruction
  BY <1>1, Made DEF Operation, SuiteType
<1> HIDE DEF returns
<1>4. /\ Grown /\ Scope \in Nat /\ Size' = Size + Scope + 1 /\ Emits(Size, starts[Depth])
      /\ code'[Size + Scope + 1] = Instr("end", s.id)
  BY <1>1, <1>2, <1>3, EmitsScope
<1>5. PopScope /\ starts' = ButLast(starts) /\ kind' = kind /\ run' = run /\ loops' = loops
  BY DEF EndIf
<1>6. /\ Frame /\ Depth' = Depth - 1 /\ locals' = SubSeq(locals, 1, starts[Depth])
      /\ suites'[Depth - 1].returns = (suites[Depth - 1].returns \/ returns)
      /\ suites'[Depth - 1].kind = suites[Depth - 1].kind
      /\ suites'[Depth - 1].prior = suites[Depth - 1].prior
  BY <1>1, <1>2, <1>5, FrameLeave
<1> QED
  BY <1>1, <1>4, <1>5, <1>6 DEF returns

LEMMA EndLoopStep ==
  ASSUME Shape, EndLoop
  PROVE  LET s == suites[Depth]
             extra == IF s.kind = "for" THEN 1 ELSE 0
         IN /\ Grown /\ Scope \in Nat /\ Size' = Size + Scope + 2 + extra
            /\ code'[Size + 1] = Instr("label", s.id) /\ Emits(Size + 1, starts[Depth])
            /\ code'[Size + Scope + 2] = Instr("next", s.id)
            /\ s.kind = "for" => s.id - 1 \in Nat /\ code'[Size + Scope + 3] = Instr("release", s.id - 1)
            /\ suites # << >> /\ IsLoop(s) /\ Frame /\ Depth' = Depth - 1 /\ Depth > 1
            /\ locals' = SubSeq(locals, 1, starts[Depth]) /\ loops' = ButLast(loops)
            /\ suites'[Depth - 1].returns = suites[Depth - 1].returns
            /\ suites'[Depth - 1].kind = suites[Depth - 1].kind
            /\ suites'[Depth - 1].prior = suites[Depth - 1].prior
<1> DEFINE s == suites[Depth]
           extra == IF s.kind = "for" THEN 1 ELSE 0
           x == Instr("label", s.id)
           y == Instr("next", s.id)
           w == IF s.kind = "for" THEN <<Instr("release", s.id - 1)>> ELSE << >>
<1>1. suites # << >> /\ TypeOK /\ LastOf(suites) = s /\ IsLoop(s) /\ s \in SuiteType /\ Depth > 1 /\ s.kind # "function"
  BY Inside DEF EndLoop, Shape, IsLoop
<1>2. s.id \in Nat /\ (s.kind = "for" => s.id - 1 \in Nat)
  BY <1>1, Inside DEF SuiteType, Shape, Suites
<1>3. x \in Instruction /\ y \in Instruction
  BY <1>2, Made DEF Operation
<1>4. /\ w \in Seq(Instruction) /\ Len(w) = extra
      /\ s.kind = "for" => w[1] = Instr("release", s.id - 1)
  <2>1. CASE s.kind = "for"
    <3>1. Instr("release", s.id - 1) \in Instruction
      BY <1>2, <2>1, Made DEF Operation
    <3> QED
      BY <2>1, <3>1, Single
  <2>2. CASE s.kind # "for"
    BY <2>2
  <2> QED
    BY <2>1, <2>2
<1>5. code' = code \o <<x>> \o ScopeReleases \o <<y>> \o w
  BY <1>1 DEF EndLoop
<1> HIDE DEF x, y, w, extra
<1>6. /\ Grown /\ Scope \in Nat /\ Size' = Size + Scope + 2 + Len(w)
      /\ code'[Size + 1] = x /\ Emits(Size + 1, starts[Depth]) /\ code'[Size + Scope + 2] = y
      /\ \A p \in 1 .. Len(w) : code'[Size + Scope + 2 + p] = w[p]
  <2>1. w \in Seq(Instruction) /\ Shape
    BY <1>4
  <2> QED
    BY ONLY <1>1, <1>3, <1>5, <2>1, EmitsLoop
<1>7. s.kind = "for" => code'[Size + Scope + 3] = Instr("release", s.id - 1)
  <2> HAVE s.kind = "for"
  <2>1. Len(w) = 1 /\ 1 \in 1 .. 1
    BY <1>4 DEF extra
  <2>2. code'[Size + Scope + 2 + 1] = w[1]
    BY <1>6, <2>1
  <2>3. Size + Scope + 2 + 1 = Size + Scope + 3
    BY <1>1, <1>6, Types
  <2> QED
    BY <1>4, <2>2, <2>3
<1>8. /\ PopScope /\ starts' = ButLast(starts) /\ kind' = kind /\ run' = run
      /\ loops' = ButLast(loops) /\ Leave(FALSE)
  BY DEF EndLoop
<1>9. /\ Frame /\ Depth' = Depth - 1 /\ locals' = SubSeq(locals, 1, starts[Depth])
      /\ suites'[Depth - 1].returns = (suites[Depth - 1].returns \/ FALSE)
      /\ suites'[Depth - 1].kind = suites[Depth - 1].kind
      /\ suites'[Depth - 1].prior = suites[Depth - 1].prior
  BY <1>1, <1>8, FrameLeave
<1>10. suites'[Depth - 1].returns = suites[Depth - 1].returns
  <2>1. suites[Depth - 1].returns \in BOOLEAN
    BY <1>1, Types, Inside DEF SuiteType
  <2> QED
    BY <1>9, <2>1
<1> QED
  BY <1>1, <1>2, <1>4, <1>6, <1>7, <1>8, <1>9, <1>10 DEF x, y, extra

LEMMA EndWithStep ==
  ASSUME Shape, EndWith
  PROVE  LET s == suites[Depth]
         IN /\ Grown /\ Scope \in Nat /\ Size' = Size + Scope /\ Emits(Size, starts[Depth])
            /\ suites # << >> /\ s.kind = "with" /\ Frame /\ Depth' = Depth - 1 /\ Depth > 1
            /\ locals' = SubSeq(locals, 1, starts[Depth]) /\ loops' = loops
            /\ suites'[Depth - 1].returns = suites[Depth - 1].returns
            /\ suites'[Depth - 1].kind = suites[Depth - 1].kind
            /\ suites'[Depth - 1].prior = suites[Depth - 1].prior
<1> DEFINE s == suites[Depth]
<1>1. suites # << >> /\ TypeOK /\ LastOf(suites) = s /\ s.kind = "with" /\ Depth > 1
  BY Inside DEF EndWith, Shape
<1>2. Grown /\ Scope \in Nat /\ Size' = Size + Scope /\ Emits(Size, starts[Depth])
  BY <1>1, EmitsWith DEF EndWith
<1>3. /\ PopScope /\ starts' = ButLast(starts) /\ kind' = kind /\ run' = run
      /\ loops' = loops /\ Leave(FALSE) /\ LastOf(suites).kind # "function"
  BY <1>1 DEF EndWith
<1>4. /\ Frame /\ Depth' = Depth - 1 /\ locals' = SubSeq(locals, 1, starts[Depth])
      /\ suites'[Depth - 1].returns = (suites[Depth - 1].returns \/ FALSE)
      /\ suites'[Depth - 1].kind = suites[Depth - 1].kind
      /\ suites'[Depth - 1].prior = suites[Depth - 1].prior
  BY <1>1, <1>3, FrameLeave
<1>5. suites'[Depth - 1].returns = suites[Depth - 1].returns
  <2>1. suites[Depth - 1].returns \in BOOLEAN
    BY <1>1, Types, Inside DEF SuiteType
  <2> QED
    BY <1>4, <2>1
<1> QED
  BY <1>1, <1>2, <1>3, <1>4, <1>5

\* The suite of the innermost loop, and the locals a jump to its end keeps.
LoopSuite(own) == IsLoop(suites[own]) /\ suites[own].id = LastOf(loops)
Skipped(own) == {locals[j] : j \in Kept(own) + 1 .. Len(locals)}

LEMMA JumpStep ==
  ASSUME Shape, NEW a \in {1, 2}, Jump(a)
  PROVE  /\ Grown /\ Size' = Size + 1 /\ code'[Size + 1].op = "goto" /\ code'[Size + 1].id = LastOf(loops)
         /\ \E own \in 1 .. Depth : LoopSuite(own) /\ code'[Size + 1].skips = Skipped(own)
         /\ suites # << >> /\ Frame /\ suites' = suites /\ starts' = starts /\ loops' = loops /\ Depth' = Depth
         /\ locals' = locals /\ loops # << >>
<1>1. suites # << >> /\ TypeOK /\ loops # << >> /\ Loops
  BY DEF Jump, Walking, Shape
<1>2. LastOf(loops) \in Nat /\ Len(loops) \in 1 .. Len(loops) /\ LastOf(loops) = loops[Len(loops)]
  BY <1>1, Types DEF LastOf
<1> DEFINE P(k) == suites[k].kind \in {"while", "for"} /\ suites[k].id = LastOf(loops)
           own  == CHOOSE k \in DOMAIN suites : P(k)
           kept == IF own = Len(suites) THEN Len(locals) ELSE starts[own + 1]
           skips == {locals[k] : k \in kept + 1 .. Len(locals)}
           x == [Instr("goto", LastOf(loops)) EXCEPT !.act = a, !.skips = skips]
<1>3. \E k \in DOMAIN suites : P(k)
  <2>1. PICK i \in 1 .. Depth : IsLoop(suites[i]) /\ suites[i].id = loops[Len(loops)]
    BY <1>1, <1>2 DEF Loops
  <2>2. i \in DOMAIN suites
    BY <1>1, Types
  <2> QED
    BY <1>2, <2>1, <2>2 DEF IsLoop
<1>4. own \in DOMAIN suites /\ P(own)
  BY <1>3
<1>5. LoopSuite(own) /\ own \in 1 .. Depth
  BY <1>1, <1>4, Types DEF LoopSuite, IsLoop
<1>6. kept = Kept(own)
  BY DEF Kept, Depth
<1>7. code' = Append(code, x)
  BY DEF Jump
<1> HIDE DEF own, kept, P
<1>8. skips \subseteq Nat
  <2>1. kept \in Nat
    BY <1>1, <1>5, <1>6, Types, Inside DEF Kept
  <2> QED
    BY <1>1, <2>1, Types
<1> HIDE DEF skips
<1>9. x \in Instruction /\ x.op = "goto" /\ x.id = LastOf(loops) /\ x.skips = skips
  <2> DEFINE l == LastOf(loops)
             i == Instr("goto", l)
  <2>1. i \in Instruction /\ i.op = "goto" /\ i.id = l
    BY <1>2, Made DEF Operation
  <2>2. x = [i EXCEPT !.act = a, !.skips = skips] /\ a \in 0 .. 2
    OBVIOUS
  <2> HIDE DEF x, i, l
  <2>3. x \in Instruction /\ x.op = i.op /\ x.id = i.id /\ x.skips = skips
    BY <1>8, <2>1, <2>2 DEF Instruction
  <2> QED
    BY <2>1, <2>3 DEF l
<1> HIDE DEF x
<1>10. Grown /\ Size' = Size + 1 /\ code'[Size + 1] = x
  BY <1>1, <1>7, <1>9, GrowOne
<1>11. skips = Skipped(own)
  BY <1>6 DEF skips, Skipped
<1>12. suites' = suites /\ starts' = starts /\ loops' = loops /\ locals' = locals /\ kind' = kind /\ run' = run
  BY DEF Jump
<1>13. Frame /\ Depth' = Depth
  <2>1. LocalsFrom(starts[Depth])
    BY <1>1, <1>12, LocalsSame, Inside
  <2> QED
    BY <1>1, <1>12, <2>1, FrameSame
<1> QED
  BY <1>1, <1>5, <1>9, <1>10, <1>11, <1>12, <1>13

IsReturn(r, skipped) == r \in Instruction /\ r.op = "return" /\ r.skips = skipped

LEMMA MadeReturn ==
  ASSUME Shape, NEW skipped \in SUBSET Nat
  PROVE  IsReturn([Instr("return", 0) EXCEPT !.skips = skipped \cup Iterables], skipped \cup Iterables)
<1>1. Iterables \in SUBSET Nat
  <2>1. \A i \in 1 .. Depth : suites[i].kind = "for" => suites[i].id - 1 \in Nat
    BY Types DEF Shape, Suites, SuiteType
  <2>2. Iterables = {s.id - 1 : s \in {suites[k] : k \in {j \in 1 .. Depth : suites[j].kind = "for"}}}
    BY Types DEF Iterables, Shape
  <2> QED
    BY <2>1, <2>2
<1> DEFINE u == skipped \cup Iterables
<1>2. u \in SUBSET Nat
  BY <1>1
<1> HIDE DEF u
<1>3. [Instr("return", 0) EXCEPT !.skips = u] \in Instruction
  BY <1>2 DEF Instr, Instruction, Operation
<1>4. [Instr("return", 0) EXCEPT !.skips = u].op = "return" /\ [Instr("return", 0) EXCEPT !.skips = u].skips = u
  BY DEF Instr
<1> QED
  BY <1>3, <1>4 DEF IsReturn, u

\* What the returns have in common.
Returning ==
  /\ suites # << >> /\ Frame /\ Depth' = Depth /\ starts' = starts /\ locals' = locals /\ loops' = loops
  /\ suites'[Depth].kind = suites[Depth].kind /\ suites'[Depth].prior = suites[Depth].prior
  /\ suites'[Depth].returns

LEMMA ReturnStep ==
  ASSUME Shape, NEW emitted, NEW skipped, Return(emitted, skipped)
  PROVE  Returning
<1>1. suites # << >> /\ TypeOK
  BY DEF Return, Walking, Shape
<1> DEFINE s == suites[Depth]
           u == [s EXCEPT !.returns = TRUE]
<1>2. s \in SuiteType /\ Depth \in 1 .. Depth /\ suites \in Seq(SuiteType)
  BY <1>1, Inside
<1>3. suites' = [suites EXCEPT ![Depth] = u]
  BY DEF Return, Depth
<1>4. u \in SuiteType /\ u.kind = s.kind /\ u.id = s.id /\ u.prior = s.prior /\ u.returns = TRUE
  BY <1>2 DEF SuiteType
<1> HIDE DEF u
<1>5. suites' \in Seq(SuiteType) /\ Len(suites') = Len(suites) /\ suites'[Depth] = u
      /\ \A i \in 1 .. Depth : i < Depth => suites'[i] = suites[i]
  BY <1>1, <1>2, <1>3, <1>4, Types
<1>6. SameBlock(suites'[Depth], suites[Depth])
  BY <1>4, <1>5 DEF SameBlock, IsLoop, IsChain
<1>7. starts' = starts /\ loops' = loops /\ locals' = locals /\ kind' = kind /\ run' = run
  BY DEF Return
<1>8. Frame
  <2>1. LocalsFrom(starts[Depth])
    BY <1>1, <1>7, LocalsSame, Inside
  <2>2. Depth' = Depth
    BY <1>5 DEF Depth
  <2> QED
    BY <1>1, <1>5, <1>6, <1>7, <2>1, <2>2, FrameStay
<1> QED
  BY <1>1, <1>4, <1>5, <1>7, <1>8 DEF Returning, Depth

LEMMA ReturnNoneStep ==
  ASSUME Shape, ReturnNone
  PROVE  /\ Returning /\ Grown /\ Size' = Size + Len(locals) + 1 /\ Emits(Size, 0)
         /\ IsReturn(code'[Size + Len(locals) + 1], Iterables)
<1> DEFINE x == [Instr("return", 0) EXCEPT !.skips = {} \cup Iterables]
<1>1. Return(Live, {})
  BY DEF ReturnNone
<1>2. code' = code \o Live \o <<x>>
  BY <1>1 DEF Return
<1>3. IsReturn(x, {} \cup Iterables) /\ {} \cup Iterables = Iterables
  BY MadeReturn
<1> HIDE DEF x
<1>4. /\ Grown /\ Size' = Size + Len(locals) + 1 /\ Emits(Size, 0)
      /\ code'[Size + Len(locals) + 1] = x
  BY <1>2, <1>3, EmitsLive DEF IsReturn
<1>5. Returning
  BY <1>1, ReturnStep
<1> QED
  BY <1>3, <1>4, <1>5

LEMMA ReturnLocalStep ==
  ASSUME Shape, NEW n \in Name, ReturnLocal(n)
  PROVE  /\ Returning /\ Grown /\ Size' = Size + Len(locals) + 2 /\ Emits(Size + 1, 0) /\ InScope(n) # {}
         /\ code'[Size + 1] = Instr("take", Visible(n)) /\ Visible(n) \in Nat
         /\ IsReturn(code'[Size + Len(locals) + 2], Iterables)
<1> DEFINE x == [Instr("return", 0) EXCEPT !.skips = {} \cup Iterables]
           t == Instr("take", Visible(n))
<1>1. Return(<<t>> \o Live, {}) /\ InScope(n) # {}
  BY DEF ReturnLocal
<1>2. code' = code \o (<<t>> \o Live) \o <<x>>
  BY <1>1 DEF Return
<1>3. IsReturn(x, {} \cup Iterables) /\ {} \cup Iterables = Iterables
  BY MadeReturn
<1>4. Visible(n) \in Nat
  BY <1>1, VisibleLocal, Types DEF Shape
<1>5. t \in Instruction
  BY <1>4, Made DEF Operation
<1> HIDE DEF x, t
<1>6. /\ Grown /\ Size' = Size + Len(locals) + 2 /\ Emits(Size + 1, 0)
      /\ code'[Size + 1] = t /\ code'[Size + Len(locals) + 2] = x
  BY <1>2, <1>3, <1>5, EmitsTake DEF IsReturn
<1>7. Returning
  BY <1>1, ReturnStep
<1> QED
  BY <1>1, <1>3, <1>4, <1>6, <1>7 DEF t

LEMMA ReturnValueStep ==
  ASSUME Shape, ReturnValue
  PROVE  /\ Returning /\ Grown /\ Size' = Size + 1
         /\ IsReturn(code'[Size + 1], {locals[k] : k \in DOMAIN locals} \cup Iterables)
<1> DEFINE skipped == {locals[k] : k \in DOMAIN locals}
           x == [Instr("return", 0) EXCEPT !.skips = skipped \cup Iterables]
<1>1. Return(<< >>, skipped)
  BY DEF ReturnValue
<1>2. code' = code \o << >> \o <<x>> /\ code \in Seq(Instruction)
  BY <1>1 DEF Return, Shape, TypeOK
<1>3. skipped \in SUBSET Nat
  BY Types DEF Shape
<1> HIDE DEF skipped
<1>4. IsReturn(x, skipped \cup Iterables)
  BY <1>3, MadeReturn
<1> HIDE DEF x
<1>5. code' = Append(code, x)
  <2>1. code \o << >> = code
    BY <1>2
  <2>2. code \o <<x>> = Append(code, x)
    BY <1>2, <1>4 DEF IsReturn
  <2> QED
    BY <1>2, <2>1, <2>2
<1>6. Grown /\ Size' = Size + 1 /\ code'[Size + 1] = x
  BY <1>4, <1>5, GrowOne DEF IsReturn, Shape
<1>7. Returning
  BY <1>1, ReturnStep
<1> QED
  BY <1>4, <1>6, <1>7 DEF skipped

LEMMA EndFunctionStep ==
  ASSUME Shape, EndFunction
  PROVE  /\ suites # << >> /\ Depth = 1 /\ Grown /\ Size' = Size + Len(locals) + 1 /\ Emits(Size, 0)
         /\ code'[Size + Len(locals) + 1] = Instr("return", 0)
         /\ suites' = << >> /\ starts' = << >> /\ locals' = << >> /\ loops' = loops
         /\ pc' = 1 /\ refs' = [k \in 1 .. Size' |-> 0]
         /\ UNCHANGED <<kind, action, result, bad, leaked>>
         /\ kind # "none" => suites[1].returns
<1>1. Depth = 1 /\ TypeOK /\ suites # << >>
  BY Types DEF EndFunction, Shape, Depth
<1>2. Instr("return", 0) \in Instruction /\ code' = code \o Live \o <<Instr("return", 0)>>
  BY Made DEF EndFunction, Operation
<1>3. /\ Grown /\ Size' = Size + Len(locals) + 1 /\ Emits(Size, 0)
      /\ code'[Size + Len(locals) + 1] = Instr("return", 0)
  BY <1>2, EmitsLive
<1>4. locals' = << >>
  <2>1. LastOf(starts) = 0 /\ locals \in Seq(Nat)
    BY <1>1, Inside DEF TypeOK
  <2>2. locals' = SubSeq(locals, 1, 0)
    BY <2>1 DEF EndFunction, PopScope
  <2> QED
    BY <2>1, <2>2
<1>5. refs' = [k \in 1 .. Size' |-> 0]
  <2>1. DOMAIN code' = 1 .. Size'
    BY <1>3 DEF Grown, Size
  <2> QED
    BY <2>1 DEF EndFunction
<1> QED
  BY <1>1, <1>3, <1>4, <1>5 DEF EndFunction, Depth

-----------------------------------------------------------------------------
(***************************************************************************)
(* A step of the generator keeps the shape: it is enough to look at what   *)
(* is new.                                                                 *)
(***************************************************************************)
NewSuite ==
  Depth' > Depth =>
    LET s == suites'[Depth']
    IN /\ s.kind # "function" /\ s.id \in Size + 1 .. Size'
       /\ IsChain(s) => code'[s.id].op = "if" /\ code'[s.id].id = s.id
       /\ IsLoop(s) => code'[s.id].op = "loop" /\ code'[s.id].id = s.id
       /\ s.kind = "for" => s.id > 1 /\ code'[s.id - 1].name = NULL

NewLocals ==
  \A j \in 1 .. Len(locals') : j > Len(locals) =>
    /\ j = Len(locals) + 1 /\ locals'[j] \in Size + 1 .. Size' /\ code'[locals'[j]].name \in Name
    /\ \A k \in 1 .. Len(locals) : code[locals[k]].name = code'[locals'[j]].name =>
         \E i \in 1 .. Depth' : k <= starts'[i] /\ starts'[i] < j

NewLoops ==
  /\ Depth' = Depth => loops' = loops
  /\ Depth' > Depth => loops' = IF IsLoop(suites'[Depth']) THEN Append(loops, suites'[Depth'].id) ELSE loops
  /\ Depth' < Depth => loops' = IF IsLoop(suites[Depth]) THEN ButLast(loops) ELSE loops

NewMarks(k) ==
  code'[k].op \in Marks =>
    /\ \A i \in 1 .. Depth' : suites'[i].id # code'[k].id
    /\ \A j \in Size + 1 .. Size' : code'[j].op = code'[k].op => j = k
    /\ \A j \in Size + 1 .. Size' : code'[j].op \notin Jumps
NewInstruction(k) ==
  /\ code'[k].op \in {"if", "loop"} =>
       code'[k].id = k /\ \E i \in 1 .. Depth' : (IsChain(suites'[i]) \/ IsLoop(suites'[i])) /\ suites'[i].id = k
  /\ code'[k].op \in {"else", "last", "end"} =>
       code'[k].id \in 1 .. Size /\ code[code'[k].id].op = "if" /\ Open(code'[k].id)
  /\ code'[k].op \in {"goto", "label", "next"} =>
       code'[k].id \in 1 .. Size /\ code[code'[k].id].op = "loop" /\ Open(code'[k].id)
  /\ NewMarks(k)
Closes(op) == \E e \in Size + 1 .. Size' : code'[e].op = op /\ code'[e].id = suites[Depth].id
NewTargets ==
  /\ \A k \in Size + 1 .. Size' : NewInstruction(k)
  /\ Depth' < Depth => (IsChain(suites[Depth]) => Closes("end"))
  /\ Depth' < Depth => (IsLoop(suites[Depth]) => Closes("label") /\ Closes("next"))

LEMMA FrameDepth ==
  ASSUME Frame
  PROVE  /\ Depth \in Nat \ {0} /\ Depth' \in Nat \ {0}
         /\ Depth' = Depth \/ Depth' = Depth + 1 \/ Depth' = Depth - 1
         /\ Depth' < Depth <=> Depth' = Depth - 1
         /\ Depth' > Depth <=> Depth' = Depth + 1
<1>1. Depth \in Nat \ {0} /\ Depth' \in Nat \ {0} /\ Depth' <= Depth + 1 /\ Depth <= Depth' + 1
  BY DEF Frame, SuitesFrame
<1> DEFINE d == Depth
           e == Depth'
<1>2. d \in Nat \ {0} /\ e \in Nat \ {0} /\ e <= d + 1 /\ d <= e + 1
  BY <1>1
<1> HIDE DEF d, e
<1>3. (e = d \/ e = d + 1 \/ e = d - 1) /\ (e < d <=> e = d - 1) /\ (e > d <=> e = d + 1)
  BY <1>2
<1> QED
  BY <1>1, <1>3 DEF d, e

LEMMA FrameSuite ==
  ASSUME Frame, NEW i \in 1 .. Depth, i <= Depth'
  PROVE  SameBlock(suites'[i], suites[i]) /\ starts'[i] = starts[i] /\ i \in 1 .. Depth'
<1>1. i \in 1 .. Depth' /\ starts'[i] = starts[i]
  BY DEF Frame, SuitesFrame, StartsFrame
<1>2. CASE i < Depth'
  <2>1. suites'[i] = suites[i]
    BY <1>2 DEF Frame, SuitesFrame
  <2> QED
    BY <1>1, <2>1 DEF SameBlock
<1>3. CASE i = Depth'
  BY <1>1, <1>3 DEF Frame, SuitesFrame
<1> QED
  BY <1>1, <1>2, <1>3 DEF Frame, SuitesFrame

LEMMA StepTypes ==
  ASSUME Shape, Grown, Frame, loops' \in Seq(Nat)
  PROVE  TypeOK' /\ Halves' /\ suites # << >> /\ suites' # << >> /\ Depth' \in Nat /\ Depth \in Nat /\ Size' \in Nat /\ Size \in Nat
<1>1. suites # << >> /\ suites' # << >> /\ Depth' \in Nat /\ Depth \in Nat /\ Size' \in Nat /\ Size \in Nat
  BY Types DEF Shape, Frame, SuitesFrame, Grown, Depth
<1>2. /\ pc' = pc /\ refs' = refs /\ action' = action /\ result' = result /\ bad' = bad /\ leaked' = leaked
      /\ kind' = kind
  BY DEF Frame, run
<1>3. TypeOK'
  <2>1. LocalsFrom(Len(locals)) \/ LocalsFrom(starts[Depth])
    BY <1>1 DEF Frame, StartsFrame
  <2>2. locals' \in Seq(Nat)
    BY <2>1 DEF LocalsFrom
  <2> QED
    BY <1>2, <2>2 DEF TypeOK, Shape, Frame, SuitesFrame, StartsFrame, Grown
<1>4. Halves'
  BY <1>1, <1>2 DEF Halves, Shape
<1> QED
  BY <1>1, <1>3, <1>4

LEMMA SuitesStep ==
  ASSUME Shape, Grown, Frame, NewSuite, Depth \in Nat, Depth' \in Nat, Size \in Nat, Size' \in Nat, suites # << >>
  PROVE  Suites'
<1> DEFINE At(i) == /\ starts'[i] <= Len(locals')
                    /\ i > 1 => suites'[i].kind # "function" /\ suites'[i].id \in 1 .. Size'
                    /\ IsChain(suites'[i]) => code'[suites'[i].id].op = "if" /\ code'[suites'[i].id].id = suites'[i].id
                    /\ IsLoop(suites'[i]) => code'[suites'[i].id].op = "loop" /\ code'[suites'[i].id].id = suites'[i].id
                    /\ suites'[i].kind = "for" => suites'[i].id > 1 /\ code'[suites'[i].id - 1].name = NULL
<1>1. Suites /\ TypeOK /\ Depth >= 1 /\ Depth' >= 1 /\ Depth \in 1 .. Depth
  BY Inside DEF Shape, Frame, SuitesFrame
<1>2. \A i \in 1 .. Depth : i <= Depth' => SameBlock(suites'[i], suites[i]) /\ starts'[i] = starts[i]
  BY FrameSuite
<1>3. \A i \in 1 .. Depth' : i > Depth => i = Depth' /\ i = Depth + 1
  BY DEF Frame, SuitesFrame
<1>4. Len(starts') = Depth'
  BY DEF Frame, StartsFrame
<1>5. starts'[1] = 0 /\ suites'[1].kind = "function" /\ suites'[1].id = 0
  BY <1>1, <1>2 DEF Suites, SameBlock
<1>6. \A i \in 1 .. Depth : starts[i] \in Nat /\ starts[i] <= starts[Depth] /\ starts[i] <= Len(locals) /\ Len(locals) \in Nat
  <2>1. \A i \in 1 .. Depth : i < Depth \/ i = Depth
    OBVIOUS
  <2> QED
    BY <1>1, <2>1, Types DEF Suites
<1>7. \A i \in 1 .. Depth : i <= Depth' => starts'[i] <= Len(locals')
  <2> SUFFICES ASSUME NEW i \in 1 .. Depth, i <= Depth'
               PROVE  starts[i] <= Len(locals')
    BY <1>2
  <2>1. LocalsFrom(starts[Depth]) \/ LocalsFrom(Len(locals))
    BY DEF Frame, StartsFrame
  <2>2. Len(locals') \in Nat /\ (starts[Depth] <= Len(locals') \/ Len(locals) <= Len(locals'))
    BY <2>1 DEF LocalsFrom
  <2> QED
    BY <1>1, <1>6, <2>2
<1>8. \A i \in 1 .. Depth : i <= Depth' => At(i)
  <2> SUFFICES ASSUME NEW i \in 1 .. Depth, i <= Depth'
               PROVE  At(i)
    OBVIOUS
  <2> DEFINE s == suites[i]
             u == suites'[i]
  <2>1. /\ u.id = s.id /\ (IsLoop(u) <=> IsLoop(s)) /\ (IsChain(u) <=> IsChain(s))
        /\ (u.kind = "for" <=> s.kind = "for") /\ (u.kind = "function" <=> s.kind = "function")
    BY <1>2 DEF SameBlock
  <2>2. /\ i > 1 => s.kind # "function" /\ s.id \in 1 .. Size
        /\ IsChain(s) => code[s.id].op = "if" /\ code[s.id].id = s.id
        /\ IsLoop(s) => code[s.id].op = "loop" /\ code[s.id].id = s.id
        /\ s.kind = "for" => s.id > 1 /\ code[s.id - 1].name = NULL
    BY <1>1 DEF Suites, Has
  <2>3. i = 1 => s.kind = "function"
    BY <1>1 DEF Suites
  <2>4. IsChain(s) \/ IsLoop(s) \/ s.kind = "for" => i > 1
    BY <2>3 DEF IsChain, IsLoop
  <2>5. i > 1 => s.id \in 1 .. Size /\ s.id \in Nat /\ code'[s.id] = code[s.id]
    BY <2>2 DEF Grown
  <2>6. s.kind = "for" => s.id - 1 \in 1 .. Size /\ code'[s.id - 1] = code[s.id - 1]
    <3>1. s.kind = "for" => s.id - 1 \in 1 .. Size
      BY <2>2, <2>4
    <3> QED
      BY <3>1 DEF Grown
  <2>7. i > 1 => s.id \in 1 .. Size'
    BY <2>5 DEF Grown
  <2> HIDE DEF s, u
  <2> QED
    BY <1>7, <2>1, <2>2, <2>4, <2>5, <2>6, <2>7 DEF u
<1>9. Depth' > Depth => At(Depth') /\ suites'[Depth'].id \in Size + 1 .. Size' /\ starts'[Depth'] = Len(locals) /\ Len(locals) <= Len(locals')
  <2> HAVE Depth' > Depth
  <2>1. starts'[Depth'] = Len(locals) /\ Len(locals) <= Len(locals')
    BY DEF Frame, StartsFrame, LocalsFrom
  <2>2. suites'[Depth'].id \in Size + 1 .. Size' /\ suites'[Depth'].id \in 1 .. Size'
    BY DEF NewSuite
  <2> QED
    BY <2>1, <2>2 DEF NewSuite
<1> HIDE DEF At
<1>10. \A i \in 1 .. Depth' : At(i)
  <2> TAKE i \in 1 .. Depth'
  <2>1. CASE i <= Depth
    BY <1>8, <2>1
  <2>2. CASE i > Depth
    BY <1>3, <1>9, <2>2
  <2> QED
    BY <1>1, <2>1, <2>2
<1> USE DEF At
<1>11. \A i, j \in 1 .. Depth' : i < j => starts'[i] <= starts'[j] /\ suites'[i].id < suites'[j].id
  <2> SUFFICES ASSUME NEW i \in 1 .. Depth', NEW j \in 1 .. Depth', i < j
               PROVE  starts'[i] <= starts'[j] /\ suites'[i].id < suites'[j].id
    OBVIOUS
  <2>1. i \in 1 .. Depth /\ starts'[i] = starts[i] /\ suites'[i].id = suites[i].id
    <3>1. i \in 1 .. Depth
      <4> SUFFICES ASSUME i > Depth
                   PROVE  FALSE
        BY <1>1
      <4>1. i = Depth'
        BY <1>3
      <4> QED
        BY <4>1
    <3> QED
      BY <1>2, <3>1 DEF SameBlock
  <2>2. CASE j <= Depth
    <3>1. j \in 1 .. Depth /\ starts'[j] = starts[j] /\ suites'[j].id = suites[j].id
      BY <1>2, <2>2 DEF SameBlock
    <3> QED
      BY <1>1, <2>1, <3>1 DEF Suites
  <2>3. CASE j > Depth
    <3>1. j = Depth' /\ starts'[j] = Len(locals) /\ suites'[j].id \in Size + 1 .. Size'
      BY <1>3, <1>9, <2>3
    <3>2. suites[i].id \in 0 .. Size
      BY <1>1, <2>1 DEF Suites
    <3> QED
      BY <1>6, <2>1, <3>1, <3>2
  <2> QED
    BY <2>2, <2>3
<1> QED
  BY <1>4, <1>5, <1>10, <1>11 DEF Suites, Has

LEMMA LocalsStep ==
  ASSUME Shape, Grown, Frame, NewLocals, Depth \in Nat, Depth' \in Nat, Size \in Nat, Size' \in Nat, suites # << >>
  PROVE  Locals'
<1>1. Locals /\ TypeOK /\ Depth \in 1 .. Depth /\ Len(locals) \in Nat /\ \A i \in 1 .. Depth : starts[i] \in Nat
  BY Inside, Types DEF Shape
<1>2. Len(locals') \in Nat /\ \A j \in 1 .. Len(locals) : j <= Len(locals') => locals'[j] = locals[j]
  <2>1. LocalsFrom(Len(locals)) \/ LocalsFrom(starts[Depth])
    BY DEF Frame, StartsFrame
  <2> QED
    BY <2>1 DEF LocalsFrom
<1> DEFINE n == Len(locals)
           m == Len(locals')
<1>3. \A j \in 1 .. m : j <= n => j \in 1 .. n /\ locals'[j] = locals[j] /\ locals'[j] \in 1 .. Size
                                  /\ code'[locals'[j]] = code[locals[j]] /\ code'[locals'[j]].name \in Name
  BY <1>1, <1>2 DEF Locals, Grown
<1>4. \A j \in 1 .. m : j > n =>
        /\ j = n + 1 /\ locals'[j] \in Size + 1 .. Size' /\ code'[locals'[j]].name \in Name
        /\ \A k \in 1 .. n : code[locals[k]].name = code'[locals'[j]].name =>
             \E i \in 1 .. Depth' : k <= starts'[i] /\ starts'[i] < j
  BY DEF NewLocals
<1> HIDE DEF m
<1>5. \A j \in 1 .. m : locals'[j] \in 1 .. Size' /\ code'[locals'[j]].name \in Name
  <2> TAKE j \in 1 .. m
  <2>1. CASE j <= n
    BY <1>3, <2>1 DEF Grown
  <2>2. CASE j > n
    BY <1>4, <2>2
  <2> QED
    BY <1>1, <1>2, <2>1, <2>2
<1>6. \A j, k \in 1 .. m : j < k => locals'[j] < locals'[k]
  <2> SUFFICES ASSUME NEW j \in 1 .. m, NEW k \in 1 .. m, j < k
               PROVE  locals'[j] < locals'[k]
    OBVIOUS
  <2>1. CASE k <= n
    <3>1. locals'[j] = locals[j] /\ locals'[k] = locals[k] /\ j \in 1 .. n /\ k \in 1 .. n
      BY <1>1, <1>3, <2>1
    <3> QED
      BY <1>1, <3>1 DEF Locals
  <2>2. CASE k > n
    <3>1. k = n + 1 /\ locals'[k] \in Size + 1 .. Size'
      BY <1>4, <2>2
    <3>2. j <= n /\ locals'[j] \in 1 .. Size
      BY <1>1, <1>3, <3>1
    <3> QED
      BY <3>1, <3>2
  <2> QED
    BY <1>1, <2>1, <2>2
<1>7. \A j, k \in 1 .. m : j < k /\ code'[locals'[j]].name = code'[locals'[k]].name =>
        \E i \in 1 .. Depth' : j <= starts'[i] /\ starts'[i] < k
  <2> SUFFICES ASSUME NEW j \in 1 .. m, NEW k \in 1 .. m, j < k,
                      code'[locals'[j]].name = code'[locals'[k]].name
               PROVE  \E i \in 1 .. Depth' : j <= starts'[i] /\ starts'[i] < k
    OBVIOUS
  <2>1. CASE k <= n
    <3>1. j \in 1 .. n /\ k \in 1 .. n /\ code[locals[j]].name = code[locals[k]].name
      <4>1. j <= n /\ k <= n
        BY <1>1, <1>2, <2>1
      <4> QED
        BY <1>3, <4>1
    <3>2. PICK i \in 1 .. Depth : j <= starts[i] /\ starts[i] < k
      BY <1>1, <3>1 DEF Locals
    <3>3. i <= Depth'
      <4> SUFFICES ASSUME i > Depth'
                   PROVE  FALSE
        OBVIOUS
      <4>1. Depth' < Depth /\ i = Depth
        BY FrameDepth
      <4>2. m = starts[Depth]
        BY <4>1 DEF Frame, StartsFrame, m
      <4> QED
        BY <1>1, <3>2, <4>1, <4>2
    <3>4. starts'[i] = starts[i] /\ i \in 1 .. Depth'
      BY <3>3, FrameSuite
    <3> QED
      BY <3>2, <3>4
  <2>2. CASE k > n
    <3>1. k = n + 1 /\ j \in 1 .. n
      BY <1>1, <1>4, <2>2
    <3>2. code[locals[j]].name = code'[locals'[k]].name
      BY <1>3, <3>1
    <3> QED
      BY <1>4, <2>2, <3>1, <3>2
  <2> QED
    BY <1>1, <2>1, <2>2
<1> QED
  BY <1>5, <1>6, <1>7 DEF Locals, m

\* The innermost loop is the last one registered.
LEMMA LastLoop ==
  ASSUME Shape, suites # << >>, NEW i \in 1 .. Depth, IsLoop(suites[i]),
         \A j \in 1 .. Depth : IsLoop(suites[j]) => j <= i
  PROVE  Len(loops) >= 1 /\ loops[Len(loops)] = suites[i].id /\ LastOf(loops) = suites[i].id
<1>1. Loops /\ Suites /\ TypeOK /\ Depth \in Nat
  BY Inside DEF Shape
<1>2. PICK m \in 1 .. Len(loops) : loops[m] = suites[i].id
  BY <1>1 DEF Loops
<1>3. Len(loops) \in Nat /\ Len(loops) >= 1 /\ Len(loops) \in 1 .. Len(loops)
  BY <1>1, <1>2, Types
<1>4. PICK j \in 1 .. Depth : IsLoop(suites[j]) /\ suites[j].id = loops[Len(loops)]
  BY <1>1, <1>3 DEF Loops
<1>5. j <= i
  BY <1>4
<1>6. suites[j].id <= suites[i].id /\ suites[i].id \in Nat /\ suites[j].id \in Nat
  <2>1. j < i \/ j = i
    BY <1>5
  <2>2. suites[i].id \in Nat /\ suites[j].id \in Nat
    BY <1>1, Types DEF SuiteType
  <2> QED
    BY <1>1, <2>1, <2>2 DEF Suites
<1>7. m < Len(loops) => loops[m] < loops[Len(loops)]
  BY <1>1, <1>3 DEF Loops
<1>8. m = Len(loops)
  BY <1>2, <1>3, <1>4, <1>6, <1>7
<1> QED
  BY <1>2, <1>3, <1>8 DEF LastOf

LEMMA LoopsStep ==
  ASSUME Shape, Grown, Frame, NewSuite, NewLoops, Depth \in Nat, Depth' \in Nat, Size \in Nat, Size' \in Nat, suites # << >>
  PROVE  Loops' /\ loops' \in Seq(Nat)
<1>1. Loops /\ TypeOK /\ Suites /\ Depth \in 1 .. Depth /\ loops \in Seq(Nat)
  BY Inside DEF Shape, TypeOK
<1>2. \A i \in 1 .. Depth : i <= Depth' => (IsLoop(suites'[i]) <=> IsLoop(suites[i])) /\ suites'[i].id = suites[i].id
  BY FrameSuite DEF SameBlock
<1>3. \A i \in 1 .. Depth' : i > Depth => i = Depth' /\ i = Depth + 1
  BY DEF Frame, SuitesFrame
<1>4. Depth' = Depth \/ Depth' = Depth + 1 \/ Depth' = Depth - 1
  BY FrameDepth
<1>5. CASE loops' = loops /\ (\A i \in 1 .. Depth' : i > Depth => ~IsLoop(suites'[i]))
           /\ (Depth' < Depth => ~IsLoop(suites[Depth]))
  <2>1. \A i \in 1 .. Depth' : IsLoop(suites'[i]) => i \in 1 .. Depth /\ IsLoop(suites[i]) /\ suites'[i].id = suites[i].id
    BY <1>2, <1>5
  <2>2. \A i \in 1 .. Depth : IsLoop(suites[i]) => i \in 1 .. Depth' /\ IsLoop(suites'[i]) /\ suites'[i].id = suites[i].id
    BY <1>2, <1>4, <1>5
  <2>3. \A i \in 1 .. Depth' : IsLoop(suites'[i]) => \E m \in 1 .. Len(loops') : loops'[m] = suites'[i].id
    BY <1>1, <1>5, <2>1 DEF Loops
  <2>4. \A m \in 1 .. Len(loops') : \E i \in 1 .. Depth' : IsLoop(suites'[i]) /\ suites'[i].id = loops'[m]
    BY <1>1, <1>5, <2>2 DEF Loops
  <2> QED
    BY <1>1, <1>5, <2>3, <2>4 DEF Loops
<1>6. CASE Depth' = Depth + 1 /\ IsLoop(suites'[Depth'])
  <2> DEFINE x == suites'[Depth'].id
  <2>1. x \in Size + 1 .. Size' /\ x \in Nat
    BY <1>6 DEF NewSuite
  <2>2. loops' = Append(loops, x)
    BY <1>6 DEF NewLoops
  <2> HIDE DEF x
  <2>3. /\ loops' \in Seq(Nat) /\ Len(loops') = Len(loops) + 1 /\ Len(loops) \in Nat
        /\ loops'[Len(loops) + 1] = x /\ \A k \in 1 .. Len(loops) : loops'[k] = loops[k]
    BY <1>1, <2>1, <2>2, Added
  <2>4. \A m \in 1 .. Len(loops) : loops[m] \in 0 .. Size
    <3> TAKE m \in 1 .. Len(loops)
    <3>1. PICK i \in 1 .. Depth : IsLoop(suites[i]) /\ suites[i].id = loops[m]
      BY <1>1 DEF Loops
    <3>2. suites[i].id \in 0 .. Size
      BY <1>1 DEF Suites
    <3> QED
      BY <3>1, <3>2
  <2>5. \A i \in 1 .. Depth' : IsLoop(suites'[i]) => \E m \in 1 .. Len(loops') : loops'[m] = suites'[i].id
    <3> SUFFICES ASSUME NEW i \in 1 .. Depth', IsLoop(suites'[i])
                 PROVE  \E m \in 1 .. Len(loops') : loops'[m] = suites'[i].id
      OBVIOUS
    <3>1. CASE i <= Depth
      <4>1. i \in 1 .. Depth /\ IsLoop(suites[i]) /\ suites'[i].id = suites[i].id
        BY <1>2, <3>1
      <4>2. PICK m \in 1 .. Len(loops) : loops[m] = suites[i].id
        BY <1>1, <4>1 DEF Loops
      <4>3. m \in 1 .. Len(loops') /\ loops'[m] = loops[m]
        BY <2>3
      <4> QED
        BY <4>1, <4>2, <4>3
    <3>2. CASE i > Depth
      <4>1. i = Depth' /\ Len(loops) + 1 \in 1 .. Len(loops')
        <5>1. i = Depth'
          BY <1>3, <3>2
        <5> QED
          BY <2>3, <5>1
      <4> QED
        BY <2>3, <4>1 DEF x
    <3> QED
      BY <3>1, <3>2
  <2>6. \A m \in 1 .. Len(loops') : \E i \in 1 .. Depth' : IsLoop(suites'[i]) /\ suites'[i].id = loops'[m]
    <3> TAKE m \in 1 .. Len(loops')
    <3>1. CASE m \in 1 .. Len(loops)
      <4>1. PICK i \in 1 .. Depth : IsLoop(suites[i]) /\ suites[i].id = loops[m]
        BY <1>1, <3>1 DEF Loops
      <4>2. i \in 1 .. Depth' /\ IsLoop(suites'[i]) /\ suites'[i].id = loops[m]
        BY <1>2, <1>6, <4>1
      <4> QED
        BY <2>3, <3>1, <4>2
    <3>2. CASE m = Len(loops) + 1
      <4>1. Depth' \in 1 .. Depth'
        BY <1>1, <1>6
      <4> QED
        BY <1>6, <2>3, <3>2, <4>1 DEF x
    <3> QED
      BY <2>3, <3>1, <3>2
  <2>7. \A m, p \in 1 .. Len(loops') : m < p => loops'[m] < loops'[p]
    <3> SUFFICES ASSUME NEW m \in 1 .. Len(loops'), NEW p \in 1 .. Len(loops'), m < p
                 PROVE  loops'[m] < loops'[p]
      OBVIOUS
    <3>1. m \in 1 .. Len(loops) /\ loops'[m] = loops[m]
      BY <2>3
    <3>2. CASE p \in 1 .. Len(loops)
      BY <1>1, <2>3, <3>1, <3>2 DEF Loops
    <3>3. CASE p = Len(loops) + 1
      BY <2>1, <2>3, <2>4, <3>1, <3>3
    <3>4. p \in 1 .. Len(loops) \/ p = Len(loops) + 1
      <4> PICK q : q = Len(loops)
        OBVIOUS
      <4>1. q \in Nat /\ Len(loops') = q + 1
        BY <2>3
      <4>2. p \in 1 .. q + 1
        BY <4>1
      <4> QED
        BY ONLY <4>1, <4>2, q = Len(loops)
    <3> QED
      BY <3>2, <3>3, <3>4
  <2> QED
    BY <2>3, <2>5, <2>6, <2>7 DEF Loops
<1>7. CASE Depth' = Depth - 1 /\ IsLoop(suites[Depth])
  <2>1. Len(loops) >= 1 /\ loops[Len(loops)] = suites[Depth].id
    BY <1>1, <1>7, LastLoop
  <2>2. loops' = ButLast(loops) /\ loops # << >>
    BY <1>1, <1>7, <2>1, Types DEF NewLoops
  <2>3. /\ loops' \in Seq(Nat) /\ Len(loops') = Len(loops) - 1 /\ Len(loops) \in Nat
        /\ \A k \in 1 .. Len(loops) - 1 : loops'[k] = loops[k]
    BY <1>1, <2>2, WithoutLast
  <2>4. \A i \in 1 .. Depth' : IsLoop(suites'[i]) => \E m \in 1 .. Len(loops') : loops'[m] = suites'[i].id
    <3> SUFFICES ASSUME NEW i \in 1 .. Depth', IsLoop(suites'[i])
                 PROVE  \E m \in 1 .. Len(loops') : loops'[m] = suites'[i].id
      OBVIOUS
    <3>1. i \in 1 .. Depth /\ i < Depth /\ IsLoop(suites[i]) /\ suites'[i].id = suites[i].id
      BY <1>2, <1>7
    <3>2. PICK m \in 1 .. Len(loops) : loops[m] = suites[i].id
      BY <1>1, <3>1 DEF Loops
    <3>3. suites[i].id < suites[Depth].id
      BY <1>1, <3>1 DEF Suites
    <3>4. suites[i].id \in Nat
      BY <1>1, <3>1, Types DEF SuiteType
    <3>5. m # Len(loops)
      BY <2>1, <3>2, <3>3, <3>4
    <3>6. m \in 1 .. Len(loops') /\ loops'[m] = loops[m]
      BY <2>3, <3>5
    <3> QED
      BY <3>1, <3>2, <3>6
  <2>5. \A m \in 1 .. Len(loops') : \E i \in 1 .. Depth' : IsLoop(suites'[i]) /\ suites'[i].id = loops'[m]
    <3> TAKE m \in 1 .. Len(loops')
    <3>1. m \in 1 .. Len(loops) /\ m < Len(loops) /\ loops'[m] = loops[m] /\ Len(loops) \in 1 .. Len(loops)
      <4> DEFINE l == Len(loops)
      <4>1. m \in 1 .. l - 1 /\ l \in Nat /\ l >= 1
        BY <2>1, <2>3
      <4> HIDE DEF l
      <4>2. m \in 1 .. l /\ m < l /\ l \in 1 .. l /\ m \in 1 .. l - 1
        BY <4>1
      <4> QED
        BY <2>3, <4>2 DEF l
    <3>2. PICK i \in 1 .. Depth : IsLoop(suites[i]) /\ suites[i].id = loops[m]
      BY <1>1, <3>1 DEF Loops
    <3>3. loops[m] < loops[Len(loops)] /\ loops[m] \in Nat
      BY <1>1, <3>1, Types DEF Loops
    <3>4. i # Depth
      BY <2>1, <3>2, <3>3
    <3>5. i \in 1 .. Depth' /\ IsLoop(suites'[i]) /\ suites'[i].id = suites[i].id
      BY <1>2, <1>7, <3>2, <3>4
    <3> QED
      BY <3>1, <3>2, <3>5
  <2>6. \A m, p \in 1 .. Len(loops') : m < p => loops'[m] < loops'[p]
    <3>1. \A m \in 1 .. Len(loops') : m \in 1 .. Len(loops) /\ loops'[m] = loops[m]
      <4> DEFINE l == Len(loops)
      <4>1. Len(loops') = l - 1 /\ l \in Nat
        BY <2>3
      <4> HIDE DEF l
      <4>2. \A m \in 1 .. Len(loops') : m \in 1 .. l /\ m \in 1 .. l - 1
        BY <4>1
      <4> QED
        BY <2>3, <4>2 DEF l
    <3> QED
      BY <1>1, <3>1 DEF Loops
  <2> QED
    BY <2>3, <2>4, <2>5, <2>6 DEF Loops
<1>8. (~(Depth' = Depth + 1 /\ IsLoop(suites'[Depth'])) /\ ~(Depth' = Depth - 1 /\ IsLoop(suites[Depth]))) =>
        loops' = loops /\ (\A i \in 1 .. Depth' : i > Depth => ~IsLoop(suites'[i]))
        /\ (Depth' < Depth => ~IsLoop(suites[Depth]))
  BY <1>3, <1>4 DEF NewLoops
<1> QED
  BY <1>5, <1>6, <1>7, <1>8

\* A block that was open stays so, or is the one that ends.
LEMMA OpenStep ==
  ASSUME Shape, Grown, Frame, NewSuite, suites # << >>, NEW k \in 1 .. Size
  PROVE  /\ Open(k)' => Open(k)
         /\ Open(k) => Open(k)' \/ (Depth' < Depth /\ k = suites[Depth].id /\ (IsChain(suites[Depth]) \/ IsLoop(suites[Depth])))
<1>1. \A i \in 1 .. Depth : i <= Depth' =>
        /\ i \in 1 .. Depth' /\ suites'[i].id = suites[i].id
        /\ (IsLoop(suites'[i]) <=> IsLoop(suites[i])) /\ (IsChain(suites'[i]) <=> IsChain(suites[i]))
  BY FrameSuite DEF SameBlock
<1>2. ASSUME NEW i \in 1 .. Depth', IsChain(suites'[i]) \/ IsLoop(suites'[i]), suites'[i].id = k
      PROVE  i \in 1 .. Depth
  <2> SUFFICES ASSUME i > Depth
               PROVE  FALSE
    BY FrameDepth
  <2>1. i = Depth' /\ Depth' > Depth
    BY FrameDepth
  <2>2. suites'[i].id \in Size + 1 .. Size'
    BY <2>1 DEF NewSuite
  <2> QED
    BY <1>2, <2>2, Types DEF Shape
<1>3. Open(k)' => Open(k)
  BY <1>1, <1>2 DEF Open
<1>4. ASSUME NEW i \in 1 .. Depth, IsChain(suites[i]) \/ IsLoop(suites[i]), suites[i].id = k, ~Open(k)'
      PROVE  Depth' < Depth /\ i = Depth
  <2>1. ~(i <= Depth')
    BY <1>1, <1>4 DEF Open
  <2> QED
    BY <2>1, FrameDepth
<1>5. Open(k) => Open(k)' \/ (Depth' < Depth /\ k = suites[Depth].id /\ (IsChain(suites[Depth]) \/ IsLoop(suites[Depth])))
  BY <1>4 DEF Open
<1> QED
  BY <1>3, <1>5

LEMMA TargetsStep ==
  ASSUME Shape, Grown, Frame, NewSuite, NewTargets, Depth \in Nat, Depth' \in Nat, Size \in Nat, Size' \in Nat, suites # << >>
  PROVE  Targets'
<1>1. Targets /\ TypeOK
  BY DEF Shape
<1>2. \A k \in 1 .. Size : k \in 1 .. Size' /\ code'[k] = code[k]
  BY DEF Grown
<1>3. \A k \in 1 .. Size' : k \in 1 .. Size \/ k \in Size + 1 .. Size'
  OBVIOUS
<1>4. \A k \in Size + 1 .. Size' : NewInstruction(k)
  BY DEF NewTargets
<1>5. \A k \in 1 .. Size' : code'[k].op \in {"if", "loop"} => code'[k].id = k
  BY <1>1, <1>2, <1>3, <1>4 DEF Targets, NewInstruction
<1>6. \A k \in 1 .. Size' : code'[k].op = "if" =>
        Open(k)' \/ \E e \in 1 .. Size' : code'[e].op = "end" /\ code'[e].id = k
  <2> SUFFICES ASSUME NEW k \in 1 .. Size', code'[k].op = "if"
               PROVE  Open(k)' \/ \E e \in 1 .. Size' : code'[e].op = "end" /\ code'[e].id = k
    OBVIOUS
  <2>1. CASE k \in Size + 1 .. Size'
    BY <1>4, <2>1 DEF NewInstruction, Open
  <2>2. CASE k \in 1 .. Size
    <3>1. Open(k) \/ \E e \in 1 .. Size : code[e].op = "end" /\ code[e].id = k
      BY <1>1, <1>2, <2>2 DEF Targets, Marked, Has
    <3>2. CASE \E e \in 1 .. Size : code[e].op = "end" /\ code[e].id = k
      BY <1>2, <3>2
    <3>3. CASE Open(k) /\ ~Open(k)'
      <4>1. Depth' < Depth /\ k = suites[Depth].id /\ (IsChain(suites[Depth]) \/ IsLoop(suites[Depth]))
        BY <2>2, <3>3, OpenStep
      <4>2. IsChain(suites[Depth])
        <5>1. code[k].op = "if" /\ Suites /\ Depth \in 1 .. Depth
          BY <1>2, <2>2, Inside DEF Shape
        <5>2. IsLoop(suites[Depth]) => code[suites[Depth].id].op = "loop"
          BY <5>1 DEF Suites, Has
        <5> QED
          BY <4>1, <5>1, <5>2
      <4>3. Closes("end")
        BY <4>1, <4>2 DEF NewTargets
      <4> QED
        BY <4>1, <4>3 DEF Closes
    <3> QED
      BY <3>1, <3>2, <3>3
  <2> QED
    BY <1>3, <2>1, <2>2
<1>7. \A k \in 1 .. Size' : code'[k].op = "loop" =>
        Open(k)' \/ ((\E e \in 1 .. Size' : code'[e].op = "label" /\ code'[e].id = k)
                      /\ (\E e \in 1 .. Size' : code'[e].op = "next" /\ code'[e].id = k))
  <2> SUFFICES ASSUME NEW k \in 1 .. Size', code'[k].op = "loop", ~Open(k)'
               PROVE  ((\E e \in 1 .. Size' : code'[e].op = "label" /\ code'[e].id = k)
                      /\ (\E e \in 1 .. Size' : code'[e].op = "next" /\ code'[e].id = k))
    OBVIOUS
  <2>1. CASE k \in Size + 1 .. Size'
    BY <1>4, <2>1 DEF NewInstruction, Open
  <2>2. CASE k \in 1 .. Size
    <3>1. Open(k) \/ ((\E e \in 1 .. Size : code[e].op = "label" /\ code[e].id = k)
                      /\ (\E e \in 1 .. Size : code[e].op = "next" /\ code[e].id = k))
      BY <1>1, <1>2, <2>2 DEF Targets, Marked, Has
    <3>2. CASE ~Open(k)
      BY <1>2, <3>1, <3>2
    <3>3. CASE Open(k)
      <4>1. Depth' < Depth /\ k = suites[Depth].id /\ (IsChain(suites[Depth]) \/ IsLoop(suites[Depth]))
        BY <2>2, <3>3, OpenStep
      <4>2. IsLoop(suites[Depth])
        <5>1. code[k].op = "loop" /\ Suites /\ Depth \in 1 .. Depth
          BY <1>2, <2>2, Inside DEF Shape
        <5>2. IsChain(suites[Depth]) => code[suites[Depth].id].op = "if"
          BY <5>1 DEF Suites, Has
        <5> QED
          BY <4>1, <5>1, <5>2
      <4>3. Closes("label") /\ Closes("next")
        BY <4>1, <4>2 DEF NewTargets
      <4> QED
        BY <4>1, <4>3 DEF Closes
    <3> QED
      BY <3>2, <3>3
  <2> QED
    BY <1>3, <2>1, <2>2
<1>8. \A k \in 1 .. Size' : code'[k].op \in {"else", "last", "end"} =>
        code'[k].id \in 1 .. k - 1 /\ code'[code'[k].id].op = "if"
  <2> SUFFICES ASSUME NEW k \in 1 .. Size', code'[k].op \in {"else", "last", "end"}
               PROVE  code'[k].id \in 1 .. k - 1 /\ code'[code'[k].id].op = "if"
    OBVIOUS
  <2>1. CASE k \in Size + 1 .. Size'
    BY <1>2, <1>4, <2>1 DEF NewInstruction
  <2>2. CASE k \in 1 .. Size
    <3>1. code[k].id \in 1 .. k - 1 /\ code[code[k].id].op = "if"
      BY <1>1, <1>2, <2>2 DEF Targets
    <3>2. code[k].id \in 1 .. Size
      BY <2>2, <3>1
    <3> QED
      BY <1>2, <2>2, <3>1, <3>2
  <2> QED
    BY <1>3, <2>1, <2>2
<1>9. \A k \in 1 .. Size' : code'[k].op \in {"goto", "label", "next"} =>
        code'[k].id \in 1 .. k - 1 /\ code'[code'[k].id].op = "loop"
  <2> SUFFICES ASSUME NEW k \in 1 .. Size', code'[k].op \in {"goto", "label", "next"}
               PROVE  code'[k].id \in 1 .. k - 1 /\ code'[code'[k].id].op = "loop"
    OBVIOUS
  <2>1. CASE k \in Size + 1 .. Size'
    BY <1>2, <1>4, <2>1 DEF NewInstruction
  <2>2. CASE k \in 1 .. Size
    <3>1. code[k].id \in 1 .. k - 1 /\ code[code[k].id].op = "loop"
      BY <1>1, <1>2, <2>2 DEF Targets
    <3>2. code[k].id \in 1 .. Size
      BY <2>2, <3>1
    <3> QED
      BY <1>2, <2>2, <3>1, <3>2
  <2> QED
    BY <1>3, <2>1, <2>2
\* Marks: the block of each is no longer open.
<1>10. \A k \in 1 .. Size : code[k].op \in Marks => code[k].id \in 1 .. Size /\ ~Open(code[k].id)
  BY <1>1 DEF Targets, Marks
<1>11. \A k \in Size + 1 .. Size' : code'[k].op \in Marks \cup Jumps => Open(code'[k].id)
  BY <1>4 DEF NewInstruction, Marks, Jumps
<1>12. \A k \in 1 .. Size' : code'[k].op \in Marks =>
         \A i \in 1 .. Depth' : IsChain(suites'[i]) \/ IsLoop(suites'[i]) => suites'[i].id # code'[k].id
  <2> SUFFICES ASSUME NEW k \in 1 .. Size', code'[k].op \in Marks,
                      NEW i \in 1 .. Depth', IsChain(suites'[i]) \/ IsLoop(suites'[i]), suites'[i].id = code'[k].id
               PROVE  FALSE
    OBVIOUS
  <2>1. CASE k \in Size + 1 .. Size'
    BY <1>4, <2>1 DEF NewInstruction, NewMarks
  <2>2. CASE k \in 1 .. Size
    <3>1. PICK h \in 1 .. Size : h = code[k].id
      BY <1>2, <1>10, <2>2
    <3>2. Open(h)'
      BY <1>2, <2>2, <3>1 DEF Open
    <3>3. Open(h)
      BY <3>2, OpenStep
    <3> QED
      BY <1>2, <1>10, <2>2, <3>1, <3>3
  <2> QED
    BY <1>3, <2>1, <2>2
<1>13. \A j, k \in 1 .. Size' :
         code'[k].op \in Marks /\ code'[j].op = code'[k].op /\ code'[j].id = code'[k].id => j = k
  <2> SUFFICES ASSUME NEW j \in 1 .. Size', NEW k \in 1 .. Size',
                      code'[k].op \in Marks, code'[j].op = code'[k].op, code'[j].id = code'[k].id
               PROVE  j = k
    OBVIOUS
  <2>1. CASE k \in 1 .. Size /\ j \in 1 .. Size
    BY <1>1, <1>2, <2>1 DEF Targets, Has
  <2>2. CASE k \in Size + 1 .. Size' /\ j \in Size + 1 .. Size'
    BY <1>4, <2>2 DEF NewInstruction, NewMarks
  <2>3. CASE k \in Size + 1 .. Size' /\ j \in 1 .. Size
    BY <1>2, <1>10, <1>11, <2>3
  <2>4. CASE k \in 1 .. Size /\ j \in Size + 1 .. Size'
    BY <1>2, <1>10, <1>11, <2>4
  <2> QED
    BY <1>3, <2>1, <2>2, <2>3, <2>4
<1>14. \A j, k \in 1 .. Size' :
         code'[j].op \in Jumps /\ code'[k].op \in Marks /\ code'[j].id = code'[k].id => j < k
  <2> SUFFICES ASSUME NEW j \in 1 .. Size', NEW k \in 1 .. Size',
                      code'[j].op \in Jumps, code'[k].op \in Marks, code'[j].id = code'[k].id
               PROVE  j < k
    OBVIOUS
  <2>1. CASE k \in 1 .. Size /\ j \in 1 .. Size
    BY <1>1, <1>2, <2>1 DEF Targets
  <2>2. CASE k \in Size + 1 .. Size' /\ j \in Size + 1 .. Size'
    BY <1>4, <2>2 DEF NewInstruction, NewMarks
  <2>3. CASE k \in Size + 1 .. Size' /\ j \in 1 .. Size
    BY <2>3
  <2>4. CASE k \in 1 .. Size /\ j \in Size + 1 .. Size'
    BY <1>2, <1>10, <1>11, <2>4
  <2> QED
    BY <1>3, <2>1, <2>2, <2>3, <2>4
<1>15. \A k \in 1 .. Size' : code'[k].op \in Marks =>
         ~\E i \in 1 .. Depth' : (IsChain(suites'[i]) \/ IsLoop(suites'[i])) /\ suites'[i].id = code'[k].id
  BY <1>12
<1> QED
  BY <1>5, <1>6, <1>7, <1>8, <1>9, <1>13, <1>14, <1>15 DEF Targets, Open, Marked, Has

\* What is to be shown of a step of the generator for the shape.
NewShape == Grown /\ Frame /\ NewSuite /\ NewLocals /\ NewLoops /\ NewTargets

LEMMA ShapeStep ==
  ASSUME Shape, NewShape
  PROVE  /\ Shape' /\ suites # << >> /\ suites' # << >>
         /\ Depth' \in Nat /\ Depth \in Nat /\ Size' \in Nat /\ Size \in Nat
<1>1. Grown /\ Frame /\ NewSuite /\ NewLocals /\ NewLoops /\ NewTargets
  BY DEF NewShape
<1>2. Depth' \in Nat /\ Depth \in Nat /\ Size' \in Nat /\ Size \in Nat /\ suites # << >>
  BY <1>1, Types DEF Shape, Frame, SuitesFrame, Grown, Depth
<1>3. Loops' /\ loops' \in Seq(Nat)
  BY <1>1, <1>2, LoopsStep
<1>4. TypeOK' /\ Halves' /\ suites' # << >>
  BY <1>1, <1>3, StepTypes
<1>5. Suites' /\ Locals' /\ Targets'
  BY <1>1, <1>2, SuitesStep, LocalsStep, TargetsStep
<1> QED
  BY <1>2, <1>3, <1>4, <1>5 DEF Shape

LEMMA Plain ==
  ASSUME NEW k, code'[k].op \in {"declare", "release", "take", "return"}
  PROVE  NewInstruction(k)
BY DEF NewInstruction, NewMarks, Marks

LEMMA EmitsPlain ==
  ASSUME NEW q \in Nat, NEW m \in Nat, Emits(q, m), Len(locals) \in Nat, m <= Len(locals),
         NEW k \in q + 1 .. q + (Len(locals) - m)
  PROVE  code'[k].op = "release" /\ NewInstruction(k)
<1>1. k - q \in 1 .. Len(locals) - m /\ q + (k - q) = k
  OBVIOUS
<1>2. code'[k].op = "release"
  BY <1>1 DEF Emits, IsRelease
<1> QED
  BY <1>2, Plain

LEMMA ScopePlain ==
  ASSUME Shape, suites # << >>, Emits(Size, starts[Depth])
  PROVE  \A k \in Size + 1 .. Size + Scope : code'[k].op = "release"
<1>1. PICK q, m : q = Size /\ m = starts[Depth]
  OBVIOUS
<1>2. q \in Nat /\ m \in Nat /\ Len(locals) \in Nat /\ m <= Len(locals) /\ Emits(q, m)
  BY <1>1, Inside, Types DEF Shape
<1>3. \A k \in q + 1 .. q + (Len(locals) - m) : code'[k].op = "release"
  BY ONLY <1>2, EmitsPlain
<1> QED
  BY <1>1, <1>3 DEF Scope

\* The suites around the innermost one are other blocks.
LEMMA OtherBlocks ==
  ASSUME Shape, suites # << >>, Frame, Depth' < Depth
  PROVE  \A i \in 1 .. Depth' : suites'[i].id # suites[Depth].id
<1>1. Suites /\ TypeOK /\ Depth \in 1 .. Depth
  BY Inside DEF Shape
<1> TAKE i \in 1 .. Depth'
<1>2. i \in 1 .. Depth /\ i < Depth /\ i <= Depth'
  BY FrameDepth
<1>3. suites'[i].id = suites[i].id
  BY <1>2, FrameSuite DEF SameBlock
<1>4. suites[i].id < suites[Depth].id /\ suites[i].id \in Nat
  BY <1>1, <1>2, Types DEF Suites, SuiteType
<1>5. suites[Depth].id \in Nat
  BY <1>1, Types DEF SuiteType
<1> QED
  BY <1>3, <1>4, <1>5

\* The innermost block.
LEMMA InnerBlock ==
  ASSUME Shape, suites # << >>
  PROVE  /\ IsChain(suites[Depth]) => /\ suites[Depth].id \in 1 .. Size /\ code[suites[Depth].id].op = "if"
                                      /\ Open(suites[Depth].id)
         /\ IsLoop(suites[Depth]) => /\ suites[Depth].id \in 1 .. Size /\ code[suites[Depth].id].op = "loop"
                                     /\ Open(suites[Depth].id)
<1>1. Suites /\ Depth \in 1 .. Depth /\ Depth \in Nat
  BY Inside DEF Shape
<1>2. IsChain(suites[Depth]) \/ IsLoop(suites[Depth]) => Depth > 1
  BY <1>1, Inside DEF IsChain, IsLoop
<1> QED
  BY <1>1, <1>2 DEF Suites, Has, Open

LEMMA DeclareShape ==
  ASSUME Shape, NEW n \in Name, Declare(n)
  PROVE  NewShape
<1>1. /\ Grown /\ Size' = Size + 1 /\ code'[Size + 1] = Declaration(n)
      /\ suites # << >> /\ Frame /\ suites' = suites /\ starts' = starts /\ loops' = loops /\ Depth' = Depth
      /\ locals' = Append(locals, Size + 1) /\ Registrable(n)
  BY DeclareStep
<1>2. Depth \in 1 .. Depth /\ Depth \in Nat /\ Size \in Nat /\ LastOf(starts) = starts[Depth] /\ starts[Depth] \in 0 .. Len(locals)
      /\ Len(locals) \in Nat
  BY <1>1, Inside, Types DEF Shape
<1>3. NewSuite /\ NewLoops
  BY <1>1, <1>2 DEF NewSuite, NewLoops
<1>4. NewTargets
  <2>1. \A k \in Size + 1 .. Size' : code'[k].op = "declare"
    BY <1>1, <1>2, MadeDeclaration
  <2> QED
    BY <1>1, <1>2, <2>1, Plain DEF NewTargets
<1>5. NewLocals
  <2>1. Len(locals') = Len(locals) + 1 /\ locals'[Len(locals) + 1] = Size + 1
    BY <1>1, <1>2, LocalsAppend DEF Shape
  <2>2. code'[Size + 1].name = n
    BY <1>1, MadeDeclaration
  <2>3. \A k \in 1 .. Len(locals) : code[locals[k]].name = n => k <= starts'[Depth]
    BY <1>1, <1>2 DEF Registrable
  <2>4. \A j \in 1 .. Len(locals') : j > Len(locals) => j = Len(locals) + 1 /\ locals'[j] = Size + 1
    BY <1>2, <2>1
  <2>5. starts'[Depth] < Len(locals) + 1 /\ Depth \in 1 .. Depth'
    BY <1>1, <1>2
  <2>6. \A k \in 1 .. Len(locals) : code[locals[k]].name = n =>
          \E i \in 1 .. Depth' : k <= starts'[i] /\ starts'[i] < Len(locals) + 1
    BY <2>3, <2>5
  <2> QED
    BY <1>1, <1>2, <2>2, <2>4, <2>6 DEF NewLocals
<1> QED
  BY <1>1, <1>3, <1>4, <1>5 DEF NewShape

LEMMA NoNewLocals ==
  ASSUME Len(locals) \in Nat, Len(locals') \in Nat, Len(locals') <= Len(locals)
  PROVE  NewLocals
BY DEF NewLocals

\* A local declared in a suite that is entered.
LEMMA EnterLocals ==
  ASSUME Shape, suites # << >>, Frame, Depth' = Depth + 1, NEW x \in Nat, x \in Size + 1 .. Size', locals' = Append(locals, x),
         code'[x].name \in Name
  PROVE  NewLocals
<1>1. Len(locals') = Len(locals) + 1 /\ locals'[Len(locals) + 1] = x /\ Len(locals) \in Nat
  BY LocalsAppend, Inside DEF Shape
<1>2. \A j \in 1 .. Len(locals') : j > Len(locals) => j = Len(locals) + 1 /\ locals'[j] = x
  BY <1>1
<1>3. starts'[Depth'] = Len(locals) /\ Depth' \in 1 .. Depth'
  BY FrameDepth DEF Frame, StartsFrame
<1>4. \A k \in 1 .. Len(locals) : k <= starts'[Depth'] /\ starts'[Depth'] < Len(locals) + 1
  BY <1>1, <1>3
<1> QED
  BY <1>2, <1>3, <1>4 DEF NewLocals

LEMMA EnterSuite ==
  ASSUME NEW s, suites'[Depth'] = s, NEW x, x \in Size + 1 .. Size', s.id = x, s.kind # "function",
         s.kind \in {"if", "last"} => code'[x].op = "if" /\ code'[x].id = x,
         s.kind \in {"while", "for"} => code'[x].op = "loop" /\ code'[x].id = x,
         s.kind = "for" => x > 1 /\ code'[x - 1].name = NULL
  PROVE  NewSuite
BY DEF NewSuite, IsChain, IsLoop

LEMMA EnterLoop ==
  ASSUME NEW s, suites'[Depth'] = s, Depth \in Nat, Depth' = Depth + 1,
         s.kind \in {"while", "for"}, loops' = Append(loops, s.id)
  PROVE  NewLoops
BY DEF NewLoops, IsLoop

LEMMA BeginIfShape ==
  ASSUME Shape, BeginIf
  PROVE  NewShape
<1>1. /\ Grown /\ Size' = Size + 1 /\ code'[Size + 1] = Instr("if", Size + 1)
      /\ suites # << >> /\ Frame /\ Depth' = Depth + 1 /\ locals' = locals /\ loops' = loops
      /\ suites'[Depth + 1] = Suite("if", Size + 1, TRUE)
  BY BeginIfStep
<1>2. Size \in Nat /\ Depth \in Nat /\ Len(locals) \in Nat /\ Size + 1 \in Nat
  BY <1>1, Inside, Types DEF Shape
<1>3. code'[Size + 1].op = "if" /\ code'[Size + 1].id = Size + 1
  BY <1>1, <1>2, Made DEF Operation
<1> DEFINE s == suites'[Depth']
<1>4. s.kind = "if" /\ s.id = Size + 1 /\ IsChain(s) /\ ~IsLoop(s)
  BY <1>1 DEF Suite, IsChain, IsLoop
<1> HIDE DEF s
<1>5. NewSuite
  <2> DEFINE x == Size + 1
  <2>1. x \in Size + 1 .. Size' /\ s.id = x /\ s.kind # "function" /\ s.kind # "for"
    BY <1>1, <1>2, <1>4
  <2>2. /\ s.kind \in {"if", "last"} => code'[x].op = "if" /\ code'[x].id = x
        /\ s.kind \in {"while", "for"} => code'[x].op = "loop" /\ code'[x].id = x
    BY <1>3, <1>4
  <2>3. suites'[Depth'] = s
    BY DEF s
  <2> HIDE DEF x
  <2> QED
    BY ONLY <2>1, <2>2, <2>3, EnterSuite
<1>6. NewLoops
  BY <1>1, <1>2, <1>4 DEF NewLoops, s
<1>7. NewLocals
  BY <1>1, <1>2, NoNewLocals
<1>8. NewTargets
  <2>1. \A k \in Size + 1 .. Size' : k = Size + 1
    BY <1>1, <1>2
  <2>2. Depth' \in 1 .. Depth' /\ ~(Depth' < Depth)
    BY <1>1, <1>2
  <2>3. NewInstruction(Size + 1)
    BY <1>3, <1>4, <2>2 DEF NewInstruction, NewMarks, Marks, s
  <2> QED
    BY <2>1, <2>2, <2>3 DEF NewTargets
<1> QED
  BY <1>1, <1>5, <1>6, <1>7, <1>8 DEF NewShape

LEMMA BeginWhileShape ==
  ASSUME Shape, BeginWhile
  PROVE  NewShape
<1>1. /\ Grown /\ Size' = Size + 1 /\ code'[Size + 1] = Instr("loop", Size + 1)
      /\ suites # << >> /\ Frame /\ Depth' = Depth + 1 /\ locals' = locals
      /\ loops' = Append(loops, Size + 1)
      /\ suites'[Depth + 1] = Suite("while", Size + 1, FALSE)
  BY BeginWhileStep
<1>2. Size \in Nat /\ Depth \in Nat /\ Len(locals) \in Nat /\ Size + 1 \in Nat
  BY <1>1, Inside, Types DEF Shape
<1>3. code'[Size + 1].op = "loop" /\ code'[Size + 1].id = Size + 1
  BY <1>1, <1>2, Made DEF Operation
<1> DEFINE s == suites'[Depth']
<1>4. s.kind = "while" /\ s.id = Size + 1 /\ ~IsChain(s) /\ IsLoop(s)
  BY <1>1 DEF Suite, IsChain, IsLoop
<1> HIDE DEF s
<1>5. NewSuite
  <2> DEFINE x == Size + 1
  <2>1. x \in Size + 1 .. Size' /\ s.id = x /\ s.kind # "function" /\ s.kind # "for"
    BY <1>1, <1>2, <1>4
  <2>2. /\ s.kind \in {"if", "last"} => code'[x].op = "if" /\ code'[x].id = x
        /\ s.kind \in {"while", "for"} => code'[x].op = "loop" /\ code'[x].id = x
    BY <1>3, <1>4
  <2>3. suites'[Depth'] = s
    BY DEF s
  <2> HIDE DEF x
  <2> QED
    BY ONLY <2>1, <2>2, <2>3, EnterSuite
<1>6. NewLoops
  <2>1. s = suites'[Depth'] /\ loops' = Append(loops, s.id) /\ s.kind \in {"while", "for"}
    BY <1>1, <1>4 DEF s
  <2> QED
    BY ONLY <1>1, <1>2, <2>1, EnterLoop
<1>7. NewLocals
  BY <1>1, <1>2, NoNewLocals
<1>8. NewTargets
  <2>1. \A k \in Size + 1 .. Size' : k = Size + 1
    BY <1>1, <1>2
  <2>2. Depth' \in 1 .. Depth' /\ ~(Depth' < Depth)
    BY <1>1, <1>2
  <2>3. NewInstruction(Size + 1)
    BY <1>3, <1>4, <2>2 DEF NewInstruction, NewMarks, Marks, s
  <2> QED
    BY <2>1, <2>2, <2>3 DEF NewTargets
<1> QED
  BY <1>1, <1>5, <1>6, <1>7, <1>8 DEF NewShape

LEMMA BeginForShape ==
  ASSUME Shape, NEW n \in Name, BeginFor(n)
  PROVE  NewShape
<1>1. /\ Grown /\ Size' = Size + 3 /\ code'[Size + 1] = Declaration(NULL)
      /\ code'[Size + 2] = Instr("loop", Size + 2) /\ code'[Size + 3] = Declaration(n)
      /\ suites # << >> /\ Frame /\ Depth' = Depth + 1
      /\ locals' = Append(locals, Size + 3) /\ loops' = Append(loops, Size + 2)
      /\ suites'[Depth + 1] = Suite("for", Size + 2, FALSE)
  BY BeginForStep
<1>2. Size \in Nat /\ Depth \in Nat /\ Len(locals) \in Nat /\ Size + 2 \in Nat
  <2>1. Size \in Nat /\ Depth \in Nat /\ Len(locals) \in Nat
    BY Types DEF Shape
  <2> QED
    BY <2>1
<1>3. /\ code'[Size + 2].op = "loop" /\ code'[Size + 2].id = Size + 2
      /\ code'[Size + 1].op = "declare" /\ code'[Size + 1].name = NULL
      /\ code'[Size + 3].op = "declare" /\ code'[Size + 3].name = n
  BY <1>1, <1>2, Made, MadeDeclaration DEF Operation
<1> DEFINE s == suites'[Depth']
<1>4. s.kind = "for" /\ s.id = Size + 2 /\ ~IsChain(s) /\ IsLoop(s)
  BY <1>1 DEF Suite, IsChain, IsLoop
<1> HIDE DEF s
<1>5. NewSuite
  <2> DEFINE x == Size + 2
  <2>1. x - 1 = Size + 1 /\ x > 1 /\ x \in Size + 1 .. Size'
    BY <1>1, <1>2
  <2>2. code'[x - 1].name = NULL /\ code'[x].op = "loop" /\ code'[x].id = x
    BY <1>3, <2>1
  <2>3. s.id = x /\ s.kind # "function" /\ s.kind \notin {"if", "last"}
    BY <1>4
  <2>4. suites'[Depth'] = s
    BY DEF s
  <2> HIDE DEF x
  <2> QED
    BY ONLY <2>1, <2>2, <2>3, <2>4, EnterSuite
<1>6. NewLoops
  <2>1. s = suites'[Depth'] /\ loops' = Append(loops, s.id) /\ s.kind \in {"while", "for"}
    BY <1>1, <1>4 DEF s
  <2> QED
    BY ONLY <1>1, <1>2, <2>1, EnterLoop
<1>7. NewLocals
  <2> DEFINE x == Size + 3
  <2>1. x \in Nat /\ x \in Size + 1 .. Size' /\ code'[x].name \in Name /\ locals' = Append(locals, x)
    BY <1>1, <1>2, <1>3
  <2> HIDE DEF x
  <2> QED
    BY <1>1, <2>1, EnterLocals
<1>8. NewTargets
  <2>1. \A k \in Size + 1 .. Size' : k = Size + 1 \/ k = Size + 2 \/ k = Size + 3
    BY <1>1, <1>2
  <2>2. Depth' \in 1 .. Depth' /\ ~(Depth' < Depth)
    BY <1>1, <1>2
  <2>3. NewInstruction(Size + 2)
    BY <1>3, <1>4, <2>2 DEF NewInstruction, NewMarks, Marks, s
  <2>4. NewInstruction(Size + 1) /\ NewInstruction(Size + 3)
    BY <1>3, Plain
  <2> QED
    BY <2>1, <2>2, <2>3, <2>4 DEF NewTargets
<1> QED
  BY <1>1, <1>5, <1>6, <1>7, <1>8 DEF NewShape

LEMMA BeginWithShape ==
  ASSUME Shape, NEW n \in Name, BeginWith(n)
  PROVE  NewShape
<1>1. /\ Grown /\ Size' = Size + 1 /\ code'[Size + 1] = Declaration(n)
      /\ suites # << >> /\ Frame /\ Depth' = Depth + 1
      /\ locals' = Append(locals, Size + 1) /\ loops' = loops
      /\ suites'[Depth + 1] = Suite("with", Size + 1, FALSE)
  BY BeginWithStep
<1>2. Size \in Nat /\ Depth \in Nat /\ Len(locals) \in Nat /\ Size + 1 \in Nat
  BY <1>1, Inside, Types DEF Shape
<1>3. code'[Size + 1].op = "declare" /\ code'[Size + 1].name = n
  BY <1>1, <1>2, MadeDeclaration
<1> DEFINE s == suites'[Depth']
<1>4. s.kind = "with" /\ s.id = Size + 1 /\ ~IsChain(s) /\ ~IsLoop(s)
  BY <1>1 DEF Suite, IsChain, IsLoop
<1> HIDE DEF s
<1>5. NewSuite
  <2> DEFINE x == Size + 1
  <2>1. x \in Size + 1 .. Size' /\ s.id = x /\ s.kind # "function" /\ s.kind # "for"
    BY <1>1, <1>2, <1>4
  <2>2. /\ s.kind \in {"if", "last"} => code'[x].op = "if" /\ code'[x].id = x
        /\ s.kind \in {"while", "for"} => code'[x].op = "loop" /\ code'[x].id = x
    BY <1>3, <1>4
  <2>3. suites'[Depth'] = s
    BY DEF s
  <2> HIDE DEF x
  <2> QED
    BY ONLY <2>1, <2>2, <2>3, EnterSuite
<1>6. NewLoops
  BY <1>1, <1>2, <1>4 DEF NewLoops, s
<1>7. NewLocals
  <2> DEFINE x == Size + 1
  <2>1. x \in Nat /\ x \in Size + 1 .. Size' /\ code'[x].name \in Name /\ locals' = Append(locals, x)
    BY <1>1, <1>2, <1>3
  <2> HIDE DEF x
  <2> QED
    BY <1>1, <2>1, EnterLocals
<1>8. NewTargets
  <2>1. \A k \in Size + 1 .. Size' : k = Size + 1
    BY <1>1, <1>2
  <2>2. ~(Depth' < Depth)
    BY <1>1, <1>2
  <2>3. NewInstruction(Size + 1)
    BY <1>3, Plain
  <2> QED
    BY <2>1, <2>2, <2>3 DEF NewTargets
<1> QED
  BY <1>1, <1>5, <1>6, <1>7, <1>8 DEF NewShape

\* Nothing is declared, and no suite is entered.
LEMMA NothingEntered ==
  ASSUME Shape, suites # << >>, Frame, Depth' <= Depth, LocalsFrom(starts[Depth]), Len(locals') <= Len(locals)
  PROVE  NewSuite /\ NewLocals
<1>1. Len(locals) \in Nat /\ Len(locals') \in Nat
  BY Inside DEF LocalsFrom
<1>2. ~(Depth' > Depth)
  BY FrameDepth
<1> QED
  BY <1>1, <1>2, NoNewLocals DEF NewSuite

LEMMA PrefixLocals ==
  ASSUME Shape, suites # << >>, Frame, locals' = SubSeq(locals, 1, starts[Depth])
  PROVE  LocalsFrom(starts[Depth]) /\ Len(locals') = starts[Depth] /\ Len(locals') <= Len(locals)
<1>1. starts[Depth] \in 0 .. Len(locals) /\ Len(locals) \in Nat /\ locals \in Seq(Nat)
  BY Inside DEF Shape, TypeOK
<1>2. /\ locals' \in Seq(Nat) /\ Len(locals') = starts[Depth]
      /\ \A j \in 1 .. starts[Depth] : locals'[j] = locals[j]
  BY <1>1, Prefix
<1> QED
  BY <1>1, <1>2 DEF LocalsFrom

LEMMA BranchShape ==
  ASSUME Shape, NEW k \in {"else", "last"}, Branch(k)
  PROVE  NewShape
<1> DEFINE id == suites[Depth].id
<1>1. /\ Grown /\ Scope \in Nat /\ Size' = Size + Scope + 1 /\ Emits(Size, starts[Depth])
      /\ code'[Size + Scope + 1] = Instr(k, id)
      /\ suites # << >> /\ suites[Depth].kind = "if" /\ Frame /\ Depth' = Depth /\ Depth > 1
      /\ locals' = SubSeq(locals, 1, starts[Depth]) /\ loops' = loops
  BY BranchStep
<1>2. Size \in Nat /\ Depth \in Nat /\ Len(locals) \in Nat /\ starts[Depth] \in Nat /\ starts[Depth] <= Len(locals)
  BY <1>1, Inside, Types DEF Shape
<1>3. NewSuite /\ NewLocals
  BY <1>1, <1>2, PrefixLocals, NothingEntered
<1>4. NewLoops
  BY <1>1, <1>2 DEF NewLoops
<1>5. id \in 1 .. Size /\ code[id].op = "if" /\ Open(id)
  BY <1>1, InnerBlock DEF IsChain
<1> HIDE DEF id
<1>6. code'[Size + Scope + 1].op = k /\ code'[Size + Scope + 1].id = id
  BY <1>1, <1>5, Made DEF Operation
<1>7. NewTargets
  <2>1. \A j \in Size + 1 .. Size' : j \in Size + 1 .. Size + (Len(locals) - starts[Depth]) \/ j = Size + Scope + 1
    BY <1>1, <1>2 DEF Scope
  <2>2. NewInstruction(Size + Scope + 1)
    BY <1>5, <1>6 DEF NewInstruction, NewMarks, Marks
  <2>3. ~(Depth' < Depth)
    BY <1>1, <1>2
  <2> QED
    BY <1>1, <1>2, <2>1, <2>2, <2>3, EmitsPlain DEF NewTargets
<1> QED
  BY <1>1, <1>3, <1>4, <1>7 DEF NewShape

LEMMA EndIfShape ==
  ASSUME Shape, EndIf
  PROVE  NewShape
<1> DEFINE id == suites[Depth].id
           e == Size + Scope + 1
<1>1. /\ Grown /\ Scope \in Nat /\ Size' = Size + Scope + 1 /\ Emits(Size, starts[Depth])
      /\ code'[e] = Instr("end", id)
      /\ suites # << >> /\ IsChain(suites[Depth]) /\ Frame /\ Depth' = Depth - 1 /\ Depth > 1
      /\ locals' = SubSeq(locals, 1, starts[Depth]) /\ loops' = loops
  BY EndIfStep
<1>2. Size \in Nat /\ Depth \in Nat /\ Len(locals) \in Nat /\ starts[Depth] \in Nat /\ starts[Depth] <= Len(locals)
  BY <1>1, Inside, Types DEF Shape
<1>3. NewSuite /\ NewLocals
  BY <1>1, <1>2, PrefixLocals, NothingEntered
<1>4. NewLoops
  <2>1. ~IsLoop(suites[Depth])
    BY <1>1 DEF IsChain, IsLoop
  <2> QED
    BY <1>1, <1>2, <2>1 DEF NewLoops
<1>5. /\ id \in 1 .. Size /\ code[id].op = "if" /\ Open(id)
      /\ \A i \in 1 .. Depth' : suites'[i].id # id
  BY <1>1, <1>2, InnerBlock, OtherBlocks
<1>6. Closes("end") <=> \E j \in Size + 1 .. Size' : code'[j].op = "end" /\ code'[j].id = id
  BY DEF Closes
<1>7. IsLoop(suites[Depth]) => FALSE
  BY <1>1 DEF IsChain, IsLoop
<1> HIDE DEF id
<1>8. code'[e].op = "end" /\ code'[e].id = id /\ e \in Size + 1 .. Size'
  BY <1>1, <1>2, <1>5, Made DEF Operation
<1>9. \A j \in Size + 1 .. Size' : j # e => code'[j].op = "release" /\ NewInstruction(j)
  <2>1. \A j \in Size + 1 .. Size' : j # e => j \in Size + 1 .. Size + (Len(locals) - starts[Depth])
    BY <1>1, <1>2 DEF Scope
  <2> QED
    BY <1>1, <1>2, <2>1, EmitsPlain
<1> HIDE DEF e
<1>10. NewInstruction(e)
  <2>1. NewMarks(e)
    BY <1>5, <1>8, <1>9 DEF NewMarks, Jumps
  <2> QED
    BY <1>5, <1>8, <2>1 DEF NewInstruction
<1>11. NewTargets
  BY <1>6, <1>7, <1>8, <1>9, <1>10 DEF NewTargets
<1> QED
  BY <1>1, <1>3, <1>4, <1>11 DEF NewShape

LEMMA EndLoopShape ==
  ASSUME Shape, EndLoop
  PROVE  NewShape
<1> DEFINE id == suites[Depth].id
           extra == IF suites[Depth].kind = "for" THEN 1 ELSE 0
           l == Size + 1
           e == Size + Scope + 2
<1>1. /\ Grown /\ Scope \in Nat /\ Size' = Size + Scope + 2 + extra
      /\ code'[l] = Instr("label", id) /\ Emits(Size + 1, starts[Depth])
      /\ code'[e] = Instr("next", id)
      /\ suites[Depth].kind = "for" => id - 1 \in Nat /\ code'[Size + Scope + 3] = Instr("release", id - 1)
      /\ suites # << >> /\ IsLoop(suites[Depth]) /\ Frame /\ Depth' = Depth - 1 /\ Depth > 1
      /\ locals' = SubSeq(locals, 1, starts[Depth]) /\ loops' = ButLast(loops)
  BY EndLoopStep
<1>2. Size \in Nat /\ Depth \in Nat /\ Len(locals) \in Nat /\ starts[Depth] \in Nat /\ starts[Depth] <= Len(locals)
  BY <1>1, Inside, Types DEF Shape
<1>3. NewSuite /\ NewLocals
  BY <1>1, <1>2, PrefixLocals, NothingEntered
<1>4. NewLoops
  BY <1>1, <1>2 DEF NewLoops
<1>5. /\ id \in 1 .. Size /\ code[id].op = "loop" /\ Open(id)
      /\ \A i \in 1 .. Depth' : suites'[i].id # id
  BY <1>1, <1>2, InnerBlock, OtherBlocks
<1>6. \A op \in {"label", "next"} : Closes(op) <=> \E j \in Size + 1 .. Size' : code'[j].op = op /\ code'[j].id = id
  BY DEF Closes
<1>7. IsChain(suites[Depth]) => FALSE
  BY <1>1 DEF IsChain, IsLoop
<1>8. suites[Depth].kind = "for" => code'[Size + Scope + 3].op = "release"
  BY <1>1, Made DEF Operation
<1>9. \A j \in Size + 1 .. Size' : j # l /\ j # e => j \in Size + 1 + 1 .. Size + 1 + (Len(locals) - starts[Depth])
                                                     \/ (j = Size + Scope + 3 /\ suites[Depth].kind = "for")
  <2>1. Len(locals) - starts[Depth] = Scope
    BY DEF Scope
  <2>2. CASE suites[Depth].kind = "for"
    <3>1. Size' = Size + Scope + 3
      BY <1>1, <1>2, <2>2
    <3>2. \A j \in Size + 1 .. Size' : j # Size + 1 /\ j # Size + Scope + 2 => j \in Size + 1 + 1 .. Size + 1 + Scope \/ j = Size + Scope + 3
      BY <1>1, <1>2, <3>1
    <3> QED
      BY <2>1, <2>2, <3>2
  <2>3. CASE suites[Depth].kind # "for"
    <3>1. Size' = Size + Scope + 2
      BY <1>1, <1>2, <2>3
    <3>2. \A j \in Size + 1 .. Size' : j # Size + 1 /\ j # Size + Scope + 2 => j \in Size + 1 + 1 .. Size + 1 + Scope
      BY <1>1, <1>2, <3>1
    <3> QED
      BY <2>1, <3>2
  <2> QED
    BY <2>2, <2>3
<1>10. l \in Size + 1 .. Size' /\ e \in Size + 1 .. Size'
  <2>1. extra \in Nat
    OBVIOUS
  <2> HIDE DEF extra
  <2>2. PICK m : m = Size + Scope + 2 + extra /\ m = Size'
    BY <1>1
  <2>3. l \in Size + 1 .. m /\ e \in Size + 1 .. m
    BY <1>1, <1>2, <2>1, <2>2
  <2> QED
    BY <2>2, <2>3
<1> HIDE DEF id, extra
<1>11. code'[l].op = "label" /\ code'[l].id = id /\ code'[e].op = "next" /\ code'[e].id = id
  BY <1>1, <1>5, Made DEF Operation
<1>12. \A j \in Size + 1 .. Size' : j # l /\ j # e => code'[j].op = "release" /\ NewInstruction(j)
  <2> SUFFICES ASSUME NEW j \in Size + 1 .. Size', j # l, j # e
               PROVE  code'[j].op = "release"
    BY Plain
  <2> DEFINE q == Size + 1
  <2>1. q \in Nat /\ Emits(q, starts[Depth])
    BY <1>1, <1>2
  <2>2. j \in q + 1 .. q + (Len(locals) - starts[Depth]) \/ (j = Size + Scope + 3 /\ suites[Depth].kind = "for")
    BY <1>9
  <2> HIDE DEF q
  <2> QED
    BY <1>2, <1>8, <2>1, <2>2, EmitsPlain
<1> HIDE DEF l, e
<1>13. NewInstruction(l)
  <2>1. NewMarks(l)
    BY <1>5, <1>11, <1>12 DEF NewMarks, Jumps
  <2> QED
    BY <1>5, <1>11, <2>1 DEF NewInstruction
<1>14. NewInstruction(e)
  <2>1. NewMarks(e)
    BY <1>5, <1>11, <1>12 DEF NewMarks, Jumps
  <2> QED
    BY <1>5, <1>11, <2>1 DEF NewInstruction
<1>15. NewTargets
  <2>1. Closes("label") /\ Closes("next")
    BY <1>6, <1>10, <1>11
  <2> QED
    BY <1>7, <1>12, <1>13, <1>14, <2>1 DEF NewTargets
<1> QED
  BY <1>1, <1>3, <1>4, <1>15 DEF NewShape

LEMMA EndWithShape ==
  ASSUME Shape, EndWith
  PROVE  NewShape
<1>1. /\ Grown /\ Scope \in Nat /\ Size' = Size + Scope /\ Emits(Size, starts[Depth])
      /\ suites # << >> /\ suites[Depth].kind = "with" /\ Frame /\ Depth' = Depth - 1 /\ Depth > 1
      /\ locals' = SubSeq(locals, 1, starts[Depth]) /\ loops' = loops
  BY EndWithStep
<1>2. Size \in Nat /\ Depth \in Nat /\ Len(locals) \in Nat /\ starts[Depth] \in Nat /\ starts[Depth] <= Len(locals)
  BY <1>1, Inside, Types DEF Shape
<1>3. NewSuite /\ NewLocals
  BY <1>1, <1>2, PrefixLocals, NothingEntered
<1>4. ~IsLoop(suites[Depth]) /\ ~IsChain(suites[Depth])
  BY <1>1 DEF IsChain, IsLoop
<1>5. NewLoops
  BY <1>1, <1>2, <1>4 DEF NewLoops
<1>6. NewTargets
  <2>1. \A j \in Size + 1 .. Size' : j \in Size + 1 .. Size + (Len(locals) - starts[Depth])
    BY <1>1, <1>2 DEF Scope
  <2> QED
    BY <1>1, <1>2, <1>4, <2>1, EmitsPlain DEF NewTargets
<1> QED
  BY <1>1, <1>3, <1>5, <1>6 DEF NewShape

LEMMA JumpShape ==
  ASSUME Shape, NEW a \in {1, 2}, Jump(a)
  PROVE  NewShape
<1>1. /\ Grown /\ Size' = Size + 1 /\ code'[Size + 1].op = "goto" /\ code'[Size + 1].id = LastOf(loops)
      /\ suites # << >> /\ Frame /\ suites' = suites /\ starts' = starts /\ loops' = loops /\ Depth' = Depth
      /\ locals' = locals /\ \E own \in 1 .. Depth : LoopSuite(own)
  BY JumpStep
<1>2. Size \in Nat /\ Depth \in Nat /\ Len(locals) \in Nat /\ starts[Depth] \in Nat /\ starts[Depth] <= Len(locals)
  BY <1>1, Inside, Types DEF Shape
<1>3. NewSuite /\ NewLocals
  BY <1>1, <1>2, LocalsSame, NothingEntered DEF Shape
<1>4. NewLoops
  BY <1>1, <1>2 DEF NewLoops
<1>5. PICK own \in 1 .. Depth : LoopSuite(own)
  BY <1>1
<1>6. suites[own].id \in 1 .. Size /\ code[suites[own].id].op = "loop" /\ Open(suites[own].id)
  <2>1. own > 1
    BY <1>1, <1>5, Inside DEF LoopSuite, IsLoop
  <2> QED
    BY <1>5, <2>1 DEF LoopSuite, Shape, Suites, Has, Open
<1>7. NewTargets
  <2>1. \A k \in Size + 1 .. Size' : k = Size + 1
    BY <1>1, <1>2
  <2>2. NewInstruction(Size + 1)
    BY <1>1, <1>5, <1>6 DEF NewInstruction, NewMarks, Marks, LoopSuite
  <2>3. ~(Depth' < Depth)
    BY <1>1, <1>2
  <2> QED
    BY <2>1, <2>2, <2>3 DEF NewTargets
<1> QED
  BY <1>1, <1>3, <1>4, <1>7 DEF NewShape

LEMMA ReturnShape ==
  ASSUME Shape, Returning, Grown, \A k \in Size + 1 .. Size' : code'[k].op \in {"take", "release", "return"}
  PROVE  NewShape
<1>1. suites # << >> /\ Frame /\ Depth' = Depth /\ starts' = starts /\ locals' = locals /\ loops' = loops
  BY DEF Returning
<1>2. Size \in Nat /\ Depth \in Nat /\ Len(locals) \in Nat /\ starts[Depth] \in Nat /\ starts[Depth] <= Len(locals)
  BY <1>1, Inside, Types DEF Shape
<1>3. NewSuite /\ NewLocals
  BY <1>1, <1>2, LocalsSame, NothingEntered DEF Shape
<1>4. NewLoops
  BY <1>1, <1>2 DEF NewLoops
<1>5. NewTargets
  BY <1>1, <1>2, Plain DEF NewTargets
<1> QED
  BY <1>1, <1>3, <1>4, <1>5 DEF NewShape

LEMMA ReturnsShape ==
  ASSUME Shape, ReturnNone \/ ReturnValue \/ \E n \in Name : ReturnLocal(n)
  PROVE  NewShape
<1>1. Size \in Nat /\ Len(locals) \in Nat
  BY Types DEF Shape
<1>2. CASE ReturnNone
  <2>1. /\ Returning /\ Grown /\ Size' = Size + Len(locals) + 1 /\ Emits(Size, 0)
        /\ IsReturn(code'[Size + Len(locals) + 1], Iterables)
    BY <1>2, ReturnNoneStep
  <2> DEFINE m == 0
  <2>2. m \in Nat /\ m <= Len(locals) /\ Emits(Size, m)
    BY <1>1, <2>1
  <2>3. \A k \in Size + 1 .. Size' : k \in Size + 1 .. Size + (Len(locals) - m) \/ k = Size + Len(locals) + 1
    BY <1>1, <2>1
  <2> HIDE DEF m
  <2>4. \A k \in Size + 1 .. Size' : code'[k].op \in {"release", "return"}
    BY <1>1, <2>1, <2>2, <2>3, EmitsPlain DEF IsReturn
  <2> QED
    BY <2>1, <2>4, ReturnShape
<1>3. CASE ReturnValue
  <2>1. /\ Returning /\ Grown /\ Size' = Size + 1
        /\ IsReturn(code'[Size + 1], {locals[k] : k \in DOMAIN locals} \cup Iterables)
    BY <1>3, ReturnValueStep
  <2>2. \A k \in Size + 1 .. Size' : code'[k].op = "return"
    <3>1. \A k \in Size + 1 .. Size' : k = Size + 1
      BY <1>1, <2>1
    <3> QED
      BY <2>1, <3>1 DEF IsReturn
  <2> QED
    BY <2>1, <2>2, ReturnShape
<1>4. ASSUME NEW n \in Name, ReturnLocal(n)
      PROVE  NewShape
  <2>1. /\ Returning /\ Grown /\ Size' = Size + Len(locals) + 2 /\ Emits(Size + 1, 0)
        /\ code'[Size + 1] = Instr("take", Visible(n)) /\ Visible(n) \in Nat
        /\ IsReturn(code'[Size + Len(locals) + 2], Iterables)
    BY <1>4, ReturnLocalStep
  <2> DEFINE m == 0
             q == Size + 1
  <2>2. m \in Nat /\ m <= Len(locals) /\ q \in Nat /\ Emits(q, m)
    BY <1>1, <2>1
  <2>3. \A k \in Size + 1 .. Size' : k = Size + 1 \/ k \in q + 1 .. q + (Len(locals) - m) \/ k = Size + Len(locals) + 2
    BY <1>1, <2>1
  <2>4. code'[Size + 1].op = "take"
    BY <2>1, Made DEF Operation
  <2> HIDE DEF m, q
  <2>5. \A k \in Size + 1 .. Size' : code'[k].op \in {"take", "release", "return"}
    BY <1>1, <2>1, <2>2, <2>3, <2>4, EmitsPlain DEF IsReturn
  <2> QED
    BY <2>1, <2>5, ReturnShape
<1> QED
  BY <1>2, <1>3, <1>4

-----------------------------------------------------------------------------
(***************************************************************************)
(* The locals that hold a reference.                                       *)
(***************************************************************************)
\* Those held when the first m locals and the iterables are.
Left(m) == First(m) \cup Iter(Depth)

LEMMA IterFacts ==
  ASSUME Shape, NEW i \in 1 .. Depth, NEW d \in Iter(i)
  PROVE  d \in 1 .. Size /\ code[d].name = NULL
<1>1. PICK k \in 1 .. i : suites[k].kind = "for" /\ d = suites[k].id - 1
  BY DEF Iter
<1>2. k \in 1 .. Depth /\ Suites /\ suites # << >>
  BY <1>1, Types DEF Shape
<1>3. k > 1
  BY <1>1, <1>2 DEF Suites
<1>4. suites[k].id \in 1 .. Size /\ suites[k].id > 1 /\ code[suites[k].id - 1].name = NULL
  BY <1>1, <1>2, <1>3 DEF Suites
<1> QED
  BY <1>1, <1>4, Types DEF Shape

LEMMA LocalFacts ==
  ASSUME Shape
  PROVE  /\ \A j \in 1 .. Len(locals) : locals[j] \in 1 .. Size /\ code[locals[j]].name \in Name /\ code[locals[j]].name # NULL
         /\ \A j, k \in 1 .. Len(locals) : locals[j] = locals[k] => j = k
         /\ \A j, k \in 1 .. Len(locals) : j < k => locals[j] < locals[k]
<1>1. Locals
  BY DEF Shape
<1>2. \A j \in 1 .. Len(locals) : locals[j] \in 1 .. Size /\ code[locals[j]].name \in Name /\ code[locals[j]].name # NULL
  BY <1>1, NameAssumption DEF Locals
<1>3. \A j, k \in 1 .. Len(locals) : j < k => locals[j] < locals[k]
  BY <1>1 DEF Locals
<1>4. \A j, k \in 1 .. Len(locals) : locals[j] = locals[k] => j = k
  <2> SUFFICES ASSUME NEW j \in 1 .. Len(locals), NEW k \in 1 .. Len(locals), locals[j] = locals[k], j # k
               PROVE  FALSE
    OBVIOUS
  <2>1. locals[j] \in Nat
    BY <1>2
  <2>2. j < k \/ k < j
    OBVIOUS
  <2> QED
    BY <1>3, <2>1, <2>2
<1> QED
  BY <1>2, <1>3, <1>4

LEMMA LeftRange ==
  ASSUME Shape, suites # << >>, NEW m \in 0 .. Len(locals)
  PROVE  Left(m) \subseteq 1 .. Size /\ Left(m) \subseteq Own(Depth) /\ Own(Depth) = Left(Len(locals))
<1>1. Own(Depth) = Left(Len(locals))
  BY DEF Own, Left, Kept
<1>2. First(m) \subseteq 1 .. Size /\ First(m) \subseteq First(Len(locals))
  <2>1. \A j \in 1 .. m : j \in 1 .. Len(locals)
    BY Inside
  <2> QED
    BY <2>1, LocalFacts DEF First
<1>3. Iter(Depth) \subseteq 1 .. Size
  BY IterFacts, Inside
<1> QED
  BY <1>1, <1>2, <1>3 DEF Left

\* Releasing the j-th local, when those after it are released.
LEMMA ReleaseLeft ==
  ASSUME Shape, suites # << >>, NEW j \in 1 .. Len(locals), NEW r, IsRelease(r, j)
  PROVE  r.local \in Left(j) /\ Left(j - 1) = Left(j) \ {r.local} /\ r.id \notin Left(j - 1)
<1>1. j \in 1 .. j /\ locals[j] \in Nat /\ r.local = locals[j] /\ Len(locals) \in Nat
  BY LocalFacts, Inside DEF IsRelease
<1>2. First(j) = First(j - 1) \cup {locals[j]}
  <2>1. \A k \in 1 .. j : k \in 1 .. j - 1 \/ k = j
    OBVIOUS
  <2>2. \A k \in 1 .. j - 1 : k \in 1 .. j
    OBVIOUS
  <2> QED
    BY <1>1, <2>1, <2>2 DEF First
<1>3. \A k \in 1 .. j - 1, v \in j .. Len(locals) : locals[k] # locals[v]
  <2>1. \A k \in 1 .. j - 1, v \in j .. Len(locals) : k \in 1 .. Len(locals) /\ v \in 1 .. Len(locals) /\ k # v
    BY <1>1
  <2> QED
    BY <2>1, LocalFacts
<1>4. \A v \in j .. Len(locals) : locals[v] \notin First(j - 1)
  BY <1>3 DEF First
<1>5. \A v \in j .. Len(locals) : locals[v] \notin Iter(Depth)
  <2>1. \A v \in j .. Len(locals) : v \in 1 .. Len(locals)
    OBVIOUS
  <2>2. Depth \in 1 .. Depth
    BY Inside
  <2>3. \A d \in Iter(Depth) : code[d].name = NULL
    BY <2>2, IterFacts
  <2> QED
    BY <2>1, <2>3, LocalFacts
<1>6. PICK v \in j .. Len(locals) : r.id = locals[v]
  BY DEF IsRelease
<1>7. j \in j .. Len(locals)
  OBVIOUS
<1> QED
  BY <1>1, <1>2, <1>4, <1>5, <1>6, <1>7 DEF Left

\* One lemma for each kind of instruction: what makes its edge.
LEMMA MakeDeclare ==
  ASSUME NEW B, NEW k, code'[k].op = "declare", B[k + 1] = B[k] \cup {k}
  PROVE  Edge(B, k)'
BY DEF Edge, EdgeDeclare, EdgeRelease, EdgeTake, EdgePass, EdgeBack, EdgeLabel, EdgeNext, EdgeReturn

LEMMA MakeRelease ==
  ASSUME NEW B, NEW k, code'[k].op = "release", code'[k].local \in B[k],
         B[k + 1] = B[k] \ {code'[k].local}, code'[k].id \notin B[k + 1]
  PROVE  Edge(B, k)'
BY DEF Edge, EdgeDeclare, EdgeRelease, EdgeTake, EdgePass, EdgeBack, EdgeLabel, EdgeNext, EdgeReturn

LEMMA MakePass ==
  ASSUME NEW B, NEW k, code'[k].op \in {"if", "loop"}, B[k + 1] = B[k]
  PROVE  Edge(B, k)'
BY DEF Edge, EdgeDeclare, EdgeRelease, EdgeTake, EdgePass, EdgeBack, EdgeLabel, EdgeNext, EdgeReturn

LEMMA MakeBack ==
  ASSUME NEW B, NEW k, code'[k].op \in {"else", "last", "end"}, B[k + 1] = B[k], B[k] = B[code'[k].id]
  PROVE  Edge(B, k)'
BY DEF Edge, EdgeDeclare, EdgeRelease, EdgeTake, EdgePass, EdgeBack, EdgeLabel, EdgeNext, EdgeReturn

LEMMA MakeGoto ==
  ASSUME NEW B, NEW k, code'[k].op = "goto"
  PROVE  Edge(B, k)'
BY DEF Edge, EdgeDeclare, EdgeRelease, EdgeTake, EdgePass, EdgeBack, EdgeLabel, EdgeNext, EdgeReturn

LEMMA MakeReturn ==
  ASSUME NEW B, NEW k, code'[k].op = "return", B[k] \subseteq code'[k].skips
  PROVE  Edge(B, k)'
BY DEF Edge, EdgeDeclare, EdgeRelease, EdgeTake, EdgePass, EdgeBack, EdgeLabel, EdgeNext, EdgeReturn

LEMMA MakeLabel ==
  ASSUME NEW B, NEW k, code'[k].op = "label", B[k + 1] = B[k],
         \A g \in 1 .. k - 1 : code'[g].op = "goto" /\ code'[g].id = code'[k].id => Brings(B, g, B[k])'
  PROVE  Edge(B, k)'
BY DEF Edge, EdgeDeclare, EdgeRelease, EdgeTake, EdgePass, EdgeBack, EdgeLabel, EdgeNext, EdgeReturn, Has

LEMMA MakeNext ==
  ASSUME NEW B, NEW k, code'[k].op = "next", B[k + 1] = B[k], B[k] = B[code'[k].id],
         NEW head, code'[k].id = head, Clears(B, k, head)'
  PROVE  Edge(B, k)'
<1>1. Clears(B, k, code[k].id)'
  BY DEF Clears, Has
<1> QED
  BY <1>1 DEF Edge, EdgeDeclare, EdgeRelease, EdgeTake, EdgePass, EdgeBack, EdgeLabel, EdgeNext, EdgeReturn

LEMMA MakeTake ==
  ASSUME NEW B, NEW k, code'[k].op = "take", B[k + 1] = B[k], NEW v, code'[k].id = v, v \in B[k],
         NEW r \in 1 .. Size', Leaves(k + 1, r, v, B)'
  PROVE  Edge(B, k)'
<1>1. Leaves(k + 1, r, code[k].id, B)'
  BY DEF Leaves
<1> QED
  BY <1>1 DEF Edge, EdgeDeclare, EdgeRelease, EdgeTake, EdgePass, EdgeBack, EdgeLabel, EdgeNext, EdgeReturn

\* A run of releases.
LEMMA RunEdges ==
  ASSUME Shape, suites # << >>, NEW B, NEW q \in Nat, NEW m \in 0 .. Len(locals), Size <= q, Emits(q, m),
         \A p \in 0 .. Len(locals) - m : B[q + 1 + p] = Left(Len(locals) - p)
  PROVE  /\ \A k \in q + 1 .. q + (Len(locals) - m) : B[k + 1] \subseteq 1 .. k /\ Edge(B, k)'
         /\ B[q + (Len(locals) - m) + 1] = Left(m)
<1>1. Len(locals) \in Nat /\ Size \in Nat
  BY Inside, Types DEF Shape
<1>2. ASSUME NEW k \in q + 1 .. q + (Len(locals) - m)
      PROVE  B[k + 1] \subseteq 1 .. k /\ Edge(B, k)'
  <2> DEFINE p == k - q
             j == Len(locals) + 1 - p
  <2>1. p \in 1 .. Len(locals) - m /\ p \in 0 .. Len(locals) - m /\ p - 1 \in 0 .. Len(locals) - m /\ q + p = k
        /\ q + 1 + p = k + 1 /\ q + 1 + (p - 1) = k /\ j \in 1 .. Len(locals) /\ Len(locals) - p = j - 1
        /\ Len(locals) - (p - 1) = j /\ j - 1 \in 0 .. Len(locals) /\ k > Size
    BY <1>1
  <2>2. IsRelease(code'[q + p], Len(locals) + 1 - p)
    BY <2>1 DEF Emits
  <2>3. B[q + 1 + p] = Left(Len(locals) - p) /\ B[q + 1 + (p - 1)] = Left(Len(locals) - (p - 1))
    BY <2>1
  <2>4. IsRelease(code'[k], j) /\ B[k + 1] = Left(j - 1) /\ B[k] = Left(j)
    BY <2>1, <2>2, <2>3
  <2> HIDE DEF p, j
  <2>5. /\ code'[k].local \in Left(j) /\ Left(j - 1) = Left(j) \ {code'[k].local} /\ code'[k].id \notin Left(j - 1)
        /\ code'[k].op = "release"
    BY <2>1, <2>4, ReleaseLeft DEF IsRelease
  <2>6. Edge(B, k)'
    BY <2>4, <2>5, MakeRelease
  <2>7. Left(j - 1) \subseteq 1 .. Size
    BY <2>1, LeftRange
  <2> QED
    BY <1>1, <2>1, <2>4, <2>6, <2>7
<1>3. B[q + (Len(locals) - m) + 1] = Left(m)
  <2> DEFINE p == Len(locals) - m
  <2>1. p \in 0 .. Len(locals) - m /\ q + 1 + p = q + p + 1 /\ Len(locals) - p = m
    BY <1>1
  <2>2. B[q + 1 + p] = Left(Len(locals) - p)
    BY <2>1
  <2> QED
    BY <2>1, <2>2
<1> QED
  BY <1>2, <1>3

-----------------------------------------------------------------------------
(***************************************************************************)
(* The annotation grows with the code.                                     *)
(***************************************************************************)
Continues(A, B) == \A k \in 1 .. Size + 1 : B[k] = A[k]

LEMMA LeavesKept ==
  ASSUME Grown, Size \in Nat, NEW A, NEW B, Continues(A, B), NEW k \in 1 .. Size + 1, NEW r \in 1 .. Size, NEW v, Leaves(k, r, v, A)
  PROVE  Leaves(k, r, v, B)'
<1>1. /\ r \in k .. Size /\ code[r].op = "return" /\ v \notin A[r]
      /\ \A j \in k .. r - 1 : code[j].op = "release" /\ (code[j].local = v => code[j].id = v)
  BY DEF Leaves
<1>2. r \in k .. Size' /\ code'[r] = code[r] /\ B[r] = A[r]
  BY <1>1 DEF Grown, Continues
<1>3. \A j \in k .. r - 1 : code'[j] = code[j]
  <2>1. \A j \in k .. r - 1 : j \in 1 .. Size
    BY <1>1
  <2> QED
    BY <2>1 DEF Grown
<1> QED
  BY <1>1, <1>2, <1>3 DEF Leaves

LEMMA BringsKept ==
  ASSUME Grown, Size \in Nat, NEW A, NEW B, Continues(A, B), NEW g \in 1 .. Size, NEW old, NEW new, Brings(A, g, old),
         old \subseteq new, \A d \in new : d \in old \/ d > g
  PROVE  Brings(B, g, new)'
<1>1. code'[g] = code[g] /\ B[g] = A[g]
  BY DEF Grown, Continues
<1> QED
  BY <1>1 DEF Brings

LEMMA ClearsKept ==
  ASSUME Grown, Size \in Nat, NEW A, NEW B, Continues(A, B), NEW k \in 1 .. Size, NEW head, Clears(A, k, head)
  PROVE  Clears(B, k, head)'
<1>1. PICK L \in 1 .. k - 1 :
        /\ Has(L, "label", head)
        /\ \A j \in L + 1 .. k - 1 : code[j].op = "release"
        /\ \A d \in A[L] : d > head => \E r \in L .. k - 1 : code[r].op = "release" /\ code[r].local = d
  BY DEF Clears
<1>2. \A j \in 1 .. k - 1 : code'[j] = code[j] /\ B[j] = A[j]
  <2>1. \A j \in 1 .. k - 1 : j \in 1 .. Size
    OBVIOUS
  <2> QED
    BY <2>1 DEF Grown, Continues
<1>3. Has(L, "label", head)'
  BY <1>1, <1>2 DEF Has
<1>4. \A j \in L + 1 .. k - 1 : code'[j].op = "release"
  BY <1>1, <1>2
<1>5. \A d \in B[L] : d > head => \E r \in L .. k - 1 : code'[r].op = "release" /\ code'[r].local = d
  <2>1. \A r \in L .. k - 1 : code'[r] = code[r]
    BY <1>2
  <2> QED
    BY <1>1, <1>2, <2>1
<1> QED
  BY <1>3, <1>4, <1>5 DEF Clears

LEMMA EdgeKept ==
  ASSUME Shape, Grown, Size \in Nat, NEW A, NEW B, Continues(A, B), NEW k \in 1 .. Size, Edge(A, k)
  PROVE  Edge(B, k)'
<1>1. code'[k] = code[k] /\ B[k] = A[k] /\ B[k + 1] = A[k + 1] /\ k + 1 \in 1 .. Size + 1
  BY DEF Grown, Continues
<1>2. EdgeDeclare(B, k)'
  BY <1>1 DEF Edge, EdgeDeclare
<1>3. EdgeRelease(B, k)'
  BY <1>1 DEF Edge, EdgeRelease
<1>4. EdgeTake(B, k)'
  <2> SUFFICES ASSUME code[k].op = "take"
               PROVE  EdgeTake(B, k)'
    BY <1>1 DEF EdgeTake
  <2>1. code[k].id \in A[k] /\ A[k + 1] = A[k] /\ \E r \in 1 .. Size : Leaves(k + 1, r, code[k].id, A)
    BY DEF Edge, EdgeTake
  <2>2. PICK v : v = code[k].id
    OBVIOUS
  <2>3. PICK r \in 1 .. Size : Leaves(k + 1, r, v, A)
    BY <2>1, <2>2
  <2>4. Leaves(k + 1, r, v, B)'
    BY <1>1, <2>3, LeavesKept
  <2>5. r \in 1 .. Size'
    BY DEF Grown
  <2>6. code'[k].op = "take" /\ code'[k].id = v
    BY <1>1, <2>2
  <2> QED
    BY <1>1, <2>1, <2>2, <2>4, <2>5, <2>6, MakeTake DEF Edge
<1>5. EdgePass(B, k)'
  BY <1>1 DEF Edge, EdgePass
<1>6. EdgeBack(B, k)'
  <2> SUFFICES ASSUME code[k].op \in {"else", "last", "end", "next"}
               PROVE  EdgeBack(B, k)'
    BY <1>1 DEF EdgeBack
  <2>1. code[k].id \in 1 .. k - 1
    BY DEF Shape, Targets
  <2>2. code[k].id \in 1 .. Size + 1
    BY <2>1
  <2>3. B[code[k].id] = A[code[k].id]
    BY <2>2 DEF Continues
  <2> QED
    BY <1>1, <2>3 DEF Edge, EdgeBack
<1>7. EdgeLabel(B, k)'
  <2> SUFFICES ASSUME code[k].op = "label", NEW g \in 1 .. k - 1, code'[g].op = "goto", code'[g].id = code[k].id
               PROVE  Brings(B, g, B[k])'
    BY <1>1 DEF EdgeLabel, Has
  <2>1. g \in 1 .. Size /\ code'[g] = code[g]
    BY DEF Grown
  <2>2. Brings(A, g, A[k])
    BY <2>1 DEF Edge, EdgeLabel, Has
  <2> QED
    BY <1>1, <2>1, <2>2, BringsKept
<1>8. EdgeNext(B, k)'
  <2> SUFFICES ASSUME code[k].op = "next"
               PROVE  EdgeNext(B, k)'
    BY <1>1 DEF EdgeNext
  <2>1. PICK head : head = code[k].id
    OBVIOUS
  <2>2. Clears(A, k, head)
    BY <2>1 DEF Edge, EdgeNext
  <2>3. Clears(B, k, head)'
    BY <2>2, ClearsKept
  <2> QED
    BY <1>1, <2>1, <2>3 DEF EdgeNext, Clears, Has
<1>9. EdgeReturn(B, k)'
  BY <1>1 DEF Edge, EdgeReturn
<1> QED
  BY <1>2, <1>3, <1>4, <1>5, <1>6, <1>7, <1>8, <1>9 DEF Edge

LEMMA KeptSuite ==
  ASSUME Shape, suites # << >>, Frame, NEW i \in 1 .. Depth, i <= Depth'
  PROVE  /\ Iter(i)' = Iter(i)
         /\ Base(i)' = Base(i)
         /\ i < Depth \/ Depth' > Depth => Own(i)' = Own(i)
<1>1. \A k \in 1 .. i : (suites'[k].kind = "for" <=> suites[k].kind = "for") /\ suites'[k].id = suites[k].id
  <2>1. \A k \in 1 .. i : k \in 1 .. Depth /\ k <= Depth'
    BY FrameDepth
  <2> QED
    BY <2>1, FrameSuite DEF SameBlock
<1>2. Iter(i)' = Iter(i)
  BY <1>1 DEF Iter
<1>3. /\ \A j \in 1 .. Len(locals) : j <= Len(locals') => locals'[j] = locals[j]
      /\ Len(locals) \in Nat /\ Len(locals') \in Nat
      /\ starts[Depth] <= Len(locals') /\ (Depth' > Depth => Len(locals) <= Len(locals'))
  <2>1. LocalsFrom(starts[Depth]) \/ LocalsFrom(Len(locals))
    BY FrameDepth DEF Frame, StartsFrame
  <2>2. starts[Depth] \in Nat /\ starts[Depth] <= Len(locals) /\ Len(locals) \in Nat
    BY Inside
  <2>3. Depth' > Depth => LocalsFrom(Len(locals))
    BY DEF Frame, StartsFrame
  <2> QED
    BY <2>1, <2>2, <2>3 DEF LocalsFrom
<1>4. ASSUME NEW m \in Nat, m <= Len(locals), m <= Len(locals')
      PROVE  First(m)' = First(m)
  <2>1. \A j \in 1 .. m : locals'[j] = locals[j]
    BY <1>3, <1>4
  <2> QED
    BY <2>1 DEF First
<1>5. \A k \in 1 .. Depth : starts[k] \in Nat /\ starts[k] <= Len(locals) /\ starts[k] <= starts[Depth]
  <2>1. \A k \in 1 .. Depth : k < Depth \/ k = Depth
    BY Inside
  <2> QED
    BY <2>1, Inside, Types DEF Shape, Suites
<1>6. \A k \in 1 .. Depth : starts[k] <= Len(locals')
  BY <1>3, <1>5, Inside
<1>7. Base(i)' = Base(i)
  <2>1. PICK m \in Nat : m = starts[i] /\ m <= Len(locals) /\ m <= Len(locals')
    BY <1>5, <1>6
  <2>2. starts'[i] = m
    BY <2>1, FrameSuite
  <2>3. First(m)' = First(m)
    BY <1>4, <2>1
  <2> QED
    BY <1>2, <2>1, <2>2, <2>3 DEF Base
<1>8. ASSUME i < Depth \/ Depth' > Depth
      PROVE  Own(i)' = Own(i)
  <2>1. Kept(i) \in Nat /\ Kept(i) <= Len(locals) /\ Kept(i) <= Len(locals') /\ Kept(i)' = Kept(i)
    <3>1. CASE i < Depth
      <4>1. i + 1 \in 1 .. Depth /\ i # Depth /\ Kept(i) = starts[i + 1]
        BY <3>1, Inside DEF Kept
      <4>2. CASE i < Depth'
        <5>1. i # Depth' /\ i + 1 <= Depth'
          BY <4>2, FrameDepth
        <5>2. starts'[i + 1] = starts[i + 1]
          BY <4>1, <5>1, FrameSuite
        <5> QED
          BY <1>5, <1>6, <4>1, <5>1, <5>2 DEF Kept
      <4>3. CASE i = Depth'
        <5>1. Depth' < Depth /\ i + 1 = Depth
          BY <3>1, <4>3, FrameDepth
        <5>2. Len(locals') = starts[Depth]
          BY <5>1 DEF Frame, StartsFrame
        <5> QED
          BY <1>5, <1>6, <4>1, <4>3, <5>1, <5>2 DEF Kept
      <4> QED
        BY <4>2, <4>3, FrameDepth
    <3>2. CASE i = Depth
      <4>1. Depth' = Depth + 1 /\ Depth' > Depth
        BY <1>8, <3>2, FrameDepth
      <4>2. starts'[Depth'] = Len(locals)
        BY <4>1 DEF Frame, StartsFrame
      <4>3. i # Depth' /\ i + 1 = Depth'
        BY <3>2, <4>1
      <4> QED
        BY <1>3, <3>2, <4>1, <4>2, <4>3 DEF Kept
    <3> QED
      BY <3>1, <3>2, Inside
  <2>2. PICK m \in Nat : m = Kept(i)
    BY <2>1
  <2>3. First(m)' = First(m)
    BY <1>4, <2>1, <2>2
  <2>4. Kept(i)' = m
    BY <2>1, <2>2
  <2> QED
    BY <1>2, <2>2, <2>3, <2>4 DEF Own
<1> QED
  BY <1>2, <1>7, <1>8

\* What is to be shown of a step of the generator for the annotation B.
NewEdges(B) == \A k \in Size + 1 .. Size' : B[k + 1] \subseteq 1 .. k /\ Edge(B, k)'
NewBase(B) == Depth' > Depth => (IsChain(suites'[Depth']) \/ IsLoop(suites'[Depth']) =>
                                   \A i \in {Depth'} : B[suites'[i].id] = Base(i)')
NewGotos(B) == \A g \in Size + 1 .. Size' : code'[g].op = "goto" =>
  \A i \in 1 .. Depth' : IsLoop(suites'[i]) /\ suites'[i].id = code'[g].id => Brings(B, g, Own(i))'
\* A loop's suite only gains locals.
OwnGrows == Depth' = Depth /\ IsLoop(suites[Depth]) =>
  Own(Depth) \subseteq Own(Depth)' /\ \A d \in Own(Depth)' : d \in Own(Depth) \/ d > Size

LEMMA HeldStep ==
  ASSUME Shape, NewShape, NEW A, NEW B, Held(A), Continues(A, B),
         NewEdges(B), NewBase(B), NewGotos(B), OwnGrows, B[Size' + 1] = Own(Depth)'
  PROVE  Held(B)'
<1>1. /\ Shape' /\ suites # << >> /\ suites' # << >> /\ Grown /\ Frame /\ NewSuite /\ NewTargets
      /\ Depth' \in Nat /\ Depth \in Nat /\ Size' \in Nat /\ Size \in Nat /\ Size <= Size'
  BY ShapeStep DEF NewShape, Grown
<1>2. \A k \in 1 .. Size' : k \in 1 .. Size \/ k \in Size + 1 .. Size'
  BY <1>1
<1>3. B[1] = {}
  <2>1. 1 \in 1 .. Size + 1
    BY <1>1
  <2> QED
    BY <2>1 DEF Held, Continues
<1>4. \A k \in 1 .. Size' + 1 : B[k] \subseteq 1 .. k - 1
  <2> TAKE k \in 1 .. Size' + 1
  <2>1. CASE k <= Size + 1
    BY <1>1, <2>1 DEF Held, Continues
  <2>2. CASE k > Size + 1
    <3>1. k - 1 \in Size + 1 .. Size' /\ (k - 1) + 1 = k
      <4> DEFINE old == Size
                 new == Size'
      <4>1. old \in Nat /\ new \in Nat /\ k \in 1 .. new + 1 /\ k > old + 1
        BY <1>1, <2>2
      <4> HIDE DEF old, new
      <4>2. k - 1 \in old + 1 .. new /\ (k - 1) + 1 = k
        BY <4>1
      <4> QED
        BY <4>2 DEF old, new
    <3> QED
      BY <3>1 DEF NewEdges
  <2> QED
    BY <1>1, <2>1, <2>2
<1>5. \A k \in 1 .. Size' : Edge(B, k)'
  <2> TAKE k \in 1 .. Size'
  <2>1. CASE k \in 1 .. Size
    <3>1. Edge(A, k)
      BY <2>1 DEF Held
    <3> QED
      BY <1>1, <2>1, <3>1, EdgeKept
  <2>2. CASE k \in Size + 1 .. Size'
    BY <2>2 DEF NewEdges
  <2> QED
    BY <1>2, <2>1, <2>2
<1>6. \A i \in 1 .. Depth' : i \in 1 .. Depth \/ (i = Depth' /\ Depth' > Depth)
  BY FrameDepth, <1>1
<1>7. \A i \in 1 .. Depth : i <= Depth' =>
        /\ suites'[i].id = suites[i].id
        /\ (IsLoop(suites'[i]) <=> IsLoop(suites[i])) /\ (IsChain(suites'[i]) <=> IsChain(suites[i]))
  BY <1>1, FrameSuite DEF SameBlock
<1>8. \A i \in 1 .. Depth : IsChain(suites[i]) \/ IsLoop(suites[i]) => suites[i].id \in 1 .. Size
  <2> TAKE i \in 1 .. Depth
  <2>1. IsChain(suites[i]) \/ IsLoop(suites[i]) => i > 1
    BY <1>1, Inside DEF IsChain, IsLoop
  <2> QED
    BY <2>1 DEF Shape, Suites
<1>9. ASSUME NEW i \in 1 .. Depth', IsChain(suites'[i]) \/ IsLoop(suites'[i])
      PROVE  B[suites'[i].id] = Base(i)'
  <2>1. CASE i \in 1 .. Depth
    <3>1. IsChain(suites[i]) \/ IsLoop(suites[i])
      BY <1>7, <1>9, <2>1
    <3>2. suites[i].id \in 1 .. Size + 1 /\ A[suites[i].id] = Base(i)
      BY <1>1, <1>8, <2>1, <3>1 DEF Held, HeldInside
    <3>3. Base(i)' = Base(i)
      BY <1>1, <2>1, KeptSuite
    <3> QED
      BY <1>7, <2>1, <3>2, <3>3 DEF Continues
  <2>2. CASE i = Depth' /\ Depth' > Depth
    BY <1>9, <2>2 DEF NewBase
  <2> QED
    BY <1>6, <2>1, <2>2
<1>10. ASSUME NEW i \in 1 .. Depth', NEW g \in 1 .. Size',
              IsLoop(suites'[i]), code'[g].op = "goto", code'[g].id = suites'[i].id
       PROVE  Brings(B, g, Own(i))'
  <2>1. CASE g \in Size + 1 .. Size'
    BY <1>10, <2>1 DEF NewGotos
  <2>2. CASE g \in 1 .. Size /\ i = Depth' /\ Depth' > Depth
    <3>1. suites'[i].id \in Size + 1 .. Size'
      BY <2>2 DEF NewSuite, NewShape
    <3>2. code'[g] = code[g] /\ code[g].id \in 1 .. g - 1
      BY <1>1, <1>10, <2>2 DEF Grown, Shape, Targets
    <3> QED
      BY <1>1, <1>10, <2>2, <3>1, <3>2
  <2>3. CASE g \in 1 .. Size /\ i \in 1 .. Depth
    <3>1. code'[g] = code[g] /\ IsLoop(suites[i]) /\ suites'[i].id = suites[i].id
      BY <1>1, <1>7, <1>10, <2>3 DEF Grown
    <3>2. Brings(A, g, Own(i))
      BY <1>10, <2>3, <3>1 DEF Held, HeldInside, Has
    <3>3. Own(i) \subseteq Own(i)' /\ \A d \in Own(i)' : d \in Own(i) \/ d > Size
      <4>1. CASE i < Depth \/ Depth' > Depth
        BY <1>1, <2>3, <4>1, KeptSuite
      <4>2. CASE i = Depth /\ Depth' = Depth
        BY <3>1, <4>2 DEF OwnGrows
      <4> QED
        BY <1>1, <2>3, <4>1, <4>2
    <3>4. \A d \in Own(i)' : d \in Own(i) \/ d > g
      <4>1. \A d : d > Size => d > g \/ d \notin Nat
        BY <1>1, <2>3
      <4>2. \A d \in Own(i)' : d \in Nat
        BY DEF Own, First, Iter
      <4> QED
        BY <3>3, <4>1, <4>2
    <3>5. PICK old : old = Own(i)
      OBVIOUS
    <3>6. PICK new : new = Own(i)'
      OBVIOUS
    <3>7. Brings(B, g, new)'
      BY <1>1, <2>3, <3>2, <3>3, <3>4, <3>5, <3>6, BringsKept
    <3> QED
      BY <3>6, <3>7 DEF Brings
  <2> QED
    BY <1>2, <1>6, <2>1, <2>2, <2>3
<1>11. HeldInside(B)'
  <2>1. \A i \in 1 .. Depth' : IsChain(suites'[i]) \/ IsLoop(suites'[i]) => B[suites'[i].id] = Base(i)'
    BY <1>9
  <2>2. \A i \in 1 .. Depth', g \in 1 .. Size' :
          IsLoop(suites'[i]) /\ Has(g, "goto", suites[i].id)' => Brings(B, g, Own(i))'
    BY <1>10 DEF Has
  <2> QED
    BY <2>1, <2>2 DEF HeldInside
<1> QED
  BY <1>3, <1>4, <1>5, <1>11 DEF Held

\* For the steps that emit no jump.
LEMMA NoGotos ==
  ASSUME NEW B, \A g \in Size + 1 .. Size' : code'[g].op # "goto"
  PROVE  NewGotos(B)
BY DEF NewGotos

\* The annotation of the code so far, continued by that of C.
Joins(A, B, C) == Continues(A, B) /\ \A k \in Size + 2 .. Size' + 1 : B[k] = C[k]

LEMMA Extension ==
  ASSUME Size \in Nat, Size' \in Nat, NEW A, NEW C
  PROVE  \E B : Joins(A, B, C)
<1> DEFINE B == [k \in Nat |-> IF k <= Size + 1 THEN A[k] ELSE C[k]]
<1>1. \A k \in 1 .. Size + 1 : B[k] = A[k]
  OBVIOUS
<1>2. \A k \in Size + 2 .. Size' + 1 : B[k] = C[k]
  OBVIOUS
<1>3. PICK D : D = B
  OBVIOUS
<1> QED
  BY <1>1, <1>2, <1>3 DEF Continues, Joins

LEMMA OwnNow == Own(Depth) = First(Len(locals)) \cup Iter(Depth)
BY DEF Own, Kept

LEMMA OwnNext == Own(Depth)' = First(Len(locals))' \cup Iter(Depth)'
BY DEF Own, Kept

LEMMA FirstAppend ==
  ASSUME TypeOK, NEW x \in Nat, locals' = Append(locals, x)
  PROVE  First(Len(locals))' = First(Len(locals)) \cup {x}
<1>1. locals \in Seq(Nat) /\ Len(locals) \in Nat
  BY DEF TypeOK
<1>2. /\ Len(locals') = Len(locals) + 1 /\ locals'[Len(locals) + 1] = x
      /\ \A j \in 1 .. Len(locals) : locals'[j] = locals[j]
  BY <1>1, Added
<1>3. First(Len(locals))' = {d \in Nat : \E j \in 1 .. Len(locals) + 1 : d = locals'[j]}
  BY <1>2 DEF First
<1>4. First(Len(locals)) = {d \in Nat : \E j \in 1 .. Len(locals) : d = locals[j]}
  BY DEF First
<1>5. \A j \in 1 .. Len(locals) + 1 : j \in 1 .. Len(locals) \/ j = Len(locals) + 1
  BY <1>1
<1>6. \A j \in 1 .. Len(locals) : j \in 1 .. Len(locals) + 1
  BY <1>1
<1>7. Len(locals) + 1 \in 1 .. Len(locals) + 1
  BY <1>1
<1> QED
  BY <1>2, <1>3, <1>4, <1>5, <1>6, <1>7

LEMMA FirstSame ==
  ASSUME locals' = locals
  PROVE  First(Len(locals))' = First(Len(locals))
BY DEF First

LEMMA FirstPrefix ==
  ASSUME Shape, suites # << >>, locals' = SubSeq(locals, 1, starts[Depth])
  PROVE  First(Len(locals))' = First(starts[Depth])
<1>1. locals \in Seq(Nat) /\ starts[Depth] \in 0 .. Len(locals)
  BY Inside DEF Shape, TypeOK
<1>2. Len(locals') = starts[Depth] /\ \A j \in 1 .. starts[Depth] : locals'[j] = locals[j]
  BY <1>1, Prefix
<1> QED
  BY <1>2 DEF First

LEMMA IterStay ==
  ASSUME Shape, suites # << >>, Frame, Depth' = Depth
  PROVE  Iter(Depth)' = Iter(Depth)
<1>1. PICK i : i = Depth
  OBVIOUS
<1>2. i \in 1 .. Depth /\ i <= Depth'
  BY <1>1, Inside
<1>3. Iter(i)' = Iter(i)
  BY <1>2, KeptSuite
<1> QED
  BY <1>1, <1>3 DEF Iter

LEMMA IterEnter ==
  ASSUME Shape, suites # << >>, Frame, Depth' = Depth + 1, suites'[Depth'].id - 1 \in Nat \/ suites'[Depth'].kind # "for"
  PROVE  Iter(Depth)' = Iter(Depth) \cup (IF suites'[Depth'].kind = "for" THEN {suites'[Depth'].id - 1} ELSE {})
<1>1. PICK i : i = Depth
  OBVIOUS
<1>2. i \in 1 .. Depth /\ i <= Depth' /\ i \in Nat
  BY <1>1, Inside
<1>3. Iter(i)' = Iter(i)
  BY <1>2, KeptSuite
<1>4. Iter(i)' = {d \in Nat : \E j \in 1 .. i : suites'[j].kind = "for" /\ d = suites'[j].id - 1}
  BY DEF Iter
<1>5. Iter(Depth)' = {d \in Nat : \E j \in 1 .. i + 1 : suites'[j].kind = "for" /\ d = suites'[j].id - 1}
  BY <1>1 DEF Iter
<1>6. (\A j \in 1 .. i + 1 : j \in 1 .. i \/ j = i + 1) /\ (\A j \in 1 .. i : j \in 1 .. i + 1) /\ i + 1 \in 1 .. i + 1
  BY <1>2
<1> QED
  BY <1>1, <1>3, <1>4, <1>5, <1>6

LEMMA IterLeave ==
  ASSUME Shape, suites # << >>, Frame, Depth' = Depth - 1
  PROVE  Iter(Depth) = Iter(Depth)' \cup (IF suites[Depth].kind = "for" THEN {suites[Depth].id - 1} ELSE {})
<1>1. PICK i : i = Depth - 1
  OBVIOUS
<1>2. i \in 1 .. Depth /\ i <= Depth' /\ i \in Nat /\ i + 1 = Depth
  BY <1>1, Inside, FrameDepth
<1>3. Iter(i)' = Iter(i)
  BY <1>2, KeptSuite
<1>4. Iter(i) = {d \in Nat : \E j \in 1 .. i : suites[j].kind = "for" /\ d = suites[j].id - 1}
  BY DEF Iter
<1>5. Iter(Depth) = {d \in Nat : \E j \in 1 .. i + 1 : suites[j].kind = "for" /\ d = suites[j].id - 1}
  BY <1>2 DEF Iter
<1>6. (\A j \in 1 .. i + 1 : j \in 1 .. i \/ j = i + 1) /\ (\A j \in 1 .. i : j \in 1 .. i + 1) /\ i + 1 \in 1 .. i + 1
  BY <1>2
<1>7. Iter(Depth)' = Iter(i)'
  BY <1>1 DEF Iter
<1>8. suites[Depth].kind = "for" => suites[Depth].id - 1 \in Nat
  <2>1. suites[Depth].kind = "for" => suites[Depth].id > 1 /\ suites[Depth].id \in Nat
    BY Inside DEF Shape, Suites, SuiteType
  <2> QED
    BY <2>1
<1> QED
  BY <1>2, <1>3, <1>4, <1>5, <1>6, <1>7, <1>8

LEMMA DeclareHeld ==
  ASSUME Shape, NEW n \in Name, Declare(n), NEW A, Held(A)
  PROVE  \E B : Held(B)'
<1>1. /\ Size' = Size + 1 /\ code'[Size + 1] = Declaration(n) /\ suites # << >> /\ Frame /\ Depth' = Depth
      /\ locals' = Append(locals, Size + 1) /\ suites' = suites
  BY DeclareStep
<1>2. NewShape
  BY DeclareShape
<1>3. Size \in Nat /\ Size' \in Nat /\ TypeOK /\ Size + 1 \in Nat
  BY <1>2, ShapeStep DEF Shape
<1>4. PICK C : C = [k \in Nat |-> A[Size + 1] \cup {Size + 1}]
  OBVIOUS
<1>5. PICK B : Joins(A, B, C)
  BY <1>3, Extension
<1>6. B[Size + 1] = A[Size + 1] /\ B[Size + 2] = A[Size + 1] \cup {Size + 1}
  BY <1>1, <1>3, <1>4, <1>5 DEF Continues, Joins
<1>7. A[Size + 1] = Own(Depth) /\ A[Size + 1] \subseteq 1 .. Size
  BY <1>1, <1>3 DEF Held, HeldInside
<1>8. Own(Depth)' = Own(Depth) \cup {Size + 1}
  BY <1>1, <1>3, OwnNow, OwnNext, FirstAppend, IterStay
<1>9. code'[Size + 1].op = "declare"
  BY <1>1, MadeDeclaration
<1>10. NewEdges(B)
  <2>1. \A k \in Size + 1 .. Size' : k = Size + 1
    BY <1>1, <1>3
  <2>2. B[Size + 2] \subseteq 1 .. Size + 1 /\ (Size + 1) + 1 = Size + 2
    BY <1>3, <1>6, <1>7
  <2>3. PICK e : e = Size + 1
    OBVIOUS
  <2>4. Edge(B, e)'
    BY <1>6, <1>9, <2>2, <2>3, MakeDeclare
  <2> QED
    BY <2>1, <2>2, <2>3, <2>4 DEF NewEdges
<1>11. NewBase(B)
  BY <1>1, Inside DEF NewBase
<1>12. NewGotos(B)
  <2>1. \A k \in Size + 1 .. Size' : k = Size + 1
    BY <1>1, <1>3
  <2> QED
    BY <1>9, <2>1, NoGotos
<1>13. OwnGrows
  BY <1>3, <1>8 DEF OwnGrows
<1>14. B[Size' + 1] = Own(Depth)'
  BY <1>1, <1>3, <1>6, <1>7, <1>8
<1> QED
  BY <1>2, <1>5, <1>10, <1>11, <1>12, <1>13, <1>14, HeldStep DEF Joins

LEMMA BeginHeld ==
  ASSUME Shape, BeginIf \/ BeginWhile, NEW A, Held(A)
  PROVE  \E B : Held(B)'
<1>1. /\ Size' = Size + 1 /\ code'[Size + 1].op \in {"if", "loop"} /\ suites # << >> /\ Frame /\ Depth' = Depth + 1
      /\ locals' = locals /\ suites'[Depth'].id = Size + 1 /\ suites'[Depth'].kind # "for"
      /\ starts'[Depth'] = Len(locals)
  <2>1. CASE BeginIf
    <3>1. /\ Size' = Size + 1 /\ code'[Size + 1] = Instr("if", Size + 1)
          /\ suites # << >> /\ Frame /\ Depth' = Depth + 1 /\ locals' = locals
          /\ suites'[Depth + 1] = Suite("if", Size + 1, TRUE)
      BY <2>1, BeginIfStep
    <3>2. Depth \in Nat
      BY <3>1, Inside
    <3> QED
      BY <3>1, <3>2 DEF Instr, Suite, Frame, StartsFrame
  <2>2. CASE BeginWhile
    <3>1. /\ Size' = Size + 1 /\ code'[Size + 1] = Instr("loop", Size + 1)
          /\ suites # << >> /\ Frame /\ Depth' = Depth + 1 /\ locals' = locals
          /\ suites'[Depth + 1] = Suite("while", Size + 1, FALSE)
      BY <2>2, BeginWhileStep
    <3>2. Depth \in Nat
      BY <3>1, Inside
    <3> QED
      BY <3>1, <3>2 DEF Instr, Suite, Frame, StartsFrame
  <2> QED
    BY <2>1, <2>2
<1>2. NewShape
  BY BeginIfShape, BeginWhileShape
<1>3. Size \in Nat /\ Size' \in Nat /\ TypeOK /\ Size + 1 \in Nat /\ Depth \in Nat
  BY <1>2, ShapeStep DEF Shape
<1>4. PICK C : C = [k \in Nat |-> A[Size + 1]]
  OBVIOUS
<1>5. PICK B : Joins(A, B, C)
  BY <1>3, Extension
<1>6. B[Size + 1] = A[Size + 1] /\ B[Size + 2] = A[Size + 1]
  BY <1>1, <1>3, <1>4, <1>5 DEF Continues, Joins
<1>7. A[Size + 1] = Own(Depth) /\ A[Size + 1] \subseteq 1 .. Size
  BY <1>1, <1>3 DEF Held, HeldInside
<1>8. Own(Depth)' = Own(Depth) /\ Base(Depth)' = Own(Depth)
  <2>1. Iter(Depth)' = Iter(Depth)
    BY <1>1, IterEnter
  <2>2. First(Len(locals))' = First(Len(locals))
    BY <1>1, FirstSame
  <2>3. Base(Depth)' = First(Len(locals)) \cup Iter(Depth)'
    BY <1>1 DEF Base, First
  <2> QED
    BY <2>1, <2>2, <2>3, OwnNow, OwnNext
<1>10. NewEdges(B)
  <2>1. \A k \in Size + 1 .. Size' : k = Size + 1
    BY <1>1, <1>3
  <2>2. B[Size + 2] \subseteq 1 .. Size + 1 /\ (Size + 1) + 1 = Size + 2
    BY <1>3, <1>6, <1>7
  <2>3. PICK e : e = Size + 1
    OBVIOUS
  <2>4. Edge(B, e)'
    BY <1>1, <1>6, <2>2, <2>3, MakePass
  <2> QED
    BY <2>1, <2>2, <2>3, <2>4 DEF NewEdges
<1>11. NewBase(B)
  <2>1. B[suites'[Depth'].id] = Base(Depth)'
    BY <1>1, <1>6, <1>7, <1>8
  <2>2. \A i \in {Depth'} : B[suites'[i].id] = Base(i)'
    BY <2>1 DEF Base, First, Iter
  <2> QED
    BY <2>2 DEF NewBase
<1>12. NewGotos(B)
  <2>1. \A k \in Size + 1 .. Size' : k = Size + 1
    BY <1>1, <1>3
  <2> QED
    BY <1>1, <2>1, NoGotos
<1>13. OwnGrows
  BY <1>1, <1>3 DEF OwnGrows
<1>14. B[Size' + 1] = Own(Depth)'
  BY <1>1, <1>3, <1>6, <1>7, <1>8
<1> QED
  BY <1>2, <1>5, <1>10, <1>11, <1>12, <1>13, <1>14, HeldStep DEF Joins

LEMMA BeginForHeld ==
  ASSUME Shape, NEW n \in Name, BeginFor(n), NEW A, Held(A)
  PROVE  \E B : Held(B)'
<1>1. /\ Size' = Size + 3 /\ code'[Size + 1] = Declaration(NULL)
      /\ code'[Size + 2] = Instr("loop", Size + 2) /\ code'[Size + 3] = Declaration(n)
      /\ suites # << >> /\ Frame /\ Depth' = Depth + 1 /\ locals' = Append(locals, Size + 3)
      /\ suites'[Depth + 1] = Suite("for", Size + 2, FALSE)
  BY BeginForStep
<1>2. NewShape
  BY BeginForShape
<1>3. Size \in Nat /\ Size' \in Nat /\ TypeOK /\ Depth \in Nat /\ Size + 3 \in Nat /\ (Size + 2) - 1 = Size + 1
  BY <1>2, ShapeStep DEF Shape
<1>4. PICK C : C = [k \in Nat |-> IF k = Size + 4 THEN A[Size + 1] \cup {Size + 1, Size + 3} ELSE A[Size + 1] \cup {Size + 1}]
  OBVIOUS
<1>5. PICK B : Joins(A, B, C)
  BY <1>3, Extension
<1>6. /\ B[Size + 1] = A[Size + 1] /\ B[Size + 2] = A[Size + 1] \cup {Size + 1}
      /\ B[Size + 3] = A[Size + 1] \cup {Size + 1} /\ B[Size + 4] = A[Size + 1] \cup {Size + 1, Size + 3}
  <2>1. \A k \in {Size + 2, Size + 3, Size + 4} : k \in Size + 2 .. Size' + 1 /\ k \in Nat
    BY <1>1, <1>3
  <2>2. B[Size + 2] = C[Size + 2] /\ B[Size + 3] = C[Size + 3] /\ B[Size + 4] = C[Size + 4]
    BY <1>5, <2>1 DEF Joins
  <2>3. B[Size + 1] = A[Size + 1]
    BY <1>3, <1>5 DEF Continues, Joins
  <2>4. Size + 2 # Size + 4 /\ Size + 3 # Size + 4
    BY <1>3
  <2> QED
    BY <1>4, <2>1, <2>2, <2>3, <2>4
<1>7. A[Size + 1] = Own(Depth) /\ A[Size + 1] \subseteq 1 .. Size
  BY <1>1, <1>3 DEF Held, HeldInside
<1>8. Own(Depth)' = Own(Depth) \cup {Size + 1, Size + 3} /\ Base(Depth)' = Own(Depth) \cup {Size + 1}
  <2>1. suites'[Depth'].kind = "for" /\ suites'[Depth'].id = Size + 2
    BY <1>1 DEF Suite
  <2>2. Iter(Depth)' = Iter(Depth) \cup {Size + 1}
    <3>1. suites'[Depth'].id - 1 = Size + 1 /\ Size + 1 \in Nat
      BY <1>3, <2>1
    <3>2. Iter(Depth)' = Iter(Depth) \cup (IF suites'[Depth'].kind = "for" THEN {suites'[Depth'].id - 1} ELSE {})
      BY <1>1, <3>1, IterEnter
    <3> QED
      BY <2>1, <3>1, <3>2
  <2>3. First(Len(locals))' = First(Len(locals)) \cup {Size + 3}
    BY <1>1, <1>3, FirstAppend
  <2>4. Base(Depth)' = First(Len(locals)) \cup Iter(Depth)'
    <3>1. starts'[Depth'] = Len(locals) /\ LocalsFrom(Len(locals))
      BY <1>1, <1>3 DEF Frame, StartsFrame
    <3>2. Base(Depth)' = {d \in Nat : \E j \in 1 .. Len(locals) : d = locals'[j]} \cup Iter(Depth)'
      BY <3>1 DEF Base, First
    <3>3. \A j \in 1 .. Len(locals) : locals'[j] = locals[j]
      BY <1>3, <3>1, Types DEF LocalsFrom
    <3> QED
      BY <3>2, <3>3 DEF First
  <2> QED
    BY <2>2, <2>3, <2>4, OwnNow, OwnNext
<1>9. code'[Size + 1].op = "declare" /\ code'[Size + 2].op = "loop" /\ code'[Size + 3].op = "declare"
  BY <1>1, MadeDeclaration DEF Instr
<1>10. NewEdges(B)
  <2>1. \A k \in Size + 1 .. Size' : k = Size + 1 \/ k = Size + 2 \/ k = Size + 3
    BY <1>1, <1>3
  <2>2. /\ B[Size + 2] \subseteq 1 .. Size + 1 /\ (Size + 1) + 1 = Size + 2
        /\ B[Size + 3] \subseteq 1 .. Size + 2 /\ (Size + 2) + 1 = Size + 3
        /\ B[Size + 4] \subseteq 1 .. Size + 3 /\ (Size + 3) + 1 = Size + 4
    BY <1>3, <1>6, <1>7
  <2>3. PICK e : e = Size + 1
    OBVIOUS
  <2>4. Edge(B, e)'
    BY <1>6, <1>9, <2>2, <2>3, MakeDeclare
  <2>5. PICK f : f = Size + 2
    OBVIOUS
  <2>6. Edge(B, f)'
    <3>1. B[f + 1] = B[f] /\ code'[f].op = "loop"
      BY <1>6, <1>9, <2>2, <2>5
    <3> QED
      BY <3>1, MakePass
  <2>7. PICK g : g = Size + 3
    OBVIOUS
  <2>8. Edge(B, g)'
    <3>1. B[Size + 4] = B[Size + 3] \cup {Size + 3}
      BY <1>6
    <3> QED
      BY <1>9, <2>2, <2>7, <3>1, MakeDeclare
  <2> QED
    BY <2>1, <2>2, <2>3, <2>4, <2>5, <2>6, <2>7, <2>8 DEF NewEdges
<1>11. NewBase(B)
  <2>1. B[suites'[Depth'].id] = Base(Depth)'
    <3>1. suites'[Depth'].id = Size + 2
      BY <1>1 DEF Suite
    <3> QED
      BY <1>6, <1>7, <1>8, <3>1
  <2>2. \A i \in {Depth'} : B[suites'[i].id] = Base(i)'
    BY <2>1 DEF Base, First, Iter
  <2> QED
    BY <2>2 DEF NewBase
<1>12. NewGotos(B)
  <2>1. \A k \in Size + 1 .. Size' : k = Size + 1 \/ k = Size + 2 \/ k = Size + 3
    BY <1>1, <1>3
  <2> QED
    BY <1>9, <2>1, NoGotos
<1>13. OwnGrows
  BY <1>1, <1>3 DEF OwnGrows
<1>14. B[Size' + 1] = Own(Depth)'
  <2>1. Size' + 1 = Size + 4
    BY <1>1, <1>3
  <2> QED
    BY <1>6, <1>7, <1>8, <2>1
<1> QED
  BY <1>2, <1>5, <1>10, <1>11, <1>12, <1>13, <1>14, HeldStep DEF Joins

LEMMA BeginWithHeld ==
  ASSUME Shape, NEW n \in Name, BeginWith(n), NEW A, Held(A)
  PROVE  \E B : Held(B)'
<1>1. /\ Size' = Size + 1 /\ code'[Size + 1] = Declaration(n) /\ suites # << >> /\ Frame /\ Depth' = Depth + 1
      /\ locals' = Append(locals, Size + 1) /\ suites'[Depth + 1] = Suite("with", Size + 1, FALSE)
  BY BeginWithStep
<1>2. NewShape
  BY BeginWithShape
<1>3. Size \in Nat /\ Size' \in Nat /\ TypeOK /\ Size + 1 \in Nat /\ Depth \in Nat
  BY <1>2, ShapeStep DEF Shape
<1>4. PICK C : C = [k \in Nat |-> A[Size + 1] \cup {Size + 1}]
  OBVIOUS
<1>5. PICK B : Joins(A, B, C)
  BY <1>3, Extension
<1>6. B[Size + 1] = A[Size + 1] /\ B[Size + 2] = A[Size + 1] \cup {Size + 1}
  BY <1>1, <1>3, <1>4, <1>5 DEF Continues, Joins
<1>7. A[Size + 1] = Own(Depth) /\ A[Size + 1] \subseteq 1 .. Size
  BY <1>1, <1>3 DEF Held, HeldInside
<1>8. Own(Depth)' = Own(Depth) \cup {Size + 1}
  <2>1. suites'[Depth'].kind # "for"
    BY <1>1 DEF Suite
  <2>2. Iter(Depth)' = Iter(Depth)
    BY <1>1, <2>1, IterEnter
  <2> QED
    BY <1>1, <1>3, <2>2, OwnNow, OwnNext, FirstAppend
<1>9. code'[Size + 1].op = "declare"
  BY <1>1, MadeDeclaration
<1>10. NewEdges(B)
  <2>1. \A k \in Size + 1 .. Size' : k = Size + 1
    BY <1>1, <1>3
  <2>2. B[Size + 2] \subseteq 1 .. Size + 1 /\ (Size + 1) + 1 = Size + 2
    BY <1>3, <1>6, <1>7
  <2>3. PICK e : e = Size + 1
    OBVIOUS
  <2>4. Edge(B, e)'
    BY <1>6, <1>9, <2>2, <2>3, MakeDeclare
  <2> QED
    BY <2>1, <2>2, <2>3, <2>4 DEF NewEdges
<1>11. NewBase(B)
  BY <1>1 DEF NewBase, Suite, IsChain, IsLoop
<1>12. NewGotos(B)
  <2>1. \A k \in Size + 1 .. Size' : k = Size + 1
    BY <1>1, <1>3
  <2> QED
    BY <1>9, <2>1, NoGotos
<1>13. OwnGrows
  BY <1>1, <1>3 DEF OwnGrows
<1>14. B[Size' + 1] = Own(Depth)'
  <2>1. Size' + 1 = Size + 2
    BY <1>1, <1>3
  <2> QED
    BY <1>6, <1>7, <1>8, <2>1
<1> QED
  BY <1>2, <1>5, <1>10, <1>11, <1>12, <1>13, <1>14, HeldStep DEF Joins

\* What is left after the scope of the innermost suite was released.
LEMMA OwnAfter ==
  ASSUME Shape, suites # << >>, Frame, Depth' <= Depth, suites[Depth].kind # "for",
         locals' = SubSeq(locals, 1, starts[Depth])
  PROVE  Own(Depth)' = Left(starts[Depth])
<1>1. First(Len(locals))' = First(starts[Depth])
  BY FirstPrefix
<1>2. Iter(Depth)' = Iter(Depth)
  <2>1. CASE Depth' = Depth
    BY <2>1, IterStay
  <2>2. CASE Depth' = Depth - 1
    BY <2>2, IterLeave
  <2> QED
    BY <2>1, <2>2, FrameDepth
<1> QED
  BY <1>1, <1>2, OwnNext DEF Left

\* The releases of the innermost scope, from q on.
LEMMA ScopeRun ==
  ASSUME Shape, suites # << >>, NEW B, NEW q \in Nat, Size <= q, Emits(q, starts[Depth]),
         \A p \in 0 .. Scope : B[q + 1 + p] = Left(Len(locals) - p)
  PROVE  /\ \A k \in q + 1 .. q + Scope : B[k + 1] \subseteq 1 .. k /\ Edge(B, k)'
         /\ B[q + Scope + 1] = Left(starts[Depth]) /\ Left(starts[Depth]) \subseteq 1 .. Size
<1>1. PICK m : m = starts[Depth]
  OBVIOUS
<1>2. m \in 0 .. Len(locals) /\ Scope = Len(locals) - m
  BY <1>1, Inside DEF Scope
<1>3. \A p \in 0 .. Len(locals) - m : B[q + 1 + p] = Left(Len(locals) - p)
  BY <1>2
<1>4. /\ \A k \in q + 1 .. q + (Len(locals) - m) : B[k + 1] \subseteq 1 .. k /\ Edge(B, k)'
      /\ B[q + (Len(locals) - m) + 1] = Left(m)
  BY <1>1, <1>2, <1>3, RunEdges
<1>5. Left(m) \subseteq 1 .. Size
  BY <1>2, LeftRange
<1> QED
  BY <1>1, <1>2, <1>4, <1>5

LEMMA EndChainHeld ==
  ASSUME Shape, suites # << >>, NewShape, NEW A, Held(A), IsChain(suites[Depth]), Depth' <= Depth,
         Scope \in Nat, Size' = Size + Scope + 1, Emits(Size, starts[Depth]),
         code'[Size + Scope + 1].op \in {"else", "last", "end"}, code'[Size + Scope + 1].id = suites[Depth].id,
         locals' = SubSeq(locals, 1, starts[Depth])
  PROVE  \E B : Held(B)'
<1>1. Frame /\ Size \in Nat /\ Size' \in Nat /\ Depth \in Nat /\ Depth' \in Nat
  BY ShapeStep DEF NewShape
<1>2. PICK C : C = [k \in Nat |-> IF k <= Size + Scope + 1 THEN Left(Len(locals) - (k - (Size + 1))) ELSE Left(starts[Depth])]
  OBVIOUS
<1>3. PICK B : Joins(A, B, C)
  BY <1>1, Extension
<1>4. starts[Depth] \in 0 .. Len(locals) /\ Len(locals) \in Nat /\ Scope = Len(locals) - starts[Depth]
  BY Inside DEF Scope
<1>5. B[Size + 1] = Left(Len(locals))
  <2>1. Size + 1 \in 1 .. Size + 1
    BY <1>1
  <2>2. B[Size + 1] = Own(Depth)
    BY <1>3, <2>1 DEF Joins, Continues, Held, HeldInside
  <2> QED
    BY <1>4, <2>2, LeftRange
<1>6. \A p \in 0 .. Scope : B[Size + 1 + p] = Left(Len(locals) - p)
  <2> TAKE p \in 0 .. Scope
  <2>1. CASE p = 0
    <3>1. Size + 1 + p = Size + 1 /\ Len(locals) - p = Len(locals)
      BY <1>1, <1>4, <2>1
    <3> QED
      BY <1>5, <3>1
  <2>2. CASE p # 0
    <3> DEFINE k == Size + 1 + p
    <3>1. k \in Size + 2 .. Size' + 1 /\ k \in Nat /\ k <= Size + Scope + 1 /\ k - (Size + 1) = p
      BY <1>1, <2>2
    <3>2. B[k] = C[k]
      BY <1>3, <3>1 DEF Joins
    <3> HIDE DEF k
    <3>3. C[k] = Left(Len(locals) - p)
      BY <1>2, <3>1
    <3> QED
      BY <3>2, <3>3 DEF k
  <2> QED
    BY <2>1, <2>2
<1>7. /\ \A k \in Size + 1 .. Size + Scope : B[k + 1] \subseteq 1 .. k /\ Edge(B, k)'
      /\ B[Size + Scope + 1] = Left(starts[Depth]) /\ Left(starts[Depth]) \subseteq 1 .. Size
  <2>1. Size <= Size
    BY <1>1
  <2> QED
    BY <1>1, <1>6, <2>1, ScopeRun
<1>8. B[Size + Scope + 2] = Left(starts[Depth])
  <2> DEFINE k == Size + Scope + 2
  <2>1. k \in Size + 2 .. Size' + 1 /\ k \in Nat /\ ~(k <= Size + Scope + 1)
    BY <1>1
  <2>2. B[k] = C[k]
    BY <1>3, <2>1 DEF Joins
  <2> HIDE DEF k
  <2>3. C[k] = Left(starts[Depth])
    BY <1>2, <2>1
  <2> QED
    BY <2>2, <2>3 DEF k
<1>9. B[suites[Depth].id] = Left(starts[Depth])
  <2>1. suites[Depth].id \in 1 .. Size + 1
    BY <1>1, InnerBlock
  <2>2. A[suites[Depth].id] = Base(Depth)
    BY Inside DEF Held, HeldInside
  <2> QED
    BY <1>3, <2>1, <2>2 DEF Joins, Continues, Base, Left
<1>10. NewEdges(B)
  <2>1. PICK e : e = Size + Scope + 1
    OBVIOUS
  <2>2. \A k \in Size + 1 .. Size' : k \in Size + 1 .. Size + Scope \/ k = e
    BY <1>1, <2>1
  <2>3. e + 1 = Size + Scope + 2 /\ e \in Nat /\ Size < e
    BY <1>1, <2>1
  <2>4. Edge(B, e)'
    BY <1>7, <1>8, <1>9, <2>1, <2>3, MakeBack
  <2>5. B[e + 1] \subseteq 1 .. e
    BY <1>1, <1>7, <1>8, <2>3
  <2> QED
    BY <1>7, <2>2, <2>4, <2>5 DEF NewEdges
<1>11. NewBase(B)
  BY <1>1 DEF NewBase
<1>12. NewGotos(B)
  <2>1. \A k \in Size + 1 .. Size' : k \in Size + 1 .. Size + Scope \/ k = Size + Scope + 1
    BY <1>1
  <2>2. \A k \in Size + 1 .. Size + Scope : code'[k].op = "release"
    BY ScopePlain
  <2> QED
    BY <2>1, <2>2, NoGotos
<1>13. OwnGrows
  BY DEF OwnGrows, IsChain, IsLoop
<1>14. B[Size' + 1] = Own(Depth)'
  <2>1. Size' + 1 = Size + Scope + 2
    BY <1>1
  <2>2. suites[Depth].kind # "for"
    BY DEF IsChain
  <2> QED
    BY <1>1, <1>8, <2>1, <2>2, OwnAfter
<1> QED
  BY <1>3, <1>10, <1>11, <1>12, <1>13, <1>14, HeldStep DEF Joins

LEMMA BranchHeld ==
  ASSUME Shape, NEW k \in {"else", "last"}, Branch(k), NEW A, Held(A)
  PROVE  \E B : Held(B)'
<1>1. NewShape
  BY BranchShape
<1>2. /\ Scope \in Nat /\ Size' = Size + Scope + 1 /\ Emits(Size, starts[Depth])
      /\ code'[Size + Scope + 1] = Instr(k, suites[Depth].id)
      /\ suites # << >> /\ suites[Depth].kind = "if" /\ Depth' = Depth
      /\ locals' = SubSeq(locals, 1, starts[Depth])
  BY BranchStep
<1>3. Depth' <= Depth
  BY <1>1, <1>2, ShapeStep
<1>4. code'[Size + Scope + 1].op = k /\ code'[Size + Scope + 1].id = suites[Depth].id
  BY <1>2 DEF Instr
<1> QED
  BY <1>1, <1>2, <1>3, <1>4, EndChainHeld DEF IsChain

LEMMA EndIfHeld ==
  ASSUME Shape, EndIf, NEW A, Held(A)
  PROVE  \E B : Held(B)'
<1>1. NewShape
  BY EndIfShape
<1>2. /\ Scope \in Nat /\ Size' = Size + Scope + 1 /\ Emits(Size, starts[Depth])
      /\ code'[Size + Scope + 1] = Instr("end", suites[Depth].id)
      /\ suites # << >> /\ IsChain(suites[Depth]) /\ Depth' = Depth - 1
      /\ locals' = SubSeq(locals, 1, starts[Depth])
  BY EndIfStep
<1>3. Depth' <= Depth
  BY <1>1, <1>2, ShapeStep
<1>4. code'[Size + Scope + 1].op = "end" /\ code'[Size + Scope + 1].id = suites[Depth].id
  BY <1>2 DEF Instr
<1> QED
  BY <1>1, <1>2, <1>3, <1>4, EndChainHeld

LEMMA EndWithHeld ==
  ASSUME Shape, EndWith, NEW A, Held(A)
  PROVE  \E B : Held(B)'
<1>1. NewShape
  BY EndWithShape
<1>2. /\ Scope \in Nat /\ Size' = Size + Scope /\ Emits(Size, starts[Depth])
      /\ suites # << >> /\ suites[Depth].kind = "with" /\ Depth' = Depth - 1
      /\ locals' = SubSeq(locals, 1, starts[Depth])
  BY EndWithStep
<1>3. Frame /\ Size \in Nat /\ Size' \in Nat /\ Depth \in Nat /\ Depth' \in Nat
  BY <1>1, ShapeStep DEF NewShape
<1>4. PICK C : C = [k \in Nat |-> Left(Len(locals) - (k - (Size + 1)))]
  OBVIOUS
<1>5. PICK B : Joins(A, B, C)
  BY <1>3, Extension
<1>6. starts[Depth] \in 0 .. Len(locals) /\ Len(locals) \in Nat
  BY <1>2, Inside
<1>7. \A p \in 0 .. Scope : B[Size + 1 + p] = Left(Len(locals) - p)
  <2> TAKE p \in 0 .. Scope
  <2>1. CASE p = 0
    <3>1. Size + 1 + p = Size + 1 /\ Len(locals) - p = Len(locals) /\ Size + 1 \in 1 .. Size + 1
      BY <1>3, <1>6, <2>1
    <3>2. B[Size + 1] = Own(Depth)
      BY <1>2, <1>5, <3>1 DEF Joins, Continues, Held, HeldInside
    <3>3. Own(Depth) = Left(Len(locals))
      BY <1>2, <1>6, LeftRange
    <3> QED
      BY <3>1, <3>2, <3>3
  <2>2. CASE p # 0
    <3> DEFINE k == Size + 1 + p
    <3>1. k \in Size + 2 .. Size' + 1 /\ k \in Nat /\ k - (Size + 1) = p
      BY <1>2, <1>3, <2>2
    <3>2. B[k] = C[k]
      BY <1>5, <3>1 DEF Joins
    <3> HIDE DEF k
    <3>3. C[k] = Left(Len(locals) - p)
      BY <1>4, <3>1
    <3> QED
      BY <3>2, <3>3 DEF k
  <2> QED
    BY <2>1, <2>2
<1>8. /\ \A k \in Size + 1 .. Size + Scope : B[k + 1] \subseteq 1 .. k /\ Edge(B, k)'
      /\ B[Size + Scope + 1] = Left(starts[Depth]) /\ Left(starts[Depth]) \subseteq 1 .. Size
  <2>1. Size <= Size
    BY <1>3
  <2> QED
    BY <1>2, <1>3, <1>7, <2>1, ScopeRun
<1>9. NewEdges(B)
  BY <1>2, <1>8 DEF NewEdges
<1>10. NewBase(B)
  BY <1>2, <1>3 DEF NewBase
<1>11. NewGotos(B)
  <2>1. \A k \in Size + 1 .. Size + Scope : code'[k].op = "release"
    BY <1>2, <1>3, <1>6, EmitsPlain DEF Scope
  <2> QED
    BY <1>2, <2>1, NoGotos
<1>12. OwnGrows
  BY <1>2, <1>3 DEF OwnGrows
<1>13. B[Size' + 1] = Own(Depth)'
  <2>1. suites[Depth].kind # "for" /\ Depth' <= Depth
    BY <1>2, <1>3
  <2>2. Own(Depth)' = Left(starts[Depth])
    BY <1>2, <1>3, <2>1, OwnAfter
  <2> QED
    BY <1>2, <1>8, <2>2
<1> QED
  BY <1>1, <1>5, <1>9, <1>10, <1>11, <1>12, <1>13, HeldStep DEF Joins

-----------------------------------------------------------------------------
(***************************************************************************)
(* The end of a loop: what its jumps bring to the label, and what the      *)
(* releases behind it leave for the next iteration.                        *)
(***************************************************************************)
\* The locals of an iteration are those of the loop's own scope.
LEMMA Iteration ==
  ASSUME Shape, suites # << >>, NEW A, Held(A), IsLoop(suites[Depth]), NEW d \in Own(Depth), d > suites[Depth].id
  PROVE  \E p \in 1 .. Scope : d = locals[Len(locals) + 1 - p]
<1>1. starts[Depth] \in 0 .. Len(locals) /\ Len(locals) \in Nat /\ Scope = Len(locals) - starts[Depth] /\ Depth \in 1 .. Depth
  BY Inside DEF Scope
<1>2. suites[Depth].id \in 1 .. Size /\ Size \in Nat
  BY InnerBlock, Types DEF Shape
<1>3. Base(Depth) \subseteq 1 .. suites[Depth].id - 1
  <2>1. suites[Depth].id \in 1 .. Size + 1
    BY <1>2
  <2> QED
    BY <1>1, <2>1 DEF Held, HeldInside
<1>4. d \notin Base(Depth)
  BY <1>2, <1>3
<1>5. PICK j \in 1 .. Len(locals) : d = locals[j]
  BY <1>4, OwnNow DEF Base, First
<1>6. j > starts[Depth]
  <2>1. CASE j \in 1 .. starts[Depth]
    BY <1>4, <1>5, <2>1, LocalFacts DEF Base, First
  <2> QED
    BY <1>1, <2>1
<1>7. Len(locals) + 1 - j \in 1 .. Scope /\ Len(locals) + 1 - (Len(locals) + 1 - j) = j
  BY <1>1, <1>6
<1> QED
  BY <1>5, <1>7

\* The end of a for loop also releases the iterable.
LEMMA OwnLoop ==
  ASSUME Shape, suites # << >>, Frame, Depth' = Depth - 1, locals' = SubSeq(locals, 1, starts[Depth])
  PROVE  /\ suites[Depth].kind # "for" => Own(Depth)' = Left(starts[Depth])
         /\ suites[Depth].kind = "for" => /\ suites[Depth].id - 1 \in Left(starts[Depth])
                                          /\ Own(Depth)' = Left(starts[Depth]) \ {suites[Depth].id - 1}
<1>1. First(Len(locals))' = First(starts[Depth])
  BY FirstPrefix
<1>2. Iter(Depth) = Iter(Depth)' \cup (IF suites[Depth].kind = "for" THEN {suites[Depth].id - 1} ELSE {})
  BY IterLeave
<1>3. CASE suites[Depth].kind # "for"
  BY <1>1, <1>2, <1>3, OwnNext DEF Left
<1>4. CASE suites[Depth].kind = "for"
  <2> DEFINE x == suites[Depth].id - 1
  <2>1. x \in Iter(Depth)
    BY <1>2, <1>4
  <2>2. x \notin First(starts[Depth])
    <3>1. code[x].name = NULL
      BY <2>1, Inside, IterFacts
    <3>2. \A j \in 1 .. starts[Depth] : j \in 1 .. Len(locals)
      BY Inside
    <3> HIDE DEF x
    <3> QED
      BY <3>1, <3>2, LocalFacts DEF First
  <2>3. x \notin Iter(Depth)'
    <3>1. PICK i : i = Depth - 1
      OBVIOUS
    <3>2. i \in 1 .. Depth /\ i <= Depth' /\ i \in Nat /\ i < Depth
      <4>1. Depth' \in Nat \ {0} /\ Depth \in Nat \ {0} /\ i = Depth'
        BY <3>1, FrameDepth
      <4> QED
        BY <3>1, <4>1
    <3>3. Iter(i)' = Iter(i)
      BY <3>2, KeptSuite
    <3>4. Iter(Depth)' = Iter(i)
      BY <3>1, <3>3 DEF Iter
    <3>5. \A j \in 1 .. i : suites[j].id < suites[Depth].id /\ suites[j].id \in Nat /\ suites[Depth].id \in Nat
      <4> TAKE j \in 1 .. i
      <4>1. j \in 1 .. Depth /\ j < Depth /\ Depth \in 1 .. Depth
        <5>1. Depth \in Nat \ {0}
          BY Inside
        <5> QED
          BY <3>2, <5>1
      <4>2. suites[j].id < suites[Depth].id
        BY <4>1 DEF Shape, Suites
      <4>3. suites[j] \in SuiteType /\ suites[Depth] \in SuiteType
        BY <4>1, Types DEF Shape
      <4> QED
        BY <4>2, <4>3 DEF SuiteType
    <3>6. \A j \in 1 .. i : suites[j].id - 1 # x
      BY <3>5
    <3> HIDE DEF x
    <3> QED
      BY <3>4, <3>6 DEF Iter
  <2>4. Iter(Depth)' = Iter(Depth) \ {x}
    BY <1>2, <1>4, <2>3
  <2> HIDE DEF x
  <2>5. Own(Depth)' = Left(starts[Depth]) \ {x} /\ x \in Left(starts[Depth])
    BY <1>1, <2>1, <2>2, <2>4, OwnNext DEF Left
  <2> QED
    BY <1>4, <2>5 DEF x
<1> QED
  BY <1>3, <1>4

\* The instructions at the end of a loop: the label, the releases, the test,
\* and for a for loop the release of the iterable.
LoopEnd(A, B) ==
  /\ \A k \in 1 .. Size + 1 : B[k] = A[k]
  /\ \A p \in 0 .. Scope : B[Size + 2 + p] = Left(Len(locals) - p)
  /\ B[Size + Scope + 3] = Left(starts[Depth])
  /\ suites[Depth].kind = "for" => B[Size + Scope + 4] = Left(starts[Depth]) \ {suites[Depth].id - 1}

LEMMA LoopEndExists ==
  ASSUME Shape, suites # << >>, Scope \in Nat, NEW A
  PROVE  \E B : LoopEnd(A, B)
<1>1. starts[Depth] \in 0 .. Len(locals) /\ Len(locals) \in Nat /\ Size \in Nat
  BY Inside, Types DEF Shape
<1> DEFINE B == [k \in Nat |->
                   IF k <= Size + 1 THEN A[k]
                   ELSE IF k <= Size + Scope + 2 THEN Left(Len(locals) - (k - (Size + 2)))
                   ELSE IF k = Size + Scope + 3 THEN Left(starts[Depth])
                   ELSE Left(starts[Depth]) \ {suites[Depth].id - 1}]
<1>2. \A k \in 1 .. Size + 1 : B[k] = A[k]
  OBVIOUS
<1>3. \A p \in 0 .. Scope : B[Size + 2 + p] = Left(Len(locals) - p)
  <2> TAKE p \in 0 .. Scope
  <2> DEFINE k == Size + 2 + p
  <2>1. k \in Nat /\ ~(k <= Size + 1) /\ k <= Size + Scope + 2 /\ k - (Size + 2) = p
    BY <1>1
  <2> HIDE DEF k
  <2>2. B[k] = Left(Len(locals) - p)
    BY <2>1
  <2> QED
    BY <2>2 DEF k
<1>4. B[Size + Scope + 3] = Left(starts[Depth])
  <2> DEFINE k == Size + Scope + 3
  <2>1. k \in Nat /\ ~(k <= Size + 1) /\ ~(k <= Size + Scope + 2) /\ k = Size + Scope + 3
    BY <1>1
  <2> HIDE DEF k
  <2>2. B[k] = Left(starts[Depth])
    BY <2>1
  <2> QED
    BY <2>2 DEF k
<1>5. B[Size + Scope + 4] = Left(starts[Depth]) \ {suites[Depth].id - 1}
  <2> DEFINE k == Size + Scope + 4
  <2>1. k \in Nat /\ ~(k <= Size + 1) /\ ~(k <= Size + Scope + 2) /\ k # Size + Scope + 3
    BY <1>1
  <2> HIDE DEF k
  <2>2. B[k] = Left(starts[Depth]) \ {suites[Depth].id - 1}
    BY <2>1
  <2> QED
    BY <2>2 DEF k
<1> HIDE DEF B
<1>6. LoopEnd(A, B)
  BY <1>2, <1>3, <1>4, <1>5 DEF LoopEnd
<1> QED
  BY <1>6

LEMMA EndLoopHeld ==
  ASSUME Shape, EndLoop, NEW A, Held(A)
  PROVE  \E B : Held(B)'
<1>1. NewShape
  BY EndLoopShape
<1> DEFINE s == suites[Depth]
           extra == IF s.kind = "for" THEN 1 ELSE 0
<1>2. /\ Scope \in Nat /\ Size' = Size + Scope + 2 + extra
      /\ code'[Size + 1] = Instr("label", s.id) /\ Emits(Size + 1, starts[Depth])
      /\ code'[Size + Scope + 2] = Instr("next", s.id)
      /\ s.kind = "for" => s.id - 1 \in Nat /\ code'[Size + Scope + 3] = Instr("release", s.id - 1)
      /\ suites # << >> /\ IsLoop(s) /\ Depth' = Depth - 1
      /\ locals' = SubSeq(locals, 1, starts[Depth])
  BY EndLoopStep
<1>3. Frame /\ Grown /\ Size \in Nat /\ Size' \in Nat /\ Depth \in Nat /\ Depth' \in Nat
  BY <1>1, ShapeStep DEF NewShape
<1>4. PICK B : LoopEnd(A, B)
  BY <1>2, LoopEndExists
<1>5. starts[Depth] \in 0 .. Len(locals) /\ Len(locals) \in Nat /\ Depth \in 1 .. Depth
  BY <1>2, Inside
<1>6. s.id \in 1 .. Size /\ code[s.id].op = "loop"
  BY <1>2, InnerBlock
<1>7. Continues(A, B)
  BY <1>4 DEF LoopEnd, Continues
<1>8. B[Size + 1] = Own(Depth) /\ Own(Depth) = Left(Len(locals)) /\ B[Size + 2] = Own(Depth) /\ Own(Depth) \subseteq 1 .. Size
  <2>1. Size + 1 \in 1 .. Size + 1 /\ 0 \in 0 .. Scope /\ Size + 2 + 0 = Size + 2 /\ Len(locals) - 0 = Len(locals)
        /\ Len(locals) \in 0 .. Len(locals)
    <3>1. Scope \in Nat
      BY <1>2
    <3>2. Size + 1 \in 1 .. Size + 1 /\ Size + 2 + 0 = Size + 2
      BY <1>3
    <3>3. Len(locals) - 0 = Len(locals) /\ Len(locals) \in 0 .. Len(locals)
      BY <1>5
    <3>4. 0 \in 0 .. Scope
      BY <3>1
    <3> QED
      BY <3>2, <3>3, <3>4
  <2>2. B[Size + 1] = Own(Depth)
    BY <1>2, <1>7, <2>1 DEF Continues, Held, HeldInside
  <2>3. B[Size + 2] = Left(Len(locals))
    BY <1>4, <2>1 DEF LoopEnd
  <2>4. Own(Depth) = Left(Len(locals)) /\ Left(Len(locals)) \subseteq 1 .. Size
    BY <1>2, <2>1, LeftRange
  <2> QED
    BY <2>2, <2>3, <2>4
<1>9. /\ \A k \in Size + 2 .. Size + 1 + Scope : B[k + 1] \subseteq 1 .. k /\ Edge(B, k)'
      /\ B[Size + Scope + 2] = Left(starts[Depth]) /\ Left(starts[Depth]) \subseteq 1 .. Size
  <2>1. PICK q : q = Size + 1
    OBVIOUS
  <2>2. q \in Nat /\ Size <= q /\ Emits(q, starts[Depth]) /\ q + 1 = Size + 2 /\ q + Scope = Size + 1 + Scope
        /\ q + Scope + 1 = Size + Scope + 2
    BY <1>2, <1>3, <2>1
  <2>3. \A p \in 0 .. Scope : B[q + 1 + p] = Left(Len(locals) - p)
    BY <1>4, <2>2 DEF LoopEnd
  <2>4. /\ \A k \in q + 1 .. q + Scope : B[k + 1] \subseteq 1 .. k /\ Edge(B, k)'
        /\ B[q + Scope + 1] = Left(starts[Depth]) /\ Left(starts[Depth]) \subseteq 1 .. Size
    BY <1>2, <2>2, <2>3, ScopeRun
  <2> QED
    BY <2>2, <2>4
<1>10. B[Size + Scope + 3] = Left(starts[Depth])
  BY <1>4 DEF LoopEnd
<1>11. B[s.id] = Left(starts[Depth])
  <2>1. s.id \in 1 .. Size + 1
    BY <1>3, <1>6
  <2>2. A[s.id] = Base(Depth)
    BY <1>2, <1>5 DEF Held, HeldInside
  <2> QED
    BY <1>7, <2>1, <2>2 DEF Continues, Base, Left
<1>12. PICK head : head = s.id
  OBVIOUS
<1>13. PICK a : a = Size + 1
  OBVIOUS
<1>14. PICK e : e = Size + Scope + 2
  OBVIOUS
<1> HIDE DEF s, extra
<1>15. \A k \in 1 .. Scope : code'[a + k].op = "release" /\ code'[a + k].local = locals[Len(locals) + 1 - k]
  BY <1>2, <1>13 DEF Emits, Scope, IsRelease
<1>16. code'[a].op = "label" /\ code'[a].id = head /\ code'[e].op = "next" /\ code'[e].id = head /\ a \in Nat /\ e \in Nat
       /\ a + 1 = Size + 2 /\ e + 1 = Size + Scope + 3 /\ a \in 1 .. e - 1 /\ e = a + Scope + 1
  BY <1>2, <1>3, <1>12, <1>13, <1>14 DEF Instr
<1>17. Edge(B, a)'
  <2>1. PICK own : own = Own(Depth)
    OBVIOUS
  <2>2. ASSUME NEW g \in 1 .. a - 1, code'[g].op = "goto", code'[g].id = head
        PROVE  Brings(B, g, own)'
    <3>1. g \in 1 .. Size
      BY <1>3, <1>13
    <3>2. code[g] = code'[g]
      BY <1>3, <3>1 DEF Grown
    <3>3. Has(g, "goto", suites[Depth].id)
      BY <1>12, <2>2, <3>2 DEF Has, s
    <3>4. Brings(A, g, own)
      BY <1>2, <1>5, <2>1, <3>1, <3>3 DEF Held, HeldInside, s
    <3> QED
      BY <1>3, <1>7, <3>1, <3>4, BringsKept
  <2>3. B[a] = own /\ B[a + 1] = own
    BY <1>8, <1>13, <1>16, <2>1
  <2>4. \A g \in 1 .. a - 1 : code'[g].op = "goto" /\ code'[g].id = code'[a].id => Brings(B, g, B[a])'
    BY <1>16, <2>2, <2>3
  <2> QED
    BY <1>16, <2>3, <2>4, MakeLabel
<1>18. Edge(B, e)'
  <2>1. ASSUME NEW d \in B[a], d > head
        PROVE  \E r \in a .. e - 1 : code'[r].op = "release" /\ code'[r].local = d
    <3>1. d \in Own(Depth) /\ d > suites[Depth].id
      BY <1>8, <1>12, <1>13, <2>1 DEF s
    <3>2. PICK p \in 1 .. Scope : d = locals[Len(locals) + 1 - p]
      BY <1>2, <3>1, Iteration DEF s
    <3>3. a + p \in a .. e - 1
      BY <1>2, <1>16
    <3> QED
      BY <1>15, <3>2, <3>3
  <2>2. \A j \in a + 1 .. e - 1 : code'[j].op = "release"
    <3> TAKE j \in a + 1 .. e - 1
    <3>1. j - a \in 1 .. Scope /\ a + (j - a) = j
      BY <1>2, <1>16
    <3> QED
      BY <1>15, <3>1
  <2>3. Clears(B, e, head)'
    BY <1>16, <2>1, <2>2 DEF Clears, Has
  <2>4. B[e + 1] = B[e] /\ B[e] = B[code'[e].id]
    BY <1>9, <1>10, <1>11, <1>12, <1>14, <1>16
  <2> QED
    BY <1>16, <2>3, <2>4, MakeNext
<1>19. B[a + 1] \subseteq 1 .. a /\ B[e + 1] \subseteq 1 .. e
  <2>1. \A x \in 1 .. Size : x \in 1 .. a /\ x \in 1 .. e
    BY <1>2, <1>3, <1>13, <1>14
  <2> QED
    BY <1>8, <1>9, <1>10, <1>16, <2>1
<1>20. CASE s.kind # "for"
  <2>1. \A k \in Size + 1 .. Size' : k = a \/ k \in Size + 2 .. Size + 1 + Scope \/ k = e
    BY <1>2, <1>3, <1>13, <1>14, <1>20 DEF extra
  <2>2. NewEdges(B)
    BY <1>9, <1>17, <1>18, <1>19, <2>1 DEF NewEdges
  <2>3. NewGotos(B)
    <3>1. \A k \in Size + 2 .. Size + 1 + Scope : code'[k].op = "release"
      <4> TAKE k \in Size + 2 .. Size + 1 + Scope
      <4>1. k - a \in 1 .. Scope /\ a + (k - a) = k
        BY <1>2, <1>3, <1>13
      <4> QED
        BY <1>15, <4>1
    <3> QED
      BY <1>16, <2>1, <3>1, NoGotos
  <2>4. B[Size' + 1] = Own(Depth)'
    <3>1. Size' + 1 = Size + Scope + 3
      BY <1>2, <1>3, <1>20 DEF extra
    <3> QED
      BY <1>2, <1>3, <1>10, <1>20, <3>1, OwnLoop DEF s
  <2>5. NewBase(B) /\ OwnGrows
    BY <1>2, <1>3 DEF NewBase, OwnGrows
  <2> QED
    BY <1>1, <1>7, <2>2, <2>3, <2>4, <2>5, HeldStep
<1>21. CASE s.kind = "for"
  <2>1. PICK z : z = Size + Scope + 3
    OBVIOUS
  <2>2. \A k \in Size + 1 .. Size' : k = a \/ k \in Size + 2 .. Size + 1 + Scope \/ k = e \/ k = z
    BY <1>2, <1>3, <1>13, <1>14, <1>21, <2>1 DEF extra
  <2>3. z \in Nat /\ z + 1 = Size + Scope + 4 /\ z > Size /\ Size' + 1 = Size + Scope + 4
    BY <1>2, <1>3, <1>21, <2>1 DEF extra
  <2>4. s.id - 1 \in Left(starts[Depth]) /\ Own(Depth)' = Left(starts[Depth]) \ {s.id - 1}
    BY <1>2, <1>3, <1>21, OwnLoop DEF s
  <2>5. code'[z].op = "release" /\ code'[z].local = s.id - 1 /\ code'[z].id = s.id - 1
    BY <1>2, <1>21, <2>1 DEF Instr
  <2>6. B[z] = Left(starts[Depth]) /\ B[z + 1] = Left(starts[Depth]) \ {s.id - 1}
    BY <1>4, <1>10, <1>21, <2>1, <2>3 DEF LoopEnd, s
  <2>7. Edge(B, z)'
    BY <2>4, <2>5, <2>6, MakeRelease
  <2>8. B[z + 1] \subseteq 1 .. z
    BY <1>3, <1>9, <2>3, <2>6
  <2>9. NewEdges(B)
    BY <1>9, <1>17, <1>18, <1>19, <2>2, <2>7, <2>8 DEF NewEdges
  <2>10. NewGotos(B)
    <3>1. \A k \in Size + 2 .. Size + 1 + Scope : code'[k].op = "release"
      <4> TAKE k \in Size + 2 .. Size + 1 + Scope
      <4>1. k - a \in 1 .. Scope /\ a + (k - a) = k
        BY <1>2, <1>3, <1>13
      <4> QED
        BY <1>15, <4>1
    <3> QED
      BY <1>16, <2>2, <2>5, <3>1, NoGotos
  <2>11. B[Size' + 1] = Own(Depth)'
    BY <2>3, <2>4, <2>6
  <2>12. NewBase(B) /\ OwnGrows
    BY <1>2, <1>3 DEF NewBase, OwnGrows
  <2> QED
    BY <1>1, <1>7, <2>9, <2>10, <2>11, <2>12, HeldStep
<1> QED
  BY <1>20, <1>21

-----------------------------------------------------------------------------
(***************************************************************************)
(* Jumps and returns.                                                      *)
(***************************************************************************)
\* A jump leaves to the innermost loop: there is no loop between.
LEMMA Innermost ==
  ASSUME Shape, suites # << >>, loops # << >>, NEW own \in 1 .. Depth, LoopSuite(own)
  PROVE  /\ \A j \in 1 .. Depth : IsLoop(suites[j]) => j <= own
         /\ \A j \in 1 .. Depth : IsLoop(suites[j]) /\ suites[j].id = LastOf(loops) => j = own
<1>1. Len(loops) \in Nat \ {0} /\ LastOf(loops) = loops[Len(loops)] /\ Depth \in Nat
  BY Types DEF Shape, LastOf
<1>2. \A j \in 1 .. Depth : suites[j].id \in Nat
  BY Types DEF Shape, SuiteType
<1>3. \A i, j \in 1 .. Depth : i < j => suites[i].id < suites[j].id
  BY DEF Shape, Suites
<1>4. ASSUME NEW j \in 1 .. Depth, IsLoop(suites[j])
      PROVE  suites[j].id <= suites[own].id
  <2>1. PICK m \in 1 .. Len(loops) : loops[m] = suites[j].id
    BY <1>4 DEF Shape, Loops
  <2>2. m = Len(loops) \/ loops[m] < loops[Len(loops)]
    BY <1>1 DEF Shape, Loops
  <2>3. suites[own].id = loops[Len(loops)]
    BY <1>1 DEF LoopSuite
  <2> QED
    BY <1>2, <2>1, <2>2, <2>3
<1>5. \A j \in 1 .. Depth : IsLoop(suites[j]) => j <= own
  <2> TAKE j \in 1 .. Depth
  <2> HAVE IsLoop(suites[j])
  <2>1. ~(own < j)
    BY <1>2, <1>3, <1>4
  <2> QED
    BY <1>1, <2>1
<1>6. \A j \in 1 .. Depth : suites[j].id = suites[own].id => j = own
  <2> TAKE j \in 1 .. Depth
  <2> HAVE suites[j].id = suites[own].id
  <2>1. ~(j < own) /\ ~(own < j)
    BY <1>2, <1>3
  <2> QED
    BY <1>1, <2>1
<1> QED
  BY <1>5, <1>6 DEF LoopSuite

LEMMA JumpBrings ==
  ASSUME Shape, suites # << >>, loops # << >>, NEW own \in 1 .. Depth, LoopSuite(own)
  PROVE  Own(Depth) \subseteq Own(own) \cup Skipped(own) /\ Own(own) \subseteq Own(Depth)
<1>1. Len(locals) \in Nat /\ Kept(own) \in 0 .. Len(locals) /\ Depth \in Nat
  <2>1. own = Depth \/ own + 1 \in 1 .. Depth
    BY Inside
  <2>2. \A i \in 1 .. Depth : starts[i] \in 0 .. Len(locals)
    <3> TAKE i \in 1 .. Depth
    <3>1. starts[i] <= Len(locals) /\ Len(starts) = Depth
      BY DEF Shape, Suites
    <3> QED
      BY <3>1, Types DEF Shape
  <2> QED
    BY <2>1, <2>2, Inside DEF Kept
<1>2. Iter(Depth) = Iter(own)
  <2>1. \A j \in 1 .. Depth : suites[j].kind = "for" => j \in 1 .. own
    BY Innermost, <1>1 DEF IsLoop
  <2>2. \A j \in 1 .. own : j \in 1 .. Depth
    BY <1>1
  <2> QED
    BY <2>1, <2>2 DEF Iter
<1>3. First(Kept(own)) \subseteq First(Len(locals))
  BY <1>1 DEF First
<1>4. First(Len(locals)) \subseteq First(Kept(own)) \cup Skipped(own)
  <2> SUFFICES ASSUME NEW d \in First(Len(locals)), d \notin Skipped(own)
               PROVE  d \in First(Kept(own))
    OBVIOUS
  <2>1. PICK j \in 1 .. Len(locals) : d = locals[j]
    BY DEF First
  <2>2. j \notin Kept(own) + 1 .. Len(locals)
    BY <2>1 DEF Skipped
  <2>3. j \in 1 .. Kept(own)
    BY <1>1, <2>2
  <2> QED
    BY <2>1, <2>3 DEF First
<1> QED
  BY <1>2, <1>3, <1>4, OwnNow DEF Own

LEMMA JumpHeld ==
  ASSUME Shape, NEW a \in {1, 2}, Jump(a), NEW A, Held(A)
  PROVE  \E B : Held(B)'
<1>1. /\ Size' = Size + 1 /\ code'[Size + 1].op = "goto" /\ code'[Size + 1].id = LastOf(loops)
      /\ \E own \in 1 .. Depth : LoopSuite(own) /\ code'[Size + 1].skips = Skipped(own)
      /\ suites # << >> /\ Frame /\ suites' = suites /\ starts' = starts /\ Depth' = Depth
      /\ locals' = locals /\ loops # << >>
  BY JumpStep
<1>2. NewShape
  BY JumpShape
<1>3. Size \in Nat /\ Size' \in Nat /\ Size + 1 \in Nat /\ Depth \in Nat
  BY <1>2, ShapeStep
<1>4. PICK C : C = [k \in Nat |-> A[Size + 1]]
  OBVIOUS
<1>5. PICK B : Joins(A, B, C)
  BY <1>3, Extension
<1>6. B[Size + 1] = A[Size + 1] /\ B[Size + 2] = A[Size + 1]
  BY <1>1, <1>3, <1>4, <1>5 DEF Continues, Joins
<1>7. A[Size + 1] = Own(Depth) /\ A[Size + 1] \subseteq 1 .. Size
  BY <1>1, <1>3 DEF Held, HeldInside
<1>8. Own(Depth)' = Own(Depth) /\ \A i \in 1 .. Depth : Own(i)' = Own(i)
  BY <1>1 DEF Own, First, Kept, Iter
<1>9. \A k \in Size + 1 .. Size' : k = Size + 1
  BY <1>1, <1>3
<1>10. NewEdges(B)
  <2>1. B[Size + 2] \subseteq 1 .. Size + 1 /\ (Size + 1) + 1 = Size + 2
    BY <1>3, <1>6, <1>7
  <2>2. PICK e : e = Size + 1
    OBVIOUS
  <2>3. Edge(B, e)'
    BY <1>1, <2>2, MakeGoto
  <2> QED
    BY <1>9, <2>1, <2>2, <2>3 DEF NewEdges
<1>11. NewBase(B)
  BY <1>1, <1>3 DEF NewBase
<1>12. NewGotos(B)
  <2>1. PICK own \in 1 .. Depth : LoopSuite(own) /\ code'[Size + 1].skips = Skipped(own)
    BY <1>1
  <2>2. \A i \in 1 .. Depth : IsLoop(suites[i]) /\ suites[i].id = LastOf(loops) => i = own
    BY <1>1, <2>1, Innermost
  <2>3. PICK g : g = Size + 1
    OBVIOUS
  <2>4. Own(Depth) \subseteq Own(own) \cup Skipped(own) /\ Own(own) \subseteq Own(Depth)
    BY <1>1, <2>1, JumpBrings
  <2>5. Brings(B, g, Own(own))'
    BY <1>6, <1>7, <1>8, <2>1, <2>3, <2>4 DEF Brings
  <2>6. \A i \in 1 .. Depth' : IsLoop(suites'[i]) /\ suites'[i].id = code'[g].id => i = own
    BY <1>1, <2>2, <2>3
  <2> QED
    BY <1>9, <2>3, <2>5, <2>6 DEF NewGotos
<1>13. OwnGrows
  BY <1>8 DEF OwnGrows
<1>14. B[Size' + 1] = Own(Depth)'
  <2>1. Size' + 1 = Size + 2
    BY <1>1, <1>3
  <2> QED
    BY <1>6, <1>7, <1>8, <2>1
<1> QED
  BY <1>2, <1>5, <1>10, <1>11, <1>12, <1>13, <1>14, HeldStep DEF Joins

LEMMA ReturningHeld ==
  ASSUME Shape, Returning, NewShape, NEW A, Held(A), NEW B, Continues(A, B), NewEdges(B),
         \A k \in Size + 1 .. Size' : code'[k].op # "goto", B[Size' + 1] = Own(Depth)
  PROVE  Held(B)'
<1>1. suites # << >> /\ Frame /\ Depth' = Depth /\ locals' = locals /\ Depth \in Nat
  BY ShapeStep DEF Returning
<1>2. Own(Depth)' = Own(Depth)
  BY <1>1, IterStay, FirstSame, OwnNow, OwnNext
<1>3. NewBase(B)
  BY <1>1 DEF NewBase
<1>4. NewGotos(B)
  BY NoGotos
<1>5. OwnGrows
  BY <1>2 DEF OwnGrows
<1> QED
  BY <1>2, <1>3, <1>4, <1>5, HeldStep

LEMMA IterablesNow ==
  ASSUME Shape
  PROVE  Iter(Depth) = Iterables
<1>1. DOMAIN suites = 1 .. Depth
  BY Types DEF Shape
<1>2. \A j \in 1 .. Depth : suites[j].kind = "for" => suites[j].id - 1 \in Nat
  <2> TAKE j \in 1 .. Depth
  <2> HAVE suites[j].kind = "for"
  <2>1. suites[j].id > 1 /\ suites[j] \in SuiteType
    BY Types DEF Shape, Suites
  <2> QED
    BY <2>1 DEF SuiteType
<1> QED
  BY <1>1, <1>2 DEF Iter, Iterables

\* All locals are released, then the function returns.
LEMMA LiveRun ==
  ASSUME Shape, suites # << >>, NEW B, NEW q \in Nat, Size <= q, Emits(q, 0),
         \A p \in 0 .. Len(locals) : B[q + 1 + p] = Left(Len(locals) - p)
  PROVE  /\ \A k \in q + 1 .. q + Len(locals) : B[k + 1] \subseteq 1 .. k /\ Edge(B, k)' /\ code'[k].op = "release"
         /\ B[q + Len(locals) + 1] = Iter(Depth) /\ Iter(Depth) \subseteq 1 .. Size
<1>1. PICK m : m = 0
  OBVIOUS
<1>2. m \in 0 .. Len(locals) /\ Len(locals) \in Nat /\ Len(locals) - m = Len(locals) /\ m \in Nat /\ m <= Len(locals)
  BY <1>1, Inside
<1>3. Emits(q, m)
  BY <1>1
<1>4. /\ \A k \in q + 1 .. q + (Len(locals) - m) : B[k + 1] \subseteq 1 .. k /\ Edge(B, k)'
      /\ B[q + (Len(locals) - m) + 1] = Left(m)
  <2>1. \A p \in 0 .. Len(locals) - m : B[q + 1 + p] = Left(Len(locals) - p)
    BY <1>2
  <2> QED
    BY <1>2, <1>3, <2>1, RunEdges
<1>5. Left(m) \subseteq 1 .. Size
  BY <1>2, LeftRange
<1>6. Left(m) = Iter(Depth)
  <2>1. First(m) = {}
    BY <1>1 DEF First
  <2> QED
    BY <2>1 DEF Left
<1>7. \A k \in q + 1 .. q + (Len(locals) - m) : code'[k].op = "release"
  BY <1>2, <1>3, EmitsPlain
<1> QED
  BY <1>2, <1>4, <1>5, <1>6, <1>7

LEMMA ReturnNoneHeld ==
  ASSUME Shape, ReturnNone, NEW A, Held(A)
  PROVE  \E B : Held(B)'
<1>1. /\ Returning /\ Grown /\ Size' = Size + Len(locals) + 1 /\ Emits(Size, 0)
      /\ IsReturn(code'[Size + Len(locals) + 1], Iterables)
  BY ReturnNoneStep
<1>2. NewShape
  BY ReturnsShape
<1>3. suites # << >> /\ Size \in Nat /\ Size' \in Nat /\ Depth \in Nat
  BY <1>2, ShapeStep
<1>4. Len(locals) \in Nat
  BY <1>3, Inside
<1>5. PICK C : C = [k \in Nat |-> IF k <= Size + Len(locals) + 1 THEN Left(Len(locals) - (k - (Size + 1))) ELSE Own(Depth)]
  OBVIOUS
<1>6. PICK B : Joins(A, B, C)
  BY <1>3, Extension
<1>7. Own(Depth) = Left(Len(locals)) /\ Own(Depth) \subseteq 1 .. Size
  <2>1. Len(locals) \in 0 .. Len(locals)
    BY <1>4
  <2> QED
    BY <1>3, <2>1, LeftRange
<1>8. \A p \in 0 .. Len(locals) : B[Size + 1 + p] = Left(Len(locals) - p)
  <2> TAKE p \in 0 .. Len(locals)
  <2>1. CASE p = 0
    <3>1. Size + 1 + p = Size + 1 /\ Len(locals) - p = Len(locals) /\ Size + 1 \in 1 .. Size + 1
      BY <1>3, <1>4, <2>1
    <3>2. B[Size + 1] = Own(Depth)
      BY <1>3, <1>6, <3>1 DEF Joins, Continues, Held, HeldInside
    <3> QED
      BY <1>7, <3>1, <3>2
  <2>2. CASE p # 0
    <3> DEFINE k == Size + 1 + p
    <3>1. k \in Size + 2 .. Size' + 1 /\ k \in Nat /\ k <= Size + Len(locals) + 1 /\ k - (Size + 1) = p
      BY <1>1, <1>3, <1>4, <2>2
    <3>2. B[k] = C[k]
      BY <1>6, <3>1 DEF Joins
    <3> HIDE DEF k
    <3>3. C[k] = Left(Len(locals) - p)
      BY <1>5, <3>1
    <3> QED
      BY <3>2, <3>3 DEF k
  <2> QED
    BY <2>1, <2>2
<1>9. B[Size + Len(locals) + 2] = Own(Depth)
  <2> DEFINE k == Size + Len(locals) + 2
  <2>1. k \in Size + 2 .. Size' + 1 /\ k \in Nat /\ ~(k <= Size + Len(locals) + 1)
    BY <1>1, <1>3, <1>4
  <2>2. B[k] = C[k]
    BY <1>6, <2>1 DEF Joins
  <2> HIDE DEF k
  <2>3. C[k] = Own(Depth)
    BY <1>5, <2>1
  <2> QED
    BY <2>2, <2>3 DEF k
<1>10. /\ \A k \in Size + 1 .. Size + Len(locals) : B[k + 1] \subseteq 1 .. k /\ Edge(B, k)' /\ code'[k].op = "release"
       /\ B[Size + Len(locals) + 1] = Iter(Depth)
  <2>1. Size <= Size
    BY <1>3
  <2> QED
    BY <1>1, <1>3, <1>8, <2>1, LiveRun
<1>11. PICK e : e = Size + Len(locals) + 1
  OBVIOUS
<1>12. e \in Nat /\ e > Size /\ e + 1 = Size + Len(locals) + 2 /\ Size' + 1 = e + 1
       /\ \A k \in Size + 1 .. Size' : k \in Size + 1 .. Size + Len(locals) \/ k = e
  BY <1>1, <1>3, <1>4, <1>11
<1>13. NewEdges(B)
  <2>1. code'[e].op = "return" /\ B[e] \subseteq code'[e].skips
    BY <1>1, <1>10, <1>11, IterablesNow DEF IsReturn
  <2>2. Edge(B, e)'
    BY <2>1, MakeReturn
  <2>3. B[e + 1] \subseteq 1 .. e
    BY <1>3, <1>7, <1>9, <1>12
  <2> QED
    BY <1>10, <1>12, <2>2, <2>3 DEF NewEdges
<1>14. \A k \in Size + 1 .. Size' : code'[k].op # "goto"
  BY <1>1, <1>10, <1>11, <1>12 DEF IsReturn
<1>15. B[Size' + 1] = Own(Depth)
  BY <1>9, <1>12
<1> QED
  BY <1>1, <1>2, <1>6, <1>13, <1>14, <1>15, ReturningHeld DEF Joins

LEMMA ReturnValueHeld ==
  ASSUME Shape, ReturnValue, NEW A, Held(A)
  PROVE  \E B : Held(B)'
<1>1. /\ Returning /\ Grown /\ Size' = Size + 1
      /\ IsReturn(code'[Size + 1], {locals[k] : k \in DOMAIN locals} \cup Iterables)
  BY ReturnValueStep
<1>2. NewShape
  BY ReturnsShape
<1>3. suites # << >> /\ Size \in Nat /\ Size' \in Nat /\ Depth \in Nat
  BY <1>2, ShapeStep
<1>4. PICK C : C = [k \in Nat |-> A[Size + 1]]
  OBVIOUS
<1>5. PICK B : Joins(A, B, C)
  BY <1>3, Extension
<1>6. B[Size + 1] = A[Size + 1] /\ B[Size + 2] = A[Size + 1]
  BY <1>1, <1>3, <1>4, <1>5 DEF Continues, Joins
<1>7. A[Size + 1] = Own(Depth) /\ A[Size + 1] \subseteq 1 .. Size
  BY <1>3 DEF Held, HeldInside
<1>8. \A k \in Size + 1 .. Size' : k = Size + 1
  BY <1>1, <1>3
<1>9. NewEdges(B)
  <2>1. PICK e : e = Size + 1
    OBVIOUS
  <2>2. e + 1 = Size + 2 /\ B[e + 1] \subseteq 1 .. e
    BY <1>3, <1>6, <1>7, <2>1
  <2>3. Own(Depth) \subseteq {locals[k] : k \in DOMAIN locals} \cup Iterables
    <3>1. DOMAIN locals = 1 .. Len(locals)
      BY Types DEF Shape
    <3> QED
      BY <3>1, IterablesNow, OwnNow DEF First
  <2>4. code'[e].op = "return" /\ B[e] \subseteq code'[e].skips
    BY <1>1, <1>6, <1>7, <2>1, <2>3 DEF IsReturn
  <2>5. Edge(B, e)'
    BY <2>4, MakeReturn
  <2> QED
    BY <1>8, <2>1, <2>2, <2>5 DEF NewEdges
<1>10. \A k \in Size + 1 .. Size' : code'[k].op # "goto"
  BY <1>1, <1>8 DEF IsReturn
<1>11. B[Size' + 1] = Own(Depth)
  <2>1. Size' + 1 = Size + 2
    BY <1>1, <1>3
  <2> QED
    BY <1>6, <1>7, <2>1
<1> QED
  BY <1>1, <1>2, <1>5, <1>9, <1>10, <1>11, ReturningHeld DEF Joins

\* The releases behind a take of v name v only where v is meant.
LEMMA TakeLeaves ==
  ASSUME Shape, suites # << >>, NEW n \in Name, InScope(n) # {}, NEW v, v = Visible(n), NEW q \in Nat, Emits(q, 0),
         NEW r, r = q + Len(locals) + 1, r <= Size', Size' \in Nat, code'[r].op = "return", NEW B, B[r] = Iter(Depth)
  PROVE  v \in Own(Depth) /\ Leaves(q + 1, r, v, B)'
<1>1. PICK w \in 1 .. Len(locals) : v = locals[w] /\ code[locals[w]].name = n
  BY VisibleLocal DEF Shape
<1>2. v \in 1 .. Size /\ code[v].name # NULL
  BY <1>1, LocalFacts
<1>3. v \in Own(Depth)
  BY <1>1, <1>2, OwnNow DEF First
<1>4. v \notin B[r]
  BY <1>2, Inside, IterFacts
<1>5. ASSUME NEW j \in q + 1 .. r - 1
      PROVE  code'[j].op = "release" /\ (code'[j].local = v => code'[j].id = v)
  <2>1. Len(locals) \in Nat
    BY Inside
  <2>2. PICK p : p = j - q
    OBVIOUS
  <2>3. p \in 1 .. Len(locals) - 0 /\ q + p = j /\ p \in 1 .. Len(locals)
    BY <2>1, <2>2
  <2>4. PICK x : x = Len(locals) + 1 - p
    OBVIOUS
  <2>5. IsRelease(code'[j], x) /\ x \in 1 .. Len(locals)
    <3>1. IsRelease(code'[q + p], Len(locals) + 1 - p)
      BY <2>3 DEF Emits
    <3> QED
      BY <2>1, <2>3, <2>4, <3>1
  <2>6. code'[j].op = "release" /\ code'[j].local = locals[x] /\ code'[j].id = Visible(code[locals[x]].name)
    BY <2>5 DEF IsRelease
  <2>7. code'[j].local = v => x = w
    BY <1>1, <2>5, <2>6, LocalFacts
  <2> QED
    BY <1>1, <2>6, <2>7
<1>6. r \in q + 1 .. Size'
  BY Inside
<1> QED
  BY <1>3, <1>4, <1>5, <1>6 DEF Leaves

LEMMA ReturnLocalHeld ==
  ASSUME Shape, NEW n \in Name, ReturnLocal(n), NEW A, Held(A)
  PROVE  \E B : Held(B)'
<1>1. /\ Returning /\ Grown /\ Size' = Size + Len(locals) + 2 /\ Emits(Size + 1, 0) /\ InScope(n) # {}
      /\ code'[Size + 1] = Instr("take", Visible(n)) /\ Visible(n) \in Nat
      /\ IsReturn(code'[Size + Len(locals) + 2], Iterables)
  BY ReturnLocalStep
<1>2. NewShape
  BY ReturnsShape
<1>3. suites # << >> /\ Size \in Nat /\ Size' \in Nat /\ Depth \in Nat
  BY <1>2, ShapeStep
<1>4. Len(locals) \in Nat
  BY <1>3, Inside
<1>5. PICK q : q = Size + 1
  OBVIOUS
<1>6. PICK C : C = [k \in Nat |-> IF k <= q + Len(locals) + 1 THEN Left(Len(locals) - (k - (q + 1))) ELSE Own(Depth)]
  OBVIOUS
<1>7. PICK B : Joins(A, B, C)
  BY <1>3, Extension
<1>8. Own(Depth) = Left(Len(locals)) /\ Own(Depth) \subseteq 1 .. Size
  <2>1. Len(locals) \in 0 .. Len(locals)
    BY <1>4
  <2> QED
    BY <1>3, <2>1, LeftRange
<1>9. q \in Nat /\ Size <= q /\ Size' = q + Len(locals) + 1
  BY <1>1, <1>3, <1>4, <1>5
<1>10. \A p \in 0 .. Len(locals) : B[q + 1 + p] = Left(Len(locals) - p)
  <2> TAKE p \in 0 .. Len(locals)
  <2> DEFINE k == q + 1 + p
  <2>1. k \in Size + 2 .. Size' + 1 /\ k \in Nat /\ k <= q + Len(locals) + 1 /\ k - (q + 1) = p
    BY <1>3, <1>4, <1>5, <1>9
  <2>2. B[k] = C[k]
    BY <1>7, <2>1 DEF Joins
  <2> HIDE DEF k
  <2>3. C[k] = Left(Len(locals) - p)
    BY <1>6, <2>1
  <2> QED
    BY <2>2, <2>3 DEF k
<1>11. B[Size' + 1] = Own(Depth)
  <2> DEFINE k == q + Len(locals) + 2
  <2>1. k \in Size + 2 .. Size' + 1 /\ k \in Nat /\ ~(k <= q + Len(locals) + 1) /\ Size' + 1 = k
    BY <1>3, <1>4, <1>5, <1>9
  <2>2. B[k] = C[k]
    BY <1>7, <2>1 DEF Joins
  <2> HIDE DEF k
  <2>3. C[k] = Own(Depth)
    BY <1>6, <2>1
  <2> QED
    BY <2>1, <2>2, <2>3
<1>12. B[q] = Own(Depth) /\ B[q + 1] = Own(Depth)
  <2>1. q \in 1 .. Size + 1 /\ q + 1 + 0 = q + 1 /\ 0 \in 0 .. Len(locals) /\ Len(locals) - 0 = Len(locals)
    BY <1>3, <1>4, <1>5
  <2>2. B[q] = Own(Depth)
    BY <1>3, <1>5, <1>7, <2>1 DEF Joins, Continues, Held, HeldInside
  <2>3. B[q + 1] = Left(Len(locals))
    BY <1>10, <2>1
  <2> QED
    BY <1>8, <2>2, <2>3
<1>13. /\ \A k \in q + 1 .. q + Len(locals) : B[k + 1] \subseteq 1 .. k /\ Edge(B, k)' /\ code'[k].op = "release"
       /\ B[q + Len(locals) + 1] = Iter(Depth)
  <2>1. Emits(q, 0)
    BY <1>1, <1>5
  <2> QED
    BY <1>3, <1>9, <1>10, <2>1, LiveRun
<1>14. PICK e : e = q + Len(locals) + 1
  OBVIOUS
<1>15. e \in 1 .. Size' /\ e > Size /\ Size' = e
       /\ \A k \in Size + 1 .. Size' : k = q \/ k \in q + 1 .. q + Len(locals) \/ k = e
  BY <1>3, <1>4, <1>5, <1>9, <1>14
<1>16. PICK v : v = Visible(n)
  OBVIOUS
<1>17. code'[e].op = "return" /\ B[e] = Iter(Depth) /\ code'[e].skips = Iterables
  <2>1. e = Size + Len(locals) + 2
    BY <1>3, <1>4, <1>5, <1>14
  <2> QED
    BY <1>1, <1>13, <1>14, <2>1 DEF IsReturn
<1>18. code'[q].op = "take" /\ code'[q].id = v
  BY <1>1, <1>5, <1>16 DEF Instr
<1>19. v \in Own(Depth) /\ Leaves(q + 1, e, v, B)'
  <2>1. Emits(q, 0) /\ e <= Size'
    BY <1>1, <1>5, <1>15
  <2> QED
    BY <1>1, <1>3, <1>9, <1>14, <1>16, <1>17, <2>1, TakeLeaves
<1>20. NewEdges(B)
  <2>1. Edge(B, q)'
    BY <1>12, <1>15, <1>18, <1>19, MakeTake
  <2>2. Edge(B, e)'
    BY <1>3, <1>17, IterablesNow, MakeReturn
  <2>3. B[q + 1] \subseteq 1 .. q /\ B[e + 1] \subseteq 1 .. e
    <3>1. \A x \in 1 .. Size : x \in 1 .. q /\ x \in 1 .. e
      BY <1>3, <1>9, <1>15
    <3>2. B[e + 1] = Own(Depth)
      BY <1>11, <1>15
    <3> QED
      BY <1>8, <1>12, <3>1, <3>2
  <2> QED
    BY <1>13, <1>15, <2>1, <2>2, <2>3 DEF NewEdges
<1>21. \A k \in Size + 1 .. Size' : code'[k].op # "goto"
  BY <1>13, <1>15, <1>17, <1>18
<1> QED
  BY <1>1, <1>2, <1>7, <1>11, <1>20, <1>21, ReturningHeld DEF Joins

-----------------------------------------------------------------------------
(***************************************************************************)
(* The end of the function: the code is complete and runs.                 *)
(***************************************************************************)
LEMMA Outermost ==
  ASSUME Shape, suites # << >>, Depth = 1
  PROVE  loops = << >> /\ (\A k : ~Open(k)) /\ Iter(Depth) = {}
<1>1. suites[1].kind = "function" /\ \A i \in 1 .. Depth : i = 1
  BY Inside
<1>2. \A i \in 1 .. Depth : ~IsLoop(suites[i]) /\ ~IsChain(suites[i]) /\ suites[i].kind # "for"
  BY <1>1 DEF IsLoop, IsChain
<1>3. Len(loops) = 0
  <2>1. \A m \in 1 .. Len(loops) : FALSE
    BY <1>2 DEF Shape, Loops
  <2> QED
    BY <2>1, Types DEF Shape
<1>4. loops = << >>
  BY <1>3, Types DEF Shape
<1>5. \A k : ~Open(k)
  BY <1>2 DEF Open
<1>6. Iter(Depth) = {}
  BY <1>2 DEF Iter
<1> QED
  BY <1>4, <1>5, <1>6

LEMMA EndFunctionFacts ==
  ASSUME Shape, EndFunction
  PROVE  /\ suites # << >> /\ Depth = 1 /\ Grown /\ Size' = Size + Len(locals) + 1 /\ Emits(Size, 0)
         /\ Size \in Nat /\ Size' \in Nat /\ Len(locals) \in Nat
         /\ code'[Size'].op = "return" /\ code'[Size'].skips = {}
         /\ \A k \in Size + 1 .. Size' - 1 : code'[k].op = "release"
         /\ suites' = << >> /\ starts' = << >> /\ locals' = << >> /\ loops' = << >> /\ Depth' = 0
         /\ pc' = 1 /\ refs' = [k \in 1 .. Size' |-> 0]
         /\ kind' = kind /\ action' = 0 /\ result' = 0 /\ bad' = {} /\ leaked' = {}
<1>1. /\ suites # << >> /\ Depth = 1 /\ Grown /\ Size' = Size + Len(locals) + 1 /\ Emits(Size, 0)
      /\ code'[Size + Len(locals) + 1] = Instr("return", 0)
      /\ suites' = << >> /\ starts' = << >> /\ locals' = << >> /\ loops' = loops
      /\ pc' = 1 /\ refs' = [k \in 1 .. Size' |-> 0]
      /\ UNCHANGED <<kind, action, result, bad, leaked>>
  BY EndFunctionStep
<1>2. Size \in Nat /\ Len(locals) \in Nat /\ Size' \in Nat
  BY <1>1, Types, Inside DEF Shape, Grown
<1>3. code'[Size'].op = "return" /\ code'[Size'].skips = {}
  BY <1>1 DEF Instr
<1>4. \A k \in Size + 1 .. Size' - 1 : code'[k].op = "release"
  <2>1. PICK m : m = 0
    OBVIOUS
  <2>2. m \in Nat /\ m <= Len(locals) /\ Emits(Size, m) /\ Size + (Len(locals) - m) = Size' - 1
    BY <1>1, <1>2, <2>1
  <2>3. \A k \in Size + 1 .. Size + (Len(locals) - m) : code'[k].op = "release"
    BY <1>2, <2>2, EmitsPlain
  <2> QED
    BY <2>2, <2>3
<1>5. loops' = << >>
  BY <1>1, Outermost
<1>6. action' = 0 /\ result' = 0 /\ bad' = {} /\ leaked' = {}
  BY <1>1 DEF Shape, Halves
<1>7. Depth' = 0
  BY <1>1 DEF Depth
<1> QED
  BY <1>1, <1>2, <1>3, <1>4, <1>5, <1>6, <1>7

LEMMA EndFunctionShape ==
  ASSUME Shape, EndFunction
  PROVE  Shape'
<1>1. /\ suites # << >> /\ Depth = 1 /\ Grown /\ Size' = Size + Len(locals) + 1
      /\ Size \in Nat /\ Size' \in Nat /\ Len(locals) \in Nat
      /\ code'[Size'].op = "return"
      /\ \A k \in Size + 1 .. Size' - 1 : code'[k].op = "release"
      /\ suites' = << >> /\ starts' = << >> /\ locals' = << >> /\ loops' = << >> /\ Depth' = 0
      /\ pc' = 1 /\ refs' = [k \in 1 .. Size' |-> 0]
      /\ kind' = kind /\ action' = 0 /\ result' = 0
  BY EndFunctionFacts
<1>2. refs' \in Seq(Nat) /\ Len(refs') = Size'
  BY <1>1
<1>3. TypeOK'
  <2>1. kind \in {"none", "value", "managed"}
    BY DEF Shape, TypeOK
  <2> QED
    BY <1>1, <1>2, <2>1 DEF TypeOK, Grown
<1>4. Halves'
  <2>1. Size' > 0 /\ 1 \in 0 .. Size'
    BY <1>1
  <2> QED
    BY <1>1, <1>2, <2>1 DEF Halves
<1>5. Suites' /\ Locals' /\ Loops'
  <2>1. Len(starts') = 0 /\ Len(locals') = 0 /\ Len(loops') = 0
    BY <1>1
  <2> QED
    BY <1>1, <2>1 DEF Suites, Locals, Loops
<1>6. \A k \in 1 .. Size' : k \in 1 .. Size \/ k \in Size + 1 .. Size' - 1 \/ k = Size'
  BY <1>1
<1>7. \A k \in 1 .. Size' : (code'[k].op \notin {"release", "return"}) => k \in 1 .. Size /\ code'[k] = code[k]
  BY <1>1, <1>6 DEF Grown
<1>8. \A k \in 1 .. Size : k \in 1 .. Size' /\ code'[k] = code[k]
  BY <1>1 DEF Grown
<1>9. (\A k : ~Open(k)) /\ \A k : ~Open(k)'
  <2>1. \A k : ~Open(k)'
    BY <1>1 DEF Open
  <2> QED
    BY <1>1, <2>1, Outermost
<1>10. \A op, id : Marked(op, id) => Marked(op, id)'
  BY <1>8 DEF Marked, Has
<1>11. Targets'
  <2>1. \A k \in 1 .. Size' : code'[k].op \in {"if", "loop"} => code'[k].id = k
    BY <1>7 DEF Shape, Targets
  <2>2. \A k \in 1 .. Size' : code'[k].op = "if" => Marked("end", k)'
    BY <1>7, <1>9, <1>10 DEF Shape, Targets
  <2>3. \A k \in 1 .. Size' : code'[k].op = "loop" => Marked("label", k)' /\ Marked("next", k)'
    BY <1>7, <1>9, <1>10 DEF Shape, Targets
  <2>4. \A k \in 1 .. Size' : code'[k].op \in {"else", "last", "end"} =>
          code'[k].id \in 1 .. k - 1 /\ code'[code'[k].id].op = "if"
    <3> TAKE k \in 1 .. Size'
    <3> HAVE code'[k].op \in {"else", "last", "end"}
    <3>1. k \in 1 .. Size /\ code'[k] = code[k]
      BY <1>7
    <3>2. code[k].id \in 1 .. k - 1 /\ code[code[k].id].op = "if"
      BY <3>1 DEF Shape, Targets
    <3>3. code[k].id \in 1 .. Size
      BY <1>1, <3>1, <3>2
    <3> QED
      BY <1>8, <3>1, <3>2, <3>3
  <2>5. \A k \in 1 .. Size' : code'[k].op \in {"goto", "label", "next"} =>
          code'[k].id \in 1 .. k - 1 /\ code'[code'[k].id].op = "loop"
    <3> TAKE k \in 1 .. Size'
    <3> HAVE code'[k].op \in {"goto", "label", "next"}
    <3>1. k \in 1 .. Size /\ code'[k] = code[k]
      BY <1>7
    <3>2. code[k].id \in 1 .. k - 1 /\ code[code[k].id].op = "loop"
      BY <3>1 DEF Shape, Targets
    <3>3. code[k].id \in 1 .. Size
      BY <1>1, <3>1, <3>2
    <3> QED
      BY <1>8, <3>1, <3>2, <3>3
  <2>6. \A j, k \in 1 .. Size' : code'[k].op \in Marks /\ Has(j, code[k].op, code[k].id)' => j = k
    <3> TAKE j, k \in 1 .. Size'
    <3> HAVE code'[k].op \in Marks /\ Has(j, code[k].op, code[k].id)'
    <3>1. code'[j].op = code'[k].op /\ code'[j].id = code'[k].id
      BY DEF Has
    <3>2. k \in 1 .. Size /\ code'[k] = code[k] /\ j \in 1 .. Size /\ code'[j] = code[j]
      BY <1>7, <3>1 DEF Marks
    <3> QED
      BY <3>1, <3>2 DEF Shape, Targets, Has
  <2>7. \A j, k \in 1 .. Size' : code'[j].op \in Jumps /\ code'[k].op \in Marks /\ code'[j].id = code'[k].id => j < k
    <3> TAKE j, k \in 1 .. Size'
    <3> HAVE code'[j].op \in Jumps /\ code'[k].op \in Marks /\ code'[j].id = code'[k].id
    <3>1. k \in 1 .. Size /\ code'[k] = code[k] /\ j \in 1 .. Size /\ code'[j] = code[j]
      BY <1>7 DEF Marks, Jumps
    <3> QED
      BY <3>1 DEF Shape, Targets
  <2>8. \A k \in 1 .. Size' : code'[k].op \in Marks => ~Open(code[k].id)'
    BY <1>1 DEF Open
  <2> QED
    BY <2>1, <2>2, <2>3, <2>4, <2>5, <2>6, <2>7, <2>8 DEF Targets, Marks, Jumps
<1> QED
  BY <1>3, <1>4, <1>5, <1>11 DEF Shape

LEMMA EndFunctionHeld ==
  ASSUME Shape, EndFunction, NEW A, Held(A)
  PROVE  \E B : Held(B)' /\ Counts(B)'
<1>1. /\ suites # << >> /\ Depth = 1 /\ Grown /\ Size' = Size + Len(locals) + 1 /\ Emits(Size, 0)
      /\ Size \in Nat /\ Size' \in Nat /\ Len(locals) \in Nat
      /\ code'[Size'].op = "return" /\ code'[Size'].skips = {}
      /\ suites' = << >> /\ Depth' = 0
      /\ pc' = 1 /\ refs' = [k \in 1 .. Size' |-> 0] /\ result' = 0
  BY EndFunctionFacts
<1>2. PICK C : C = [k \in Nat |-> IF k <= Size + Len(locals) + 1 THEN Left(Len(locals) - (k - (Size + 1))) ELSE {}]
  OBVIOUS
<1>3. PICK B : Joins(A, B, C)
  BY <1>1, Extension
<1>4. \A p \in 0 .. Len(locals) : B[Size + 1 + p] = Left(Len(locals) - p)
  <2> TAKE p \in 0 .. Len(locals)
  <2>1. CASE p = 0
    <3>1. Size + 1 + p = Size + 1 /\ Len(locals) - p = Len(locals) /\ Size + 1 \in 1 .. Size + 1 /\ Len(locals) \in 0 .. Len(locals)
      BY <1>1, <2>1
    <3>2. B[Size + 1] = Own(Depth)
      BY <1>1, <1>3, <3>1 DEF Joins, Continues, Held, HeldInside
    <3>3. Own(Depth) = Left(Len(locals))
      BY <1>1, <3>1, LeftRange
    <3> QED
      BY <3>1, <3>2, <3>3
  <2>2. CASE p # 0
    <3> DEFINE k == Size + 1 + p
    <3>1. k \in Size + 2 .. Size' + 1 /\ k \in Nat /\ k <= Size + Len(locals) + 1 /\ k - (Size + 1) = p
      BY <1>1, <2>2
    <3>2. B[k] = C[k]
      BY <1>3, <3>1 DEF Joins
    <3> HIDE DEF k
    <3>3. C[k] = Left(Len(locals) - p)
      BY <1>2, <3>1
    <3> QED
      BY <3>2, <3>3 DEF k
  <2> QED
    BY <2>1, <2>2
<1>5. B[Size' + 1] = {}
  <2>1. Size' + 1 \in Size + 2 .. Size' + 1 /\ Size' + 1 \in Nat /\ ~(Size' + 1 <= Size + Len(locals) + 1)
    BY <1>1
  <2> QED
    BY <1>2, <1>3, <2>1 DEF Joins
<1>6. /\ \A k \in Size + 1 .. Size + Len(locals) : B[k + 1] \subseteq 1 .. k /\ Edge(B, k)'
      /\ B[Size + Len(locals) + 1] = {}
  <2>1. Size <= Size
    BY <1>1
  <2> QED
    BY <1>1, <1>4, <2>1, LiveRun, Outermost
<1>7. PICK e : e = Size + Len(locals) + 1
  OBVIOUS
<1>8. Edge(B, e)'
  BY <1>1, <1>6, <1>7, MakeReturn
<1>9. \A k \in 1 .. Size' : Edge(B, k)'
  <2> TAKE k \in 1 .. Size'
  <2>1. k \in 1 .. Size \/ k \in Size + 1 .. Size + Len(locals) \/ k = e
    BY <1>1, <1>7
  <2>2. CASE k \in 1 .. Size
    <3>1. Edge(A, k) /\ Continues(A, B)
      BY <1>3, <2>2 DEF Held, Joins
    <3> QED
      BY <1>1, <2>2, <3>1, EdgeKept
  <2> QED
    BY <1>6, <1>8, <2>1, <2>2
<1>10. \A k \in 1 .. Size' + 1 : B[k] \subseteq 1 .. k - 1
  <2> TAKE k \in 1 .. Size' + 1
  <2>1. k \in 1 .. Size + 1 \/ k - 1 \in Size + 1 .. Size + Len(locals) \/ k = Size' + 1
    BY <1>1
  <2>2. CASE k \in 1 .. Size + 1
    BY <1>3, <2>2 DEF Held, Joins, Continues
  <2>3. CASE k - 1 \in Size + 1 .. Size + Len(locals)
    <3>1. (k - 1) + 1 = k
      OBVIOUS
    <3> QED
      BY <1>6, <2>3, <3>1
  <2> QED
    BY <1>5, <2>1, <2>2, <2>3
<1>11. B[1] = {}
  <2>1. 1 \in 1 .. Size + 1
    BY <1>1
  <2> QED
    BY <1>3, <2>1 DEF Held, Joins, Continues
<1>12. Held(B)'
  <2>1. HeldInside(B)'
    BY <1>1 DEF HeldInside
  <2> QED
    BY <1>9, <1>10, <1>11, <2>1 DEF Held
<1>13. Counts(B)'
  <2>1. \A d \in 1 .. Size' : refs'[d] = 0
    BY <1>1
  <2>2. OneEach(B)'
    BY <1>1, <1>11, <2>1 DEF OneEach
  <2>3. OneOver(B)'
    BY <1>1 DEF OneOver
  <2> QED
    BY <2>2, <2>3 DEF Counts
<1> QED
  BY <1>12, <1>13

-----------------------------------------------------------------------------
(***************************************************************************)
(* What can be reached grows with the code.                                *)
(***************************************************************************)
LEMMA DeadNow ==
  ASSUME NEW i \in Nat \ {0}
  PROVE  Dead(i) <=> Dead(i - 1) \/ suites[i].returns
<1>1. \A k \in 1 .. i : k \in 1 .. i - 1 \/ k = i
  OBVIOUS
<1>2. (\A k \in 1 .. i - 1 : k \in 1 .. i) /\ i \in 1 .. i
  OBVIOUS
<1> QED
  BY <1>1, <1>2 DEF Dead

LEMMA DeadNext ==
  ASSUME NEW i \in Nat \ {0}
  PROVE  Dead(i)' <=> Dead(i - 1)' \/ suites'[i].returns
<1>1. \A k \in 1 .. i : k \in 1 .. i - 1 \/ k = i
  OBVIOUS
<1>2. (\A k \in 1 .. i - 1 : k \in 1 .. i) /\ i \in 1 .. i
  OBVIOUS
<1> QED
  BY <1>1, <1>2 DEF Dead

LEMMA DeadFrame ==
  ASSUME Frame, NEW i \in Nat, i <= Depth, i < Depth'
  PROVE  Dead(i)' <=> Dead(i)
<1>1. \A k \in 1 .. i : suites'[k] = suites[k]
  <2> TAKE k \in 1 .. i
  <2>1. k \in 1 .. Depth /\ k < Depth'
    BY FrameDepth
  <2> QED
    BY <2>1 DEF Frame, SuitesFrame
<1> QED
  BY <1>1 DEF Dead

LEMMA DeadEnter ==
  ASSUME Frame, Depth' = Depth + 1, ~suites'[Depth'].returns
  PROVE  Dead(Depth)' <=> Dead(Depth)
<1>1. PICK i : i = Depth
  OBVIOUS
<1>2. i \in Nat /\ i <= Depth /\ i < Depth' /\ i + 1 \in Nat \ {0} /\ (i + 1) - 1 = i /\ Depth' = i + 1
  BY <1>1, FrameDepth
<1>3. Dead(i)' <=> Dead(i)
  BY <1>2, DeadFrame
<1>4. Dead(i + 1)' <=> Dead(i)'
  BY <1>2, DeadNext
<1>5. Dead(Depth)' <=> Dead(i + 1)'
  BY <1>2 DEF Dead
<1> QED
  BY <1>1, <1>3, <1>4, <1>5

LEMMA DeadStay ==
  ASSUME Frame, Depth' = Depth
  PROVE  /\ Dead(Depth)' <=> Dead(Depth - 1) \/ suites'[Depth].returns
         /\ Dead(Depth) <=> Dead(Depth - 1) \/ suites[Depth].returns
<1>1. PICK i : i = Depth
  OBVIOUS
<1>2. i \in Nat \ {0} /\ i - 1 \in Nat /\ i - 1 <= Depth /\ i - 1 < Depth' /\ Depth' = i
  BY <1>1, FrameDepth
<1>3. Dead(i - 1)' <=> Dead(i - 1)
  BY <1>2, DeadFrame
<1>4. (Dead(i)' <=> Dead(i - 1)' \/ suites'[i].returns) /\ (Dead(i) <=> Dead(i - 1) \/ suites[i].returns)
  BY <1>2, DeadNext, DeadNow
<1>5. Dead(Depth)' <=> Dead(i)'
  BY <1>2 DEF Dead
<1> QED
  BY <1>1, <1>3, <1>4, <1>5

LEMMA DeadLeave ==
  ASSUME Frame, Depth' = Depth - 1, NEW x \in BOOLEAN,
         suites'[Depth - 1].returns = (suites[Depth - 1].returns \/ x), suites[Depth - 1].returns \in BOOLEAN
  PROVE  /\ Dead(Depth)' <=> Dead(Depth - 1) \/ x
         /\ Dead(Depth) <=> Dead(Depth - 1) \/ suites[Depth].returns
<1>1. PICK i : i = Depth - 1
  OBVIOUS
<1>2. i \in Nat \ {0} /\ i - 1 \in Nat /\ i - 1 <= Depth /\ i - 1 < Depth' /\ Depth' = i /\ Depth \in Nat \ {0}
  BY <1>1, FrameDepth
<1>3. Dead(i - 1)' <=> Dead(i - 1)
  BY <1>2, DeadFrame
<1>4. (Dead(i)' <=> Dead(i - 1)' \/ suites'[i].returns) /\ (Dead(i) <=> Dead(i - 1) \/ suites[i].returns)
  BY <1>2, DeadNext, DeadNow
<1>5. Dead(Depth)' <=> Dead(i)'
  BY <1>2 DEF Dead
<1>6. Dead(Depth) <=> Dead(Depth - 1) \/ suites[Depth].returns
  BY <1>2, DeadNow
<1> QED
  BY <1>1, <1>3, <1>4, <1>5, <1>6

\* The new instructions up to f can be reached if the place they are written
\* at can, those behind f if the place after them can.
Splits(R, Q, f) ==
  /\ f \in Size .. Size'
  /\ \A k \in 1 .. Size : k \in Q <=> k \in R
  /\ \A k \in Size + 1 .. f : k \in Q <=> ~Dead(Depth)
  /\ \A k \in f + 1 .. Size' + 1 : k \in Q <=> ~Dead(Depth)'

LEMMA SplitExists ==
  ASSUME Size \in Nat, Size' \in Nat, NEW R, NEW f, f \in Size .. Size'
  PROVE  \E Q : Splits(R, Q, f)
<1>1. PICK Q : Q = {k \in Nat : \/ k <= Size /\ k \in R
                                \/ Size < k /\ k <= f /\ ~Dead(Depth)
                                \/ f < k /\ ~Dead(Depth)'}
  OBVIOUS
<1>2. \A k \in 1 .. Size : k \in Q <=> k \in R
  <2>1. \A k \in 1 .. Size : k \in Nat /\ k <= Size /\ ~(Size < k) /\ ~(f < k)
    OBVIOUS
  <2> QED
    BY <1>1, <2>1
<1>3. \A k \in Size + 1 .. f : k \in Q <=> ~Dead(Depth)
  <2>1. \A k \in Size + 1 .. f : k \in Nat /\ ~(k <= Size) /\ Size < k /\ k <= f /\ ~(f < k)
    OBVIOUS
  <2> QED
    BY <1>1, <2>1
<1>4. \A k \in f + 1 .. Size' + 1 : k \in Q <=> ~Dead(Depth)'
  <2>1. \A k \in f + 1 .. Size' + 1 : k \in Nat /\ ~(k <= Size) /\ Size < k /\ ~(k <= f) /\ f < k
    OBVIOUS
  <2> QED
    BY <1>1, <2>1
<1> QED
  BY <1>2, <1>3, <1>4 DEF Splits

\* What Q says of the code so far is what R says.
Follows(R, Q) == (\A k \in 1 .. Size : k \in Q <=> k \in R) /\ (Size + 1 \in R => Size + 1 \in Q)

LEMMA ArrivesKept ==
  ASSUME Shape, Grown, Size \in Nat, NEW R, NEW Q, Follows(R, Q), NEW k \in 1 .. Size, Arrives(R, k)
  PROVE  Arrives(Q, k)'
<1>1. code'[k] = code[k] /\ \A j \in 1 .. k - 1 : j \in 1 .. Size /\ code'[j] = code[j]
  BY DEF Grown
<1>2. k + 1 \in R => k + 1 \in Q
  <2>1. k + 1 \in 1 .. Size \/ k + 1 = Size + 1
    OBVIOUS
  <2> QED
    BY <2>1 DEF Follows
<1>3. code[k].op \in {"else", "last", "end", "next"} => code[k].id \in 1 .. k - 1
  BY DEF Shape, Targets
<1>4. ArrivesNext(Q, k)'
  <2>1. code[k].op \in {"else", "last", "next"} => (code[k].id \in Q <=> code[k].id \in R)
    BY <1>1, <1>3 DEF Follows
  <2>2. k \in Q <=> k \in R
    BY DEF Follows
  <2>3. ArrivesNext(R, k)
    BY DEF Arrives
  <2> QED
    BY <1>1, <1>2, <2>1, <2>2, <2>3 DEF ArrivesNext
<1>5. ArrivesEnd(Q, k)'
  <2>1. code[k].op = "end" => (code[k].id \in Q <=> code[k].id \in R)
    BY <1>1, <1>3 DEF Follows
  <2>2. (k \in Q <=> k \in R) /\ \A j \in 1 .. k - 1 : j \in Q <=> j \in R
    BY <1>1 DEF Follows
  <2>3. ArrivesEnd(R, k)
    BY DEF Arrives
  <2> QED
    BY <1>1, <2>1, <2>2, <2>3 DEF ArrivesEnd
<1>6. ArrivesLabel(Q, k)'
  <2>1. (k \in Q <=> k \in R) /\ \A j \in 1 .. k - 1 : j \in Q <=> j \in R
    BY <1>1 DEF Follows
  <2>2. ArrivesLabel(R, k)
    BY DEF Arrives
  <2> QED
    BY <1>1, <2>1, <2>2 DEF ArrivesLabel, Has
<1> QED
  BY <1>4, <1>5, <1>6 DEF Arrives

\* What is to be shown of a step of the generator for what can be reached.
NewArrives(Q) == \A k \in Size + 1 .. Size' : Arrives(Q, k)'
NewEntered(Q) == Depth' > Depth =>
  /\ suites'[Depth'].kind # "last"
  /\ IsChain(suites'[Depth']) \/ IsLoop(suites'[Depth']) => (suites'[Depth'].id \in Q <=> ~Dead(Depth))
NewElse(Q) == \A j \in Size + 1 .. Size' : code'[j].op \in {"else", "last"} =>
  \A i \in 1 .. Depth' : IsChain(suites'[i]) /\ suites'[i].id = code'[j].id /\ j \in Q =>
    ~suites'[i].prior /\ ~Dead(i - 1)'
NewJump(Q) == \A g \in Size + 1 .. Size' : code'[g].op = "goto" =>
  \A i \in 1 .. Depth' : IsLoop(suites'[i]) /\ suites'[i].id = code'[g].id /\ g \in Q => ~Dead(i - 1)'
ChainKept == Depth' <= Depth =>
  /\ suites'[Depth'].prior => suites[Depth'].prior
  /\ suites'[Depth'].kind = "last" =>
       \/ suites[Depth'].kind = "last"
       \/ \E j \in Size + 1 .. Size' : code'[j] = Instr("last", suites'[Depth'].id)

LEMMA ReachStep ==
  ASSUME Shape, NewShape, NEW R, NEW Q, Reached(R), Follows(R, Q), NewArrives(Q), NewEntered(Q), NewElse(Q), NewJump(Q),
         ChainKept, Size' + 1 \in Q <=> ~Dead(Depth)'
  PROVE  Reached(Q)'
<1>1. /\ Shape' /\ suites # << >> /\ suites' # << >> /\ Grown /\ Frame /\ NewSuite
      /\ Depth' \in Nat /\ Depth \in Nat /\ Size' \in Nat /\ Size \in Nat /\ Size <= Size'
  BY ShapeStep DEF NewShape, Grown
<1>2. \A k \in 1 .. Size' : k \in 1 .. Size \/ k \in Size + 1 .. Size'
  BY <1>1
<1>3. 1 \in Q
  <2>1. 1 \in 1 .. Size \/ 1 = Size + 1
    BY <1>1
  <2> QED
    BY <2>1 DEF Reached, Follows
<1>4. \A k \in 1 .. Size' : Arrives(Q, k)'
  <2> TAKE k \in 1 .. Size'
  <2>1. CASE k \in 1 .. Size
    <3>1. Arrives(R, k)
      BY <2>1 DEF Reached
    <3> QED
      BY <1>1, <2>1, <3>1, ArrivesKept
  <2> QED
    BY <1>2, <2>1 DEF NewArrives
<1>5. \A i \in 1 .. Depth' : (i \in 1 .. Depth /\ i <= Depth') \/ (i = Depth' /\ i = Depth + 1 /\ Depth' > Depth)
  BY <1>1, FrameDepth
<1>6. \A i \in 1 .. Depth : i <= Depth' =>
        /\ suites'[i].id = suites[i].id
        /\ (IsLoop(suites'[i]) <=> IsLoop(suites[i])) /\ (IsChain(suites'[i]) <=> IsChain(suites[i]))
  BY <1>1, FrameSuite DEF SameBlock
<1>7. \A i \in 1 .. Depth : i <= Depth' => (Dead(i - 1)' <=> Dead(i - 1))
  <2> TAKE i \in 1 .. Depth
  <2> HAVE i <= Depth'
  <2>1. i - 1 \in Nat /\ i - 1 <= Depth /\ i - 1 < Depth'
    BY <1>1
  <2> QED
    BY <1>1, <2>1, DeadFrame
<1>8. \A i \in 1 .. Depth : IsChain(suites[i]) \/ IsLoop(suites[i]) => suites[i].id \in 1 .. Size
  <2> TAKE i \in 1 .. Depth
  <2>1. IsChain(suites[i]) \/ IsLoop(suites[i]) => i > 1
    BY <1>1, Inside DEF IsChain, IsLoop
  <2> QED
    BY <2>1 DEF Shape, Suites
<1>9. \A k \in 1 .. Size : code'[k] = code[k] /\ (k \in Q <=> k \in R)
  BY <1>1 DEF Grown, Follows
<1>10. ASSUME NEW i \in 1 .. Depth', i = Depth + 1, Depth' > Depth
       PROVE  (Dead(i - 1)' <=> Dead(Depth)) /\ suites'[i].id > Size /\ i = Depth' /\ suites'[i].id \in Nat
  <2>1. i - 1 \in Nat /\ i - 1 <= Depth /\ i - 1 < Depth' /\ i - 1 = Depth /\ i = Depth'
    BY <1>1, <1>10, FrameDepth
  <2>2. Dead(i - 1)' <=> Dead(i - 1)
    BY <1>1, <2>1, DeadFrame
  <2>3. suites'[i].id \in Size + 1 .. Size'
    BY <1>1, <1>10, <2>1 DEF NewSuite
  <2>4. suites'[i].id > Size /\ suites'[i].id \in Nat
    <3> DEFINE x == suites'[i].id
               top == Size'
    <3>1. x \in Size + 1 .. top /\ top \in Nat /\ Size \in Nat
      BY <1>1, <2>3
    <3> HIDE DEF x, top
    <3>2. x > Size /\ x \in Nat
      BY <3>1
    <3> QED
      BY <3>2 DEF x
  <2>5. Dead(i - 1) <=> Dead(Depth)
    BY <2>1
  <2> QED
    BY <2>1, <2>2, <2>4, <2>5
<1>11. ASSUME NEW i \in 1 .. Depth', IsChain(suites'[i]) \/ IsLoop(suites'[i])
       PROVE  suites'[i].id \in Q <=> ~Dead(i - 1)'
  <2>1. CASE i \in 1 .. Depth /\ i <= Depth'
    <3>1. IsChain(suites[i]) \/ IsLoop(suites[i])
      BY <1>6, <1>11, <2>1
    <3>2. suites[i].id \in R <=> ~Dead(i - 1)
      BY <2>1, <3>1 DEF Reached, ReachedInside
    <3>3. suites[i].id \in 1 .. Size /\ suites'[i].id = suites[i].id /\ (Dead(i - 1)' <=> Dead(i - 1))
      BY <1>6, <1>7, <1>8, <2>1, <3>1
    <3> QED
      BY <1>9, <3>2, <3>3
  <2>2. CASE i = Depth' /\ i = Depth + 1 /\ Depth' > Depth
    BY <1>10, <1>11, <2>2 DEF NewEntered
  <2> QED
    BY <1>5, <2>1, <2>2
<1>12. ASSUME NEW i \in 1 .. Depth', IsChain(suites'[i])
       PROVE  ReachedChain(Q, i)'
  <2>1. ASSUME suites'[i].kind = "last"
        PROVE  \E j \in 1 .. Size' : code'[j] = Instr("last", suites'[i].id)
    <3>1. CASE i \in 1 .. Depth /\ i <= Depth'
      <4>1. suites[i].kind = "last" \/ \E j \in Size + 1 .. Size' : code'[j] = Instr("last", suites'[i].id)
        <5>1. CASE i < Depth'
          BY <1>1, <2>1, <3>1, <5>1 DEF Frame, SuitesFrame
        <5>2. CASE i = Depth'
          <6>1. Depth' <= Depth
            BY <1>1, <3>1, <5>2
          <6> QED
            BY <2>1, <5>2, <6>1 DEF ChainKept
        <5> QED
          BY <1>1, <3>1, <5>1, <5>2
      <4>2. ASSUME suites[i].kind = "last"
            PROVE  \E j \in 1 .. Size : code'[j] = Instr("last", suites'[i].id)
        <5>1. IsChain(suites[i])
          BY <4>2 DEF IsChain
        <5>2. PICK j \in 1 .. Size : code[j] = Instr("last", suites[i].id)
          BY <3>1, <4>2, <5>1 DEF Reached, ReachedInside, ReachedChain
        <5> QED
          BY <1>6, <1>9, <3>1, <5>2
      <4>3. (\A j \in 1 .. Size : j \in 1 .. Size') /\ \A j \in Size + 1 .. Size' : j \in 1 .. Size'
        BY <1>1
      <4> QED
        BY <4>1, <4>2, <4>3
    <3>2. CASE i = Depth' /\ i = Depth + 1 /\ Depth' > Depth
      BY <2>1, <3>2 DEF NewEntered
    <3> QED
      BY <1>5, <3>1, <3>2
  <2>2. ASSUME NEW j \in 1 .. Size', code'[j].op \in {"else", "last"}, code'[j].id = suites'[i].id, j \in Q
        PROVE  ~suites'[i].prior /\ ~Dead(i - 1)'
    <3>1. CASE j \in Size + 1 .. Size'
      BY <1>12, <2>2, <3>1 DEF NewElse
    <3>2. CASE j \in 1 .. Size /\ i \in 1 .. Depth /\ i <= Depth'
      <4>1. IsChain(suites[i]) /\ suites'[i].id = suites[i].id /\ code'[j] = code[j] /\ j \in R
        BY <1>6, <1>9, <1>12, <2>2, <3>2
      <4>2. ~suites[i].prior /\ ~Dead(i - 1)
        BY <2>2, <3>2, <4>1 DEF Reached, ReachedInside, ReachedChain
      <4>3. suites'[i].prior => suites[i].prior
        <5>1. CASE i < Depth'
          BY <1>1, <3>2, <5>1 DEF Frame, SuitesFrame
        <5>2. CASE i = Depth'
          <6>1. Depth' <= Depth
            BY <1>1, <3>2, <5>2
          <6> QED
            BY <5>2, <6>1 DEF ChainKept
        <5> QED
          BY <1>1, <3>2, <5>1, <5>2
      <4> QED
        BY <1>7, <3>2, <4>2, <4>3
    <3>3. CASE j \in 1 .. Size /\ i = Depth' /\ i = Depth + 1 /\ Depth' > Depth
      <4>1. suites'[i].id > Size
        BY <1>10, <3>3
      <4>2. code[j].id \in 1 .. j - 1 /\ code'[j] = code[j]
        BY <1>9, <2>2, <3>3 DEF Shape, Targets
      <4> QED
        BY <1>1, <2>2, <3>3, <4>1, <4>2
    <3> QED
      BY <1>2, <1>5, <3>1, <3>2, <3>3
  <2> QED
    BY <2>1, <2>2 DEF ReachedChain
<1>13. ASSUME NEW i \in 1 .. Depth', IsLoop(suites'[i])
       PROVE  ReachedLoop(Q, i)'
  <2>1. ASSUME NEW g \in 1 .. Size', code'[g].op = "goto", code'[g].id = suites'[i].id, g \in Q
        PROVE  ~Dead(i - 1)'
    <3>1. CASE g \in Size + 1 .. Size'
      BY <1>13, <2>1, <3>1 DEF NewJump
    <3>2. CASE g \in 1 .. Size /\ i \in 1 .. Depth /\ i <= Depth'
      <4>1. IsLoop(suites[i]) /\ suites'[i].id = suites[i].id /\ code'[g] = code[g] /\ g \in R
        BY <1>6, <1>9, <1>13, <2>1, <3>2
      <4>2. ~Dead(i - 1)
        BY <2>1, <3>2, <4>1 DEF Reached, ReachedInside, ReachedLoop, Has
      <4> QED
        BY <1>7, <3>2, <4>2
    <3>3. CASE g \in 1 .. Size /\ i = Depth' /\ i = Depth + 1 /\ Depth' > Depth
      <4>1. suites'[i].id > Size
        BY <1>10, <3>3
      <4>2. code[g].id \in 1 .. g - 1 /\ code'[g] = code[g]
        BY <1>9, <2>1, <3>3 DEF Shape, Targets
      <4> QED
        BY <1>1, <2>1, <3>3, <4>1, <4>2
    <3> QED
      BY <1>2, <1>5, <3>1, <3>2, <3>3
  <2> QED
    BY <2>1 DEF ReachedLoop, Has
<1>14. ReachedInside(Q)'
  BY <1>1, <1>11, <1>12, <1>13 DEF ReachedInside
<1> QED
  BY <1>3, <1>4, <1>14 DEF Reached

LEMMA DeadGrows ==
  ASSUME NEW i \in Nat, NEW j \in Nat, i <= j, Dead(i)
  PROVE  Dead(j)
BY DEF Dead

\* The suites around a new instruction do not return when it is reached.
LEMMA DeadAround ==
  ASSUME Shape, NewShape, NEW i \in 1 .. Depth', Dead(i - 1)', i <= Depth \/ Depth' > Depth
  PROVE  Dead(Depth)
<1>1. Frame /\ Depth \in Nat /\ Depth' \in Nat
  BY ShapeStep DEF NewShape
<1>2. i - 1 \in Nat /\ i - 1 <= Depth /\ i - 1 < Depth'
  BY <1>1, FrameDepth
<1>3. Dead(i - 1)
  BY <1>1, <1>2, DeadFrame
<1> QED
  BY <1>1, <1>2, <1>3, DeadGrows

\* For the steps after which control goes on from one new instruction to the
\* next.
Onward ==
  /\ \A k \in Size + 1 .. Size' : code'[k].op \in {"declare", "release", "take", "if", "loop", "goto", "return"}
  /\ \A k \in Size + 1 .. Size' : k < Size' => code'[k].op \notin {"goto", "return"}
  /\ \/ Size' > Size /\ code'[Size'].op \in {"goto", "return"}
     \/ ~Dead(Depth) => ~Dead(Depth)'

LEMMA ReachOn ==
  ASSUME Shape, NewShape, NEW R, Reached(R), Onward, ChainKept, Depth' > Depth => suites'[Depth'].kind # "last"
  PROVE  \E Q : Reached(Q)'
<1>1. /\ suites # << >> /\ Grown /\ Frame /\ NewSuite
      /\ Depth' \in Nat /\ Depth \in Nat /\ Size' \in Nat /\ Size \in Nat /\ Size <= Size'
  BY ShapeStep DEF NewShape, Grown
<1>2. PICK f : f = Size'
  OBVIOUS
<1>3. f \in Size .. Size'
  BY <1>1, <1>2
<1>4. PICK Q : Splits(R, Q, f)
  BY <1>1, <1>3, SplitExists
<1>5. /\ \A k \in 1 .. Size : k \in Q <=> k \in R
      /\ \A k \in Size + 1 .. Size' : k \in Q <=> ~Dead(Depth)
      /\ Size' + 1 \in Q <=> ~Dead(Depth)'
  <2>1. Size' + 1 \in f + 1 .. Size' + 1
    BY <1>1, <1>2
  <2> QED
    BY <1>2, <1>4, <2>1 DEF Splits
<1>6. Follows(R, Q)
  <2>1. Size + 1 \in R => ~Dead(Depth)
    BY <1>1 DEF Reached, ReachedInside
  <2>2. CASE Size' > Size
    <3>1. Size + 1 \in Size + 1 .. Size'
      BY <1>1, <2>2
    <3> QED
      BY <1>5, <2>1, <3>1 DEF Follows
  <2>3. CASE Size' = Size
    <3>1. ~Dead(Depth) => ~Dead(Depth)'
      BY <1>1, <2>3 DEF Onward
    <3>2. Size + 1 \in Q <=> ~Dead(Depth)'
      BY <1>5, <2>3
    <3> QED
      BY <1>5, <2>1, <3>1, <3>2 DEF Follows
  <2> QED
    BY <1>1, <2>2, <2>3
<1>7. NewArrives(Q)
  <2> SUFFICES ASSUME NEW k \in Size + 1 .. Size'
               PROVE  Arrives(Q, k)'
    BY DEF NewArrives
  <2>1. code'[k].op \in {"declare", "release", "take", "if", "loop", "goto", "return"}
    BY DEF Onward
  <2>2. code'[k].op \notin {"goto", "return"} /\ k \in Q => k + 1 \in Q
    <3> HAVE code'[k].op \notin {"goto", "return"} /\ k \in Q
    <3>1. ~Dead(Depth)
      BY <1>5
    <3>2. CASE k = Size'
      <4>1. k + 1 = Size' + 1 /\ Size' > Size
        BY <1>1, <3>2
      <4> QED
        BY <1>5, <3>1, <3>2, <4>1 DEF Onward
    <3>3. CASE k < Size'
      <4>1. k + 1 \in Size + 1 .. Size'
        BY <1>1, <3>3
      <4> QED
        BY <1>5, <3>1, <4>1
    <3> QED
      BY <1>1, <3>2, <3>3
  <2> QED
    BY <2>1, <2>2 DEF Arrives, ArrivesNext, ArrivesEnd, ArrivesLabel
<1>8. NewEntered(Q)
  BY <1>1, <1>5 DEF NewEntered, NewSuite
<1>9. NewElse(Q)
  BY DEF NewElse, Onward
<1>10. NewJump(Q)
  <2> SUFFICES ASSUME NEW g \in Size + 1 .. Size', NEW i \in 1 .. Depth', g \in Q, code'[g].op = "goto",
                      suites'[i].id = code'[g].id
               PROVE  ~Dead(i - 1)'
    BY DEF NewJump
  <2>1. ~Dead(Depth)
    BY <1>5
  <2>2. i <= Depth \/ Depth' > Depth
    BY <1>1
  <2> QED
    BY <2>1, <2>2, DeadAround
<1> QED
  BY <1>5, <1>6, <1>7, <1>8, <1>9, <1>10, ReachStep

\* The step does not touch the flags of the suites.
LEMMA SameChain ==
  ASSUME Depth' = Depth, suites'[Depth].prior = suites[Depth].prior, suites'[Depth].kind = suites[Depth].kind
  PROVE  ChainKept
BY DEF ChainKept

LEMMA DeclareReached ==
  ASSUME Shape, NEW n \in Name, Declare(n), NEW R, Reached(R)
  PROVE  \E Q : Reached(Q)'
<1>1. Size' = Size + 1 /\ code'[Size + 1] = Declaration(n) /\ Depth' = Depth /\ suites' = suites
  BY DeclareStep
<1>2. NewShape
  BY DeclareShape
<1>3. Size \in Nat /\ Depth \in Nat
  BY <1>2, ShapeStep
<1>4. ChainKept
  BY <1>1, SameChain
<1>5. Onward
  <2>1. \A k \in Size + 1 .. Size' : k = Size + 1 /\ ~(k < Size')
    BY <1>1, <1>3
  <2>2. code'[Size + 1].op = "declare"
    BY <1>1, MadeDeclaration
  <2>3. Dead(Depth)' <=> Dead(Depth)
    BY <1>1 DEF Dead
  <2> QED
    BY <2>1, <2>2, <2>3 DEF Onward
<1>6. ~(Depth' > Depth)
  BY <1>1, <1>3
<1> QED
  BY <1>2, <1>4, <1>5, <1>6, ReachOn

LEMMA EnterReached ==
  ASSUME Shape, NewShape, Depth' = Depth + 1, suites'[Depth'].kind # "last", suites'[Depth'].returns = FALSE,
         \A k \in Size + 1 .. Size' : code'[k].op \in {"declare", "if", "loop"}, NEW R, Reached(R)
  PROVE  \E Q : Reached(Q)'
<1>1. Frame /\ Depth \in Nat
  BY ShapeStep DEF NewShape
<1>2. ChainKept
  BY <1>1 DEF ChainKept
<1>3. Onward
  <2>1. Dead(Depth)' <=> Dead(Depth)
    BY <1>1, DeadEnter
  <2> QED
    BY <2>1 DEF Onward
<1> QED
  BY <1>2, <1>3, ReachOn

LEMMA BeginReached ==
  ASSUME Shape, BeginIf \/ BeginWhile \/ \E n \in Name : BeginFor(n) \/ BeginWith(n), NEW R, Reached(R)
  PROVE  \E Q : Reached(Q)'
<1>1. NewShape
  BY BeginIfShape, BeginWhileShape, BeginForShape, BeginWithShape
<1>2. Size \in Nat /\ Depth \in Nat
  BY <1>1, ShapeStep
<1>3. CASE BeginIf
  <2>1. Size' = Size + 1 /\ code'[Size + 1] = Instr("if", Size + 1) /\ Depth' = Depth + 1
        /\ suites'[Depth + 1] = Suite("if", Size + 1, TRUE)
    BY <1>3, BeginIfStep
  <2>2. suites'[Depth'].kind # "last" /\ suites'[Depth'].returns = FALSE
    BY <2>1 DEF Suite
  <2>3. \A k \in Size + 1 .. Size' : code'[k].op \in {"declare", "if", "loop"}
    <3>1. \A k \in Size + 1 .. Size' : k = Size + 1
      BY <1>2, <2>1
    <3> QED
      BY <2>1, <3>1 DEF Instr
  <2> QED
    BY <1>1, <2>1, <2>2, <2>3, EnterReached
<1>4. CASE BeginWhile
  <2>1. Size' = Size + 1 /\ code'[Size + 1] = Instr("loop", Size + 1) /\ Depth' = Depth + 1
        /\ suites'[Depth + 1] = Suite("while", Size + 1, FALSE)
    BY <1>4, BeginWhileStep
  <2>2. suites'[Depth'].kind # "last" /\ suites'[Depth'].returns = FALSE
    BY <2>1 DEF Suite
  <2>3. \A k \in Size + 1 .. Size' : code'[k].op \in {"declare", "if", "loop"}
    <3>1. \A k \in Size + 1 .. Size' : k = Size + 1
      BY <1>2, <2>1
    <3> QED
      BY <2>1, <3>1 DEF Instr
  <2> QED
    BY <1>1, <2>1, <2>2, <2>3, EnterReached
<1>5. ASSUME NEW n \in Name, BeginFor(n)
      PROVE  \E Q : Reached(Q)'
  <2>1. /\ Size' = Size + 3 /\ code'[Size + 1] = Declaration(NULL)
        /\ code'[Size + 2] = Instr("loop", Size + 2) /\ code'[Size + 3] = Declaration(n)
        /\ Depth' = Depth + 1 /\ suites'[Depth + 1] = Suite("for", Size + 2, FALSE)
    BY <1>5, BeginForStep
  <2>2. suites'[Depth'].kind # "last" /\ suites'[Depth'].returns = FALSE
    BY <2>1 DEF Suite
  <2>3. \A k \in Size + 1 .. Size' : code'[k].op \in {"declare", "if", "loop"}
    <3>1. \A k \in Size + 1 .. Size' : k = Size + 1 \/ k = Size + 2 \/ k = Size + 3
      BY <1>2, <2>1
    <3>2. code'[Size + 1].op = "declare" /\ code'[Size + 2].op = "loop" /\ code'[Size + 3].op = "declare"
      BY <2>1, MadeDeclaration DEF Instr
    <3> QED
      BY <3>1, <3>2
  <2> QED
    BY <1>1, <2>1, <2>2, <2>3, EnterReached
<1>6. ASSUME NEW n \in Name, BeginWith(n)
      PROVE  \E Q : Reached(Q)'
  <2>1. Size' = Size + 1 /\ code'[Size + 1] = Declaration(n) /\ Depth' = Depth + 1
        /\ suites'[Depth + 1] = Suite("with", Size + 1, FALSE)
    BY <1>6, BeginWithStep
  <2>2. suites'[Depth'].kind # "last" /\ suites'[Depth'].returns = FALSE
    BY <2>1 DEF Suite
  <2>3. \A k \in Size + 1 .. Size' : code'[k].op \in {"declare", "if", "loop"}
    <3>1. \A k \in Size + 1 .. Size' : k = Size + 1
      BY <1>2, <2>1
    <3> QED
      BY <2>1, <3>1, MadeDeclaration
  <2> QED
    BY <1>1, <2>1, <2>2, <2>3, EnterReached
<1> QED
  BY <1>3, <1>4, <1>5, <1>6

LEMMA EndWithReached ==
  ASSUME Shape, EndWith, NEW R, Reached(R)
  PROVE  \E Q : Reached(Q)'
<1>1. NewShape
  BY EndWithShape
<1>2. /\ Scope \in Nat /\ Size' = Size + Scope /\ Emits(Size, starts[Depth])
      /\ suites # << >> /\ Depth' = Depth - 1 /\ Depth > 1
      /\ suites'[Depth - 1].returns = suites[Depth - 1].returns
      /\ suites'[Depth - 1].kind = suites[Depth - 1].kind
      /\ suites'[Depth - 1].prior = suites[Depth - 1].prior
  BY EndWithStep
<1>3. Frame /\ Size \in Nat /\ Depth \in Nat
  BY <1>1, ShapeStep DEF NewShape
<1>4. starts[Depth] \in 0 .. Len(locals) /\ Len(locals) \in Nat
  BY <1>2, Inside
<1>5. \A k \in Size + 1 .. Size' : code'[k].op = "release"
  BY <1>2, <1>3, <1>4, EmitsPlain DEF Scope
<1>6. ~Dead(Depth) => ~Dead(Depth)'
  <2>1. suites[Depth - 1].returns \in BOOLEAN
    BY <1>2, <1>3, Types DEF Shape, SuiteType
  <2>2. suites'[Depth - 1].returns = (suites[Depth - 1].returns \/ FALSE)
    BY <1>2, <2>1
  <2>3. (Dead(Depth)' <=> Dead(Depth - 1) \/ FALSE) /\ (Dead(Depth) <=> Dead(Depth - 1) \/ suites[Depth].returns)
    BY <1>2, <1>3, <2>1, <2>2, DeadLeave
  <2> QED
    BY <2>3
<1>7. Onward
  BY <1>5, <1>6 DEF Onward
<1>8. ChainKept
  BY <1>2 DEF ChainKept
<1>9. ~(Depth' > Depth)
  BY <1>2, <1>3
<1> QED
  BY <1>1, <1>7, <1>8, <1>9, ReachOn

LEMMA JumpReached ==
  ASSUME Shape, NEW a \in {1, 2}, Jump(a), NEW R, Reached(R)
  PROVE  \E Q : Reached(Q)'
<1>1. Size' = Size + 1 /\ code'[Size + 1].op = "goto" /\ Depth' = Depth /\ suites' = suites
  BY JumpStep
<1>2. NewShape
  BY JumpShape
<1>3. Size \in Nat /\ Depth \in Nat
  BY <1>2, ShapeStep
<1>4. ChainKept
  BY <1>1, SameChain
<1>5. Onward
  <2>1. \A k \in Size + 1 .. Size' : k = Size + 1 /\ ~(k < Size')
    BY <1>1, <1>3
  <2>2. Size' > Size
    BY <1>1, <1>3
  <2> QED
    BY <1>1, <2>1, <2>2 DEF Onward
<1>6. ~(Depth' > Depth)
  BY <1>1, <1>3
<1> QED
  BY <1>2, <1>4, <1>5, <1>6, ReachOn

LEMMA ReturningReached ==
  ASSUME Shape, Returning, NewShape, Size' > Size, code'[Size'].op = "return",
         \A k \in Size + 1 .. Size' : k < Size' => code'[k].op \in {"take", "release"}, NEW R, Reached(R)
  PROVE  \E Q : Reached(Q)'
<1>1. Depth' = Depth /\ suites'[Depth].prior = suites[Depth].prior /\ suites'[Depth].kind = suites[Depth].kind
  BY DEF Returning
<1>2. Size \in Nat /\ Size' \in Nat /\ Depth \in Nat
  BY ShapeStep
<1>3. ChainKept
  BY <1>1, SameChain
<1>4. Onward
  <2>1. \A k \in Size + 1 .. Size' : k < Size' \/ k = Size'
    BY <1>2
  <2> QED
    BY <2>1 DEF Onward
<1>5. ~(Depth' > Depth)
  BY <1>1, <1>2
<1> QED
  BY <1>3, <1>4, <1>5, ReachOn

\* The releases of all locals, from q on.
LEMMA LivePlain ==
  ASSUME Shape, suites # << >>, NEW q \in Nat, Emits(q, 0)
  PROVE  \A k \in q + 1 .. q + Len(locals) : code'[k].op = "release"
<1>1. PICK m : m = 0
  OBVIOUS
<1>2. m \in Nat /\ m <= Len(locals) /\ Emits(q, m) /\ Len(locals) - m = Len(locals) /\ Len(locals) \in Nat
  BY <1>1, Inside
<1>3. \A k \in q + 1 .. q + (Len(locals) - m) : code'[k].op = "release"
  BY <1>2, EmitsPlain
<1> QED
  BY <1>2, <1>3

LEMMA ReturnsReached ==
  ASSUME Shape, ReturnNone \/ ReturnValue \/ \E n \in Name : ReturnLocal(n), NEW R, Reached(R)
  PROVE  \E Q : Reached(Q)'
<1>1. NewShape
  BY ReturnsShape
<1>2. Size \in Nat /\ Size' \in Nat /\ suites # << >> /\ Len(locals) \in Nat
  BY <1>1, ShapeStep, Inside
<1>3. CASE ReturnNone
  <2>1. Returning /\ Size' = Size + Len(locals) + 1 /\ Emits(Size, 0) /\ code'[Size + Len(locals) + 1].op = "return"
    BY <1>3, ReturnNoneStep DEF IsReturn
  <2>2. \A k \in Size + 1 .. Size + Len(locals) : code'[k].op = "release"
    BY <1>2, <2>1, LivePlain
  <2>3. \A k \in Size + 1 .. Size' : k < Size' => k \in Size + 1 .. Size + Len(locals)
    BY <1>2, <2>1
  <2>4. Size' > Size /\ code'[Size'].op = "return"
    BY <1>2, <2>1
  <2> QED
    BY <1>1, <2>1, <2>2, <2>3, <2>4, ReturningReached
<1>4. CASE ReturnValue
  <2>1. Returning /\ Size' = Size + 1 /\ code'[Size + 1].op = "return"
    BY <1>4, ReturnValueStep DEF IsReturn
  <2>2. \A k \in Size + 1 .. Size' : ~(k < Size')
    BY <1>2, <2>1
  <2>3. Size' > Size /\ code'[Size'].op = "return"
    BY <1>2, <2>1
  <2> QED
    BY <1>1, <2>1, <2>2, <2>3, ReturningReached
<1>5. ASSUME NEW n \in Name, ReturnLocal(n)
      PROVE  \E Q : Reached(Q)'
  <2>1. Returning /\ Size' = Size + Len(locals) + 2 /\ Emits(Size + 1, 0) /\ code'[Size + Len(locals) + 2].op = "return"
        /\ code'[Size + 1].op = "take"
    <3>1. /\ Returning /\ Size' = Size + Len(locals) + 2 /\ Emits(Size + 1, 0)
          /\ code'[Size + 1] = Instr("take", Visible(n)) /\ IsReturn(code'[Size + Len(locals) + 2], Iterables)
      BY <1>5, ReturnLocalStep
    <3>2. code'[Size + Len(locals) + 2].op = "return"
      BY <3>1 DEF IsReturn
    <3>3. code'[Size + 1].op = "take"
      BY <3>1 DEF Instr
    <3> QED
      BY <3>1, <3>2, <3>3
  <2>2. PICK q : q = Size + 1
    OBVIOUS
  <2>3. \A k \in q + 1 .. q + Len(locals) : code'[k].op = "release"
    BY <1>2, <2>1, <2>2, LivePlain
  <2>4. \A k \in Size + 1 .. Size' : k < Size' => k = q \/ k \in q + 1 .. q + Len(locals)
    BY <1>2, <2>1, <2>2
  <2>5. Size' > Size /\ code'[Size'].op = "return"
    BY <1>2, <2>1
  <2>6. \A k \in Size + 1 .. Size' : k < Size' => code'[k].op \in {"take", "release"}
    BY <2>1, <2>2, <2>3, <2>4
  <2> QED
    BY <1>1, <2>1, <2>5, <2>6, ReturningReached
<1> QED
  BY <1>3, <1>4, <1>5

\* The new instructions up to f follow each other.
LEMMA SplitFollows ==
  ASSUME Shape, suites # << >>, Size \in Nat, Size' \in Nat, NEW R, NEW Q, Reached(R), NEW f, Splits(R, Q, f),
         f > Size \/ (~Dead(Depth) => ~Dead(Depth)')
  PROVE  Follows(R, Q) /\ (Size' + 1 \in Q <=> ~Dead(Depth)')
<1>1. /\ f \in Size .. Size'
      /\ \A k \in 1 .. Size : k \in Q <=> k \in R
      /\ \A k \in Size + 1 .. f : k \in Q <=> ~Dead(Depth)
      /\ \A k \in f + 1 .. Size' + 1 : k \in Q <=> ~Dead(Depth)'
  BY DEF Splits
<1>2. Size + 1 \in R => ~Dead(Depth)
  BY DEF Reached, ReachedInside
<1>3. /\ f > Size => Size + 1 \in Size + 1 .. f
      /\ f = Size => Size + 1 \in f + 1 .. Size' + 1
      /\ Size' + 1 \in f + 1 .. Size' + 1
      /\ f > Size \/ f = Size
  <2> DEFINE old == Size
             new == Size'
  <2>1. old \in Nat /\ new \in Nat /\ f \in old .. new
    BY <1>1
  <2> HIDE DEF old, new
  <2>2. /\ f > old => old + 1 \in old + 1 .. f
        /\ f = old => old + 1 \in f + 1 .. new + 1
        /\ new + 1 \in f + 1 .. new + 1
        /\ f > old \/ f = old
    BY <2>1
  <2> QED
    BY <2>2 DEF old, new
<1>4. Size' + 1 \in Q <=> ~Dead(Depth)'
  BY <1>1, <1>3
<1>5. Size + 1 \in R => Size + 1 \in Q
  <2>1. CASE f > Size
    <3>1. Size + 1 \in Q <=> ~Dead(Depth)
      BY <1>1, <1>3, <2>1
    <3> QED
      BY <1>2, <3>1
  <2>2. CASE f = Size
    <3>1. Size + 1 \in Q <=> ~Dead(Depth)'
      BY <1>1, <1>3, <2>2
    <3>2. ~(f > Size)
      BY <2>2
    <3>3. ~Dead(Depth) => ~Dead(Depth)'
      BY <3>2
    <3> QED
      BY <1>2, <3>1, <3>3
  <2> QED
    BY <1>3, <2>1, <2>2
<1> QED
  BY <1>1, <1>4, <1>5 DEF Follows

\* The suite of a chain or loop is the only one with its instruction.
LEMMA OnlySuite ==
  ASSUME Shape, NewShape, NEW i \in 1 .. Depth', i <= Depth, suites'[i].id = suites[Depth].id
  PROVE  i = Depth
<1>1. Frame /\ Depth \in Nat /\ Depth' \in Nat /\ suites # << >>
  BY ShapeStep DEF NewShape
<1>2. i \in 1 .. Depth /\ Depth \in 1 .. Depth
  BY <1>1, Inside
<1>3. suites'[i].id = suites[i].id
  BY <1>1, <1>2, FrameSuite DEF SameBlock
<1>4. i < Depth => suites[i].id < suites[Depth].id
  BY <1>2 DEF Shape, Suites
<1>5. suites[i].id \in Nat
  BY <1>2, Types DEF Shape, SuiteType
<1> QED
  BY <1>1, <1>2, <1>3, <1>4, <1>5

LEMMA BranchReached ==
  ASSUME Shape, NEW c \in {"else", "last"}, Branch(c), NEW R, Reached(R)
  PROVE  \E Q : Reached(Q)'
<1>1. NewShape
  BY BranchShape
<1> DEFINE s == suites[Depth]
<1>2. /\ Scope \in Nat /\ Size' = Size + Scope + 1 /\ Emits(Size, starts[Depth])
      /\ code'[Size + Scope + 1] = Instr(c, s.id)
      /\ suites # << >> /\ s.kind = "if" /\ Depth' = Depth
      /\ suites'[Depth] = Suite(IF c = "last" THEN "last" ELSE "if", s.id, s.prior /\ s.returns)
  BY BranchStep
<1>3. Frame /\ Size \in Nat /\ Size' \in Nat /\ Depth \in Nat /\ Depth \in 1 .. Depth
  BY <1>1, <1>2, ShapeStep, Inside DEF NewShape
<1>4. \A k \in Size + 1 .. Size + Scope : code'[k].op = "release"
  BY <1>2, ScopePlain
<1>5. /\ Dead(Depth)' <=> Dead(Depth - 1)
      /\ Dead(Depth) <=> Dead(Depth - 1) \/ s.returns
  <2>1. suites'[Depth].returns = FALSE
    BY <1>2 DEF Suite
  <2> QED
    BY <1>2, <1>3, <2>1, DeadStay
<1>6. s.id \in 1 .. Size /\ IsChain(s) /\ (s.id \in R <=> ~Dead(Depth - 1))
  <2>1. IsChain(s)
    BY <1>2 DEF IsChain
  <2> QED
    BY <1>2, <1>3, <2>1, InnerBlock DEF Reached, ReachedInside
<1> HIDE DEF s
<1>7. PICK e : e = Size'
  OBVIOUS
<1>8. e = Size + Scope + 1 /\ e \in Size .. Size' /\ e > Size /\ e \in Size + 1 .. Size' /\ e + 1 = Size' + 1
      /\ \A k \in Size + 1 .. Size' : k \in Size + 1 .. Size + Scope \/ k = e
  BY <1>2, <1>3, <1>7
<1>9. code'[e].op = c /\ code'[e].id = s.id /\ code'[e] = Instr(c, s.id)
  BY <1>2, <1>8 DEF Instr
<1>10. PICK Q : Splits(R, Q, e)
  BY <1>3, <1>8, SplitExists
<1>11. Follows(R, Q) /\ (Size' + 1 \in Q <=> ~Dead(Depth)')
  BY <1>2, <1>3, <1>8, <1>10, SplitFollows
<1>12. \A k \in Size + 1 .. Size' : k \in Q <=> ~Dead(Depth)
  BY <1>7, <1>10 DEF Splits
<1>13. NewArrives(Q)
  <2>1. ASSUME NEW k \in Size + 1 .. Size + Scope
        PROVE  Arrives(Q, k)'
    <3>1. k \in Size + 1 .. Size' /\ k + 1 \in Size + 1 .. Size'
      BY <1>2, <1>3
    <3> QED
      BY <1>4, <1>12, <3>1 DEF Arrives, ArrivesNext, ArrivesEnd, ArrivesLabel
  <2>2. Arrives(Q, e)'
    <3>1. s.id \in Q => Size' + 1 \in Q
      BY <1>5, <1>6, <1>10, <1>11 DEF Splits
    <3> QED
      BY <1>8, <1>9, <3>1 DEF Arrives, ArrivesNext, ArrivesEnd, ArrivesLabel
  <2> QED
    BY <1>8, <2>1, <2>2 DEF NewArrives
<1>14. NewEntered(Q)
  BY <1>2, <1>3 DEF NewEntered
<1>15. NewElse(Q)
  <2> SUFFICES ASSUME NEW j \in Size + 1 .. Size', code'[j].op \in {"else", "last"}, NEW i \in 1 .. Depth',
                      suites'[i].id = code'[j].id, j \in Q
               PROVE  ~suites'[i].prior /\ ~Dead(i - 1)'
    BY DEF NewElse
  <2>1. j = e
    BY <1>4, <1>8
  <2>2. i <= Depth
    BY <1>2, <1>3
  <2>3. i = Depth
    BY <1>1, <1>9, <2>1, <2>2, OnlySuite DEF s
  <2>4. ~Dead(Depth)
    BY <1>12
  <2>5. ~suites'[i].prior
    <3>1. suites'[Depth].prior = (s.prior /\ s.returns)
      BY <1>2 DEF Suite
    <3>2. ~s.returns
      BY <1>5, <2>4
    <3> QED
      BY <2>3, <3>1, <3>2
  <2>6. ~Dead(i - 1)'
    BY <1>1, <2>2, <2>4, DeadAround
  <2> QED
    BY <2>5, <2>6
<1>16. NewJump(Q)
  BY <1>4, <1>8, <1>9 DEF NewJump
<1>17. ChainKept
  <2>1. suites'[Depth].prior => suites[Depth].prior
    <3>1. suites'[Depth].prior = (s.prior /\ s.returns)
      BY <1>2 DEF Suite
    <3> QED
      BY <3>1 DEF s
  <2>2. suites'[Depth].kind = "last" => \E j \in Size + 1 .. Size' : code'[j] = Instr("last", suites'[Depth].id)
    BY <1>2, <1>8, <1>9 DEF Suite
  <2> QED
    BY <1>2, <2>1, <2>2 DEF ChainKept
<1> QED
  BY <1>1, <1>11, <1>13, <1>14, <1>15, <1>16, <1>17, ReachStep

LEMMA EndIfReached ==
  ASSUME Shape, EndIf, NEW R, Reached(R)
  PROVE  \E Q : Reached(Q)'
<1>1. NewShape
  BY EndIfShape
<1> DEFINE s == suites[Depth]
           x == s.kind = "last" /\ s.prior /\ s.returns
<1>2. /\ Scope \in Nat /\ Size' = Size + Scope + 1 /\ Emits(Size, starts[Depth])
      /\ code'[Size + Scope + 1] = Instr("end", s.id)
      /\ suites # << >> /\ IsChain(s) /\ Depth' = Depth - 1 /\ Depth > 1
      /\ suites'[Depth - 1].returns = (suites[Depth - 1].returns \/ x)
      /\ suites'[Depth - 1].kind = suites[Depth - 1].kind
      /\ suites'[Depth - 1].prior = suites[Depth - 1].prior
  BY EndIfStep
<1>3. Frame /\ Grown /\ Size \in Nat /\ Size' \in Nat /\ Depth \in Nat /\ Depth \in 1 .. Depth
  BY <1>1, <1>2, ShapeStep, Inside DEF NewShape
<1>4. \A k \in Size + 1 .. Size + Scope : code'[k].op = "release"
  <2>1. starts[Depth] \in 0 .. Len(locals) /\ Len(locals) \in Nat
    BY <1>2, Inside
  <2>2. Emits(Size, starts[Depth]) /\ Scope = Len(locals) - starts[Depth]
    BY <1>2 DEF Scope
  <2> QED
    BY <1>3, <2>1, <2>2, EmitsPlain
<1>5. /\ Dead(Depth)' <=> Dead(Depth - 1) \/ x
      /\ Dead(Depth) <=> Dead(Depth - 1) \/ s.returns
  <2>1. suites[Depth - 1].returns \in BOOLEAN /\ s.returns \in BOOLEAN /\ s.prior \in BOOLEAN
    <3>1. Depth - 1 \in 1 .. Depth
      BY <1>2, <1>3
    <3> QED
      BY <1>3, <3>1, Types DEF Shape, SuiteType
  <2>2. x \in BOOLEAN
    OBVIOUS
  <2> HIDE DEF x
  <2> QED
    BY <1>2, <1>3, <2>1, <2>2, DeadLeave DEF s
<1>6. s.id \in 1 .. Size /\ (s.id \in R <=> ~Dead(Depth - 1)) /\ ReachedChain(R, Depth)
  BY <1>2, <1>3, InnerBlock DEF Reached, ReachedInside
<1>7. /\ s.kind = "last" => \E j \in 1 .. Size : code[j] = Instr("last", s.id)
      /\ \A j \in 1 .. Size : code[j].op \in {"else", "last"} /\ code[j].id = s.id /\ j \in R =>
           ~s.prior /\ ~Dead(Depth - 1)
  BY <1>6 DEF ReachedChain
<1>8. ~Dead(Depth) => ~Dead(Depth)'
  BY <1>5
<1>9. s.kind # "last" \/ ~s.prior => (Dead(Depth)' <=> Dead(Depth - 1))
  BY <1>5
<1> HIDE DEF s, x
<1>10. PICK f : f = Size + Scope
  OBVIOUS
<1>11. PICK e : e = Size'
  OBVIOUS
<1>12. /\ f \in Size .. Size' /\ e = f + 1 /\ e \in f + 1 .. Size' + 1 /\ e + 1 \in f + 1 .. Size' + 1 /\ e = Size + Scope + 1
       /\ \A k \in Size + 1 .. Size' : k \in Size + 1 .. f \/ k = e
       /\ \A k \in Size + 1 .. f : k + 1 \in Size + 1 .. f \/ k + 1 = e
       /\ \A k \in 1 .. e - 1 : k \in 1 .. Size \/ k \in Size + 1 .. f
       /\ \A k \in 1 .. Size : k \in 1 .. e - 1
  BY <1>2, <1>3, <1>10, <1>11
<1>13. code'[e].op = "end" /\ code'[e].id = s.id
  BY <1>2, <1>12 DEF Instr
<1>14. PICK Q : Splits(R, Q, f)
  BY <1>3, <1>12, SplitExists
<1>15. Follows(R, Q) /\ (Size' + 1 \in Q <=> ~Dead(Depth)')
  BY <1>2, <1>3, <1>8, <1>14, SplitFollows
<1>16. /\ \A k \in 1 .. Size : k \in Q <=> k \in R
       /\ \A k \in Size + 1 .. f : k \in Q <=> ~Dead(Depth)
       /\ \A k \in f + 1 .. Size' + 1 : k \in Q <=> ~Dead(Depth)'
  BY <1>14 DEF Splits
<1>17. (e \in Q <=> ~Dead(Depth)') /\ (e + 1 \in Q <=> ~Dead(Depth)')
  BY <1>12, <1>16
<1>18. NewArrives(Q)
  <2>1. ASSUME NEW k \in Size + 1 .. f
        PROVE  Arrives(Q, k)'
    <3>1. k \in Q => k + 1 \in Q
      BY <1>8, <1>12, <1>16, <1>17, <2>1
    <3>2. code'[k].op = "release"
      BY <1>4, <1>10, <2>1
    <3> QED
      BY <3>1, <3>2 DEF Arrives, ArrivesNext, ArrivesEnd, ArrivesLabel
  <2>2. Arrives(Q, e)'
    <3>1. ASSUME NEW j \in 1 .. e - 1, code'[j].op \in {"else", "last"}, code'[j].id = s.id, j \in Q
          PROVE  e \in Q
      <4>1. j \in 1 .. Size
        BY <1>4, <1>10, <1>12, <3>1
      <4>2. code[j] = code'[j] /\ j \in R
        BY <1>3, <1>16, <3>1, <4>1 DEF Grown
      <4>3. ~s.prior /\ ~Dead(Depth - 1)
        BY <1>7, <3>1, <4>1, <4>2
      <4> QED
        BY <1>9, <1>17, <4>3
    <3>2. ASSUME s.id \in Q, \A j \in 1 .. e - 1 : code'[j] # Instr("last", s.id)
          PROVE  e \in Q
      <4>1. ~Dead(Depth - 1)
        BY <1>6, <1>16, <3>2
      <4>2. s.kind # "last"
        <5>1. \A j \in 1 .. Size : code'[j] = code[j]
          BY <1>3 DEF Grown
        <5> QED
          BY <1>7, <1>12, <3>2, <5>1
      <4> QED
        BY <1>9, <1>17, <4>1, <4>2
    <3>3. ArrivesEnd(Q, e)'
      BY <1>13, <3>1, <3>2 DEF ArrivesEnd
    <3> QED
      BY <1>13, <1>17, <3>3 DEF Arrives, ArrivesNext, ArrivesLabel
  <2> QED
    BY <1>12, <2>1, <2>2 DEF NewArrives
<1>19. NewEntered(Q)
  BY <1>2, <1>3 DEF NewEntered
<1>20. \A k \in Size + 1 .. Size' : code'[k].op \in {"release", "end"}
  BY <1>4, <1>10, <1>12, <1>13
<1>21. NewElse(Q) /\ NewJump(Q)
  BY <1>20 DEF NewElse, NewJump
<1>22. ChainKept
  BY <1>2 DEF ChainKept
<1> QED
  BY <1>1, <1>15, <1>18, <1>19, <1>21, <1>22, ReachStep

LEMMA EndLoopReached ==
  ASSUME Shape, EndLoop, NEW R, Reached(R)
  PROVE  \E Q : Reached(Q)'
<1>1. NewShape
  BY EndLoopShape
<1> DEFINE s == suites[Depth]
           extra == IF s.kind = "for" THEN 1 ELSE 0
<1>2. /\ Scope \in Nat /\ Size' = Size + Scope + 2 + extra
      /\ code'[Size + 1] = Instr("label", s.id) /\ Emits(Size + 1, starts[Depth])
      /\ code'[Size + Scope + 2] = Instr("next", s.id)
      /\ s.kind = "for" => code'[Size + Scope + 3] = Instr("release", s.id - 1)
      /\ suites # << >> /\ IsLoop(s) /\ Depth' = Depth - 1 /\ Depth > 1
      /\ suites'[Depth - 1].returns = suites[Depth - 1].returns
      /\ suites'[Depth - 1].kind = suites[Depth - 1].kind
      /\ suites'[Depth - 1].prior = suites[Depth - 1].prior
  BY EndLoopStep
<1>3. Frame /\ Grown /\ Size \in Nat /\ Size' \in Nat /\ Depth \in Nat /\ Depth \in 1 .. Depth
  BY <1>1, <1>2, ShapeStep, Inside DEF NewShape
<1>4. s.id \in 1 .. Size /\ (s.id \in R <=> ~Dead(Depth - 1)) /\ ReachedLoop(R, Depth)
  BY <1>2, <1>3, InnerBlock DEF Reached, ReachedInside
<1>5. /\ Dead(Depth)' <=> Dead(Depth - 1)
      /\ Dead(Depth - 1) => Dead(Depth)
  <2>1. suites[Depth - 1].returns \in BOOLEAN
    <3>1. Depth - 1 \in 1 .. Depth
      BY <1>2, <1>3
    <3> QED
      BY <1>3, <3>1, Types DEF Shape, SuiteType
  <2>2. suites'[Depth - 1].returns = (suites[Depth - 1].returns \/ FALSE)
    BY <1>2, <2>1
  <2>3. (Dead(Depth)' <=> Dead(Depth - 1) \/ FALSE) /\ (Dead(Depth) <=> Dead(Depth - 1) \/ suites[Depth].returns)
    BY <1>2, <1>3, <2>1, <2>2, DeadLeave
  <2> QED
    BY <2>3
<1>6. /\ Scope \in Nat /\ code'[Size + 1].op = "label" /\ code'[Size + 1].id = s.id
      /\ code'[Size + Scope + 2].op = "next" /\ code'[Size + Scope + 2].id = s.id
  BY <1>2 DEF Instr
<1>7. \A k \in Size + 2 .. Size + Scope + 1 : code'[k].op = "release"
  <2>1. starts[Depth] \in 0 .. Len(locals) /\ Len(locals) \in Nat
    BY <1>2, Inside
  <2>2. PICK q : q = Size + 1
    OBVIOUS
  <2>3. q \in Nat /\ Emits(q, starts[Depth]) /\ q + 1 = Size + 2 /\ q + Scope = Size + Scope + 1
    BY <1>2, <1>3, <2>2
  <2>4. \A k \in q + 1 .. q + Scope : code'[k].op = "release"
    BY <2>1, <2>3, EmitsPlain DEF Scope
  <2> QED
    BY <2>3, <2>4
<1>8. \A k \in Size + 1 .. Size' :
        \/ k = Size + 1 \/ k = Size + Scope + 2
        \/ code'[k].op = "release"
  <2>1. CASE s.kind = "for"
    <3>1. Size' = Size + Scope + 3 /\ code'[Size + Scope + 3].op = "release"
      BY <1>2, <1>3, <2>1 DEF Instr
    <3>2. \A k \in Size + 1 .. Size' : k = Size + 1 \/ k \in Size + 2 .. Size + Scope + 1 \/ k = Size + Scope + 2 \/ k = Size + Scope + 3
      BY <1>3, <1>6, <3>1
    <3> QED
      BY <1>7, <3>1, <3>2
  <2>2. CASE s.kind # "for"
    <3>1. Size' = Size + Scope + 2
      BY <1>2, <1>3, <2>2
    <3>2. \A k \in Size + 1 .. Size' : k = Size + 1 \/ k \in Size + 2 .. Size + Scope + 1 \/ k = Size + Scope + 2
      BY <1>3, <1>6, <3>1
    <3> QED
      BY <1>7, <3>2
  <2> QED
    BY <2>1, <2>2
<1> HIDE DEF s, extra
<1>9. PICK f : f = Size
  OBVIOUS
<1>10. f \in Size .. Size'
  BY <1>1, <1>3, <1>9 DEF Grown
<1>11. PICK Q : Splits(R, Q, f)
  BY <1>3, <1>10, SplitExists
<1>12. Follows(R, Q) /\ (Size' + 1 \in Q <=> ~Dead(Depth)')
  <2>1. ~Dead(Depth) => ~Dead(Depth)'
    BY <1>5
  <2> QED
    BY <1>2, <1>3, <1>11, <2>1, SplitFollows
<1>13. /\ \A k \in 1 .. Size : k \in Q <=> k \in R
       /\ \A k \in Size + 1 .. Size' + 1 : k \in Q <=> ~Dead(Depth - 1)
  BY <1>5, <1>9, <1>11 DEF Splits
<1>14. NewArrives(Q)
  <2> SUFFICES ASSUME NEW k \in Size + 1 .. Size'
               PROVE  Arrives(Q, k)'
    BY DEF NewArrives
  <2>1. (k \in Q <=> ~Dead(Depth - 1)) /\ (k + 1 \in Q <=> ~Dead(Depth - 1)) /\ (s.id \in Q <=> ~Dead(Depth - 1))
    <3>1. k \in Size + 1 .. Size' + 1 /\ k + 1 \in Size + 1 .. Size' + 1
      <4> DEFINE new == Size'
      <4>1. new \in Nat /\ k \in Size + 1 .. new /\ Size \in Nat
        BY <1>3
      <4> HIDE DEF new
      <4>2. k \in Size + 1 .. new + 1 /\ k + 1 \in Size + 1 .. new + 1
        BY <4>1
      <4> QED
        BY <4>2 DEF new
    <3> QED
      BY <1>4, <1>13, <3>1
  <2>2. code'[k].op \in {"label", "next", "release"} /\ (code'[k].op \in {"label", "next"} => code'[k].id = s.id)
    BY <1>6, <1>8
  <2>3. ArrivesNext(Q, k)'
    BY <2>1, <2>2 DEF ArrivesNext
  <2>4. ArrivesEnd(Q, k)'
    BY <2>2 DEF ArrivesEnd
  <2>5. ASSUME code'[k].op = "label", NEW g \in 1 .. k - 1, code'[g].op = "goto", code'[g].id = s.id, g \in Q
        PROVE  k \in Q
    <3>1. g \in 1 .. Size \/ g \in Size + 1 .. Size'
      BY <1>3
    <3>2. g \in 1 .. Size
      BY <1>6, <1>8, <2>5, <3>1
    <3>3. Has(g, "goto", suites[Depth].id) /\ g \in R
      BY <1>3, <1>13, <2>5, <3>2 DEF Grown, Has, s
    <3> QED
      BY <1>4, <2>1, <3>2, <3>3 DEF ReachedLoop
  <2>6. ArrivesLabel(Q, k)'
    BY <2>2, <2>5 DEF ArrivesLabel, Has
  <2> QED
    BY <2>3, <2>4, <2>6 DEF Arrives
<1>15. NewEntered(Q)
  BY <1>2, <1>3 DEF NewEntered
<1>16. NewElse(Q) /\ NewJump(Q)
  <2>1. \A k \in Size + 1 .. Size' : code'[k].op \in {"label", "next", "release"}
    BY <1>6, <1>8
  <2> QED
    BY <2>1 DEF NewElse, NewJump
<1>17. ChainKept
  BY <1>2 DEF ChainKept
<1> QED
  BY <1>1, <1>12, <1>14, <1>15, <1>16, <1>17, ReachStep

\* The code is complete: its last instruction is reached only if the
\* function has no value to return.
LEMMA EndFunctionReached ==
  ASSUME Shape, EndFunction, NEW R, Reached(R)
  PROVE  \E Q : Reached(Q)' /\ 1 \in Q
<1>1. /\ suites # << >> /\ Depth = 1 /\ Grown /\ Size' = Size + Len(locals) + 1
      /\ Size \in Nat /\ Size' \in Nat /\ Len(locals) \in Nat
      /\ code'[Size'].op = "return"
      /\ \A k \in Size + 1 .. Size' - 1 : code'[k].op = "release"
      /\ suites' = << >> /\ Depth' = 0 /\ kind' = kind
  BY EndFunctionFacts
<1>2. kind # "none" => Dead(Depth)
  <2>1. kind # "none" => suites[1].returns
    BY EndFunctionStep
  <2> QED
    BY <1>1, <2>1 DEF Dead
<1>3. ~Dead(Depth)'
  BY <1>1 DEF Dead
<1>4. PICK e : e = Size'
  OBVIOUS
<1>5. /\ e \in Size .. Size' /\ e > Size /\ e \in Size + 1 .. e /\ e \in Nat
      /\ \A k \in Size + 1 .. Size' : k \in Size + 1 .. Size' - 1 \/ k = e
      /\ \A k \in Size + 1 .. Size' - 1 : k + 1 \in Size + 1 .. e /\ k \in Size + 1 .. e
  BY <1>1, <1>4
<1>6. PICK Q : Splits(R, Q, e)
  BY <1>1, <1>5, SplitExists
<1>7. Follows(R, Q)
  BY <1>1, <1>5, <1>6, SplitFollows
<1>8. \A k \in Size + 1 .. e : k \in Q <=> ~Dead(Depth)
  BY <1>6 DEF Splits
<1>9. 1 \in Q
  <2>1. 1 \in 1 .. Size \/ 1 = Size + 1
    BY <1>1
  <2> QED
    BY <1>7, <2>1 DEF Reached, Follows
<1>10. \A k \in 1 .. Size' : Arrives(Q, k)'
  <2> TAKE k \in 1 .. Size'
  <2>1. CASE k \in 1 .. Size
    <3>1. Arrives(R, k)
      BY <2>1 DEF Reached
    <3> QED
      BY <1>1, <1>7, <2>1, <3>1, ArrivesKept
  <2>2. CASE k \in Size + 1 .. Size' - 1
    <3>1. k \in Q => k + 1 \in Q
      BY <1>5, <1>8, <2>2
    <3> QED
      BY <1>1, <2>2, <3>1 DEF Arrives, ArrivesNext, ArrivesEnd, ArrivesLabel
  <2>3. CASE k = e
    BY <1>1, <1>4, <2>3 DEF Arrives, ArrivesNext, ArrivesEnd, ArrivesLabel
  <2>4. k \in 1 .. Size \/ k \in Size + 1 .. Size'
    BY <1>1
  <2> QED
    BY <1>5, <2>1, <2>2, <2>3, <2>4
<1>11. ReachedInside(Q)'
  <2>1. e \in Q => kind = "none"
    BY <1>2, <1>5, <1>8
  <2> QED
    BY <1>1, <1>4, <2>1 DEF ReachedInside
<1> QED
  BY <1>9, <1>10, <1>11 DEF Reached

-----------------------------------------------------------------------------
(***************************************************************************)
(* The function runs: the code does not change any more.                   *)
(***************************************************************************)
LEMMA Running ==
  ASSUME Shape, pc # 0
  PROVE  /\ suites = << >> /\ Depth = 0 /\ Size \in Nat /\ Size > 0 /\ pc \in 1 .. Size /\ pc \in Nat
         /\ \A k \in 1 .. Size : code[k].op # "return" => k + 1 \in 1 .. Size
         /\ \A k \in 1 .. Size : code[k] \in Instruction
         /\ DOMAIN code = 1 .. Size /\ DOMAIN refs = 1 .. Size /\ refs \in Seq(Nat) /\ Len(refs) = Size
         /\ \A d \in 1 .. Size : refs[d] \in Nat
         /\ result \in Nat /\ \A k : ~Open(k)
<1>1. suites = << >>
  BY DEF Shape, Halves
<1>2. Depth = 0 /\ Size \in Nat /\ DOMAIN code = 1 .. Size /\ \A k \in 1 .. Size : code[k] \in Instruction
  BY <1>1, Types DEF Shape
<1>3. Size > 0 /\ code[Size].op = "return" /\ pc \in 0 .. Size /\ Len(refs) = Size
  BY <1>1 DEF Shape, Halves
<1>4. refs \in Seq(Nat) /\ result \in Nat
  BY DEF Shape, TypeOK
<1>5. pc \in 1 .. Size /\ pc \in Nat /\ \A k \in 1 .. Size : code[k].op # "return" => k + 1 \in 1 .. Size
  <2>1. \A k \in 1 .. Size : k # Size => k + 1 \in 1 .. Size
    BY <1>2
  <2> QED
    BY <1>2, <1>3, <2>1
<1>6. DOMAIN refs = 1 .. Size /\ \A d \in 1 .. Size : refs[d] \in Nat
  BY <1>3, <1>4
<1>7. \A k : ~Open(k)
  BY <1>2 DEF Open
<1> QED
  BY <1>1, <1>2, <1>3, <1>4, <1>5, <1>6, <1>7

LEMMA StaticShape ==
  ASSUME Shape, UNCHANGED gen
  PROVE  /\ Size' = Size /\ Suites' /\ Locals' /\ Loops' /\ Targets'
         /\ kind' \in {"none", "value", "managed"} /\ code' \in Seq(Instruction)
         /\ locals' \in Seq(Nat) /\ starts' \in Seq(Nat) /\ loops' \in Seq(Nat) /\ suites' \in Seq(SuiteType)
<1>1. UNCHANGED <<kind, code, locals, starts, loops, suites, stmts>>
  BY DEF gen
<1>2. Size' = Size /\ Depth' = Depth
  BY <1>1 DEF Size, Depth
<1>3. /\ kind' \in {"none", "value", "managed"} /\ code' \in Seq(Instruction)
      /\ locals' \in Seq(Nat) /\ starts' \in Seq(Nat) /\ loops' \in Seq(Nat) /\ suites' \in Seq(SuiteType)
  BY <1>1 DEF Shape, TypeOK
<1>4. Suites'
  BY <1>1, <1>2 DEF Shape, Suites, IsChain, IsLoop, Has
<1>5. Locals'
  BY <1>1, <1>2 DEF Shape, Locals
<1>6. Loops'
  BY <1>1, <1>2 DEF Shape, Loops, IsLoop
<1>7. Targets'
  <2>1. \A k : Open(k)' <=> Open(k)
    BY <1>1, <1>2 DEF Open, IsChain, IsLoop
  <2>2. \A op, id : Marked(op, id)' <=> Marked(op, id)
    BY <1>1, <1>2 DEF Marked, Has
  <2> QED
    BY <1>1, <1>2, <2>1, <2>2 DEF Shape, Targets, Has
<1> QED
  BY <1>2, <1>3, <1>4, <1>5, <1>6, <1>7

LEMMA RunShape ==
  ASSUME Shape, pc # 0, UNCHANGED gen, pc' \in 0 .. Size, refs' \in Seq(Nat), Len(refs') = Size,
         action' \in 0 .. 2, result' \in Nat
  PROVE  Shape'
<1>1. UNCHANGED <<kind, code, locals, starts, loops, suites, stmts>> /\ Size' = Size
  BY StaticShape DEF gen
<1>2. TypeOK'
  BY <1>1, StaticShape, Running DEF TypeOK
<1>3. Halves'
  BY <1>1, Running DEF Shape, Halves
<1> QED
  BY <1>2, <1>3, StaticShape DEF Shape

\* What is said of the code alone stays true.
LEMMA Static ==
  ASSUME UNCHANGED gen
  PROVE  /\ Size' = Size /\ suites' = suites
         /\ \A d, k : Late(d, k) => Late(d, k)'
         /\ \A d : LateDeclared(d) => LateDeclared(d)'
         /\ \A d : Explained(d) => Explained(d)'
         /\ \A d : Hidden(d) => Hidden(d)'
         /\ \A k : Shadowed(k) => Shadowed(k)'
<1>1. code' = code /\ Size' = Size /\ suites' = suites
  BY DEF gen, Size
<1>2. \A op, id : Find(op, id)' = Find(op, id)
  BY <1>1 DEF Find
<1>3. \A d : LateDeclared(d) => LateDeclared(d)'
  BY <1>1, <1>2 DEF LateDeclared
<1>4. \A d, k : Late(d, k) => Late(d, k)'
  BY <1>1, <1>3 DEF Late, Has
<1>5. \A k : Shadowed(k) => Shadowed(k)'
  BY <1>1 DEF Shadowed
<1>6. \A d : (Explained(d) => Explained(d)') /\ (Hidden(d) => Hidden(d)')
  BY <1>1, <1>5 DEF Explained, Hidden
<1> QED
  BY <1>1, <1>3, <1>4, <1>5, <1>6

LEMMA StaticLeaves ==
  ASSUME UNCHANGED gen, NEW A, NEW k, NEW r \in 1 .. Size, NEW v, Leaves(k, r, v, A), pc' = k, result' = v
  PROVE  (\E s \in 1 .. Size : Leaves(pc, s, result, A))'
<1>1. code' = code /\ Size' = Size
  BY DEF gen, Size
<1>2. r \in (1 .. Size)' /\ Leaves(pc, r, result, A)'
  BY <1>1 DEF Leaves
<1> QED
  BY <1>2

LEMMA StaticHeld ==
  ASSUME UNCHANGED gen, NEW A, Held(A)
  PROVE  Held(A)'
<1>1. UNCHANGED <<kind, code, locals, starts, loops, suites, stmts>>
  BY DEF gen
<1>2. Size' = Size /\ Depth' = Depth
  BY <1>1 DEF Size, Depth
<1>3. \A k, r, v : Leaves(k, r, v, A)' <=> Leaves(k, r, v, A)
  BY <1>1, <1>2 DEF Leaves
<1>4. \A g, held : Brings(A, g, held)' <=> Brings(A, g, held)
  BY <1>1 DEF Brings
<1>5. \A k, head : Clears(A, k, head)' <=> Clears(A, k, head)
  BY <1>1 DEF Clears, Has
<1>6. \A k \in 1 .. Size : Edge(A, k)'
  <2> TAKE k \in 1 .. Size
  <2>1. Edge(A, k)
    BY DEF Held
  <2>2. EdgeDeclare(A, k)' /\ EdgeRelease(A, k)' /\ EdgePass(A, k)' /\ EdgeBack(A, k)' /\ EdgeReturn(A, k)'
    BY <1>1, <2>1 DEF Edge, EdgeDeclare, EdgeRelease, EdgePass, EdgeBack, EdgeReturn
  <2>3. EdgeTake(A, k)'
    BY <1>1, <1>2, <1>3, <2>1 DEF Edge, EdgeTake
  <2>4. EdgeLabel(A, k)' /\ EdgeNext(A, k)'
    BY <1>1, <1>4, <1>5, <2>1 DEF Edge, EdgeLabel, EdgeNext, Has
  <2> QED
    BY <2>2, <2>3, <2>4 DEF Edge
<1>7. \A i : Own(i)' = Own(i) /\ Base(i)' = Base(i)
  BY <1>1, <1>2 DEF Own, Base, First, Iter, Kept
<1>8. HeldInside(A)'
  <2>1. \A i \in 1 .. Depth, g \in 1 .. Size :
          IsLoop(suites[i]) /\ Has(g, "goto", suites[i].id) => Brings(A, g, Own(i))
    BY DEF Held, HeldInside
  <2>2. \A i \in 1 .. Depth, g \in 1 .. Size :
          (IsLoop(suites[i]) /\ Has(g, "goto", suites[i].id) => Brings(A, g, Own(i)))'
    BY <1>1, <1>7, <2>1 DEF IsLoop, Has, Brings
  <2>3. suites # << >> => A[Size + 1] = Own(Depth)
    BY DEF Held, HeldInside
  <2>4. (suites # << >> => A[Size + 1] = Own(Depth))'
    BY <1>1, <1>2, <2>3 DEF Own, Base, First, Iter, Kept
  <2>5. \A i \in 1 .. Depth : (IsChain(suites[i]) \/ IsLoop(suites[i]) => A[suites[i].id] = Base(i))'
    BY <1>1, <1>2, <1>7 DEF Held, HeldInside, IsChain, IsLoop
  <2> QED
    BY <1>2, <2>2, <2>4, <2>5 DEF HeldInside
<1> QED
  BY <1>2, <1>6, <1>8 DEF Held

LEMMA StaticReached ==
  ASSUME UNCHANGED gen, NEW R, Reached(R)
  PROVE  Reached(R)'
<1>1. UNCHANGED <<kind, code, locals, starts, loops, suites, stmts>>
  BY DEF gen
<1>2. Size' = Size /\ Depth' = Depth
  BY <1>1 DEF Size, Depth
<1>3. \A i : Dead(i)' <=> Dead(i)
  BY <1>1 DEF Dead
<1>4. \A k \in 1 .. Size : Arrives(R, k)'
  <2> TAKE k \in 1 .. Size
  <2>1. Arrives(R, k)
    BY DEF Reached
  <2> QED
    BY <1>1, <2>1 DEF Arrives, ArrivesNext, ArrivesEnd, ArrivesLabel, Has
<1>5. \A i : ReachedChain(R, i)' <=> ReachedChain(R, i)
  BY <1>1, <1>2, <1>3 DEF ReachedChain
<1>6. \A i : ReachedLoop(R, i)' <=> ReachedLoop(R, i)
  BY <1>1, <1>2, <1>3 DEF ReachedLoop, Has
<1>7. ReachedInside(R)'
  BY <1>1, <1>2, <1>3, <1>5, <1>6 DEF Reached, ReachedInside, IsChain, IsLoop
<1> QED
  BY <1>2, <1>4, <1>7 DEF Reached

\* In complete code a jump finds the one mark it goes to.
LEMMA FindMark ==
  ASSUME Shape, pc # 0, NEW op \in Marks, NEW id, Marked(op, id)
  PROVE  /\ Find(op, id) \in 1 .. Size /\ Has(Find(op, id), op, id)
         /\ \A k \in 1 .. Size : Has(k, op, id) => k = Find(op, id)
<1>1. DOMAIN code = 1 .. Size
  BY Running
<1>2. \E e \in DOMAIN code : code[e].op = op /\ code[e].id = id
  BY <1>1 DEF Marked, Has
<1> DEFINE e == CHOOSE k \in DOMAIN code : code[k].op = op /\ code[k].id = id
<1>3. e \in DOMAIN code /\ code[e].op = op /\ code[e].id = id
  BY <1>2
<1>4. Find(op, id) = e
  BY DEF Find
<1> HIDE DEF e
<1>5. \A k \in 1 .. Size : Has(k, op, id) => k = e
  BY <1>1, <1>3 DEF Shape, Targets, Has
<1> QED
  BY <1>1, <1>3, <1>4, <1>5 DEF Has

LEMMA FindEnd ==
  ASSUME Shape, pc # 0, NEW k \in 1 .. Size, code[k].op = "if"
  PROVE  Find("end", k) \in 1 .. Size /\ Has(Find("end", k), "end", k)
<1>1. Marked("end", k)
  BY Running DEF Shape, Targets
<1> QED
  BY <1>1, FindMark DEF Marks

LEMMA FindLoop ==
  ASSUME Shape, pc # 0, NEW k \in 1 .. Size, code[k].op = "loop"
  PROVE  /\ Find("label", k) \in 1 .. Size /\ Has(Find("label", k), "label", k)
         /\ Find("next", k) \in 1 .. Size /\ Has(Find("next", k), "next", k)
         /\ \A j \in 1 .. Size : Has(j, "label", k) => j = Find("label", k)
         /\ \A j \in 1 .. Size : Has(j, "next", k) => j = Find("next", k)
<1>1. Marked("label", k) /\ Marked("next", k)
  BY Running DEF Shape, Targets
<1> QED
  BY <1>1, FindMark DEF Marks

\* Only between a label and the test of its loop may a release be late.
LEMMA LateAt ==
  ASSUME Shape, pc # 0, NEW d, NEW k \in 1 .. Size, Late(d, k)
  PROVE  code[k].op \in {"label", "release"}
<1>1. PICK L \in 1 .. k, n \in k + 1 .. Size :
        code[L].op = "label" /\ \A j \in L + 1 .. n - 1 : code[j].op = "release"
  BY DEF Late
<1>2. k = L \/ k \in L + 1 .. n - 1
  BY <1>1, Running
<1> QED
  BY <1>1, <1>2

LEMMA LateMoves ==
  ASSUME Shape, pc # 0, NEW A, Held(A), NEW d, NEW k \in 1 .. Size, k + 1 \in 1 .. Size,
         Late(d, k), d \in A[k + 1]
  PROVE  Late(d, k + 1)
<1>1. PICK L \in 1 .. k, n \in k + 1 .. Size :
        /\ code[L].op = "label" /\ code[L].id < d /\ Has(n, "next", code[L].id)
        /\ \A j \in L + 1 .. n - 1 : code[j].op = "release"
  BY DEF Late
<1>2. code[L].id \in 1 .. L - 1
  <2>1. L \in 1 .. Size
    BY Running
  <2>2. \A j \in 1 .. Size : code[j].op \in {"goto", "label", "next"} => code[j].id \in 1 .. j - 1
    BY DEF Shape, Targets
  <2> QED
    BY <1>1, <2>1, <2>2
<1>3. n # k + 1
  <2> SUFFICES ASSUME n = k + 1
               PROVE  FALSE
    OBVIOUS
  <2>1. A[n] = A[code[L].id]
    <3>1. n \in 1 .. Size /\ code[n].op = "next" /\ code[n].id = code[L].id
      BY <1>1 DEF Has
    <3>2. EdgeBack(A, n)
      BY <3>1 DEF Held, Edge
    <3> QED
      BY <3>1, <3>2 DEF EdgeBack
  <2>2. code[L].id \in 1 .. Size + 1
    <3> PICK i : i = code[L].id
      OBVIOUS
    <3>1. i \in 1 .. L - 1 /\ L \in 1 .. k /\ k \in 1 .. Size /\ Size \in Nat
      BY <1>2, Running
    <3>2. i \in 1 .. Size + 1
      BY ONLY <3>1
    <3> QED
      BY <3>2
  <2>3. A[code[L].id] \subseteq 1 .. code[L].id - 1
    BY <2>2 DEF Held
  <2>4. d \in 1 .. code[L].id - 1
    BY <2>1, <2>3
  <2> QED
    BY <1>1, <1>2, <2>4
<1>4. L \in 1 .. k + 1 /\ n \in (k + 1) + 1 .. Size
  <2>1. Size \in Nat /\ k \in Nat /\ n \in Nat /\ n <= Size /\ n > k
    BY Running
  <2> QED
    BY <1>3, <2>1
<1> QED
  BY <1>1, <1>4 DEF Late

\* What every step of the function keeps.
Upholds(A, R) == Shape /\ Outcome /\ Counts(A) /\ (pc # 0 => pc \in R)

LEMMA SameOutcome ==
  ASSUME Outcome, UNCHANGED gen, bad' = bad, leaked' = leaked, pc' # 0
  PROVE  Outcome'
<1>1. code' = code
  BY DEF gen
<1>2. ReleasesSound'
  BY <1>1, Static DEF Outcome, ReleasesSound
<1>3. LeaksExplained'
  <2>1. \A k : Shadowed(k)' <=> Shadowed(k)
    BY <1>1 DEF Shadowed
  <2> QED
    BY <1>1, <2>1 DEF Outcome, LeaksExplained
<1>4. ResultOwned'
  BY DEF ResultOwned, Returned
<1> QED
  BY <1>2, <1>3, <1>4 DEF Outcome

\* While a return is under way, only releases are left before it.
LEMMA NoResult ==
  ASSUME Shape, pc # 0, NEW A, Counts(A), code[pc].op \notin {"release", "return"}
  PROVE  result = 0
<1> SUFFICES ASSUME result # 0
             PROVE  FALSE
  OBVIOUS
<1>1. PICK r \in 1 .. Size : Leaves(pc, r, result, A)
  BY DEF Counts, OneOver
<1>2. r = pc \/ pc \in pc .. r - 1
  BY <1>1, Running DEF Leaves
<1> QED
  BY <1>1, <1>2 DEF Leaves

\* A step to an instruction with the same locals held.
LEMMA Pass ==
  ASSUME Shape, Outcome, pc # 0, NEW A, Held(A), Counts(A), NEW R,
         UNCHANGED <<gen, refs, result, bad, leaked>>, action' \in 0 .. 2,
         code[pc].op \notin {"release", "label", "return"},
         pc' \in 1 .. Size, pc' \in R, A[pc'] = A[pc]
  PROVE  Upholds(A, R)'
<1>1. Shape'
  <2>1. pc' \in 0 .. Size
    OBVIOUS
  <2> QED
    BY <2>1, Running, RunShape
<1>2. pc' # 0
  OBVIOUS
<1>3. Outcome'
  BY <1>2, SameOutcome
<1>4. result = 0
  BY NoResult
<1>5. OneEach(A)'
  <2>1. \A d \in A[pc] : refs[d] > 0
    BY LateAt, Running DEF Counts, OneEach
  <2>2. \A d \in 1 .. Size : d # result => refs[d] <= 1 /\ (refs[d] > 0 /\ d \notin A[pc] => Explained(d))
    BY DEF Counts, OneEach
  <2> QED
    BY <2>1, <2>2, Static DEF OneEach
<1>6. OneOver(A)'
  BY <1>4 DEF OneOver
<1> QED
  BY <1>1, <1>2, <1>3, <1>5, <1>6 DEF Upholds, Counts

LEMMA DeclareRuns ==
  ASSUME Shape, Outcome, pc # 0, NEW A, Held(A), Counts(A), NEW R, Reached(R), pc \in R, DoDeclare
  PROVE  Upholds(A, R)'
<1>1. /\ code[pc].op = "declare" /\ refs' = [refs EXCEPT ![pc] = 1] /\ pc' = pc + 1
      /\ UNCHANGED <<gen, action, result, bad, leaked>>
  BY DEF DoDeclare, Does, Step
<1>2. /\ pc \in 1 .. Size /\ pc + 1 \in 1 .. Size /\ Size \in Nat /\ refs \in Seq(Nat) /\ Len(refs) = Size
      /\ \A d \in 1 .. Size : refs[d] \in Nat
  BY <1>1, Running
<1>3. /\ refs' \in Seq(Nat) /\ Len(refs') = Size /\ refs'[pc] = 1
      /\ \A d \in 1 .. Size : d # pc => refs'[d] = refs[d]
  BY <1>1, <1>2
<1>4. Shape'
  <2>1. action' \in 0 .. 2 /\ result' \in Nat /\ pc' \in 0 .. Size
    BY <1>1, <1>2 DEF Shape, TypeOK
  <2> QED
    BY <1>1, <1>3, <2>1, RunShape
<1>5. Outcome' /\ pc' # 0
  <2>1. pc' # 0
    BY <1>1, <1>2
  <2> QED
    BY <1>1, <2>1, SameOutcome
<1>6. A[pc + 1] = A[pc] \cup {pc} /\ A[pc] \subseteq 1 .. pc - 1
  <2>1. pc \in 1 .. Size + 1
    BY <1>2
  <2> QED
    BY <1>1, <1>2, <2>1 DEF Held, Edge, EdgeDeclare
<1>7. result = 0
  BY <1>1, NoResult
<1>8. OneEach(A)'
  <2>1. \A d \in A[pc + 1] : refs'[d] > 0
    <3> TAKE d \in A[pc + 1]
    <3>1. CASE d = pc
      BY <1>3, <3>1
    <3>2. CASE d # pc
      <4>1. d \in A[pc] /\ d \in 1 .. Size
        BY <1>2, <1>6, <3>2
      <4>2. ~Late(d, pc)
        BY <1>1, <1>2, LateAt
      <4> QED
        BY <1>3, <3>2, <4>1, <4>2 DEF Counts, OneEach
    <3> QED
      BY <3>1, <3>2
  <2>2. \A d \in 1 .. Size : d # result => refs'[d] <= 1 /\ (refs'[d] > 0 /\ d \notin A[pc + 1] => Explained(d))
    BY <1>3, <1>6 DEF Counts, OneEach
  <2> QED
    BY <1>1, <2>1, <2>2, Static DEF OneEach
<1>9. OneOver(A)'
  BY <1>1, <1>7 DEF OneOver
<1>10. pc + 1 \in R
  BY <1>1, <1>2 DEF Reached, Arrives, ArrivesNext
<1> QED
  BY <1>1, <1>4, <1>5, <1>8, <1>9, <1>10 DEF Upholds, Counts

LEMMA TakeRuns ==
  ASSUME Shape, Outcome, pc # 0, NEW A, Held(A), Counts(A), NEW R, Reached(R), pc \in R, DoTake
  PROVE  Upholds(A, R)'
<1> DEFINE y == code[pc].id
<1>1. /\ code[pc].op = "take" /\ refs' = [refs EXCEPT ![y] = refs[y] + 1] /\ pc' = pc + 1
      /\ bad' = (IF refs[y] > 0 THEN bad ELSE bad \cup {pc}) /\ result' = y
      /\ UNCHANGED <<gen, action, leaked>>
  BY DEF DoTake, Does, Step, Ins
<1>2. /\ pc \in 1 .. Size /\ pc + 1 \in 1 .. Size /\ Size \in Nat /\ refs \in Seq(Nat) /\ Len(refs) = Size
      /\ \A d \in 1 .. Size : refs[d] \in Nat
  BY <1>1, Running
<1>3. /\ y \in A[pc] /\ A[pc + 1] = A[pc] /\ A[pc] \subseteq 1 .. pc - 1
      /\ \E r \in 1 .. Size : Leaves(pc + 1, r, y, A)
  <2>1. pc \in 1 .. Size + 1
    BY <1>2
  <2> QED
    BY <1>1, <1>2, <2>1 DEF Held, Edge, EdgeTake
<1> HIDE DEF y
<1>4. y \in 1 .. Size /\ A[pc] \subseteq 1 .. Size
  BY <1>2, <1>3
<1>5. result = 0
  BY <1>1, NoResult
<1>6. \A d \in A[pc] : refs[d] > 0
  <2>1. \A d \in A[pc] : ~Late(d, pc)
    BY <1>1, <1>2, LateAt
  <2> QED
    BY <2>1 DEF Counts, OneEach
<1>7. \A d \in 1 .. Size : refs[d] <= 1 /\ (refs[d] > 0 /\ d \notin A[pc] => Explained(d))
  <2>1. \A d \in 1 .. Size : d # result
    BY <1>5
  <2> QED
    BY <2>1 DEF Counts, OneEach
<1>8. /\ refs' \in Seq(Nat) /\ Len(refs') = Size /\ refs'[y] = 2
      /\ \A d \in 1 .. Size : d # y => refs'[d] = refs[d]
  <2>1. refs[y] = 1
    BY <1>2, <1>3, <1>4, <1>6, <1>7
  <2> QED
    BY <1>1, <1>2, <1>4, <2>1
<1>9. Shape'
  <2>1. action' \in 0 .. 2 /\ result' \in Nat /\ pc' \in 0 .. Size
    BY <1>1, <1>2, <1>4 DEF Shape, TypeOK
  <2> QED
    BY <1>1, <1>8, <2>1, RunShape
<1>10. Outcome' /\ pc' # 0
  <2>1. pc' # 0 /\ bad' = bad
    BY <1>1, <1>2, <1>3, <1>6
  <2> QED
    BY <1>1, <2>1, SameOutcome
<1>11. OneEach(A)'
  <2>1. \A d \in A[pc + 1] : refs'[d] > 0
    BY <1>3, <1>4, <1>6, <1>8
  <2>2. \A d \in 1 .. Size : d # y => refs'[d] <= 1 /\ (refs'[d] > 0 /\ d \notin A[pc + 1] => Explained(d))
    BY <1>3, <1>7, <1>8
  <2> QED
    BY <1>1, <2>1, <2>2, Static DEF OneEach
<1>12. OneOver(A)'
  <2>1. (\E s \in 1 .. Size : Leaves(pc, s, result, A))'
    BY <1>1, <1>3, StaticLeaves
  <2>2. (result \in 1 .. Size)' /\ (refs[result] = 2)' /\ (result \in A[pc])'
    BY <1>1, <1>3, <1>4, <1>8, Static
  <2> QED
    BY <2>1, <2>2 DEF OneOver
<1>13. pc + 1 \in R
  BY <1>1, <1>2 DEF Reached, Arrives, ArrivesNext
<1> QED
  BY <1>1, <1>9, <1>10, <1>11, <1>12, <1>13 DEF Upholds, Counts

\* A release gives back one reference, unless another local hides the one
\* meant or a jump has passed its declaration.
LEMMA ReleaseRuns ==
  ASSUME Shape, Outcome, pc # 0, NEW A, Held(A), Counts(A), NEW R, Reached(R), pc \in R, DoRelease
  PROVE  Upholds(A, R)'
<1>1. PICK x, y : x = code[pc].local /\ y = code[pc].id
  OBVIOUS
<1>2. /\ code[pc].op = "release" /\ pc' = pc + 1 /\ UNCHANGED <<gen, action, result, leaked>>
      /\ \/ refs[y] > 0 /\ refs' = [refs EXCEPT ![y] = refs[y] - 1] /\ bad' = bad
         \/ ~(refs[y] > 0) /\ refs' = refs /\ bad' = bad \cup {pc}
  BY <1>1 DEF DoRelease, Does, Step, Ins
<1>3. /\ pc \in 1 .. Size /\ pc + 1 \in 1 .. Size /\ Size \in Nat /\ refs \in Seq(Nat) /\ Len(refs) = Size
      /\ \A d \in 1 .. Size : refs[d] \in Nat
      /\ DOMAIN refs = 1 .. Size /\ DOMAIN code = 1 .. Size
  BY <1>2, Running
<1>4. /\ x \in A[pc] /\ A[pc + 1] = A[pc] \ {x} /\ A[pc] \subseteq 1 .. pc - 1
      /\ y \notin A[pc + 1]
  <2>1. pc \in 1 .. Size + 1
    BY <1>3
  <2> QED
    BY <1>1, <1>2, <1>3, <2>1 DEF Held, Edge, EdgeRelease
<1>5. x \in 1 .. Size /\ A[pc] \subseteq 1 .. Size
  BY <1>3, <1>4
<1>6. x # y => Shadowed(pc) /\ Explained(x) /\ Hidden(y)
  BY <1>1, <1>2, <1>3 DEF Shadowed, Explained, Hidden
<1>7. /\ refs' \in Seq(Nat) /\ Len(refs') = Size
      /\ \A d \in 1 .. Size : d # y => refs'[d] = refs[d]
      /\ y \in 1 .. Size => refs'[y] = IF refs[y] > 0 THEN refs[y] - 1 ELSE refs[y]
  <2>1. CASE ~(refs[y] > 0) /\ refs' = refs
    BY <1>3, <2>1
  <2>2. CASE refs[y] > 0 /\ refs' = [refs EXCEPT ![y] = refs[y] - 1] /\ y \in 1 .. Size
    <3>1. refs[y] - 1 \in Nat
      BY <1>3, <2>2
    <3> QED
      BY <1>3, <2>2, <3>1
  <2>3. CASE refs' = [refs EXCEPT ![y] = refs[y] - 1] /\ y \notin 1 .. Size
    <3>1. PICK m : m = refs[y] - 1
      OBVIOUS
    <3>2. refs' = refs
      BY <1>3, <2>3, <3>1
    <3> QED
      BY <1>3, <2>3, <3>2
  <2> QED
    BY <1>2, <2>1, <2>2, <2>3
<1>8. Shape'
  <2>1. action' \in 0 .. 2 /\ result' \in Nat /\ pc' \in 0 .. Size
    BY <1>2, <1>3 DEF Shape, TypeOK
  <2> QED
    BY <1>2, <1>7, <2>1, RunShape
<1>9. pc' # 0 /\ pc + 1 \in R
  BY <1>2, <1>3 DEF Reached, Arrives, ArrivesNext
<1>10. Outcome'
  <2>1. CASE bad' = bad
    BY <1>2, <1>9, <2>1, SameOutcome
  <2>2. CASE bad' = bad \cup {pc} /\ ~(refs[y] > 0)
    <3>1. Shadowed(pc) \/ LateDeclared(y)
      <4>1. CASE x # y
        BY <1>6, <4>1
      <4>2. CASE x = y
        <5>1. Late(x, pc)
          BY <1>4, <2>2, <4>2 DEF Counts, OneEach
        <5> QED
          BY <4>2, <5>1 DEF Late
      <4> QED
        BY <4>1, <4>2
    <3>2. \A k \in bad \cup {pc} : Shadowed(k) \/ LateDeclared(code[k].id)
      BY <1>1, <3>1 DEF Outcome, ReleasesSound
    <3>3. code' = code
      BY <1>2 DEF gen
    <3>4. ReleasesSound'
      BY <1>2, <2>2, <3>2, <3>3, Static DEF ReleasesSound
    <3>5. LeaksExplained'
      BY <1>2, <3>3 DEF Outcome, LeaksExplained, Shadowed
    <3>6. ResultOwned'
      BY <1>9 DEF ResultOwned, Returned
    <3> QED
      BY <3>4, <3>5, <3>6 DEF Outcome
  <2> QED
    BY <1>2, <2>1, <2>2
<1>11. OneEach(A)'
  <2>1. \A d \in A[pc + 1] : refs'[d] > 0 \/ Late(d, pc + 1)
    <3> TAKE d \in A[pc + 1]
    <3>1. d \in A[pc] /\ d \in 1 .. Size /\ d # y
      BY <1>4, <1>5
    <3>2. refs[d] > 0 \/ Late(d, pc)
      BY <3>1 DEF Counts, OneEach
    <3>3. Late(d, pc) => Late(d, pc + 1)
      BY <1>3, LateMoves
    <3> QED
      BY <1>7, <3>1, <3>2, <3>3
  <2>2. \A d \in 1 .. Size : d # result => refs'[d] <= 1 /\ (refs'[d] > 0 /\ d \notin A[pc + 1] => Explained(d))
    <3> TAKE d \in 1 .. Size
    <3> SUFFICES ASSUME d # result
                 PROVE  refs'[d] <= 1 /\ (refs'[d] > 0 /\ d \notin A[pc + 1] => Explained(d))
      OBVIOUS
    <3>1. refs[d] <= 1 /\ (refs[d] > 0 /\ d \notin A[pc] => Explained(d))
      BY DEF Counts, OneEach
    <3>2. CASE d = y
      <4>1. refs'[d] = 0
        BY <1>3, <1>7, <3>1, <3>2
      <4> QED
        BY <4>1
    <3>3. CASE d # y /\ d = x
      BY <1>3, <1>6, <1>7, <3>1, <3>3
    <3>4. CASE d # y /\ d # x
      BY <1>4, <1>7, <3>1, <3>4
    <3> QED
      BY <3>2, <3>3, <3>4
  <2> QED
    BY <1>2, <2>1, <2>2, Static DEF OneEach
<1>12. OneOver(A)'
  <2> SUFFICES ASSUME result # 0
               PROVE  /\ (result \in 1 .. Size)' /\ (\E s \in 1 .. Size : Leaves(pc, s, result, A))'
                      /\ Hidden(result)' \/ (refs[result] = (IF result \in A[pc] THEN 2 ELSE 1))'
    BY <1>2 DEF OneOver
  <2>1. PICK v : v = result
    OBVIOUS
  <2>2. PICK r \in 1 .. Size : Leaves(pc, r, v, A)
    BY <2>1 DEF Counts, OneOver
  <2>3. /\ v \in 1 .. Size
        /\ Hidden(v) \/ refs[v] = (IF v \in A[pc] THEN 2 ELSE 1)
    BY <2>1 DEF Counts, OneOver
  <2>4. x = v => y = v
    <3>1. r # pc /\ r \in pc .. Size
      BY <1>2, <2>2 DEF Leaves
    <3>2. pc \in pc .. r - 1
      BY <1>3, <3>1
    <3> QED
      BY <1>1, <2>2, <3>2 DEF Leaves
  <2>5. Leaves(pc + 1, r, v, A)
    BY <1>2, <1>3, <2>2 DEF Leaves
  <2>6. (\E s \in 1 .. Size : Leaves(pc, s, result, A))'
    BY <1>2, <2>1, <2>5, StaticLeaves
  <2>7. Hidden(v) \/ refs'[v] = (IF v \in A[pc + 1] THEN 2 ELSE 1)
    <3>1. CASE x = v
      <4>1. refs[v] = 2 => refs'[v] = 1
        BY <1>7, <2>3, <2>4, <3>1
      <4> QED
        BY <1>4, <2>3, <3>1, <4>1
    <3>2. CASE x # v /\ y # v
      BY <1>4, <1>7, <2>3, <3>2
    <3>3. CASE x # v /\ y = v
      BY <1>6, <3>3
    <3> QED
      BY <3>1, <3>2, <3>3
  <2>8. (result \in 1 .. Size)' /\ result' = v /\ pc' = pc + 1
    BY <1>2, <2>1, <2>3, Static
  <2>9. Hidden(v) => Hidden(result)'
    BY <1>2, <2>1, Static DEF Hidden, Shadowed
  <2> QED
    BY <2>6, <2>7, <2>8, <2>9
<1> QED
  BY <1>2, <1>8, <1>9, <1>10, <1>11, <1>12 DEF Upholds, Counts

LEMMA IfRuns ==
  ASSUME Shape, Outcome, pc # 0, NEW A, Held(A), Counts(A), NEW R, Reached(R), pc \in R, DoIf
  PROVE  Upholds(A, R)'
<1>1. /\ code[pc].op = "if" /\ UNCHANGED <<gen, refs, action, result, bad, leaked>>
      /\ \/ pc' = pc + 1
         \/ \E k \in 1 .. Size : code[k].op \in {"else", "last"} /\ code[k].id = pc /\ pc' = k + 1
         \/ (\A k \in 1 .. Size : code[k] # Instr("last", pc)) /\ pc' = Find("end", pc)
  BY Running DEF DoIf, Does, Step
<1>2. pc \in 1 .. Size /\ action' \in 0 .. 2
  BY <1>1, Running DEF Shape, TypeOK
<1>3. pc' \in 1 .. Size /\ pc' \in R /\ A[pc'] = A[pc]
  <2>1. CASE pc' = pc + 1
    <3>1. pc + 1 \in 1 .. Size
      BY <1>1, <1>2, Running
    <3>2. A[pc + 1] = A[pc]
      BY <1>1, <1>2 DEF Held, Edge, EdgePass
    <3>3. pc + 1 \in R
      BY <1>1, <1>2 DEF Reached, Arrives, ArrivesNext
    <3> QED
      BY <2>1, <3>1, <3>2, <3>3
  <2>2. ASSUME NEW k \in 1 .. Size, code[k].op \in {"else", "last"}, code[k].id = pc, pc' = k + 1
        PROVE  pc' \in 1 .. Size /\ pc' \in R /\ A[pc'] = A[pc]
    <3>1. k + 1 \in 1 .. Size
      BY <2>2, Running
    <3>2. A[k + 1] = A[pc]
      BY <2>2 DEF Held, Edge, EdgeBack
    <3>3. k + 1 \in R
      BY <2>2 DEF Reached, Arrives, ArrivesNext
    <3> QED
      BY <2>2, <3>1, <3>2, <3>3
  <2>3. CASE (\A k \in 1 .. Size : code[k] # Instr("last", pc)) /\ pc' = Find("end", pc)
    <3>1. pc' \in 1 .. Size /\ Has(pc', "end", pc)
      BY <1>1, <1>2, <2>3, FindEnd
    <3>2. PICK e \in 1 .. Size : e = pc' /\ code[e].op = "end" /\ code[e].id = pc
      BY <3>1 DEF Has
    <3>3. \A j \in 1 .. e - 1 : code[j] # Instr("last", code[e].id)
      BY <2>3, <3>2, Running
    <3>4. ArrivesEnd(R, e)
      BY DEF Reached, Arrives
    <3>5. e \in R
      BY <3>2, <3>3, <3>4 DEF ArrivesEnd
    <3>6. A[e] = A[pc]
      BY <3>2 DEF Held, Edge, EdgeBack
    <3> QED
      BY <3>2, <3>5, <3>6
  <2> QED
    BY <1>1, <2>1, <2>2, <2>3
<1> QED
  BY <1>1, <1>2, <1>3, Pass

LEMMA ElseRuns ==
  ASSUME Shape, Outcome, pc # 0, NEW A, Held(A), Counts(A), NEW R, Reached(R), pc \in R, DoElse
  PROVE  Upholds(A, R)'
<1>1. PICK i : i = code[pc].id
  OBVIOUS
<1>2. /\ code[pc].op \in {"else", "last"} /\ UNCHANGED <<gen, refs, action, result, bad, leaked>>
      /\ pc' = Find("end", i)
  BY <1>1 DEF DoElse, Does, Ins
<1>3. pc \in 1 .. Size /\ action' \in 0 .. 2
  BY <1>2, Running DEF Shape, TypeOK
<1>4. i \in 1 .. pc - 1 /\ code[i].op = "if"
  BY <1>1, <1>2, <1>3 DEF Shape, Targets
<1>5. PICK e \in 1 .. Size : e = pc' /\ code[e].op = "end" /\ code[e].id = i
  <2>1. i \in 1 .. Size
    BY <1>3, <1>4, Running
  <2> QED
    BY <1>2, <1>4, <2>1, FindEnd DEF Has
<1>6. pc \in 1 .. e - 1
  <2>1. pc < e
    BY <1>1, <1>2, <1>3, <1>5 DEF Shape, Targets, Jumps, Marks
  <2> QED
    BY <1>3, <2>1, Running
<1>7. e \in R
  <2>1. ArrivesEnd(R, e)
    BY DEF Reached, Arrives
  <2> QED
    BY <1>1, <1>2, <1>5, <1>6, <2>1 DEF ArrivesEnd
<1>8. A[e] = A[pc]
  BY <1>1, <1>2, <1>3, <1>5 DEF Held, Edge, EdgeBack
<1> QED
  BY <1>2, <1>3, <1>5, <1>7, <1>8, Pass

LEMMA LoopRuns ==
  ASSUME Shape, Outcome, pc # 0, NEW A, Held(A), Counts(A), NEW R, Reached(R), pc \in R, DoLoop
  PROVE  Upholds(A, R)'
<1>1. /\ code[pc].op = "loop" /\ UNCHANGED <<gen, refs, action, result, bad, leaked>>
      /\ pc' = pc + 1 \/ pc' = Find("next", pc) + 1
  BY DEF DoLoop, Does, Step
<1>2. pc \in 1 .. Size /\ action' \in 0 .. 2
  BY <1>1, Running DEF Shape, TypeOK
<1>3. pc' \in 1 .. Size /\ pc' \in R /\ A[pc'] = A[pc]
  <2>1. CASE pc' = pc + 1
    <3>1. pc + 1 \in 1 .. Size
      BY <1>1, <1>2, Running
    <3>2. A[pc + 1] = A[pc]
      BY <1>1, <1>2 DEF Held, Edge, EdgePass
    <3>3. pc + 1 \in R
      BY <1>1, <1>2 DEF Reached, Arrives, ArrivesNext
    <3> QED
      BY <2>1, <3>1, <3>2, <3>3
  <2>2. CASE pc' = Find("next", pc) + 1
    <3>1. PICK n \in 1 .. Size : n = Find("next", pc) /\ code[n].op = "next" /\ code[n].id = pc
      BY <1>1, <1>2, FindLoop DEF Has
    <3>2. n + 1 \in 1 .. Size
      BY <3>1, Running
    <3>3. A[n + 1] = A[pc]
      BY <3>1 DEF Held, Edge, EdgeBack
    <3>4. n + 1 \in R
      BY <3>1 DEF Reached, Arrives, ArrivesNext
    <3> QED
      BY <2>2, <3>1, <3>2, <3>3, <3>4
  <2> QED
    BY <1>1, <2>1, <2>2
<1> QED
  BY <1>1, <1>2, <1>3, Pass

LEMMA MarkRuns ==
  ASSUME Shape, Outcome, pc # 0, NEW A, Held(A), Counts(A), NEW R, Reached(R), pc \in R, DoMark
  PROVE  Upholds(A, R)'
<1>1. /\ code[pc].op \in {"end", "label"} /\ UNCHANGED <<gen, refs, action, result, bad, leaked>>
      /\ pc' = pc + 1
  BY DEF DoMark, Does, Step
<1>2. pc \in 1 .. Size /\ pc + 1 \in 1 .. Size /\ action' \in 0 .. 2
  BY <1>1, Running DEF Shape, TypeOK
<1>3. A[pc + 1] = A[pc] /\ pc + 1 \in R
  BY <1>1, <1>2 DEF Held, Edge, EdgePass, Reached, Arrives, ArrivesNext
<1>4. CASE code[pc].op = "end"
  BY <1>1, <1>2, <1>3, <1>4, Pass
<1>5. CASE code[pc].op = "label"
  <2>1. Shape'
    <3>1. pc' \in 0 .. Size
      BY <1>1, <1>2
    <3> QED
      BY <1>1, <1>2, <3>1, Running, RunShape
  <2>2. pc' # 0 /\ Outcome'
    <3>1. pc' # 0
      BY <1>1, <1>2
    <3> QED
      BY <1>1, <3>1, SameOutcome
  <2>3. OneEach(A)'
    <3>1. \A d \in A[pc + 1] : refs[d] > 0 \/ Late(d, pc + 1)
      BY <1>2, <1>3, LateMoves DEF Counts, OneEach
    <3>2. \A d \in 1 .. Size : d # result => refs[d] <= 1 /\ (refs[d] > 0 /\ d \notin A[pc] => Explained(d))
      BY DEF Counts, OneEach
    <3> QED
      BY <1>1, <1>3, <3>1, <3>2, Static DEF OneEach
  <2>4. OneOver(A)'
    BY <1>1, <1>5, NoResult DEF OneOver
  <2> QED
    BY <1>1, <1>3, <2>1, <2>2, <2>3, <2>4 DEF Upholds, Counts
<1> QED
  BY <1>1, <1>4, <1>5

\* A local that a jump misses is declared behind it, or held at the label.
LEMMA GotoRuns ==
  ASSUME Shape, Outcome, pc # 0, NEW A, Held(A), Counts(A), NEW R, Reached(R), pc \in R, DoGoto
  PROVE  Upholds(A, R)'
<1>1. PICK i : i = code[pc].id
  OBVIOUS
<1>2. /\ code[pc].op = "goto" /\ UNCHANGED <<gen, refs, result, bad, leaked>>
      /\ action' = code[pc].act /\ pc' = Find("label", i)
  BY <1>1 DEF DoGoto, Does, Ins
<1>3. pc \in 1 .. Size /\ action' \in 0 .. 2 /\ Size \in Nat
  BY <1>2, Running DEF Instruction
<1>4. i \in 1 .. pc - 1 /\ i \in 1 .. Size /\ code[i].op = "loop"
  <2>1. i \in 1 .. pc - 1 /\ code[i].op = "loop"
    BY <1>1, <1>2, <1>3 DEF Shape, Targets
  <2> QED
    BY <1>3, <2>1
<1>5. PICK L \in 1 .. Size : /\ L = pc' /\ L = Find("label", i) /\ code[L].op = "label" /\ code[L].id = i
                             /\ \A j \in 1 .. Size : Has(j, "label", i) => j = L
  BY <1>2, <1>4, FindLoop DEF Has
<1>6. PICK n \in 1 .. Size : n = Find("next", i) /\ code[n].op = "next" /\ code[n].id = i
  BY <1>4, FindLoop DEF Has
<1>7. pc \in 1 .. L - 1
  <2>1. pc < L
    BY <1>1, <1>2, <1>3, <1>5 DEF Shape, Targets, Jumps, Marks
  <2> QED
    BY <1>3, <2>1
<1>8. L \in R
  <2>1. ArrivesLabel(R, L)
    BY DEF Reached, Arrives
  <2> QED
    BY <1>1, <1>2, <1>5, <1>7, <2>1 DEF ArrivesLabel, Has
<1>9. Brings(A, pc, A[L])
  BY <1>1, <1>2, <1>5, <1>7 DEF Held, Edge, EdgeLabel, Has
<1>10. /\ L \in 1 .. n - 1 /\ \A j \in L + 1 .. n - 1 : code[j].op = "release"
       /\ \A d \in A[L] : d > i => \E r \in L .. n - 1 : code[r].op = "release" /\ code[r].local = d
  <2>1. Clears(A, n, i)
    BY <1>6 DEF Held, Edge, EdgeNext
  <2>2. PICK l \in 1 .. n - 1 :
          /\ Has(l, "label", i) /\ \A j \in l + 1 .. n - 1 : code[j].op = "release"
          /\ \A d \in A[l] : d > i => \E r \in l .. n - 1 : code[r].op = "release" /\ code[r].local = d
    BY <2>1 DEF Clears
  <2>3. l \in 1 .. Size
    BY <1>3, <1>6
  <2>4. l = L
    BY <1>5, <2>2, <2>3
  <2> QED
    BY <2>2, <2>4
<1>11. \A d \in A[L] : d > pc => Late(d, L)
  <2> TAKE d \in A[L]
  <2> SUFFICES ASSUME d > pc
               PROVE  Late(d, L)
    OBVIOUS
  <2>1. d \in Nat /\ d > i /\ pc \in 1 .. d - 1
    <3>1. A[L] \subseteq 1 .. L - 1
      <4>1. L \in 1 .. Size + 1
        BY <1>3
      <4> QED
        BY <4>1 DEF Held
    <3> QED
      BY <1>3, <1>4, <3>1
  <2>2. PICK r \in L .. n - 1 : code[r].op = "release" /\ code[r].local = d
    BY <1>10, <2>1
  <2>3. r \in Find("label", i) .. Find("next", i)
    BY <1>5, <1>6, <2>2
  <2>4. LateDeclared(d)
    BY <1>1, <1>2, <2>1, <2>2, <2>3 DEF LateDeclared
  <2>5. L \in 1 .. L /\ n \in L + 1 .. Size
    BY <1>3, <1>6, <1>10
  <2> QED
    BY <1>5, <1>6, <1>10, <2>1, <2>4, <2>5 DEF Late, Has
<1>12. result = 0
  BY <1>2, NoResult
<1>13. Shape'
  <2>1. pc' \in 0 .. Size
    BY <1>5
  <2> QED
    BY <1>2, <1>3, <2>1, Running, RunShape
<1>14. pc' # 0 /\ Outcome'
  <2>1. pc' # 0
    BY <1>5
  <2> QED
    BY <1>2, <2>1, SameOutcome
<1>15. OneEach(A)'
  <2>1. \A d \in A[L] : refs[d] > 0 \/ Late(d, L)
    <3> TAKE d \in A[L]
    <3>1. CASE d > pc
      BY <1>11, <3>1
    <3>2. CASE d \in A[pc]
      <4>1. ~Late(d, pc)
        BY <1>2, <1>3, LateAt
      <4> QED
        BY <3>2, <4>1 DEF Counts, OneEach
    <3> QED
      BY <1>9, <3>1, <3>2 DEF Brings
  <2>2. \A d \in 1 .. Size : refs[d] <= 1 /\ (refs[d] > 0 /\ d \notin A[L] => Explained(d))
    <3> TAKE d \in 1 .. Size
    <3>1. refs[d] <= 1 /\ (refs[d] > 0 /\ d \notin A[pc] => Explained(d))
      BY <1>12 DEF Counts, OneEach
    <3>2. d \in A[pc] /\ d \notin A[L] => Explained(d)
      BY <1>3, <1>9 DEF Brings, Explained
    <3> QED
      BY <3>1, <3>2
  <2> QED
    BY <1>2, <1>5, <2>1, <2>2, Static DEF OneEach
<1>16. OneOver(A)'
  BY <1>2, <1>12 DEF OneOver
<1> QED
  BY <1>5, <1>8, <1>13, <1>14, <1>15, <1>16 DEF Upholds, Counts

\* The variables of the iteration end: none of them is still held.
LEMMA NextRuns ==
  ASSUME Shape, Outcome, pc # 0, NEW A, Held(A), Counts(A), NEW R, Reached(R), pc \in R, DoNext
  PROVE  Upholds(A, R)'
<1>1. PICK i : i = code[pc].id
  OBVIOUS
<1>2. /\ code[pc].op = "next" /\ UNCHANGED <<gen, result, bad>> /\ action' = 0
      /\ leaked' = leaked \cup {d \in i + 1 .. pc : refs[d] > 0}
      /\ refs' = [d \in DOMAIN refs |-> IF d \in i + 1 .. pc THEN 0 ELSE refs[d]]
      /\ pc' = pc + 1 \/ pc' = i
  BY <1>1 DEF DoNext, Does, Ins
<1>3. /\ pc \in 1 .. Size /\ pc + 1 \in 1 .. Size /\ Size \in Nat /\ Len(refs) = Size /\ DOMAIN refs = 1 .. Size
      /\ \A d \in 1 .. Size : refs[d] \in Nat
      /\ DOMAIN code = 1 .. Size
  BY <1>2, Running
<1>4. i \in 1 .. pc - 1 /\ i \in 1 .. Size
  <2>1. i \in 1 .. pc - 1
    BY <1>1, <1>2, <1>3 DEF Shape, Targets
  <2> QED
    BY <1>3, <2>1
<1>5. /\ pc' \in 1 .. Size /\ A[pc'] = A[pc] /\ pc' \in R
  <2>1. A[pc] = A[i] /\ A[pc + 1] = A[pc]
    BY <1>1, <1>2, <1>3 DEF Held, Edge, EdgeBack
  <2>2. pc + 1 \in R /\ i \in R
    BY <1>1, <1>2, <1>3 DEF Reached, Arrives, ArrivesNext
  <2> QED
    BY <1>2, <1>3, <1>4, <2>1, <2>2
<1>6. A[pc] \subseteq 1 .. i - 1
  <2>1. A[pc] = A[i]
    BY <1>1, <1>2, <1>3 DEF Held, Edge, EdgeBack
  <2>2. i \in 1 .. Size + 1
    BY <1>3, <1>4
  <2> QED
    BY <2>1, <2>2 DEF Held
<1>7. result = 0
  BY <1>2, NoResult
<1>8. \A d \in 1 .. Size : refs[d] <= 1 /\ (refs[d] > 0 /\ d \notin A[pc] => Explained(d))
  <2>1. \A d \in 1 .. Size : d # result
    BY <1>7
  <2> QED
    BY <2>1 DEF Counts, OneEach
<1>9. /\ refs' \in Seq(Nat) /\ Len(refs') = Size
      /\ \A d \in 1 .. Size : refs'[d] = IF d \in i + 1 .. pc THEN 0 ELSE refs[d]
  <2>1. refs' = [d \in 1 .. Size |-> IF d \in i + 1 .. pc THEN 0 ELSE refs[d]]
    BY <1>2, <1>3
  <2>2. \A d \in 1 .. Size : (IF d \in i + 1 .. pc THEN 0 ELSE refs[d]) \in Nat
    BY <1>3
  <2> QED
    BY <1>3, <2>1, <2>2
<1>10. Shape'
  <2>1. action' \in 0 .. 2 /\ result' \in Nat /\ pc' \in 0 .. Size
    BY <1>2, <1>5, Running
  <2> QED
    BY <1>2, <1>9, <2>1, RunShape
<1>11. Outcome' /\ pc' # 0
  <2>1. pc' # 0
    BY <1>5
  <2>2. code' = code
    BY <1>2 DEF gen
  <2>3. ReleasesSound'
    BY <1>2, <2>2, Static DEF Outcome, ReleasesSound
  <2>4. \A d \in leaked' : Explained(d)
    <3>1. \A d \in leaked : Explained(d)
      BY <1>3 DEF Outcome, LeaksExplained, Explained
    <3>2. \A d \in i + 1 .. pc : d \in 1 .. Size /\ d \notin A[pc]
      BY <1>3, <1>4, <1>6
    <3>3. \A d \in i + 1 .. pc : refs[d] > 0 => Explained(d)
      BY <1>8, <3>2
    <3> QED
      BY <1>2, <3>1, <3>3
  <2>5. LeaksExplained'
    BY <1>3, <2>2, <2>4 DEF LeaksExplained, Explained, Shadowed
  <2>6. ResultOwned'
    BY <2>1 DEF ResultOwned, Returned
  <2> QED
    BY <2>1, <2>3, <2>5, <2>6 DEF Outcome
<1>12. OneEach(A)'
  <2>1. \A d \in A[pc] : refs'[d] > 0
    <3> TAKE d \in A[pc]
    <3>1. d \in 1 .. Size /\ d \notin i + 1 .. pc
      BY <1>3, <1>4, <1>6
    <3>2. ~Late(d, pc)
      BY <1>2, <1>3, LateAt
    <3> QED
      BY <1>9, <3>1, <3>2 DEF Counts, OneEach
  <2>2. \A d \in 1 .. Size : refs'[d] <= 1 /\ (refs'[d] > 0 /\ d \notin A[pc] => Explained(d))
    BY <1>8, <1>9
  <2> QED
    BY <1>2, <1>5, <2>1, <2>2, Static DEF OneEach
<1>13. OneOver(A)'
  BY <1>2, <1>7 DEF OneOver
<1> QED
  BY <1>5, <1>10, <1>11, <1>12, <1>13 DEF Upholds, Counts

\* The function returns: what is still held was skipped, and the result has
\* the one reference that was taken for the caller.
LEMMA ReturnRuns ==
  ASSUME Shape, Outcome, pc # 0, NEW A, Held(A), Counts(A), NEW R, Reached(R), pc \in R, DoReturn
  PROVE  Upholds(A, R)'
<1>1. /\ code[pc].op = "return" /\ UNCHANGED <<gen, refs, action, result, bad>> /\ pc' = 0
      /\ leaked' = leaked \cup {d \in DOMAIN refs \ {result} : refs[d] > 0}
  BY DEF DoReturn, Does
<1>2. /\ pc \in 1 .. Size /\ Size \in Nat /\ DOMAIN refs = 1 .. Size /\ DOMAIN code = 1 .. Size
  BY Running
<1>3. A[pc] \subseteq code[pc].skips
  BY <1>1, <1>2 DEF Held, Edge, EdgeReturn
<1>4. Shape'
  <2>1. action' \in 0 .. 2 /\ result' \in Nat /\ pc' \in 0 .. Size
    BY <1>1, <1>2, Running DEF Shape, TypeOK
  <2> QED
    BY <1>1, <2>1, Running, RunShape
<1>5. code' = code
  BY <1>1 DEF gen
<1>6. ReleasesSound'
  BY <1>1, <1>5, Static DEF Outcome, ReleasesSound
<1>7. LeaksExplained'
  <2>1. \A d \in leaked : Explained(d)
    BY <1>2 DEF Outcome, LeaksExplained, Explained
  <2>2. \A d \in 1 .. Size : d # result /\ refs[d] > 0 => Explained(d)
    <3> TAKE d \in 1 .. Size
    <3>1. d # result /\ refs[d] > 0 /\ d \notin A[pc] => Explained(d)
      BY DEF Counts, OneEach
    <3>2. d \in A[pc] => Explained(d)
      BY <1>2, <1>3 DEF Explained
    <3> QED
      BY <3>1, <3>2
  <2>3. \A d \in leaked' : Explained(d)
    BY <1>1, <1>2, <2>1, <2>2
  <2> QED
    BY <1>2, <1>5, <2>3 DEF LeaksExplained, Explained, Shadowed
<1>8. ResultOwned'
  <2> SUFFICES ASSUME result # 0
               PROVE  refs[result] = 1 \/ Hidden(result)
    BY <1>1, <1>2, <1>5 DEF ResultOwned, Hidden, Shadowed
  <2>1. PICK r \in 1 .. Size : Leaves(pc, r, result, A)
    BY DEF Counts, OneOver
  <2>2. r = pc
    <3>1. r = pc \/ pc \in pc .. r - 1
      BY <1>2, <2>1 DEF Leaves
    <3> QED
      BY <1>1, <2>1, <3>1 DEF Leaves
  <2>3. result \notin A[pc]
    BY <2>1, <2>2 DEF Leaves
  <2> QED
    BY <2>3 DEF Counts, OneOver
<1>9. Outcome'
  BY <1>6, <1>7, <1>8 DEF Outcome
<1> QED
  BY <1>1, <1>4, <1>9 DEF Upholds, Counts

LEMMA ExecuteStep ==
  ASSUME Shape, Outcome, NEW A, Held(A), Counts(A), NEW R, Reached(R), pc # 0 => pc \in R, Execute
  PROVE  Upholds(A, R)' /\ Held(A)' /\ Reached(R)'
<1>1. pc # 0 /\ UNCHANGED gen
  BY DEF Execute, Does, DoDeclare, DoRelease, DoTake, DoIf, DoElse, DoMark, DoLoop, DoGoto, DoNext, DoReturn
<1>2. Upholds(A, R)'
  <2>1. CASE DoDeclare \/ DoRelease \/ DoTake
    BY <1>1, <2>1, DeclareRuns, ReleaseRuns, TakeRuns
  <2>2. CASE DoIf \/ DoElse \/ DoMark \/ DoLoop
    BY <1>1, <2>2, IfRuns, ElseRuns, MarkRuns, LoopRuns
  <2>3. CASE DoGoto \/ DoNext \/ DoReturn
    BY <1>1, <2>3, GotoRuns, NextRuns, ReturnRuns
  <2> QED
    BY <2>1, <2>2, <2>3 DEF Execute
<1> QED
  BY <1>1, <1>2, StaticHeld, StaticReached

-----------------------------------------------------------------------------
(***************************************************************************)
(* The generator's steps together.                                         *)
(***************************************************************************)
AnyReturn == ReturnNone \/ ReturnValue \/ \E n \in Name : ReturnLocal(n)
Growing ==
  \/ \E n \in Name : Declare(n) \/ BeginFor(n) \/ BeginWith(n)
  \/ \E k \in {"else", "last"} : Branch(k)
  \/ \E a \in {1, 2} : Jump(a)
  \/ BeginIf \/ EndIf \/ BeginWhile \/ EndLoop \/ EndWith
  \/ AnyReturn

LEMMA GenerateCases ==
  ASSUME Generate
  PROVE  Growing \/ EndFunction
BY DEF Generate, Growing, AnyReturn

LEMMA GrowingShape ==
  ASSUME Shape, Growing
  PROVE  NewShape
<1>1. ASSUME NEW n \in Name, Declare(n)
      PROVE  NewShape
  BY <1>1, DeclareShape
<1>2. ASSUME NEW n \in Name, BeginFor(n)
      PROVE  NewShape
  BY <1>2, BeginForShape
<1>3. ASSUME NEW n \in Name, BeginWith(n)
      PROVE  NewShape
  BY <1>3, BeginWithShape
<1>4. ASSUME NEW k \in {"else", "last"}, Branch(k)
      PROVE  NewShape
  BY <1>4, BranchShape
<1>5. ASSUME NEW a \in {1, 2}, Jump(a)
      PROVE  NewShape
  BY <1>5, JumpShape
<1>6. CASE BeginIf \/ EndIf \/ BeginWhile
  BY <1>6, BeginIfShape, EndIfShape, BeginWhileShape
<1>7. CASE EndLoop \/ EndWith
  BY <1>7, EndLoopShape, EndWithShape
<1>8. CASE AnyReturn
  BY <1>8, ReturnsShape DEF AnyReturn
<1> QED
  BY <1>1, <1>2, <1>3, <1>4, <1>5, <1>6, <1>7, <1>8 DEF Growing

LEMMA GrowingHeld ==
  ASSUME Shape, Growing, NEW A, Held(A)
  PROVE  \E B : Held(B)'
<1>1. ASSUME NEW n \in Name, Declare(n)
      PROVE  \E B : Held(B)'
  BY <1>1, DeclareHeld
<1>2. ASSUME NEW n \in Name, BeginFor(n)
      PROVE  \E B : Held(B)'
  BY <1>2, BeginForHeld
<1>3. ASSUME NEW n \in Name, BeginWith(n)
      PROVE  \E B : Held(B)'
  BY <1>3, BeginWithHeld
<1>4. ASSUME NEW k \in {"else", "last"}, Branch(k)
      PROVE  \E B : Held(B)'
  BY <1>4, BranchHeld
<1>5. ASSUME NEW a \in {1, 2}, Jump(a)
      PROVE  \E B : Held(B)'
  BY <1>5, JumpHeld
<1>6. CASE BeginIf \/ BeginWhile
  BY <1>6, BeginHeld
<1>7. CASE EndIf
  BY <1>7, EndIfHeld
<1>8. CASE EndLoop
  BY <1>8, EndLoopHeld
<1>9. CASE EndWith
  BY <1>9, EndWithHeld
<1>10. CASE ReturnNone
  BY <1>10, ReturnNoneHeld
<1>11. CASE ReturnValue
  BY <1>11, ReturnValueHeld
<1>12. ASSUME NEW n \in Name, ReturnLocal(n)
       PROVE  \E B : Held(B)'
  BY <1>12, ReturnLocalHeld
<1> QED
  BY <1>1, <1>2, <1>3, <1>4, <1>5, <1>6, <1>7, <1>8, <1>9, <1>10, <1>11, <1>12 DEF Growing, AnyReturn

LEMMA GrowingReached ==
  ASSUME Shape, Growing, NEW R, Reached(R)
  PROVE  \E Q : Reached(Q)'
<1>1. ASSUME NEW n \in Name, Declare(n)
      PROVE  \E Q : Reached(Q)'
  BY <1>1, DeclareReached
<1>2. CASE BeginIf \/ BeginWhile \/ \E n \in Name : BeginFor(n) \/ BeginWith(n)
  BY <1>2, BeginReached
<1>3. ASSUME NEW k \in {"else", "last"}, Branch(k)
      PROVE  \E Q : Reached(Q)'
  BY <1>3, BranchReached
<1>4. ASSUME NEW a \in {1, 2}, Jump(a)
      PROVE  \E Q : Reached(Q)'
  BY <1>4, JumpReached
<1>5. CASE EndIf
  BY <1>5, EndIfReached
<1>6. CASE EndLoop
  BY <1>6, EndLoopReached
<1>7. CASE EndWith
  BY <1>7, EndWithReached
<1>8. CASE AnyReturn
  BY <1>8, ReturnsReached DEF AnyReturn
<1> QED
  BY <1>1, <1>2, <1>3, <1>4, <1>5, <1>6, <1>7, <1>8 DEF Growing

LEMMA GrowingStep ==
  ASSUME IInv, Growing
  PROVE  IInv'
<1>1. Shape /\ NewShape
  BY GrowingShape DEF IInv
<1>2. Shape' /\ suites' # << >>
  BY <1>1, ShapeStep
<1>3. pc' = 0 /\ result' = 0 /\ bad' = {} /\ leaked' = {}
  BY <1>2 DEF Shape, Halves
<1>4. Outcome'
  BY <1>3 DEF Outcome, ReleasesSound, LeaksExplained, ResultOwned
<1>5. \E A : Held(A)
  BY DEF IInv
<1>6. \E B : Held(B)'
  BY <1>1, <1>5, GrowingHeld
<1>7. \E R : Reached(R)
  BY DEF IInv
<1>8. \E Q : Reached(Q)'
  BY <1>1, <1>7, GrowingReached
<1>9. (\E A : Held(A) /\ Counts(A))'
  BY <1>3, <1>6 DEF Counts
<1>10. (\E R : Reached(R) /\ (pc # 0 => pc \in R))'
  BY <1>3, <1>8
<1> QED
  BY <1>2, <1>4, <1>9, <1>10 DEF IInv

LEMMA EndFunctionInv ==
  ASSUME IInv, EndFunction
  PROVE  IInv'
<1>1. Shape
  BY DEF IInv
<1>2. pc' = 1 /\ result' = 0 /\ bad' = {} /\ leaked' = {}
  BY <1>1, EndFunctionFacts
<1>3. Shape'
  BY <1>1, EndFunctionShape
<1>4. Outcome'
  BY <1>2 DEF Outcome, ReleasesSound, LeaksExplained, ResultOwned
<1>5. (\E A : Held(A) /\ Counts(A))'
  <2>1. \E A : Held(A)
    BY DEF IInv
  <2>2. \E B : Held(B)' /\ Counts(B)'
    BY <1>1, <2>1, EndFunctionHeld
  <2> QED
    BY <2>2
<1>6. (\E R : Reached(R) /\ (pc # 0 => pc \in R))'
  <2>1. \E R : Reached(R)
    BY DEF IInv
  <2>2. \E Q : Reached(Q)' /\ 1 \in Q
    BY <1>1, <2>1, EndFunctionReached
  <2> QED
    BY <1>2, <2>2
<1> QED
  BY <1>3, <1>4, <1>5, <1>6 DEF IInv

LEMMA ExecuteInv ==
  ASSUME IInv, Execute
  PROVE  IInv'
<1>1. Shape /\ Outcome
  BY DEF IInv
<1>2. PICK A : Held(A) /\ Counts(A)
  BY DEF IInv
<1>3. PICK R : Reached(R) /\ (pc # 0 => pc \in R)
  BY DEF IInv
<1>4. Upholds(A, R)' /\ Held(A)' /\ Reached(R)'
  BY <1>1, <1>2, <1>3, ExecuteStep
<1>5. (\E B : Held(B) /\ Counts(B))'
  BY <1>4 DEF Upholds
<1>6. (\E Q : Reached(Q) /\ (pc # 0 => pc \in Q))'
  BY <1>4 DEF Upholds
<1> QED
  BY <1>4, <1>5, <1>6 DEF IInv, Upholds

LEMMA StutterInv ==
  ASSUME IInv, UNCHANGED vars
  PROVE  IInv'
<1>1. UNCHANGED gen /\ UNCHANGED run
  BY DEF vars, gen, run
<1>2. Shape'
  <2>1. Shape
    BY DEF IInv
  <2>2. TypeOK'
    BY <1>1, <2>1, StaticShape DEF Shape, TypeOK, run
  <2>3. Halves'
    BY <1>1, <2>1, StaticShape DEF Shape, Halves, run, gen
  <2> QED
    BY <1>1, <2>1, <2>2, <2>3, StaticShape DEF Shape
<1>3. Outcome'
  BY <1>1, Static DEF IInv, Outcome, ReleasesSound, LeaksExplained, ResultOwned, Returned, gen, run, Shadowed
<1>4. (\E A : Held(A) /\ Counts(A))'
  <2>1. PICK A : Held(A) /\ Counts(A)
    BY DEF IInv
  <2>2. Held(A)'
    BY <1>1, <2>1, StaticHeld
  <2>3. OneEach(A) => OneEach(A)'
    BY <1>1, Static DEF OneEach, run
  <2>4. OneOver(A) => OneOver(A)'
    BY <1>1, Static DEF OneOver, run, gen, Leaves
  <2>5. Counts(A)'
    BY <1>1, <2>1, <2>3, <2>4 DEF Counts, run
  <2> QED
    BY <2>2, <2>5
<1>5. (\E R : Reached(R) /\ (pc # 0 => pc \in R))'
  <2>1. PICK R : Reached(R) /\ (pc # 0 => pc \in R)
    BY DEF IInv
  <2>2. Reached(R)'
    BY <1>1, <2>1, StaticReached
  <2> QED
    BY <1>1, <2>1, <2>2 DEF run
<1> QED
  BY <1>2, <1>3, <1>4, <1>5 DEF IInv

LEMMA StepInv ==
  ASSUME IInv, [Next]_vars
  PROVE  IInv'
<1>1. CASE Generate
  BY <1>1, GenerateCases, GrowingStep, EndFunctionInv
<1>2. CASE Execute
  BY <1>2, ExecuteInv
<1>3. CASE UNCHANGED vars
  BY <1>3, StutterInv
<1> QED
  BY <1>1, <1>2, <1>3 DEF Next

LEMMA InitInv ==
  ASSUME Init
  PROVE  IInv
<1>1. /\ code = << >> /\ locals = << >> /\ starts = <<0>> /\ loops = << >>
      /\ kind \in {"none", "value", "managed"} /\ suites = <<Suite("function", 0, FALSE)>>
      /\ pc = 0 /\ refs = << >> /\ action = 0 /\ result = 0 /\ bad = {} /\ leaked = {}
  BY DEF Init
<1>2. Suite("function", 0, FALSE) \in SuiteType
  BY DEF Suite, SuiteType, SuiteKind
<1>3. /\ suites \in Seq(SuiteType) /\ Depth = 1 /\ suites # << >> /\ Size = 0 /\ Len(locals) = 0 /\ Len(loops) = 0
      /\ suites[1].kind = "function" /\ suites[1].id = 0 /\ suites[1].returns = FALSE
  BY <1>1, <1>2, Single DEF Depth, Size, Suite
<1>4. starts \in Seq(Nat) /\ Len(starts) = 1 /\ starts[1] = 0
  BY <1>1
<1>5. \A i \in 1 .. Depth : i = 1 /\ ~IsChain(suites[i]) /\ ~IsLoop(suites[i]) /\ suites[i].kind # "for"
  BY <1>3 DEF IsChain, IsLoop
<1>6. (\A k \in 1 .. Size : FALSE) /\ (\A k \in 1 .. Len(locals) : FALSE) /\ (\A m \in 1 .. Len(loops) : FALSE)
  BY <1>3
<1>7. Shape
  <2>1. TypeOK
    <3>1. code \in Seq(Instruction) /\ locals \in Seq(Nat) /\ loops \in Seq(Nat) /\ refs \in Seq(Nat)
      BY <1>1
    <3>2. pc \in Nat /\ action \in 0 .. 2 /\ result \in Nat
      BY <1>1
    <3> QED
      BY <1>1, <1>3, <1>4, <3>1, <3>2 DEF TypeOK
  <2>2. Halves
    BY <1>1, <1>3 DEF Halves
  <2>3. Suites
    BY <1>3, <1>4, <1>5 DEF Suites
  <2>4. Locals /\ Loops
    BY <1>5, <1>6 DEF Locals, Loops
  <2>5. Targets
    BY <1>6 DEF Targets
  <2> QED
    BY <2>1, <2>2, <2>3, <2>4, <2>5 DEF Shape
<1>8. Outcome
  BY <1>1 DEF Outcome, ReleasesSound, LeaksExplained, ResultOwned
<1>9. \E A : Held(A) /\ Counts(A)
  <2>1. PICK none : none = {}
    OBVIOUS
  <2>2. PICK A : A[1] = none
    <3>1. [k \in {1} |-> none][1] = none
      OBVIOUS
    <3> QED
      BY <3>1
  <2>3. Own(Depth) = {}
    <3>1. Kept(Depth) = 0
      BY <1>3 DEF Kept
    <3>2. \A m : m = 0 => First(m) = {}
      BY DEF First
    <3>3. First(Kept(Depth)) = {}
      BY <3>1, <3>2
    <3>4. Iter(Depth) = {}
      BY <1>5 DEF Iter
    <3> QED
      BY <3>3, <3>4 DEF Own
  <2>4. HeldInside(A)
    <3>1. A[Size + 1] = Own(Depth)
      <4>1. Size + 1 = 1
        BY <1>3
      <4>2. A[Size + 1] = none
        BY <2>2, <4>1
      <4>3. Own(Depth) = none
        BY <2>1, <2>3
      <4> QED
        BY <4>2, <4>3
    <3> QED
      BY <1>5, <1>6, <3>1 DEF HeldInside
  <2>5. Held(A)
    BY <1>3, <1>6, <2>1, <2>2, <2>4 DEF Held
  <2> QED
    BY <1>1, <2>5 DEF Counts
<1>10. \E R : Reached(R) /\ (pc # 0 => pc \in R)
  <2>1. PICK R : R = {1}
    OBVIOUS
  <2>2. ~Dead(Depth)
    BY <1>3 DEF Dead
  <2>3. ReachedInside(R)
    BY <1>3, <1>5, <2>1, <2>2 DEF ReachedInside
  <2> QED
    BY <1>1, <1>6, <2>1, <2>3 DEF Reached
<1> QED
  BY <1>7, <1>8, <1>9, <1>10 DEF IInv

LEMMA FallThrough ==
  ASSUME IInv
  PROVE  NoFallThrough
<1>1. PICK R : Reached(R) /\ (pc # 0 => pc \in R)
  BY DEF IInv
<1>2. pc # 0 => suites = << >>
  BY DEF IInv, Shape, Halves
<1> QED
  BY <1>1, <1>2 DEF NoFallThrough, Reached, ReachedInside, Size

-----------------------------------------------------------------------------
(***************************************************************************)
(* The theorems.                                                           *)
(***************************************************************************)
\* The code emitted so far can be annotated, instruction by instruction, with
\* the locals that hold a reference and with what can be reached, and the
\* function that runs agrees with both: for every number of statements, every
\* nesting and every path through the function.
THEOREM Inductive == Spec => []IInv
<1>1. Init => IInv
  BY InitInv
<1>2. IInv /\ [Next]_vars => IInv'
  BY StepInv
<1> QED
  BY <1>1, <1>2, PTL DEF Spec

\* Whatever path the emitted function takes, a release (pop_cleanup_scope,
\* the releases before a return, those behind a cleanup label) meets a local
\* that holds a reference, and the value of a return is taken from one that
\* does, but for a hidden name and for a declaration that was jumped over.
THEOREM ReleasesAreSound == Spec => []ReleasesSound
<1>1. IInv => ReleasesSound
  BY DEF IInv, Outcome
<1> QED
  BY <1>1, Inductive, PTL

\* What an iteration or the function leaves with a reference is what the
\* emitted break, continue and return statements leave out, or is hidden.
THEOREM LeaksAreExplained == Spec => []LeaksExplained
<1>1. IInv => LeaksExplained
  BY DEF IInv, Outcome
<1> QED
  BY <1>1, Inductive, PTL

\* return n retains the value before the locals are released: the caller gets
\* exactly one reference, whatever else the function did.
THEOREM ResultIsOwned == Spec => []ResultOwned
<1>1. IInv => ResultOwned
  BY DEF IInv, Outcome
<1> QED
  BY <1>1, Inductive, PTL

\* What the return analysis accepts returns on every path.
THEOREM NeverFallsThrough == Spec => []NoFallThrough
<1>1. IInv => NoFallThrough
  BY FallThrough
<1> QED
  BY <1>1, Inductive, PTL
=============================================================================
