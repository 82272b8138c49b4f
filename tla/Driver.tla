------------------------------- MODULE Driver -------------------------------
(***************************************************************************)
(* The command line driver: its options, the temporary C file it hands to  *)
(* the backend compiler, and the runner of a directory of tests.           *)
(*                                                                         *)
(* The state is the machine's files: what kind of file it is, from which   *)
(* source it was made, and whether it is complete.  Any system call or     *)
(* child process may fail; the loader, the checker and the generator come  *)
(* to an end or call exit(1).                                              *)
(***************************************************************************)
EXTENDS Naturals, Sequences

CONSTANTS
  CommandLines,  (* the command lines: sequences of words                  *)
  PathOf,        (* PathOf[w]: the path <<directory, stem, extension>>     *)
                 (* that the word w names                                  *)
  Sorted,        (* the source files there are, in the order of strcmp     *)
  Below,         (* Below[d]: directory d and the directories under it     *)
  TestStems,     (* the stems that end in _test                            *)
  NULL

\* A word of a command line is a string that can be read as a path.
ASSUME WordsAssumption ==
  /\ CommandLines \subseteq Seq(DOMAIN PathOf) /\ "default" \in DOMAIN PathOf
  /\ NULL \notin {"load", "generate"}

VARIABLES
  stage,    (* what the driver does next                                   *)
  argv,     (* the words not read yet                                      *)
  opt,      (* the options read                                            *)
  files,    (* files[p]: what the file at path p holds                     *)
  stdout,   (* what standard output has received                           *)
  kept,     (* the driver has said that it kept the generated C            *)
  exit,     (* the exit code                                               *)
  tests,    (* the test files, in the order they run                       *)
  done,     (* for each test that ended: its verdict and the file it ran   *)
  lost,     (* history: a write failed and no call reported it             *)
  died      (* history: the stage at which a part called exit(1)           *)

vars == <<stage, argv, opt, files, stdout, kept, exit, tests, done, lost, died>>

Sources == {Sorted[k] : k \in DOMAIN Sorted}
Levels  == {"0", "1", "2", "3", "s", "z"}

Holds(kind, from, whole) == [kind |-> kind, from |-> from, whole |-> whole]
Nothing == Holds("none", NULL, FALSE)

Temp == <<"/tmp", "py4-build", "">>

\* mkstemp creates a file of a name that nothing has and no word gave.
ASSUME TempAssumption == Temp \notin Sources \cup {PathOf[w] : w \in DOMAIN PathOf}

\* What the test runner writes is no source file.
ASSUME OutputsAssumption ==
  \A p \in Sources : p[1] = "/tmp/py4-tests" => p[3] \notin {".c", ".bin"}

\* The files of a test are named by its last component alone.
InTests(test, ext) == <<"/tmp/py4-tests", test[2], ext>>

Init ==
  /\ argv \in CommandLines
  /\ stage = "start"
  /\ opt = [input |-> PathOf["default"], output |-> NULL, backend |-> "gcc", level |-> NULL,
            emit |-> FALSE, shows |-> FALSE, testing |-> FALSE]
  /\ files = [p \in Sources |-> Holds("source", p, TRUE)]
  /\ stdout = Nothing /\ kept = FALSE /\ exit = NULL
  /\ tests = << >> /\ done = << >> /\ lost = FALSE /\ died = NULL

Write(p, c) == files' = [q \in DOMAIN files \cup {p} |-> IF q = p THEN c ELSE files[q]]
Unlink(p)   == files' = [q \in DOMAIN files \ {p} |-> files[q]]
Exit(code)  == stage' = "ended" /\ exit' = code
Die         == Exit(1) /\ died' = stage

-----------------------------------------------------------------------------
(***************************************************************************)
(* The options.                                                            *)
(***************************************************************************)
NoOutput == UNCHANGED <<files, stdout, kept, tests, done, lost, died>>

\* "test" is an option only as the first word.
Start ==
  /\ stage = "start"
  /\ LET isTest == argv # << >> /\ Head(argv) = "test"
     IN /\ stage' = IF isTest THEN "collect" ELSE "options"
        /\ argv' = IF isTest THEN Tail(argv) ELSE argv
        /\ opt' = [opt EXCEPT !.testing = isTest]
  /\ UNCHANGED exit /\ NoOutput

\* Options that take the next word, whatever it is.
TakesWord == {"--opt-level", "--backend", "-o"}

Valued(w, v) ==
  CASE w = "--opt-level" -> [opt EXCEPT !.level = v]
    [] w = "--backend"   -> [opt EXCEPT !.backend = v]
    [] w = "-o"          -> [opt EXCEPT !.output = PathOf[v]]

\* Any word that is no option is the input.
Single(w) ==
  CASE w = "--emit-c"               -> [opt EXCEPT !.emit = TRUE]
    [] w \in {"--tree", "--tokens"} -> [opt EXCEPT !.shows = TRUE]
    [] w \in {"--compile", "--release"} -> opt
    [] OTHER                        -> [opt EXCEPT !.input = PathOf[w]]

ReadOption ==
  /\ stage = "options" /\ argv # << >>
  /\ \/ /\ Head(argv) \in TakesWord /\ Len(argv) > 1
        /\ opt' = Valued(Head(argv), argv[2])
        /\ argv' = Tail(Tail(argv))
     \/ /\ Head(argv) \notin TakesWord
        /\ opt' = Single(Head(argv))
        /\ argv' = Tail(argv)
  /\ UNCHANGED <<stage, exit>> /\ NoOutput

Acceptable == opt.backend # "empty" /\ opt.level \in Levels \cup {NULL}

\* An option without its word, an empty backend, a level gcc does not have.
RefuseOptions ==
  /\ stage = "options"
  /\ \/ Len(argv) = 1 /\ Head(argv) \in TakesWord
     \/ argv = << >> /\ ~Acceptable
  /\ Exit(1)
  /\ UNCHANGED <<argv, opt>> /\ NoOutput

AcceptOptions ==
  /\ stage = "options" /\ argv = << >> /\ Acceptable
  /\ stage' = "load"
  /\ UNCHANGED <<argv, opt, exit>> /\ NoOutput

-----------------------------------------------------------------------------
(***************************************************************************)
(* A program.                                                              *)
(***************************************************************************)
Options == UNCHANGED <<argv, opt, tests, done>>

\* Loader and checker; --tokens and --tree print to standard output.
Load ==
  /\ stage = "load"
  /\ \/ /\ opt.input \in DOMAIN files /\ files[opt.input].kind = "source"
        /\ stage' = IF opt.emit THEN "open" ELSE "temp"
        /\ UNCHANGED <<exit, died>>
     \/ Die
  /\ Options /\ UNCHANGED <<files, stdout, kept, lost>>

\* --emit-c with -o: the file is truncated before the generator starts.
OpenOutput ==
  /\ stage = "open"
  /\ \/ /\ opt.output = NULL
        /\ stage' = "emit" /\ UNCHANGED <<files, exit, died>>
     \/ /\ opt.output # NULL
        /\ \/ /\ Write(opt.output, Holds("c", opt.input, FALSE))
              /\ stage' = "emit" /\ UNCHANGED <<exit, died>>
           \/ Die /\ UNCHANGED files
  /\ Options /\ UNCHANGED <<stdout, kept, lost>>

\* Variant with a fault: the result of fclose is ignored.
EmitUnchecked ==
  /\ stage = "emit"
  /\ \E whole \in BOOLEAN, unreported \in BOOLEAN :
       /\ unreported => ~whole
       /\ lost' = unreported
       /\ IF opt.output # NULL
          THEN Write(opt.output, Holds("c", opt.input, whole)) /\ UNCHANGED stdout
          ELSE stdout' = Holds("c", opt.input, whole /\ ~opt.shows) /\ UNCHANGED files
  /\ Exit(0) /\ UNCHANGED died
  /\ Options /\ UNCHANGED kept

\* Only the last write to a file is reported, by fclose; for standard output
\* none is.
Emit ==
  /\ stage = "emit"
  /\ \E whole \in BOOLEAN, unreported \in BOOLEAN :
       /\ unreported => ~whole
       /\ lost' = unreported
       /\ IF opt.output # NULL
          THEN Write(opt.output, Holds("c", opt.input, whole)) /\ UNCHANGED stdout
          ELSE stdout' = Holds("c", opt.input, whole /\ ~opt.shows) /\ UNCHANGED files
       /\ \/ whole /\ Exit(0) /\ UNCHANGED died
          \/ unreported /\ Exit(0) /\ UNCHANGED died
          \/ ~whole /\ ~unreported /\ opt.output # NULL /\ Exit(1) /\ UNCHANGED died
          \/ ~whole /\ ~unreported /\ Die                  \* the generator gives up
  /\ Options /\ UNCHANGED kept

MakeTemp ==
  /\ stage = "temp"
  /\ \/ Write(Temp, Nothing) /\ stage' = "generate" /\ UNCHANGED exit
     \/ Exit(1) /\ UNCHANGED files                         \* mkstemp failed
  /\ Options /\ UNCHANGED <<stdout, kept, lost, died>>

\* Variant with a fault: when fclose fails the file stays.
GenerateLeaves ==
  /\ stage = "generate"
  /\ \/ /\ \E whole \in BOOLEAN : /\ Write(Temp, Holds("c", opt.input, whole))
                                  /\ lost' = ~whole
        /\ stage' = "backend" /\ UNCHANGED <<exit, died>>
     \/ Exit(1) /\ UNCHANGED <<files, lost, died>>
     \/ Write(Temp, Holds("c", opt.input, FALSE)) /\ Die /\ UNCHANGED lost
  /\ Options /\ UNCHANGED <<stdout, kept>>

\* fdopen, emit_c_program, fclose.
Generate ==
  /\ stage = "generate"
  /\ \/ /\ \E whole \in BOOLEAN : /\ Write(Temp, Holds("c", opt.input, whole))
                                  /\ lost' = ~whole
        /\ stage' = "backend" /\ UNCHANGED <<exit, died>>
     \/ Unlink(Temp) /\ Exit(1) /\ UNCHANGED <<lost, died>>  \* fdopen or fclose failed
     \/ Write(Temp, Holds("c", opt.input, FALSE)) /\ Die /\ UNCHANGED lost
  /\ Options /\ UNCHANGED <<stdout, kept>>

\* Variant with a fault: the extension stays.
BinaryPathWhole ==
  IF opt.output # NULL THEN opt.output ELSE <<"", opt.input[2], opt.input[3]>>

\* The default output: the input's last component, less a .p4.
BinaryPath ==
  IF opt.output # NULL THEN opt.output
  ELSE <<"", opt.input[2], IF opt.input[3] = ".p4" THEN "" ELSE opt.input[3]>>

\* The backend links only a complete text, and may fail on it: the flags of
\* libcurl, fork, exec (127), wait, a signal, its own verdict.
Backend ==
  /\ stage = "backend"
  /\ \/ /\ files[Temp].whole
        /\ files' = [q \in (DOMAIN files \cup {BinaryPath}) \ {Temp} |->
                       IF q = BinaryPath THEN Holds("binary", files[Temp].from, TRUE) ELSE files[q]]
        /\ Exit(0) /\ UNCHANGED kept
     \/ /\ \E code \in {1, 127} : Exit(code)
        /\ kept' = TRUE /\ UNCHANGED files
  /\ Options /\ UNCHANGED <<stdout, lost, died>>

-----------------------------------------------------------------------------
(***************************************************************************)
(* The tests of a directory.                                               *)
(***************************************************************************)
Rest == UNCHANGED <<opt, stdout, kept, died>>

\* A directory gives its _test.p4 files, at any depth, in sorted order; any
\* other path gives itself if it ends in .p4, whether it exists or not.
Collected(given) ==
  IF given[1] \in DOMAIN Below /\ given[2] = ""
  THEN SelectSeq(Sorted, LAMBDA p : p[1] \in Below[given[1]] /\ p[2] \in TestStems /\ p[3] = ".p4")
  ELSE IF given[3] = ".p4" THEN <<given>> ELSE << >>

Collect ==
  /\ stage = "collect"
  /\ tests' = Collected(PathOf[IF argv = << >> THEN "tests/py4" ELSE Head(argv)])
  /\ \/ stage' = "transpile" /\ UNCHANGED exit
     \/ Exit(1)                                            \* opendir or mkdir failed
  /\ UNCHANGED <<argv, files, done, lost>> /\ Rest

Test == tests[Len(done) + 1]
Verdict(passed, ran) == /\ done' = Append(done, [passed |-> passed, ran |-> ran])
                        /\ stage' = "transpile"
Fails == Verdict(FALSE, Nothing)

\* The driver itself as a child, with --emit-c > <base>.c.
Transpile ==
  /\ stage = "transpile" /\ Len(done) < Len(tests)
  /\ \/ /\ Test \in DOMAIN files
        /\ \E whole \in BOOLEAN : /\ Write(InTests(Test, ".c"), Holds("c", Test, whole))
                                  /\ lost' = (lost \/ ~whole)
        /\ stage' = "compile" /\ UNCHANGED done
     \/ Write(InTests(Test, ".c"), Holds("c", Test, FALSE)) /\ Fails /\ UNCHANGED lost
  /\ UNCHANGED <<argv, exit, tests>> /\ Rest

Builds == /\ files[InTests(Test, ".c")].whole
          /\ Write(InTests(Test, ".bin"), Holds("binary", files[InTests(Test, ".c")].from, TRUE))
          /\ stage' = "run" /\ UNCHANGED done

\* Variant with a fault: the status of gcc is ignored.
CompileUnchecked ==
  /\ stage = "compile"
  /\ \/ Builds
     \/ /\ UNCHANGED files
        /\ IF InTests(Test, ".bin") \in DOMAIN files THEN stage' = "run" /\ UNCHANGED done ELSE Fails
  /\ UNCHANGED <<argv, exit, tests, lost>> /\ Rest

Compile ==
  /\ stage = "compile"
  /\ \/ Builds
     \/ Fails /\ UNCHANGED files
  /\ UNCHANGED <<argv, exit, tests, lost>> /\ Rest

RunTest ==
  /\ stage = "run"
  /\ \E passed \in BOOLEAN : Verdict(passed, files[InTests(Test, ".bin")])
  /\ UNCHANGED <<argv, files, exit, tests, lost>> /\ Rest

EndTests ==
  /\ stage = "transpile" /\ Len(done) = Len(tests)
  /\ Exit(IF \A k \in DOMAIN done : done[k].passed THEN 0 ELSE 1)
  /\ UNCHANGED <<argv, files, tests, done, lost>> /\ Rest

Next ==
  \/ Start \/ ReadOption \/ RefuseOptions \/ AcceptOptions
  \/ Load \/ OpenOutput \/ Emit \/ MakeTemp \/ Generate \/ Backend
  \/ Collect \/ Transpile \/ Compile \/ RunTest \/ EndTests

Spec == Init /\ [][Next]_vars

-----------------------------------------------------------------------------
(***************************************************************************)
(* Properties.                                                             *)
(***************************************************************************)

\* A generated file stays behind exactly when the driver says so, and then
\* the exit code is the backend's failure; the one exception is a generator
\* that gives up while the temporary file is open.
NoStray ==
  stage = "ended" => /\ Temp \in DOMAIN files <=> kept \/ died = "generate"
                     /\ kept => exit # 0 /\ files[Temp].from = opt.input

\* Exit code 0 means that the requested file holds this input's program,
\* complete, unless a write failed that nothing reports, or --tree and
\* --tokens were printed into the same stream; a program that is refused
\* before code generation changes no file.
Emitted   == IF opt.output # NULL THEN files[opt.output] = Holds("c", opt.input, TRUE)
             ELSE stdout = Holds("c", opt.input, ~opt.shows)
ExitTells ==
  stage = "ended" /\ ~opt.testing =>
    /\ exit = 0 => IF opt.emit THEN Emitted \/ lost
                   ELSE files[BinaryPath] = Holds("binary", opt.input, TRUE)
    /\ died = "load" => files = [p \in Sources |-> Holds("source", p, TRUE)]

\* A source file is overwritten only by a path given with -o, or when it has
\* no .p4 extension and lies in the working directory.
SourcesKept ==
  \A p \in Sources : files[p] = Holds("source", p, TRUE) \/ p = opt.output \/ (p[1] = "" /\ p[3] # ".p4")

\* A test that passes ran the program made from its own file, although tests
\* of the same name in two directories share the paths of their outputs; the
\* exit code is 0 only when every test collected has passed, and another one
\* only when a test has failed or the runner ended before the first test.
VerdictsOwn ==
  /\ \A k \in DOMAIN done : done[k].passed => done[k].ran = Holds("binary", tests[k], TRUE)
  /\ stage = "ended" /\ opt.testing =>
       IF exit = 0 THEN Len(done) = Len(tests) /\ \A k \in DOMAIN done : done[k].passed
                   ELSE done = << >> \/ \E k \in DOMAIN done : ~done[k].passed

-----------------------------------------------------------------------------
(***************************************************************************)
(* What makes the four inductive.                                          *)
(***************************************************************************)
Building == {"options", "load", "open", "emit", "temp", "generate", "backend"}
Testing  == {"collect", "transpile", "compile", "run"}
Paths    == {PathOf[w] : w \in DOMAIN PathOf}

TypeOK ==
  /\ stage \in {"start", "ended"} \cup Building \cup Testing
  /\ argv \in Seq(DOMAIN PathOf)
  /\ opt \in [input : Paths, output : Paths \cup {NULL}, backend : {"gcc"} \cup DOMAIN PathOf,
              level : DOMAIN PathOf \cup {NULL}, emit : BOOLEAN, shows : BOOLEAN, testing : BOOLEAN]
  /\ done \in Seq({done[k] : k \in DOMAIN done})

\* A stage is reached with the options it is for, and an outcome only at the end.
Stages ==
  /\ stage = "start" => opt.output = NULL
  /\ stage \in Building => ~opt.testing
  /\ stage \in Testing => opt.testing
  /\ stage \in {"open", "emit"} => opt.emit
  /\ stage \in {"temp", "generate", "backend"} => ~opt.emit
  /\ stage # "ended" => ~kept /\ died = NULL
  /\ opt.testing => opt.output = NULL /\ ~kept /\ died = NULL

\* Nothing is written before the options are read and the program is checked.
Untouched ==
  stage \in {"start", "options", "load", "open", "temp", "collect"} \/ died = "load" =>
    files = [p \in Sources |-> Holds("source", p, TRUE)]

\* The temporary file, and what is in it when the backend reads it.
TempKnown ==
  /\ Temp \in DOMAIN files <=>
       stage \in {"generate", "backend"} \/ (stage = "ended" /\ (kept \/ died = "generate"))
  /\ stage = "backend" \/ kept => files[Temp].from = opt.input
  /\ stage = "ended" /\ kept => exit # 0

SourcesThere == Sources \subseteq DOMAIN files /\ SourcesKept

\* What the running test has produced.
TestFiles ==
  /\ stage = "compile" => files[InTests(Test, ".c")].from = Test
  /\ stage = "run" => files[InTests(Test, ".bin")] = Holds("binary", Test, TRUE)
  /\ stage \in {"start", "collect"} => done = << >>

IInv == TypeOK /\ Stages /\ Untouched /\ TempKnown /\ SourcesThere /\ TestFiles /\ ExitTells /\ VerdictsOwn
=============================================================================
