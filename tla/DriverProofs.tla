---------------------------- MODULE DriverProofs ----------------------------
(***************************************************************************)
(* NoStray, ExitTells, SourcesKept and VerdictsOwn hold for any command    *)
(* lines, source files and directories: IInv is inductive.                 *)
(***************************************************************************)
EXTENDS Driver, TLAPS

\* No path that is written in the driver's own name is a source file or the
\* temporary file.
LEMMA PathFacts ==
  ASSUME TypeOK
  PROVE  /\ Temp \notin Sources /\ opt.input # Temp /\ (opt.output # NULL => opt.output # Temp)
         /\ BinaryPath # Temp
         /\ BinaryPath \in Sources =>
              BinaryPath = opt.output \/ (BinaryPath[1] = "" /\ BinaryPath[3] # ".p4")
<1>1. Temp \notin Sources /\ Temp \notin Paths
  BY TempAssumption DEF Paths
<1>2. opt.input \in Paths /\ opt.output \in Paths \cup {NULL}
  BY DEF TypeOK
<1>3. CASE opt.output # NULL
  BY <1>1, <1>2, <1>3 DEF BinaryPath
<1>4. CASE opt.output = NULL
  <2> DEFINE e == IF opt.input[3] = ".p4" THEN "" ELSE opt.input[3]
  <2>1. BinaryPath = <<"", opt.input[2], e>> /\ e # ".p4"
    BY <1>4 DEF BinaryPath
  <2> HIDE DEF e
  <2>2. BinaryPath[1] = "" /\ BinaryPath[3] = e
    BY <2>1
  <2>3. Temp[1] = "/tmp"
    BY DEF Temp
  <2> QED
    BY <1>1, <1>2, <1>4, <2>1, <2>2, <2>3
<1> QED
  BY <1>3, <1>4

\* The two files of a test are apart, from the sources and from Temp.
LEMMA TestPaths ==
  ASSUME NEW t
  PROVE  /\ InTests(t, ".c") \notin Sources /\ InTests(t, ".bin") \notin Sources
         /\ InTests(t, ".c") # Temp /\ InTests(t, ".bin") # Temp
         /\ InTests(t, ".c") # InTests(t, ".bin")
<1> DEFINE c == InTests(t, ".c")
           b == InTests(t, ".bin")
<1>1. /\ c[1] = "/tmp/py4-tests" /\ c[3] = ".c"
      /\ b[1] = "/tmp/py4-tests" /\ b[3] = ".bin"
  BY DEF InTests
<1>2. Temp[1] = "/tmp"
  BY DEF Temp
<1> HIDE DEF c, b
<1>3. c \notin Sources /\ b \notin Sources
  BY <1>1, OutputsAssumption
<1>4. c # Temp /\ b # Temp /\ c # b
  BY <1>1, <1>2
<1> QED
  BY <1>3, <1>4 DEF c, b

\* A file is written, and no other changes.
LEMMA WriteFacts ==
  ASSUME NEW p, NEW c, Write(p, c)
  PROVE  /\ DOMAIN files' = DOMAIN files \cup {p} /\ files'[p] = c
         /\ \A q \in DOMAIN files : q # p => files'[q] = files[q]
BY DEF Write

LEMMA UnlinkFacts ==
  ASSUME NEW p, Unlink(p)
  PROVE  /\ DOMAIN files' = DOMAIN files \ {p}
         /\ \A q \in DOMAIN files : q # p => files'[q] = files[q]
BY DEF Unlink

\* Sources survive what is written elsewhere, or where the options point.
LEMMA SourcesSurvive ==
  ASSUME SourcesThere, opt' = opt, Sources \subseteq DOMAIN files',
         \A q \in Sources : \/ files'[q] = files[q]
                            \/ q = opt.output
                            \/ (q[1] = "" /\ q[3] # ".p4")
  PROVE  SourcesThere'
BY DEF SourcesThere, SourcesKept

-----------------------------------------------------------------------------
(***************************************************************************)
(* The options.                                                            *)
(***************************************************************************)

\* A step that only reads words.
LEMMA OptionStep ==
  ASSUME IInv, NoOutput, stage \in {"start", "options"},
         stage' \in {"options", "load", "collect", "ended"}, TypeOK',
         stage' = "collect" => stage = "start" /\ opt'.testing /\ opt'.output = NULL,
         stage' # "collect" => ~opt'.testing,
         stage' = "ended" => exit' = 1
  PROVE  IInv'
<1>1. /\ UNCHANGED <<files, stdout, kept, tests, done, lost, died>>
      /\ died = NULL /\ ~kept /\ files = [p \in Sources |-> Holds("source", p, TRUE)]
      /\ Temp \notin DOMAIN files
  BY DEF NoOutput, IInv, Stages, Untouched, TempKnown
<1>2. Stages' /\ Untouched' /\ TempKnown'
  BY <1>1, WordsAssumption DEF Stages, Untouched, TempKnown, Building, Testing
<1>3. SourcesThere'
  BY <1>1 DEF SourcesThere, SourcesKept
<1>4. ExitTells'
  BY <1>1, WordsAssumption DEF ExitTells
<1>5. TestFiles' /\ VerdictsOwn'
  BY <1>1 DEF IInv, TestFiles, VerdictsOwn
<1> QED
  BY <1>2, <1>3, <1>4, <1>5 DEF IInv
LEMMA StartStep ==
  ASSUME IInv, Start
  PROVE  IInv'
<1> DEFINE isTest == argv # << >> /\ Head(argv) = "test"
<1>1. /\ stage = "start" /\ NoOutput /\ exit' = exit
      /\ stage' = IF isTest THEN "collect" ELSE "options"
      /\ argv' = IF isTest THEN Tail(argv) ELSE argv
      /\ opt' = [opt EXCEPT !.testing = isTest]
  BY DEF Start
<1>2. TypeOK
  BY DEF IInv
<1>3. argv' \in Seq(DOMAIN PathOf) /\ isTest \in BOOLEAN
  <2>1. argv \in Seq(DOMAIN PathOf) /\ (argv # << >> => Tail(argv) \in Seq(DOMAIN PathOf))
    BY <1>2 DEF TypeOK
  <2>2. isTest \in BOOLEAN /\ (isTest => argv # << >>)
    OBVIOUS
  <2> HIDE DEF isTest
  <2> QED
    BY <1>1, <2>1, <2>2
<1>4. opt'.testing = isTest /\ opt'.output = opt.output
  BY <1>1, <1>2 DEF TypeOK
<1>5. opt.output = NULL
  BY <1>1 DEF IInv, Stages
<1> HIDE DEF isTest
<1>6. TypeOK'
  BY <1>1, <1>2, <1>3 DEF TypeOK, NoOutput, Building, Testing
<1> QED
  BY <1>1, <1>3, <1>4, <1>5, <1>6, OptionStep

OptionsType ==
  [input : Paths, output : Paths \cup {NULL}, backend : {"gcc"} \cup DOMAIN PathOf,
   level : DOMAIN PathOf \cup {NULL}, emit : BOOLEAN, shows : BOOLEAN, testing : BOOLEAN]

LEMMA ReadOptionStep ==
  ASSUME IInv, ReadOption
  PROVE  IInv'
<1>1. /\ stage = "options" /\ stage' = stage /\ NoOutput /\ argv # << >> /\ TypeOK
      /\ ~opt.testing /\ argv \in Seq(DOMAIN PathOf) /\ Head(argv) \in DOMAIN PathOf
  BY DEF ReadOption, IInv, Stages, Building, TypeOK
<1>2. CASE /\ Head(argv) \in TakesWord /\ Len(argv) > 1
           /\ opt' = Valued(Head(argv), argv[2])
           /\ argv' = Tail(Tail(argv))
  <2>1. argv' \in Seq(DOMAIN PathOf) /\ argv[2] \in DOMAIN PathOf
    BY <1>1, <1>2
  <2>2. PathOf[argv[2]] \in Paths
    BY <2>1 DEF Paths
  <2>3. \/ opt' = [opt EXCEPT !.level = argv[2]] \/ opt' = [opt EXCEPT !.backend = argv[2]]
        \/ opt' = [opt EXCEPT !.output = PathOf[argv[2]]]
    BY <1>2 DEF Valued, TakesWord
  <2>4. opt'.testing = opt.testing
    BY <1>1, <2>3 DEF TypeOK
  <2>5. opt' \in OptionsType
    <3>1. opt \in OptionsType
      BY <1>1 DEF TypeOK, OptionsType
    <3> QED
      BY <2>1, <2>2, <2>3, <3>1 DEF OptionsType
  <2>6. TypeOK'
    BY <1>1, <2>1, <2>5 DEF TypeOK, NoOutput, OptionsType
  <2> QED
    BY <1>1, <2>4, <2>6, OptionStep
<1>3. CASE /\ Head(argv) \notin TakesWord
           /\ opt' = Single(Head(argv))
           /\ argv' = Tail(argv)
  <2>1. argv' \in Seq(DOMAIN PathOf)
    BY <1>1, <1>3
  <2>2. PathOf[Head(argv)] \in Paths
    BY <1>1 DEF Paths
  <2>3. \/ opt' = [opt EXCEPT !.emit = TRUE] \/ opt' = [opt EXCEPT !.shows = TRUE]
        \/ opt' = opt \/ opt' = [opt EXCEPT !.input = PathOf[Head(argv)]]
    BY <1>3 DEF Single
  <2>4. opt'.testing = opt.testing
    BY <1>1, <2>3 DEF TypeOK
  <2>5. opt' \in OptionsType
    <3>1. opt \in OptionsType
      BY <1>1 DEF TypeOK, OptionsType
    <3> QED
      BY <2>1, <2>2, <2>3, <3>1 DEF OptionsType
  <2>6. TypeOK'
    BY <1>1, <2>1, <2>5 DEF TypeOK, NoOutput, OptionsType
  <2> QED
    BY <1>1, <2>4, <2>6, OptionStep
<1> QED
  BY <1>1, <1>2, <1>3 DEF ReadOption

LEMMA RefuseOptionsStep ==
  ASSUME IInv, RefuseOptions
  PROVE  IInv'
<1>1. /\ stage = "options" /\ stage' = "ended" /\ exit' = 1 /\ UNCHANGED <<argv, opt>> /\ NoOutput
      /\ TypeOK /\ ~opt.testing
  BY DEF RefuseOptions, Exit, IInv, Stages, Building
<1>2. TypeOK'
  BY <1>1 DEF TypeOK, NoOutput
<1> QED
  BY <1>1, <1>2, OptionStep

LEMMA AcceptOptionsStep ==
  ASSUME IInv, AcceptOptions
  PROVE  IInv'
<1>1. /\ stage = "options" /\ stage' = "load" /\ UNCHANGED <<argv, opt>> /\ NoOutput
      /\ TypeOK /\ ~opt.testing
  BY DEF AcceptOptions, IInv, Stages, Building
<1>2. TypeOK'
  BY <1>1 DEF TypeOK, NoOutput, Building
<1> QED
  BY <1>1, <1>2, OptionStep

-----------------------------------------------------------------------------
(***************************************************************************)
(* A program.                                                              *)
(***************************************************************************)

\* Steps of a build: the options stand, and no test has run.
LEMMA BuildStep ==
  ASSUME IInv, Options, stage \in Building, stage' \in {"ended"} \cup Building
  PROVE  /\ TypeOK' /\ TestFiles' /\ VerdictsOwn' /\ opt' = opt /\ ~opt.testing
         /\ ~kept /\ died = NULL
<1>1. /\ TypeOK /\ TestFiles /\ VerdictsOwn /\ ~opt.testing /\ ~kept /\ died = NULL
      /\ UNCHANGED <<argv, opt, tests, done>> /\ stage \notin {"start", "ended"}
  BY DEF IInv, Stages, Building, Options
<1>2. TypeOK'
  BY <1>1 DEF TypeOK
<1>3. TestFiles'
  BY <1>1 DEF TestFiles, Building
<1>4. VerdictsOwn'
  BY <1>1 DEF VerdictsOwn
<1> QED
  BY <1>1, <1>2, <1>3, <1>4

\* A build that fails after the program was accepted.
LEMMA FailedBuild ==
  ASSUME stage' # "ended" \/ exit' # 0, died' # "load"
  PROVE  ExitTells'
BY DEF ExitTells

LEMMA LoadStep ==
  ASSUME IInv, Load
  PROVE  IInv'
<1>1. /\ stage = "load" /\ Options /\ UNCHANGED <<files, stdout, kept, lost>>
      /\ stage' \in {"open", "temp", "ended"}
      /\ stage' = "open" => opt.emit /\ died' = died
      /\ stage' = "temp" => ~opt.emit /\ died' = died
      /\ stage' = "ended" => exit' = 1 /\ died' = "load"
  BY DEF Load, Die, Exit
<1>2. /\ TypeOK' /\ TestFiles' /\ VerdictsOwn' /\ opt' = opt /\ ~opt.testing
      /\ ~kept /\ died = NULL
  BY <1>1, BuildStep DEF Building
<1>3. /\ files = [p \in Sources |-> Holds("source", p, TRUE)] /\ Temp \notin DOMAIN files
      /\ SourcesThere
  BY <1>1 DEF IInv, Untouched, TempKnown
<1>4. Stages' /\ Untouched' /\ TempKnown'
  BY <1>1, <1>2, <1>3, WordsAssumption DEF Stages, Untouched, TempKnown, Building, Testing
<1>5. SourcesThere'
  BY <1>1, <1>2, <1>3 DEF SourcesThere, SourcesKept
<1>6. ExitTells'
  BY <1>1, <1>3 DEF ExitTells
<1> QED
  BY <1>2, <1>4, <1>5, <1>6 DEF IInv

\* The file given with -o is written.
LEMMA WriteOutput ==
  ASSUME TypeOK, SourcesThere, Temp \notin DOMAIN files, opt.output # NULL, opt' = opt,
         NEW c, Write(opt.output, c)
  PROVE  SourcesThere' /\ Temp \notin DOMAIN files' /\ files'[opt.output] = c
<1>1. /\ DOMAIN files' = DOMAIN files \cup {opt.output} /\ files'[opt.output] = c
      /\ \A q \in DOMAIN files : q # opt.output => files'[q] = files[q]
  BY WriteFacts
<1>2. Sources \subseteq DOMAIN files
  BY DEF SourcesThere
<1>3. SourcesThere'
  BY <1>1, <1>2, SourcesSurvive
<1>4. opt.output # Temp
  BY PathFacts
<1> QED
  BY <1>1, <1>3, <1>4

LEMMA OpenOutputStep ==
  ASSUME IInv, OpenOutput
  PROVE  IInv'
<1>1. /\ stage = "open" /\ Options /\ UNCHANGED <<stdout, kept, lost>> /\ opt.emit
      /\ \/ stage' = "emit" /\ UNCHANGED <<exit, died>>
         \/ stage' = "ended" /\ exit' = 1 /\ died' = "open"
  BY DEF OpenOutput, Die, Exit, IInv, Stages
<1>2. /\ TypeOK' /\ TestFiles' /\ VerdictsOwn' /\ opt' = opt /\ ~opt.testing
      /\ ~kept /\ died = NULL
  BY <1>1, BuildStep DEF Building
<1>3. /\ Temp \notin DOMAIN files /\ SourcesThere /\ TypeOK
  BY <1>1 DEF IInv, TempKnown
<1>4. /\ Temp \notin DOMAIN files' /\ SourcesThere'
  <2>1. CASE files' = files
    BY <1>2, <1>3, <2>1 DEF SourcesThere, SourcesKept
  <2>2. CASE opt.output # NULL /\ Write(opt.output, Holds("c", opt.input, FALSE))
    BY <1>2, <1>3, <2>2, WriteOutput
  <2> QED
    BY <2>1, <2>2 DEF OpenOutput
<1>5. Stages' /\ Untouched'
  BY <1>1, <1>2, WordsAssumption DEF Stages, Untouched, Building, Testing
<1>6. TempKnown'
  BY <1>1, <1>2, <1>4, WordsAssumption DEF TempKnown
<1>7. ExitTells'
  BY <1>1, <1>2, WordsAssumption DEF ExitTells
<1> QED
  BY <1>2, <1>4, <1>5, <1>6, <1>7 DEF IInv

LEMMA EmitStep ==
  ASSUME IInv, Emit
  PROVE  IInv'
<1>1. PICK whole \in BOOLEAN, unreported \in BOOLEAN :
       /\ unreported => ~whole
       /\ lost' = unreported
       /\ IF opt.output # NULL
          THEN Write(opt.output, Holds("c", opt.input, whole)) /\ UNCHANGED stdout
          ELSE stdout' = Holds("c", opt.input, whole /\ ~opt.shows) /\ UNCHANGED files
       /\ \/ whole /\ Exit(0) /\ UNCHANGED died
          \/ unreported /\ Exit(0) /\ UNCHANGED died
          \/ ~whole /\ ~unreported /\ opt.output # NULL /\ Exit(1) /\ UNCHANGED died
          \/ ~whole /\ ~unreported /\ Die
  BY DEF Emit
<1>2. /\ stage = "emit" /\ Options /\ UNCHANGED kept /\ opt.emit /\ stage' = "ended"
      /\ died' \in {died, "emit"}
      /\ exit' = 0 => whole \/ unreported
  BY <1>1 DEF Emit, Die, Exit, IInv, Stages
<1>3. /\ TypeOK' /\ TestFiles' /\ VerdictsOwn' /\ opt' = opt /\ ~opt.testing
      /\ ~kept /\ died = NULL
  BY <1>2, BuildStep DEF Building
<1>4. /\ Temp \notin DOMAIN files /\ SourcesThere /\ TypeOK
  BY <1>2 DEF IInv, TempKnown
<1>5. /\ Temp \notin DOMAIN files' /\ SourcesThere'
  <2>1. CASE opt.output = NULL
    BY <1>1, <1>3, <1>4, <2>1 DEF SourcesThere, SourcesKept
  <2>2. CASE opt.output # NULL
    BY <1>1, <1>3, <1>4, <2>2, WriteOutput
  <2> QED
    BY <2>1, <2>2
<1>6. ExitTells'
  <2>1. whole => Emitted'
    BY <1>1, <1>3, WriteFacts DEF Emitted
  <2> QED
    BY <1>1, <1>2, <1>3, <2>1, WordsAssumption DEF ExitTells
<1>7. Stages' /\ Untouched' /\ TempKnown'
  BY <1>2, <1>3, <1>5, WordsAssumption DEF Stages, Untouched, TempKnown, Building, Testing
<1> QED
  BY <1>3, <1>5, <1>6, <1>7 DEF IInv

\* Something is written that is neither a source nor the target of -o.
LEMMA WriteElsewhere ==
  ASSUME SourcesThere, opt' = opt, NEW p, p \notin Sources, NEW c, Write(p, c)
  PROVE  /\ SourcesThere' /\ files'[p] = c
         /\ p # Temp => (Temp \in DOMAIN files' <=> Temp \in DOMAIN files)
         /\ p = Temp => Temp \in DOMAIN files'
<1>1. /\ DOMAIN files' = DOMAIN files \cup {p} /\ files'[p] = c
      /\ \A q \in DOMAIN files : q # p => files'[q] = files[q]
  BY WriteFacts
<1>2. Sources \subseteq DOMAIN files
  BY DEF SourcesThere
<1>3. SourcesThere'
  BY <1>1, <1>2, SourcesSurvive
<1> QED
  BY <1>1, <1>3

LEMMA MakeTempStep ==
  ASSUME IInv, MakeTemp
  PROVE  IInv'
<1>1. /\ stage = "temp" /\ Options /\ UNCHANGED <<stdout, kept, lost, died>> /\ ~opt.emit
      /\ \/ Write(Temp, Nothing) /\ stage' = "generate" /\ exit' = exit
         \/ stage' = "ended" /\ exit' = 1 /\ files' = files
  BY DEF MakeTemp, Exit, IInv, Stages
<1>2. /\ TypeOK' /\ TestFiles' /\ VerdictsOwn' /\ opt' = opt /\ ~opt.testing
      /\ ~kept /\ died = NULL
  BY <1>1, BuildStep DEF Building
<1>3. /\ Temp \notin DOMAIN files /\ SourcesThere /\ Temp \notin Sources
  BY <1>1, PathFacts DEF IInv, TempKnown
<1>4. SourcesThere' /\ (Temp \in DOMAIN files' <=> stage' = "generate")
  <2>1. CASE Write(Temp, Nothing) /\ stage' = "generate"
    BY <1>2, <1>3, <2>1, WriteElsewhere
  <2>2. CASE stage' = "ended" /\ files' = files
    BY <1>2, <1>3, <2>2 DEF SourcesThere, SourcesKept
  <2> QED
    BY <1>1, <2>1, <2>2
<1>5. Stages' /\ Untouched'
  BY <1>1, <1>2, WordsAssumption DEF Stages, Untouched, Building, Testing
<1>6. TempKnown'
  BY <1>1, <1>2, <1>4, WordsAssumption DEF TempKnown
<1>7. died' # "load" /\ (stage' = "ended" => exit' # 0)
  BY <1>1, <1>2, WordsAssumption
<1> QED
  BY <1>2, <1>4, <1>5, <1>6, <1>7, FailedBuild DEF IInv

LEMMA GenerateStep ==
  ASSUME IInv, Generate
  PROVE  IInv'
<1>1. /\ stage = "generate" /\ Options /\ UNCHANGED <<stdout, kept>> /\ ~opt.emit /\ TypeOK
  BY DEF Generate, IInv, Stages
<1>2. \/ /\ \E whole \in BOOLEAN : Write(Temp, Holds("c", opt.input, whole))
         /\ stage' = "backend" /\ UNCHANGED <<exit, died>>
      \/ Unlink(Temp) /\ stage' = "ended" /\ exit' = 1 /\ UNCHANGED <<lost, died>>
      \/ /\ \E whole \in BOOLEAN : Write(Temp, Holds("c", opt.input, whole))
         /\ stage' = "ended" /\ exit' = 1 /\ died' = "generate" /\ UNCHANGED lost
  BY <1>1 DEF Generate, Exit, Die
<1>3. /\ TypeOK' /\ TestFiles' /\ VerdictsOwn' /\ opt' = opt /\ ~opt.testing
      /\ ~kept /\ died = NULL
  BY <1>1, <1>2, BuildStep DEF Building
<1>4. /\ Temp \in DOMAIN files /\ SourcesThere /\ Temp \notin Sources
  BY <1>1, PathFacts DEF IInv, TempKnown
<1>5. /\ SourcesThere'
      /\ Temp \in DOMAIN files' <=> stage' = "backend" \/ died' = "generate"
      /\ stage' = "backend" => files'[Temp].from = opt.input
  <2>1. ASSUME NEW whole \in BOOLEAN, Write(Temp, Holds("c", opt.input, whole))
        PROVE  SourcesThere' /\ Temp \in DOMAIN files' /\ files'[Temp].from = opt.input
    <3>1. files'[Temp] = Holds("c", opt.input, whole) /\ SourcesThere' /\ Temp \in DOMAIN files'
      BY <1>3, <1>4, <2>1, WriteElsewhere
    <3> QED
      BY <3>1 DEF Holds
  <2>2. ASSUME Unlink(Temp)
        PROVE  SourcesThere' /\ Temp \notin DOMAIN files'
    <3>1. /\ DOMAIN files' = DOMAIN files \ {Temp}
          /\ \A q \in DOMAIN files : q # Temp => files'[q] = files[q]
      BY <2>2, UnlinkFacts
    <3>2. Sources \subseteq DOMAIN files
      BY <1>4 DEF SourcesThere
    <3> QED
      BY <1>3, <1>4, <3>1, <3>2, SourcesSurvive
  <2> QED
    BY <1>2, <1>3, <2>1, <2>2, WordsAssumption
<1>6. Stages' /\ Untouched'
  BY <1>1, <1>2, <1>3, WordsAssumption DEF Stages, Untouched, Building, Testing
<1>7. TempKnown'
  BY <1>1, <1>2, <1>3, <1>5, WordsAssumption DEF TempKnown
<1>8. died' # "load" /\ (stage' = "ended" => exit' # 0)
  BY <1>1, <1>2, <1>3, WordsAssumption
<1> QED
  BY <1>3, <1>5, <1>6, <1>7, <1>8, FailedBuild DEF IInv

LEMMA BackendStep ==
  ASSUME IInv, Backend
  PROVE  IInv'
<1>1. /\ stage = "backend" /\ Options /\ UNCHANGED <<stdout, lost, died>> /\ ~opt.emit /\ TypeOK
      /\ stage' = "ended"
  BY DEF Backend, Exit, IInv, Stages
<1>2. /\ TypeOK' /\ TestFiles' /\ VerdictsOwn' /\ opt' = opt /\ ~opt.testing
      /\ ~kept /\ died = NULL
  BY <1>1, BuildStep DEF Building
<1>3. /\ Temp \in DOMAIN files /\ SourcesThere /\ files[Temp].from = opt.input
  BY <1>1 DEF IInv, TempKnown
<1>4. Stages' /\ Untouched'
  BY <1>1, <1>2, WordsAssumption DEF Stages, Untouched, Building, Testing
<1>5. CASE /\ files' = [q \in (DOMAIN files \cup {BinaryPath}) \ {Temp} |->
                          IF q = BinaryPath THEN Holds("binary", files[Temp].from, TRUE) ELSE files[q]]
           /\ exit' = 0 /\ kept' = kept
  <2>1. /\ Temp \notin Sources /\ BinaryPath # Temp
        /\ BinaryPath \in Sources =>
             BinaryPath = opt.output \/ (BinaryPath[1] = "" /\ BinaryPath[3] # ".p4")
    BY <1>1, PathFacts
  <2>2. /\ DOMAIN files' = (DOMAIN files \cup {BinaryPath}) \ {Temp}
        /\ files'[BinaryPath] = Holds("binary", opt.input, TRUE)
        /\ \A q \in DOMAIN files : q # Temp /\ q # BinaryPath => files'[q] = files[q]
    BY <1>3, <1>5, <2>1
  <2>3. SourcesThere'
    <3>1. Sources \subseteq DOMAIN files
      BY <1>3 DEF SourcesThere
    <3>2. \A q \in Sources : \/ files'[q] = files[q]
                             \/ q = opt.output
                             \/ (q[1] = "" /\ q[3] # ".p4")
      BY <2>1, <2>2, <3>1
    <3> QED
      BY <1>2, <1>3, <2>1, <2>2, <3>1, <3>2, SourcesSurvive
  <2>4. BinaryPath' = BinaryPath
    BY <1>2 DEF BinaryPath
  <2>5. TempKnown'
    BY <1>1, <1>2, <1>5, <2>2, WordsAssumption DEF TempKnown
  <2>6. ExitTells'
    BY <1>1, <1>2, <2>2, <2>4, WordsAssumption DEF ExitTells
  <2> QED
    BY <1>2, <1>4, <2>3, <2>5, <2>6 DEF IInv
<1>6. CASE exit' \in {1, 127} /\ kept' = TRUE /\ files' = files
  <2>1. SourcesThere'
    BY <1>2, <1>3, <1>6 DEF SourcesThere, SourcesKept
  <2>2. TempKnown'
    BY <1>1, <1>2, <1>3, <1>6 DEF TempKnown
  <2>3. died' # "load" /\ exit' # 0
    BY <1>1, <1>2, <1>6, WordsAssumption
  <2> QED
    BY <1>2, <1>4, <2>1, <2>2, <2>3, FailedBuild DEF IInv
<1> QED
  BY <1>5, <1>6 DEF Backend, Exit

-----------------------------------------------------------------------------
(***************************************************************************)
(* The tests of a directory.                                               *)
(***************************************************************************)

\* The verdicts so far, and one more.
LEMMA VerdictFacts ==
  ASSUME TypeOK, NEW passed \in BOOLEAN, NEW ran, Verdict(passed, ran)
  PROVE  /\ done' \in Seq({done'[k] : k \in DOMAIN done'})
         /\ Len(done) \in Nat /\ DOMAIN done' = 1 .. Len(done) + 1 /\ DOMAIN done = 1 .. Len(done)
         /\ \A k \in 1 .. Len(done) : done'[k] = done[k]
         /\ (done'[Len(done) + 1].passed <=> passed) /\ done'[Len(done) + 1].ran = ran
<1> DEFINE e == [passed |-> passed, ran |-> ran]
           S == {done[k] : k \in DOMAIN done} \cup {e}
           T == {done'[k] : k \in DOMAIN done'}
<1>1. done' = Append(done, e)
  BY DEF Verdict
<1>2. done \in Seq({done[k] : k \in DOMAIN done})
  BY DEF TypeOK
<1> HIDE DEF e
<1>3. done \in Seq(S) /\ e \in S
  BY <1>2
<1> HIDE DEF S
<1>4. /\ done' \in Seq(S) /\ Len(done) \in Nat /\ Len(done') = Len(done) + 1
      /\ DOMAIN done = 1 .. Len(done) /\ DOMAIN done' = 1 .. Len(done) + 1
      /\ \A k \in 1 .. Len(done) : done'[k] = done[k]
      /\ done'[Len(done) + 1] = e
  BY <1>1, <1>3
<1>5. done' \in Seq(T)
  BY <1>4
<1>6. (e.passed <=> passed) /\ e.ran = ran
  BY DEF e
<1> QED
  BY <1>4, <1>5, <1>6

\* A test that failed: no verdict changes.
LEMMA FailNoted ==
  ASSUME TypeOK, VerdictsOwn, tests' = tests, Verdict(FALSE, Nothing)
  PROVE  VerdictsOwn' /\ done' \in Seq({done'[k] : k \in DOMAIN done'})
<1>1. /\ done' \in Seq({done'[k] : k \in DOMAIN done'})
      /\ Len(done) \in Nat /\ DOMAIN done' = 1 .. Len(done) + 1 /\ DOMAIN done = 1 .. Len(done)
      /\ \A k \in 1 .. Len(done) : done'[k] = done[k]
      /\ ~done'[Len(done) + 1].passed
  BY VerdictFacts
<1>2. ASSUME NEW k \in DOMAIN done', done'[k].passed
      PROVE  done'[k].ran = Holds("binary", tests[k], TRUE)
  <2>1. k # Len(done) + 1
    BY <1>1, <1>2
  <2>2. k \in DOMAIN done /\ done'[k] = done[k]
    BY <1>1, <2>1
  <2>3. done[k].passed
    BY <1>2, <2>2
  <2> QED
    BY <2>2, <2>3 DEF VerdictsOwn
<1>3. stage' = "transpile"
  BY DEF Verdict
<1> QED
  BY <1>1, <1>2, <1>3 DEF VerdictsOwn

\* Steps of the runner: no option is read, no build is under way.
LEMMA RunnerFacts ==
  ASSUME IInv, Rest, argv' = argv, stage \in Testing
  PROVE  /\ opt' = opt /\ opt.testing /\ opt.output = NULL /\ ~kept /\ died = NULL
         /\ kept' = kept /\ died' = died /\ TypeOK /\ SourcesThere /\ Temp \notin DOMAIN files
         /\ VerdictsOwn /\ TestFiles
BY DEF IInv, Rest, Stages, TempKnown, Testing

LEMMA RunnerStep ==
  ASSUME IInv, Rest, argv' = argv, stage \in Testing, stage' \in {"transpile", "compile", "run", "ended"},
         done' \in Seq({done'[k] : k \in DOMAIN done'}), SourcesThere', Temp \notin DOMAIN files',
         TestFiles', VerdictsOwn'
  PROVE  IInv'
<1>1. /\ opt' = opt /\ opt.testing /\ opt.output = NULL /\ ~kept /\ died = NULL
      /\ kept' = kept /\ died' = died /\ TypeOK
  BY RunnerFacts
<1>2. TypeOK'
  BY <1>1 DEF TypeOK, Testing
<1>3. Stages' /\ Untouched'
  BY <1>1, WordsAssumption DEF Stages, Untouched, Building, Testing
<1>4. TempKnown'
  BY <1>1, WordsAssumption DEF TempKnown
<1>5. ExitTells'
  BY <1>1 DEF ExitTells
<1> QED
  BY <1>2, <1>3, <1>4, <1>5 DEF IInv

LEMMA CollectStep ==
  ASSUME IInv, Collect
  PROVE  IInv'
<1>1. /\ stage = "collect" /\ Rest /\ UNCHANGED <<argv, files, done, lost>> /\ stage \in Testing
      /\ stage' = "transpile" \/ (stage' = "ended" /\ exit' = 1)
  BY DEF Collect, Exit, Testing
<1>2. /\ opt' = opt /\ SourcesThere /\ Temp \notin DOMAIN files /\ TypeOK /\ TestFiles
  BY <1>1, RunnerFacts
<1>3. done = << >>
  BY <1>1, <1>2 DEF TestFiles
<1>4. done' \in Seq({done'[k] : k \in DOMAIN done'})
  BY <1>1, <1>2 DEF TypeOK
<1>5. TestFiles'
  BY <1>1 DEF TestFiles
<1>6. VerdictsOwn'
  <2>1. DOMAIN done' = {}
    BY <1>1, <1>3
  <2> QED
    BY <1>1, <2>1 DEF VerdictsOwn
<1>7. SourcesThere'
  BY <1>1, <1>2 DEF SourcesThere, SourcesKept
<1> QED
  BY <1>1, <1>2, <1>4, <1>5, <1>6, <1>7, RunnerStep

LEMMA TranspileStep ==
  ASSUME IInv, Transpile
  PROVE  IInv'
<1>1. /\ stage = "transpile" /\ Rest /\ UNCHANGED <<argv, exit, tests>> /\ stage \in Testing
  BY DEF Transpile, Testing
<1>2. /\ opt' = opt /\ SourcesThere /\ Temp \notin DOMAIN files /\ TypeOK /\ TestFiles /\ VerdictsOwn
  BY <1>1, RunnerFacts
<1> DEFINE c == InTests(Test, ".c")
<1>3. c \notin Sources /\ c # Temp
  BY TestPaths
<1>4. ASSUME NEW whole \in BOOLEAN, Write(c, Holds("c", Test, whole))
      PROVE  SourcesThere' /\ Temp \notin DOMAIN files' /\ files'[c].from = Test
  <2>1. SourcesThere' /\ Temp \notin DOMAIN files' /\ files'[c] = Holds("c", Test, whole)
    BY <1>2, <1>3, <1>4, WriteElsewhere
  <2> QED
    BY <2>1 DEF Holds
<1>5. CASE stage' = "compile" /\ done' = done /\ \E whole \in BOOLEAN : Write(c, Holds("c", Test, whole))
  <2>1. SourcesThere' /\ Temp \notin DOMAIN files' /\ files'[c].from = Test
    BY <1>4, <1>5
  <2>2. Test' = Test /\ c' = c
    BY <1>1, <1>5 DEF Test, InTests
  <2>3. TestFiles' /\ VerdictsOwn'
    BY <1>1, <1>2, <1>5, <2>1, <2>2 DEF TestFiles, VerdictsOwn
  <2>4. done' \in Seq({done'[k] : k \in DOMAIN done'})
    BY <1>2, <1>5 DEF TypeOK
  <2> QED
    BY <1>1, <1>5, <2>1, <2>3, <2>4, RunnerStep
<1>6. CASE Fails /\ Write(c, Holds("c", Test, FALSE))
  <2>1. SourcesThere' /\ Temp \notin DOMAIN files'
    BY <1>4, <1>6
  <2>2. stage' = "transpile" /\ Verdict(FALSE, Nothing)
    BY <1>6 DEF Fails, Verdict
  <2>3. TestFiles'
    BY <2>2 DEF TestFiles
  <2>4. VerdictsOwn' /\ done' \in Seq({done'[k] : k \in DOMAIN done'})
    BY <1>1, <1>2, <2>2, FailNoted
  <2> QED
    BY <1>1, <2>1, <2>2, <2>3, <2>4, RunnerStep
<1> QED
  BY <1>5, <1>6 DEF Transpile

LEMMA CompileStep ==
  ASSUME IInv, Compile
  PROVE  IInv'
<1>1. /\ stage = "compile" /\ Rest /\ UNCHANGED <<argv, exit, tests, lost>> /\ stage \in Testing
  BY DEF Compile, Testing
<1>2. /\ opt' = opt /\ SourcesThere /\ Temp \notin DOMAIN files /\ TypeOK /\ TestFiles /\ VerdictsOwn
  BY <1>1, RunnerFacts
<1> DEFINE b == InTests(Test, ".bin")
<1>3. CASE Builds
  <2>1. /\ Write(b, Holds("binary", Test, TRUE)) /\ stage' = "run" /\ done' = done
    BY <1>1, <1>2, <1>3 DEF Builds, TestFiles
  <2>2. b \notin Sources /\ b # Temp
    BY TestPaths
  <2>3. SourcesThere' /\ Temp \notin DOMAIN files' /\ files'[b] = Holds("binary", Test, TRUE)
    BY <1>2, <2>1, <2>2, WriteElsewhere
  <2>4. Test' = Test /\ b' = b
    BY <1>1, <2>1 DEF Test, InTests
  <2>5. TestFiles' /\ VerdictsOwn'
    BY <1>1, <1>2, <2>1, <2>3, <2>4 DEF TestFiles, VerdictsOwn
  <2>6. done' \in Seq({done'[k] : k \in DOMAIN done'})
    BY <1>2, <2>1 DEF TypeOK
  <2> QED
    BY <1>1, <2>1, <2>3, <2>5, <2>6, RunnerStep
<1>4. CASE Fails /\ UNCHANGED files
  <2>1. SourcesThere' /\ Temp \notin DOMAIN files'
    BY <1>2, <1>4 DEF SourcesThere, SourcesKept
  <2>2. stage' = "transpile" /\ Verdict(FALSE, Nothing)
    BY <1>4 DEF Fails, Verdict
  <2>3. TestFiles'
    BY <2>2 DEF TestFiles
  <2>4. VerdictsOwn' /\ done' \in Seq({done'[k] : k \in DOMAIN done'})
    BY <1>1, <1>2, <2>2, FailNoted
  <2> QED
    BY <1>1, <2>1, <2>2, <2>3, <2>4, RunnerStep
<1> QED
  BY <1>3, <1>4 DEF Compile

LEMMA RunTestStep ==
  ASSUME IInv, RunTest
  PROVE  IInv'
<1>1. /\ stage = "run" /\ Rest /\ UNCHANGED <<argv, files, exit, tests, lost>> /\ stage \in Testing
  BY DEF RunTest, Testing
<1>2. /\ opt' = opt /\ SourcesThere /\ Temp \notin DOMAIN files /\ TypeOK /\ TestFiles /\ VerdictsOwn
  BY <1>1, RunnerFacts
<1>3. PICK passed \in BOOLEAN : Verdict(passed, Holds("binary", Test, TRUE))
  BY <1>1, <1>2 DEF RunTest, TestFiles
<1>4. stage' = "transpile"
  BY <1>3 DEF Verdict
<1>5. /\ done' \in Seq({done'[k] : k \in DOMAIN done'})
      /\ Len(done) \in Nat /\ DOMAIN done' = 1 .. Len(done) + 1 /\ DOMAIN done = 1 .. Len(done)
      /\ \A k \in 1 .. Len(done) : done'[k] = done[k]
      /\ done'[Len(done) + 1].ran = Holds("binary", Test, TRUE)
  BY <1>2, <1>3, VerdictFacts
<1>6. VerdictsOwn'
  <2>1. ASSUME NEW k \in DOMAIN done', done'[k].passed
        PROVE  done'[k].ran = Holds("binary", tests[k], TRUE)
    <3>1. CASE k = Len(done) + 1
      BY <1>5, <3>1 DEF Test
    <3>2. CASE k # Len(done) + 1
      <4>1. k \in DOMAIN done /\ done'[k] = done[k]
        BY <1>5, <3>2
      <4>2. done[k].passed
        BY <2>1, <4>1
      <4> QED
        BY <1>2, <4>1, <4>2 DEF VerdictsOwn
    <3> QED
      BY <3>1, <3>2
  <2> QED
    BY <1>1, <1>4, <2>1 DEF VerdictsOwn
<1>7. TestFiles'
  BY <1>4 DEF TestFiles
<1>8. SourcesThere'
  BY <1>1, <1>2 DEF SourcesThere, SourcesKept
<1> QED
  BY <1>1, <1>2, <1>4, <1>5, <1>6, <1>7, <1>8, RunnerStep

LEMMA EndTestsStep ==
  ASSUME IInv, EndTests
  PROVE  IInv'
<1>1. /\ stage = "transpile" /\ Rest /\ UNCHANGED <<argv, files, tests, done, lost>> /\ stage \in Testing
      /\ stage' = "ended" /\ Len(done) = Len(tests)
      /\ exit' = IF \A k \in DOMAIN done : done[k].passed THEN 0 ELSE 1
  BY DEF EndTests, Exit, Testing
<1>2. /\ opt' = opt /\ SourcesThere /\ Temp \notin DOMAIN files /\ TypeOK /\ TestFiles /\ VerdictsOwn
  BY <1>1, RunnerFacts
<1>3. VerdictsOwn'
  <2>1. exit' = 0 => \A k \in DOMAIN done' : done'[k].passed
    BY <1>1
  <2>2. \A k \in DOMAIN done' : done'[k].passed => done'[k].ran = Holds("binary", tests'[k], TRUE)
    BY <1>1, <1>2 DEF VerdictsOwn
  <2> QED
    BY <1>1, <2>1, <2>2 DEF VerdictsOwn
<1>4. TestFiles'
  BY <1>1 DEF TestFiles
<1>5. SourcesThere'
  BY <1>1, <1>2 DEF SourcesThere, SourcesKept
<1>6. done' \in Seq({done'[k] : k \in DOMAIN done'})
  BY <1>1, <1>2 DEF TypeOK
<1> QED
  BY <1>1, <1>2, <1>3, <1>4, <1>5, <1>6, RunnerStep

-----------------------------------------------------------------------------
(***************************************************************************)
(* The invariant.                                                          *)
(***************************************************************************)
LEMMA InitIInv ==
  ASSUME Init
  PROVE  IInv
<1>1. TypeOK
  <2>1. argv \in Seq(DOMAIN PathOf) /\ PathOf["default"] \in Paths
    BY WordsAssumption DEF Init, Paths
  <2>2. opt \in OptionsType
    BY <2>1 DEF Init, OptionsType
  <2>3. done \in Seq({done[k] : k \in DOMAIN done})
    BY DEF Init
  <2> QED
    BY <2>1, <2>2, <2>3 DEF Init, TypeOK, OptionsType
<1>2. Stages /\ Untouched
  BY DEF Init, Stages, Untouched, Building, Testing
<1>3. TempKnown /\ SourcesThere
  BY TempAssumption DEF Init, TempKnown, SourcesThere, SourcesKept
<1>4. TestFiles /\ ExitTells /\ VerdictsOwn
  BY DEF Init, TestFiles, ExitTells, VerdictsOwn, WordsAssumption
<1> QED
  BY <1>1, <1>2, <1>3, <1>4 DEF IInv

LEMMA StutterIInv ==
  ASSUME IInv, UNCHANGED vars
  PROVE  IInv'
<1>1. UNCHANGED <<stage, argv, opt, files, stdout, kept, exit, tests, done, lost, died>>
  BY DEF vars
<1>2. TypeOK' /\ Stages' /\ Untouched' /\ TempKnown'
  <2>1. TypeOK'
    BY <1>1 DEF IInv, TypeOK
  <2>2. Stages'
    BY <1>1 DEF IInv, Stages
  <2>3. Untouched'
    BY <1>1 DEF IInv, Untouched
  <2>4. TempKnown'
    BY <1>1 DEF IInv, TempKnown
  <2> QED
    BY <2>1, <2>2, <2>3, <2>4
<1>3. SourcesThere'
  BY <1>1 DEF IInv, SourcesThere, SourcesKept
<1>4. TestFiles'
  BY <1>1 DEF IInv, TestFiles, Test, InTests
<1>5. ExitTells'
  BY <1>1 DEF IInv, ExitTells, Emitted, BinaryPath
<1>6. VerdictsOwn'
  BY <1>1 DEF IInv, VerdictsOwn
<1> QED
  BY <1>2, <1>3, <1>4, <1>5, <1>6 DEF IInv

(***************************************************************************)
(* IInv is an invariant of the driver, for any command lines and files.    *)
(***************************************************************************)
THEOREM Inductive == Spec => []IInv
<1>1. Init => IInv
  BY InitIInv
<1>2. IInv /\ [Next]_vars => IInv'
  <2> SUFFICES ASSUME IInv, [Next]_vars
               PROVE  IInv'
    OBVIOUS
  <2>1. CASE Start \/ ReadOption \/ RefuseOptions \/ AcceptOptions
    BY <2>1, StartStep, ReadOptionStep, RefuseOptionsStep, AcceptOptionsStep
  <2>2. CASE Load \/ OpenOutput \/ Emit
    BY <2>2, LoadStep, OpenOutputStep, EmitStep
  <2>3. CASE MakeTemp \/ Generate \/ Backend
    BY <2>3, MakeTempStep, GenerateStep, BackendStep
  <2>4. CASE Collect \/ Transpile \/ Compile \/ RunTest \/ EndTests
    BY <2>4, CollectStep, TranspileStep, CompileStep, RunTestStep, EndTestsStep
  <2>5. CASE UNCHANGED vars
    BY <2>5, StutterIInv
  <2> QED
    BY <2>1, <2>2, <2>3, <2>4, <2>5 DEF Next
<1> QED
  BY <1>1, <1>2, PTL DEF Spec

(***************************************************************************)
(* The generated C stays behind exactly when the driver says so, or when   *)
(* the generator gave up over it.                                          *)
(***************************************************************************)
THEOREM TemporaryFile == Spec => []NoStray
<1>1. IInv => NoStray
  BY DEF IInv, TempKnown, NoStray
<1> QED
  BY <1>1, Inductive, PTL

(***************************************************************************)
(* Exit code 0 means that the requested file holds this input's program,   *)
(* unless a write was lost unreported; a refused program changes no file.  *)
(***************************************************************************)
THEOREM ExitCode == Spec => []ExitTells
<1>1. IInv => ExitTells
  BY DEF IInv
<1> QED
  BY <1>1, Inductive, PTL

(***************************************************************************)
(* A source file is only overwritten through -o, or for want of .p4.       *)
(***************************************************************************)
THEOREM SourcesSafe == Spec => []SourcesKept
<1>1. IInv => SourcesKept
  BY DEF IInv, SourcesThere
<1> QED
  BY <1>1, Inductive, PTL

(***************************************************************************)
(* A test that passes ran the program made from its own file.              *)
(***************************************************************************)
THEOREM Verdicts == Spec => []VerdictsOwn
<1>1. IInv => VerdictsOwn
  BY DEF IInv
<1> QED
  BY <1>1, Inductive, PTL
=============================================================================
