---------------------------- MODULE SuiteProofs ----------------------------
(***************************************************************************)
(* The user's selection is respected, for every command line, every number *)
(* of modules and tests and every word size.                               *)
(***************************************************************************)
EXTENDS Suite, SequenceTheorems, FiniteSetTheorems, TLAPS

USE SMTT(15), ZenonT(60)

(* uint32_t subtraction, case by case.                                      *)
LEMMA SubCases ==
    ASSUME NEW x \in 0 .. WordSize - 1, NEW y \in 0 .. WordSize - 1
    PROVE  /\ y =< x => Sub(x, y) = x - y
           /\ x < y => Sub(x, y) = x - y + WordSize
  <1> DEFINE d == x - y
             q == d \div WordSize
             r == d % WordSize
  <1>1. WordSize \in Nat /\ WordSize > 0 /\ d \in Int /\ -WordSize < d /\ d < WordSize
    BY SuiteAssumption
  <1>2. q \in Int /\ r \in Int /\ 0 =< r /\ r < WordSize /\ d = WordSize * q + r
    BY <1>1
  <1> HIDE DEF d, q, r
  <1>3. q < 1
    <2>1. q >= 1 => WordSize * q >= WordSize
      BY <1>1, <1>2
    <2>2. QED
      BY <1>1, <1>2, <2>1
  <1>4. q > -2
    <2>1. q =< -2 => WordSize * q =< WordSize * (-2)
      BY <1>1, <1>2
    <2>2. QED
      BY <1>1, <1>2, <2>1
  <1>5. q = 0 \/ q = -1
    BY <1>2, <1>3, <1>4
  <1>6. (q = 0 => r = d) /\ (q = -1 => r = d + WordSize)
    BY <1>1, <1>2
  <1>7. (0 =< d => r = d) /\ (d < 0 => r = d + WordSize)
    BY <1>1, <1>2, <1>5, <1>6
  <1>8. QED
    BY <1>7, <1>1 DEF Sub, d, r

(* What the assumption says of one module.                                  *)
LEMMA ModuleFacts ==
    /\ Len(Modules) \in Nat
    /\ \A x \in ModuleNums :
          /\ Modules[x].tests \in Seq(Nat) /\ Modules[x].pcie \in BOOLEAN
          /\ Modules[x].base \in Nat /\ Modules[x].base + 100 =< WordSize
          /\ TestsOf(x) \subseteq Nat
          /\ \A n \in TestsOf(x) : Modules[x].base < n /\ n < Modules[x].base + 100
    /\ WordSize \in Nat
  <1>1. Modules \in Seq([base : Nat, tests : Seq(Nat), pcie : BOOLEAN])
    BY SuiteAssumption
  <1>2. Len(Modules) \in Nat
    BY <1>1
  <1>3. \A x \in ModuleNums : Modules[x] \in [base : Nat, tests : Seq(Nat), pcie : BOOLEAN]
    BY <1>1, <1>2, ElementOfSeq, ZenonT(60) DEF ModuleNums
  <1>4. \A x \in ModuleNums : TestsOf(x) \subseteq Nat
    BY <1>3, ElementOfSeq DEF TestsOf, Range
  <1>5. QED
    BY <1>2, <1>3, <1>4, SuiteAssumption, ZenonT(60)

LEMMA Lengths ==
    /\ Len(Modules) \in Nat /\ ModuleNums = 1 .. Len(Modules)
    /\ \A x \in ModuleNums : Len(Modules[x].tests) \in Nat
  <1>1. \A x \in ModuleNums : Modules[x].tests \in Seq(Nat)
    BY ModuleFacts
  <1>2. QED
    BY <1>1, ModuleFacts DEF ModuleNums

LEMMA BasesApart ==
    ASSUME NEW x \in ModuleNums, NEW y \in ModuleNums
    PROVE  /\ Modules[x].base < Modules[y].base => Modules[x].base + 100 =< Modules[y].base
           /\ Modules[x].base = Modules[y].base => x = y
  BY SuiteAssumption, ZenonT(60)

(* No two modules have a test in common.                                    *)
LEMMA TestsDisjoint ==
    ASSUME NEW x \in ModuleNums, NEW y \in ModuleNums, NEW n \in TestsOf(x), n \in TestsOf(y)
    PROVE  x = y
  <1> DEFINE b == Modules[x].base
             c == Modules[y].base
  <1>1. /\ b \in Nat /\ b < n /\ n < b + 100 /\ c \in Nat /\ c < n /\ n < c + 100
        /\ n \in Nat
    BY ModuleFacts, ZenonT(60)
  <1>2. (b < c => b + 100 =< c) /\ (c < b => c + 100 =< b) /\ (b = c => x = y)
    BY BasesApart, ZenonT(60)
  <1> HIDE DEF b, c
  <1>3. QED
    BY <1>1, <1>2

LEMMA TestInModule ==
    ASSUME NEW x \in ModuleNums, NEW u \in 1 .. Len(Modules[x].tests)
    PROVE  Modules[x].tests[u] \in TestsOf(x) /\ Modules[x].tests[u] \in AllTests
  <1>1. Modules[x].tests[u] \in TestsOf(x)
    BY ModuleFacts DEF TestsOf, Range
  <1>2. QED
    BY <1>1 DEF AllTests

LEMMA IndexOfTest ==
    ASSUME NEW x \in ModuleNums, NEW n \in TestsOf(x)
    PROVE  \E u \in 1 .. Len(Modules[x].tests) : n = Modules[x].tests[u]
  <1>1. Modules[x].tests \in Seq(Nat)
    BY ModuleFacts
  <1>2. DOMAIN Modules[x].tests = 1 .. Len(Modules[x].tests)
    BY <1>1
  <1>3. QED
    BY <1>2 DEF TestsOf, Range

(* The two checks the code makes for a test agree with the help text.       *)
LEMMA Selection ==
    ASSUME opts \in [{"skip", "t", "m"} -> SUBSET (0 .. WordSize - 1)], ModulesNamed,
           NEW x \in ModuleNums, NEW n \in TestsOf(x)
    PROVE  /\ ChosenTest(opts, n) /\ Modules[x].base \notin opts.skip <=> Asked(x, n)
           /\ Asked(x, n) => val_check_skip_module(opts, Modules[x].base)
  <1> DEFINE b == Modules[x].base
  <1>1. /\ b \in Nat /\ b + 100 =< WordSize /\ n \in Nat /\ b < n /\ n < b + 100
        /\ WordSize \in Nat
    BY ModuleFacts, ZenonT(60)
  <1>2. b \in 0 .. WordSize - 1 /\ n \in 0 .. WordSize - 1
    BY <1>1
  <1>3. Sub(n, b) = n - b
    BY <1>1, <1>2, SubCases
  <1>4. ASSUME NEW c \in opts.m, Sub(n, c) > 0, Sub(n, c) < 100
        PROVE  c = b
    <2>1. PICK y \in ModuleNums : c = Modules[y].base
      BY <1>4 DEF ModulesNamed, Bases
    <2>2. c \in Nat /\ c + 100 =< WordSize /\ c \in 0 .. WordSize - 1
      BY <2>1, ModuleFacts, ZenonT(60)
    <2>3. c =< n
      BY <1>1, <1>2, <1>4, <2>2, SubCases
    <2>4. n - c < 100
      BY <1>2, <1>4, <2>2, <2>3, SubCases, ZenonT(60)
    <2>5. ~(b < c) /\ ~(c < b)
      <3>1. (b < c => b + 100 =< c) /\ (c < b => c + 100 =< b)
        BY <2>1, BasesApart, ZenonT(60)
      <3> HIDE DEF b
      <3>2. QED
        BY <1>1, <2>2, <2>3, <2>4, <3>1
    <2>6. QED
      BY <1>1, <2>2, <2>5
  <1>5. (\E c \in opts.m : Sub(n, c) > 0 /\ Sub(n, c) < 100) <=> b \in opts.m
    BY <1>1, <1>3, <1>4
  <1>6. n \in opts.t => \E v \in opts.t : Sub(v, b) < 100
    BY <1>1, <1>3
  <1>7. QED
    BY <1>5, <1>6, ZenonT(60) DEF ChosenTest, Asked, val_check_skip_module

-----------------------------------------------------------------------------
(* What the options are when they have been parsed: sets of words.          *)
LEMMA ParsedType ==
    ASSUME NEW line \in Arguments, NEW option \in {"skip", "t", "m"}
    PROVE  Parsed(line[option]) \subseteq 0 .. WordSize - 1
  <1> SUFFICES ASSUME NEW u \in DOMAIN line[option]
               PROVE  StrDecimalToUintn(line[option][u]) \in 0 .. WordSize - 1
    BY DEF Parsed, Range
  <1>1. line[option] \in Seq((0 .. WordSize - 1) \cup {Junk})
    BY SuiteAssumption, ZenonT(60)
  <1>2. line[option][u] \in (0 .. WordSize - 1) \cup {Junk}
    BY <1>1, ElementOfSeq
  <1>3. WordSize \in Nat /\ WordSize > 0
    BY SuiteAssumption
  <1>4. QED
    BY <1>2, <1>3 DEF StrDecimalToUintn

LEMMA RangeAppend ==
    ASSUME NEW S, NEW s \in Seq(S), NEW e \in S
    PROVE  Range(Append(s, e)) = Range(s) \cup {e}
  <1>1. /\ DOMAIN Append(s, e) = 1 .. Len(s) + 1 /\ DOMAIN s = 1 .. Len(s) /\ Len(s) \in Nat
        /\ \A u \in 1 .. Len(s) : Append(s, e)[u] = s[u]
        /\ Append(s, e)[Len(s) + 1] = e
    BY AppendProperties
  <1>2. QED
    BY <1>1 DEF Range

(* The type invariant in parts: what one part needs does not burden the     *)
(* proof of another.                                                        *)
PlaceInv ==
    /\ pc \in {"args", "tables", "module", "init", "payload", "check", "print", "exit"}
    /\ m \in 1 .. Len(Modules) + 1 /\ t \in Nat \ {0}
    /\ pc \in {"init", "payload", "check"} => m \in ModuleNums
    /\ pc \in {"payload", "check"} => t \in 1 .. Len(Modules[m].tests)

OptsInv ==
    /\ args \in Arguments
    /\ opts \in [{"skip", "t", "m"} -> SUBSET (0 .. WordSize - 1)]

CountInv ==
    /\ pcie \in BOOLEAN /\ override \in {0, 1}
    /\ total \in Nat /\ pass \in Nat /\ fail \in Nat
    /\ slot \in Outcomes \cup {"PENDING", "UNSET"}
    /\ banner \in [ModuleNums -> {"none", "all passed", "some failed"}]

HistInv == started \in Seq(AllTests)

TypeInv == PlaceInv /\ OptsInv /\ CountInv /\ HistInv

LEMMA TypeParts == TypeInv => TypeOK
  BY ZenonT(60) DEF TypeInv, PlaceInv, OptsInv, CountInv, HistInv, TypeOK

LEMMA TypeInit == Init => TypeInv
  <1> SUFFICES ASSUME Init PROVE TypeInv
    OBVIOUS
  <1>1. PlaceInv
    BY Lengths DEF Init, PlaceInv
  <1>2. OptsInv
    BY DEF Init, OptsInv
  <1>3. CountInv
    BY ZenonT(60) DEF Init, CountInv, Outcomes
  <1>4. HistInv
    BY DEF Init, HistInv
  <1>5. QED
    BY <1>1, <1>2, <1>3, <1>4, ZenonT(60) DEF TypeInv

LEMMA PlaceStep == PlaceInv /\ [Next]_vars => PlaceInv'
  <1> SUFFICES ASSUME PlaceInv, [Next]_vars PROVE PlaceInv'
    OBVIOUS
  <1> USE Lengths DEF PlaceInv
  <1>1. CASE ParseArguments \/ CreateInfoTables \/ PrintTestStatus \/ ModulesDone
    BY <1>1, ZenonT(60) DEF ParseArguments, CreateInfoTables, PrintTestStatus, ModulesDone
  <1>2. CASE SkipModule
    BY <1>2 DEF SkipModule
  <1>3. CASE StartModule
    BY <1>3 DEF StartModule
  <1>4. CASE EndModule
    <2>1. pc' = "module" /\ m' = m + 1 /\ t' = t /\ pc = "init"
      BY <1>4, ZenonT(60) DEF EndModule
    <2>2. QED
      BY <2>1
  <1>5. CASE val_initialize_test
    <2>1. m \in ModuleNums /\ t \in 1 .. Len(Modules[m].tests) /\ m' = m /\ t' = t
      BY <1>5 DEF val_initialize_test
    <2>2. pc' \in {"payload", "check"}
      BY <1>5, ZenonT(60) DEF val_initialize_test
    <2>3. QED
      BY <2>1, <2>2, ZenonT(60)
  <1>6. CASE val_run_test_payload
    <2>1. pc' \in {"check", "print"} /\ UNCHANGED <<m, t>> /\ pc = "payload"
      BY <1>6 DEF val_run_test_payload
    <2>2. QED
      BY <2>1
  <1>7. CASE val_check_for_error
    <2>1. pc' = "init" /\ m' = m /\ t' = t + 1 /\ pc = "check"
      BY <1>7 DEF val_check_for_error
    <2>2. QED
      BY <2>1
  <1>8. CASE Exited \/ UNCHANGED vars
    BY <1>8, ZenonT(60) DEF Exited, vars
  <1>9. QED
    BY <1>1, <1>2, <1>3, <1>4, <1>5, <1>6, <1>7, <1>8, ZenonT(60) DEF Next, Step

LEMMA OptsStep == OptsInv /\ [Next]_vars => OptsInv'
  <1> SUFFICES ASSUME OptsInv, [Next]_vars PROVE OptsInv'
    OBVIOUS
  <1>1. CASE UNCHANGED <<args, opts>>
    BY <1>1 DEF OptsInv
  <1>2. CASE /\ args' = args
             /\ opts' = [skip |-> Parsed(args.skip), t |-> Parsed(args.t), m |-> Parsed(args.m)]
    <2>1. /\ Parsed(args.skip) \subseteq 0 .. WordSize - 1
          /\ Parsed(args.t) \subseteq 0 .. WordSize - 1
          /\ Parsed(args.m) \subseteq 0 .. WordSize - 1
      <3>1. /\ Parsed(args["skip"]) \subseteq 0 .. WordSize - 1
            /\ Parsed(args["t"]) \subseteq 0 .. WordSize - 1
            /\ Parsed(args["m"]) \subseteq 0 .. WordSize - 1
        BY ParsedType DEF OptsInv
      <3>2. QED
        BY <3>1
    <2> DEFINE P == Parsed(args.skip)
               Q == Parsed(args.t)
               R == Parsed(args.m)
               W == 0 .. WordSize - 1
    <2>2. P \in SUBSET W /\ Q \in SUBSET W /\ R \in SUBSET W /\ opts' = [skip |-> P, t |-> Q, m |-> R]
      BY <1>2, <2>1, ZenonT(60)
    <2>3. opts' \in [{"skip", "t", "m"} -> SUBSET W]
      <3> HIDE DEF P, Q, R, W
      <3>1. QED
        BY <2>2
    <2>4. QED
      BY <1>2, <2>3, ZenonT(60) DEF OptsInv
  <1>3. QED
    BY <1>1, <1>2, ZenonT(60)
    DEF Next, Step, ParseArguments, CreateInfoTables, SkipModule, StartModule, EndModule,
        ModulesDone, val_initialize_test, val_run_test_payload, val_check_for_error,
        PrintTestStatus, Exited, vars

LEMMA CountStep == CountInv /\ [Next]_vars => CountInv'
  <1> SUFFICES ASSUME CountInv, [Next]_vars PROVE CountInv'
    OBVIOUS
  <1>a. total \in Nat /\ pass \in Nat /\ fail \in Nat
    BY ZenonT(60) DEF CountInv
  <1>1. CASE \/ ParseArguments \/ CreateInfoTables \/ PrintTestStatus \/ ModulesDone
             \/ SkipModule \/ StartModule
    BY <1>1, ZenonT(60) DEF CountInv, ParseArguments, CreateInfoTables, PrintTestStatus, ModulesDone, SkipModule,
                StartModule
  <1>2. CASE EndModule
    BY <1>2, ZenonT(60) DEF CountInv, EndModule
  <1>3. CASE val_initialize_test
    <2>1. override' \in {0, 1} /\ total' \in {total, total + 1} /\ slot' \in {"PENDING", "SKIP"}
      BY <1>3 DEF val_initialize_test, Override
    <2>2. UNCHANGED <<pcie, pass, fail, banner>>
      BY <1>3 DEF val_initialize_test
    <2>3. total' \in Nat
      BY <2>1, <1>a
    <2>4. QED
      BY <2>1, <2>2, <2>3, ZenonT(60) DEF CountInv, Outcomes
  <1>4. CASE val_run_test_payload
    BY <1>4, ZenonT(60) DEF CountInv, Outcomes, val_run_test_payload
  <1>5. CASE val_check_for_error
    <2>1. pass' \in {pass, pass + 1} /\ fail' \in {fail, fail + 1}
      BY <1>5 DEF val_check_for_error
    <2>2. UNCHANGED <<pcie, override, total, slot, banner>>
      BY <1>5 DEF val_check_for_error
    <2>3. pass' \in Nat /\ fail' \in Nat
      BY <2>1, <1>a
    <2>4. QED
      BY <2>2, <2>3, ZenonT(60) DEF CountInv
  <1>6. CASE Exited \/ UNCHANGED vars
    BY <1>6, ZenonT(60) DEF CountInv, Exited, vars
  <1>7. QED
    BY <1>1, <1>2, <1>3, <1>4, <1>5, <1>6, ZenonT(60) DEF Next, Step

(* started grows by the test that val_initialize_test starts, and only then. *)
LEMMA HistStep ==
    ASSUME PlaceInv, HistInv, [Next]_vars
    PROVE  /\ HistInv'
           /\ ~val_initialize_test => started' = started
           /\ val_initialize_test =>
                 Range(started') = Range(started) \cup (IF ChosenTest(opts, Test) THEN {Test} ELSE {})
  <1>1. CASE val_initialize_test
    <2>1. m \in ModuleNums /\ t \in 1 .. Len(Modules[m].tests)
      BY <1>1, Lengths DEF val_initialize_test, PlaceInv
    <2>2. Test \in AllTests
      BY <2>1, TestInModule, ZenonT(60) DEF Test
    <2>3. CASE ChosenTest(opts, Test)
      <3>1. started' = Append(started, Test)
        BY <1>1, <2>3, ZenonT(60) DEF val_initialize_test
      <3>2. HistInv'
        BY <2>2, <3>1 DEF HistInv
      <3>3. Range(started') = Range(started) \cup {Test}
        BY <2>2, <3>1, RangeAppend DEF HistInv
      <3>4. QED
        BY <1>1, <2>3, <3>2, <3>3, ZenonT(60)
    <2>4. CASE ~ChosenTest(opts, Test)
      BY <1>1, <2>4, ZenonT(60) DEF val_initialize_test, HistInv
    <2>5. QED
      BY <2>3, <2>4, ZenonT(60)
  <1>2. CASE ~val_initialize_test
    <2>1. started' = started
      BY <1>2, ZenonT(60)
      DEF Next, Step, ParseArguments, CreateInfoTables, SkipModule, StartModule, EndModule,
          ModulesDone, val_run_test_payload, val_check_for_error, PrintTestStatus, Exited, vars
    <2>2. QED
      BY <1>2, <2>1, ZenonT(60) DEF HistInv
  <1>3. QED
    BY <1>1, <1>2, ZenonT(60)

LEMMA TypeStep == TypeInv /\ [Next]_vars => TypeInv'
  BY PlaceStep, OptsStep, CountStep, HistStep, ZenonT(60) DEF TypeInv

LEMMA TypeAlways == Spec => []TypeInv
  BY TypeInit, TypeStep, PTL DEF Spec

(* ShellAppMain and the module loops stay within their arrays: the module   *)
(* and test indices, the option words, the counters and the one-bit         *)
(* g_override_skip keep their types.                                        *)
THEOREM SuiteTypeCorrect == Spec => []TypeOK
  BY TypeAlways, TypeParts, PTL

-----------------------------------------------------------------------------
(* val_<module>_execute_tests gets past its first checks.                   *)
Open(x) ==
    /\ Modules[x].base \notin opts.skip
    /\ val_check_skip_module(opts, Modules[x].base)
    /\ Modules[x].pcie => pcie

(* A test that has to run if its module's turn comes.                       *)
Due(x, n) == args.os /\ Asked(x, n) /\ (Modules[x].pcie => pcie)

InModules == pc \in {"module", "init", "payload", "check"}

(* Nothing has run before the modules start; every due test of an earlier   *)
(* module has started, and in the present module those before t, and t      *)
(* itself once val_initialize_test is done with it.                         *)
SelInv ==
    /\ pc \in {"args", "tables"} => m = 1 /\ Range(started) = {}
    /\ pc \in {"init", "payload", "check"} => Open(m)
    /\ OnlyAskedRun
    /\ InModules /\ ModulesNamed =>
          \A x \in ModuleNums : x < m =>
              \A n \in TestsOf(x) : Due(x, n) => n \in Range(started)
    /\ pc \in {"init", "payload", "check"} /\ ModulesNamed =>
          \A u \in 1 .. Len(Modules[m].tests) :
              (u < t \/ (u = t /\ pc # "init")) =>
                  (Due(m, Modules[m].tests[u]) => Modules[m].tests[u] \in Range(started))

LEMMA SelInit == Init => SelInv
  <1> SUFFICES ASSUME Init PROVE SelInv
    OBVIOUS
  <1>1. Range(started) = {}
    BY DEF Init, Range
  <1>2. QED
    BY <1>1, ZenonT(60) DEF Init, SelInv, OnlyAskedRun, InModules

LEMMA SelImplies == TypeInv /\ SelInv => OnlyAskedRun /\ AllAskedRun
  <1> SUFFICES ASSUME TypeInv, SelInv PROVE AllAskedRun
    BY ZenonT(60) DEF SelInv
  <1>1. \A x \in ModuleNums : pc = "module" /\ m = Len(Modules) + 1 => InModules /\ x < m
    BY Lengths DEF InModules
  <1>2. QED
    BY <1>1, ZenonT(60) DEF SelInv, AllAskedRun, Due

(* The steps that start no test and leave the selection alone.              *)
LEMMA SelMove ==
    ASSUME TypeInv, SelInv, UNCHANGED <<args, opts, started>>
    PROVE  /\ OnlyAskedRun'
           /\ UNCHANGED pcie => \A x, n : Due(x, n)' <=> Due(x, n)
           /\ UNCHANGED pcie => \A x : Open(x)' <=> Open(x)
           /\ Range(started)' = Range(started)
           /\ ModulesNamed' <=> ModulesNamed
  <1>1. \A x, n : Asked(x, n)' <=> Asked(x, n)
    BY DEF Asked, NoneChosen
  <1>2. ModulesNamed' <=> ModulesNamed
    BY DEF ModulesNamed
  <1>3. Range(started)' = Range(started)
    BY DEF Range
  <1>4. OnlyAskedRun'
    BY <1>1, <1>2, <1>3, ZenonT(60) DEF SelInv, OnlyAskedRun
  <1>5. UNCHANGED pcie => \A x, n : Due(x, n)' <=> Due(x, n)
    BY <1>1 DEF Due
  <1>6. UNCHANGED pcie => \A x : Open(x)' <=> Open(x)
    BY DEF Open, val_check_skip_module, NoneChosen
  <1>7. QED
    BY <1>2, <1>3, <1>4, <1>5, <1>6, ZenonT(60)

(* The last conjunct, for one test.                                         *)
LEMMA SelEarlier ==
    ASSUME SelInv, ModulesNamed, pc = "init", NEW u \in 1 .. Len(Modules[m].tests), u < t,
           Due(m, Modules[m].tests[u])
    PROVE  Modules[m].tests[u] \in Range(started)
  <1> DEFINE Before(w) == w < t \/ (w = t /\ pc # "init")
             Seen(w) == Due(m, Modules[m].tests[w]) => Modules[m].tests[w] \in Range(started)
  <1>1. \A w \in 1 .. Len(Modules[m].tests) : Before(w) => Seen(w)
    BY ZenonT(60) DEF SelInv
  <1>2. Before(u)
    OBVIOUS
  <1> HIDE DEF Before, Seen
  <1>3. Seen(u)
    BY <1>1, <1>2, ZenonT(60)
  <1>4. QED
    BY <1>3, ZenonT(60) DEF Seen

LEMMA SelStep == TypeInv /\ SelInv /\ [Next]_vars => SelInv'
  <1> SUFFICES ASSUME TypeInv, SelInv, [Next]_vars PROVE SelInv'
    OBVIOUS
  <1> USE DEF InModules
  <1>1. CASE ParseArguments
    <2>1. Range(started)' = {} /\ m' = 1 /\ pc' \in {"exit", "tables"}
      BY <1>1, ZenonT(60) DEF ParseArguments, SelInv, Range
    <2>2. OnlyAskedRun'
      BY <2>1 DEF OnlyAskedRun
    <2>3. QED
      BY <2>1, <2>2, ZenonT(60) DEF SelInv
  <1>2. CASE CreateInfoTables
    <2>1. Range(started)' = {} /\ m' = 1 /\ pc' \in {"exit", "print", "module"}
      BY <1>2, ZenonT(60) DEF CreateInfoTables, SelInv, Range
    <2>2. OnlyAskedRun'
      BY <2>1 DEF OnlyAskedRun
    <2>3. \A x \in ModuleNums : ~(x < m')
      BY <2>1, Lengths
    <2>4. QED
      BY <2>1, <2>2, <2>3, ZenonT(60) DEF SelInv
  <1>3. CASE SkipModule
    <2>1. /\ UNCHANGED <<args, opts, started, pcie>> /\ m' = m + 1 /\ pc' = "module"
          /\ pc = "module" /\ m \in ModuleNums /\ ~Open(m)
      BY <1>3, ZenonT(60) DEF SkipModule, Open, Base
    <2>2. ModulesNamed => \A n \in TestsOf(m) : ~Due(m, n)
      <3> SUFFICES ASSUME ModulesNamed, NEW n \in TestsOf(m), Due(m, n) PROVE Open(m)
        BY <2>1
      <3>1. QED
        BY <2>1, Selection, ZenonT(60) DEF TypeInv, OptsInv, Due, Open, Asked
    <2>3. \A x \in ModuleNums : x < m' => x < m \/ x = m
      BY <2>1, Lengths DEF TypeInv, PlaceInv
    <2>4. QED
      BY <2>1, <2>2, <2>3, SelMove, ZenonT(60) DEF SelInv
  <1>4. CASE StartModule
    <2>1. /\ UNCHANGED <<args, opts, started, pcie, m>> /\ t' = 1 /\ pc' = "init"
          /\ pc = "module" /\ m \in ModuleNums /\ Open(m)
      BY <1>4, ZenonT(60) DEF StartModule, Open, Base
    <2>2. \A u \in 1 .. Len(Modules[m].tests) : ~(u < t' \/ (u = t' /\ pc' # "init"))
      BY <2>1, Lengths
    <2>3. QED
      BY <2>1, <2>2, SelMove, ZenonT(60) DEF SelInv
  <1>5. CASE EndModule
    <2>1. /\ UNCHANGED <<args, opts, started, pcie>> /\ m' = m + 1 /\ pc' = "module"
          /\ pc = "init" /\ m \in ModuleNums /\ (args.os => t > Len(Modules[m].tests))
      BY <1>5, ZenonT(60) DEF EndModule, TypeInv, PlaceInv
    <2>2. ASSUME ModulesNamed, NEW n \in TestsOf(m), Due(m, n)
          PROVE  n \in Range(started)
      <3>1. PICK u \in 1 .. Len(Modules[m].tests) : n = Modules[m].tests[u]
        BY <2>1, IndexOfTest, ZenonT(60)
      <3>2. u < t
        BY <2>1, <2>2, Lengths DEF Due, TypeInv, PlaceInv
      <3>3. QED
        BY <2>1, <2>2, <3>1, <3>2, SelEarlier, ZenonT(60)
    <2>3. \A x \in ModuleNums : x < m' => x < m \/ x = m
      BY <2>1, Lengths DEF TypeInv, PlaceInv
    <2>4. QED
      BY <2>1, <2>2, <2>3, SelMove, ZenonT(60) DEF SelInv
  <1>6. CASE val_initialize_test
    <2>1. /\ UNCHANGED <<args, opts, pcie, m, t>> /\ pc' \in {"payload", "check"}
          /\ pc = "init" /\ m \in ModuleNums /\ t \in 1 .. Len(Modules[m].tests)
      BY <1>6, Lengths DEF val_initialize_test, TypeInv, PlaceInv
    <2>2. Test \in TestsOf(m)
      BY <2>1, TestInModule, ZenonT(60) DEF Test
    <2>3. Range(started)' = Range(started) \cup (IF ChosenTest(opts, Test) THEN {Test} ELSE {})
      BY <1>6, HistStep, ZenonT(60) DEF TypeInv, Range
    <2>4. Open(m)
      BY <2>1, ZenonT(60) DEF SelInv
    <2>5. /\ \A x, n : Asked(x, n)' <=> Asked(x, n)
          /\ \A x, n : Due(x, n)' <=> Due(x, n)
          /\ \A x : Open(x)' <=> Open(x)
          /\ ModulesNamed' <=> ModulesNamed
      BY <2>1, ZenonT(60) DEF Asked, Due, Open, ModulesNamed, NoneChosen, val_check_skip_module
    <2>6. ModulesNamed => (ChosenTest(opts, Test) <=> Asked(m, Test))
      BY <2>1, <2>2, <2>4, Selection, ZenonT(60) DEF TypeInv, OptsInv, Open
    <2>7. OnlyAskedRun'
      <3> SUFFICES ASSUME ModulesNamed, NEW x \in ModuleNums, NEW n \in TestsOf(x),
                          n \in Range(started)'
                   PROVE  Asked(x, n)
        BY <2>5 DEF OnlyAskedRun
      <3>1. CASE n \in Range(started)
        BY <3>1, ZenonT(60) DEF SelInv, OnlyAskedRun
      <3>2. CASE n = Test /\ ChosenTest(opts, Test)
        <4>1. x = m
          BY <2>1, <2>2, <3>2, TestsDisjoint, ZenonT(60)
        <4>2. QED
          BY <2>6, <3>2, <4>1, ZenonT(60)
      <3>3. QED
        BY <2>3, <3>1, <3>2, ZenonT(60)
    <2>8. ModulesNamed /\ Due(m, Test) => Test \in Range(started)'
      BY <2>3, <2>6, ZenonT(60) DEF Due
    <2>9. ASSUME ModulesNamed, NEW u \in 1 .. Len(Modules[m].tests), u < t \/ u = t,
                 Due(m, Modules[m].tests[u])
          PROVE  Modules[m].tests[u] \in Range(started)'
      <3>1. CASE u = t
        BY <2>8, <2>9, <3>1, ZenonT(60) DEF Test
      <3>2. CASE u < t
        BY <2>1, <2>3, <2>9, <3>2, SelEarlier, ZenonT(60)
      <3>3. QED
        BY <2>9, <3>1, <3>2, ZenonT(60)
    <2>10. ASSUME ModulesNamed, NEW x \in ModuleNums, x < m, NEW n \in TestsOf(x), Due(x, n)
           PROVE  n \in Range(started)'
      BY <2>1, <2>3, <2>10, ZenonT(60) DEF SelInv
    <2>11. QED
      BY <2>1, <2>4, <2>5, <2>7, <2>9, <2>10, ZenonT(60) DEF SelInv
  <1>7. CASE val_run_test_payload
    <2>1. /\ UNCHANGED <<args, opts, started, pcie, m, t>> /\ pc' \in {"check", "print"}
          /\ pc = "payload"
      BY <1>7 DEF val_run_test_payload
    <2>2. QED
      BY <2>1, SelMove, ZenonT(60) DEF SelInv
  <1>8. CASE val_check_for_error
    <2>1. /\ UNCHANGED <<args, opts, started, pcie, m>> /\ pc' = "init" /\ t' = t + 1
          /\ pc = "check"
      BY <1>8 DEF val_check_for_error
    <2>2. \A u \in 1 .. Len(Modules[m].tests) : u < t' => u < t \/ u = t
      BY <2>1 DEF TypeInv, PlaceInv
    <2>3. QED
      BY <2>1, <2>2, SelMove, ZenonT(60) DEF SelInv
  <1>9. CASE PrintTestStatus \/ ModulesDone \/ Exited \/ UNCHANGED vars
    <2>1. /\ UNCHANGED <<args, opts, started, pcie, m, t>>
          /\ pc' \in {"exit", "print"} \/ pc' = pc
      BY <1>9, ZenonT(60) DEF PrintTestStatus, ModulesDone, Exited, vars
    <2>2. QED
      BY <2>1, SelMove, ZenonT(60) DEF SelInv
  <1>10. QED
    BY <1>1, <1>2, <1>3, <1>4, <1>5, <1>6, <1>7, <1>8, <1>9, ZenonT(60) DEF Next, Step

LEMMA SelAlways == Spec => [](TypeInv /\ SelInv)
  BY TypeInit, TypeStep, SelInit, SelStep, PTL DEF Spec

(* No test runs that the command line does not ask for, whatever the        *)
(* options, when -m names modules: val_check_skip_module and                *)
(* val_initialize_test never start one by an unsigned difference that wraps. *)
THEOREM OnlyAskedTestsRun == Spec => []OnlyAskedRun
  BY SelAlways, SelImplies, PTL

(* Every test the command line asks for has been started when the last      *)
(* module is done, if the hardware its module needs was found.              *)
THEOREM AllAskedTestsRun == Spec => []AllAskedRun
  BY SelAlways, SelImplies, PTL

-----------------------------------------------------------------------------
(* What is printed.                                                        *)

Results == AllTests \X (Outcomes \cup {"PENDING", "UNSET"})

(* The results printed are those of the tests started, in order; one is     *)
(* outstanding while a test runs, and none is printed for a test that was   *)
(* not chosen, whose slot says SKIP.                                        *)
OrderInv ==
    /\ printed \in Seq(Results) /\ Len(printed) =< Len(started)
    /\ \A x \in 1 .. Len(printed) : printed[x][1] = started[x]
    /\ pc \in {"args", "tables", "module", "init"} => Len(printed) = Len(started)
    /\ pc = "payload" => override = 1
    /\ (pc = "check" /\ override = 0) => slot = "SKIP" /\ Len(printed) = Len(started)
    /\ (pc \in {"payload", "check"} /\ override = 1) =>
          Len(started) = Len(printed) + 1 /\ started[Len(started)] = Test

(* No result but PASS has been seen in a module whose status is still zero. *)
PassedInv ==
    (pc \in {"init", "payload", "check"} /\ args.os /\ status = {}) =>
        \A u \in 1 .. Len(Modules[m].tests) : u < t =>
            <<Modules[m].tests[u], "PASS">> \in Range(printed)

RepInv == OrderInv /\ CountersBalance /\ PassedInv /\ AllPassedIsTrue

LEMMA RepInit == Init => RepInv
  <1> SUFFICES ASSUME Init PROVE RepInv
    OBVIOUS
  <1>1. /\ printed = <<>> /\ started = <<>> /\ pc = "args" /\ total = 0 /\ pass = 0 /\ fail = 0
        /\ \A x \in ModuleNums : banner[x] = "none"
    BY DEF Init
  <1>2. printed \in Seq(Results) /\ Len(printed) = 0 /\ Len(started) = 0 /\ DOMAIN printed = {}
    BY <1>1
  <1>3. CountersBalance
    <2>1. Skipped = {}
      BY <1>2 DEF Skipped
    <2>2. Cardinality(Skipped) = 0
      BY <2>1, FS_EmptySet, ZenonT(60)
    <2>3. QED
      BY <1>1, <1>2, <2>2 DEF CountersBalance, Running
  <1>4. OrderInv
    BY <1>1, <1>2 DEF OrderInv
  <1>5. PassedInv /\ AllPassedIsTrue
    BY <1>1, ZenonT(60) DEF PassedInv, AllPassedIsTrue
  <1>6. QED
    BY <1>3, <1>4, <1>5, ZenonT(60) DEF RepInv

LEMMA SkippedFinite ==
    ASSUME printed \in Seq(Results)
    PROVE  IsFiniteSet(Skipped) /\ Cardinality(Skipped) \in Nat
  <1>1. DOMAIN printed = 1 .. Len(printed) /\ Len(printed) \in Nat
    OBVIOUS
  <1>2. IsFiniteSet(1 .. Len(printed))
    BY <1>1, FS_Interval
  <1>3. QED
    BY <1>1, <1>2, FS_Subset, FS_CardinalityType, ZenonT(60) DEF Skipped

(* A result printed is one more skipped test, or none more.                 *)
LEMMA SkippedGrows ==
    ASSUME printed \in Seq(Results), NEW e \in Results, printed' = Append(printed, e)
    PROVE  Cardinality(Skipped') = Cardinality(Skipped) + (IF e[2] = "SKIP" THEN 1 ELSE 0)
  <1> DEFINE l == Len(printed)
  <1>1. /\ DOMAIN printed' = 1 .. l + 1 /\ DOMAIN printed = 1 .. l /\ l \in Nat
        /\ \A u \in 1 .. l : printed'[u] = printed[u]
        /\ printed'[l + 1] = e
    BY AppendProperties
  <1>2. IsFiniteSet(Skipped) /\ Cardinality(Skipped) \in Nat
    BY SkippedFinite
  <1> HIDE DEF l
  <1>3. l + 1 \notin Skipped
    BY <1>1 DEF Skipped
  <1>4. CASE e[2] = "SKIP"
    <2>1. Skipped' = Skipped \cup {l + 1}
      BY <1>1, <1>4 DEF Skipped
    <2>2. Cardinality(Skipped \cup {l + 1}) = Cardinality(Skipped) + 1
      BY <1>2, <1>3, FS_AddElement, ZenonT(60)
    <2>3. QED
      BY <1>4, <2>1, <2>2, ZenonT(60)
  <1>5. CASE e[2] # "SKIP"
    <2>1. Skipped' = Skipped
      BY <1>1, <1>5 DEF Skipped
    <2>2. QED
      BY <1>2, <1>5, <2>1
  <1>6. QED
    BY <1>4, <1>5, ZenonT(60)

(* A step that starts nothing and prints nothing keeps the report.          *)
LEMMA ReportKept ==
    ASSUME RepInv, UNCHANGED <<args, started, printed, total, pass, fail, banner>>
    PROVE  CountersBalance' /\ AllPassedIsTrue' /\ Range(printed)' = Range(printed)
  <1>1. Skipped' = Skipped /\ Running' = Running /\ Range(printed)' = Range(printed)
    BY DEF Skipped, Running, Range
  <1>2. QED
    BY <1>1, ZenonT(60) DEF RepInv, CountersBalance, AllPassedIsTrue

LEMMA InitializeTestReports ==
    ASSUME TypeInv, RepInv, val_initialize_test
    PROVE  RepInv'
  <1> DEFINE l == Len(started)
  <1>1. /\ pc = "init" /\ UNCHANGED <<args, m, t, printed, pass, fail, status, banner>>
        /\ Len(printed) = l /\ l \in Nat /\ started \in Seq(AllTests) /\ printed \in Seq(Results)
        /\ \A x \in 1 .. l : printed[x][1] = started[x]
    BY DEF val_initialize_test, RepInv, OrderInv, TypeInv, HistInv
  <1>2. Range(printed)' = Range(printed) /\ Skipped' = Skipped /\ Test' = Test
    BY <1>1, ZenonT(60) DEF Range, Skipped, Test
  <1>3. PassedInv'
    BY <1>1, <1>2, ZenonT(60) DEF val_initialize_test, RepInv, PassedInv
  <1>4. AllPassedIsTrue'
    BY <1>1, <1>2, ZenonT(60) DEF RepInv, AllPassedIsTrue
  <1>5. CASE ChosenTest(opts, Test)
    <2>1. /\ pc' = "payload" /\ override' = 1 /\ total' = total + 1
          /\ started' = Append(started, Test)
      BY <1>5, ZenonT(60) DEF val_initialize_test, Override
    <2>2. Test \in AllTests
      <3>1. m \in ModuleNums /\ t \in 1 .. Len(Modules[m].tests)
        BY Lengths DEF val_initialize_test, TypeInv, PlaceInv
      <3>2. QED
        BY <3>1, TestInModule, ZenonT(60) DEF Test
    <2>3. /\ Len(started') = l + 1 /\ started'[l + 1] = Test
          /\ \A x \in 1 .. l : started'[x] = started[x]
      BY <1>1, <2>1, <2>2, AppendProperties
    <2>4. OrderInv'
      <3> HIDE DEF l
      <3>1. /\ Len(printed)' = l /\ printed' \in Seq(Results) /\ Len(started)' = l + 1
            /\ \A x \in 1 .. l : printed'[x][1] = started'[x]
        BY <1>1, <2>3, ZenonT(60)
      <3>2. QED
        BY <1>1, <1>2, <2>1, <2>3, <3>1 DEF OrderInv
    <2>5. CountersBalance'
      <3>1. Running = 0 /\ Running' = 1
        <4> HIDE DEF l
        <4>1. QED
          BY <1>1, <2>3 DEF Running, l
      <3>2. Cardinality(Skipped) \in Nat
        BY <1>1, SkippedFinite, ZenonT(60)
      <3>3. pass \in Nat /\ fail \in Nat
        BY ZenonT(60) DEF TypeInv, CountInv
      <3>4. total = pass + fail + Cardinality(Skipped)
        BY <3>1, <3>2, <3>3 DEF RepInv, CountersBalance
      <3>5. QED
        BY <1>1, <1>2, <2>1, <3>1, <3>2, <3>3, <3>4, ZenonT(60) DEF CountersBalance
    <2>6. QED
      BY <1>3, <1>4, <2>4, <2>5, ZenonT(60) DEF RepInv
  <1>6. CASE ~ChosenTest(opts, Test)
    <2>1. /\ pc' = "check" /\ slot' = "SKIP" /\ override' = 0 /\ UNCHANGED <<total, started>>
      BY <1>6, ZenonT(60) DEF val_initialize_test, Override
    <2>2. OrderInv'
      BY <1>1, <2>1 DEF RepInv, OrderInv
    <2>3. CountersBalance'
      BY <1>1, <2>1, ReportKept, ZenonT(60)
    <2>4. QED
      BY <1>3, <1>4, <2>2, <2>3, ZenonT(60) DEF RepInv
  <1>7. QED
    BY <1>5, <1>6, ZenonT(60)

LEMMA CheckForErrorReports ==
    ASSUME TypeInv, RepInv, val_check_for_error
    PROVE  RepInv'
  <1> DEFINE l == Len(printed)
  <1>1. /\ pc = "check" /\ pc' = "init" /\ t' = t + 1
        /\ UNCHANGED <<args, m, started, total, banner>>
        /\ status' = Consolidated
        /\ pass' = (IF slot = "PASS" THEN pass + 1 ELSE pass)
        /\ fail' = (IF slot \notin {"PASS", "SKIP"} THEN fail + 1 ELSE fail)
    BY DEF val_check_for_error, CountsAsFailed
  <1>2. /\ printed \in Seq(Results) /\ l \in Nat /\ started \in Seq(AllTests)
        /\ \A x \in 1 .. l : printed[x][1] = started[x]
        /\ m \in ModuleNums /\ t \in 1 .. Len(Modules[m].tests)
        /\ total \in Nat /\ pass \in Nat /\ fail \in Nat /\ override \in {0, 1}
    <2>1. /\ printed \in Seq(Results) /\ l \in Nat /\ started \in Seq(AllTests)
          /\ \A x \in 1 .. l : printed[x][1] = started[x]
      BY DEF RepInv, OrderInv, TypeInv, HistInv
    <2>2. m \in ModuleNums /\ t \in 1 .. Len(Modules[m].tests)
      BY <1>1, ZenonT(60) DEF TypeInv, PlaceInv
    <2>3. total \in Nat /\ pass \in Nat /\ fail \in Nat /\ override \in {0, 1}
      BY ZenonT(60) DEF TypeInv, CountInv
    <2>4. QED
      BY <2>1, <2>2, <2>3, ZenonT(60)
  <1>3. CASE override = 0
    <2>1. slot = "SKIP" /\ l = Len(started) /\ printed' = printed
      BY <1>1, <1>3, ZenonT(60) DEF RepInv, OrderInv, val_check_for_error, val_report_status
    <2>2. OrderInv'
      BY <1>1, <2>1, ZenonT(60) DEF RepInv, OrderInv
    <2>3. CountersBalance' /\ AllPassedIsTrue'
      BY <1>1, <2>1, ReportKept, ZenonT(60)
    <2>4. PassedInv'
      <3>1. status' # {}
        BY <1>1, <2>1, ZenonT(60) DEF Consolidated
      <3>2. QED
        BY <3>1 DEF PassedInv
    <2>5. QED
      BY <2>2, <2>3, <2>4, ZenonT(60) DEF RepInv
  <1>4. CASE override = 1
    <2> DEFINE e == <<Test, slot>>
    <2>1. printed' = Append(printed, e) /\ Len(started) = l + 1 /\ started[l + 1] = Test
      BY <1>1, <1>4 DEF RepInv, OrderInv, val_check_for_error, val_report_status
    <2>2. e \in Results
      <3>1. Test \in AllTests
        BY <1>2, TestInModule, ZenonT(60) DEF Test
      <3>2. QED
        BY <3>1, ZenonT(60) DEF Results, TypeInv, CountInv
    <2>3. /\ Len(printed') = l + 1 /\ printed'[l + 1] = e /\ printed' \in Seq(Results)
          /\ \A x \in 1 .. l : printed'[x] = printed[x]
      BY <1>2, <2>1, <2>2, AppendProperties
    <2>4. Range(printed') = Range(printed) \cup {e}
      BY <1>2, <2>1, <2>2, RangeAppend
    <2>5. OrderInv'
      <3>1. \A x \in 1 .. l + 1 : printed'[x][1] = started[x]
        <4>1. e[1] = Test
          OBVIOUS
        <4> HIDE DEF e, l
        <4>2. QED
          BY <1>2, <2>1, <2>3, <4>1
      <3> HIDE DEF e, l
      <3>2. QED
        BY <1>1, <1>2, <2>1, <2>3, <3>1 DEF OrderInv
    <2>6. CountersBalance'
      <3>1. Running = 1 /\ Running' = 0
        <4> HIDE DEF e
        <4>1. QED
          BY <1>1, <1>2, <2>1, <2>3 DEF Running
      <3>2. Cardinality(Skipped') = Cardinality(Skipped) + (IF slot = "SKIP" THEN 1 ELSE 0)
        <4>1. e[2] = slot
          OBVIOUS
        <4> HIDE DEF e
        <4>2. QED
          BY <1>2, <2>1, <2>2, <4>1, SkippedGrows, ZenonT(60)
      <3>3. Cardinality(Skipped) \in Nat
        BY <1>2, SkippedFinite, ZenonT(60)
      <3>4. total = pass + fail + Cardinality(Skipped) + 1
        BY <3>1 DEF RepInv, CountersBalance
      <3> DEFINE c == Cardinality(Skipped)
      <3>5. total = pass' + fail' + Cardinality(Skipped')
        <4>1. c \in Nat /\ total = pass + fail + c + 1 /\ Cardinality(Skipped') = c + (IF slot = "SKIP" THEN 1 ELSE 0)
          BY <3>2, <3>3, <3>4, ZenonT(60)
        <4> HIDE DEF c, e, l
        <4>2. QED
          BY <1>1, <1>2, <4>1
      <3>6. Cardinality(Skipped') \in Nat /\ pass' \in Nat /\ fail' \in Nat
        BY <1>1, <1>2, <3>2, <3>3
      <3>7. QED
        BY <1>1, <3>1, <3>5, <3>6 DEF CountersBalance
    <2>7. AllPassedIsTrue'
      BY <1>1, <2>4, ZenonT(60) DEF RepInv, AllPassedIsTrue
    <2>8. PassedInv'
      <3>1. ASSUME args.os, status' = {}, NEW u \in 1 .. Len(Modules[m].tests), u < t + 1
            PROVE  <<Modules[m].tests[u], "PASS">> \in Range(printed')
        <4>1. slot = "PASS" /\ status = {}
          BY <1>1, <3>1, ZenonT(60) DEF Consolidated
        <4>2. u < t \/ u = t
          BY <1>2, <3>1, Lengths
        <4>3. CASE u = t
          BY <2>4, <4>1, <4>3, ZenonT(60) DEF Test
        <4>4. CASE u < t
          BY <1>1, <2>4, <3>1, <4>1, <4>4, ZenonT(60) DEF RepInv, PassedInv
        <4>5. QED
          BY <4>2, <4>3, <4>4, ZenonT(60)
      <3>2. QED
        BY <1>1, <3>1, ZenonT(60) DEF PassedInv
    <2>9. QED
      BY <2>5, <2>6, <2>7, <2>8, ZenonT(60) DEF RepInv
  <1>5. QED
    BY <1>2, <1>3, <1>4, ZenonT(60)

LEMMA EndModuleReports ==
    ASSUME TypeInv, RepInv, EndModule
    PROVE  RepInv'
  <1>1. /\ pc = "init" /\ pc' = "module" /\ m \in ModuleNums
        /\ UNCHANGED <<args, started, printed, total, pass, fail>>
        /\ args.os => t > Len(Modules[m].tests)
        /\ banner' = [banner EXCEPT ![m] = IF status = {} THEN "all passed" ELSE "some failed"]
    BY ZenonT(60) DEF EndModule, TypeInv, PlaceInv
  <1>2. Range(printed)' = Range(printed) /\ Skipped' = Skipped /\ Running' = Running
    BY <1>1, ZenonT(60) DEF Range, Skipped, Running
  <1>3. OrderInv' /\ PassedInv' /\ CountersBalance'
    BY <1>1, <1>2, ZenonT(60) DEF RepInv, OrderInv, PassedInv, CountersBalance
  <1>4. ASSUME args.os, status = {}, NEW n \in TestsOf(m)
        PROVE  <<n, "PASS">> \in Range(printed)
    <2>1. PICK u \in 1 .. Len(Modules[m].tests) : n = Modules[m].tests[u]
      BY <1>1, IndexOfTest, ZenonT(60)
    <2>2. u < t
      <3>1. u \in Nat /\ u =< Len(Modules[m].tests) /\ Len(Modules[m].tests) \in Nat
        <4>1. Len(Modules[m].tests) \in Nat
          BY <1>1, Lengths, ZenonT(60)
        <4>2. QED
          BY <4>1
      <3>2. t \in Nat /\ t > Len(Modules[m].tests)
        BY <1>1, <1>4, ZenonT(60) DEF TypeInv, PlaceInv
      <3>3. QED
        BY <3>1, <3>2
    <2>3. QED
      BY <1>1, <1>4, <2>1, <2>2, ZenonT(60) DEF RepInv, PassedInv
  <1>5. AllPassedIsTrue'
    BY <1>1, <1>2, <1>4, ZenonT(60) DEF RepInv, AllPassedIsTrue, TypeInv, CountInv
  <1>6. QED
    BY <1>3, <1>5, ZenonT(60) DEF RepInv

LEMMA RepStep == TypeInv /\ RepInv /\ [Next]_vars => RepInv'
  <1> SUFFICES ASSUME TypeInv, RepInv, [Next]_vars PROVE RepInv'
    OBVIOUS
  <1>1. CASE \/ ParseArguments \/ CreateInfoTables \/ SkipModule \/ ModulesDone
             \/ PrintTestStatus \/ Exited
    <2>1. /\ UNCHANGED <<args, started, printed, total, pass, fail, banner, override, slot>>
          /\ pc \in {"args", "tables", "module"} \/ pc' \in {"print", "exit"}
          /\ pc' \in {"tables", "module", "print", "exit"}
      BY <1>1, ZenonT(60) DEF ParseArguments, CreateInfoTables, SkipModule, ModulesDone, PrintTestStatus,
                  Exited, vars
    <2>2. OrderInv' /\ PassedInv'
      BY <2>1, ZenonT(60) DEF RepInv, OrderInv, PassedInv
    <2>3. QED
      BY <2>1, <2>2, ReportKept, ZenonT(60) DEF RepInv
  <1>2. CASE StartModule
    <2>1. /\ UNCHANGED <<args, started, printed, total, pass, fail, banner, override, slot, m>>
          /\ pc = "module" /\ pc' = "init" /\ t' = 1
      BY <1>2, ZenonT(60) DEF StartModule
    <2>2. PassedInv'
      <3>1. m \in ModuleNums
        BY <1>2, ZenonT(60) DEF StartModule
      <3>2. \A u \in 1 .. Len(Modules[m].tests) : ~(u < 1)
        BY <3>1, Lengths
      <3>3. QED
        BY <2>1, <3>2, ZenonT(60) DEF PassedInv
    <2>3. OrderInv'
      BY <2>1, ZenonT(60) DEF RepInv, OrderInv
    <2>4. QED
      BY <2>1, <2>2, <2>3, ReportKept, ZenonT(60) DEF RepInv
  <1>3. CASE val_run_test_payload
    <2>1. /\ UNCHANGED <<args, started, printed, total, pass, fail, banner, override, m, t, status>>
          /\ pc = "payload" /\ pc' \in {"check", "print"}
      BY <1>3 DEF val_run_test_payload
    <2>2. PassedInv'
      BY <2>1, ReportKept, ZenonT(60) DEF RepInv, PassedInv
    <2>3. Test' = Test
      BY <2>1 DEF Test
    <2>4. OrderInv'
      BY <2>1, <2>3 DEF RepInv, OrderInv
    <2>5. QED
      BY <2>1, <2>2, <2>4, ReportKept, ZenonT(60) DEF RepInv
  <1>4. CASE UNCHANGED vars
    <2>1. Test' = Test /\ Range(printed)' = Range(printed)
      BY <1>4, ZenonT(60) DEF Test, Range, vars
    <2>2. OrderInv' /\ PassedInv'
      BY <1>4, <2>1, ZenonT(60) DEF vars, RepInv, OrderInv, PassedInv
    <2>3. QED
      BY <1>4, <2>2, ReportKept, ZenonT(60) DEF vars, RepInv
  <1>5. QED
    BY <1>1, <1>2, <1>3, <1>4, InitializeTestReports, CheckForErrorReports, EndModuleReports, ZenonT(60)
    DEF Next, Step

(* What the user reads is what happened, for every command line and every   *)
(* outcome of the payloads: between tests each test started has one result  *)
(* printed and no other test has, the counters of the final report add up,  *)
(* also after an exception, and "All tests passed" closes a module only if  *)
(* each of its tests was started and printed as passed.                     *)
THEOREM ReportAlwaysTrue == Spec => []ReportIsTrue
  <1>1. TypeInv /\ RepInv => ReportIsTrue
    <2> SUFFICES ASSUME TypeInv, RepInv, pc \in {"init", "module"}
                 PROVE  /\ Len(printed) = Len(started)
                        /\ \A x \in DOMAIN started : printed[x][1] = started[x]
      BY DEF RepInv, ReportIsTrue, OneResultEach
    <2>1. QED
      BY DEF RepInv, OrderInv, TypeInv, HistInv
  <1>2. TypeInv /\ RepInv /\ [Next]_vars => TypeInv' /\ RepInv'
    BY TypeStep, RepStep, ZenonT(60)
  <1>3. QED
    BY TypeInit, RepInit, <1>1, <1>2, PTL DEF Spec
=============================================================================
