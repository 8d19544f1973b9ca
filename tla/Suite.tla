------------------------------- MODULE Suite -------------------------------
(***************************************************************************)
(* The application: which of its tests run, and what it reports.           *)
(*                                                                         *)
(*   uefi_app/BsaAcsMain.c     ShellAppMain: options, information tables,  *)
(*                             the modules in turn, the final report       *)
(*   val/src/acs_*.c           val_<module>_execute_tests                  *)
(*   val/src/acs_test_infra.c  val_check_skip_module, val_initialize_test, *)
(*                             val_check_for_error                         *)
(*   val/src/acs_status.c      val_report_status                           *)
(*                                                                         *)
(* How a test gets its result from the harts is the subject of TestRun;    *)
(* here a test that runs has one of the outcomes TestRun allows, or raises *)
(* an exception that val_hart_default_esr turns into a jump to the report. *)
(***************************************************************************)
EXTENDS Integers, Sequences, FiniteSets, Functions

CONSTANTS
    Modules,    \* sequence of [base, tests, pcie]: val_*_execute_tests in order
    Arguments,  \* command lines: the lists after -skip, -t and -m, and whether the
                \* operating system view is on (it is off if only -hyp or -ps is given)
    Junk,       \* an item of such a list that does not start with a digit
    WordSize    \* 2^32, the modulus of uint32_t

ModuleNums == 1 .. Len(Modules)
Bases == {Modules[x].base : x \in ModuleNums}
TestsOf(x) == Range(Modules[x].tests)
AllTests == UNION {TestsOf(x) : x \in ModuleNums}

(* A module numbers its tests from its base + 1 to its base + 99, and no    *)
(* other module uses these numbers.                                         *)
ASSUME SuiteAssumption ==
    /\ WordSize \in Nat \ {0} /\ Junk \notin Nat
    /\ Modules \in Seq([base : Nat, tests : Seq(Nat), pcie : BOOLEAN])
    /\ \A x \in ModuleNums :
          /\ Modules[x].base + 100 =< WordSize
          /\ \A n \in TestsOf(x) : Modules[x].base < n /\ n < Modules[x].base + 100
    /\ \A x, y \in ModuleNums :
          Modules[x].base < Modules[y].base => Modules[x].base + 100 =< Modules[y].base
    /\ \A x, y \in ModuleNums : Modules[x].base = Modules[y].base => x = y
    /\ \A line \in Arguments : \A option \in {"skip", "t", "m"} :
          line[option] \in Seq((0 .. WordSize - 1) \cup {Junk})
    /\ \A line \in Arguments : line.os \in BOOLEAN

Outcomes == {"PASS", "FAIL", "SKIP"}

VARIABLES
    args,      \* the command line; an option that is not given is <<>>
    opts,      \* g_skip_test_num, g_execute_tests, g_execute_modules, as sets
    pc,        \* where ShellAppMain is
    m, t,      \* module, and test of the module
    pcie,      \* a PCIe hierarchy was found that the tests can use
    override,  \* g_override_skip
    total, pass, fail,   \* g_bsa_tests_total, g_bsa_tests_pass, g_bsa_tests_fail
    status,    \* the non-zero codes or-ed into status by the present module
    slot,      \* the status word of the present test
    started,   \* history: tests started, in order
    printed,   \* history: the results val_report_status printed, in order
    banner     \* what was printed at the end of each module

vars == <<args, opts, pc, m, t, pcie, override, total, pass, fail, status, slot,
          started, printed, banner>>

-----------------------------------------------------------------------------
(* StrDecimalToUintn stops at the first character that is no digit.         *)
StrDecimalToUintn(item) == IF item = Junk THEN 0 ELSE item

Parsed(list) == {StrDecimalToUintn(item) : item \in Range(list)}

(* uint32_t subtraction.                                                    *)
Sub(x, y) == (x - y) % WordSize

NoneChosen(o) == o.t = {} /\ o.m = {}

OnlyModulesChecked(o, base) == NoneChosen(o) \/ base \in o.m

val_check_skip_module(o, base) ==
    \/ NoneChosen(o)
    \/ base \in o.m
    \/ \E n \in o.t : Sub(n, base) < 100

(* The part of val_initialize_test that decides whether the test runs.      *)
SignedOffset(o, n) ==
    /\ n \notin o.skip
    /\ NoneChosen(o) \/ n \in o.t \/ \E base \in o.m : n - base < 100

ChosenTest(o, n) ==
    /\ n \notin o.skip
    /\ \/ NoneChosen(o)
       \/ n \in o.t
       \/ \E base \in o.m : Sub(n, base) > 0 /\ Sub(n, base) < 100

Base == Modules[m].base
Test == Modules[m].tests[t]

Init ==
    /\ args \in Arguments
    /\ opts = [skip |-> {}, t |-> {}, m |-> {}]
    /\ pc = "args"
    /\ m = 1 /\ t = 1
    /\ pcie = FALSE
    /\ override = 0
    /\ total = 0 /\ pass = 0 /\ fail = 0
    /\ status = {} /\ slot = "UNSET"
    /\ started = <<>> /\ printed = <<>>
    /\ banner = [x \in ModuleNums |-> "none"]

(* -t and -m must start with a digit; -skip is taken as it comes.           *)
ParseArguments ==
    /\ pc = "args"
    /\ IF \E option \in {"t", "m"} : args[option] # <<>> /\ args[option][1] = Junk
       THEN pc' = "exit" /\ UNCHANGED opts
       ELSE /\ pc' = "tables"
            /\ opts' = [skip |-> Parsed(args.skip), t |-> Parsed(args.t), m |-> Parsed(args.m)]
    /\ UNCHANGED <<args, m, t, pcie, override, total, pass, fail, status, slot,
                   started, printed, banner>>

(* A table of the harts, the IOMMUs, the interrupt controller or the        *)
(* management controller that cannot be allocated ends the application; the *)
(* timer and PCIe tables are made once the exception handler is in place,   *)
(* and their absence is not an error.                                       *)
CreateInfoTables ==
    /\ pc = "tables"
    /\ pc' \in {"exit", "print", "module"}
    /\ pcie' \in BOOLEAN
    /\ UNCHANGED <<args, opts, m, t, override, total, pass, fail, status, slot,
                   started, printed, banner>>

-----------------------------------------------------------------------------
(* val_<module>_execute_tests up to its first test.                         *)
SkipModule ==
    /\ pc = "module" /\ m \in ModuleNums
    /\ \/ Base \in opts.skip
       \/ ~val_check_skip_module(opts, Base)
       \/ Modules[m].pcie /\ ~pcie
    /\ m' = m + 1
    /\ UNCHANGED <<args, opts, pc, t, pcie, override, total, pass, fail, status, slot,
                   started, printed, banner>>

StartModule ==
    /\ pc = "module" /\ m \in ModuleNums
    /\ Base \notin opts.skip
    /\ val_check_skip_module(opts, Base)
    /\ Modules[m].pcie => pcie
    /\ pc' = "init" /\ t' = 1 /\ status' = {}
    /\ UNCHANGED <<args, opts, m, pcie, override, total, pass, fail, slot, started,
                   printed, banner>>

EndModule ==
    /\ pc = "init"
    /\ ~args.os \/ t > Len(Modules[m].tests)
    /\ banner' = [banner EXCEPT ![m] = IF status = {} THEN "all passed" ELSE "some failed"]
    /\ pc' = "module" /\ m' = m + 1
    /\ UNCHANGED <<args, opts, t, pcie, override, total, pass, fail, status, slot,
                   started, printed>>

Override == override' = IF ChosenTest(opts, Test) THEN 1 ELSE 0

val_initialize_test ==
    /\ pc = "init"
    /\ args.os /\ t =< Len(Modules[m].tests)
    /\ Override
    /\ IF ChosenTest(opts, Test)
       THEN /\ pc' = "payload" /\ slot' = "PENDING"
            /\ total' = total + 1 /\ started' = Append(started, Test)
       ELSE /\ pc' = "check" /\ slot' = "SKIP"
            /\ UNCHANGED <<total, started>>
    /\ UNCHANGED <<args, opts, m, t, pcie, pass, fail, status, printed, banner>>

(* The payload reports, or reports nothing; or it raises an exception, and  *)
(* the handler resumes the application at its label print_test_status.      *)
val_run_test_payload ==
    /\ pc = "payload"
    /\ \/ slot' \in Outcomes \cup {"PENDING"} /\ pc' = "check"
       \/ slot' = "FAIL" /\ pc' = "print"
    /\ UNCHANGED <<args, opts, m, t, pcie, override, total, pass, fail, status, started,
                   printed, banner>>

CountsAsFailed == slot \notin {"PASS", "SKIP"}

(* Bug: the result of the last test replaces those before it.               *)
LastResult == IF slot = "PASS" THEN {} ELSE {slot}

Consolidated == IF slot = "PASS" THEN status ELSE status \cup {slot}

val_report_status ==
    printed' = IF override = 0 THEN printed ELSE Append(printed, <<Test, slot>>)

val_check_for_error ==
    /\ pc = "check"
    /\ val_report_status
    /\ pass' = IF slot = "PASS" THEN pass + 1 ELSE pass
    /\ fail' = IF CountsAsFailed THEN fail + 1 ELSE fail
    /\ status' = Consolidated
    /\ t' = t + 1 /\ pc' = "init"
    /\ UNCHANGED <<args, opts, m, pcie, override, total, slot, started, banner>>

ModulesDone ==
    /\ pc = "module" /\ m = Len(Modules) + 1
    /\ pc' = "print"
    /\ UNCHANGED <<args, opts, m, t, pcie, override, total, pass, fail, status, slot,
                   started, printed, banner>>

PrintTestStatus ==
    /\ pc = "print"
    /\ pc' = "exit"
    /\ UNCHANGED <<args, opts, m, t, pcie, override, total, pass, fail, status, slot,
                   started, printed, banner>>

Exited == pc = "exit" /\ UNCHANGED vars

Step ==
    \/ ParseArguments \/ CreateInfoTables
    \/ SkipModule \/ StartModule \/ EndModule \/ ModulesDone
    \/ val_initialize_test \/ val_run_test_payload \/ val_check_for_error
    \/ PrintTestStatus

Next == Step \/ Exited

Spec == Init /\ [][Next]_vars

-----------------------------------------------------------------------------
TypeOK ==
    /\ pc \in {"args", "tables", "module", "init", "payload", "check", "print", "exit"}
    /\ m \in 1 .. Len(Modules) + 1 /\ t \in Nat \ {0}
    /\ pc \in {"init", "payload", "check"} => m \in ModuleNums
    /\ pc \in {"payload", "check"} => t \in 1 .. Len(Modules[m].tests)
    /\ opts \in [{"skip", "t", "m"} -> SUBSET (0 .. WordSize - 1)]
    /\ pcie \in BOOLEAN /\ override \in {0, 1}
    /\ total \in Nat /\ pass \in Nat /\ fail \in Nat
    /\ slot \in Outcomes \cup {"PENDING", "UNSET"}
    /\ started \in Seq(AllTests)
    /\ banner \in [ModuleNums -> {"none", "all passed", "some failed"}]

(* The help text: -t runs only the given tests, -m only the given modules,  *)
(* -skip takes out tests and modules.                                       *)
Asked(x, n) ==
    /\ n \notin opts.skip /\ Modules[x].base \notin opts.skip
    /\ NoneChosen(opts) \/ n \in opts.t \/ Modules[x].base \in opts.m

(* Only module numbers are given after -m.                                  *)
ModulesNamed == opts.m \subseteq Bases

(* No test runs that the user did not ask for: val_check_skip_module and    *)
(* val_initialize_test together agree with the help text.                   *)
OnlyAskedRun ==
    ModulesNamed =>
        \A x \in ModuleNums : \A n \in TestsOf(x) : n \in Range(started) => Asked(x, n)

(* Every test the user asked for has run when the last module is            *)
(* done: the check of the module never hides a test its own check accepts.  *)
AllAskedRun ==
    (pc = "module" /\ m = Len(Modules) + 1 /\ ModulesNamed) =>
        \A x \in ModuleNums : \A n \in TestsOf(x) :
            (args.os /\ Asked(x, n) /\ (Modules[x].pcie => pcie)) => n \in Range(started)

(* Between tests every test that was started has had exactly one result     *)
(* printed, and no other test has: g_override_skip is never left over from  *)
(* the test before.                                                         *)
OneResultEach ==
    pc \in {"init", "module"} =>
        /\ Len(printed) = Len(started)
        /\ \A x \in DOMAIN started : printed[x][1] = started[x]

Skipped == {x \in DOMAIN printed : printed[x][2] = "SKIP"}
Running == IF Len(printed) < Len(started) THEN 1 ELSE 0

(* The counters of the final report: of the tests run, those that neither   *)
(* passed nor failed are the ones printed as skipped, and the one in        *)
(* progress if an exception ended the run.                                  *)
CountersBalance == total = pass + fail + Cardinality(Skipped) + Running

(* "All tests passed" is printed for a module, in the operating system      *)
(* view, only if every test of the module was run and its result was PASS.  *)
AllPassedIsTrue ==
    \A x \in ModuleNums : (args.os /\ banner[x] = "all passed") =>
        \A n \in TestsOf(x) : <<n, "PASS">> \in Range(printed)

(* What the user reads is what happened: one printed result for each test   *)
(* started, a final report whose counters add up, also after an exception,  *)
(* and a closing line of a module that no lost result turns into a pass.    *)
ReportIsTrue == OneResultEach /\ CountersBalance /\ AllPassedIsTrue
=============================================================================
