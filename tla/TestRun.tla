------------------------------ MODULE TestRun ------------------------------
(***************************************************************************)
(* The protocol by which the validation layer runs one compliance test     *)
(* after another on the harts of the platform.                             *)
(*                                                                         *)
(*   val/src/acs_test_infra.c  val_initialize_test, val_run_test_payload,  *)
(*                             val_wait_for_test_completion,               *)
(*                             val_check_for_error, val_set_test_data      *)
(*   val/src/acs_hart_infra.c  val_execute_on_pe, val_test_entry,          *)
(*                             val_hart_default_esr                        *)
(*   val/src/acs_status.c      val_set_status, val_get_status              *)
(*                                                                         *)
(* The primary hart runs the suite.  A secondary hart is switched on with  *)
(* a PSCI CPU_ON call, reads the payload from its slot of the shared       *)
(* memory, runs it, writes its status in the slot and switches itself off. *)
(* The status word keeps its state and its test number; the checkpoint     *)
(* number is only printed and is left out.                                 *)
(***************************************************************************)
EXTENDS Integers, Sequences, FiniteSets

CONSTANTS
    NumHarts,        \* header.num_of_hart
    Primary,         \* index of the hart that runs the application
    Suite,           \* the tests in the order their entries are called
    Selected,        \* test numbers the user options let run
    TimeoutsExpire   \* do the polling loops ever exhaust their counters?

Harts == 0 .. NumHarts - 1
Secondaries == Harts \ {Primary}

(* "one": the entry sets num_hart = 1.  "all": val_run_test_payload on all  *)
(* the harts.  "seq": test_os_c001, which starts one hart after another.    *)
Kinds == {"one", "all", "seq"}

ASSUME SuiteAssumption ==
    /\ NumHarts \in Nat \ {0}
    /\ Primary \in Harts
    /\ Suite \in Seq([num : Nat, kind : Kinds])
    /\ Suite # <<>>
    /\ TimeoutsExpire \in BOOLEAN

Tests == 1 .. Len(Suite)
Outcomes == {"PASS", "FAIL", "SKIP"}
States == Outcomes \cup {"PENDING", "UNSET"}
Words == [state : States, num : Nat]

VARIABLES
    pc,       \* where the primary hart is
    k,        \* the test it is at
    i,        \* its loop counter
    j,        \* last pending index + 1 of the scan in progress
    status,   \* shared memory: status word of every hart
    data0,    \* shared memory: payload every hart is to run (0: none)
    hart,     \* where each secondary hart is
    vector,   \* the payload a secondary hart has fetched
    shared,   \* the shared memory is allocated
    total, pass, fail,   \* g_bsa_tests_total, g_bsa_tests_pass, g_bsa_tests_fail
    verdict,  \* value each entry returned
    report    \* history: what each hart's payload really reported for a test

primaryVars == <<pc, k, i, j, total, pass, fail, verdict>>
vars == <<pc, k, i, j, status, data0, hart, vector, shared,
          total, pass, fail, verdict, report>>

Word(state, num) == [state |-> state, num |-> num]
Num(t) == Suite[t].num
Kind(t) == IF NumHarts = 1 /\ Suite[t].kind = "all" THEN "one" ELSE Suite[t].kind

(* num_hart as val_initialize_test and val_check_for_error see it.         *)
Width(t) == IF Kind(t) = "one" THEN 1 ELSE NumHarts

Init ==
    /\ pc = "init" /\ k = 1 /\ i = 0 /\ j = 0
    /\ status \in [Harts -> [state : States, num : {0}]]   \* pool memory, not cleared
    /\ data0 = [h \in Harts |-> 0]
    /\ hart = [h \in Harts |-> IF h = Primary THEN "on" ELSE "off"]
    /\ vector = [h \in Harts |-> 0]
    /\ shared = TRUE
    /\ total = 0 /\ pass = 0 /\ fail = 0
    /\ verdict = [t \in Tests |-> "none"]
    /\ report = [t \in Tests |-> [h \in Harts |-> "none"]]

-----------------------------------------------------------------------------
(* The primary hart.                                                       *)

(* val_initialize_test: the slots of harts 0 .. num_hart-1 become PENDING;  *)
(* a deselected test marks the calling hart SKIP and is not counted.        *)
PendingButLast(t) == [h \in Harts |-> IF h < Width(t) - 1 THEN Word("PENDING", Num(t))
                                                         ELSE status[h]]

Pending(t) == [h \in Harts |-> IF h < Width(t) THEN Word("PENDING", Num(t))
                                               ELSE status[h]]

TestsCounted == total + 1

val_initialize_test ==
    /\ pc = "init"
    /\ \/ /\ Num(k) \in Selected
          /\ status' = Pending(k)
          /\ total' = TestsCounted
          /\ pc' = IF Kind(k) = "seq" THEN "regs" ELSE "payload"
       \/ /\ Num(k) \notin Selected
          /\ status' = [Pending(k) EXCEPT ![Primary] = Word("SKIP", Num(k))]
          /\ pc' = "check"
          /\ UNCHANGED total
    /\ i' = 0
    /\ UNCHANGED <<k, j, data0, hart, vector, shared, pass, fail, verdict, report>>

(* The payload on the present hart: it reports an outcome, or (a test of    *)
(* one hart only) returns on a path that reports nothing.                   *)
PayloadOnPrimary ==
    /\ pc = "payload"
    /\ \/ \E r \in Outcomes :
             /\ status' = [status EXCEPT ![Primary] = Word(r, Num(k))]
             /\ report' = [report EXCEPT ![k][Primary] = r]
       \/ Kind(k) = "one" /\ UNCHANGED <<status, report>>
    /\ pc' = IF Kind(k) = "one" THEN "check" ELSE "launch"
    /\ UNCHANGED <<k, i, j, data0, hart, vector, shared, total, pass, fail, verdict>>

(* An unexpected exception in the payload: val_hart_default_esr marks the   *)
(* hart failed and returns to print_test_status, not into the test.         *)
val_hart_default_esr ==
    /\ pc = "payload"
    /\ status' = [status EXCEPT ![Primary] = Word("FAIL", 0)]
    /\ pc' = "print"
    /\ UNCHANGED <<k, i, j, data0, hart, vector, shared, total, pass, fail,
                   verdict, report>>

(* test_os_c001: with one hart the test skips, else it visits the others.   *)
RegisterCompare ==
    /\ pc = "regs"
    /\ IF NumHarts = 1
         THEN /\ status' = [status EXCEPT ![Primary] = Word("SKIP", Num(k))]
              /\ report' = [report EXCEPT ![k][Primary] = "SKIP"]
              /\ pc' = "check"
         ELSE pc' = "launch" /\ UNCHANGED <<status, report>>
    /\ UNCHANGED <<k, i, j, data0, hart, vector, shared, total, pass, fail, verdict>>

(* One turn of the launching loops, up to the PSCI call: the slot of the    *)
(* hart gets the payload before the hart is switched on.                    *)
val_set_test_data ==
    /\ pc = "launch"
    /\ i \in Secondaries
    /\ data0' = [data0 EXCEPT ![i] = k]
    /\ pc' = "cpu_on"
    /\ UNCHANGED <<k, i, j, status, hart, vector, shared, total, pass, fail,
                   verdict, report>>

SkipSelf ==
    /\ pc = "launch"
    /\ i = Primary
    /\ i' = i + 1
    /\ UNCHANGED <<pc, k, j, status, data0, hart, vector, shared, total, pass,
                   fail, verdict, report>>

LaunchDone ==
    /\ pc = "launch"
    /\ i = NumHarts
    /\ pc' = IF Kind(k) = "seq" THEN "check" ELSE "scan"
    /\ i' = 0 /\ j' = 0
    /\ UNCHANGED <<k, status, data0, hart, vector, shared, total, pass, fail,
                   verdict, report>>

(* What follows a val_execute_on_pe call in each kind of test.              *)
AfterExecute == IF Kind(k) = "seq" THEN pc' = "poll" /\ UNCHANGED i
                                   ELSE pc' = "launch" /\ i' = i + 1

(* PSCI CPU_ON as val_execute_on_pe uses it: success on a hart that is off, *)
(* ALREADY_ON on one that is running, ON_PENDING on one that is starting,   *)
(* any other error at any time it would have started the hart.              *)
CpuOnReturns(h, ret) ==
    \/ hart[h] = "off" /\ ret \in {"SUCCESS", "ERROR"}
    \/ hart[h] = "boot" /\ ret = "ON_PENDING"
    \/ hart[h] \in {"entry", "payload", "cpuoff"} /\ ret = "ALREADY_ON"

CpuOnAnswered ==
    /\ pc = "cpu_on"
    /\ \E ret \in {"SUCCESS", "ERROR", "ON_PENDING"} :
         /\ CpuOnReturns(i, ret)
         /\ hart' = IF ret = "SUCCESS" THEN [hart EXCEPT ![i] = "boot"] ELSE hart
         /\ status' = IF ret = "SUCCESS" THEN status
                      ELSE [status EXCEPT ![i] = Word("FAIL", 0)]
         /\ report' = IF ret = "ERROR" THEN [report EXCEPT ![k][i] = "FAIL"] ELSE report
    /\ AfterExecute
    /\ UNCHANGED <<k, j, data0, vector, shared, total, pass, fail, verdict>>

CpuOnRetry ==
    /\ pc = "cpu_on"
    /\ CpuOnReturns(i, "ALREADY_ON")
    /\ pc' = "launch"
    /\ UNCHANGED <<k, i, j, status, data0, hart, vector, shared, total, pass, fail,
                   verdict, report>>

RetryForever == FALSE

CpuOnTimesOut ==
    /\ pc = "cpu_on"
    /\ TimeoutsExpire
    /\ CpuOnReturns(i, "ALREADY_ON")
    /\ status' = [status EXCEPT ![i] = Word("FAIL", 0)]
    /\ AfterExecute
    /\ UNCHANGED <<k, j, data0, hart, vector, shared, total, pass, fail, verdict,
                   report>>

val_execute_on_pe == CpuOnAnswered \/ CpuOnRetry \/ CpuOnTimesOut

(* val_wait_for_test_completion: a scan reads one slot after another ...    *)
ScanEndEarly == NumHarts - 1

ScanEnd == NumHarts

WaitScan ==
    /\ pc = "scan"
    /\ i < ScanEnd
    /\ j' = IF status[i].state = "PENDING" THEN i + 1 ELSE j
    /\ i' = i + 1
    /\ UNCHANGED <<pc, k, status, data0, hart, vector, shared, total, pass, fail,
                   verdict, report>>

RestartScan == i' = 0 /\ j' = 0

WaitScanned ==
    /\ pc = "scan"
    /\ i = ScanEnd
    /\ pc' = IF j = 0 THEN "check" ELSE "scan"
    /\ RestartScan
    /\ UNCHANGED <<k, status, data0, hart, vector, shared, total, pass, fail,
                   verdict, report>>

(* ... and on timeout marks the last index found pending as failed.         *)
WaitTimesOut ==
    /\ pc = "scan"
    /\ TimeoutsExpire
    /\ i = ScanEnd /\ j # 0
    /\ status' = [status EXCEPT ![j - 1] = Word("FAIL", Num(k))]
    /\ pc' = "check"
    /\ i' = 0 /\ j' = 0
    /\ UNCHANGED <<k, data0, hart, vector, shared, total, pass, fail, verdict, report>>

(* test_os_c001 polls the one hart it has started ...                       *)
PollReadOnce ==
    /\ pc = "poll"
    /\ pc' = "judge"
    /\ UNCHANGED <<k, i, j, status, data0, hart, vector, shared, total, pass, fail,
                   verdict, report>>

PollRead ==
    /\ pc = "poll"
    /\ pc' = IF status[i].state = "PENDING" THEN "polled" ELSE "judge"
    /\ UNCHANGED <<k, i, j, status, data0, hart, vector, shared, total, pass, fail,
                   verdict, report>>

PollAgain ==
    /\ pc = "polled"
    /\ pc' = "poll"
    /\ UNCHANGED <<k, i, j, status, data0, hart, vector, shared, total, pass, fail,
                   verdict, report>>

(* ... gives up on that hart ...                                            *)
PollTimesOut ==
    /\ pc = "polled"
    /\ TimeoutsExpire
    /\ status' = [status EXCEPT ![i] = Word("FAIL", Num(k))]
    /\ pc' = "check"
    /\ i' = 0
    /\ UNCHANGED <<k, j, data0, hart, vector, shared, total, pass, fail, verdict, report>>

(* ... or returns as soon as a hart has failed.                             *)
PollJudge ==
    /\ pc = "judge"
    /\ IF status[i].state = "FAIL" THEN pc' = "check" /\ i' = 0
                                   ELSE pc' = "launch" /\ i' = i + 1
    /\ UNCHANGED <<k, j, status, data0, hart, vector, shared, total, pass, fail,
                   verdict, report>>

(* val_check_for_error: with num_hart = 1 the slot of the present hart      *)
(* counts; else the slots are read in turn up to the first FAIL or SKIP.    *)
StopsOnSkipOnly(word) == word.state = "SKIP"

StopsScan(word) == word.state \in {"FAIL", "SKIP"}

Verdict(word) == IF word.state \in {"PASS", "SKIP"} THEN word.state ELSE "FAIL"

Conclude(word) ==
    /\ verdict' = [verdict EXCEPT ![k] = Verdict(word)]
    /\ pass' = IF word.state = "PASS" THEN pass + 1 ELSE pass
    /\ fail' = IF word.state \in {"PASS", "SKIP"} THEN fail ELSE fail + 1
    /\ IF k < Len(Suite) THEN pc' = "init" /\ k' = k + 1
                         ELSE pc' = "print" /\ UNCHANGED k
    /\ i' = 0

val_check_for_error ==
    /\ pc = "check"
    /\ \/ Width(k) = 1 /\ Conclude(status[Primary])
       \/ /\ Width(k) > 1
          /\ StopsScan(status[i]) \/ i = Width(k) - 1
          /\ Conclude(status[i])
       \/ /\ Width(k) > 1
          /\ ~StopsScan(status[i])
          /\ i < Width(k) - 1
          /\ i' = i + 1
          /\ UNCHANGED <<pc, k, pass, fail, verdict>>
    /\ UNCHANGED <<j, status, data0, hart, vector, shared, total, report>>

(* print_test_status: the counters are printed and freeBsaAcsMem gives the  *)
(* shared memory back.                                                      *)
PrintTestStatus ==
    /\ pc = "print"
    /\ shared' = FALSE
    /\ pc' = "done"
    /\ UNCHANGED <<k, i, j, status, data0, hart, vector, total, pass, fail,
                   verdict, report>>

-----------------------------------------------------------------------------
(* A secondary hart.                                                       *)

(* ModuleEntryPoint sets the stack up and enters val_test_entry.            *)
ModuleEntryPoint(h) ==
    /\ hart[h] = "boot"
    /\ hart' = [hart EXCEPT ![h] = "entry"]
    /\ UNCHANGED <<primaryVars, status, data0, vector, shared, report>>

(* val_test_entry fetches the payload from the slot of the hart ...         *)
val_get_test_data(h) ==
    /\ hart[h] = "entry"
    /\ vector' = [vector EXCEPT ![h] = data0[h]]
    /\ hart' = [hart EXCEPT ![h] = "payload"]
    /\ UNCHANGED <<primaryVars, status, data0, shared, report>>

(* ... runs it, and the payload reports in the slot of the hart ...         *)
PayloadOnSecondary(h) ==
    /\ hart[h] = "payload"
    /\ \E r \in Outcomes :
         /\ status' = [status EXCEPT ![h] = Word(r, Num(vector[h]))]
         /\ report' = [report EXCEPT ![vector[h]][h] = r]
    /\ hart' = [hart EXCEPT ![h] = "cpuoff"]
    /\ UNCHANGED <<primaryVars, data0, vector, shared>>

(* ... and makes the PSCI CPU_OFF call.                                     *)
CpuOff(h) ==
    /\ hart[h] = "cpuoff"
    /\ hart' = [hart EXCEPT ![h] = "off"]
    /\ UNCHANGED <<primaryVars, status, data0, vector, shared, report>>

val_test_entry(h) ==
    \/ ModuleEntryPoint(h)
    \/ val_get_test_data(h)
    \/ PayloadOnSecondary(h)
    \/ CpuOff(h)

-----------------------------------------------------------------------------
val_run_test_payload ==
    \/ PayloadOnPrimary \/ val_hart_default_esr
    \/ val_set_test_data \/ SkipSelf \/ LaunchDone \/ val_execute_on_pe
    \/ WaitScan \/ WaitScanned \/ WaitTimesOut

os_c001_payload ==
    RegisterCompare \/ PollRead \/ PollAgain \/ PollTimesOut \/ PollJudge

PrimaryStep ==
    \/ val_initialize_test
    \/ val_run_test_payload
    \/ os_c001_payload
    \/ val_check_for_error
    \/ PrintTestStatus

Finished == pc = "done" /\ UNCHANGED vars

Next ==
    \/ PrimaryStep
    \/ \E h \in Secondaries : val_test_entry(h)
    \/ Finished

Spec == Init /\ [][Next]_vars

(* The primary hart never stops by itself and the polling counters of the   *)
(* code are finite: a loop that could give up again and again does so.  The *)
(* secondary harts may hang anywhere.                                       *)
SpecTimeouts ==
    /\ Spec
    /\ WF_vars(PrimaryStep)
    /\ SF_vars(WaitTimesOut) /\ SF_vars(PollTimesOut) /\ SF_vars(CpuOnTimesOut)

(* Counters that never run out, and harts that all finish their payloads.   *)
SpecPatient ==
    /\ Spec
    /\ WF_vars(PrimaryStep)
    /\ \A h \in Secondaries : WF_vars(val_test_entry(h))

-----------------------------------------------------------------------------
PcValues == {"init", "payload", "regs", "launch", "cpu_on", "scan", "poll",
             "polled", "judge", "check", "print", "done"}

(* Every variable keeps its type.                                           *)
TypeOK ==
    /\ pc \in PcValues
    /\ k \in Tests
    /\ i \in 0 .. NumHarts /\ j \in 0 .. NumHarts
    /\ status \in [Harts -> Words]
    /\ data0 \in [Harts -> Tests \cup {0}]
    /\ hart \in [Harts -> {"off", "boot", "entry", "payload", "cpuoff", "on"}]
    /\ vector \in [Harts -> Tests \cup {0}]
    /\ shared \in BOOLEAN
    /\ total \in Nat /\ pass \in Nat /\ fail \in Nat
    /\ verdict \in [Tests -> Outcomes \cup {"none"}]
    /\ report \in [Tests -> [Harts -> Outcomes \cup {"none"}]]

(* The harts whose payload makes up the result of a test.                   *)
Participants(t) == CASE Kind(t) = "one" -> {Primary}
                     [] Kind(t) = "all" -> Harts
                     [] Kind(t) = "seq" -> IF NumHarts = 1 THEN Harts ELSE Secondaries

(* val_check_for_error counts a test as passed only if the payload of the   *)
(* test ran and reported PASS on every hart the test runs on.               *)
PassIsEarned ==
    \A t \in Tests : verdict[t] = "PASS" =>
        \A h \in Participants(t) : report[t][h] = "PASS"

(* A selected test whose payload reported PASS on every hart is counted as  *)
(* passed: val_check_for_error never turns it into a failure or a skip.     *)
EarnedIsPass ==
    \A t \in Tests :
        (verdict[t] \in {"FAIL", "SKIP"} /\ Num(t) \in Selected) =>
            \E h \in Participants(t) : report[t][h] # "PASS"

(* freeBsaAcsMem gives the shared memory back only when no secondary hart   *)
(* can still read its slot (val_get_test_data) or write it (val_set_status).*)
NoUseAfterFree ==
    ~shared => \A h \in Secondaries : hart[h] \in {"off", "cpuoff"}

(* A PASS is never counted against what the present hart itself reported,   *)
(* however late or silent the other harts are.                              *)
PrimaryResultCounts ==
    \A t \in Tests : (verdict[t] = "PASS" /\ Kind(t) = "all") =>
        report[t][Primary] = "PASS"

(* A hart delivers a result only for the test in progress and only into a   *)
(* slot that this test still waits for: no late val_set_status of an earlier *)
(* payload lands in a later test.                                           *)
NoStaleResult ==
    [][\A h \in Secondaries :
          (hart[h] = "payload" /\ hart'[h] = "cpuoff") =>
              /\ vector[h] = k
              /\ status[h] = Word("PENDING", Num(k))]_vars

(* The suite reaches the summary of ShellAppMain.                           *)
Termination == <>(pc = "done")
=============================================================================
