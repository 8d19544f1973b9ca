--------------------------- MODULE TestRunProofs ----------------------------
(***************************************************************************)
(* Theorems about TestRun, for every number of harts, every suite and      *)
(* every selection of tests: the types, what holds whatever the timeouts   *)
(* and the late harts do, and what holds while no polling counter runs out.*)
(***************************************************************************)
EXTENDS TestRun, TLAPS

USE SMTT(20), ZenonT(60)

(* A hart between CPU_ON and its val_set_status has a payload to run; the   *)
(* loops that talk to a secondary hart hold the index of one.               *)
TypeInv ==
    /\ TypeOK
    /\ \A h \in Harts : hart[h] \in {"boot", "entry"} => data0[h] \in Tests
    /\ \A h \in Harts : hart[h] = "payload" => vector[h] \in Tests
    /\ pc \in {"cpu_on", "poll", "polled", "judge"} => i \in Secondaries
    /\ pc = "cpu_on" => data0[i] = k

(* A step of the suite is a step of one of its parts.                       *)
LEMMA Actions ==
    ASSUME [Next]_vars
    PROVE  \/ val_initialize_test \/ PayloadOnPrimary \/ val_hart_default_esr
           \/ RegisterCompare \/ val_set_test_data \/ SkipSelf \/ LaunchDone
           \/ CpuOnAnswered \/ CpuOnRetry \/ CpuOnTimesOut
           \/ WaitScan \/ WaitScanned \/ WaitTimesOut
           \/ PollRead \/ PollAgain \/ PollTimesOut \/ PollJudge
           \/ val_check_for_error \/ PrintTestStatus
           \/ \E h \in Secondaries : val_test_entry(h)
           \/ UNCHANGED vars
  BY ZenonT(60) DEF Next, PrimaryStep, val_run_test_payload, os_c001_payload,
     val_execute_on_pe, Finished

LEMMA Order ==
    \A a, b \in Nat : /\ a < b => ~(a >= b) /\ a < b + 1 /\ a =< b /\ a # b
                      /\ a =< b => ~(a > b)
                      /\ a > b => a # b
                      /\ a > b + 1 => a > b
                      /\ b + 1 > b /\ ~(a < 0)
                      /\ (a < b + 1 /\ a # b) => a < b
  OBVIOUS

LEMMA Element ==
    ASSUME NEW S, NEW seq \in Seq(S), NEW n \in 1 .. Len(seq)
    PROVE  seq[n] \in S
  OBVIOUS

LEMMA SuiteFacts ==
    /\ \A t \in Tests : Num(t) \in Nat /\ Suite[t].kind \in Kinds
    /\ 1 \in Tests
    /\ \A t \in Tests : t \in Nat /\ t > 0
    /\ \A t \in Tests : t < Len(Suite) => t + 1 \in Tests
    /\ Primary \in Harts /\ NumHarts \in Nat /\ NumHarts > 0
  <1>a. /\ NumHarts \in Nat /\ NumHarts > 0
        /\ Primary \in Harts
        /\ Suite \in Seq([num : Nat, kind : Kinds])
        /\ Suite # <<>>
    BY SuiteAssumption
  <1>b. Len(Suite) \in Nat /\ Len(Suite) # 0
    BY <1>a
  <1>1. Len(Suite) \in Nat /\ Len(Suite) > 0
    BY <1>b
  <1>2. \A t \in Tests : Suite[t] \in [num : Nat, kind : Kinds]
    BY <1>a, Element, ZenonT(60) DEF Tests
  <1>3. QED
    BY <1>a, <1>2 DEF Tests, Num

LEMMA WordTypes ==
    /\ \A n \in Nat : \A s \in {"PASS", "FAIL", "SKIP", "PENDING", "UNSET"} :
          /\ Word(s, n) \in Words
          /\ Word(s, n).state = s
          /\ Word(s, n).num = n
    /\ \A w \in Words : w.state \in {"PASS", "FAIL", "SKIP", "PENDING", "UNSET"}
  BY DEF Word, Words, States, Outcomes

LEMMA OutcomeTypes == {"PASS", "FAIL", "SKIP"} \subseteq Outcomes
  BY DEF Outcomes

LEMMA TypeInit == Init => TypeInv
  BY SuiteFacts DEF Init, TypeInv, TypeOK, PcValues, Words, Secondaries

LEMMA TypeStep == TypeInv /\ [Next]_vars => TypeInv'
  <1> SUFFICES ASSUME TypeInv, [Next]_vars PROVE TypeInv'
    OBVIOUS
  <1>1. CASE val_initialize_test
    <2>1. status' \in [Harts -> Words]
      <3>1. Pending(k) \in [Harts -> Words]
        BY WordTypes, SuiteFacts DEF TypeInv, TypeOK, Secondaries, Pending
      <3>2. Word("SKIP", Num(k)) \in Words
        BY WordTypes, SuiteFacts, ZenonT(60) DEF TypeInv, TypeOK, Secondaries
      <3>3. QED
        BY <1>1, <3>1, <3>2, ZenonT(60) DEF val_initialize_test
    <2>2. QED
      BY <1>1, <2>1, SuiteFacts DEF TypeInv, TypeOK, PcValues, val_initialize_test,
         TestsCounted
  <1>2. CASE PayloadOnPrimary
    <2>1. status' \in [Harts -> Words]
      BY <1>2, WordTypes, SuiteFacts DEF TypeInv, TypeOK, PcValues, PayloadOnPrimary,
         Outcomes
    <2>2. report' \in [Tests -> [Harts -> Outcomes \cup {"none"}]]
      <3>1. ASSUME NEW r \in Outcomes
            PROVE  [report EXCEPT ![k][Primary] = r]
                       \in [Tests -> [Harts -> Outcomes \cup {"none"}]]
        BY SuiteFacts DEF TypeInv, TypeOK
      <3>2. \/ \E r \in Outcomes : report' = [report EXCEPT ![k][Primary] = r]
            \/ report' = report
        BY <1>2, ZenonT(60) DEF PayloadOnPrimary
      <3>3. CASE report' = report
        BY <3>3 DEF TypeInv, TypeOK
      <3>4. ASSUME NEW r \in Outcomes, report' = [report EXCEPT ![k][Primary] = r]
            PROVE  report' \in [Tests -> [Harts -> Outcomes \cup {"none"}]]
        BY <3>4, SuiteFacts DEF TypeInv, TypeOK
      <3>5. QED
        BY <3>2, <3>4, ZenonT(60) DEF TypeInv, TypeOK
    <2>3. QED
      BY <1>2, <2>1, <2>2, ZenonT(60) DEF TypeInv, TypeOK, PcValues, PayloadOnPrimary
  <1>3. CASE val_hart_default_esr
    <2>1. status' \in [Harts -> Words]
      BY <1>3, WordTypes, SuiteFacts, ZenonT(60) DEF TypeInv, TypeOK, Secondaries,
         PcValues, val_hart_default_esr
    <2>2. QED
      BY <1>3, <2>1, ZenonT(60) DEF TypeInv, TypeOK, PcValues, val_hart_default_esr
  <1>4. CASE RegisterCompare
    <2>1. status' \in [Harts -> Words]
      BY <1>4, WordTypes, SuiteFacts DEF TypeInv, TypeOK, Harts, RegisterCompare
    <2>2. report' \in [Tests -> [Harts -> Outcomes \cup {"none"}]]
      <3>1. [report EXCEPT ![k][Primary] = "SKIP"]
                \in [Tests -> [Harts -> Outcomes \cup {"none"}]]
        BY OutcomeTypes, SuiteFacts DEF TypeInv, TypeOK
      <3>2. QED
        BY <1>4, <3>1, ZenonT(60) DEF TypeInv, TypeOK, RegisterCompare
    <2>3. QED
      BY <1>4, <2>1, <2>2, ZenonT(60) DEF TypeInv, TypeOK, PcValues, RegisterCompare
  <1>5. CASE val_set_test_data
    BY <1>5 DEF TypeInv, TypeOK, Secondaries, PcValues, val_set_test_data
  <1>6. CASE SkipSelf \/ LaunchDone
    <2>1. CASE SkipSelf
      BY <2>1, SuiteFacts DEF TypeInv, TypeOK, Harts, PcValues, SkipSelf
    <2>2. CASE LaunchDone
      BY <2>2 DEF TypeInv, TypeOK, PcValues, LaunchDone
    <2>3. QED
      BY <1>6, <2>1, <2>2, ZenonT(60)
  <1>7. CASE CpuOnAnswered
    <2>1. status' \in [Harts -> Words]
      BY <1>7, WordTypes DEF TypeInv, TypeOK, Secondaries, CpuOnAnswered, CpuOnReturns
    <2>2. report' \in [Tests -> [Harts -> Outcomes \cup {"none"}]]
      BY <1>7 DEF TypeInv, TypeOK, Secondaries, CpuOnAnswered, Outcomes
    <2>3. QED
      BY <1>7, <2>1, <2>2, SuiteFacts DEF TypeInv, TypeOK, Harts, Secondaries, PcValues,
         CpuOnAnswered, AfterExecute, Outcomes
  <1>8. CASE CpuOnRetry \/ CpuOnTimesOut
    <2>1. status' \in [Harts -> Words]
      <3>1. CASE CpuOnRetry
        BY <3>1, ZenonT(60) DEF TypeInv, TypeOK, CpuOnRetry
      <3>2. CASE CpuOnTimesOut
        BY <3>2, WordTypes, ZenonT(60) DEF TypeInv, TypeOK, CpuOnTimesOut
      <3>3. QED
        BY <1>8, <3>1, <3>2, ZenonT(60)
    <2>2. QED
      <3>1. CASE CpuOnRetry
        BY <3>1, ZenonT(60) DEF TypeInv, TypeOK, PcValues, CpuOnRetry
      <3>2. CASE CpuOnTimesOut
        BY <3>2, <2>1, SuiteFacts DEF TypeInv, TypeOK, Harts, PcValues, CpuOnTimesOut,
           AfterExecute
      <3>3. QED
        BY <1>8, <3>1, <3>2, ZenonT(60)
  <1>9. CASE WaitScan \/ WaitScanned
    <2>1. CASE WaitScan
      BY <2>1, SuiteFacts DEF TypeInv, TypeOK, WaitScan, ScanEnd
    <2>2. CASE WaitScanned
      BY <2>2 DEF TypeInv, TypeOK, PcValues, WaitScanned, ScanEnd, RestartScan
    <2>3. QED
      BY <1>9, <2>1, <2>2, ZenonT(60), SuiteFacts
  <1>10. CASE WaitTimesOut
    <2>1. status' \in [Harts -> Words]
      BY <1>10, WordTypes, SuiteFacts, ZenonT(60) DEF TypeInv, TypeOK, Harts, PcValues,
         WaitTimesOut, ScanEnd
    <2>2. QED
      BY <1>10, <2>1 DEF TypeInv, TypeOK, Secondaries, PcValues, WaitTimesOut, ScanEnd
  <1>11. CASE PollRead \/ PollAgain \/ PollJudge
    <2>1. CASE PollRead
      BY <2>1, ZenonT(60) DEF TypeInv, TypeOK, Secondaries, PcValues, PollRead
    <2>2. CASE PollAgain
      BY <2>2, ZenonT(60) DEF TypeInv, TypeOK, PcValues, PollAgain
    <2>3. CASE PollJudge
      BY <2>3, SuiteFacts DEF TypeInv, TypeOK, Harts, Secondaries, PcValues, PollJudge
    <2>4. QED
      BY <1>11, <2>1, <2>2, <2>3, ZenonT(60)
  <1>12. CASE PollTimesOut
    <2>1. status' \in [Harts -> Words]
      BY <1>12, WordTypes, SuiteFacts, ZenonT(60) DEF TypeInv, TypeOK, Secondaries,
         PcValues, PollTimesOut
    <2>2. QED
      BY <1>12, <2>1, SuiteFacts DEF TypeInv, TypeOK, PcValues, PollTimesOut
  <1>13. CASE val_check_for_error
    <2>1. ASSUME NEW w, Conclude(w)
          PROVE  /\ verdict' \in [Tests -> Outcomes \cup {"none"}]
                 /\ pass' \in Nat /\ fail' \in Nat /\ k' \in Tests /\ i' = 0
                 /\ pc' \in {"init", "print"}
      <3>1. Verdict(w) \in Outcomes
        BY OutcomeTypes DEF Verdict
      <3>2. QED
        BY <2>1, <3>1 DEF TypeInv, TypeOK, Secondaries, Conclude, Tests
    <2>2. \/ \E w : Conclude(w)
          \/ /\ i' = i + 1 /\ i < Width(k) - 1
             /\ UNCHANGED <<pc, k, pass, fail, verdict>>
      BY <1>13 DEF Harts, val_check_for_error
    <2>3. Width(k) \in 0 .. NumHarts
      BY SuiteFacts DEF Harts, Secondaries, PcValues, Width
    <2>4. QED
      <3>1. UNCHANGED <<j, status, data0, hart, vector, shared, total, report>>
        BY <1>13 DEF val_check_for_error
      <3>2. pc = "check"
        BY <1>13 DEF Secondaries, PcValues, val_check_for_error
      <3>3. CASE \E w : Conclude(w)
        BY <3>1, <3>3, <2>1, SuiteFacts DEF TypeInv, TypeOK, PcValues
      <3>4. CASE /\ i' = i + 1 /\ i < Width(k) - 1
                 /\ UNCHANGED <<pc, k, pass, fail, verdict>>
        BY <3>1, <3>2, <3>4, <2>3, SuiteFacts DEF TypeInv, TypeOK, PcValues
      <3>5. QED
        BY <2>2, <3>3, <3>4, ZenonT(60)
  <1>14. CASE PrintTestStatus
    BY <1>14, ZenonT(60) DEF TypeInv, TypeOK, PcValues, PrintTestStatus
  <1>15. ASSUME NEW h \in Secondaries, ModuleEntryPoint(h) \/ CpuOff(h)
         PROVE  TypeInv'
    <2>1. CASE ModuleEntryPoint(h)
      BY <2>1, ZenonT(60) DEF TypeInv, TypeOK, Secondaries, ModuleEntryPoint, primaryVars
    <2>2. CASE CpuOff(h)
      BY <2>2, ZenonT(60) DEF TypeInv, TypeOK, Secondaries, CpuOff, primaryVars
    <2>3. QED
      BY <1>15, <2>1, <2>2, ZenonT(60)
  <1>16. ASSUME NEW h \in Secondaries, val_get_test_data(h)
         PROVE  TypeInv'
    BY <1>16, ZenonT(60) DEF TypeInv, TypeOK, Secondaries, val_get_test_data, primaryVars
  <1>17. ASSUME NEW h \in Secondaries, PayloadOnSecondary(h)
         PROVE  TypeInv'
    <2>1. status' \in [Harts -> Words]
      BY <1>17, WordTypes, SuiteFacts DEF TypeInv, TypeOK, Secondaries, PayloadOnSecondary,
         Outcomes
    <2>2. report' \in [Tests -> [Harts -> Outcomes \cup {"none"}]]
      BY <1>17 DEF TypeInv, TypeOK, Secondaries, PayloadOnSecondary
    <2>3. QED
      BY <1>17, <2>1 DEF TypeInv, TypeOK, PayloadOnSecondary, primaryVars
  <1>18. CASE UNCHANGED vars
    BY <1>18 DEF TypeInv, TypeOK, Secondaries, PcValues, vars
  <1>19. QED
    BY <1>1, <1>2, <1>3, <1>4, <1>5, <1>6, <1>7, <1>8, <1>9, <1>10, <1>11, <1>12,
       <1>13, <1>14, <1>15, <1>16, <1>17, <1>18, Actions, ZenonT(60) DEF val_test_entry

(* Every variable keeps its type, timeouts or not: in particular no loop    *)
(* leaves the range of the hart table and no verdict is a PENDING word.     *)
THEOREM TypeCorrect == Spec => []TypeOK
  <1>1. Init => TypeInv
    BY TypeInit
  <1>2. TypeInv /\ [Next]_vars => TypeInv'
    BY TypeStep
  <1>3. TypeInv => TypeOK
    BY DEF TypeInv
  <1>4. QED
    BY <1>1, <1>2, <1>3, PTL DEF Spec

-----------------------------------------------------------------------------
(* Where the primary hart is in a test.                                    *)

(* The control points at which a secondary hart may be running.             *)
Waiting == {"launch", "cpu_on", "scan", "poll", "polled", "judge"}

PcInv ==
    /\ pc \in Waiting \cup {"payload", "regs"} => Num(k) \in Selected
    /\ pc \in {"launch", "cpu_on"} => Kind(k) \in {"all", "seq"}
    /\ pc = "scan" => Kind(k) = "all"
    /\ pc \in {"poll", "polled", "judge", "regs"} => Kind(k) = "seq"
    /\ pc = "payload" => Kind(k) \in {"one", "all"}
    /\ pc \in {"init", "payload", "regs"} => i = 0

(* A verdict is given once, when a test ends; memory is freed at the end.  *)
VerdictInv ==
    /\ \A t \in Tests : (t > k \/ (t = k /\ pc \notin {"print", "done"})) => verdict[t] = "none"
    /\ ~shared => pc = "done"

LEMMA KindFacts ==
    \A t \in Tests :
        /\ Kind(t) \in Kinds
        /\ Kind(t) = "all" => NumHarts > 1 /\ Participants(t) = Harts
        /\ Kind(t) = "one" => Participants(t) = {Primary} /\ Width(t) = 1
        /\ Kind(t) = "seq" => IF NumHarts = 1 THEN Participants(t) = Harts
                                              ELSE Participants(t) = Secondaries
        /\ Kind(t) # "one" => Width(t) = NumHarts
        /\ Width(t) \in 1 .. NumHarts
        /\ Participants(t) \subseteq Harts
  BY SuiteFacts DEF Kind, Kinds, Participants, Width, Secondaries

LEMMA ControlStep ==
    TypeInv /\ PcInv /\ VerdictInv /\ [Next]_vars => PcInv' /\ VerdictInv'
  <1> SUFFICES ASSUME TypeInv, PcInv, VerdictInv, [Next]_vars
               PROVE  PcInv' /\ VerdictInv'
    OBVIOUS
  <1>k. k \in Tests /\ Kind(k) \in {"one", "all", "seq"}
    BY KindFacts DEF Kinds, TypeInv, TypeOK
  <1>v. ASSUME UNCHANGED <<k, verdict, shared>>, pc \notin {"print", "done"}
        PROVE  VerdictInv'
    BY <1>v DEF VerdictInv
  <1> USE DEF PcInv, Waiting
  <1>1. CASE val_initialize_test
    BY <1>1, <1>k, <1>v DEF val_initialize_test
  <1>2. CASE PayloadOnPrimary
    BY <1>2, <1>v DEF PayloadOnPrimary
  <1>3. CASE val_hart_default_esr
    BY <1>3, <1>v DEF val_hart_default_esr
  <1>4. CASE RegisterCompare
    BY <1>4, <1>v DEF RegisterCompare
  <1>5. CASE val_set_test_data
    BY <1>5, <1>v DEF val_set_test_data
  <1>6. CASE SkipSelf \/ LaunchDone
    BY <1>6, <1>v DEF SkipSelf, LaunchDone
  <1>7. CASE CpuOnAnswered \/ CpuOnTimesOut
    BY <1>7, <1>v, ZenonT(60) DEF CpuOnAnswered, CpuOnTimesOut, AfterExecute
  <1>8. CASE CpuOnRetry
    BY <1>8, <1>v DEF CpuOnRetry
  <1>9. CASE WaitScan
    BY <1>9, <1>v DEF WaitScan
  <1>10. CASE WaitScanned
    BY <1>10, <1>v DEF WaitScanned
  <1>11. CASE WaitTimesOut
    BY <1>11, <1>v DEF WaitTimesOut
  <1>12. CASE PollRead \/ PollAgain
    BY <1>12, <1>v DEF PollRead, PollAgain
  <1>13. CASE PollTimesOut \/ PollJudge
    BY <1>13, <1>v DEF PollTimesOut, PollJudge
  <1>14. CASE val_check_for_error
    <2>1. ASSUME NEW w, pc = "check", shared' = shared, Conclude(w)
          PROVE  PcInv' /\ VerdictInv'
      <3>1. /\ \A t \in Tests : t # k => verdict'[t] = verdict[t]
            /\ \/ k' = k + 1 /\ pc' = "init"
               \/ k' = k /\ pc' = "print"
            /\ i' = 0
        BY <2>1 DEF Conclude, TypeOK
      <3>2. VerdictInv'
        BY <2>1, <3>1, <1>k DEF VerdictInv, Tests
      <3>3. QED
        BY <3>1, <3>2
    <2>2. QED
      BY <1>14, <2>1, <1>v, ZenonT(60) DEF val_check_for_error
  <1>15. CASE PrintTestStatus
    BY <1>15 DEF PrintTestStatus, VerdictInv
  <1>16. ASSUME NEW h \in Secondaries, val_test_entry(h)
         PROVE  PcInv' /\ VerdictInv'
    <2>1. UNCHANGED <<pc, k, i, verdict, shared>>
      BY <1>16, ZenonT(60) DEF val_test_entry, ModuleEntryPoint, val_get_test_data,
         PayloadOnSecondary, CpuOff, primaryVars
    <2>2. QED
      BY <2>1 DEF VerdictInv
  <1>17. CASE UNCHANGED vars
    BY <1>17 DEF vars, VerdictInv
  <1>18. QED
    BY <1>1, <1>2, <1>3, <1>4, <1>5, <1>6, <1>7, <1>8, <1>9, <1>10, <1>11, <1>12,
       <1>13, <1>14, <1>15, <1>16, <1>17, Actions, ZenonT(60)
-----------------------------------------------------------------------------
(* The slot of the present hart holds what its own payload reported: no     *)
(* other hart writes it and no wait gives up on it.                         *)
PrimaryInv ==
    /\ (pc \in Waiting \cup {"check"} /\ Kind(k) = "all" /\ Num(k) \in Selected) =>
          /\ report[k][Primary] \in Outcomes
          /\ status[Primary].state = report[k][Primary]
    /\ (pc = "scan" /\ j # 0) => j - 1 # Primary
    /\ pc = "check" =>
          /\ i < Width(k)
          /\ Primary < i => status[Primary].state \notin {"FAIL", "SKIP"}
          /\ Num(k) \notin Selected => status[Primary].state = "SKIP"

LateInv == TypeInv /\ PcInv /\ VerdictInv /\ PrimaryInv /\ PrimaryResultCounts

(* A step that writes no verdict and no report of the present hart.         *)
LEMMA ResultKept ==
    ASSUME PrimaryResultCounts, verdict' = verdict,
           \A t \in Tests : report'[t][Primary] = report[t][Primary]
    PROVE  PrimaryResultCounts'
  BY DEF PrimaryResultCounts

LEMMA LateInit == Init => LateInv
  BY TypeInit DEF Init, LateInv, PcInv, VerdictInv, PrimaryInv, PrimaryResultCounts,
     Waiting

LEMMA LateStep == LateInv /\ [Next]_vars => LateInv'
  <1> SUFFICES ASSUME LateInv, [Next]_vars PROVE LateInv'
    OBVIOUS
  <1>t. TypeInv /\ TypeInv' /\ PcInv' /\ VerdictInv'
    BY TypeStep, ControlStep DEF LateInv
  <1>s. SUFFICES PrimaryInv' /\ PrimaryResultCounts'
    BY <1>t DEF LateInv
  <1>n. NumHarts \in Nat /\ NumHarts > 0 /\ Primary \in Harts /\ k \in Tests
    BY <1>t, SuiteFacts, ZenonT(60) DEF TypeInv, TypeOK
  <1>k. /\ k \in Tests /\ Primary \in Harts /\ Primary \in Nat /\ i \in Nat /\ j \in Nat
        /\ status \in [Harts -> Words]
        /\ report \in [Tests -> [Harts -> Outcomes \cup {"none"}]]
        /\ verdict \in [Tests -> Outcomes \cup {"none"}]
        /\ Width(k) \in Nat /\ Width(k) > 0 /\ Width(k) =< NumHarts /\ Num(k) \in Nat
        /\ Kind(k) = "all" => Width(k) = NumHarts /\ NumHarts > 1
        /\ Kind(k) \in {"one", "all", "seq"}
    <2>1. Primary \in Nat /\ i \in Nat /\ j \in Nat
      BY <1>t, <1>n DEF TypeInv, TypeOK, Harts
    <2>2. /\ Width(k) \in 1 .. NumHarts /\ Num(k) \in Nat
          /\ Kind(k) = "all" => Width(k) = NumHarts /\ NumHarts > 1
          /\ Kind(k) \in {"one", "all", "seq"}
      BY <1>n, SuiteFacts, KindFacts DEF Kinds
    <2>3. QED
      BY <1>t, <1>n, <2>1, <2>2 DEF TypeInv, TypeOK
  <1>w. Outcomes = {"PASS", "FAIL", "SKIP"} /\ "none" \notin Outcomes
    BY DEF Outcomes
  <1> USE DEF LateInv, Waiting
  <1>1. CASE val_initialize_test
    <2>1. PrimaryInv'
      <3>1. CASE Num(k) \in Selected
        BY <1>1, <3>1, ZenonT(60) DEF val_initialize_test, PrimaryInv
      <3>2. CASE Num(k) \notin Selected
        <4>1. status'[Primary].state = "SKIP"
          BY <1>1, <1>k, <3>2, WordTypes DEF val_initialize_test, Pending
        <4>2. QED
          BY <1>1, <1>k, <4>1 DEF val_initialize_test, PrimaryInv
      <3>3. QED
        BY <3>1, <3>2
    <2>2. PrimaryResultCounts'
      BY <1>1 DEF val_initialize_test, PrimaryResultCounts
    <2>3. QED
      BY <2>1, <2>2
  <1>2. CASE PayloadOnPrimary
    <2>1. CASE Kind(k) = "one" /\ UNCHANGED <<status, report>>
      BY <1>2, <1>k, <2>1 DEF PayloadOnPrimary, PrimaryInv, PcInv, PrimaryResultCounts
    <2>2. ASSUME NEW r \in Outcomes,
                 status' = [status EXCEPT ![Primary] = Word(r, Num(k))],
                 report' = [report EXCEPT ![k][Primary] = r]
          PROVE  PrimaryInv' /\ PrimaryResultCounts'
      <3>1. status'[Primary].state = r /\ report'[k][Primary] = r
        BY <2>2, <1>k, <1>w, WordTypes
      <3>2. PrimaryInv'
        BY <1>2, <1>k, <3>1 DEF PayloadOnPrimary, PrimaryInv, PcInv
      <3>3. verdict[k] = "none" /\ verdict' = verdict
        BY <1>2, <1>k, ZenonT(60) DEF PayloadOnPrimary, VerdictInv
      <3>4. \A t \in Tests : t # k => report'[t] = report[t]
        BY <2>2
      <3>5. PrimaryResultCounts'
        BY <3>3, <3>4 DEF PrimaryResultCounts
      <3>6. QED
        BY <3>2, <3>5
    <2>3. QED
      BY <1>2, <2>1, <2>2 DEF PayloadOnPrimary
  <1>3. CASE val_hart_default_esr \/ PrintTestStatus
    BY <1>3, ZenonT(60) DEF val_hart_default_esr, PrintTestStatus, PrimaryInv,
       PrimaryResultCounts
  <1>4. CASE RegisterCompare
    <2>1. PrimaryInv'
      BY <1>4, <1>k DEF RegisterCompare, PrimaryInv, PcInv
    <2>2. verdict[k] = "none" /\ verdict' = verdict
      BY <1>4, <1>k DEF RegisterCompare, VerdictInv
    <2>3. \A t \in Tests : t # k => report'[t] = report[t]
      BY <1>4, <1>k DEF RegisterCompare
    <2>4. PrimaryResultCounts'
      BY <2>2, <2>3 DEF PrimaryResultCounts
    <2>5. QED
      BY <2>1, <2>4
  <1>5. CASE val_set_test_data \/ SkipSelf \/ LaunchDone \/ CpuOnRetry
    BY <1>5, <1>k DEF val_set_test_data, SkipSelf, LaunchDone, CpuOnRetry, PcInv,
       PrimaryInv, PrimaryResultCounts
  <1>6. CASE CpuOnAnswered \/ CpuOnTimesOut
    <2>1. pc = "cpu_on" /\ i \in Harts /\ i # Primary
      BY <1>6, ZenonT(60) DEF CpuOnAnswered, CpuOnTimesOut, TypeInv, Secondaries
    <2>2. /\ pc' \in {"launch", "poll"} /\ k' = k /\ verdict' = verdict
          /\ status'[Primary] = status[Primary]
      BY <1>6, <1>k, <2>1, ZenonT(60) DEF CpuOnAnswered, CpuOnTimesOut, AfterExecute
    <2>3. \A t \in Tests : report'[t][Primary] = report[t][Primary]
      BY <1>6, <1>k, <2>1 DEF CpuOnAnswered, CpuOnTimesOut
    <2>4. PrimaryInv'
      BY <1>k, <2>1, <2>2, <2>3, ZenonT(60) DEF PrimaryInv
    <2>5. QED
      BY <2>2, <2>3, <2>4, ResultKept
  <1>7. CASE WaitScan \/ WaitScanned
    BY <1>7, <1>k, <1>w DEF WaitScan, WaitScanned, RestartScan, PcInv, PrimaryInv,
       PrimaryResultCounts
  <1>8. CASE WaitTimesOut
    <2>1. status'[Primary] = status[Primary]
      BY <1>8 DEF WaitTimesOut, PrimaryInv
    <2>2. QED
      BY <1>8, <1>k DEF WaitTimesOut, PcInv, PrimaryInv, PrimaryResultCounts
  <1>9. CASE PollRead \/ PollAgain \/ PollTimesOut \/ PollJudge
    BY <1>9, <1>k DEF PollRead, PollAgain, PollTimesOut, PollJudge, PcInv, PrimaryInv,
       PrimaryResultCounts
  <1>10. CASE val_check_for_error
    <2>1. pc = "check" /\ UNCHANGED <<j, status, report>>
      BY <1>10 DEF val_check_for_error
    <2>2. CASE /\ ~StopsScan(status[i]) /\ i < Width(k) - 1 /\ i' = i + 1
               /\ UNCHANGED <<pc, k, pass, fail, verdict>>
      BY <1>k, <2>1, <2>2 DEF PrimaryInv, PrimaryResultCounts, StopsScan
    <2>3. ASSUME NEW h \in Harts, Conclude(status[h]),
                 (status[h].state = "PASS" /\ Kind(k) = "all") => report[k][Primary] = "PASS"
          PROVE  PrimaryInv' /\ PrimaryResultCounts'
      <3>1. /\ pc' \in {"init", "print"}
            /\ \A t \in Tests : verdict'[t] = IF t = k THEN Verdict(status[h]) ELSE verdict[t]
        BY <1>k, <2>3 DEF Conclude
      <3>2. QED
        BY <2>1, <2>3, <3>1, ZenonT(60) DEF PrimaryInv, PrimaryResultCounts, Verdict
    <2>4. CASE Width(k) = 1 /\ Conclude(status[Primary])
      BY <1>k, <2>3, <2>4
    <2>5. CASE /\ Width(k) > 1 /\ (StopsScan(status[i]) \/ i = Width(k) - 1)
               /\ Conclude(status[i])
      <3>1. i \in Harts
        BY <1>k, <1>n, <2>1 DEF PrimaryInv, Harts
      <3>2. ASSUME status[i].state = "PASS", Kind(k) = "all"
            PROVE  report[k][Primary] = "PASS"
        <4>1. i = NumHarts - 1
          BY <1>k, <2>5, <3>2 DEF StopsScan
        <4>2. status[Primary].state \notin {"FAIL", "SKIP"}
          BY <2>1, <3>2, <4>1, SuiteFacts DEF PrimaryInv, Harts
        <4>3. QED
          BY <1>w, <2>1, <3>2, <4>2, ZenonT(60) DEF PrimaryInv
      <3>3. QED
        BY <2>3, <2>5, <3>1, <3>2
    <2>6. QED
      BY <1>10, <2>2, <2>4, <2>5, ZenonT(60) DEF val_check_for_error
  <1>11. ASSUME NEW h \in Secondaries, val_test_entry(h)
         PROVE  PrimaryInv' /\ PrimaryResultCounts'
    <2>1. h \in Harts /\ h # Primary
      BY DEF Secondaries
    <2>2. /\ UNCHANGED <<pc, k, i, j, verdict>>
          /\ status'[Primary] = status[Primary]
      BY <1>11, <1>k, <2>1, ZenonT(60) DEF val_test_entry, ModuleEntryPoint,
         val_get_test_data, PayloadOnSecondary, CpuOff, primaryVars
    <2>3. \A t \in Tests : report'[t][Primary] = report[t][Primary]
      <3>1. CASE UNCHANGED report
        BY <3>1
      <3>2. ASSUME NEW r, report' = [report EXCEPT ![vector[h]][h] = r]
            PROVE  \A t \in Tests : report'[t][Primary] = report[t][Primary]
        BY <2>1, <3>2
      <3>3. QED
        BY <1>11, <3>2, ZenonT(60) DEF val_test_entry, ModuleEntryPoint, val_get_test_data,
           PayloadOnSecondary, CpuOff
    <2>4. PrimaryInv'
      BY <1>k, <2>2, <2>3, ZenonT(60) DEF PrimaryInv
    <2>5. QED
      BY <2>2, <2>3, <2>4, ResultKept
  <1>12. CASE UNCHANGED vars
    BY <1>12, ZenonT(60) DEF vars, PrimaryInv, PrimaryResultCounts
  <1>13. QED
    BY <1>1, <1>2, <1>3, <1>4, <1>5, <1>6, <1>7, <1>8, <1>9, <1>10, <1>11, <1>12, Actions,
       ZenonT(60)

(* With or without timeouts, wherever the present hart is in the table and  *)
(* however late the others are: val_check_for_error never counts a test on  *)
(* all harts as passed unless the present hart itself reported PASS.        *)
THEOREM PrimaryResultAlwaysCounts == Spec => []PrimaryResultCounts
  <1>1. LateInv => PrimaryResultCounts
    BY DEF LateInv
  <1>2. QED
    BY LateInit, LateStep, <1>1, PTL DEF Spec

-----------------------------------------------------------------------------
(* While no polling counter runs out.                                      *)

(* No loop gives up, and the hart that runs a test of one hart owns slot 0, *)
(* the one val_initialize_test resets.                                      *)
Patient ==
    /\ ~TimeoutsExpire
    /\ \A t \in Tests : Kind(t) = "one" => Primary = 0

Active(h) == hart[h] \in {"boot", "entry", "payload"}

InTest == Waiting \cup {"payload", "regs", "check"}

(* A running hart works for the test in progress, which still waits for it. *)
HartInv ==
    \A h \in Secondaries : Active(h) =>
        /\ pc \in Waiting
        /\ data0[h] = k
        /\ hart[h] = "payload" => vector[h] = k
        /\ status[h] = Word("PENDING", Num(k))
        /\ pc \in {"launch", "cpu_on"} => h < i
        /\ pc \in {"poll", "polled", "judge"} => h =< i

(* A PASS in a slot of the test in progress was reported by its hart.       *)
StatusInv ==
    (pc \in InTest /\ Num(k) \in Selected) =>
        \A h \in Participants(k) :
            /\ status[h].state # "UNSET"
            /\ status[h].state = "PASS" => report[k][h] = "PASS"

(* The slots of the harts still to be started are pending, the slots the    *)
(* loops have left behind are not.                                          *)
SlotInv ==
    /\ (pc \in {"payload", "regs", "launch", "cpu_on"} /\ Kind(k) # "one") =>
          \A h \in Secondaries : h >= i => status[h] = Word("PENDING", Num(k))
    /\ pc \in {"poll", "polled", "judge"} =>
          \A h \in Secondaries : h > i => status[h] = Word("PENDING", Num(k))
    /\ (pc \in Waiting /\ Kind(k) = "seq") =>
          \A h \in Secondaries : h < i => status[h].state # "PENDING"
    /\ pc = "judge" => status[i].state # "PENDING"
    /\ (pc = "scan" /\ j = 0) =>
          \A h \in Harts : h < i => status[h].state # "PENDING"

CheckInv ==
    pc = "check" =>
        /\ i < Width(k)
        /\ \A h \in Harts : h < i => status[h].state \notin {"FAIL", "SKIP"}
        /\ Num(k) \notin Selected => status[Primary].state = "SKIP"
        /\ (Num(k) \in Selected /\ Kind(k) = "all") =>
              \A h \in Harts : status[h].state # "PENDING"
        /\ (Num(k) \in Selected /\ Kind(k) = "seq" /\ NumHarts > 1) =>
              \/ \A h \in Secondaries : status[h].state # "PENDING"
              \/ \E h \in Secondaries : status[h].state = "FAIL"

IndInv ==
    /\ TypeInv /\ PcInv /\ HartInv /\ StatusInv /\ SlotInv /\ CheckInv
    /\ VerdictInv /\ PassIsEarned

LEMMA IndInit == Init => IndInv
  BY TypeInit, ZenonT(60) DEF Init, IndInv, PcInv, HartInv, StatusInv, SlotInv, CheckInv,
     VerdictInv, PassIsEarned, Active, Waiting, InTest, Secondaries, Harts

(* No secondary hart is ever taken for the present hart.                    *)
SecondariesOff == \A h \in Secondaries : hart[h] # "on"

LEMMA SecondariesStayOff == TypeInv /\ SecondariesOff /\ [Next]_vars => SecondariesOff'
  <1> SUFFICES ASSUME TypeInv, SecondariesOff, [Next]_vars PROVE SecondariesOff'
    OBVIOUS
  <1>1. ASSUME NEW h \in Harts, NEW v \in {"boot", "entry", "payload", "cpuoff", "off"},
               hart' = [hart EXCEPT ![h] = v]
        PROVE  SecondariesOff'
    BY <1>1 DEF SecondariesOff
  <1>2. CASE UNCHANGED hart
    BY <1>2 DEF SecondariesOff
  <1>3. CASE CpuOnAnswered
    <2>1. i \in Harts
      BY <1>3 DEF CpuOnAnswered, TypeInv, Secondaries
    <2>2. QED
      BY <1>1, <1>2, <1>3, <2>1, ZenonT(60) DEF CpuOnAnswered
  <1>4. ASSUME NEW h \in Secondaries, val_test_entry(h)
        PROVE  SecondariesOff'
    BY <1>1, <1>4, ZenonT(60) DEF val_test_entry, ModuleEntryPoint, val_get_test_data,
       PayloadOnSecondary, CpuOff, Secondaries
  <1>5. QED
    BY <1>2, <1>3, <1>4, ZenonT(60) DEF Next, vars, PrimaryStep, val_run_test_payload,
       os_c001_payload, val_execute_on_pe, Finished, val_initialize_test, PayloadOnPrimary,
       val_hart_default_esr, RegisterCompare, val_set_test_data, SkipSelf, LaunchDone,
       CpuOnRetry, CpuOnTimesOut, WaitScan, WaitScanned, WaitTimesOut, PollRead, PollAgain,
       PollTimesOut, PollJudge, val_check_for_error, PrintTestStatus

(* A step inside a test leaves the verdicts alone and writes reports of the *)
(* test in progress only.                                                   *)
LEMMA PassSame ==
    ASSUME PassIsEarned, UNCHANGED <<verdict, report>>
    PROVE  PassIsEarned'
  BY ZenonT(60) DEF PassIsEarned

LEMMA PassKept ==
    ASSUME TypeInv, VerdictInv, PassIsEarned, pc \notin {"print", "done"},
           verdict' = verdict, \A t \in Tests : t # k => report'[t] = report[t]
    PROVE  PassIsEarned'
  <1>1. \A t \in Tests : verdict[t] = "PASS" => t # k
    BY DEF VerdictInv
  <1>2. QED
    BY <1>1 DEF PassIsEarned

(* What the invariant's types say of the counters and the harts.            *)
LEMMA Places ==
    ASSUME TypeInv
    PROVE  i \in Nat /\ i =< NumHarts /\ j \in Nat /\ NumHarts \in Nat /\ Primary \in Nat
  BY SuiteFacts DEF TypeInv, TypeOK, Harts

LEMMA Indices ==
    /\ \A h \in Harts : h \in Nat /\ h < NumHarts
    /\ \A n \in Nat : n < NumHarts => n \in Harts
  BY SuiteFacts DEF Harts

LEMMA Members ==
    /\ Primary \in Harts /\ Primary \notin Secondaries /\ Secondaries \subseteq Harts
    /\ \A h \in Harts : h = Primary \/ h \in Secondaries
  BY SuiteFacts DEF Secondaries

LEMMA Current ==
    ASSUME TypeInv
    PROVE  k \in Tests /\ Num(k) \in Nat
  BY SuiteFacts DEF TypeInv, TypeOK

LEMMA PendingWord ==
    ASSUME TypeInv
    PROVE  Word("PENDING", Num(k)).state = "PENDING"
  BY Current, WordTypes

LEMMA Polled ==
    ASSUME TypeInv
    PROVE  /\ pc \in {"cpu_on", "poll", "polled", "judge"} => i \in Secondaries
           /\ pc = "cpu_on" => data0[i] = k
  BY ZenonT(60) DEF TypeInv

(* KindFacts for the test in progress of a patient run.                     *)
LEMMA KindOfTest ==
    ASSUME Patient, TypeInv
    PROVE  /\ Kind(k) \in {"one", "all", "seq"}
           /\ Kind(k) = "all" => NumHarts > 1 /\ Participants(k) = Harts
           /\ Kind(k) = "one" => Participants(k) = {Primary} /\ Primary = 0
           /\ Kind(k) = "seq" => IF NumHarts = 1 THEN Participants(k) = Harts
                                                 ELSE Participants(k) = Secondaries
           /\ IF Kind(k) = "one" THEN Width(k) = 1 ELSE Width(k) = NumHarts
           /\ Participants(k) \subseteq Harts /\ Width(k) \in Nat /\ Width(k) > 0
  <1>1. k \in Tests
    BY DEF TypeInv, TypeOK
  <1>2. QED
    BY <1>1, KindFacts DEF Kinds, Patient

(* A scan that starts at hart 0 has passed no hart and has one to read.     *)
LEMMA FromZero ==
    ASSUME Patient, TypeInv
    PROVE  0 < Width(k) /\ \A h \in Harts : ~(h < 0)
  BY Indices, KindOfTest

LEMMA Slots ==
    ASSUME TypeInv
    PROVE  status \in [Harts -> Words] /\ data0 \in [Harts -> Tests \cup {0}]
  BY DEF TypeInv, TypeOK

LEMMA Reports ==
    ASSUME TypeInv
    PROVE  report \in [Tests -> [Harts -> Outcomes \cup {"none"}]]
  BY DEF TypeInv, TypeOK

LEMMA HartTables ==
    ASSUME TypeInv
    PROVE  /\ DOMAIN hart = Harts /\ hart = [h \in Harts |-> hart[h]]
           /\ DOMAIN vector = Harts /\ vector = [h \in Harts |-> vector[h]]
  BY DEF TypeInv, TypeOK

LEMMA Verdicts ==
    ASSUME TypeInv
    PROVE  DOMAIN verdict = Tests /\ verdict = [t \in Tests |-> verdict[t]]
  BY DEF TypeInv, TypeOK

(* A payload that reports writes its slot and nothing else.                 *)
LEMMA Written ==
    ASSUME TypeInv, NEW h \in Harts, NEW w, NEW r, status' = [status EXCEPT ![h] = w],
           report' = [report EXCEPT ![k][h] = r]
    PROVE  /\ status'[h] = w /\ report'[k][h] = r
           /\ \A g \in Harts : g # h => status'[g] = status[g] /\ report'[k][g] = report[k][g]
           /\ \A t \in Tests : t # k => report'[t] = report[t]
  BY Current, Slots, Reports

(* A running hart has not written its slot yet.                             *)
LEMMA ActiveIsPending ==
    ASSUME TypeInv, HartInv
    PROVE  \A h \in Secondaries : Active(h) => status[h].state = "PENDING"
  BY Current, WordTypes DEF HartInv

(* One lemma per step of the code: what of the invariant it preserves.      *)
LEMMA InitializeTestKeeps ==
    ASSUME Patient, TypeInv, PcInv, HartInv, StatusInv, SlotInv, CheckInv, VerdictInv,
           PassIsEarned, val_initialize_test
    PROVE  HartInv' /\ StatusInv' /\ SlotInv' /\ CheckInv' /\ PassIsEarned'
  <1>1. HartInv'
    BY ZenonT(60) DEF val_initialize_test, HartInv, Active, Waiting
  <1>2. StatusInv'
    <2>1. \A h \in Participants(k) : h \in Harts /\ h < Width(k)
      BY Indices, KindOfTest
    <2>2. Num(k) \in Selected => \A h \in Participants(k) : status'[h] = Word("PENDING", Num(k))
      BY <2>1 DEF val_initialize_test, Pending
    <2>3. Num(k) \in Selected => \A h \in Participants(k) : status'[h].state = "PENDING"
      BY <2>2, Current, WordTypes
    <2>4. QED
      BY <2>3, ZenonT(60) DEF val_initialize_test, StatusInv
  <1>3. SlotInv'
    <2>1. (Num(k) \in Selected /\ Kind(k) # "one") =>
            \A h \in Secondaries : status'[h] = Word("PENDING", Num(k))
      BY Indices, Members, KindOfTest, ZenonT(60) DEF val_initialize_test, Pending
    <2>2. QED
      BY <2>1, ZenonT(60) DEF val_initialize_test, SlotInv, Waiting
  <1>4. CheckInv'
    <2>1. Num(k) \notin Selected => status'[Primary].state = "SKIP"
      <3>1. DOMAIN Pending(k) = Harts
        BY DEF Pending
      <3>2. Num(k) \notin Selected => status'[Primary] = Word("SKIP", Num(k))
        BY <3>1, Members, ZenonT(60) DEF val_initialize_test
      <3>3. QED
        BY <3>2, Current, WordTypes
    <2>2. QED
      BY <2>1, FromZero, ZenonT(60) DEF val_initialize_test, CheckInv
  <1>5. PassIsEarned'
    BY PassSame, ZenonT(60) DEF val_initialize_test
  <1>6. QED
    BY <1>1, <1>2, <1>3, <1>4, <1>5

LEMMA PayloadOnPrimaryKeeps ==
    ASSUME Patient, TypeInv, PcInv, HartInv, StatusInv, SlotInv, CheckInv, VerdictInv,
           PassIsEarned, PayloadOnPrimary
    PROVE  HartInv' /\ StatusInv' /\ SlotInv' /\ CheckInv' /\ PassIsEarned'
  <1>1. HartInv'
    BY DEF PayloadOnPrimary, HartInv, Active, Waiting
  <1>2. StatusInv'
    <2>1. CASE UNCHANGED <<status, report>>
      BY <2>1, ZenonT(60) DEF PayloadOnPrimary, StatusInv, InTest
    <2>2. ASSUME NEW r \in Outcomes,
                 status' = [status EXCEPT ![Primary] = Word(r, Num(k))],
                 report' = [report EXCEPT ![k][Primary] = r]
          PROVE  StatusInv'
      <3>1. \A h \in Harts : h # Primary => status'[h] = status[h] /\ report'[k][h] = report[k][h]
        BY <2>2
      <3>2. status'[Primary] = Word(r, Num(k)) /\ report'[k][Primary] = r
        BY <2>2, Members, Current, Slots, Reports, ZenonT(60)
      <3>3. status'[Primary].state = r /\ r # "UNSET"
        BY <3>2, Current, WordTypes DEF Outcomes
      <3>4. pc \in InTest /\ k' = k
        BY DEF PayloadOnPrimary, InTest
      <3>5. QED
        BY <3>1, <3>2, <3>3, <3>4, KindOfTest, ZenonT(60) DEF StatusInv
    <2>3. QED
      BY <2>1, <2>2, ZenonT(60) DEF PayloadOnPrimary
  <1>3. SlotInv'
    <2>1. \A h \in Secondaries : status'[h] = status[h]
      BY Members, Slots, ZenonT(60) DEF PayloadOnPrimary
    <2>2. QED
      BY <2>1, ZenonT(60) DEF PayloadOnPrimary, SlotInv, PcInv, Waiting
  <1>4. CheckInv'
    BY FromZero, ZenonT(60) DEF PayloadOnPrimary, CheckInv, PcInv, Waiting
  <1>5. PassIsEarned'
    BY PassKept, Polled, Slots, Reports, ZenonT(60) DEF PayloadOnPrimary
  <1>6. QED
    BY <1>1, <1>2, <1>3, <1>4, <1>5

LEMMA HartDefaultEsrKeeps ==
    ASSUME Patient, TypeInv, PcInv, HartInv, StatusInv, SlotInv, CheckInv, VerdictInv,
           PassIsEarned, val_hart_default_esr
    PROVE  HartInv' /\ StatusInv' /\ SlotInv' /\ CheckInv' /\ PassIsEarned'
  <1>1. HartInv'
    BY DEF val_hart_default_esr, HartInv, Active, Waiting
  <1>2. StatusInv' /\ SlotInv' /\ CheckInv'
    BY ZenonT(60) DEF val_hart_default_esr, StatusInv, SlotInv, CheckInv, InTest, Waiting
  <1>3. PassIsEarned'
    BY PassSame, ZenonT(60) DEF val_hart_default_esr
  <1>4. QED
    BY <1>1, <1>2, <1>3

LEMMA RegisterCompareKeeps ==
    ASSUME Patient, TypeInv, PcInv, HartInv, StatusInv, SlotInv, CheckInv, VerdictInv,
           PassIsEarned, RegisterCompare
    PROVE  HartInv' /\ StatusInv' /\ SlotInv' /\ CheckInv' /\ PassIsEarned'
  <1>1. HartInv'
    BY ZenonT(60) DEF RegisterCompare, HartInv, Active, Waiting
  <1>2. StatusInv'
    <2>1. CASE NumHarts # 1
      BY <2>1 DEF RegisterCompare, StatusInv, InTest, Waiting
    <2>2. CASE NumHarts = 1
      <3>1. \A h \in Harts : h = Primary
        BY <2>2, Indices, Members
      <3>2. status'[Primary] = Word("SKIP", Num(k))
        BY <2>2, Members, Slots, ZenonT(60) DEF RegisterCompare
      <3>3. status'[Primary].state = "SKIP"
        BY <3>2, Current, WordTypes
      <3>4. QED
        BY <3>1, <3>3, KindOfTest, ZenonT(60) DEF RegisterCompare, StatusInv
    <2>3. QED
      BY <2>1, <2>2
  <1>3. SlotInv'
    BY Indices, Members DEF RegisterCompare, SlotInv, PcInv, Waiting
  <1>4. CheckInv'
    <2>1. NumHarts = 1 => ~(NumHarts > 1)
      OBVIOUS
    <2>2. QED
      BY <2>1, FromZero, ZenonT(60) DEF RegisterCompare, CheckInv, PcInv, Waiting
  <1>5. PassIsEarned'
    BY PassKept, Reports DEF RegisterCompare
  <1>6. QED
    BY <1>1, <1>2, <1>3, <1>4, <1>5

LEMMA SetTestDataKeeps ==
    ASSUME Patient, TypeInv, PcInv, HartInv, StatusInv, SlotInv, CheckInv, VerdictInv,
           PassIsEarned, val_set_test_data
    PROVE  HartInv' /\ StatusInv' /\ SlotInv' /\ CheckInv' /\ PassIsEarned'
  <1>1. HartInv'
    BY Members, Slots, ZenonT(60) DEF val_set_test_data, HartInv, Active, Waiting
  <1>2. StatusInv' /\ SlotInv' /\ CheckInv'
    BY ZenonT(60) DEF val_set_test_data, StatusInv, SlotInv, CheckInv, InTest, Waiting
  <1>3. PassIsEarned'
    BY PassSame, ZenonT(60) DEF val_set_test_data
  <1>4. QED
    BY <1>1, <1>2, <1>3

LEMMA SkipSelfKeeps ==
    ASSUME Patient, TypeInv, PcInv, HartInv, StatusInv, SlotInv, CheckInv, VerdictInv,
           PassIsEarned, SkipSelf
    PROVE  HartInv' /\ StatusInv' /\ SlotInv' /\ CheckInv' /\ PassIsEarned'
  <1>a. /\ \A h \in Secondaries : (h < i => h < i + 1) /\ (h < i + 1 => h < i \/ h = i)
        /\ \A h \in Secondaries : h >= i + 1 => h >= i
    BY Places, Indices, Members
  <1>b. /\ pc = "launch" /\ pc' = pc /\ i' = i + 1 /\ i = Primary
        /\ k' = k /\ status' = status /\ hart' = hart /\ data0' = data0 /\ vector' = vector
    BY ZenonT(60) DEF SkipSelf
  <1>1. HartInv'
    BY <1>a, <1>b, ZenonT(60) DEF HartInv, Active
  <1>2. StatusInv' /\ CheckInv'
    BY ZenonT(60) DEF SkipSelf, StatusInv, CheckInv
  <1>3. SlotInv'
    BY <1>a, <1>b, Members, ZenonT(60) DEF SlotInv
  <1>4. PassIsEarned'
    BY PassSame, ZenonT(60) DEF SkipSelf
  <1>5. QED
    BY <1>1, <1>2, <1>3, <1>4, ZenonT(60)

LEMMA LaunchDoneKeeps ==
    ASSUME Patient, TypeInv, PcInv, HartInv, StatusInv, SlotInv, CheckInv, VerdictInv,
           PassIsEarned, LaunchDone
    PROVE  HartInv' /\ StatusInv' /\ SlotInv' /\ CheckInv' /\ PassIsEarned'
  <1>1. HartInv'
    <2>1. Kind(k) = "seq" => \A h \in Secondaries : ~Active(h)
      BY ActiveIsPending, Indices, Members, ZenonT(60) DEF LaunchDone, SlotInv, Waiting
    <2>2. QED
      BY <2>1, ZenonT(60) DEF LaunchDone, HartInv, Active, Waiting
  <1>2. StatusInv'
    BY ZenonT(60) DEF LaunchDone, StatusInv, InTest, Waiting
  <1>3. SlotInv'
    BY Indices, Order, ZenonT(60) DEF LaunchDone, SlotInv, Waiting
  <1>4. CheckInv'
    <2>1. \A h \in Secondaries : h < NumHarts
      BY Indices, Members, ZenonT(60)
    <2>2. QED
      BY <2>1, FromZero, ZenonT(60) DEF LaunchDone, CheckInv, PcInv, SlotInv, Waiting
  <1>5. PassIsEarned'
    BY PassSame, ZenonT(60) DEF LaunchDone
  <1>6. QED
    BY <1>1, <1>2, <1>3, <1>4, <1>5, ZenonT(60)

LEMMA CpuOnAnsweredKeeps ==
    ASSUME Patient, TypeInv, PcInv, HartInv, StatusInv, SlotInv, CheckInv, VerdictInv,
           PassIsEarned, CpuOnAnswered
    PROVE  HartInv' /\ StatusInv' /\ SlotInv' /\ CheckInv' /\ PassIsEarned'
  <1>1. PICK ret \in {"SUCCESS", "ERROR", "ON_PENDING"} :
           /\ CpuOnReturns(i, ret)
           /\ hart' = IF ret = "SUCCESS" THEN [hart EXCEPT ![i] = "boot"] ELSE hart
           /\ status' = IF ret = "SUCCESS" THEN status
                        ELSE [status EXCEPT ![i] = Word("FAIL", 0)]
           /\ report' = IF ret = "ERROR" THEN [report EXCEPT ![k][i] = "FAIL"] ELSE report
    BY ZenonT(60) DEF CpuOnAnswered
  <1>2. /\ pc = "cpu_on" /\ UNCHANGED <<k, j, data0, vector, verdict>>
        /\ i \in Secondaries /\ i \in Harts /\ data0[i] = k /\ Kind(k) \in {"all", "seq"}
        /\ ~Active(i) /\ status[i] = Word("PENDING", Num(k))
        /\ IF Kind(k) = "seq" THEN pc' = "poll" /\ i' = i ELSE pc' = "launch" /\ i' = i + 1
    BY Indices, Members, Polled DEF CpuOnAnswered, AfterExecute, HartInv, SlotInv, PcInv
  <1>3. /\ \A h \in Harts : h # i => /\ hart'[h] = hart[h] /\ status'[h] = status[h]
                                     /\ report'[k][h] = report[k][h]
        /\ hart'[i] = IF ret = "SUCCESS" THEN "boot" ELSE hart[i]
    BY <1>1, <1>2, Current, HartTables
  <1>4. IF ret = "SUCCESS" THEN status'[i] = status[i] ELSE status'[i].state = "FAIL"
    <2>1. ret # "SUCCESS" => status'[i] = Word("FAIL", 0)
      BY <1>1, <1>2, Slots, ZenonT(60)
    <2>2. QED
      BY <1>1, <2>1, WordTypes
  <1>5. HartInv'
    <2> SUFFICES ASSUME NEW g \in Secondaries, Active(g)'
                 PROVE  (/\ pc \in Waiting
                         /\ data0[g] = k
                         /\ hart[g] = "payload" => vector[g] = k
                         /\ status[g] = Word("PENDING", Num(k))
                         /\ pc \in {"launch", "cpu_on"} => g < i
                         /\ pc \in {"poll", "polled", "judge"} => g =< i)'
      BY DEF HartInv
    <2>1. CASE g = i
      BY <1>2, <1>3, <1>4, <2>1, Indices DEF Active, Waiting
    <2>2. CASE g # i
      <3>1. g < i => g < i + 1 /\ g =< i
        BY Places, Indices, Members
      <3>2. hart'[g] = hart[g] /\ status'[g] = status[g]
        BY <1>3, <2>2, Members, ZenonT(60)
      <3>3. QED
        BY <1>2, <3>1, <3>2, ZenonT(60) DEF HartInv, Active, Waiting
    <2>3. QED
      BY <2>1, <2>2, ZenonT(60)
  <1>6. StatusInv'
    <2>1. /\ status[i].state = "PENDING"
          /\ Num(k) \in Selected /\ pc \in InTest
      <3>1. status[i].state = "PENDING"
        BY <1>2, PendingWord, ZenonT(60)
      <3>2. QED
        BY <1>2, <3>1, ZenonT(60) DEF PcInv, InTest, Waiting
    <2>2. QED
      BY <1>2, <1>3, <1>4, <2>1, KindOfTest, ZenonT(60) DEF StatusInv
  <1>7. SlotInv'
    BY <1>2, <1>3, Indices, Members DEF SlotInv, Waiting
  <1>8. CheckInv'
    BY <1>2, ZenonT(60) DEF CheckInv
  <1>9. PassIsEarned'
    <2>1. \A t \in Tests : t # k => report'[t] = report[t]
      BY <1>1
    <2>2. QED
      BY <1>2, <2>1, PassKept, ZenonT(60)
  <1>10. QED
    BY <1>5, <1>6, <1>7, <1>8, <1>9, ZenonT(60)

LEMMA CpuOnRetryKeeps ==
    ASSUME Patient, TypeInv, PcInv, HartInv, StatusInv, SlotInv, CheckInv, VerdictInv,
           PassIsEarned, CpuOnRetry
    PROVE  HartInv' /\ StatusInv' /\ SlotInv' /\ CheckInv' /\ PassIsEarned'
  <1>1. HartInv' /\ StatusInv' /\ SlotInv' /\ CheckInv'
    BY ZenonT(60) DEF CpuOnRetry, HartInv, StatusInv, SlotInv, CheckInv, Active, InTest,
       Waiting
  <1>2. PassIsEarned'
    BY PassSame, ZenonT(60) DEF CpuOnRetry
  <1>3. QED
    BY <1>1, <1>2, ZenonT(60)

LEMMA WaitScanKeeps ==
    ASSUME Patient, TypeInv, PcInv, HartInv, StatusInv, SlotInv, CheckInv, VerdictInv,
           PassIsEarned, WaitScan
    PROVE  HartInv' /\ StatusInv' /\ SlotInv' /\ CheckInv' /\ PassIsEarned'
  <1>1. HartInv'
    BY ZenonT(60) DEF WaitScan, HartInv, Active
  <1>2. StatusInv' /\ CheckInv'
    BY ZenonT(60) DEF WaitScan, StatusInv, CheckInv
  <1>3. SlotInv'
    <2>1. pc = "scan" /\ pc' = pc /\ k' = k /\ status' = status /\ i' = i + 1
      BY ZenonT(60) DEF WaitScan
    <2>2. j' = 0 => j = 0 /\ status[i].state # "PENDING"
      BY Places DEF WaitScan
    <2>3. \A h \in Harts : h < i + 1 => h < i \/ h = i
      BY Places, Indices
    <2>4. Kind(k) = "all"
      BY <2>1, ZenonT(60) DEF PcInv
    <2>5. QED
      BY <2>1, <2>2, <2>3, <2>4, ZenonT(60) DEF SlotInv
  <1>4. PassIsEarned'
    BY PassSame, ZenonT(60) DEF WaitScan
  <1>5. QED
    BY <1>1, <1>2, <1>3, <1>4, ZenonT(60)

LEMMA WaitScannedKeeps ==
    ASSUME Patient, TypeInv, PcInv, HartInv, StatusInv, SlotInv, CheckInv, VerdictInv,
           PassIsEarned, WaitScanned
    PROVE  HartInv' /\ StatusInv' /\ SlotInv' /\ CheckInv' /\ PassIsEarned'
  <1>1. HartInv'
    <2>1. j = 0 => \A h \in Secondaries : ~Active(h)
      BY ActiveIsPending, Indices, Members, ZenonT(60) DEF WaitScanned, ScanEnd, SlotInv
    <2>2. QED
      BY <2>1, ZenonT(60) DEF WaitScanned, HartInv, Active, Waiting
  <1>2. StatusInv'
    BY ZenonT(60) DEF WaitScanned, StatusInv, InTest, Waiting
  <1>3. SlotInv'
    BY Indices, Order, ZenonT(60) DEF WaitScanned, RestartScan, SlotInv, PcInv
  <1>4. CheckInv'
    <2>1. pc = "scan" /\ i = NumHarts /\ (pc' = "check" => i' = 0 /\ j = 0)
      BY DEF WaitScanned, RestartScan, ScanEnd
    <2>2. k' = k /\ status' = status
      BY ZenonT(60) DEF WaitScanned, RestartScan
    <2>3. Num(k) \in Selected /\ Kind(k) = "all"
      BY <2>1 DEF PcInv, Waiting
    <2>4. j = 0 => \A h \in Harts : status[h].state # "PENDING"
      BY <2>1, Indices, Members, ZenonT(60) DEF SlotInv
    <2>5. QED
      BY <2>1, <2>2, <2>3, <2>4, FromZero, ZenonT(60) DEF CheckInv
  <1>5. PassIsEarned'
    BY PassSame, ZenonT(60) DEF WaitScanned
  <1>6. QED
    BY <1>1, <1>2, <1>3, <1>4, <1>5, ZenonT(60)

LEMMA PollReadKeeps ==
    ASSUME Patient, TypeInv, PcInv, HartInv, StatusInv, SlotInv, CheckInv, VerdictInv,
           PassIsEarned, PollRead
    PROVE  HartInv' /\ StatusInv' /\ SlotInv' /\ CheckInv' /\ PassIsEarned'
  <1>1. HartInv' /\ StatusInv' /\ SlotInv' /\ CheckInv'
    BY ZenonT(60) DEF PollRead, HartInv, StatusInv, SlotInv, CheckInv, Active, InTest,
       Waiting
  <1>2. PassIsEarned'
    BY PassSame, ZenonT(60) DEF PollRead
  <1>3. QED
    BY <1>1, <1>2, ZenonT(60)

LEMMA PollAgainKeeps ==
    ASSUME Patient, TypeInv, PcInv, HartInv, StatusInv, SlotInv, CheckInv, VerdictInv,
           PassIsEarned, PollAgain
    PROVE  HartInv' /\ StatusInv' /\ SlotInv' /\ CheckInv' /\ PassIsEarned'
  <1>1. HartInv' /\ StatusInv' /\ SlotInv' /\ CheckInv'
    BY ZenonT(60) DEF PollAgain, HartInv, StatusInv, SlotInv, CheckInv, Active, InTest,
       Waiting
  <1>2. PassIsEarned'
    BY PassSame, ZenonT(60) DEF PollAgain
  <1>3. QED
    BY <1>1, <1>2, ZenonT(60)

LEMMA PollJudgeKeeps ==
    ASSUME Patient, TypeInv, PcInv, HartInv, StatusInv, SlotInv, CheckInv, VerdictInv,
           PassIsEarned, PollJudge
    PROVE  HartInv' /\ StatusInv' /\ SlotInv' /\ CheckInv' /\ PassIsEarned'
  <1>1. HartInv'
    <2>1. pc = "judge" => \A h \in Secondaries : ~Active(h)
      <3>1. \A h \in Secondaries : h =< i => h < i \/ h = i
        BY Places, Indices, Members
      <3>2. QED
        BY <3>1, ActiveIsPending, ZenonT(60) DEF HartInv, PcInv, SlotInv, Waiting
    <2>2. QED
      BY <2>1, ZenonT(60) DEF PollJudge, HartInv, Active
  <1>2. StatusInv'
    BY ZenonT(60) DEF PollJudge, StatusInv, InTest, Waiting
  <1>3. SlotInv'
    <2>1. \A h \in Secondaries : (h >= i + 1 => h > i) /\ (h < i + 1 => h < i \/ h = i)
      BY Places, Indices, Members
    <2>2. /\ pc = "judge" /\ k' = k /\ status' = status
          /\ pc' = "check" \/ (pc' = "launch" /\ i' = i + 1)
      BY ZenonT(60) DEF PollJudge
    <2>3. QED
      BY <2>1, <2>2, ZenonT(60) DEF SlotInv, Waiting
  <1>4. CheckInv'
    <2>1. /\ pc = "judge" /\ k' = k /\ status' = status
          /\ pc' = "check" => i' = 0 /\ status[i].state = "FAIL"
      BY ZenonT(60) DEF PollJudge
    <2>2. Num(k) \in Selected /\ Kind(k) = "seq"
      BY <2>1 DEF PcInv, Waiting
    <2>3. i \in Secondaries
      BY Polled DEF PollJudge
    <2>4. QED
      BY <2>1, <2>2, <2>3, FromZero, ZenonT(60) DEF CheckInv
  <1>5. PassIsEarned'
    BY PassSame, ZenonT(60) DEF PollJudge
  <1>6. QED
    BY <1>1, <1>2, <1>3, <1>4, <1>5, ZenonT(60)

LEMMA CheckForErrorKeeps ==
    ASSUME Patient, TypeInv, PcInv, HartInv, StatusInv, SlotInv, CheckInv, VerdictInv,
           PassIsEarned, val_check_for_error
    PROVE  HartInv' /\ StatusInv' /\ SlotInv' /\ CheckInv' /\ PassIsEarned'
  <1>1. /\ pc = "check"
        /\ UNCHANGED <<j, status, data0, hart, vector, shared, total, report>>
    BY DEF val_check_for_error
  <1>2. \A h \in Secondaries : ~Active(h)
    BY <1>1 DEF HartInv, Waiting
  <1>3. CASE /\ ~StopsScan(status[i]) /\ i < Width(k) - 1 /\ i' = i + 1
             /\ UNCHANGED <<pc, k, pass, fail, verdict>>
    <2>1. HartInv' /\ StatusInv' /\ SlotInv' /\ PassIsEarned'
      BY <1>1, <1>3, ZenonT(60) DEF HartInv, StatusInv, SlotInv, PassIsEarned, Active,
         Waiting
    <2>2. CheckInv'
      <3>1. i \in Nat /\ \A h \in Harts : h < i + 1 => h < i \/ h = i
        BY Places, Indices
      <3>2. i' < Width(k)
        BY <1>3, <3>1, KindOfTest
      <3>3. QED
        BY <1>1, <1>3, <3>1, <3>2, ZenonT(60) DEF CheckInv, StopsScan
    <2>3. QED
      BY <2>1, <2>2, ZenonT(60)
  <1>4. ASSUME NEW h \in Harts, Conclude(status[h]),
               status[h].state = "PASS" =>
                   \A g \in Participants(k) : report[k][g] = "PASS"
        PROVE  HartInv' /\ StatusInv' /\ SlotInv' /\ CheckInv' /\ PassIsEarned'
    <2>1. pc' \in {"init", "print"}
      BY <1>4, ZenonT(60) DEF Conclude
    <2>2. HartInv' /\ StatusInv' /\ SlotInv' /\ CheckInv'
      BY <1>1, <2>1, ZenonT(60) DEF HartInv, StatusInv, SlotInv, CheckInv, Active, Waiting,
         InTest
    <2>3. \A t \in Tests : verdict'[t] = IF t = k THEN Verdict(status[h]) ELSE verdict[t]
      BY <1>4, Verdicts, ZenonT(60) DEF Conclude
    <2>4. PassIsEarned'
      BY <1>1, <1>4, <2>3, ZenonT(60) DEF PassIsEarned, Verdict
    <2>5. QED
      BY <2>2, <2>4
  <1>5. CASE Width(k) = 1 /\ Conclude(status[Primary])
    <2>1. status[Primary].state = "PASS" => \A g \in Participants(k) : report[k][g] = "PASS"
      <3>1. Participants(k) = {Primary}
        <4>1. NumHarts = 1 => Harts = {Primary}
          BY Indices, Members
        <4>2. QED
          BY <1>5, <4>1, KindOfTest, ZenonT(60)
      <3>2. QED
        BY <3>1, <1>1, ZenonT(60) DEF StatusInv, CheckInv, InTest
    <2>2. QED
      BY <1>4, <1>5, <2>1, Members, ZenonT(60)
  <1>6. CASE /\ Width(k) > 1 /\ (StopsScan(status[i]) \/ i = Width(k) - 1)
             /\ Conclude(status[i])
    <2>1. i \in Harts
      BY <1>1, Places, Indices, KindOfTest DEF CheckInv
    <2>2. ASSUME status[i].state = "PASS", NEW g \in Participants(k)
          PROVE  report[k][g] = "PASS"
      <3>1. i = NumHarts - 1 /\ Kind(k) \in {"all", "seq"} /\ NumHarts > 1
        BY <1>6, <2>2, KindOfTest DEF StopsScan
      <3>2. \A h \in Harts : status[h].state \notin {"FAIL", "SKIP"}
        <4>1. \A h \in Harts : h < i \/ h = i
          BY <3>1, Places, Indices
        <4>2. QED
          BY <1>1, <2>2, <4>1, ZenonT(60) DEF CheckInv
      <3>3. Num(k) \in Selected
        BY <1>1, <3>2, Members, ZenonT(60) DEF CheckInv
      <3>4. g \in Harts /\ status[g].state # "PENDING"
        BY <1>1, <3>1, <3>2, Members, KindOfTest DEF CheckInv
      <3>5. status[g].state = "PASS"
        <4>1. status[g].state \in {"PASS", "FAIL", "SKIP", "PENDING", "UNSET"}
          BY <3>4, Slots, WordTypes, ZenonT(60)
        <4>2. QED
          BY <1>1, <3>2, <3>3, <3>4, <4>1, ZenonT(60) DEF StatusInv, InTest
      <3>6. QED
        BY <1>1, <3>3, <3>5, ZenonT(60) DEF StatusInv, InTest
    <2>3. QED
      BY <1>4, <1>6, <2>1, <2>2, ZenonT(60)
  <1>7. QED
    BY <1>3, <1>5, <1>6, ZenonT(60) DEF val_check_for_error

LEMMA PrintTestStatusKeeps ==
    ASSUME Patient, TypeInv, PcInv, HartInv, StatusInv, SlotInv, CheckInv, VerdictInv,
           PassIsEarned, PrintTestStatus
    PROVE  HartInv' /\ StatusInv' /\ SlotInv' /\ CheckInv' /\ PassIsEarned'
  <1>1. HartInv'
    BY ZenonT(60) DEF PrintTestStatus, HartInv, Active, Waiting
  <1>2. StatusInv' /\ SlotInv' /\ CheckInv'
    BY ZenonT(60) DEF PrintTestStatus, StatusInv, SlotInv, CheckInv, InTest, Waiting
  <1>3. PassIsEarned'
    BY PassSame, ZenonT(60) DEF PrintTestStatus
  <1>4. QED
    BY <1>1, <1>2, <1>3, ZenonT(60)

LEMMA ModuleEntryPointKeeps ==
    ASSUME Patient, TypeInv, PcInv, HartInv, StatusInv, SlotInv, CheckInv, VerdictInv,
           PassIsEarned, NEW h \in Secondaries, ModuleEntryPoint(h)
    PROVE  HartInv' /\ StatusInv' /\ SlotInv' /\ CheckInv' /\ PassIsEarned'
  <1>1. UNCHANGED <<pc, k, i, j, status, verdict, report>>
    BY ZenonT(60) DEF ModuleEntryPoint, primaryVars
  <1>2. StatusInv' /\ CheckInv' /\ PassIsEarned'
    BY <1>1, ZenonT(60) DEF StatusInv, CheckInv, PassIsEarned
  <1>3. SlotInv'
    BY <1>1, ZenonT(60) DEF SlotInv
  <1>4. HartInv'
    <2>1. /\ \A g \in Secondaries : Active(g)' => Active(g) /\ (hart'[g] = "payload" => hart[g] = "payload")
          /\ data0' = data0 /\ vector' = vector
      BY DEF ModuleEntryPoint, Active, TypeInv, TypeOK
    <2>2. QED
      BY <1>1, <2>1, ZenonT(60) DEF HartInv
  <1>5. QED
    BY <1>2, <1>3, <1>4, ZenonT(60)

LEMMA GetTestDataKeeps ==
    ASSUME Patient, TypeInv, PcInv, HartInv, StatusInv, SlotInv, CheckInv, VerdictInv,
           PassIsEarned, NEW h \in Secondaries, val_get_test_data(h)
    PROVE  HartInv' /\ StatusInv' /\ SlotInv' /\ CheckInv' /\ PassIsEarned'
  <1>1. UNCHANGED <<pc, k, i, j, status, verdict, report>>
    BY ZenonT(60) DEF val_get_test_data, primaryVars
  <1>2. StatusInv' /\ CheckInv' /\ PassIsEarned'
    BY <1>1, ZenonT(60) DEF StatusInv, CheckInv, PassIsEarned
  <1>3. SlotInv'
    BY <1>1, ZenonT(60) DEF SlotInv
  <1>4. HartInv'
    BY HartTables DEF val_get_test_data, primaryVars, HartInv, Active
  <1>5. QED
    BY <1>2, <1>3, <1>4, ZenonT(60)

LEMMA PayloadOnSecondaryKeeps ==
    ASSUME Patient, TypeInv, PcInv, HartInv, StatusInv, SlotInv, CheckInv, VerdictInv,
           PassIsEarned, NEW h \in Secondaries, PayloadOnSecondary(h)
    PROVE  HartInv' /\ StatusInv' /\ SlotInv' /\ CheckInv' /\ PassIsEarned'
  <1>1. /\ pc \in Waiting /\ vector[h] = k /\ status[h].state = "PENDING" /\ h \in Harts
        /\ UNCHANGED <<pc, k, i, j, verdict, shared, data0, vector>>
    BY ActiveIsPending, Members, ZenonT(60) DEF PayloadOnSecondary, primaryVars, HartInv,
       Active
  <1>2. PICK r \in Outcomes :
           /\ status' = [status EXCEPT ![h] = Word(r, Num(k))]
           /\ report' = [report EXCEPT ![k][h] = r]
    BY <1>1, ZenonT(60) DEF PayloadOnSecondary
  <1>3. /\ status'[h] = Word(r, Num(k)) /\ report'[k][h] = r
        /\ \A g \in Harts : g # h => status'[g] = status[g] /\ report'[k][g] = report[k][g]
    <2>1. h \in Harts
      BY <1>1
    <2>2. QED
      BY <1>2, <2>1, Written, ZenonT(60)
  <1>4. status'[h].state = r /\ r \notin {"UNSET", "PENDING"}
    BY <1>3, Current, WordTypes DEF Outcomes
  <1>5. CheckInv'
    BY <1>1, ZenonT(60) DEF CheckInv, Waiting
  <1>6. HartInv'
    BY <1>1, HartTables, Verdicts DEF PayloadOnSecondary, HartInv, Active
  <1>7. StatusInv'
    BY <1>1, <1>3, <1>4, KindOfTest, ZenonT(60) DEF StatusInv
  <1>8. SlotInv'
    <2>1. /\ pc \in {"launch", "cpu_on"} => h < i
          /\ pc \in {"poll", "polled", "judge"} => h =< i
      BY ZenonT(60) DEF PayloadOnSecondary, HartInv, Active
    <2>2. \A g \in Harts : status'[g] = status[g] \/ (g = h /\ status'[g].state # "PENDING")
      BY <1>3, <1>4, ZenonT(60)
    <2>3. \A g \in Harts : (pc \in {"launch", "cpu_on"} /\ g >= i) => status'[g] = status[g]
      <3>1. \A g \in Harts : (pc \in {"launch", "cpu_on"} /\ g >= i) => g # h
        BY <2>1, Places, Indices
      <3>2. QED
        BY <1>3, <3>1, ZenonT(60)
    <2>4. \A g \in Harts : (pc \in {"poll", "polled", "judge"} /\ g > i) => status'[g] = status[g]
      <3>1. \A g \in Harts : (pc \in {"poll", "polled", "judge"} /\ g > i) => g # h
        BY <2>1, Places, Indices
      <3>2. QED
        BY <1>3, <3>1, ZenonT(60)
    <2>5. QED
      BY <1>1, <2>2, <2>3, <2>4, Members, Polled, ZenonT(60) DEF SlotInv, Waiting
  <1>9. PassIsEarned'
    <2>1. \A t \in Tests : t # k => report'[t] = report[t]
      BY <1>2
    <2>2. QED
      BY <1>1, <2>1, PassKept, ZenonT(60) DEF Waiting
  <1>10. QED
    BY <1>5, <1>6, <1>7, <1>8, <1>9, ZenonT(60)

LEMMA CpuOffKeeps ==
    ASSUME Patient, TypeInv, PcInv, HartInv, StatusInv, SlotInv, CheckInv, VerdictInv,
           PassIsEarned, NEW h \in Secondaries, CpuOff(h)
    PROVE  HartInv' /\ StatusInv' /\ SlotInv' /\ CheckInv' /\ PassIsEarned'
  <1>1. UNCHANGED <<pc, k, i, j, status, verdict, report>>
    BY ZenonT(60) DEF CpuOff, primaryVars
  <1>2. StatusInv' /\ CheckInv' /\ PassIsEarned'
    BY <1>1, ZenonT(60) DEF StatusInv, CheckInv, PassIsEarned
  <1>3. SlotInv'
    BY <1>1, ZenonT(60) DEF SlotInv
  <1>4. HartInv'
    <2>1. /\ UNCHANGED <<data0, vector>>
          /\ \A g \in Secondaries : Active(g)' => Active(g) /\ hart'[g] = hart[g]
      BY HartTables, Members DEF CpuOff, Active
    <2>2. QED
      BY <1>1, <2>1, ZenonT(60) DEF HartInv
  <1>5. QED
    BY <1>2, <1>3, <1>4

LEMMA StutterKeeps ==
    ASSUME Patient, TypeInv, PcInv, HartInv, StatusInv, SlotInv, CheckInv, VerdictInv,
           PassIsEarned, UNCHANGED vars
    PROVE  HartInv' /\ StatusInv' /\ SlotInv' /\ CheckInv' /\ PassIsEarned'
  <1>1. HartInv' /\ SlotInv'
    BY ZenonT(60) DEF vars, HartInv, Active, SlotInv
  <1>2. StatusInv' /\ CheckInv' /\ PassIsEarned'
    BY ZenonT(60) DEF vars, StatusInv, CheckInv, PassIsEarned
  <1>3. QED
    BY <1>1, <1>2, ZenonT(60)

LEMMA IndStep == Patient /\ IndInv /\ [Next]_vars => IndInv'
  <1> SUFFICES ASSUME Patient, TypeInv, PcInv, HartInv, StatusInv, SlotInv, CheckInv,
                      VerdictInv, PassIsEarned, [Next]_vars
               PROVE  IndInv'
    BY DEF IndInv
  <1>1. TypeInv' /\ PcInv' /\ VerdictInv'
    BY TypeStep, ControlStep
  <1>2. SUFFICES HartInv' /\ StatusInv' /\ SlotInv' /\ CheckInv' /\ PassIsEarned'
    BY <1>1, ZenonT(60) DEF IndInv
  <1>3. ~CpuOnTimesOut /\ ~WaitTimesOut /\ ~PollTimesOut
    BY ZenonT(60) DEF CpuOnTimesOut, WaitTimesOut, PollTimesOut, Patient
  <1>4. ASSUME NEW h \in Secondaries, val_test_entry(h)
        PROVE  HartInv' /\ StatusInv' /\ SlotInv' /\ CheckInv' /\ PassIsEarned'
    BY <1>4, ModuleEntryPointKeeps, GetTestDataKeeps, PayloadOnSecondaryKeeps, CpuOffKeeps,
       ZenonT(60) DEF val_test_entry
  <1>5. CASE UNCHANGED vars
    BY <1>5, StutterKeeps
  <1>6. QED
    BY <1>3, <1>4, <1>5, Actions, InitializeTestKeeps, PayloadOnPrimaryKeeps,
       HartDefaultEsrKeeps, RegisterCompareKeeps, SetTestDataKeeps, SkipSelfKeeps,
       LaunchDoneKeeps, CpuOnAnsweredKeeps, CpuOnRetryKeeps, WaitScanKeeps,
       WaitScannedKeeps, PollReadKeeps, PollAgainKeeps, PollJudgeKeeps, CheckForErrorKeeps,
       PrintTestStatusKeeps, ZenonT(60)

(* While no polling counter runs out, and a single-hart test runs on the    *)
(* hart of slot 0, val_check_for_error counts a test as passed only if its  *)
(* payload reported PASS on every hart the test runs on.                    *)
THEOREM PatientPassIsEarned == ASSUME Patient PROVE Spec => []PassIsEarned
  <1>1. IndInv /\ [Next]_vars => IndInv'
    BY IndStep
  <1>2. IndInv => PassIsEarned
    BY DEF IndInv
  <1>3. QED
    BY IndInit, <1>1, <1>2, PTL DEF Spec

(* Under the same assumptions freeBsaAcsMem never takes the shared memory   *)
(* from a hart that still has a payload to fetch or a status to write.      *)
THEOREM PatientNoUseAfterFree == ASSUME Patient PROVE Spec => []NoUseAfterFree
  <1>1. IndInv /\ SecondariesOff /\ [Next]_vars => IndInv' /\ SecondariesOff'
    BY IndStep, SecondariesStayOff DEF IndInv
  <1>a. Init => SecondariesOff
    BY DEF Init, SecondariesOff, Secondaries
  <1>2. IndInv /\ SecondariesOff => NoUseAfterFree
    BY ZenonT(60) DEF IndInv, SecondariesOff, HartInv, VerdictInv, Waiting, Active, NoUseAfterFree,
       TypeInv, TypeOK, Secondaries
  <1>3. QED
    BY IndInit, <1>a, <1>1, <1>2, PTL DEF Spec

(* Under the same assumptions a hart delivers its result only to the test   *)
(* in progress and into a slot that is pending for it.                      *)
THEOREM PatientNoStaleResult == ASSUME Patient PROVE Spec => NoStaleResult
  <1>1. IndInv /\ [Next]_vars => IndInv'
    BY IndStep
  <1>2. IndInv => [\A h \in Secondaries :
                     (hart[h] = "payload" /\ hart'[h] = "cpuoff") =>
                         /\ vector[h] = k
                         /\ status[h] = Word("PENDING", Num(k))]_vars
    BY ZenonT(60) DEF IndInv, HartInv, Active
  <1>3. QED
    BY IndInit, <1>1, <1>2, PTL DEF Spec, NoStaleResult

-----------------------------------------------------------------------------
(* The converse: a test that passed everywhere is counted as passed.       *)

(* The last slot val_check_for_error reads belongs to a hart whose payload  *)
(* reports: test_os_c001 leaves the slot of the present hart pending.       *)
LastReports == \A t \in Tests : Kind(t) = "seq" => NumHarts = 1 \/ Primary # NumHarts - 1

(* Run from the hart of the last slot, test_os_c001 is never counted as     *)
(* passed.                                                                  *)
LastNeverPasses ==
    \A t \in Tests : (Kind(t) = "seq" /\ NumHarts > 1 /\ Primary = NumHarts - 1) =>
        verdict[t] # "PASS"

(* A report of PASS is in the slot of its hart until the test is judged; in *)
(* test_os_c001 the slot of the present hart stays pending; nothing is      *)
(* reported for a test that has not begun.                                  *)
EarnInv ==
    /\ (pc \in InTest /\ Num(k) \in Selected) =>
          /\ \A h \in Participants(k) : report[k][h] = "PASS" => status[h].state = "PASS"
          /\ (Kind(k) = "seq" /\ NumHarts > 1) => status[Primary].state = "PENDING"
    /\ \A t \in Tests : (t > k \/ (t = k /\ pc = "init")) =>
          \A h \in Harts : report[t][h] = "none"
    /\ LastReports => EarnedIsPass
    /\ LastNeverPasses

LEMMA EarnInit == Init => EarnInv
  <1> SUFFICES ASSUME Init PROVE EarnInv
    OBVIOUS
  <1>1. pc = "init" /\ \A t \in Tests : verdict[t] = "none" /\ \A h \in Harts : report[t][h] = "none"
    BY ZenonT(60) DEF Init
  <1>2. QED
    BY <1>1 DEF EarnInv, EarnedIsPass, LastNeverPasses, InTest, Waiting

(* A step inside a test: a slot and its report change together, if at all.  *)
LEMMA EarnKept ==
    ASSUME Patient, TypeInv, VerdictInv, EarnInv, pc \in InTest,
           k' = k, pc' # "init", verdict' = verdict,
           \A t \in Tests : t # k => report'[t] = report[t],
           \A h \in Harts : \/ report'[k][h] = report[k][h] /\ status'[h] = status[h]
                            \/ report'[k][h] = "PASS" => status'[h].state = "PASS",
           Kind(k) = "seq" /\ NumHarts > 1 => status'[Primary] = status[Primary]
    PROVE  EarnInv'
  <1>1. \A t \in Tests : verdict[t] \in {"FAIL", "SKIP"} => t # k
    BY ZenonT(60) DEF VerdictInv, InTest, Waiting
  <1>2. (LastReports => EarnedIsPass') /\ LastNeverPasses'
    <2>1. LastReports => EarnedIsPass'
      <3> SUFFICES ASSUME LastReports, NEW t \in Tests, verdict'[t] \in {"FAIL", "SKIP"}, Num(t) \in Selected
                   PROVE  \E h \in Participants(t) : report'[t][h] # "PASS"
        BY ZenonT(60) DEF EarnedIsPass
      <3>1. report'[t] = report[t]
        BY <1>1, ZenonT(60)
      <3>2. EarnedIsPass
        BY ZenonT(60) DEF EarnInv
      <3>3. PICK h \in Participants(t) : report[t][h] # "PASS"
        BY <3>2 DEF EarnedIsPass
      <3>4. QED
        BY <3>1, <3>3, ZenonT(60)
    <2>2. LastNeverPasses'
      BY ZenonT(60) DEF EarnInv, LastNeverPasses
    <2>3. QED
      BY <2>1, <2>2, ZenonT(60)
  <1>3. \A t \in Tests : t > k => \A h \in Harts : report'[t][h] = "none"
    <2>1. \A t \in Tests : t > k => t # k
      BY Current, SuiteFacts
    <2>2. QED
      BY <2>1, ZenonT(60) DEF EarnInv
  <1>4. Num(k) \in Selected =>
          \A h \in Participants(k) : report'[k][h] = "PASS" => status'[h].state = "PASS"
    BY KindOfTest, ZenonT(60) DEF EarnInv
  <1>5. QED
    BY <1>2, <1>3, <1>4, ZenonT(60) DEF EarnInv

LEMMA EarnSame ==
    ASSUME EarnInv, UNCHANGED <<pc, k, status, verdict, report>>
    PROVE  EarnInv'
  BY ZenonT(60) DEF EarnInv, EarnedIsPass, LastReports, LastNeverPasses

LEMMA InitializeTestEarns ==
    ASSUME Patient, TypeInv, VerdictInv, EarnInv, val_initialize_test
    PROVE  EarnInv'
  <1>1. /\ pc = "init" /\ UNCHANGED <<k, verdict, report>> /\ k \in Tests
        /\ \A h \in Harts : report[k][h] = "none"
    BY Current, ZenonT(60) DEF val_initialize_test, EarnInv
  <1>2. (LastReports => EarnedIsPass') /\ LastNeverPasses'
    BY <1>1, ZenonT(60) DEF EarnInv, EarnedIsPass, LastNeverPasses
  <1>3. (Num(k) \in Selected /\ Kind(k) = "seq" /\ NumHarts > 1) => status'[Primary].state = "PENDING"
    <2>1. (Num(k) \in Selected /\ Kind(k) = "seq") => status'[Primary] = Word("PENDING", Num(k))
      BY Indices, Members, KindOfTest, ZenonT(60) DEF val_initialize_test, Pending
    <2>2. QED
      BY <2>1, Current, WordTypes
  <1>4. \A h \in Participants(k) : report'[k][h] # "PASS"
    BY <1>1, KindOfTest, ZenonT(60)
  <1>5. QED
    BY <1>1, <1>2, <1>3, <1>4, ZenonT(60) DEF EarnInv

LEMMA CheckForErrorEarns ==
    ASSUME Patient, TypeInv, PcInv, StatusInv, CheckInv, VerdictInv, EarnInv,
           val_check_for_error
    PROVE  EarnInv'
  <1>1. pc = "check" /\ UNCHANGED <<status, report>> /\ k \in Tests /\ k \in Nat
    BY Current, SuiteFacts, ZenonT(60) DEF val_check_for_error
  <1>2. CASE UNCHANGED <<pc, k, pass, fail, verdict>>
    BY <1>1, <1>2, EarnSame, ZenonT(60)
  <1>3. ASSUME NEW h \in Harts, Conclude(status[h]),
               (LastReports /\ Num(k) \in Selected /\ \A g \in Participants(k) : status[g].state = "PASS")
                   => status[h].state = "PASS",
               (Kind(k) = "seq" /\ NumHarts > 1 /\ Primary = NumHarts - 1) => status[h].state # "PASS"
        PROVE  EarnInv'
    <2>1. /\ \/ pc' = "init" /\ k' = k + 1
             \/ pc' = "print" /\ k' = k
          /\ \A t \in Tests : verdict'[t] = IF t = k THEN Verdict(status[h]) ELSE verdict[t]
      BY <1>3, Verdicts, ZenonT(60) DEF Conclude
    <2>2. \A t \in Tests : t > k => \A g \in Harts : report'[t][g] = "none"
      BY <1>1, ZenonT(60) DEF EarnInv
    <2>3. ASSUME LastReports PROVE EarnedIsPass'
      <3>1. ASSUME NEW t \in Tests, verdict'[t] \in {"FAIL", "SKIP"}, Num(t) \in Selected
            PROVE  \E g \in Participants(t) : report'[t][g] # "PASS"
        <4>1. CASE t # k
          BY <1>1, <2>1, <2>3, <3>1, <4>1, ZenonT(60) DEF EarnInv, EarnedIsPass
        <4>2. CASE t = k
          <5>1. status[h].state # "PASS"
            BY <2>1, <3>1, <4>2, ZenonT(60) DEF Verdict
          <5>2. \E g \in Participants(k) : status[g].state # "PASS"
            BY <1>3, <2>3, <3>1, <4>2, <5>1, ZenonT(60)
          <5>3. QED
            BY <1>1, <3>1, <4>2, <5>2, ZenonT(60) DEF EarnInv, InTest
        <4>3. QED
          BY <4>1, <4>2
      <3>2. QED
        BY <3>1 DEF EarnedIsPass
    <2>4. \A t \in Tests : (t > k' \/ (t = k' /\ pc' = "init")) => t > k
      <3>1. k + 1 > k /\ \A t \in Tests : t > k + 1 => t > k
        BY <1>1, SuiteFacts, Order, ZenonT(60)
      <3>2. QED
        BY <2>1, <3>1, ZenonT(60)
    <2>5. LastNeverPasses'
      BY <1>3, <2>1, ZenonT(60) DEF EarnInv, LastNeverPasses, Verdict
    <2>6. QED
      BY <2>1, <2>2, <2>3, <2>4, <2>5, ZenonT(60) DEF EarnInv, InTest, Waiting
  <1>4. CASE Width(k) = 1 /\ Conclude(status[Primary])
    <2>1. Primary \in Participants(k)
      <3>1. NumHarts = 1 => Primary \in Harts
        BY Members
      <3>2. QED
        BY <1>4, <3>1, KindOfTest, ZenonT(60)
    <2>2. ~(Kind(k) = "seq" /\ NumHarts > 1)
      BY <1>4, KindOfTest
    <2>3. QED
      BY <1>3, <1>4, <2>1, <2>2, Members, ZenonT(60)
  <1>5. CASE /\ Width(k) > 1 /\ (StopsScan(status[i]) \/ i = Width(k) - 1)
             /\ Conclude(status[i])
    <2>1. i \in Harts /\ NumHarts > 1 /\ Width(k) = NumHarts /\ Kind(k) \in {"all", "seq"}
      BY <1>1, <1>5, Places, Indices, KindOfTest DEF CheckInv
    <2>2. ASSUME LastReports, Num(k) \in Selected, \A g \in Participants(k) : status[g].state = "PASS"
          PROVE  status[i].state = "PASS"
      <3>1. i # Primary => i \in Participants(k)
        BY <2>1, Members, KindOfTest, ZenonT(60)
      <3>2. CASE i = Primary /\ Kind(k) = "seq"
        <4>1. status[i].state = "PENDING"
          BY <1>1, <2>1, <2>2, <3>2, ZenonT(60) DEF EarnInv, InTest
        <4>2. i = NumHarts - 1
          BY <1>5, <2>1, <4>1, ZenonT(60) DEF StopsScan
        <4>3. QED
          BY <1>1, <2>1, <2>2, <3>2, <4>2 DEF LastReports
      <3>3. QED
        BY <2>1, <2>2, <3>1, <3>2, KindOfTest, ZenonT(60)
    <2>3. ASSUME Kind(k) = "seq", Primary = NumHarts - 1
          PROVE  status[i].state # "PASS"
      <3>1. StopsScan(status[i]) \/ i = Primary
        BY <1>5, <2>1, <2>3, ZenonT(60)
      <3>2. status[Primary].state \in {"PENDING", "SKIP"}
        BY <1>1, <2>1, <2>3, ZenonT(60) DEF EarnInv, CheckInv, InTest
      <3>3. QED
        BY <3>1, <3>2 DEF StopsScan
    <2>4. QED
      BY <1>3, <1>5, <2>1, <2>2, <2>3, ZenonT(60)
  <1>6. QED
    BY <1>2, <1>4, <1>5, ZenonT(60) DEF val_check_for_error

LEMMA EarnStep ==
    ASSUME Patient, TypeInv, PcInv, HartInv, StatusInv, SlotInv, CheckInv,
           VerdictInv, EarnInv, [Next]_vars
    PROVE  EarnInv'
  <1>1. CASE val_initialize_test
    BY <1>1, InitializeTestEarns
  <1>2. CASE PayloadOnPrimary
    <2>1. pc = "payload" /\ k' = k /\ pc' # "init" /\ verdict' = verdict /\ Kind(k) # "seq"
      BY <1>2, ZenonT(60) DEF PayloadOnPrimary, PcInv
    <2>2. CASE UNCHANGED <<status, report>>
      BY <2>1, <2>2, EarnKept, ZenonT(60) DEF InTest
    <2>3. ASSUME NEW r \in Outcomes,
                 status' = [status EXCEPT ![Primary] = Word(r, Num(k))],
                 report' = [report EXCEPT ![k][Primary] = r]
          PROVE  EarnInv'
      <3>1. /\ \A h \in Harts : h # Primary => status'[h] = status[h] /\ report'[k][h] = report[k][h]
            /\ status'[Primary] = Word(r, Num(k)) /\ report'[k][Primary] = r
            /\ \A t \in Tests : t # k => report'[t] = report[t]
        BY <2>3, Members, Written, ZenonT(60)
      <3>2. status'[Primary].state = r
        BY <3>1, Current, WordTypes DEF Outcomes
      <3>3. QED
        BY <2>1, <3>1, <3>2, EarnKept, ZenonT(60) DEF InTest
    <2>4. QED
      BY <1>2, <2>2, <2>3, ZenonT(60) DEF PayloadOnPrimary
  <1>3. CASE RegisterCompare
    <2>1. pc = "regs" /\ k' = k /\ pc' # "init" /\ verdict' = verdict
      BY <1>3, ZenonT(60) DEF RegisterCompare
    <2>2. CASE NumHarts = 1
      <3>1. /\ \A h \in Harts : report'[k][h] = "SKIP"
            /\ \A t \in Tests : t # k => report'[t] = report[t]
        BY <1>3, <2>2, Indices, Members, Current, Polled, Slots, Reports DEF
           RegisterCompare
      <3>2. QED
        BY <2>1, <2>2, <3>1, EarnKept, SMTT(20), ZenonT(60) DEF InTest
    <2>3. CASE NumHarts # 1
      BY <1>3, <2>3, EarnKept, ZenonT(60) DEF RegisterCompare, InTest
    <2>4. QED
      BY <2>2, <2>3
  <1>4. CASE val_hart_default_esr
    <2>1. /\ pc = "payload" /\ pc' = "print" /\ UNCHANGED <<k, verdict, report>>
      BY <1>4, ZenonT(60) DEF val_hart_default_esr
    <2>2. QED
      BY <2>1, Indices, ZenonT(60) DEF EarnInv, EarnedIsPass, LastNeverPasses, InTest, Waiting
  <1>5. CASE val_set_test_data \/ SkipSelf \/ LaunchDone \/ CpuOnRetry \/ WaitScan
             \/ WaitScanned \/ PollRead \/ PollAgain \/ PollJudge
    <2>1. /\ pc \in Waiting /\ pc' # "init"
          /\ UNCHANGED <<k, verdict, report, status>>
      BY <1>5, ZenonT(60) DEF val_set_test_data, SkipSelf, LaunchDone, CpuOnRetry,
         WaitScan, WaitScanned, PollRead, PollAgain, PollJudge, Waiting
    <2>2. QED
      BY <2>1, EarnKept, ZenonT(60) DEF InTest
  <1>6. CASE CpuOnAnswered
    <2>1. PICK ret \in {"SUCCESS", "ERROR", "ON_PENDING"} :
             /\ CpuOnReturns(i, ret)
             /\ status' = IF ret = "SUCCESS" THEN status
                          ELSE [status EXCEPT ![i] = Word("FAIL", 0)]
             /\ report' = IF ret = "ERROR" THEN [report EXCEPT ![k][i] = "FAIL"] ELSE report
      BY <1>6, ZenonT(60) DEF CpuOnAnswered
    <2>2. /\ pc = "cpu_on" /\ pc' # "init" /\ UNCHANGED <<k, verdict>>
          /\ i \in Secondaries /\ i \in Harts /\ i # Primary /\ ~Active(i)
      BY <1>6, Indices, Members, Polled DEF CpuOnAnswered, AfterExecute, HartInv
    <2>3. ret # "ON_PENDING"
      BY <2>1, <2>2, ZenonT(60) DEF CpuOnReturns, Active
    <2>4. /\ \A h \in Harts : h # i => status'[h] = status[h] /\ report'[k][h] = report[k][h]
          /\ \/ status'[i] = status[i] /\ report'[k][i] = report[k][i]
             \/ report'[k][i] = "FAIL"
          /\ \A t \in Tests : t # k => report'[t] = report[t]
      BY <2>1, <2>3, Current, Slots, Reports, ZenonT(60)
    <2>5. QED
      BY <2>2, <2>4, Members, EarnKept, ZenonT(60) DEF InTest, Waiting
  <1>7. CASE val_check_for_error
    BY <1>7, CheckForErrorEarns, ZenonT(60)
  <1>8. CASE PrintTestStatus
    BY <1>8, ZenonT(60) DEF PrintTestStatus, EarnInv, EarnedIsPass, LastNeverPasses,
       InTest, Waiting
  <1>9. ASSUME NEW h \in Secondaries, PayloadOnSecondary(h)
        PROVE  EarnInv'
    <2>1. /\ pc \in Waiting /\ vector[h] = k /\ h \in Harts /\ h # Primary
          /\ UNCHANGED <<pc, k, verdict>>
      BY <1>9, Members, Current, Polled, ZenonT(60) DEF PayloadOnSecondary, primaryVars,
         HartInv, Active
    <2>2. PICK r \in Outcomes :
             /\ status' = [status EXCEPT ![h] = Word(r, Num(k))]
             /\ report' = [report EXCEPT ![k][h] = r]
      BY <1>9, <2>1, ZenonT(60) DEF PayloadOnSecondary
    <2>3. /\ \A g \in Harts : g # h => status'[g] = status[g] /\ report'[k][g] = report[k][g]
          /\ status'[h] = Word(r, Num(k)) /\ report'[k][h] = r
          /\ \A t \in Tests : t # k => report'[t] = report[t]
      <3>1. h \in Harts
        BY <2>1
      <3>2. QED
        BY <2>2, <3>1, Written, ZenonT(60)
    <2>4. status'[h].state = r
      BY <2>3, Current, WordTypes DEF Outcomes
    <2>5. QED
      BY <2>1, <2>3, <2>4, Places, Members, Current, EarnKept, ZenonT(60) DEF InTest,
         Waiting
  <1>10. ASSUME NEW h \in Secondaries, ModuleEntryPoint(h) \/ val_get_test_data(h) \/ CpuOff(h)
         PROVE  EarnInv'
    BY <1>10, EarnSame, ZenonT(60) DEF ModuleEntryPoint, val_get_test_data, CpuOff,
       primaryVars
  <1>11. CASE UNCHANGED vars
    BY <1>11, EarnSame, ZenonT(60) DEF vars
  <1>12. QED
    BY <1>1, <1>2, <1>3, <1>4, <1>5, <1>6, <1>7, <1>8, <1>9, <1>10, <1>11, Actions,
       ZenonT(60) DEF val_test_entry, CpuOnTimesOut, WaitTimesOut, PollTimesOut, Patient

LEMMA EarnHolds == ASSUME Patient PROVE Spec => []EarnInv
  <1>1. IndInv /\ EarnInv /\ [Next]_vars => IndInv' /\ EarnInv'
    BY IndStep, EarnStep, ZenonT(60) DEF IndInv
  <1>2. QED
    BY IndInit, EarnInit, <1>1, PTL DEF Spec

(* While no polling counter runs out, a selected test whose payload         *)
(* reported PASS on every hart it runs on is counted as passed, if a test   *)
(* of one hart runs on the hart of slot 0 and test_os_c001 is not run from  *)
(* the hart of the last slot.                                               *)
THEOREM PatientEarnedIsPass == ASSUME Patient, LastReports PROVE Spec => []EarnedIsPass
  <1>1. EarnInv => EarnedIsPass
    BY DEF EarnInv
  <1>2. QED
    BY EarnHolds, <1>1, PTL

(* The last assumption is needed: test_os_c001 run from the hart of the     *)
(* last slot, which stays PENDING because only the other harts report, is   *)
(* counted as failed or skipped whatever the harts report.                  *)
THEOREM LastHartNeverPasses == ASSUME Patient PROVE Spec => []LastNeverPasses
  <1>1. EarnInv => LastNeverPasses
    BY DEF EarnInv
  <1>2. QED
    BY EarnHolds, <1>1, PTL
=============================================================================
