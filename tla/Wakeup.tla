------------------------------- MODULE Wakeup -------------------------------
(***************************************************************************)
(* The wakeup tests of test_os_u001.c on the primary hart: each arms an    *)
(* interrupt source, sleeps in WFI and is woken by the handler of the      *)
(* source or, one second later, by the handler of a failsafe timer.  The   *)
(* failsafe is the EL1 physical timer, which is also the source of the     *)
(* first test.  A handler runs on the sleeping hart itself, so it is one   *)
(* step; a source may fire as soon as it is armed when it is in hw.early,  *)
(* otherwise only while the hart sleeps.                                   *)
(***************************************************************************)
EXTENDS Integers, FiniteSets

CONSTANTS
  Timeout,     \* g_wakeup_timeout
  Word         \* the first value that does not fit the 32-bit offset register

ASSUME WakeAssumption == Timeout \in Nat \ {0} /\ Word \in Nat

VARIABLES
  hw,          \* sources that work, what they are, how fast they tick
  wk,          \* the test that runs, its step, and the globals of the file
  armed,       \* sources that are counting or have expired
  acr,         \* timer frames whose access bit is set
  status,      \* result word of the hart, without the test number
  verdicts,    \* result word when the test was checked
  fired        \* sources that fired in the running test

wakeVars == <<hw, wk, armed, acr, status, verdicts, fired>>

Wds == <<"wd0", "wd1">>
Sys == <<"sys0", "sys1">>
Sources == {"phy", "vir", "el2", "wd0", "wd1", "sys0", "sys1"}
Checked == 6       \* one after the last test

\* The platforms: sources that work, expire at once, refuse a handler, are
\* secure or have no base address; numbers of watchdogs and timer frames.
Hardware ==
  [live : SUBSET Sources, early : SUBSET Sources, refused : SUBSET Sources, secure : SUBSET Sources,
   nobase : SUBSET Sources, wds : 0..2, frames : 0..2, rev : Nat, freq : Nat, cntl : BOOLEAN,
   grant : BOOLEAN, el2 : BOOLEAN, g_el1physkip : BOOLEAN, other : BOOLEAN]

Step(pc) == wk' = [wk EXCEPT !.pc = pc]
val_set_status(s) == status' = s

\* val_platform_timer_get_entry_index in the single block the tables have.
val_timer_get_info(n) == Sys[n + 1]
val_wd_get_info(n) == Wds[n + 1]

-----------------------------------------------------------------------------
(* Programming the sources.  A value of 0 disarms.                          *)

Started(source, on) == armed' = IF on THEN armed \cup {source} ELSE armed \ {source}

val_timer_set_phy_el1(timeout) == Started("phy", timeout # 0)
val_timer_set_vir_el1(timeout) == Started("vir", timeout # 0)
val_timer_set_phy_el2(timeout) == Started("el2", timeout # 0)
val_timer_set_system_timer(source, timeout) == Started(source, TRUE)
val_timer_disable_system_timer(source) == Started(source, FALSE)

\* The offset register of revision 0 holds 32 bits only: a longer timeout is
\* an error and arms nothing.
WdTooLong(timeout) == hw.rev = 0 /\ hw.freq * timeout >= Word
val_wd_set_ws0(source, timeout) ==
  IF timeout # 0 /\ WdTooLong(timeout) THEN UNCHANGED armed ELSE Started(source, timeout # 0)

\* Sets the access bit of a frame when it is clear, and skips when it stays
\* clear or the control frame is unknown.
val_timer_skip_if_cntbase_access_not_allowed(source, skip) ==
  /\ acr' = IF hw.cntl /\ hw.grant THEN acr \cup {source} ELSE acr
  /\ skip = (~hw.cntl \/ source \notin acr')

\* Bug: the handler is there, the timer is never started.
wakeup_set_failsafe_unarmed == UNCHANGED armed /\ wk' = [wk EXCEPT !.phy_isr = "failsafe", !.pc = "arm"]

\* The failsafe handler replaces whatever handled the EL1 timer.
wakeup_set_failsafe ==
  val_timer_set_phy_el1(Timeout + 1) /\ wk' = [wk EXCEPT !.phy_isr = "failsafe", !.pc = "arm"]

wakeup_clear_failsafe == val_timer_set_phy_el1(0)

-----------------------------------------------------------------------------
(* Handlers: each silences its source and leaves the result, and the hart  *)
(* is awake when it returns.                                               *)

Woken(w) == IF w.pc = "asleep" THEN [w EXCEPT !.pc = "woken"] ELSE w

isr1 == val_timer_set_phy_el1(0) /\ val_set_status("PASS") /\ wk' = Woken(wk)
isr2 == val_timer_set_vir_el1(0) /\ val_set_status("PASS") /\ wk' = Woken(wk)
isr3 == val_timer_set_phy_el2(0) /\ val_set_status("PASS") /\ wk' = Woken(wk)

\* A watchdog that fires when timer_num names another device silences that
\* one; past the end of the table it silences none.
isr4 ==
  /\ IF wk.timer_num \in 0..1 THEN val_wd_set_ws0(val_wd_get_info(wk.timer_num), 0) ELSE UNCHANGED armed
  /\ val_set_status("PASS")
  /\ wk' = Woken([wk EXCEPT !.g_wd_int_received = TRUE])

isr5 ==
  /\ IF wk.timer_num \in 0..1
     THEN val_timer_disable_system_timer(val_timer_get_info(wk.timer_num)) ELSE UNCHANGED armed
  /\ val_set_status("PASS")
  /\ wk' = Woken(wk)

\* Bug: the payload is not told that the failsafe ran.
isr_failsafe_silent == val_timer_set_phy_el1(0) /\ val_set_status("FAIL") /\ wk' = Woken(wk)

isr_failsafe ==
  /\ val_timer_set_phy_el1(0)
  /\ val_set_status("FAIL")
  /\ wk' = Woken([wk EXCEPT !.g_failsafe_int_received = TRUE])

Handler(source) ==
  \/ source = "phy" /\ wk.phy_isr = "isr1" /\ isr1
  \/ source = "phy" /\ wk.phy_isr = "failsafe" /\ isr_failsafe
  \/ source = "vir" /\ isr2
  \/ source = "el2" /\ isr3
  \/ source \in {"wd0", "wd1"} /\ isr4
  \/ source \in {"sys0", "sys1"} /\ isr5

-----------------------------------------------------------------------------
(* The payloads.  wk.source is the device the running test is about.       *)

In(pcs) == wk.test < Checked /\ wk.pc \in pcs
Kept == UNCHANGED <<hw, verdicts>>

\* payload1, payload2, payload3: status, handler.
payload_timer ==
  LET source == <<"phy", "vir", "el2">>[wk.test] IN
    /\ wk.test \in 1..3
    /\ val_set_status("FAIL")
    /\ wk' = [wk EXCEPT !.source = source,
                        !.phy_isr = IF wk.test = 1 /\ "phy" \notin hw.refused THEN "isr1" ELSE @,
                        !.pc = IF source \in hw.refused THEN "check"
                               ELSE IF wk.test = 1 THEN "arm" ELSE "failsafe"]
    /\ UNCHANGED <<armed, acr>>

\* payload4 and payload5 up to their loops: the number of devices.
payload_count(count) ==
  /\ IF count = 0 THEN val_set_status("SKIP") ELSE UNCHANGED status
  /\ wk' = [wk EXCEPT !.timer_num = count, !.ns = FALSE, !.pc = IF count = 0 THEN "check" ELSE "loop"]
  /\ UNCHANGED <<armed, acr>>

\* while (timer_num--), and the skip when every device was secure.
payload_loop ==
  LET n == wk.timer_num - 1
      device == IF wk.test = 4 THEN val_wd_get_info(n) ELSE val_timer_get_info(n)
  IN
    /\ UNCHANGED <<armed, acr>>
    /\ IF n = -1
       THEN /\ IF wk.ns THEN UNCHANGED status ELSE val_set_status("SKIP")
            /\ wk' = [wk EXCEPT !.timer_num = -1, !.pc = "check"]
       ELSE /\ UNCHANGED status
            /\ wk' = IF device \in hw.secure THEN [wk EXCEPT !.timer_num = n]
                     ELSE [wk EXCEPT !.timer_num = n, !.ns = TRUE, !.source = device,
                                     !.pc = IF wk.test = 4 THEN "install" ELSE "access"]

payload5_access ==
  \E skip \in BOOLEAN :
    /\ val_timer_skip_if_cntbase_access_not_allowed(wk.source, skip)
    /\ LET leave == skip \/ wk.source \in hw.nobase IN
         /\ IF leave THEN val_set_status("SKIP") ELSE UNCHANGED status
         /\ Step(IF leave THEN "check" ELSE "install")
    /\ UNCHANGED armed

\* A refused handler: the watchdog loop goes on, the timer loop ends.
payload_install ==
  /\ IF wk.source \in hw.refused
     THEN val_set_status("FAIL") /\ Step(IF wk.test = 4 THEN "loop" ELSE "check")
     ELSE Step("failsafe") /\ UNCHANGED status
  /\ UNCHANGED <<armed, acr>>

\* The source is started; the flags of the watchdog handlers are cleared
\* only afterwards.
payload_arm ==
  /\ \/ wk.test = 1 /\ val_timer_set_phy_el1(Timeout)
     \/ wk.test = 2 /\ val_timer_set_vir_el1(Timeout)
     \/ wk.test = 3 /\ val_timer_set_phy_el2(Timeout)
     \/ wk.test = 4 /\ val_wd_set_ws0(wk.source, Timeout)
     \/ wk.test = 5 /\ val_timer_set_system_timer(wk.source, Timeout)
  /\ IF wk.test = 4 /\ WdTooLong(Timeout)
     THEN val_set_status("FAIL") /\ Step("check")
     ELSE UNCHANGED status /\ Step(IF wk.test = 4 THEN "flags" ELSE "wfi")
  /\ UNCHANGED acr

payload4_flags ==
  /\ wk' = [wk EXCEPT !.g_wd_int_received = FALSE, !.g_failsafe_int_received = FALSE, !.pc = "wfi"]
  /\ UNCHANGED <<armed, acr, status>>

val_power_enter_semantic == Step("asleep") /\ UNCHANGED <<armed, acr, status>>

\* Awake again.  A watchdog payload that neither handler has run for was
\* woken by something else, which passes.
payload_woken ==
  /\ IF wk.test = 1 THEN UNCHANGED armed ELSE wakeup_clear_failsafe
  /\ IF wk.test = 4 /\ ~wk.g_wd_int_received /\ ~wk.g_failsafe_int_received
     THEN val_set_status("PASS") ELSE UNCHANGED status
  /\ Step(IF wk.test \in 4..5 THEN "loop" ELSE "check")
  /\ UNCHANGED acr

\* val_run_test_payload between the two halves of os_u001_entry.
WakePayload ==
  /\ \/ In({"payload"}) /\ payload_timer
     \/ In({"payload"}) /\ wk.test = 4 /\ payload_count(hw.wds)
     \/ In({"payload"}) /\ wk.test = 5 /\ payload_count(hw.frames)
     \/ In({"loop"}) /\ payload_loop
     \/ In({"access"}) /\ payload5_access
     \/ In({"install"}) /\ payload_install
     \/ In({"failsafe"}) /\ wakeup_set_failsafe /\ UNCHANGED <<acr, status>>
     \/ In({"arm"}) /\ payload_arm
     \/ In({"flags"}) /\ payload4_flags
     \/ In({"wfi"}) /\ val_power_enter_semantic
     \/ In({"woken"}) /\ payload_woken
  /\ UNCHANGED fired /\ Kept

\* os_u001_entry: a test is left out, or initialised, run and checked.
os_u001_entry ==
  /\ UNCHANGED <<hw, armed, acr>>
  /\ \/ /\ In({"begin"})
        /\ fired' = {}
        /\ UNCHANGED verdicts
        /\ IF (wk.test <= 2 /\ hw.g_el1physkip) \/ (wk.test = 3 /\ ~hw.el2)
           THEN wk' = [wk EXCEPT !.test = @ + 1] /\ UNCHANGED status
           ELSE Step("payload") /\ val_set_status("PENDING")
     \/ /\ In({"check"})
        /\ verdicts' = [verdicts EXCEPT ![wk.test] = [status |-> status, source |-> wk.source, fired |-> fired]]
        /\ wk' = [wk EXCEPT !.test = @ + 1, !.pc = "begin", !.source = "none"]
        /\ UNCHANGED <<status, fired>>

-----------------------------------------------------------------------------
(* The sources.  A working one fires while the hart sleeps, or before when  *)
(* it is early; the failsafe, a second later, only after the source of the *)
(* running test, unless it was left running by an earlier test.            *)

Live == armed \cap hw.live

MayFire(source) ==
  IF source = "phy" /\ wk.phy_isr = "failsafe"
  THEN \/ wk.pc = "asleep" /\ wk.source \notin Live
       \/ wk.pc \in {"begin", "payload", "loop", "access", "install", "check"}
  ELSE wk.pc = "asleep" \/ source \in hw.early \/ source # wk.source

Fire(source) ==
  /\ source \in Live /\ MayFire(source)
  /\ Handler(source)
  /\ fired' = fired \cup {source}
  /\ UNCHANGED acr /\ Kept

\* Some other interrupt ends the sleep; no handler of the tests runs.
FireOther ==
  /\ hw.other /\ In({"asleep"})
  /\ wk' = [Woken(wk) EXCEPT !.others = TRUE]
  /\ UNCHANGED <<armed, acr, status, fired>> /\ Kept

-----------------------------------------------------------------------------
NoVerdict == [status |-> "none", source |-> "none", fired |-> {}]

WakeInit(hws) ==
  /\ hw \in hws
  /\ wk = [test |-> 1, pc |-> "begin", source |-> "none", timer_num |-> 0, ns |-> FALSE, phy_isr |-> "none",
           g_wd_int_received |-> FALSE, g_failsafe_int_received |-> FALSE, others |-> FALSE]
  /\ armed = {} /\ acr = {} /\ fired = {}
  /\ status = "none"
  /\ verdicts = [t \in 1..5 |-> NoVerdict]

AnyFires == \E source \in armed : Fire(source)
WakeNext == WakePayload \/ os_u001_entry \/ AnyFires \/ FireOther

-----------------------------------------------------------------------------
(* Properties.                                                             *)

\* A wakeup test passes only when the device it tried last fired during that
\* test, and fails only when that device is dead, refused, could not be armed
\* or fired before the hart slept.  Handlers of the source and of the failsafe
\* write the same result word, and the failsafe is armed in every order with
\* them (test_os_u001.c).  A watchdog that could not be armed leaves the
\* failsafe running, which may fail the next test as well.  Once another
\* interrupt has ended a sleep a source stays armed, so nothing is claimed from
\* then on.
WakeupVerdicts ==
  \A t \in {t \in 1..5 : ~wk.others} :
    LET v == verdicts[t] IN
      /\ v.status = "PASS" => v.source \in v.fired
      /\ v.status = "FAIL" =>
           \/ v.source \notin hw.live \/ v.source \in hw.refused \cup hw.early
           \/ t \in 4..5 /\ WdTooLong(Timeout)

\* The wakeup tests come to their end when the EL1 physical timer works and
\* does not fire before the first test sleeps: it is the source of the first
\* and the failsafe of the others (wakeup_set_failsafe), whatever the devices do.
WakeupEnds ==
  (~wk.others /\ "phy" \in hw.live \ (hw.early \cup hw.refused)) ~> (wk.test = Checked \/ wk.others)
=============================================================================
