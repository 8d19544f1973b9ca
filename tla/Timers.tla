------------------------------- MODULE Timers -------------------------------
(***************************************************************************)
(* The timer and watchdog tables: filled from the RHCT and GTDT of ACPI,   *)
(* from a device tree, or from the configuration compiled into the bare    *)
(* metal build, and read by the tests through the accessors of acs_timer.c *)
(* and acs_wd.c.                                                           *)
(***************************************************************************)
EXTENDS DeviceTree

VARIABLES
  source,     \* what the platform describes itself with, and the description
  timers,     \* TIMER_INFO_TABLE
  sysregs,       \* the generic timer's registers: Tval, and the two bits of Ctl
  armed,      \* the timeout each timer was last set to, 0 when off
  wds,        \* WD_INFO_TABLE: header.num_wd is its length
  dumped      \* the builders that came to their end

timerVars == <<source, timers, sysregs, armed, wds, dumped>>

NoTimers == [freq |-> 0, s_el1 |-> 0, ns_el1 |-> 0, virt |-> 0, el2 |-> 0, flag |-> 0, el2_virt |-> 0,
             num_platform_timer |-> 0, cntl |-> 0, frames |-> <<>>]

-----------------------------------------------------------------------------
(* Watchdogs.                                                              *)

INTERRUPT_IS_LEVEL == 0
INTERRUPT_IS_EDGE == 1
ACTIVE_HIGH == 0
ACTIVE_LOW == 1

\* IRQ_TYPE_NONE, EDGE_RISING, EDGE_FALLING, LEVEL_HIGH, LEVEL_LOW.
IrqTypes == {0, 1, 2, 4, 8}
Mode(flag) == IF flag \in {1, 2} THEN INTERRUPT_IS_EDGE ELSE INTERRUPT_IS_LEVEL
Polarity(flag) == IF flag \in {2, 8} THEN ACTIVE_LOW ELSE ACTIVE_HIGH
WdFlags(flag) == 2 * Polarity(flag) + Mode(flag)

\* Where a watchdog's refresh frame is read: after the address and the size of
\* its control frame.  Bug: the size is not skipped.
RefreshAt_SizeKept(index, ac, sc) == index + ac
RefreshAt(index, ac, sc) == index + ac + sc

\* One round of the loop over the watchdog nodes.  index is where the last
\* round left it; ok falls at the first node the code returns at.
WdEntry(t, node, ac, sc, n) ==
  LET gic == n >= 3
      flag == IF gic THEN Cell(node.intr, 2) ELSE IF n = 2 THEN Cell(node.intr, 1) ELSE 0
  IN [info  |-> Append(t.info, [ctrl    |-> Address(node.reg, t.index, ac),
                                refresh |-> Address(node.reg, RefreshAt(t.index, ac, sc), ac),
                                gsiv    |-> IF ~gic THEN Cell(node.intr, 0)
                                            ELSE IF Cell(node.intr, 0) # 0 THEN Offset(node.intr, 1, PPI_OFFSET)
                                            ELSE Offset(node.intr, 1, SPI_OFFSET),
                                flags   |-> IF flag \in IrqTypes THEN WdFlags(flag) ELSE Garbage]),
      index |-> IF gic THEN 2 ELSE IF n = 2 THEN 1 ELSE 0,
      ok    |-> flag \in IrqTypes]

pal_wd_create_info_table_dt(dt) ==
  LET n == fdt_interrupt_cells(dt.tree, dt.at)
      one(t, node) == IF ~t.ok \/ ~Present(node.reg) \/ ~Present(node.intr) \/ ~CellsInRange(n, 1, 4)
                      THEN [t EXCEPT !.ok = FALSE] ELSE WdEntry(t, node, dt.ac, dt.sc, n)
      start == [info |-> <<>>, index |-> 0, ok |-> TRUE]
  IN IF dt.wd # <<>> /\ ~(CellsInRange(dt.sc, 1, 2) /\ CellsInRange(dt.ac, 1, 2))
     THEN [start EXCEPT !.ok = FALSE] ELSE InOrder(one, start, dt.wd)

\* The watchdogs among the platform timers of the GTDT.
pal_wd_create_info_table_acpi(gtdt) ==
  LET wd == SelectSeq(gtdt, LAMBDA e : e.type = "watchdog") IN
    [k \in DOMAIN wd |-> [ctrl |-> wd[k].ctrl, refresh |-> wd[k].refresh, gsiv |-> wd[k].gsiv, flags |-> wd[k].flags]]

pal_wd_create_info_table_bm(cfg) == [k \in 1..cfg.num_wd |-> cfg.wd_info[k]]

\* The override replaces all there is by one watchdog.
pal_wd_platform_override(info, override) == IF override = <<>> THEN info ELSE override

val_wd_create_info_table ==
  /\ "wd" \notin dumped
  /\ LET dt == pal_wd_create_info_table_dt(source.dt) IN
       \/ /\ source.by = "dt"
          /\ wds' = IF dt.ok THEN pal_wd_platform_override(dt.info, source.override) ELSE dt.info
       \/ /\ source.by = "acpi"
          /\ wds' = IF "gtdt" \notin source.tables THEN <<>>
                    ELSE pal_wd_platform_override(pal_wd_create_info_table_acpi(source.gtdt), source.override)
       \/ source.by = "bm" /\ wds' = pal_wd_create_info_table_bm(source.cfg)
  /\ dumped' = dumped \cup {"wd"}
  /\ UNCHANGED <<source, timers, sysregs, armed>>

-----------------------------------------------------------------------------
(* Timers.                                                                 *)

\* The interrupts of the system timer: with three cells or more a PPI is read
\* and anything else leaves 0 and the index one cell short.
SystemTimer(cells, n) ==
  LET gic(t) == LET ppi == Cell(cells, t.index) = GIC_PPI IN
                  [gsiv  |-> Append(t.gsiv, IF ppi THEN Offset(cells, t.index + 1, PPI_OFFSET) ELSE 0),
                   index |-> t.index + (IF ppi THEN 2 ELSE 1) + (n - 2)]
      raw(t) == [gsiv |-> Append(t.gsiv, Cell(cells, t.index)), index |-> t.index + n]
      one(t) == IF n >= 3 THEN gic(t) ELSE raw(t)
  IN one(one(one(one([gsiv |-> <<>>, index |-> 0])))).gsiv

\* A frame: its physical interrupt and, when there are more cells, its virtual one.
MemFrame(frame, ac, n) ==
  LET cells == frame.intr
      spi == Cell(cells, 0) = GIC_SPI
      next == IF n < 3 \/ spi THEN n ELSE n - 1
      virt == Len(cells) > n
  IN [base |-> Address(frame.reg, 0, ac), number |-> fdt_frame_number(frame),
      gsiv |-> IF n < 3 THEN Cell(cells, 0) ELSE IF spi THEN Offset(cells, 1, SPI_OFFSET) ELSE 0,
      virt |-> IF ~virt THEN 0
               ELSE IF n < 3 THEN Cell(cells, next)
               ELSE IF Cell(cells, next) = GIC_SPI THEN Offset(cells, next + 1, SPI_OFFSET)
               ELSE 0]

\* The memory mapped timer, after the system timer: a return anywhere leaves
\* what was written, and num_platform_timer 0.
pal_timer_mem_dt(table, dt, n) ==
  LET block == [table EXCEPT !.cntl = Address(dt.memReg, 0, dt.ac)]
      one(t, frame) == IF t.ok /\ Present(frame.reg) /\ Present(frame.intr) /\ CellsInRange(n, 1, 4)
                       THEN [t EXCEPT !.frames = Append(@, MemFrame(frame, dt.frameAc, n))]
                       ELSE [t EXCEPT !.ok = FALSE]
      read == InOrder(one, [frames |-> <<>>, ok |-> TRUE], dt.frames)
  IN IF ~Present(dt.memReg) \/ ~CellsInRange(dt.ac, 1, 2) THEN table
     ELSE IF ~CellsInRange(dt.frameAc, 1, 2) \/ dt.frames = <<>> THEN block
     ELSE IF ~read.ok THEN [block EXCEPT !.frames = read.frames]
     ELSE [block EXCEPT !.frames = read.frames, !.num_platform_timer = Len(read.frames)]

pal_timer_create_info_table_dt(dt) ==
  LET n == fdt_interrupt_cells(dt.tree, dt.at)
      gsiv == SystemTimer(dt.sysIntr, n)
      flag == IF dt.alwaysOn THEN 4 ELSE 0
  IN IF ~Present(dt.sysIntr) \/ ~CellsInRange(n, 1, 4) THEN NoTimers
     ELSE pal_timer_mem_dt([NoTimers EXCEPT !.s_el1 = gsiv[1], !.ns_el1 = gsiv[2], !.virt = gsiv[3], !.el2 = gsiv[4],
                                            !.flag = flag], dt, n)

pal_timer_create_info_table_bm(cfg) ==
  [NoTimers EXCEPT !.s_el1 = cfg.gsiv[1], !.ns_el1 = cfg.gsiv[2], !.virt = cfg.gsiv[3], !.el2 = cfg.gsiv[4],
                   !.flag = cfg.flag, !.el2_virt = cfg.el2_virt, !.cntl = cfg.cntl,
                   !.frames = [k \in 1..cfg.timer_count |-> cfg.frames[k]], !.num_platform_timer = cfg.timer_count]

pal_timer_create_info_table_acpi(rhct) == [NoTimers EXCEPT !.freq = rhct]

-----------------------------------------------------------------------------
(* The generic timer of the hart.                                          *)

Clocks == {"Cntp", "Cntv", "Cnthp", "Cnthv"}
IMASK == 2
ENABLE == 1

\* The registers of a clock that can be read and written, by the name of the
\* clock and the part; the compare registers of the hypervisor's cannot.
Readable == {<<c, p>> : c \in Clocks, p \in {"Ctl", "Tval"}}
ArmArchTimerReadReg(r, reg) == IF reg \in Readable THEN r[reg] ELSE CellBase - 1
ArmArchTimerWriteReg(r, reg, data) == IF reg \in Readable THEN [r EXCEPT ![reg] = data] ELSE r

ArmGenericTimerEnableTimer(r, clock) ==
  LET ctl == ArmArchTimerReadReg(r, <<clock, "Ctl">>) IN
    ArmArchTimerWriteReg(r, <<clock, "Ctl">>, (ctl \ {IMASK}) \cup {ENABLE})
ArmGenericTimerDisableTimer(r, clock) ==
  LET ctl == ArmArchTimerReadReg(r, <<clock, "Ctl">>) IN
    ArmArchTimerWriteReg(r, <<clock, "Ctl">>, (ctl \cup {IMASK}) \ {ENABLE})

SetTimer(r, clock, timeout) ==
  LET off == ArmGenericTimerDisableTimer(r, clock) IN
    IF timeout = 0 THEN off
    ELSE ArmGenericTimerEnableTimer(ArmArchTimerWriteReg(off, <<clock, "Tval">>, timeout), clock)

\* val_timer_set_phy_el1 and vir_el1, phy_el2, vir_el2, each on its own clock.
val_timer_set(clock, timeout) ==
  /\ "timer" \in dumped
  /\ sysregs' = SetTimer(sysregs, clock, timeout)
  /\ armed' = [armed EXCEPT ![clock] = timeout]
  /\ UNCHANGED <<source, timers, wds, dumped>>

\* The table, then the two timers of EL1 off, unless their registers are not
\* to be touched.
val_timer_create_info_table ==
  /\ "timer" \notin dumped
  /\ \/ source.by = "dt" /\ timers' = pal_timer_create_info_table_dt(source.dt)
     \/ /\ source.by = "acpi"
        /\ timers' = IF "rhct" \in source.tables THEN pal_timer_create_info_table_acpi(source.freq) ELSE NoTimers
     \/ source.by = "bm" /\ timers' = pal_timer_create_info_table_bm(source.cfg)
  /\ LET off == IF source.el1physkip THEN {} ELSE {"Cntp", "Cntv"} IN
       /\ sysregs' = IF off = {} THEN sysregs ELSE SetTimer(SetTimer(sysregs, "Cntp", 0), "Cntv", 0)
       /\ armed' = [c \in Clocks |-> IF c \in off THEN 0 ELSE armed[c]]
  /\ dumped' = dumped \cup {"timer"}
  /\ UNCHANGED <<source, wds>>

-----------------------------------------------------------------------------
(* What the tests read.                                                    *)

\* The one block there is, unless the instance is beyond the timers; an
\* instance equal to their number is let through.
val_platform_timer_get_entry_index(instance) ==
  IF instance > timers.num_platform_timer THEN 0 ELSE instance + 1

val_timer_get_info(type, instance) ==
  LET i == val_platform_timer_get_entry_index(instance)
      frame == IF i \in DOMAIN timers.frames THEN timers.frames[i]
               ELSE [base |-> Garbage, number |-> Garbage, gsiv |-> Garbage]
  IN CASE type = "CNTFREQ" -> timers.freq
       [] type = "PHY_EL1_INTID" -> timers.ns_el1
       [] type = "VIR_EL1_INTID" -> timers.virt
       [] type = "PHY_EL2_INTID" -> timers.el2
       [] type = "VIR_EL2_INTID" -> timers.el2_virt
       [] type = "NUM_PLATFORM_TIMERS" -> timers.num_platform_timer
       [] type \in {"PHY_EL1_FLAGS", "VIR_EL1_FLAGS", "PHY_EL2_FLAGS"} -> timers.flag
       [] i = 0 -> 0
       [] type = "SYS_CNTL_BASE" -> timers.cntl
       [] type = "SYS_CNT_BASE_N" -> frame.base
       [] type = "FRAME_NUM" -> frame.number
       [] type = "SYS_INTID" -> frame.gsiv

\* The board's own frequency, or the table's.
val_get_counter_frequency == IF source.cntfrq # 0 THEN source.cntfrq ELSE val_timer_get_info("CNTFREQ", 0)

val_wd_get_info(index, type) ==
  CASE type = "COUNT" -> Len(wds)
    [] type = "CTRL_BASE" -> wds[index + 1].ctrl
    [] type = "REFRESH_BASE" -> wds[index + 1].refresh
    [] type = "GSIV" -> wds[index + 1].gsiv
    [] type = "ISSECURE" -> (wds[index + 1].flags \div 4) % 2
    [] type = "IS_EDGE" -> wds[index + 1].flags % 2
-----------------------------------------------------------------------------
(* The device tree of a description, and what the tests should read.       *)

\* hw: the watchdogs, the system timer's interrupts, the memory mapped timer
\* and its frames; shape: how many cells; missing: the property left out of
\* the last watchdog or frame.
DtOf(hw, shape, missing) ==
  LET n == fdt_interrupt_cells(shape.tree, shape.at)
      last(seq, k, prop, cells) == IF k = Len(seq) /\ missing = prop THEN NoProp ELSE cells
  IN [tree |-> shape.tree, at |-> shape.at, ac |-> shape.ac, sc |-> shape.sc, frameAc |-> shape.frameAc,
      wd |-> [k \in DOMAIN hw.wd |->
                [reg  |-> last(hw.wd, k, "wd reg", RegCells(<<<<hw.wd[k].ctrl, 1>>, <<hw.wd[k].refresh, 1>>>>, shape.ac, shape.sc)),
                 intr |-> last(hw.wd, k, "wd intr", IntrCells(<<hw.wd[k].intr>>, shape.cells))]],
      sysIntr |-> IF missing = "system" THEN NoProp ELSE IntrCells(hw.system, shape.cells),
      alwaysOn |-> hw.alwaysOn,
      memReg |-> IF missing = "mem" THEN NoProp ELSE RegCells(<<<<hw.cntl, 1>>>>, shape.ac, shape.sc),
      frames |-> [k \in DOMAIN hw.frames |->
                    [reg    |-> last(hw.frames, k, "frame reg", RegCells(<<<<hw.frames[k].base, 1>>>>, shape.frameAc, 1)),
                     intr   |-> last(hw.frames, k, "frame intr", IntrCells(hw.frames[k].intrs, shape.cells)),
                     number |-> hw.frames[k].number]],
      hw |-> hw, cells |-> shape.cells, missing |-> missing]

WholeWds(dt) == IF dt.missing \in {"wd reg", "wd intr"} THEN Len(dt.wd) - 1 ELSE Len(dt.wd)

\* What the tests are to read of the watchdogs.
DescribedWds ==
  IF source.by # "bm" /\ source.override # <<>> /\ (source.by = "dt" => source.dt.missing \notin {"wd reg", "wd intr"})
         /\ (source.by = "acpi" => "gtdt" \in source.tables) THEN source.override
  ELSE IF source.by = "bm" THEN source.cfg.wd_info
  ELSE IF source.by = "acpi" THEN IF "gtdt" \in source.tables THEN SelectSeq(source.gtdt, LAMBDA e : e.type = "watchdog") ELSE <<>>
  ELSE [k \in 1..WholeWds(source.dt) |->
                   LET wd == source.dt.hw.wd[k] IN
                     [ctrl  |-> wd.ctrl, refresh |-> wd.refresh, gsiv |-> IntId(wd.intr, source.dt.cells),
                      flags |-> IF source.dt.cells = 1 THEN 0 ELSE WdFlags(wd.intr.flag)]]

WdRead(k) == [ctrl |-> val_wd_get_info(k, "CTRL_BASE"), refresh |-> val_wd_get_info(k, "REFRESH_BASE"),
              gsiv |-> val_wd_get_info(k, "GSIV"), edge |-> val_wd_get_info(k, "IS_EDGE")]
WdIsRight(k) ==
  LET d == DescribedWds[k + 1] IN
    WdRead(k) = [ctrl |-> d.ctrl, refresh |-> d.refresh, gsiv |-> d.gsiv, edge |-> d.flags % 2]

\* A watchdog table has the watchdogs described before the first node that
\* lacks a property, and the interrupts of all, the frames of the first (of
\* all, but from a device tree) are right in whichever way it was built, with
\* one or two cells to an address and any number to an interrupt.
WatchdogsAreRight ==
  "wd" \in dumped =>
    /\ val_wd_get_info(0, "COUNT") = Len(DescribedWds)
    /\ \A k \in 0..(Len(wds) - 1) :
         \/ source.by = "dt" /\ k > 0 /\ source.dt.cells > 1 /\ WdRead(k).gsiv = DescribedWds[k + 1].gsiv
         \/ WdIsRight(k)

\* The device tree's timers, when their interrupts are of the kinds the code
\* expects of them.
ExpectedKinds(dt) ==
  dt.cells >= 3 => /\ \A k \in 1..4 : dt.hw.system[k].type = GIC_PPI
                   /\ \A k \in DOMAIN dt.hw.frames : dt.hw.frames[k].intrs[1].type = GIC_SPI

DescribedTimers ==
  CASE source.by = "bm" -> [gsiv |-> source.cfg.gsiv, cntl |-> source.cfg.cntl, flag |-> source.cfg.flag,
                            frames |-> source.cfg.frames]
    [] source.by = "dt" ->
         LET hw == source.dt.hw
             frame(f) == [base |-> f.base, number |-> IF f.number = Garbage THEN 2 ELSE f.number,
                          gsiv |-> IntId(f.intrs[1], source.dt.cells),
                          virt |-> IF Len(f.intrs) = 1 THEN 0 ELSE IntId(f.intrs[2], source.dt.cells)]
         IN [gsiv |-> [k \in 1..4 |-> IntId(hw.system[k], source.dt.cells)], cntl |-> hw.cntl,
             flag |-> IF hw.alwaysOn THEN 4 ELSE 0, frames |-> [k \in DOMAIN hw.frames |-> frame(hw.frames[k])]]

\* The tests read of a timer what the firmware says of it: the frequency from
\* ACPI, the interrupts, the flag and every frame below the count otherwise;
\* when part of a device tree's description is missing the count is 0, and no
\* frame is shown for one that is not there.  A clock that a test has set runs
\* unmasked with its timeout, one that was switched off does not, and setting
\* one never disturbs another.
TimersAreRight ==
  /\ "timer" \in dumped =>
       IF source.by = "acpi"
       THEN val_get_counter_frequency = (IF source.cntfrq # 0 THEN source.cntfrq ELSE IF "rhct" \in source.tables THEN source.freq ELSE 0)
       ELSE LET d == DescribedTimers
                whole == source.by = "bm" \/ source.dt.missing \notin {"system", "mem", "frame reg", "frame intr"}
            IN (source.by = "dt" => ExpectedKinds(source.dt)) =>
                 /\ val_timer_get_info("NUM_PLATFORM_TIMERS", 0) = IF whole THEN Len(d.frames) ELSE 0
                 /\ (source.by = "bm" \/ source.dt.missing # "system") =>
                      /\ val_timer_get_info("PHY_EL1_INTID", 0) = d.gsiv[2]
                      /\ val_timer_get_info("VIR_EL1_INTID", 0) = d.gsiv[3]
                      /\ val_timer_get_info("PHY_EL2_INTID", 0) = d.gsiv[4]
                      /\ val_timer_get_info("PHY_EL1_FLAGS", 0) = d.flag
                 /\ \A k \in 0..(timers.num_platform_timer - 1) :
                      /\ val_timer_get_info("SYS_CNTL_BASE", k) = d.cntl
                      /\ val_timer_get_info("SYS_CNT_BASE_N", k) = d.frames[k + 1].base
                      /\ val_timer_get_info("FRAME_NUM", k) = d.frames[k + 1].number
                      /\ val_timer_get_info("SYS_INTID", k) = d.frames[k + 1].gsiv
                      /\ timers.frames[k + 1].virt = d.frames[k + 1].virt
  /\ \A c \in Clocks :
       /\ armed[c] = 0 => ENABLE \notin sysregs[<<c, "Ctl">>]
       /\ armed[c] > 0 => sysregs[<<c, "Ctl">>] = {ENABLE} /\ sysregs[<<c, "Tval">>] = armed[c]

TimerInit(sources, running) ==
  /\ source \in sources
  /\ timers = NoTimers /\ wds = <<>> /\ dumped = {}
  /\ \E on \in running : sysregs = [r \in Readable |-> IF r[2] = "Tval" THEN 0 ELSE IF r[1] \in on THEN {ENABLE} ELSE {}]
  /\ armed = [c \in Clocks |-> -1]

\* Both of the above, for the tables of val_timer_create_info_table and
\* val_wd_create_info_table and the clocks val_timer_set programs.
TimerInfoIsRight == WatchdogsAreRight /\ TimersAreRight
=============================================================================
