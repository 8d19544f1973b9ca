-------------------------------- MODULE Gic ---------------------------------
(***************************************************************************)
(* The interrupt controller driver of the Arm build                        *)
(* (val/sys_arch_src/gic/, val/src/acs_gic_support.c): initialisation,     *)
(* installation of a handler, and the way of an interrupt from its source  *)
(* through acknowledge and handler to its end.                             *)
(*                                                                         *)
(* The primary hart installs handlers and takes interrupts; sources raise  *)
(* them, and another hart may clear one, at any time.  A register write is *)
(* modelled by the interrupts it reaches: HwGicd and HwGicr say which      *)
(* interrupt the n-th bit of a distributor or redistributor register is.   *)
(***************************************************************************)
EXTENDS Integers

CONSTANTS IntIds, Isrs, MaxRaises

\* 1020 to 1023 are not interrupts: an acknowledge reads them when there is none.
ASSUME GicAssumption == IntIds \subseteq Nat \ (1020..1023)

VARIABLES
  gp,              \* the platform: build, version, what the registers tell, and the
                   \* interrupts that its tests use
  regs,            \* interrupts enabled, with an unusable priority, routed here; interface on
  g_intr_handler,  \* handler of each interrupt, of the driver or of UEFI
  pend, active,    \* interrupts pending, with the hart that raised them, and active
  irq,             \* what the hart is doing about an interrupt
  installed,       \* what val_gic_install_isr was last asked for and returned
  raises,          \* interrupts raised so far
  cleared          \* those that val_gic_clear_interrupt was called for

gicVars == <<gp, regs, g_intr_handler, pend, active, irq, installed, raises, cleared>>

None == "none"
Idle == [pc |-> "idle", iar |-> 1023, ran |-> None]

-----------------------------------------------------------------------------
(* Classes of interrupts.                                                  *)

V3 == gp.version \in {3, 4}
val_get_max_intid == gp.max

IsSpi(int_id) == int_id >= 32 /\ int_id < 1020

val_bsa_gic_espi_support == gp.version >= 3 /\ gp.espi >= 0
\* The range field reads zero without support.
val_bsa_gic_max_espi_val ==
  IF gp.version >= 3 THEN 32 * ((IF gp.espi < 0 THEN 0 ELSE gp.espi) + 1) + 4095 ELSE 0
v3_is_extended_spi(int_id) == int_id >= 4096 /\ int_id <= val_bsa_gic_max_espi_val
val_bsa_gic_check_espi_interrupt(int_id) == val_bsa_gic_espi_support /\ v3_is_extended_spi(int_id)

\* The frame of this hart; only the first region is searched.
CurrentCpuRDBase == gp.region = 1

val_bsa_gic_eppi_support == gp.version >= 3 /\ CurrentCpuRDBase /\ gp.eppi > 0
val_bsa_gic_max_eppi_val ==
  IF gp.version < 3 \/ ~CurrentCpuRDBase THEN 0
  ELSE IF gp.eppi = 1 THEN 1087
  ELSE IF gp.eppi = 2 THEN 1119
  ELSE 0
v3_is_extended_ppi(int_id) == int_id >= 1056 /\ int_id <= val_bsa_gic_max_eppi_val
val_bsa_gic_check_eppi_interrupt(int_id) == val_bsa_gic_eppi_support /\ v3_is_extended_ppi(int_id)

\* Interrupts behind bit n of a register of the distributor, the
\* redistributor, and the distributor's extended range.
HwGicd(n) == IF n < gp.max /\ (n >= 32 \/ ~V3) THEN {n} ELSE {}
HwGicr(n) == IF n < 32 THEN {n} ELSE IF n < 32 * (gp.eppi + 1) THEN {n + 1024} ELSE {}
HwGicdE(n) == IF gp.espi >= 0 /\ n < 32 * (gp.espi + 1) THEN {n + 4096} ELSE {}

-----------------------------------------------------------------------------
(* Enabling, disabling, priority. Functions of the registers r.            *)

Enable(r, ids) == [r EXCEPT !.enabled = @ \cup ids]
Disable(r, ids) == [r EXCEPT !.enabled = @ \ ids]
DefaultPriority(r, ids) == [r EXCEPT !.masked = @ \ ids]
Redistributor(int_id) == IF CurrentCpuRDBase THEN HwGicr(int_id) ELSE {}

\* The interrupts behind the bit that is written for an interrupt.
ExtendedBit(int_id) ==
  IF v3_is_extended_spi(int_id) THEN HwGicdE(int_id - 4096) ELSE Redistributor(int_id - 1024)

v3_disable_extended_interrupt_source(r, int_id) == Disable(r, ExtendedBit(int_id))

\* An extended SPI is written to the clear-enable register here as well.
v3_enable_extended_interrupt_source(r, int_id) ==
  IF v3_is_extended_spi(int_id) THEN Disable(r, ExtendedBit(int_id)) ELSE Enable(r, ExtendedBit(int_id))

\* The interrupts whose priority is written: the write for an extended PPI
\* misses the frame that holds priorities.
v3_set_extended_interrupt_priority(int_id) ==
  IF v3_is_extended_spi(int_id) THEN ExtendedBit(int_id) ELSE {}

Extended(int_id) == v3_is_extended_spi(int_id) \/ v3_is_extended_ppi(int_id)

Bit(int_id) ==
  CASE Extended(int_id) -> ExtendedBit(int_id)
    [] IsSpi(int_id) -> HwGicd(int_id)
    [] OTHER -> Redistributor(int_id)

v3_DisableInterruptSource(r, int_id) == Disable(r, Bit(int_id))

\* Bug: every interrupt that is not extended is enabled in the distributor.
v3_EnableInterruptSource_gicd(r, int_id) ==
  IF Extended(int_id) THEN v3_enable_extended_interrupt_source(r, int_id) ELSE Enable(r, HwGicd(int_id))

v3_EnableInterruptSource(r, int_id) ==
  IF Extended(int_id) THEN v3_enable_extended_interrupt_source(r, int_id) ELSE Enable(r, Bit(int_id))

\* As above, the write for a PPI misses its frame.
v3_SetInterruptPriority(int_id) ==
  CASE Extended(int_id) -> v3_set_extended_interrupt_priority(int_id)
    [] IsSpi(int_id) -> Bit(int_id)
    [] OTHER -> {}

v2_DisableInterruptSource(r, int_id) == Disable(r, HwGicd(int_id))
v2_EnableInterruptSource(r, int_id) == Enable(r, HwGicd(int_id))

val_bsa_gic_enableInterruptSource(r, int_id) ==
  IF V3 THEN v3_EnableInterruptSource(r, int_id) ELSE v2_EnableInterruptSource(r, int_id)
val_bsa_gic_disableInterruptSource(r, int_id) ==
  IF V3 THEN v3_DisableInterruptSource(r, int_id) ELSE v2_DisableInterruptSource(r, int_id)

-----------------------------------------------------------------------------
(* Initialisation. Each interrupt has a bit and a priority of its own, so  *)
(* a loop over interrupts writes all of theirs at once.                    *)

Each(Reached(_), ids) == UNION {Reached(int_id) : int_id \in ids}

\* The routing register written for an extended SPI is not the one of its
\* range, so routing is left as it was.
v3_extended_init(r) ==
  LET espi == {int_id \in IntIds : int_id >= 4096 /\ int_id <= val_bsa_gic_max_espi_val}
      eppi == {int_id \in IntIds : int_id >= 1056 /\ int_id <= val_bsa_gic_max_eppi_val}
      off == Disable(r, Each(ExtendedBit, espi \cup eppi))
  IN DefaultPriority(off, Each(v3_set_extended_interrupt_priority, espi \cup eppi))

val_gic_cpuif_init(r) == [r EXCEPT !.on = TRUE]

RouteHere(r, ids) == [r EXCEPT !.here = @ \cup {int_id \in ids : int_id >= 32}]

v3_Init(r) ==
  LET ids == {int_id \in IntIds : int_id < val_get_max_intid}
      extended == IF val_bsa_gic_espi_support \/ val_bsa_gic_eppi_support THEN v3_extended_init(r) ELSE r
      off == Disable(extended, Each(Bit, ids))
      set == DefaultPriority(off, Each(v3_SetInterruptPriority, ids))
  IN val_gic_cpuif_init(RouteHere(set, ids))

v2_Init(r) ==
  LET ids == {int_id \in IntIds : int_id < val_get_max_intid}
      off == Disable(r, Each(HwGicd, ids))
      set == DefaultPriority(off, Each(HwGicd, ids))
  IN [RouteHere(set, ids) EXCEPT !.on = TRUE]

val_bsa_gic_init ==
  /\ gp.build \in {"dt", "bm"} /\ ~regs.set
  /\ regs' = [IF V3 THEN v3_Init(regs) ELSE v2_Init(regs) EXCEPT !.set = TRUE]
  /\ UNCHANGED <<gp, g_intr_handler, pend, active, irq, installed, raises, cleared>>

-----------------------------------------------------------------------------
(* Installing a handler.                                                   *)

val_gic_bsa_install_isr(int_id, isr) ==
  /\ g_intr_handler' = [g_intr_handler EXCEPT ![int_id] = isr]
  /\ regs' = val_bsa_gic_enableInterruptSource(val_bsa_gic_disableInterruptSource(regs, int_id), int_id)
  /\ installed' = [installed EXCEPT ![int_id] = [status |-> "PASS", isr |-> isr]]

\* The UEFI protocol may be missing. A source that has a handler refuses
\* another until the first is taken away. Distributor interrupts are enabled
\* by hand afterwards, even without the protocol.
pal_gic_install_isr(int_id, isr) ==
  LET byHand(r) == IF int_id > 31 /\ int_id < 1024 THEN Enable(r, HwGicd(int_id)) ELSE r IN
    \/ /\ g_intr_handler' = [g_intr_handler EXCEPT ![int_id] = isr]
       /\ regs' = byHand(Enable(regs, {int_id}))
       /\ installed' = [installed EXCEPT ![int_id] = [status |-> "PASS", isr |-> isr]]
    \/ /\ regs' = byHand(regs)
       /\ installed' = [installed EXCEPT ![int_id] = [status |-> "ERR", isr |-> isr]]
       /\ UNCHANGED g_intr_handler

\* An id equal to the number of interrupts gets past the check.
val_gic_install_isr(int_id, isr) ==
  /\ gp.build = "acpi" \/ regs.set
  /\ irq.pc = "idle"
  /\ IF int_id = 0 \/ (int_id > val_get_max_intid /\ ~val_bsa_gic_check_espi_interrupt(int_id)
                        /\ ~val_bsa_gic_check_eppi_interrupt(int_id))
     THEN installed' = [installed EXCEPT ![int_id] = [status |-> "ERR", isr |-> isr]]
          /\ UNCHANGED <<regs, g_intr_handler>>
     ELSE IF gp.build = "acpi" THEN pal_gic_install_isr(int_id, isr) ELSE val_gic_bsa_install_isr(int_id, isr)
  /\ UNCHANGED <<gp, pend, active, irq, raises, cleared>>

-----------------------------------------------------------------------------
(* An interrupt on its way.                                                *)

Deliverable(int_id) ==
  /\ int_id \in regs.enabled \ regs.masked /\ regs.on
  /\ int_id < 32 \/ int_id \in 1056..1119 \/ int_id \in regs.here

Raise(int_id, cpu) ==
  /\ raises < MaxRaises /\ raises' = raises + 1
  /\ cpu = 0 \/ int_id < 16
  /\ pend' = pend \cup {<<int_id, cpu>>}
  /\ UNCHANGED <<gp, regs, g_intr_handler, active, irq, installed, cleared>>

Ready == {p \in pend : Deliverable(p[1]) /\ p[1] \notin active}

\* The hart leaves for the exception vector; all have the same priority, so
\* an active interrupt keeps others out.
common_exception_handler ==
  /\ irq.pc = "idle" /\ Ready # {} /\ active = {}
  /\ irq' = [irq EXCEPT !.pc = "ack"]
  /\ UNCHANGED <<gp, regs, g_intr_handler, pend, active, installed, raises, cleared>>

\* On version 2 the hart that raised a software interrupt is part of what is
\* read; an interrupt cleared meanwhile reads as 1023.
AcknowledgeInterrupt ==
  /\ irq.pc = "ack"
  /\ IF Ready = {} THEN irq' = [irq EXCEPT !.pc = "run", !.iar = 1023] /\ UNCHANGED <<pend, active>>
     ELSE LET p == CHOOSE q \in Ready : \A o \in Ready : q[1] < o[1] \/ (q[1] = o[1] /\ q[2] <= o[2])
          IN /\ irq' = [irq EXCEPT !.pc = "run", !.iar = p[1] + (IF V3 THEN 0 ELSE 1024 * p[2])]
             /\ pend' = pend \ {p} /\ active' = active \cup {p[1]}
  /\ UNCHANGED <<gp, regs, g_intr_handler, installed, raises, cleared>>

\* Bug: an interrupt without a handler is not ended.
default_irq_handler_return ==
  /\ irq.pc = "run"
  /\ irq' = IF irq.iar \in IntIds /\ g_intr_handler[irq.iar] # None
            THEN [irq EXCEPT !.pc = "end", !.ran = g_intr_handler[irq.iar]] ELSE Idle
  /\ UNCHANGED <<gp, regs, g_intr_handler, pend, active, installed, raises, cleared>>

default_irq_handler ==
  /\ irq.pc = "run"
  /\ irq' = [irq EXCEPT !.pc = "end",
                        !.ran = IF irq.iar \in IntIds THEN g_intr_handler[irq.iar] ELSE None]
  /\ UNCHANGED <<gp, regs, g_intr_handler, pend, active, installed, raises, cleared>>

EndofInterrupt ==
  /\ irq.pc = "end"
  /\ active' = active \ {irq.iar % 1024, irq.iar}
  /\ irq' = Idle
  /\ UNCHANGED <<gp, regs, g_intr_handler, pend, installed, raises, cleared>>

val_gic_get_interrupt_state(int_id) == int_id \in active \/ \E cpu \in 0..1 : <<int_id, cpu>> \in pend

\* Called on any hart.
val_gic_clear_interrupt(int_id) ==
  /\ IF val_bsa_gic_check_espi_interrupt(int_id) \/ (int_id > 31 /\ int_id < 1020)
     THEN pend' = pend \ {<<int_id, 0>>} /\ active' = active \ {int_id}
     ELSE UNCHANGED <<pend, active>>
  /\ cleared' = cleared \cup {int_id}
  /\ UNCHANGED <<gp, regs, g_intr_handler, irq, installed, raises>>

val_gic_route_interrupt_to_pe(int_id, here) ==
  /\ regs' = IF int_id > 31 /\ HwGicd(int_id) # {}
             THEN [regs EXCEPT !.here = IF here THEN @ \cup {int_id} ELSE @ \ {int_id}] ELSE regs
  /\ UNCHANGED <<gp, g_intr_handler, pend, active, irq, installed, raises, cleared>>

-----------------------------------------------------------------------------
\* Controllers that exist; the tests use interrupts of IntIds.
Built(p) ==
  /\ p.build \in {"acpi", "dt", "bm"} /\ p.version \in 0..4 /\ p.used \subseteq IntIds
  /\ p.max \in Nat /\ p.max >= 32 /\ p.max <= 1024 /\ p.espi \in -1..31 /\ p.eppi \in 0..2

GicInit(platforms) ==
  /\ gp \in platforms
  /\ \E masked \in SUBSET {int_id \in IntIds : int_id < 32} :
       regs = IF gp.build = "acpi"
              THEN [enabled |-> {}, masked |-> {}, here |-> IntIds, on |-> TRUE, set |-> TRUE]
              ELSE [enabled |-> IntIds, masked |-> masked \cup {int_id \in IntIds : int_id >= 32},
                    here |-> {}, on |-> FALSE, set |-> FALSE]
  /\ g_intr_handler = [int_id \in IntIds |-> None]
  /\ pend = {} /\ active = {} /\ irq = Idle /\ raises = 0 /\ cleared = {}
  /\ installed = [int_id \in IntIds |-> [status |-> None, isr |-> None]]

HartTakes == common_exception_handler \/ AcknowledgeInterrupt \/ default_irq_handler \/ EndofInterrupt

GicNext ==
  \/ val_bsa_gic_init
  \/ \E int_id \in gp.used, isr \in Isrs : val_gic_install_isr(int_id, isr)
  \/ \E int_id \in gp.used, cpu \in 0..1 : Raise(int_id, cpu)
  \/ HartTakes
  \/ \E int_id \in gp.used : val_gic_clear_interrupt(int_id)
  \/ \E int_id \in gp.used : val_gic_route_interrupt_to_pe(int_id, TRUE)

-----------------------------------------------------------------------------
(* Properties.                                                             *)

\* Interrupts for which an installation can be relied on: not extended SPIs
\* of the driver, nor private interrupts whose priority firmware left masked
\* or whose redistributor is not in the first region, nor the id that equals
\* the number of interrupts.
Served(int_id) ==
  /\ HwGicd(int_id) # {} \/ int_id < 32 \/ v3_is_extended_ppi(int_id)
  /\ int_id \notin regs.masked
  /\ V3 /\ (int_id < 32 \/ Extended(int_id)) => CurrentCpuRDBase

\* When val_gic_install_isr has returned success the interrupt reaches this
\* hart and runs the handler installed last, on every build and version.
InstalledIsServed ==
  \A int_id \in IntIds :
    installed[int_id].status = "PASS" /\ (gp.build = "acpi" \/ Served(int_id)) =>
      Deliverable(int_id) /\ g_intr_handler[int_id] = installed[int_id].isr

\* An interrupt raised after its handler was installed runs that handler,
\* unless it is cleared, however many others are raised before it.
HandlerRuns ==
  \A int_id \in IntIds, isr \in Isrs :
    (/\ <<int_id, 0>> \in pend /\ Deliverable(int_id)
     /\ installed[int_id] = [status |-> "PASS", isr |-> isr])
      ~> \/ irq.iar = int_id /\ irq.ran \in Isrs
         \/ int_id \in cleared
=============================================================================
