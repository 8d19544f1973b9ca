------------------------------- MODULE Harts -------------------------------
(***************************************************************************)
(* The hart table: filled from the MADT and RHCT of ACPI, from a device    *)
(* tree or from the bare metal configuration; the conduit for starting     *)
(* harts; and the stacks of the secondary harts, a slot for each position  *)
(* a hart computes from its own affinity.                                  *)
(***************************************************************************)
EXTENDS DeviceTree, FiniteSets

VARIABLES
  hartSource,   \* the description, the running hart and the cache line it reads
  harts,        \* HART_INFO_TABLE: header.num_of_hart is the length of info
  conduit,      \* gPsciConduit
  primary,      \* g_primary_hart_index
  maxAff,       \* gMpidrMax, its four affinities
  slots,        \* the slots allocated at gSecondaryPeStack
  created,      \* what val_hart_create_info_table returned, "" before
  cleaned       \* the last range cleaned, and the addresses it was cleaned at

hartVars == <<hartSource, harts, conduit, primary, maxAff, slots, created, cleaned>>

Hart(num, id) == [hart_num |-> num, hart_id |-> id, imsic_base |-> Garbage, isa |-> Garbage, pmu_gsiv |-> 0, gmain_gsiv |-> 0]

-----------------------------------------------------------------------------
(* ACPI.                                                                   *)

\* The ISA string of a processor: of the hart nodes that name it, the string
\* nodes they refer to, the last one copied over the others.
IsaString(rhct, uid) ==
  LET refs == Concatenated([k \in DOMAIN rhct |-> IF rhct[k].type = "HART_INFO" /\ rhct[k].uid = uid THEN rhct[k].offsets ELSE <<>>])
      isa == SelectSeq(refs, LAMBDA r : rhct[r].type = "ISA_STRING")
  IN IF isa = <<>> THEN Garbage ELSE rhct[isa[Len(isa)]].isa

Usable(rintc) == rintc.enabled \/ rintc.onlineCapable

pal_hart_create_info_table_acpi(madt, rhct) ==
  LET one(info, e) ==
        IF e.type = "RINTC" /\ Usable(e)
        THEN Append(info, [Hart(Len(info), e.id) EXCEPT !.imsic_base = e.imsic_base, !.isa = IsaString(rhct, e.uid)])
        ELSE info
  IN InOrder(one, <<>>, madt)

-----------------------------------------------------------------------------
(* Device tree and bare metal.  Their sources write the field mpidr, which *)
(* the headers have as hart_id.                                            *)

\* The interrupts of the performance monitors, n cells each.  Ptr runs on over
\* the harts from node to node; a PPI goes to all of them, and the loop over
\* the harts takes the counter of the loop over the interrupts with it.
PmuInterrupt(t, intr, count, num) ==
  LET ppi == intr.type = GIC_PPI
      cur == intr.num + (IF ppi THEN PPI_OFFSET ELSE SPI_OFFSET)
  IN IF t.stop \/ t.i >= count THEN t
     ELSE IF ppi /\ t.prev # 0 /\ cur # t.prev THEN [t EXCEPT !.gsiv = [h \in 1..num |-> 0], !.stop = TRUE]
     ELSE IF ppi /\ t.prev = 0 THEN [t EXCEPT !.gsiv = [h \in 1..num |-> IF h > t.ptr THEN cur ELSE @[h]],
                                         !.ptr = @ + num, !.i = num + 1, !.prev = cur]
     ELSE IF ppi THEN [t EXCEPT !.i = @ + 1]
     ELSE [t EXCEPT !.gsiv = [h \in 1..num |-> IF h = t.ptr + 1 THEN cur ELSE @[h]], !.ptr = @ + 1, !.i = @ + 1]

pal_hart_info_table_pmu_gsiv_dt(pmus, n, num) ==
  LET node(t, intrs) ==
        IF t.stop THEN t
        ELSE IF n < 3 THEN [t EXCEPT !.gsiv = [h \in 1..num |-> 0], !.stop = TRUE]
        ELSE InOrder(LAMBDA s, intr : PmuInterrupt(s, intr, Len(intrs), num), [t EXCEPT !.i = 0], intrs)
  IN InOrder(node, [gsiv |-> [h \in 1..num |-> 0], ptr |-> 0, i |-> 0, prev |-> 0, stop |-> FALSE], pmus).gsiv

\* The maintenance interrupt of the controller, the same for all harts.
pal_hart_info_table_gmaint_gsiv_dt(intr, n) ==
  IF n >= 3 /\ intr.type = GIC_SPI THEN 0 ELSE intr.num + PPI_OFFSET

\* The affinities of a cpu node, two cells or one.
Mpidr(reg, ac) == IF ac = 2 THEN <<reg[1]>> \o reg[2] ELSE <<0>> \o reg[1]

pal_hart_create_info_table_dt(dt) ==
  LET good == SelectSeq(dt.cpus, LAMBDA c : c.status # "fail")
      pmu == pal_hart_info_table_pmu_gsiv_dt(dt.pmus, dt.cells, Len(good))
      gmaint == pal_hart_info_table_gmaint_gsiv_dt(dt.maint, dt.cells)
  IN IF dt.sc # 0 \/ ~CellsInRange(dt.ac, 1, 2) THEN <<>>
     ELSE [k \in DOMAIN good |-> [Hart(k - 1, Mpidr(good[k].reg, dt.ac)) EXCEPT !.pmu_gsiv = pmu[k], !.gmain_gsiv = gmaint]]

pal_hart_create_info_table_bm(cfg) ==
  [k \in DOMAIN cfg |-> [Hart(k - 1, cfg[k].mpidr) EXCEPT !.pmu_gsiv = cfg[k].pmu_gsiv, !.gmain_gsiv = cfg[k].gmain_gsiv]]

\* UPDATE_AFF_MAX over the table.
AffMax(info) ==
  LET max(a, b) == [f \in 1..4 |-> IF b[f] > a[f] THEN b[f] ELSE a[f]] IN
    InOrder(LAMBDA a, h : max(a, h.hart_id), <<0, 0, 0, 0>>, info)

\* Bug: the greatest affinities are taken for the numbers of them.
PalAllocateSecondaryStack_MaxOnly(mpidr) ==
  LET atLeast(n) == IF n = 0 THEN 1 ELSE n IN atLeast(mpidr[1]) * atLeast(mpidr[2]) * atLeast(mpidr[3]) * atLeast(mpidr[4])
PalAllocateSecondaryStack(mpidr) == (mpidr[1] + 1) * (mpidr[2] + 1) * (mpidr[3] + 1) * (mpidr[4] + 1)

\* The entry of a secondary hart: its position from its affinities and the
\* greatest ones.  Its stack pointer starts at the end of the slot before.
CorePos(aff, max) ==
  aff[4] + aff[3] * (max[4] + 1) + aff[2] * (max[4] + 1) * (max[3] + 1)
  + aff[1] * (max[4] + 1) * (max[3] + 1) * (max[2] + 1)
ModuleEntryPoint(aff) == CorePos(aff, maxAff) - 1

-----------------------------------------------------------------------------
pal_psci_get_conduit_acpi(fadt) ==
  IF fadt = {"none"} THEN "UNKNOWN"
  ELSE IF "compliant" \notin fadt THEN "NONE"
  ELSE IF "hvc" \in fadt THEN "HVC"
  ELSE "SMC"

pal_psci_get_conduit_dt(method) ==
  CASE method = "no psci" -> "UNKNOWN" [] method = "hvc" -> "HVC" [] method = "smc" -> "SMC" [] OTHER -> "NONE"

val_hart_get_num == Len(harts)

\* An index equal to the number of harts is let through.
val_hart_get_mpid_index(index) == IF index < Len(harts) THEN harts[index + 1].hart_id ELSE Garbage
val_hart_get_imsic_base(index) == harts[index + 1].imsic_base
val_hart_get_isa_string(index) == harts[index + 1].isa

\* The first entry with the identity; 0 when there is none.
IndexIn(info, id) ==
  LET found == {k \in DOMAIN info : info[k].hart_id = id} IN
    IF found = {} THEN 0 ELSE info[CHOOSE k \in found : \A j \in found : k <= j].hart_num
val_hart_get_index_mpid(id) == IndexIn(harts, id)

val_hart_create_info_table ==
  /\ created = ""
  /\ LET read == CASE hartSource.by = "acpi" -> pal_psci_get_conduit_acpi(hartSource.fadt)
                   [] hartSource.by = "dt" -> pal_psci_get_conduit_dt(hartSource.method)
                   [] OTHER -> "NONE"
     IN conduit' = CASE read = "UNKNOWN" -> "SBI" [] read = "NONE" -> "SMC" [] OTHER -> read
  /\ harts' = CASE hartSource.by = "acpi" ->
                     IF hartSource.tables THEN pal_hart_create_info_table_acpi(hartSource.madt, hartSource.rhct) ELSE <<>>
                [] hartSource.by = "dt" -> pal_hart_create_info_table_dt(hartSource.dt)
                [] OTHER -> pal_hart_create_info_table_bm(hartSource.cfg)
  /\ IF hartSource.by = "acpi" \/ harts' = <<>> THEN UNCHANGED <<maxAff, slots>>
     ELSE maxAff' = AffMax(harts') /\ slots' = PalAllocateSecondaryStack(maxAff')
  /\ created' = IF harts' = <<>> THEN "ERR" ELSE "PASS"
  /\ primary' = IF harts' = <<>> THEN primary ELSE IndexIn(harts', hartSource.self)
  /\ UNCHANGED <<hartSource, cleaned>>

CleanStart(start, line) == start - (start % line)

\* The addresses cleaned for a range: from the line of its first byte on, by
\* half of the length CTR_EL0 gives (a line is 4 << DminLine bytes).
LineLength(dminline) == 2 * 2^dminline
val_hart_cache_clean_range(start, length) ==
  LET line == LineLength(hartSource.dminline) IN
    /\ created = "PASS"
    /\ cleaned' = [start |-> start, length |-> length,
                   at |-> {a \in 0..(start + length - 1) : a >= CleanStart(start, line) /\ a % line = 0}]
    /\ UNCHANGED <<hartSource, harts, conduit, primary, maxAff, slots, created>>

-----------------------------------------------------------------------------
HartInit(sources) ==
  /\ hartSource \in sources
  /\ harts = <<>> /\ conduit = "" /\ primary = 0 /\ maxAff = <<0, 0, 0, 0>> /\ slots = 0 /\ created = ""
  /\ cleaned = [start |-> 0, length |-> 0, at |-> {}]

\* What the monitors' interrupts should be, when a node has one PPI or all its
\* interrupts are SPIs, one for each hart in turn.
PmuExpected(dt, num) ==
  LET all == Concatenated(dt.pmus)
      types == {all[k].type : k \in DOMAIN all}
  IN IF all = <<>> \/ dt.cells < 3 THEN [h \in 1..num |-> 0]
     ELSE IF types = {GIC_SPI} THEN [h \in 1..num |-> IF h <= Len(all) THEN all[h].num + SPI_OFFSET ELSE 0]
     ELSE [h \in 1..num |-> IF \A k \in DOMAIN all : all[k].num = all[1].num THEN all[1].num + PPI_OFFSET ELSE 0]

\* An index and the identity of a hart lead to each other for every hart that
\* is enabled or can come online, in the order of the description, whose own
\* IMSIC and ISA string go with it; the running hart's index is its own; the
\* interrupts of the device tree are those of its monitors; a conduit is known
\* in any case, and no hart at all is an error.
HartsAreRight ==
  created # "" =>
    LET hw == hartSource.hw IN
      /\ created = (IF hw = <<>> THEN "ERR" ELSE "PASS")
      /\ val_hart_get_num = Len(hw)
      /\ \A k \in DOMAIN hw :
           /\ val_hart_get_mpid_index(k - 1) = hw[k].id
           /\ val_hart_get_index_mpid(hw[k].id) = k - 1
           /\ hartSource.by = "acpi" => /\ val_hart_get_imsic_base(k - 1) = hw[k].imsic_base
                                        /\ val_hart_get_isa_string(k - 1) = hw[k].isa
           /\ hw[k].id = hartSource.self => primary = k - 1
      /\ hartSource.by = "dt" => \A k \in DOMAIN hw : harts[k].pmu_gsiv = PmuExpected(hartSource.dt, Len(hw))[k]
      /\ conduit \in {"SBI", "SMC", "HVC"}

\* The stacks of any two secondary harts are different slots of the memory
\* allocated for them, whatever the affinities are, as long as the hart at
\* position 0, whose stack would lie before that memory, is the primary one.
StacksAreApart ==
  (slots > 0 /\ CorePos(hartSource.self, maxAff) = 0) =>
    LET secondary == {harts[k].hart_id : k \in DOMAIN harts} \ {hartSource.self} IN
      /\ \A h \in secondary : ModuleEntryPoint(h) \in 0..(slots - 1)
      /\ \A g, h \in secondary : g # h => ModuleEntryPoint(g) # ModuleEntryPoint(h)

\* Cleaning a range cleans the line of every byte of it.
RangeIsCleaned ==
  LET line(a) == a \div (2 * LineLength(hartSource.dminline)) IN
    \A a \in cleaned.start..(cleaned.start + cleaned.length - 1) : \E c \in cleaned.at : line(c) = line(a)

\* The three above, for val_hart_create_info_table, the stacks it allocates
\* and val_hart_cache_clean_range.
HartInfoIsRight == HartsAreRight /\ StacksAreApart /\ RangeIsCleaned
=============================================================================
