------------------------------ MODULE PcieEnum ------------------------------
(***************************************************************************)
(* PCIe enumeration: the bare-metal platform layer's bus numbering and BAR *)
(* placement (platform/pal_baremetal/common/src/pal_pcie_enumeration.c)    *)
(* and the VAL's own bus numbering (val/sys_arch_src/pcie/pcie.c), run on  *)
(* a tree of bridges and endpoints that answers configuration accesses the *)
(* way bridges route them.                                                 *)
(*                                                                         *)
(* Addresses are counted in units, MB units to the megabyte; a device and  *)
(* function number is one slot, visited in the order of the two loops.     *)
(***************************************************************************)
EXTENDS Integers, Sequences, SequencesExt, FiniteSets, FiniteSetsExt

CONSTANTS
  MaxSlot,               \* last device/function number looked at
  MB,                    \* BAR_INCREMENT, in units
  PCIE_MAX_BUS,          \* where the VAL's enumeration stops
  BAR64_VAL, BAR32NP_VAL, BAR32P_VAL, RP_BAR64_VAL, RP_BAR32_VAL

ASSUME EnumAssumption ==
  /\ MB \in Nat \ {0}
  /\ PCIE_MAX_BUS \in Nat \ {0}
  /\ {BAR64_VAL, BAR32NP_VAL, BAR32P_VAL, RP_BAR64_VAL, RP_BAR32_VAL} \subseteq Nat

VARIABLES
  tree,        \* the hardware: what is plugged where, never changed
  blocks,      \* g_pcie_info_table: one [seg, start, end] per ECAM
  st,          \* configuration registers and the enumerator's globals
  enumerate    \* TRUE until the bare-metal enumeration has finished

enumVars == <<tree, blocks, st, enumerate>>

-----------------------------------------------------------------------------
(* The hardware: tree[n] is a function with [ecam, up, slot, kind, bars];  *)
(* up is 0 on the root bus of its ECAM, or the bridge above.               *)

Nodes == DOMAIN tree
Bridges == {n \in Nodes : tree[n].kind = "bridge"}

\* The bridge routes accesses for buses sec..sub to its secondary side.
RECURSIVE Routed(_, _, _)
Routed(s, n, bus) ==
  LET up == tree[n].up IN
    \/ up = 0
    \/ /\ s.regs[up].sec # 0
       /\ s.regs[up].sec <= bus
       /\ bus <= s.regs[up].sub
       /\ Routed(s, up, bus)

\* The bus number a function answers at.
BusOf(s, n) ==
  IF tree[n].up = 0 THEN blocks[tree[n].ecam].start ELSE s.regs[tree[n].up].sec

\* The functions that answer an access to (bus, slot) through one ECAM: none
\* (the read returns all ones) or one, unless two bridges claim the bus.
Answer(s, ecam, bus, slot) ==
  {n \in Nodes : /\ tree[n].ecam = ecam
                 /\ tree[n].slot = slot
                 /\ BusOf(s, n) = bus
                 /\ Routed(s, n, bus)}

\* pal_pci_cfg_read: while the enumeration runs the ECAM is the current one,
\* afterwards the first block whose bus range holds the bus.
pal_pci_cfg_index(bus) ==
  LET holds == {i \in DOMAIN blocks : blocks[i].start <= bus /\ bus <= blocks[i].end} IN
    IF enumerate \/ holds = {} THEN st.pcie_index ELSE Min(holds)

Slots == [i \in 1..(MaxSlot + 1) |-> i - 1]

ResetRegs ==
  [pri |-> 0, sec |-> 0, sub |-> 0, command |-> FALSE, bars |-> <<>>,
   npBase |-> 0, npLimit |-> 0, pBase |-> 0, pLimit |-> 0]

\* The enumerator's globals: per kind of BAR the next start address, the
\* last one handed out, and the size and bus of the last BAR placed.
Pools == {"np", "p", "p64"}

InitialPool(start) == [start |-> start, max |-> 0, size |-> 0, bus |-> 0]

ResetState ==
  [regs |-> [n \in Nodes |-> ResetRegs],
   pool |-> [k \in Pools |->
               InitialPool(CASE k = "np" -> BAR32NP_VAL
                             [] k = "p" -> BAR32P_VAL
                             [] k = "p64" -> BAR64_VAL)],
   rp32 |-> RP_BAR32_VAL,
   pcie_index |-> 1]

-----------------------------------------------------------------------------
(* BAR placement.                                                          *)

\* Bug: the size of the last BAR of the bus is forgotten.
NextStartForgets(pool, bus, local, size) == pool.start + local

\* Where the next BAR of a pool goes: local is the size of the function's
\* previous BAR of the pool, 0 for its first.
NextStart(pool, bus, local, size) ==
  pool.start +
    (IF local = 0 /\ pool.bus = bus THEN Max({pool.size, size})
     ELSE IF pool.size < size /\ local # 0 THEN size
     ELSE local)

\* A BAR register keeps only the bits its size leaves writable.
BarStores(addr, size) == (addr \div size) * size

pal_pcie_program_bar_reg(s, n, bus) ==
  LET place(l, bar) ==
        IF bar.size = 0 THEN l
        ELSE LET k == bar.pool
                 start == NextStart(l.pool[k], bus, l.local[k], bar.size)
             IN [pool |-> [l.pool EXCEPT ![k].start = start, ![k].size = bar.size,
                                         ![k].bus = bus],
                 local |-> [l.local EXCEPT ![k] = bar.size],
                 bars |-> Append(l.bars, [pool |-> k, size |-> bar.size,
                                          addr |-> BarStores(start, bar.size)])]
      done == FoldLeft(place, [pool |-> s.pool, local |-> [k \in Pools |-> 0],
                               bars |-> <<>>], tree[n].bars)
  IN [s EXCEPT !.pool = [k \in Pools |-> [done.pool[k] EXCEPT !.max = done.pool[k].start]],
               !.regs[n].bars = done.bars]

\* All 64-bit BARs of all root ports get the same address; 32-bit ones advance.
pal_pcie_rp_program_bar(s, n) ==
  LET place(l, bar) ==
        IF bar.size = 0 THEN l
        ELSE IF bar.pool = "p64"
        THEN [l EXCEPT !.bars = Append(@, [pool |-> "rp64", size |-> bar.size,
                                           addr |-> BarStores(RP_BAR64_VAL, bar.size)])]
        ELSE [next |-> l.next + bar.size,
              bars |-> Append(l.bars, [pool |-> "rp32", size |-> bar.size,
                                       addr |-> BarStores(l.next, bar.size)])]
      done == FoldLeft(place, [next |-> s.rp32, bars |-> <<>>], tree[n].bars)
  IN [s EXCEPT !.rp32 = done.next, !.regs[n].bars = done.bars]

RoundUp(a) == IF a % MB = 0 THEN a ELSE (a \div MB) * MB + MB

\* The 32-bit windows of a bridge: the limit is written, and the next start
\* moved to a megabyte boundary, only when the start moved since base.
get_resource_base_32(s, n, base) ==
  LET close(k, s1) ==
        IF base[k] = s1.pool[k].start THEN s1
        ELSE LET start == RoundUp(s1.pool[k].start)
                 limit == s1.pool[k].max - (IF s1.pool[k].max = start THEN MB ELSE 0)
                 moved == [s1 EXCEPT !.pool[k].start = start]
             IN IF k = "np" THEN [moved EXCEPT !.regs[n].npLimit = limit \div MB]
                            ELSE [moved EXCEPT !.regs[n].pLimit = limit \div MB]
  IN close("p", close("np", s))

\* The 64-bit window overwrites the prefetchable window of the 32-bit BARs, and
\* the start moves by two megabytes: (start << 12) of a 64-bit value is not 0.
get_resource_base_64(s, n, base) ==
  LET pool == s.pool["p64"] IN
    IF base["p64"] = pool.max \/ pool.start > pool.max THEN s
    ELSE [s EXCEPT !.pool["p64"].start = (pool.start \div MB) * MB + 2 * MB,
                   !.regs[n].pBase = base["p64"] \div MB,
                   !.regs[n].pLimit = pool.max \div MB]

Starts(s) == [k \in Pools |-> s.pool[k].start]

-----------------------------------------------------------------------------
(* Bus numbering.                                                          *)

\* One bus of the platform layer's enumeration; the loop carries the state,
\* the next secondary bus, the subordinate bus so far and the window bases.
RECURSIVE pal_pcie_enumerate_device(_, _, _, _)
pal_pcie_enumerate_device(ecam, s, bus, sec_bus) ==
  IF bus = blocks[ecam].end + 1 THEN [s |-> s, sub |-> bus]
  ELSE
  LET bridge(l, n) ==
        LET numbered ==
              [l.s EXCEPT !.regs[n].command = TRUE,
                          !.regs[n].pri = bus, !.regs[n].sec = l.sec, !.regs[n].sub = 255,
                          !.regs[n].npBase = l.s.pool["np"].start \div MB,
                          !.regs[n].npLimit = 0,
                          !.regs[n].pBase = l.s.pool["p"].start \div MB,
                          !.regs[n].pLimit = 0]
            below == pal_pcie_enumerate_device(ecam, numbered, l.sec, l.sec + 1)
            closed == get_resource_base_64(
                        get_resource_base_32([below.s EXCEPT !.regs[n].sub = below.sub],
                                             n, l.base),
                        n, l.base)
            after == pal_pcie_rp_program_bar(closed, n)
        IN [s |-> after, sec |-> below.sub + 1, sub |-> below.sub, base |-> Starts(after)]
      endpoint(l, n) ==
        [l EXCEPT !.s = pal_pcie_program_bar_reg(l.s, n, bus), !.sub = l.sec - 1]
      visit(l, slot) ==
        LET found == Answer(l.s, ecam, bus, slot) IN
          IF found = {} THEN l
          ELSE LET n == CHOOSE n \in found : TRUE IN
                 CASE tree[n].kind = "host" -> l
                   [] tree[n].kind = "bridge" -> bridge(l, n)
                   [] tree[n].kind = "endpoint" -> endpoint(l, n)
      last == FoldLeft(visit, [s |-> s, sec |-> sec_bus, sub |-> bus, base |-> Starts(s)],
                       Slots)
  IN [s |-> last.s, sub |-> last.sub]

\* The primary bus number of every bridge found on buses 0..end is cleared.
pal_clear_pri_bus(ecam, s) ==
  [s EXCEPT !.regs =
     [n \in Nodes |->
        IF /\ tree[n].kind = "bridge"
           /\ BusOf(s, n) <= blocks[ecam].end
           /\ n \in Answer(s, ecam, BusOf(s, n), tree[n].slot)
        THEN [s.regs[n] EXCEPT !.pri = 0]
        ELSE s.regs[n]]]

\* The VAL's enumeration numbers buses only, in segment 0.
RECURSIVE pcie_enumerate_device(_, _, _)
pcie_enumerate_device(s, bus, sec_bus) ==
  IF bus = PCIE_MAX_BUS - 1 THEN [s |-> s, sub |-> bus]
  ELSE
  LET bridge(l, n) ==
        LET numbered == [l.s EXCEPT !.regs[n].pri = bus, !.regs[n].sec = l.sec,
                                    !.regs[n].sub = 255]
            below == pcie_enumerate_device(numbered, l.sec, l.sec + 1)
        IN [s |-> [below.s EXCEPT !.regs[n].sub = below.sub],
            sec |-> below.sub + 1, sub |-> below.sub]
      visit(l, slot) ==
        LET found == Answer(l.s, 1, bus, slot) IN
          IF found = {} THEN l
          ELSE LET n == CHOOSE n \in found : TRUE IN
                 IF tree[n].kind = "bridge" THEN bridge(l, n) ELSE [l EXCEPT !.sub = l.sec - 1]
      last == FoldLeft(visit, [s |-> s, sec |-> sec_bus, sub |-> bus], Slots)
  IN [s |-> last.s, sub |-> last.sub]

-----------------------------------------------------------------------------
\* The hierarchies and ECAM tables considered are arguments.
EnumInit(trees, layouts) ==
  /\ tree \in trees
  /\ blocks \in layouts
  /\ \A n \in Nodes : tree[n].ecam \in DOMAIN blocks
  /\ st = ResetState
  /\ enumerate = TRUE

\* One block after the other, then the globals are put back.
pal_pcie_enumerate ==
  /\ enumerate
  /\ LET block(s, i) ==
           pal_clear_pri_bus(i, pal_pcie_enumerate_device(i, s, blocks[i].start,
                                                          blocks[i].start + 1).s)
         all == FoldLeft(block, st, [i \in DOMAIN blocks |-> i])
     IN st' = [all EXCEPT !.pcie_index = 1]
  /\ enumerate' = FALSE
  /\ UNCHANGED <<tree, blocks>>

\* The VAL's enumeration, from bus 0 of the first ECAM.
val_bsa_pcie_enumerate ==
  /\ enumerate
  /\ Len(blocks) = 1 /\ blocks[1].start = 0
  /\ st' = pcie_enumerate_device(st, 0, 1).s
  /\ enumerate' = FALSE
  /\ UNCHANGED <<tree, blocks>>

-----------------------------------------------------------------------------
\* The buses of every ECAM suffice for the bridges behind it.
BusesSuffice ==
  \A i \in DOMAIN blocks :
    /\ Cardinality({n \in Bridges : tree[n].ecam = i}) <= blocks[i].end - blocks[i].start
    /\ blocks[i].end < PCIE_MAX_BUS - 1

\* Once the buses are numbered every function of the hierarchy answers
\* configuration accesses, at exactly one bus, and no two functions answer the
\* same one: the bridges' secondary..subordinate ranges nest along the tree
\* and are disjoint beside each other, and no range is left at the provisional
\* 0xFF (pal_pcie_enumerate_device and pcie_enumerate_device).
EveryFunctionAnswersOnce ==
  ~enumerate /\ BusesSuffice =>
    /\ \A n \in Nodes : Answer(st, tree[n].ecam, BusOf(st, n), tree[n].slot) = {n}
    /\ \A n \in Bridges : /\ st.regs[n].sec <= st.regs[n].sub
                            /\ st.regs[n].sub <= blocks[tree[n].ecam].end
    /\ \A m, n \in Bridges :
         m # n /\ tree[m].ecam = tree[n].ecam /\ tree[m].up = tree[n].up =>
           \/ st.regs[m].sub < st.regs[n].sec
           \/ st.regs[n].sub < st.regs[m].sec

\* The memory a BAR claims.
Claims(b) == b.addr .. (b.addr + b.size - 1)

\* The BARs of the functions on one bus that has no bridge on it.
BarsOnBusOf(n) ==
  LET mates == {m \in Nodes : tree[m].up = tree[n].up /\ tree[m].ecam = tree[n].ecam} IN
    {<<m, i>> \in mates \X (1..6) : i \in DOMAIN st.regs[m].bars}

\* On a bus that holds endpoints only, no two BARs of one kind overlap,
\* whatever their sizes and however a register drops the low bits of the
\* address written (pal_pcie_program_bar_reg: the larger of the last and the
\* next size is skipped).
BarsOfABusDisjoint ==
  ~enumerate =>
    \A n \in Nodes :
      (\A m \in Nodes : tree[m].up = tree[n].up /\ tree[m].ecam = tree[n].ecam =>
                         tree[m].kind = "endpoint") =>
        \A a, b \in BarsOnBusOf(n) :
          LET x == st.regs[a[1]].bars[a[2]]
              y == st.regs[b[1]].bars[b[2]]
          IN a # b /\ x.pool = y.pool => Claims(x) \cap Claims(y) = {}

\* What the enumeration of a hierarchy owes those who use it: the two above,
\* for the buses and for the BARs.
EnumerationIsRight == EveryFunctionAnswersOnce /\ BarsOfABusDisjoint
=============================================================================
