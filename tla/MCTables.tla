------------------------------ MODULE MCTables ------------------------------
(***************************************************************************)
(* Inputs of the modules that turn a description into a table: Iovirt,     *)
(* Rimt, Timers, GicTable, Harts, Memory and Peripherals.                  *)
(***************************************************************************)
EXTENDS Iovirt, Rimt, Timers, GicTable, Harts, Memory, Peripherals

-----------------------------------------------------------------------------
(* IO virtualisation.                                                      *)

Node(type, id, ids, maps) ==
  [type |-> type, id |-> id, ids |-> ids, maps |-> maps, ctx |-> <<>>, ref |-> 0]
Map(i, c, o, ref) ==
  [input_base |-> i, id_count |-> c, output_base |-> o, ref |-> ref, output_ref |-> 0]

\* Two ITS groups, an SMMU in front of the first, two root complexes.
Graphs == {<<Node(ITS, 1, <<1>>, <<>>), Node(ITS, 2, <<2, 3>>, <<>>),
             [Node(IF seg = 0 THEN "IOVIRT_NODE_SMMU_V3" ELSE "IOVIRT_NODE_SMMU", 100, <<>>,
                   <<Map(0, 3, 4, 1)>>) EXCEPT !.ctx = <<1, a, b>>],
             Node(RC, 0, <<>>, <<Map(0, c, o, a), Map(3, 1, p, b)>>),
             Node(RC, seg, <<>>, <<Map(5, 1, q, d)>>)>> :
              c \in 1..2, o \in {0, 2}, a \in 2..3, p \in {0, 2, 3, 4}, b \in {1, 3},
              seg \in 0..1, q \in {0, 3}, d \in 2..3}

Orders == {<<1, 2, 3, 4, 5>>, <<4, 5, 3, 2, 1>>, <<3, 4, 2, 1, 5>>}

\* The k-th node of an order, its references renamed.
Ordered(g, order) ==
  LET place(n) == CHOOSE k \in DOMAIN order : order[k] = n IN
    [k \in DOMAIN order |->
       [g[order[k]] EXCEPT !.maps = [j \in DOMAIN @ |-> [@[j] EXCEPT !.ref = place(@)]]]]

\* The counter group of an SMMUv3, when there is one, comes last.
Pmcg(order) == [Node(PMCG, 200, <<>>, <<>>) EXCEPT !.ref = CHOOSE k \in DOMAIN order : order[k] = 3]

AcpiNodes ==
  {Ordered(g, order) : g \in Graphs, order \in Orders}
  \cup {Append(Ordered(g, order), Pmcg(order)) : g \in {h \in Graphs : h[3].type = "IOVIRT_NODE_SMMU_V3"}, order \in Orders}

DtNode(type, reg, mapped, flag) ==
  [type |-> type, reg |-> reg, iommu |-> mapped, coherent |-> flag, ats |-> ~flag, maps |-> <<>>]
DtNodes == UNION {[1..k -> {DtNode(t, r, b, b) : t \in Smmus \cup {RC}, r \in {NoReg, 5}, b \in BOOLEAN}] : k \in 0..2}

\* ITS groups, then SMMUs, then one root complex with a mapping per SMMU; the
\* SMMUs lead to the ITS groups by the offsets of an unaligned table.
BmNodes ==
  {[n \in 1..(2 * k) |-> IF n <= k THEN Node(ITS, n, <<n>>, <<>>)
       ELSE Node("IOVIRT_NODE_SMMU_V3", 100 * n, <<>>,
                 <<[Map(0, c, 4 * n, n - k) EXCEPT !.output_ref = 6 + (n - k - 1) * 71]>>)]
     \o <<Node(RC, 0, <<>>, [j \in 1..k |-> Map(3 * (j - 1), 2, o, k + j)])>> :
     k \in 1..2, c \in 1..3, o \in 0..1}

IovirtInputs == IovirtInit({"acpi"}, AcpiNodes) \/ IovirtInit({"dt"}, DtNodes) \/ IovirtInit({"bm", "bm_boot"}, BmNodes)

IovirtIdle == IovirtInit({"acpi"}, {<<>>})

-----------------------------------------------------------------------------
(* RISC-V IOMMUs: at most two, with root complexes in any order.           *)

Iommu(n, pcie) == [type |-> IOMMU, id |-> n, base |-> 4096 * n, flags |-> pcie, bdf |-> 65536 + 8 * n]
Binding(type, base, num, to, count) ==
  [type |-> type, id |-> 7, segment |-> 1, base |-> 0, flags |-> 0, bdf |-> 0,
   maps |-> [k \in 1..count |-> [sourceid_base |-> base, numids |-> num, iommu |-> to]]]

Bindings(to) ==
  {Binding(type, base, num, k, count) :
     type \in {PCIE_RC, PLATFORM}, base \in {0, 8}, num \in {7, 300}, k \in 1..to, count \in 1..2}

Rimts ==
  {<<Iommu(1, p), Iommu(2, q), b>> : p, q \in 0..1, b \in Bindings(2)} \cup
  {<<Iommu(1, p), b, c>> : p \in 0..1, b \in Bindings(1), c \in Bindings(1)} \cup
  {<<b, Iommu(2, p), Iommu(3, q)>> : p, q \in 0..1, b \in Bindings(2)}

\* Where an entry of the table lies depends on the number of mappings before it,
\* not on the ids they map.
FirstIds == \A d \in Range(rimt) : d.type # IOMMU => \A k \in DOMAIN d.maps : d.maps[k].sourceid_base = 0 /\ d.maps[k].numids = 7

IommuStep ==
  \/ val_iommu_create_info_table
  \/ FirstIds /\ \E index \in 0..2, offset \in {0, 4, 1028}, data \in {<<1>>, <<2, 3>>} :
       (offset = 4 => Len(data) = 1) /\ val_iommu_write_iommu_reg(index, offset, data)

IommuInputs == RimtInit(Rimts, {0, 4, 1028})

IommuIdle == RimtInit({<<>>}, {})

-----------------------------------------------------------------------------
(* Timers: device trees, ACPI tables and platform files.                   *)

Irq(t, n, f) == [type |-> t, num |-> n, flag |-> f]

\* Root, interrupt controller, device.  The device, or the root for all, names
\* the controller; or nothing says how many cells, which is 3.
TreeNode(parent, intrParent, icells) == [parent |-> parent, intrParent |-> intrParent, icells |-> icells]
Trees(n) ==
  {<<TreeNode(0, 0, 0), TreeNode(1, 0, n), TreeNode(1, 2, 0)>>,
   <<TreeNode(0, 2, 0), TreeNode(1, 0, n), TreeNode(1, 0, 0)>>}
  \cup (IF n = 3 THEN {<<TreeNode(0, 0, 0), TreeNode(1, 0, 4), TreeNode(1, 0, 0)>>} ELSE {})
Shapes == UNION {{[tree |-> t, at |-> 3, ac |-> ac, sc |-> sc, frameAc |-> ac, cells |-> n] :
                    t \in Trees(n), ac \in 1..2, sc \in 1..2} : n \in 1..4}

\* Watchdogs and frames; with two cells to an address, above the reach of one.
High(ac) == IF ac = 2 THEN 3 * CellBase ELSE 0
Wd(k, intr) == [ctrl |-> 10 * k, refresh |-> 10 * k + 1, intr |-> intr]
Frame(k, number, intrs) == [base |-> 40 + k, number |-> number, intrs |-> intrs]
Ppis == [k \in 1..4 |-> Irq(GIC_PPI, k + 10, 4)]
Hardware(wd, system, frames, on, ac) ==
  [wd |-> [k \in DOMAIN wd |-> [wd[k] EXCEPT !.ctrl = @ + High(ac), !.refresh = @ + High(ac)]],
   system |-> system, cntl |-> 30 + High(ac), alwaysOn |-> on,
   frames |-> [k \in DOMAIN frames |-> [frames[k] EXCEPT !.base = @ + High(ac)]]]

Wds == {<<Wd(1, Irq(t, 5, f))>> : t \in {GIC_SPI, GIC_PPI}, f \in IrqTypes}
       \cup {<<Wd(1, Irq(t, 5, 1)), Wd(2, Irq(GIC_SPI, 6, f))>> : t \in {GIC_SPI, GIC_PPI}, f \in {1, 4}}
Frames == {<<Frame(0, Garbage, <<Irq(GIC_PPI, 7, 4)>>)>>}
          \cup {<<Frame(0, 0, <<Irq(GIC_SPI, 7, 4)>>), Frame(1, m, <<Irq(GIC_SPI, 8, 4), Irq(GIC_SPI, 9, 4)>>)>> : m \in {1, Garbage}}

DtSource(dt, override) == [by |-> "dt", dt |-> dt, override |-> override, el1physkip |-> FALSE, cntfrq |-> 0]
OneWd == [ctrl |-> 77, refresh |-> 78, gsiv |-> 79, flags |-> 0]
DtSources ==
  {DtSource(DtOf(Hardware(wd, Ppis, <<>>, FALSE, s.ac), s, m), <<>>) :
     wd \in Wds, s \in Shapes, m \in {"", "wd reg", "wd intr"}}
  \cup {DtSource(DtOf(Hardware(wd, Ppis, <<>>, FALSE, s.ac), s, m), <<OneWd>>) :
          wd \in Wds, s \in {h \in Shapes : h.cells = 3}, m \in {"", "wd reg", "wd intr"}}
  \cup {DtSource(DtOf(Hardware(<<>>, [Ppis EXCEPT ![2].type = t], f, on, s.ac), s, m), <<>>) :
          t \in {GIC_PPI, GIC_SPI}, f \in Frames, on \in BOOLEAN, s \in Shapes,
          m \in {"", "system", "mem", "frame reg", "frame intr"}}

Gtdt(k) == [type |-> "watchdog", ctrl |-> 10 * k, refresh |-> 10 * k + 1, gsiv |-> 30 + k, flags |-> k]
Gtdts == {<<>>, <<[type |-> "block"], Gtdt(1)>>, <<Gtdt(1), [type |-> "block"], Gtdt(4)>>}
AcpiSources ==
  {[by |-> "acpi", tables |-> t, gtdt |-> g, freq |-> 9, cntfrq |-> c, override |-> o, el1physkip |-> b] :
     t \in SUBSET {"rhct", "gtdt"}, g \in Gtdts, c \in {0, 8}, o \in {<<>>, <<OneWd>>}, b \in BOOLEAN}

BmSources ==
  {[by |-> "bm", el1physkip |-> FALSE, cntfrq |-> 5,
    cfg |-> [num_wd |-> w, wd_info |-> [k \in 1..w |-> [ctrl |-> k, refresh |-> k + 5, gsiv |-> 30 + k, flags |-> 3 * k]],
             gsiv |-> <<29, 30, 27, 26>>, flag |-> 4, el2_virt |-> 28, cntl |-> 50, timer_count |-> t,
             frames |-> [k \in 1..t |-> [base |-> 60 + k, number |-> k, gsiv |-> 70 + k, virt |-> 0]]]] : w \in 0..2, t \in 0..2}

\* Setting a clock reads neither the watchdogs nor the override.
PlainAcpi == {s \in AcpiSources : s.gtdt = <<>> /\ s.override = <<>>}

TimerStep ==
  \/ val_wd_create_info_table
  \/ val_timer_create_info_table
  \/ \E c \in Clocks, t \in {0, 3} : source \in PlainAcpi /\ wds = <<>> /\ val_timer_set(c, t)

TimerInputs ==
  TimerInit(DtSources, {{}}) \/ TimerInit(AcpiSources, SUBSET {"Cntp", "Cnthp"}) \/ TimerInit(BmSources, {{}})

OneTimer == CHOOSE s \in BmSources : s.cfg.num_wd = 0 /\ s.cfg.timer_count = 0

TimerIdle == TimerInit({OneTimer}, {{}})

-----------------------------------------------------------------------------
(* Interrupt controllers.                                                  *)

\* The distributor at 10, redistributor regions of two frames at 20 and 60, the
\* CPU interface at 5, the virtual one at 7, frames of a GICv2m at 90 and 95;
\* above the reach of a cell where an address has two.
GicHigh(ac) == IF ac = 2 THEN CellBase ELSE 0
Bits(set) == {<<i \div Stride, (2 * i + 1) % (2 * Stride)>> : i \in set}
           \cup {<<i \div Stride, (2 * i) % (2 * Stride)>> : i \in {1, 2, 5}}
EspiAt == 4 * Stride
Controller(hw, typer) ==
  [hw |-> hw, typer |-> typer, pidr2 |-> hw.version, maxIntid |-> 6, espi |-> EspiAt, maxEspi |-> EspiAt + 5,
   icfgr |-> Bits({i \in hw.edge : i <= 6}), icfgre |-> Bits({i - EspiAt : i \in {j \in hw.edge : j >= EspiAt}}),
   msiTyper |-> [b \in {f.base : f \in Range(hw.frames)} |->
                   LET k == CHOOSE j \in DOMAIN hw.frames : hw.frames[j].base = b IN <<hw.frames[k].first, hw.frames[k].count>>]]

Typers(regions, n) ==
  LET frames == UNION {{r[1] + j * RdFrame : j \in 0..(n - 1)} : r \in Range(regions)} IN
    [f \in frames |-> 500 + f]

Edges == {{}, {0, 3}, {1, EspiAt + 2}, {5, 6, EspiAt, EspiAt + 5}}

GicHw(version, gicd, gicr, gicc_rd, cpuif, gich, its, frames, complete, edge) ==
  [version |-> version, gicd |-> gicd, gicr |-> gicr, gicc_rd |-> gicc_rd, cpuif |-> cpuif, gich |-> gich, its |-> its,
   frames |-> frames, complete |-> complete, edge |-> edge, supervisor |-> 0, guest |-> 0]

Gicr(k, high) == [j \in 1..k |-> <<high + 20 * j, 2 * RdFrame>>]
Gicv3(ac, sc, rd, named, cpuif, its, edge) ==
  LET high == GicHigh(ac)
      regions == <<<<high + 10, 3>>>> \o Gicr(rd, high) \o (IF cpuif THEN <<<<high + 5, 3>>>> ELSE <<>>)
  IN [by |-> "dt",
      dt |-> [version |-> 3, ac |-> ac, sc |-> sc, reg |-> RegCells(regions, ac, sc), harts |-> 2,
              rdRegions |-> IF named THEN rd ELSE Garbage, its |-> its, frames |-> <<>>]]
     @@ Controller(GicHw(3, high + 10, Gicr(rd, high), <<>>, IF cpuif THEN high + 5 ELSE 0, 0, its, <<>>, TRUE, edge),
                   Typers(Gicr(rd, high), 2))

V2mFrame(k, high, given) == [base |-> high + 85 + 5 * k, first |-> 40 * k, count |-> 3 + k, given |-> given]
Gicv2(ac, sc, interfaces, frames, whole, fac, edge) ==
  LET high == GicHigh(ac)
      regions == SubSeq(<<<<high + 10, 3>>, <<high + 5, 3>>, <<high + 7, 3>>, <<high + 8, 3>>>>, 1, interfaces)
      cells(f) == [reg |-> RegCells(<<<<f.base, 4>>>>, fac, sc),
                   spi_base |-> IF f.given THEN f.first ELSE 0, spi_count |-> IF f.given THEN f.count ELSE 0]
      shown == IF whole THEN frames ELSE SubSeq(frames, 1, Len(frames) - 1)
  IN [by |-> "dt",
      dt |-> [version |-> 2, ac |-> ac, sc |-> sc, reg |-> RegCells(regions, ac, sc), harts |-> 2, rdRegions |-> Garbage,
              its |-> 0, frameAc |-> fac, frameSc |-> sc,
              frames |-> [k \in DOMAIN frames |-> IF whole \/ k < Len(frames) THEN cells(frames[k])
                                                 ELSE [cells(frames[k]) EXCEPT !.reg = NoProp]]]]
     @@ Controller(GicHw(2, high + 10, <<>>, <<>>, IF interfaces > 1 THEN high + 5 ELSE 0,
                         IF interfaces > 2 THEN high + 7 ELSE 0, 0, shown, whole, edge), <<>>)

GicDts ==
  {Gicv3(ac, sc, rd, named \/ rd > 1, cpuif, its, edge) :
     ac \in 1..2, sc \in 1..2, rd \in 1..2, named \in BOOLEAN, cpuif \in BOOLEAN, its \in 0..2, edge \in Edges}
  \cup UNION {{Gicv2(ac, sc, n, [k \in 1..m |-> V2mFrame(k, GicHigh(fac), k \in g)], whole, fac, {1, EspiAt + 2}) :
                 ac \in 1..2, sc \in 1..2, n \in 1..4, g \in SUBSET (1..2), whole \in BOOLEAN, fac \in 1..2} : m \in 1..2}

Madt(entries, there) ==
  LET imsic == SelectSeq(entries, LAMBDA e : e.type = "IMSIC")
      last == IF imsic = <<>> THEN [supervisor |-> 0, guest |-> 0] ELSE imsic[Len(imsic)]
  IN [by |-> "acpi", madt |-> entries, hasMadt |-> there]
     @@ Controller([GicHw(0, 0, <<>>, <<>>, 0, 0, 0, <<>>, there, {}) EXCEPT !.supervisor = last.supervisor, !.guest = last.guest], <<>>)
ImsicEntry(n) == [type |-> "IMSIC", supervisor |-> 255 * n, guest |-> 63 * n]
GicAcpi == {Madt(<<>>, FALSE)} \cup {Madt(m, TRUE) : m \in UNION {[1..k -> {ImsicEntry(1), ImsicEntry(2), [type |-> "PLIC"], [type |-> "RINTC"]}] : k \in 0..3}}

GicBm ==
  {[by |-> "bm",
    cfg |-> [version |-> 3, gicc |-> <<5>>, gicc_rd |-> IF r = 0 THEN <<20, 40>> ELSE <<>>, gicc_rd_length |-> 2 * RdFrame,
             gicr |-> [j \in 1..r |-> 20 * j], gicr_length |-> 2 * RdFrame, gicd |-> <<10>>, its |-> its, gich |-> <<7>>,
             frames |-> [k \in 1..m |-> [base |-> 85 + 5 * k, spi_base |-> g * 40 * k, spi_count |-> 0]]]]
     @@ Controller(GicHw(3, 10, Gicr(r, 0), IF r = 0 THEN <<20, 40>> ELSE <<>>, 5, 7, Len(its),
                         [k \in 1..m |-> V2mFrame(k, 0, FALSE)], TRUE, edge),
                   IF r = 0 THEN [f \in {20, 40} |-> f] ELSE Typers(Gicr(r, 0), 2)) :
     r \in 0..2, its \in {<<>>, <<30>>, <<30, 31>>}, m \in 0..2, g \in 0..1, edge \in Edges}

GicStep == val_gic_create_info_table \/ val_gic_v2m_parse_info

GicInputs == GicInit(GicDts) \/ GicInit(GicBm) \/ GicInit(GicAcpi)

GicIdle == GicInit({Madt(<<>>, FALSE)})

-----------------------------------------------------------------------------
(* Harts.                                                                  *)

\* Up to three RINTC structures, any flags; hart nodes with strings in any order.
Rintc(k, flags) == [type |-> "RINTC", id |-> <<0, 0, 0, k>>, uid |-> k, imsic_base |-> 100 + k,
                    enabled |-> "enabled" \in flags, onlineCapable |-> "online" \in flags]
HartNode(uid, offsets) == [type |-> "HART_INFO", uid |-> uid, offsets |-> offsets]
Isa(n) == [type |-> "ISA_STRING", isa |-> n]
Rhcts == {<<Isa(7), [type |-> "CMO"], Isa(8), HartNode(0, <<1, 2>>), HartNode(1, <<a, b>>), HartNode(2, <<2, 3>>)>> : a, b \in 1..3}
IsaRef(rhct, uid) ==
  LET last == rhct[4 + uid].offsets IN IF rhct[last[2]].type = "ISA_STRING" THEN rhct[last[2]].isa
                                       ELSE IF rhct[last[1]].type = "ISA_STRING" THEN rhct[last[1]].isa ELSE Garbage
HartsAcpiOf(rhcts, fadts) ==
  {LET madt == [k \in 1..n |-> IF k = p THEN [type |-> "PLIC"] ELSE Rintc((k + turn) % 3, IF k = 1 THEN f ELSE g)] IN
     [by |-> "acpi", fadt |-> c, tables |-> t, madt |-> madt, rhct |-> r, self |-> <<0, 0, 0, 1>>, dminline |-> 1,
      hw |-> IF ~t THEN <<>>
             ELSE LET on == SelectSeq(madt, LAMBDA e : e.type = "RINTC" /\ (e.enabled \/ e.onlineCapable)) IN
                    [k \in DOMAIN on |-> [id |-> on[k].id, imsic_base |-> on[k].imsic_base, isa |-> IsaRef(r, on[k].uid)]]] :
     n \in 1..3, p \in 0..2, turn \in 0..2, f, g \in {{}, {"enabled"}, {"online"}}, t \in BOOLEAN, r \in rhcts, c \in fadts}
\* The FADT has no part in the table of harts, only in the conduit read before it.
HartsAcpi == HartsAcpiOf(Rhcts, {{"none"}}) \cup HartsAcpiOf({CHOOSE r \in Rhcts : TRUE}, {{}, {"compliant"}, {"compliant", "hvc"}})

\* Up to three cpus with affinities below 3; the first is the one that runs.
Low(a) == SubSeq(a, 2, 4)
Affs == {a \in [1..4 -> 0..2] : Cardinality({f \in 1..4 : a[f] > 0}) \in 1..2}
Cpus(ids, ac, bad) == [k \in DOMAIN ids |-> [reg |-> IF ac = 2 THEN <<ids[k][1], Low(ids[k])>> ELSE <<Low(ids[k])>>,
                                             status |-> IF k = bad THEN "fail" ELSE "okay"]]
HIrq(t, n) == [type |-> t, num |-> n, flag |-> 4]
Pmus == {<<>>, <<<<HIrq(GIC_PPI, 7)>>>>, <<<<HIrq(GIC_PPI, 7)>>, <<HIrq(GIC_PPI, 7)>>>>, <<<<HIrq(GIC_PPI, 7)>>, <<HIrq(GIC_PPI, 8)>>>>,
         <<<<HIrq(GIC_SPI, 1), HIrq(GIC_SPI, 2)>>>>, <<<<HIrq(GIC_SPI, 1)>>, <<HIrq(GIC_SPI, 2), HIrq(GIC_SPI, 3)>>>>}
DtHarts(ids, ac, sc, bad, pmus, cells, method) ==
  [by |-> "dt", method |-> method, self |-> ids[1], dminline |-> 0,
   dt |-> [cpus |-> Cpus(ids, ac, bad), ac |-> ac, sc |-> sc, pmus |-> pmus, cells |-> cells, maint |-> HIrq(GIC_PPI, 9)],
   hw |-> IF sc # 0 THEN <<>>
          ELSE LET good == SelectSeq([k \in DOMAIN ids |-> [id |-> ids[k], ok |-> k # bad]], LAMBDA c : c.ok) IN
                 [k \in DOMAIN good |-> [id |-> good[k].id]]]
HartsDt ==
  {DtHarts(<<<<0, 0, 0, 0>>, q[1], q[2]>>, 2, 0, 0, <<>>, 3, "smc") : q \in {r \in Affs \X Affs : r[1] # r[2]}}
  \cup {DtHarts(<<<<0, 0, 0, 0>>, <<0, 0, 0, 1>>, <<0, 0, 1, 0>>>>, ac, sc, bad, p, n, m) :
          ac \in 1..2, sc \in 0..1, bad \in {0, 2, 3}, p \in Pmus, n \in 1..4, m \in {"no psci", "hvc", "other"}}

HartsBm ==
  {[by |-> "bm", cfg |-> [k \in 1..n |-> [mpidr |-> <<0, k % 2, 0, k - 1>>, pmu_gsiv |-> 23, gmain_gsiv |-> 25]], self |-> <<0, 1, 0, 0>>,
    dminline |-> d, hw |-> [k \in 1..n |-> [id |-> <<0, k % 2, 0, k - 1>>]]] : n \in 0..3, d \in 0..2}

HartStep ==
  \/ val_hart_create_info_table
  \/ hartSource.by = "bm" /\ Len(harts) = 1 /\ \E start \in 0..9, length \in 1..9 : val_hart_cache_clean_range(start, length)

HartInputs == HartInit(HartsAcpi) \/ HartInit(HartsDt) \/ HartInit(HartsBm)

HartIdle == HartInit({h \in HartsBm : h.cfg = <<>> /\ h.dminline = 0})

-----------------------------------------------------------------------------
(* Memory.                                                                 *)

\* Up to four regions of two units each, apart or side by side, not from 0 up.
EfiTypes == {"Conventional", "MMIO", "ACPINVS", "Unusable"}
BmTypes == {"NORMAL", "DEVICE", "RESERVED", "NOT_POPULATED"}
Block2(type, start) == [type |-> type, start |-> start, size |-> 2]
Layouts == {s \in UNION {[1..n -> {1, 3, 6, 8}] : n \in 0..4} : \A i, j \in DOMAIN s : i < j => s[i] < s[j]}
MapsOf(types) == UNION {{[k \in DOMAIN s |-> Block2(t[k], s[k])] : t \in [DOMAIN s -> types]} : s \in Layouts}
Gcds == {<<>>} \cup {<<[type |-> t, start |-> 0], [type |-> u, start |-> 5], [type |-> t, start |-> 11]>> :
                       t, u \in {"NonExistent", "SystemMemory"}}
MemSource(by, map, readable, gcd) == [by |-> by, map |-> map, readable |-> readable, gcd |-> gcd, top |-> 12]
\* Only the ACPI build reads the GCD map, and nothing is read of an unreadable map.
MemSources ==
  {MemSource("acpi", m, TRUE, g) : m \in MapsOf(EfiTypes), g \in Gcds}
  \cup {MemSource("dt", m, TRUE, <<>>) : m \in MapsOf(EfiTypes)}
  \cup {MemSource(b, m, FALSE, g) : b \in {"acpi", "dt"}, m \in {n \in MapsOf(EfiTypes) : Len(n) < 2}, g \in Gcds}
  \cup {MemSource("bm", m, TRUE, <<>>) : m \in MapsOf(BmTypes)}

MemIdle == MemInit({MemSource("bm", <<>>, TRUE, <<>>)})

-----------------------------------------------------------------------------
(* Peripherals.                                                            *)

\* Three functions at most, on two buses of three devices, in any order; the
\* base in the first or the third BAR, narrow or wide.
Bars(k, base, flags) ==
  LET words == IF Wide(flags) THEN <<(base % CellBase) + flags, base \div CellBase>> ELSE <<base + flags>> IN
    [i \in 1..6 |-> IF i - k \in DOMAIN words THEN words[i - k] ELSE 0]
PerFn(bdf, class, wide) ==
  LET base == IF wide THEN 3 * CellBase + 32 ELSE 48 IN
    [bdf |-> bdf, class |-> class, base |-> base, bars |-> Bars(IF wide THEN 2 ELSE 0, base, IF wide THEN 4 ELSE 0)]
Bdfs == {<<b, d, f>> : b \in 0..1, d \in 0..2, f \in 0..1}
FirstFns == {b \in Bdfs : b[3] = 0}
FnLists ==
  LET lists(c) == {<<>>} \cup {<<PerFn(x, c[1], TRUE)>> : x \in Bdfs} \cup {<<PerFn(x, c[1], TRUE), PerFn(y, c[2], FALSE)>> : x, y \in Bdfs}
                  \cup {<<PerFn(x, c[1], FALSE), PerFn(y, c[2], TRUE), PerFn(z, c[1], FALSE)>> : x, y, z \in FirstFns}
  IN {s \in UNION {lists(c) : c \in {<<"USB", "USB">>, <<"USB", "SATA">>, <<"SATA", "OTHER">>}} :
        \A i, j \in DOMAIN s : i # j => s[i].bdf # s[j].bdf}

PIrq(t, n) == [type |-> t, num |-> n, flag |-> 4]
NodeOf(base, irq, ac, cells, missing, status, levels) ==
  [reg |-> IF missing = "reg" THEN NoProp ELSE RegCells(<<<<base, 1>>>>, ac, 1),
   intr |-> IF missing = "intr" THEN NoProp ELSE IntrCells(<<PIrq(GIC_SPI, irq)>>, cells), status |-> status, levels |-> levels]
\* A bus that maps 0 to its window at 9, and one above that maps windows 5 and 9.
BusLevel(ranges) == [has |-> TRUE, ranges |-> ranges]
TopLevel == [has |-> FALSE, ranges |-> <<>>]
Levels(window) == CASE window = "none" -> <<TopLevel>>
                    [] window = "empty" -> <<BusLevel(<<>>), TopLevel>>
                    [] OTHER -> <<BusLevel(<<<<0, 9, 4>>>>), BusLevel(<<<<5, 20, 4>>, <<9, 40, 4>>>>), TopLevel>>
PTree(cells) == <<[icells |-> cells, intrParent |-> 0, parent |-> 0], [icells |-> 0, intrParent |-> 1, parent |-> 0]>>
PerDt(n, ac, cells, missing, status, window) ==
  LET bad(k) == IF k = n THEN missing ELSE "none"
      whole == IF missing = "none" THEN n ELSE n - 1
      node(base, k, st) == NodeOf(base, k, ac, cells, bad(k), st, Levels(window))
      on == IF status = "disabled" THEN SelectSeq([k \in 1..whole |-> k], LAMBDA k : k # 1) ELSE [k \in 1..whole |-> k]
  IN [tree |-> PTree(cells), at |-> 2, ac |-> ac,
      usb |-> [k \in 1..n |-> node(130 + k, k, "okay")], sata |-> [k \in 1..n |-> node(140 + k, k, "okay")],
      uart |-> [k \in 1..n |-> node(150 + k, k, IF k = 1 THEN status ELSE "okay")],
      hw |-> [t \in Types |-> CASE t = "USB" -> [k \in 1..whole |-> 130 + k] [] t = "SATA" -> [k \in 1..whole |-> 140 + k]
                                [] OTHER -> [k \in DOMAIN on |-> [base |-> 150 + on[k], irq |-> on[k] + SPI_OFFSET,
                                                                  window |-> IF window = "mapped" THEN <<9, 40>> ELSE <<>>]]]]
NoDt == PerDt(0, 2, 3, "none", "okay", "none")
PerDts == {NoDt} \cup {PerDt(n, 2, c, m, s, w) : n \in 1..2, c \in {1, 3}, m \in {"none", "reg", "intr"}, s \in {"okay", "disabled"},
                                                 w \in {"none", "empty", "mapped"}}
Spcr(u) == IF u THEN <<[base |-> 77, irq |-> 33, bdf |-> NoBdf]>> ELSE <<>>
PerSource(by, fns, dt, spcr, generic, pcie) ==
  [by |-> by, fns |-> fns, dt |-> dt, spcr |-> Spcr(spcr), generic |-> IF generic THEN <<[base |-> 88, irq |-> 34]>> ELSE <<>>, pcie |-> pcie]
PerSources ==
  {PerSource("acpi", f, NoDt, u, u, TRUE) : f \in FnLists, u \in BOOLEAN}
  \cup {PerSource("dt", f, NoDt, TRUE, TRUE, TRUE) : f \in FnLists}
  \cup {PerSource("bm", f, NoDt, u[1], FALSE, u[2]) : f \in FnLists, u \in (BOOLEAN \X BOOLEAN) \ {<<TRUE, FALSE>>}}
  \cup {PerSource("bm", f, NoDt, TRUE, FALSE, FALSE) : f \in {l \in FnLists : Len(l) < 2}}
  \cup {PerSource("dt", f, d, u, u, TRUE) : f \in {<<>>, <<PerFn(<<0, 1, 0>>, "SATA", TRUE)>>}, d \in PerDts, u \in BOOLEAN}

PerIdle == PerInit({PerSource("bm", <<>>, NoDt, FALSE, FALSE, FALSE)})
=============================================================================
