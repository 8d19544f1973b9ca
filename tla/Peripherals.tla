---------------------------- MODULE Peripherals ----------------------------
(***************************************************************************)
(* The peripheral table: USB and SATA controllers searched for by class    *)
(* code over the PCI functions, or found in the device tree if there are   *)
(* none, and UARTs from the SPCR, the device tree or the configuration.    *)
(***************************************************************************)
EXTENDS DeviceTree, FiniteSetsExt, TLC

CONSTANTS
  PciMaxDevice,   \* PCI_MAX_DEVICE
  BarFlags        \* the low part of a BAR that is not address: 16

VARIABLES
  perSource,   \* the build, its PCI functions and what describes the rest
  per          \* PERIPHERAL_INFO_TABLE; built: val_peripheral_create_info_table is done

perVars == <<perSource, per>>

Types == {"USB", "SATA", "UART"}
NoBdf == <<0, 0, 0>>
Block(type) == [type |-> type, bdf |-> NoBdf, base0 |-> Garbage, base1 |-> Garbage, irq |-> Garbage]
NoPeripherals == [built |-> FALSE, num |-> [t \in Types |-> 0], num_all |-> 0, info |-> <<>>]

-----------------------------------------------------------------------------
(* The search for controllers.  A function has a bdf <<bus, dev, fn>>, a   *)
(* class and six BAR words; functions come in the order of their handles.  *)

incrementBusDev(bdf) == IF bdf[2] # PciMaxDevice THEN <<bdf[1], bdf[2] + 1, 0>> ELSE <<bdf[1] + 1, 0, 0>>
incrementBusDev_dt(bdf) == incrementBusDev(bdf)
pal_increment_bus_dev_bm(bdf) == incrementBusDev(bdf)

Before(a, b) == a[1] < b[1] \/ (a[1] = b[1] /\ a[2] < b[2])

\* From the bus of start on, and on each bus from the device of start on: the
\* devices before it are passed over on the later buses too.
Searched(bdf, start) == bdf[1] >= start[1] /\ bdf[2] >= start[2]

palPcieGetBdf(fns, class, start) ==
  LET match == {k \in DOMAIN fns : fns[k].class = class /\ Searched(fns[k].bdf, start)}
      first == {k \in match : \A j \in match : ~Before(fns[j].bdf, fns[k].bdf)}
  IN IF match = {} THEN NoBdf ELSE fns[Min(first)].bdf
palPcieGetBdf_dt(fns, class, start) == palPcieGetBdf(fns, class, start)

\* By the numbers of the functions, which are read one after the other.
pal_pcie_get_bdf_bm(fns, class, start) ==
  palPcieGetBdf(SortSeq(fns, LAMBDA f, g : f.bdf[3] < g.bdf[3]), class, start)

\* The word of a BAR as it is, flags included, below the next one if it is wide.
Wide(word) == (word \div 2) % 4 = 2
palPcieGetBase(bars, i) == IF Wide(bars[i]) THEN bars[i + 1] * CellBase + bars[i] ELSE bars[i]
palPcieGetBase_dt(bars, i) == palPcieGetBase(bars, i)
pal_pcie_get_base_bm(bars, i) ==
  LET low == bars[i] - (bars[i] % BarFlags) IN IF Wide(bars[i]) THEN bars[i + 1] * CellBase + low ELSE low

\* The first BAR that is not 0.
BarBase(bars) ==
  LET base(i) == CASE perSource.by = "acpi" -> palPcieGetBase(bars, i)
                   [] perSource.by = "dt" -> palPcieGetBase_dt(bars, i)
                   [] OTHER -> pal_pcie_get_base_bm(bars, i)
      set == {i \in DOMAIN bars : base(i) # 0}
  IN IF set = {} THEN 0 ELSE base(Min(set))

FnAt(fns, bdf) == fns[CHOOSE k \in DOMAIN fns : fns[k].bdf = bdf]

\* The next controller from start on, and where the search after it starts.
SearchFrom(class, start) ==
  CASE perSource.by = "acpi" -> palPcieGetBdf(perSource.fns, class, start)
    [] perSource.by = "dt" -> palPcieGetBdf_dt(perSource.fns, class, start)
    [] OTHER -> pal_pcie_get_bdf_bm(perSource.fns, class, start)
StartAfter(bdf) == CASE perSource.by = "acpi" -> incrementBusDev(bdf)
                     [] perSource.by = "dt" -> incrementBusDev_dt(bdf)
                     [] OTHER -> pal_increment_bus_dev_bm(bdf)

\* Search after search, each from the device after the last one found.
PciControllers(class) ==
  LET fns == perSource.fns
      one(t, k) == LET bdf == SearchFrom(class, t.start) IN
        IF t.done \/ bdf = NoBdf THEN [t EXCEPT !.done = TRUE]
        ELSE [t EXCEPT !.start = StartAfter(bdf),
                       !.found = Append(@, [Block(class) EXCEPT !.bdf = bdf, !.base0 = BarBase(FnAt(fns, bdf).bars)])]
  IN InOrder(one, [start |-> NoBdf, done |-> FALSE, found |-> <<>>], [k \in 1..(Len(fns) + 1) |-> k]).found

-----------------------------------------------------------------------------
(* The device tree.  Nodes come by compatible and then by place; a return  *)
(* at one leaves those before it in the table.                             *)

DtIrq(cells, n, offset) ==
  IF n < 3 THEN Offset(cells, 0, offset) ELSE IF Cell(cells, 0) = GIC_SPI THEN Offset(cells, 1, offset) ELSE 0

WholeNode(node, n) == Present(node.reg) /\ Present(node.intr) /\ CellsInRange(n, 1, 4)

\* The nodes up to the first that is not whole, each of which becomes a block.
WholeNodes(nodes, dt) ==
  LET n == fdt_interrupt_cells(dt.tree, dt.at)
      bad == {k \in DOMAIN nodes : ~WholeNode(nodes[k], n)}
  IN IF ~CellsInRange(dt.ac, 1, 2) THEN <<>>
     ELSE IF bad = {} THEN nodes
     ELSE SubSeq(nodes, 1, Min(bad) - 1)

pal_peripheral_usb_create_info_table_dt(dt) ==
  LET nodes == WholeNodes(dt.usb, dt)
      n == fdt_interrupt_cells(dt.tree, dt.at)
  IN [k \in DOMAIN nodes |->
        [Block("USB") EXCEPT !.base0 = Address(nodes[k].reg, 0, dt.ac), !.irq = DtIrq(nodes[k].intr, n, 0)]]

\* The address goes to base1; base0 is not written.
pal_peripheral_sata_create_info_table_dt(dt) ==
  LET nodes == WholeNodes(dt.sata, dt)
      n == fdt_interrupt_cells(dt.tree, dt.at)
  IN [k \in DOMAIN nodes |->
        [Block("SATA") EXCEPT !.base1 = Address(nodes[k].reg, 0, dt.ac), !.irq = DtIrq(nodes[k].intr, n, 0)]]

\* What the buses above a UART add to its address, three at most: empty ranges
\* add nothing; the one range of a bus is followed but not added; of several,
\* the one that starts at the address followed is added, and the walk ends.
RangesOffset(levels, base) ==
  LET one(t, bus) == LET ranges == bus.ranges IN
        IF t.done \/ ~bus.has THEN [t EXCEPT !.done = TRUE]
        ELSE IF ranges = <<>> THEN t
        ELSE IF Len(ranges) = 1 THEN [t EXCEPT !.addr = ranges[1][2]]
        ELSE LET hit == {k \in DOMAIN ranges : ranges[k][1] = t.addr} IN
                        [t EXCEPT !.done = TRUE, !.offset = IF hit = {} THEN 0 ELSE ranges[Min(hit)][2]]
  IN InOrder(one, [addr |-> base, offset |-> 0, done |-> FALSE], SubSeq(levels, 1, Min({3, Len(levels)}))).offset

pal_peripheral_uart_create_info_table_dt(dt) ==
  LET nodes == WholeNodes(SelectSeq(dt.uart, LAMBDA node : node.status # "disabled"), dt)
      n == fdt_interrupt_cells(dt.tree, dt.at)
      base(k) == Address(nodes[k].reg, 0, dt.ac)
  IN [k \in DOMAIN nodes |->
        [Block("UART") EXCEPT !.base0 = base(k) + RangesOffset(nodes[k].levels, base(k)),
                              !.irq = DtIrq(nodes[k].intr, n, SPI_OFFSET)]]

-----------------------------------------------------------------------------
(* The three builders: num is counted up for every controller, num_all not *)
(* for those of the device tree.                                           *)

Uart(u) == [Block("UART") EXCEPT !.base0 = u.base, !.irq = u.irq]
UartsOf(list) == [k \in DOMAIN list |-> Uart(list[k])]
PerCounted(usb, sata, uart, all) ==
  [built |-> TRUE, info |-> usb \o sata \o uart, num_all |-> all,
   num |-> [t \in Types |-> CASE t = "USB" -> Len(usb) [] t = "SATA" -> Len(sata) [] OTHER -> Len(uart)]]

pal_peripheral_create_info_table_acpi ==
  LET usb == PciControllers("USB") sata == PciControllers("SATA")
      uart == UartsOf(perSource.spcr) \o UartsOf(perSource.generic)
  IN PerCounted(usb, sata, uart, Len(usb) + Len(sata) + Len(uart))

pal_peripheral_create_info_table_dt ==
  LET pciUsb == PciControllers("USB") pciSata == PciControllers("SATA")
      usb == IF pciUsb = <<>> THEN pal_peripheral_usb_create_info_table_dt(perSource.dt) ELSE pciUsb
      sata == IF pciSata = <<>> THEN pal_peripheral_sata_create_info_table_dt(perSource.dt) ELSE pciSata
      uart == (IF perSource.spcr = <<>> THEN pal_peripheral_uart_create_info_table_dt(perSource.dt) ELSE UartsOf(perSource.spcr))
              \o UartsOf(perSource.generic)
  IN PerCounted(usb, sata, uart, Len(pciUsb) + Len(pciSata) + Len(perSource.spcr) + Len(perSource.generic))

pal_peripheral_create_info_table_bm ==
  LET usb == IF perSource.pcie THEN PciControllers("USB") ELSE <<>>
      sata == IF perSource.pcie THEN PciControllers("SATA") ELSE <<>>
      uart == [k \in DOMAIN perSource.spcr |-> [Uart(perSource.spcr[k]) EXCEPT !.bdf = perSource.spcr[k].bdf]]
  IN PerCounted(usb, sata, uart, Len(usb) + Len(sata) + Len(uart))

val_peripheral_create_info_table ==
  /\ ~per.built
  /\ per' = CASE perSource.by = "acpi" -> pal_peripheral_create_info_table_acpi
              [] perSource.by = "dt" -> pal_peripheral_create_info_table_dt
              [] OTHER -> pal_peripheral_create_info_table_bm
  /\ UNCHANGED perSource

-----------------------------------------------------------------------------
\* Bug: the instance is counted down before the entry is looked at.
InstanceAt_CountedFirst(at, k, instance) == Cardinality({j \in at : j <= k}) = instance
InstanceAt(at, k, instance) == Cardinality({j \in at : j < k}) = instance

\* The index of an instance of a type, "NONE" being any; 0 when there is none.
val_peripheral_get_entry_index(type, instance) ==
  LET at == {k \in DOMAIN per.info : type = "NONE" \/ per.info[k].type = type}
      found == {k \in at : InstanceAt(at, k, instance)}
  IN IF found = {} THEN 0 ELSE Min(found)

\* A field of an instance, 0 when there is none (NoBdf of a bdf).
val_peripheral_get_info(type, instance, field) ==
  LET i == val_peripheral_get_entry_index(type, instance) IN
    IF field = "num" THEN per.num[type]
    ELSE IF i = 0 /\ field = "bdf" THEN NoBdf
    ELSE IF i = 0 THEN 0
    ELSE per.info[i][field]

PerInit(sources) == perSource \in sources /\ per = NoPeripherals

-----------------------------------------------------------------------------
\* The devices with a function of a class; one at 0:0.0 looks like none found.
Controllers(class) ==
  {<<b[1], b[2]>> : b \in {perSource.fns[k].bdf : k \in {j \in DOMAIN perSource.fns : perSource.fns[j].class = class}}}
AtZero(class) == \E k \in DOMAIN perSource.fns : perSource.fns[k].class = class /\ perSource.fns[k].bdf = NoBdf
Instances(class) == 0..(val_peripheral_get_info(class, 0, "num") - 1)
DeviceOf(class, k) == LET bdf == val_peripheral_get_info(class, k, "bdf") IN <<bdf[1], bdf[2]>>
ByPci == perSource.by # "bm" \/ perSource.pcie
Missed(class) == Controllers(class) \ {DeviceOf(class, k) : k \in Instances(class)}

\* What the device tree says of a UART, whose buses map nothing, or map from 0
\* into a window that the bus above maps.
DescribedUart(u) == u.base + (IF u.window = <<>> THEN 0 ELSE u.window[2])

\* The counts are those of the entries.  A PCI controller is listed once, with
\* the address of its first BAR that is set, and none is missed on the bus of
\* the first, unless one is at 0:0.0 (after a controller is found, the search
\* passes over the devices of lower numbers on every later bus).  Without one the device tree's controllers are
\* listed, those before the first node that lacks a property, with their own
\* addresses; likewise the UARTs, without the disabled ones, with their
\* interrupts.
PeripheralsAreRight ==
  per.built =>
    LET fns == perSource.fns
        dt == perSource.dt
        pci == [t \in {"USB", "SATA"} |-> ByPci /\ Controllers(t) # {}]
        base(t) == IF t = "USB" THEN "base0" ELSE "base1"
    IN /\ \A t \in Types : per.num[t] = Cardinality({k \in DOMAIN per.info : per.info[k].type = t})
       /\ \A t \in {c \in {"USB", "SATA"} : ~AtZero(c)} :
            /\ pci[t] => /\ \A j, k \in Instances(t) : j # k => DeviceOf(t, j) # DeviceOf(t, k)
                         /\ Cardinality({c[1] : c \in Controllers(t)}) = 1 => Missed(t) = {}
                         /\ \A k \in Instances(t) :
                              LET f == FnAt(fns, val_peripheral_get_info(t, k, "bdf")) IN
                                /\ f.class = t
                                /\ val_peripheral_get_info(t, k, "base0") \div BarFlags = f.base \div BarFlags
            /\ ~pci[t] => LET hw == IF perSource.by = "dt" THEN dt.hw[t] ELSE <<>> IN
                            /\ per.num[t] = Len(hw)
                            /\ \A k \in Instances(t) : val_peripheral_get_info(t, k, base(t)) = hw[k + 1]
       /\ LET hw == (IF perSource.spcr # <<>> THEN [k \in 1..1 |-> <<perSource.spcr[1].base, perSource.spcr[1].irq>>]
                     ELSE IF perSource.by = "dt" THEN [k \in DOMAIN dt.hw["UART"] |-> <<DescribedUart(dt.hw["UART"][k]), dt.hw["UART"][k].irq>>]
                     ELSE <<>>)
                    \o [k \in DOMAIN perSource.generic |-> <<perSource.generic[k].base, perSource.generic[k].irq>>]
          IN /\ per.num["UART"] = Len(hw)
             /\ \A k \in Instances("UART") :
                  <<val_peripheral_get_info("UART", k, "base0"), val_peripheral_get_info("UART", k, "irq")>> = hw[k + 1]
       /\ val_peripheral_get_info("NONE", Len(per.info), "bdf") = NoBdf
=============================================================================
