----------------------------- MODULE DeviceTree -----------------------------
(***************************************************************************)
(* Properties of device tree nodes, as the PAL of the device tree build    *)
(* reads them: arrays of cells it walks with an index, one or two cells to *)
(* an address, one to four to an interrupt.                                *)
(***************************************************************************)
EXTENDS Integers, Sequences, FiniteSetsExt, Folds

\* 2^32: a cell holds a value below it.
CONSTANT CellBase

\* A property that is not there, and what lies beyond the end of one.
NoProp == <<-2>>
Garbage == -1

GIC_SPI == 0
GIC_PPI == 1
PPI_OFFSET == 16
SPI_OFFSET == 32

\* fdt32_to_cpu(prop[i]).
Cell(cells, i) == IF i < Len(cells) THEN cells[i + 1] ELSE Garbage

\* An address of n cells that starts at cell i.
Address(cells, i, n) ==
  IF n = 1 THEN Cell(cells, i)
  ELSE IF Garbage \in {Cell(cells, i), Cell(cells, i + 1)} THEN Garbage
  ELSE Cell(cells, i) * CellBase + Cell(cells, i + 1)

\* A number read at cell i, made an interrupt number by an offset.
Offset(cells, i, offset) == IF Cell(cells, i) = Garbage THEN Garbage ELSE Cell(cells, i) + offset

\* Elements of a list, one after the other.
InOrder(step(_, _), start, list) ==
  MapThenFoldSet(LAMBDA e, t : step(t, e), start, LAMBDA k : list[k], Max, DOMAIN list)

Concatenated(lists) == InOrder(LAMBDA s, t : s \o t, <<>>, lists)

Present(prop) == prop # NoProp
CellsInRange(n, low, high) == n >= low /\ n <= high

-----------------------------------------------------------------------------
(* What the bindings say the properties hold, for the hardware described.  *)

AddressCells(a, n) == IF n = 1 THEN <<a>> ELSE <<a \div CellBase, a % CellBase>>

\* A list of regions <<address, size>>.
RegCells(regions, ac, sc) ==
  Concatenated([k \in DOMAIN regions |->
                  AddressCells(regions[k][1], ac) \o (IF sc = 0 THEN <<>> ELSE AddressCells(regions[k][2], sc))])

\* A list of interrupts [type, num, flag].
IntrCells(intrs, n) ==
  Concatenated([k \in DOMAIN intrs |->
                  CASE n = 1 -> <<intrs[k].num>>
                    [] n = 2 -> <<intrs[k].num, intrs[k].flag>>
                    [] n = 3 -> <<intrs[k].type, intrs[k].num, intrs[k].flag>>
                    [] OTHER -> <<intrs[k].type, intrs[k].num, intrs[k].flag, 0>>])

\* The interrupt number the controller gives an interrupt.
IntId(intr, n) ==
  IF n < 3 THEN intr.num
  ELSE IF intr.type = GIC_PPI THEN intr.num + PPI_OFFSET
  ELSE intr.num + SPI_OFFSET

-----------------------------------------------------------------------------
(* Where the number of cells of a node's interrupts is found: its own, or  *)
(* those of its interrupt parent, or of its parent, and so on up.  A tree  *)
(* is a function from nodes to records; 0 is no node.                      *)

\* The search ends at the first node that says, or without one at 3; no more
\* nodes than there are can be met before one is met again.
fdt_interrupt_cells(tree, node) ==
  LET f[n \in 0..Len(tree), k \in 0..Len(tree)] ==
        IF n = 0 \/ k = 0 THEN 3
        ELSE IF tree[n].icells # 0 THEN tree[n].icells
        ELSE IF tree[n].intrParent # 0 THEN f[tree[n].intrParent, k - 1]
        ELSE f[tree[n].parent, k - 1]
  IN f[node, Len(tree)]

\* The number of a timer's frame, 2 when it is not given.
fdt_frame_number(frame) == IF frame.number = Garbage THEN 2 ELSE frame.number
=============================================================================
