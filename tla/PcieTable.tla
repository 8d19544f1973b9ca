----------------------------- MODULE PcieTable -----------------------------
(***************************************************************************)
(* The VAL's view of an enumerated PCIe hierarchy (val/src/acs_pcie.c and  *)
(* the bare-metal platform/pal_baremetal/common/src/pal_pcie.c): the ECAM  *)
(* table, the list of functions built by scanning every bus, the root port *)
(* recorded for each, the look-ups tests make in them, and the comparison  *)
(* with the hierarchy the platform file describes.                         *)
(*                                                                         *)
(* A BDF is <<segment, bus, slot>>.                                        *)
(***************************************************************************)
EXTENDS PcieEnum

CONSTANT
  ListVariants(_)        \* the platform files considered for a list of functions

VARIABLES
  g_pcie_bdf_table,          \* [present, list]: present is FALSE while the pointer is NULL
  platform_hierarchy,        \* platform_pcie_device_hierarchy of the platform file
  pcie_bdf_table_list_flag   \* 1 when the list disagrees with the platform file

tableVars == <<g_pcie_bdf_table, platform_hierarchy, pcie_bdf_table_list_flag>>
pcieVars == <<enumVars, tableVars>>

UnknownBdf == <<-1, -1, -1>>   \* 0xFFFFFFFF
ZeroBdf == <<0, 0, 0>>

Seg(bdf) == bdf[1]
Bus(bdf) == bdf[2]
Slot(bdf) == bdf[3]

NoTable == [present |-> FALSE, list |-> <<>>]

-----------------------------------------------------------------------------
(* Configuration accesses.                                                 *)

\* The platform layer copies its ECAM blocks into the VAL's table.
pal_pcie_create_info_table == [i \in DOMAIN blocks |-> blocks[i]]
g_pcie_info_table == pal_pcie_create_info_table

\* The ECAM block an access goes through, 0 for PCIE_NO_MAPPING.
EcamFor(bdf) ==
  LET ecams == {i \in DOMAIN g_pcie_info_table :
                  /\ g_pcie_info_table[i].start <= Bus(bdf)
                  /\ Bus(bdf) <= g_pcie_info_table[i].end
                  /\ g_pcie_info_table[i].seg = Seg(bdf)}
  IN IF Bus(bdf) >= PCIE_MAX_BUS \/ Slot(bdf) > MaxSlot \/ ecams = {} THEN 0 ELSE Min(ecams)

\* Each of the accessors has this look-up of its own; a write without a
\* mapping is dropped, an address without one is 0.
val_pcie_read_cfg_width(bdf) == EcamFor(bdf)
val_pcie_write_cfg(bdf) == EcamFor(bdf)
val_pcie_write_cfg_width(bdf) == EcamFor(bdf)
val_pcie_get_bdf_config_addr(bdf) == EcamFor(bdf)

\* The platform layer's look-up of the same block.
pal_pcie_ecam_base(bdf) ==
  LET ecams == {i \in DOMAIN blocks : /\ blocks[i].start <= Bus(bdf)
                                      /\ Bus(bdf) <= blocks[i].end
                                      /\ blocks[i].seg = Seg(bdf)}
  IN IF ecams = {} THEN 0 ELSE Min(ecams)

\* The function that answers, 0 for PCIE_UNKNOWN_RESPONSE.
val_pcie_read_cfg(bdf) ==
  LET found == Answer(st, val_pcie_read_cfg_width(bdf), Bus(bdf), Slot(bdf)) IN
    IF val_pcie_read_cfg_width(bdf) = 0 \/ found = {} THEN 0 ELSE CHOOSE n \in found : TRUE

pal_pcie_read_cfg(bdf) ==
  LET found == Answer(st, pal_pcie_ecam_base(bdf), Bus(bdf), Slot(bdf)) IN
    IF pal_pcie_ecam_base(bdf) = 0 \/ found = {} THEN 0 ELSE CHOOSE n \in found : TRUE

val_pcie_is_host_bridge(bdf) == tree[val_pcie_read_cfg(bdf)].kind = "host"

val_pcie_function_header_type(bdf) ==
  IF tree[val_pcie_read_cfg(bdf)].kind = "bridge" THEN 1 ELSE 0

\* 1 a device, 2 a host bridge with a bridge header, 3 any other bridge.
val_pcie_get_device_type(bdf) ==
  IF val_pcie_function_header_type(bdf) = 0 THEN 1
  ELSE IF val_pcie_is_host_bridge(bdf) THEN 2 ELSE 3

\* Device/port type of the PCI Express capability.
val_pcie_device_port_type(bdf) ==
  LET n == val_pcie_read_cfg(bdf) IN
    CASE tree[n].kind = "bridge" /\ tree[n].up = 0 -> "RP"
      [] tree[n].kind = "bridge" /\ tree[n].up # 0 -> "switch"
      [] tree[n].kind # "bridge" /\ tree[n].up = 0 -> "RCiEP"
      [] OTHER -> "EP"

\* TYPE1_PBN of the function.
Sec(bdf) == st.regs[val_pcie_read_cfg(bdf)].sec
Sub(bdf) == st.regs[val_pcie_read_cfg(bdf)].sub

-----------------------------------------------------------------------------
(* Look-ups in the list of functions.                                      *)

Listed == {g_pcie_bdf_table.list[i].bdf : i \in DOMAIN g_pcie_bdf_table.list}

\* The first index of a list that satisfies a condition, 0 when none does.
First(list, Holds(_)) ==
  LET hits == {i \in DOMAIN list : Holds(list[i])} IN IF hits = {} THEN 0 ELSE Min(hits)

\* Bug: the segment of the root port is not compared.
val_pcie_get_rootport_any_segment(list, bdf) ==
  LET covers(e) == /\ val_pcie_device_port_type(e) = "RP"
                   /\ Sec(e) <= Bus(bdf) /\ Bus(bdf) <= Sub(e)
      i == First(list, covers)
  IN CASE val_pcie_device_port_type(bdf) = "RP" -> [status |-> 0, bdf |-> bdf]
       [] val_pcie_device_port_type(bdf) = "RCiEP" -> [status |-> 1, bdf |-> UnknownBdf]
       [] OTHER -> IF i = 0 THEN [status |-> 1, bdf |-> ZeroBdf]
                            ELSE [status |-> 0, bdf |-> list[i]]

\* The root port of a function; a root complex endpoint has none.
val_pcie_get_rootport(list, bdf) ==
  LET covers(e) == /\ val_pcie_device_port_type(e) = "RP"
                   /\ Sec(e) <= Bus(bdf) /\ Bus(bdf) <= Sub(e)
                   /\ Seg(e) = Seg(bdf)
      i == First(list, covers)
  IN CASE val_pcie_device_port_type(bdf) = "RP" -> [status |-> 0, bdf |-> bdf]
       [] val_pcie_device_port_type(bdf) = "RCiEP" -> [status |-> 1, bdf |-> UnknownBdf]
       [] OTHER -> IF i = 0 THEN [status |-> 1, bdf |-> ZeroBdf]
                            ELSE [status |-> 0, bdf |-> list[i]]

\* The first endpoint below a bridge, or else the first function below it.
val_pcie_get_downstream_function(list, bdf) ==
  LET below(e) == Sec(bdf) <= Bus(e) /\ Bus(e) <= Sub(bdf) /\ Seg(e) = Seg(bdf)
      type0(e) == below(e) /\ val_pcie_function_header_type(e) = 0
      i == First(list, type0)
      j == First(list, below)
  IN CASE i # 0 -> [status |-> 0, bdf |-> list[i]]
       [] i = 0 /\ j # 0 -> [status |-> 0, bdf |-> list[j]]
       [] OTHER -> [status |-> 1, bdf |-> ZeroBdf]

\* The root port whose secondary bus is the function's bus; the segment is
\* not compared.
val_pcie_parent_is_rootport(list, bdf) ==
  LET parent(e) == val_pcie_device_port_type(e) = "RP" /\ Bus(bdf) = Sec(e) /\ Bus(bdf) <= Sub(e)
      i == First(list, parent)
  IN IF i = 0 THEN [status |-> 1, bdf |-> ZeroBdf] ELSE [status |-> 0, bdf |-> list[i]]

\* The platform layer's search stops with "not found" at the first function
\* listed unless that is a root port above the bus.
pal_pcie_get_root_port_bdf(list, bdf) ==
  IF list = <<>> THEN [status |-> 1, bdf |-> bdf]
  ELSE LET e == list[1] IN
    IF /\ val_pcie_device_port_type(e) = "RP"
       /\ Sec(e) <= Bus(bdf) /\ Bus(bdf) <= Sub(e)
    THEN [status |-> 0, bdf |-> e]
    ELSE [status |-> 2, bdf |-> bdf]

\* The caller's BDF is left as it was, whatever the platform layer found.
val_pcie_get_root_port_bdf(list, bdf) ==
  [status |-> pal_pcie_get_root_port_bdf(list, bdf).status, bdf |-> bdf]

BdfList == [i \in DOMAIN g_pcie_bdf_table.list |-> g_pcie_bdf_table.list[i].bdf]

\* The ECAM a function belongs to: a device takes the first one of its
\* segment, a bridge the first that holds its secondary..subordinate range.
val_pcie_get_ecam_base(bdf) ==
  LET mine(e) == /\ e.seg = Seg(bdf)
                 /\ \/ val_pcie_function_header_type(bdf) = 0
                    \/ Sec(bdf) >= e.start /\ Sub(bdf) <= e.end
  IN First(g_pcie_info_table, mine)

val_pcie_get_ecam_index(bdf) ==
  LET mine(e) == /\ e.seg = Seg(bdf) /\ e.start <= Bus(bdf) /\ Bus(bdf) <= e.end
                 /\ \/ val_pcie_function_header_type(bdf) = 0
                    \/ Sec(bdf) >= e.start /\ Sub(bdf) <= e.end
  IN First(g_pcie_info_table, mine)

\* The BDF after this one, over all ECAMs; ZeroBdf at the end.
val_pcie_increment_bdf(bdf) ==
  LET ecams == {i \in DOMAIN g_pcie_info_table : g_pcie_info_table[i].seg = Seg(bdf)}
      i == Max(ecams)
  IN CASE ecams = {} -> ZeroBdf
       [] ecams # {} /\ Slot(bdf) < MaxSlot -> <<Seg(bdf), Bus(bdf), Slot(bdf) + 1>>
       [] ecams # {} /\ Slot(bdf) = MaxSlot /\ Bus(bdf) < g_pcie_info_table[i].end ->
            <<Seg(bdf), Bus(bdf) + 1, 0>>
       [] OTHER -> IF i + 1 \in DOMAIN g_pcie_info_table
                   THEN <<g_pcie_info_table[i + 1].seg, g_pcie_info_table[i + 1].start, 0>>
                   ELSE ZeroBdf

\* The functions printed under an ECAM.
val_pcie_print_device_info(i) ==
  LET e == g_pcie_info_table[i] IN
    {b \in Listed : val_pcie_get_ecam_base(b) = i /\ e.start <= Bus(b) /\ Bus(b) <= e.end}

-----------------------------------------------------------------------------
(* The tables.                                                             *)

\* Every BDF of every ECAM, in the order of the nested loops.
BdfsOf(e) ==
  [k \in 1..((e.end - e.start + 1) * (MaxSlot + 1)) |->
     <<e.seg, e.start + ((k - 1) \div (MaxSlot + 1)), (k - 1) % (MaxSlot + 1)>>]

AllBdfs == FlattenSeq([i \in DOMAIN blocks |-> BdfsOf(blocks[i])])

Probed(bdf) == val_pcie_read_cfg(bdf) # 0 /\ ~val_pcie_is_host_bridge(bdf)

\* Root ports are filled in once the list is complete.
val_pcie_populate_device_rootport(bdfs) ==
  [i \in DOMAIN bdfs |-> [bdf |-> bdfs[i], rp_bdf |-> val_pcie_get_rootport(bdfs, bdfs[i]).bdf]]

\* The list of PCIe functions. A BDF without mapping ends the scan with an
\* error and leaves the list as far as it got, without root ports.
val_pcie_create_device_bdf_table(alloc) ==
  LET all == AllBdfs
      unmapped(b) == val_pcie_read_cfg_width(b) = 0
      stop == First(all, unmapped)
      scanned == IF stop = 0 THEN all ELSE SubSeq(all, 1, stop - 1)
      lists(b) == Probed(b) /\ tree[val_pcie_read_cfg(b)].pcie
      found == SelectSeq(scanned, lists)
  IN CASE g_pcie_bdf_table.present -> [status |-> 0, table |-> g_pcie_bdf_table, on |-> <<>>]
       [] ~g_pcie_bdf_table.present /\ ~alloc -> [status |-> 1, table |-> NoTable, on |-> <<>>]
       [] OTHER ->
            [status |-> IF stop = 0 THEN 0 ELSE 1,
             table |-> [present |-> TRUE,
                        list |-> IF stop = 0 THEN val_pcie_populate_device_rootport(found)
                                 ELSE [i \in DOMAIN found |->
                                         [bdf |-> found[i], rp_bdf |-> ZeroBdf]]],
             on |-> SelectSeq(scanned, Probed)]

\* 0 when the platform file and the list name the same functions with the
\* same vendor, device and class.
pal_pcie_check_device_list(list, h) ==
  LET matched(d) ==
        LET same(b) == b = d.bdf
            i == First(list, same)
        IN i # 0 /\ tree[pal_pcie_read_cfg(list[i])].id = d.id
  IN IF Len(h) # Len(list) THEN 1
     ELSE IF \A k \in DOMAIN h : matched(h[k]) THEN 0 ELSE 1

\* The platform layer answers questions about a function from its file.
Described(h, bdf, attribute, default) ==
  LET is(d) == d.bdf = bdf
      i == First(h, is)
  IN IF i = 0 THEN default ELSE h[i].attr[attribute]

pal_pcie_is_device_behind_smmu(h, bdf) == Described(h, bdf, "behind_smmu", 0)
pal_pcie_get_dma_support(h, bdf) == Described(h, bdf, "dma_support", 2)
pal_pcie_get_dma_coherent(h, bdf) == Described(h, bdf, "dma_coherent", 2)
pal_pcie_dev_p2p_support(h, bdf) == Described(h, bdf, "p2p_support", 1)
pal_pcie_is_devicedma_64bit(h, bdf) == Described(h, bdf, "dma_64bit", 0)
pal_pcie_is_cache_present(h, bdf) == Described(h, bdf, "atc_present", 0)

TableInit ==
  /\ g_pcie_bdf_table = NoTable
  /\ platform_hierarchy = <<>>
  /\ pcie_bdf_table_list_flag = 0

\* The platform layer copies its ECAM blocks; the VAL lists the functions,
\* enabling memory accesses and bus mastering of each, and has the list
\* compared with the platform file.
val_pcie_create_info_table ==
  /\ ~enumerate
  /\ \E made \in {val_pcie_create_device_bdf_table(alloc) : alloc \in BOOLEAN} :
       LET bdfs == [i \in DOMAIN made.table.list |-> made.table.list[i].bdf]
           on == {val_pcie_read_cfg(made.on[i]) : i \in DOMAIN made.on}
       IN /\ g_pcie_bdf_table' = made.table
          /\ st' = [st EXCEPT !.regs =
                      [n \in Nodes |-> IF n \in on THEN [st.regs[n] EXCEPT !.command = TRUE]
                                                     ELSE st.regs[n]]]
          /\ \E h \in IF g_pcie_bdf_table.present \/ ~made.table.present
                      THEN {platform_hierarchy} ELSE ListVariants(bdfs) :
               /\ platform_hierarchy' = h
               /\ pcie_bdf_table_list_flag' =
                    IF made.status = 0 /\ pal_pcie_check_device_list(bdfs, h) # 0
                    THEN 1 ELSE pcie_bdf_table_list_flag
  /\ UNCHANGED <<tree, blocks, enumerate>>

-----------------------------------------------------------------------------
TableInitialised ==
  g_pcie_bdf_table.present /\ \A i \in DOMAIN blocks : blocks[i].end < PCIE_MAX_BUS

\* The BDF of a function of the hierarchy.
BdfOf(n) == <<blocks[tree[n].ecam].seg, BusOf(st, n), tree[n].slot>>

RECURSIVE Ancestors(_)
Ancestors(n) == IF tree[n].up = 0 THEN {} ELSE {tree[n].up} \cup Ancestors(tree[n].up)

\* The list holds every PCIe function of every ECAM exactly once, legacy
\* functions and host bridges left out, and each of them decodes memory and
\* masters the bus (val_pcie_create_device_bdf_table: scan, filters, BME/MSA).
TableListsEveryFunction ==
  TableInitialised /\ BusesSuffice =>
    /\ Listed = {BdfOf(n) : n \in {m \in Nodes : tree[m].kind # "host" /\ tree[m].pcie}}
    /\ Len(g_pcie_bdf_table.list) = Cardinality(Listed)
    /\ \A b \in Listed : st.regs[val_pcie_read_cfg(b)].command

\* The root port recorded for a function is the one it hangs below, in its
\* own segment; a root port is its own, a root complex endpoint has none; and
\* the function reported downstream of a bridge is below it, an endpoint when
\* there is one (val_pcie_get_rootport, val_pcie_get_downstream_function).
RootportIsAbove ==
  TableInitialised /\ BusesSuffice =>
    \A i \in DOMAIN g_pcie_bdf_table.list :
      LET e == g_pcie_bdf_table.list[i]
          n == val_pcie_read_cfg(e.bdf)
          port == {m \in Ancestors(n) : tree[m].up = 0 /\ tree[m].pcie}
          below == {m \in Nodes : n \in Ancestors(m) /\ tree[m].pcie /\ tree[m].kind # "host"}
          down == val_pcie_get_downstream_function(BdfList, e.bdf)
      IN /\ CASE tree[n].kind = "bridge" /\ tree[n].up = 0 -> e.rp_bdf = e.bdf
              [] tree[n].kind # "bridge" /\ tree[n].up = 0 -> e.rp_bdf = UnknownBdf
              [] OTHER -> e.rp_bdf \in
                            IF port = {} THEN {ZeroBdf} ELSE {BdfOf(m) : m \in port}
         /\ tree[n].kind = "bridge" =>
              IF below = {} THEN down.status = 1
              ELSE /\ down.status = 0
                   /\ val_pcie_read_cfg(down.bdf) \in below
                   /\ (\E m \in below : tree[m].kind = "endpoint") =>
                        tree[val_pcie_read_cfg(down.bdf)].kind = "endpoint"

\* No segment is split over several ECAMs.
OneEcamPerSegment ==
  \A i, j \in DOMAIN blocks : blocks[i].seg = blocks[j].seg => i = j

\* Where no segment is split, the three ways the code finds the ECAM of a
\* function agree: by its bus (val_pcie_read_cfg_width), by its header type
\* (val_pcie_get_ecam_base) and by both (val_pcie_get_ecam_index); a function is
\* printed under exactly that ECAM (val_pcie_print_device_info); and the successor function visits every BDF of every ECAM in order and then ends
\* (val_pcie_increment_bdf).
EcamLookupsAgree ==
  TableInitialised /\ BusesSuffice /\ OneEcamPerSegment =>
    /\ \A b \in Listed : /\ val_pcie_get_ecam_base(b) = val_pcie_read_cfg_width(b)
                          /\ val_pcie_get_ecam_index(b) = val_pcie_read_cfg_width(b)
                          /\ pal_pcie_ecam_base(b) = val_pcie_read_cfg_width(b)
                          /\ val_pcie_write_cfg_width(b) = val_pcie_read_cfg_width(b)
                          /\ val_pcie_write_cfg(b) = val_pcie_read_cfg_width(b)
                          /\ val_pcie_get_bdf_config_addr(b) = val_pcie_read_cfg_width(b)
                          /\ {i \in DOMAIN blocks : b \in val_pcie_print_device_info(i)}
                               = {val_pcie_read_cfg_width(b)}
    /\ LET all == AllBdfs IN
         \A k \in DOMAIN all :
           val_pcie_increment_bdf(all[k]) = IF k = Len(all) THEN ZeroBdf ELSE all[k + 1]

\* When the comparison with the platform file passes and the file names no
\* function twice, the file names exactly the functions found, each with the
\* identity the hardware shows, so that every question about a listed
\* function is answered from its own entry (pal_pcie_check_device_list and
\* the pal_pcie_* queries).
ListCheckIsExact ==
  TableInitialised /\ g_pcie_bdf_table.list # <<>> /\ pcie_bdf_table_list_flag = 0
  /\ IsInjective([k \in DOMAIN platform_hierarchy |-> platform_hierarchy[k].bdf]) =>
    /\ {platform_hierarchy[k].bdf : k \in DOMAIN platform_hierarchy} = Listed
    /\ \A k \in DOMAIN platform_hierarchy :
         LET d == platform_hierarchy[k] IN
           /\ d.id = tree[val_pcie_read_cfg(d.bdf)].id
           /\ pal_pcie_get_dma_support(platform_hierarchy, d.bdf) = d.attr["dma_support"]
           /\ pal_pcie_get_dma_coherent(platform_hierarchy, d.bdf) = d.attr["dma_coherent"]

\* The list and the platform file describe the hierarchy exactly: both of the
\* above (val_pcie_create_device_bdf_table, pal_pcie_check_device_list).
TableIsExact == TableListsEveryFunction /\ ListCheckIsExact

\* Root ports, downstream functions and ECAMs are found where they are: both
\* of the above (val_pcie_get_rootport, val_pcie_get_ecam_index and the rest).
LookupsAreRight == RootportIsAbove /\ EcamLookupsAgree

\* What the tests ask about the hierarchy is answered as it is: both of the
\* above, after every enumeration and for every platform file.
HierarchyIsKnown == TableIsExact /\ LookupsAreRight
=============================================================================
