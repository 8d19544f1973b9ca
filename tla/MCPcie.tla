------------------------------- MODULE MCPcie -------------------------------
(***************************************************************************)
(* Inputs of PcieEnum, PcieTable and PcieCfg: a hierarchy that is          *)
(* enumerated and listed, the status registers of one function, or a       *)
(* register with its bit-field table. Inputs of Exerciser: hosts to search *)
(* for cards, and hosts with a card whose DMA, trace or registers are      *)
(* used. Inputs of PciePorts: tables of root ports.                        *)
(***************************************************************************)
EXTENDS PcieTable, PcieCfg, Exerciser, PciePorts

\* Every tree shape of n functions: parent p[i] < i, slots filled in order, a
\* function with something below it is a bridge.
TreeShapes(n) ==
  {p \in [1..n -> 0..(n - 1)] : \A i \in 1..n : p[i] < i}

Inner(p) == {p[i] : i \in DOMAIN p} \ {0}

SlotOf(p, i) == Cardinality({j \in 1..(i - 1) : p[j] = p[i]})

Hierarchy(p, leaf, bar, ecam) ==
  [i \in DOMAIN p |->
     [pcie |-> TRUE, id |-> i, ecam |-> ecam[i], up |-> p[i], slot |-> SlotOf(p, i),
      kind |-> IF i \in Inner(p) THEN "bridge" ELSE leaf[i],
      bars |-> bar[i]]]

NoBars(n) == [i \in 1..n |-> <<>>]
OneEcam(n) == [i \in 1..n |-> 1]

NumberingTrees(n) ==
  {Hierarchy(p, leaf, NoBars(n), OneEcam(n)) :
     p \in TreeShapes(n), leaf \in [1..n -> {"bridge", "endpoint"}]}

HostTrees == {t \in UNION {
  {Hierarchy(p, leaf, NoBars(3), OneEcam(3)) :
     p \in TreeShapes(3), leaf \in [1..3 -> {"bridge", "endpoint", "host"}]}} :
  \E i \in DOMAIN t : t[i].kind = "host"}

BarOf(k, n) == [pool |-> k, size |-> n]

BarLists ==
  {<<BarOf("np", 1)>>, <<BarOf("np", 1), BarOf("np", 4)>>, <<BarOf("np", 2), BarOf("np", 1), BarOf("p", 8)>>,
   <<BarOf("p", 1), BarOf("p", 2), BarOf("np", 0)>>, <<BarOf("p64", 2), BarOf("p64", 8), BarOf("np", 1)>>}

BarTrees(n) ==
  {t \in {Hierarchy(p, leaf, bar, OneEcam(n)) :
     p \in TreeShapes(n), leaf \in [1..n -> {"endpoint"}], bar \in [1..n -> BarLists]} :
   \A i \in DOMAIN t : t[i].kind = "bridge" => t[i].bars \in {<<BarOf("np", 1)>>, <<BarOf("p64", 2), BarOf("p64", 8), BarOf("np", 1)>>}}

\* The first function is behind the first ECAM.
TwoEcamTrees ==
  {t \in {Hierarchy(p, leaf, NoBars(4), ecam) :
     p \in TreeShapes(4), leaf \in [1..4 -> {"bridge", "endpoint"}], ecam \in [1..4 -> {1, 2}]} :
   t[1].ecam = 1 /\ \A i \in DOMAIN t : t[i].up # 0 => t[i].ecam = t[t[i].up].ecam}

\* Functions without a PCI Express capability.
LegacyTrees ==
  {[i \in DOMAIN t |-> [t[i] EXCEPT !.pcie = i \notin legacy]] :
     t \in NumberingTrees(3), legacy \in SUBSET (1..3)}

MCTrees == LegacyTrees \cup NumberingTrees(4) \cup HostTrees \cup BarTrees(3) \cup TwoEcamTrees

MCLayouts ==
  {<<[seg |-> 0, start |-> 0, end |-> 5]>>,
   <<[seg |-> 0, start |-> 0, end |-> 4], [seg |-> 0, start |-> 5, end |-> 9]>>,
   <<[seg |-> 0, start |-> 0, end |-> 4], [seg |-> 1, start |-> 0, end |-> 4]>>,
   <<[seg |-> 0, start |-> 9, end |-> 12]>>}

\* A tree uses every ECAM of its layout, with a bridge in each where there are
\* two; the layout past PCIE_MAX_BUS goes with the smallest trees only.
Fits ==
  /\ {tree[n].ecam : n \in Nodes} = DOMAIN blocks
  /\ Len(blocks) = 2 => {tree[n].ecam : n \in Bridges} = DOMAIN blocks
  /\ blocks[1].start = 9 => Len(tree) = 3 /\ \A n \in Nodes : tree[n].bars = <<>>

MCAttributes == {"behind_smmu", "dma_support", "dma_coherent", "p2p_support", "dma_64bit",
                 "atc_present"}

ListEntry(b, id) == [bdf |-> b, id |-> id, attr |-> [a \in MCAttributes |-> Slot(b) % 2]]

\* The platform file is right, reordered, one short, misses the identity of
\* its last function, or names the first function twice.
MCListVariants(bdfs) ==
  LET right == [i \in DOMAIN bdfs |-> ListEntry(bdfs[i], tree[val_pcie_read_cfg(bdfs[i])].id)]
      n == Len(right)
  IN IF Len(tree) > 3 \/ n = 0 \/ \E m \in Nodes : tree[m].bars # <<>> THEN {right}
     ELSE {right, Reverse(right), Front(right), [right EXCEPT ![n].id = 0],
           [right EXCEPT ![n] = right[1]], Append(right, ListEntry(<<0, 4, 1>>, 9))}

Plain == [head |-> 1, at |-> <<[cid |-> "MSIX", next |-> 2, word |-> 0],
                               [cid |-> "PCIECS", next |-> 0, word |-> 1]>>]

Kinds == {k \in [{"f0", "f1", "s", "r"} -> {"ro", "rw", "w1c"}] : k["s"] = "w1c" /\ k["r"] = "rw"}

\* The attributes the check tells apart; HW_INIT, STICKY_RO and STICKY_RW
\* share a case with the one that stands for them.
Tested == {"READ_ONLY", "RSVDP_RO", "RSVDZ_RO", "READ_WRITE"}

FieldEntry(mask, cfg, attr, cid, warn, applies) ==
  [mask |-> mask, cfg |-> cfg, attr |-> attr, cid |-> cid, warn1 |-> warn, warn2 |-> warn,
   applies |-> applies]

OneEntry ==
  UNION {{<<FieldEntry(m, c, a, "PCIECS", FALSE, TRUE)>> : c \in SUBSET m, a \in Tested} :
           m \in {{"f0"}, {"f0", "f1"}}}

TwoEntries ==
  {<<FieldEntry({"f0"}, {"f0"}, a, cid, warn, TRUE), FieldEntry({"f1"}, {}, "READ_WRITE", "PCIECS", FALSE, applies)>> :
     a \in {"HW_INIT", "STICKY_RW"}, cid \in {"PCIECS", "absent"}, warn \in BOOLEAN, applies \in BOOLEAN}

MCFieldCases ==
  [field : [kind : Kinds, reg : {{}, {"f0"}, {"f0", "f1", "s", "r"}}],
   entries : {<<>>} \cup OneEntry \cup TwoEntries]

ASSUME CasesAreMeant == MCFieldCases \subseteq FieldCases({"f0", "f1", "s", "r"}, {"PCIECS", "absent"})

AnyCase == CHOOSE c \in MCFieldCases : c.entries = <<>>

OneTree == CHOOSE t \in NumberingTrees(3) : TRUE

OneBlock == <<[seg |-> 0, start |-> 0, end |-> 5]>>

HierarchyInit == TableInit /\ EnumInit(MCTrees, MCLayouts) /\ Fits /\ CfgInit({Plain}, {AnyCase})

StatusInit == TableInit /\ EnumInit({OneTree}, {OneBlock}) /\ CfgInit({Plain}, {AnyCase})

FieldInit == TableInit /\ EnumInit({OneTree}, {OneBlock}) /\ CfgInit({Plain}, MCFieldCases)

HierarchyStep ==
  /\ \/ pal_pcie_enumerate /\ UNCHANGED tableVars
     \/ val_bsa_pcie_enumerate /\ UNCHANGED tableVars
     \/ val_pcie_create_info_table
  /\ UNCHANGED cfgVars

StatusStep == StatusNext /\ UNCHANGED pcieVars

FieldStep == FieldNext /\ UNCHANGED pcieVars

-----------------------------------------------------------------------------
(* Exerciser cards.                                                        *)

Ecam(seg, start, end, base) == [seg |-> seg, start |-> start, end |-> end, base |-> base]
Fn(seg, bus, exerciser, list) ==
  [seg |-> seg, bus |-> bus, exerciser |-> exerciser, caps |-> list,
   bars |-> [n \in 0..5 |-> IF n = 0 THEN "mem" ELSE "io"]]

\* One or two ECAMs; two or three functions, one of them maybe where no ECAM decodes.
EcamLists == {<<Ecam(0, 0, 3, 0)>>, <<Ecam(0, 0, 1, 0), Ecam(0, 2, 3, 100)>>, <<Ecam(0, 0, 3, 0), Ecam(1, 0, 3, 100)>>}
SearchHosts ==
  {[build |-> b, ecams |-> e, functions |-> <<Fn(0, 0, x, <<>>), Fn(0, bus, y, <<>>), Fn(seg, 1, z, <<>>)>>] :
     b \in {"acpi", "dt", "bm"}, e \in EcamLists, x, y, z \in BOOLEAN, bus \in {2, 9}, seg \in {0, 1}}
CardHost(build, list) ==
  [build |-> build, ecams |-> <<Ecam(0, 0, 3, 0)>>, functions |-> <<Fn(0, 0, TRUE, list), Fn(0, 1, TRUE, <<"PASID">>)>>]
DmaHosts == {CardHost(b, <<"DVSEC", "PASID">>) : b \in {"acpi", "bm"}} \cup {CardHost("dt", <<>>)}
TraceHosts == {CardHost("bm", <<"DVSEC">>)}
ReadHosts == {CardHost(b, <<"PASID">>) : b \in {"acpi", "dt", "bm"}}

DmaCalls(i) ==
  \/ \E addr \in {1, 5} : val_exerciser_set_param("DMA_ATTRIBUTES", addr, 1, i)
  \/ val_exerciser_set_param("CFG_TXN_ATTRIBUTES", "TXN_REQ_ID", 7, i)
  \/ val_exerciser_set_param("CFG_TXN_ATTRIBUTES", "TXN_REQ_ID_VALID", 0, i)
  \/ val_exerciser_set_param("CFG_TXN_ATTRIBUTES", "TXN_ADDR_TYPE", 3, i)
  \/ \E d \in Directions : val_exerciser_ops("START_DMA", d, 0, i)
  \/ \E op \in {"PASID_TLP_START", "PASID_TLP_STOP", "ATS_TXN_REQ"} : val_exerciser_ops(op, 3, 1, i)
  \/ \E op \in {"TXN_NO_SNOOP_ENABLE", "TXN_NO_SNOOP_DISABLE"} : val_exerciser_ops(op, 0, 0, i)

TraceCalls ==
  \/ \E op \in {"START_TXN_MONITOR", "STOP_TXN_MONITOR"} : val_exerciser_ops(op, 0, 0, 1)
  \/ \E kind \in 0..1 : Observe(Card(1), kind)
  \/ \E garbage \in 0..1 : test_sequence_check(1, garbage)

OtherCalls(i) ==
  \/ \E op \in {"GENERATE_MSI", "GENERATE_L_INTR", "CLEAR_INTR", "MEM_READ", "INJECT_ERROR"} :
       val_exerciser_ops(op, {i}, 0, i)
  \/ val_exerciser_set_param("PASID_ATTRIBUTES", 20, 0, i)
  \/ val_exerciser_set_param("ERROR_INJECT_TYPE", 7, 1, i)
  \/ \E type \in {"DMA_ATTRIBUTES", "PASID_ATTRIBUTES", "LEGACY_IRQ", "MSIX_ATTRIBUTES",
                   "ATS_RES_ATTRIBUTES", "TRANSACTION_TYPE"} : val_exerciser_get_param(type, 0, i)
  \/ \E type \in {"EXERCISER_DATA_CFG_SPACE", "EXERCISER_DATA_BAR0_SPACE", "EXERCISER_DATA_MMIO_SPACE"} :
       val_exerciser_get_data(type, i)

\* The second card is there for what a call on one card may do to another.
SecondCalls ==
  \/ \E op \in {"GENERATE_MSI", "GENERATE_L_INTR"} : val_exerciser_ops(op, {2}, 0, 2)
  \/ \E type \in {"LEGACY_IRQ", "MSIX_ATTRIBUTES"} : val_exerciser_get_param(type, 0, 2)
  \/ val_exerciser_get_data("EXERCISER_DATA_CFG_SPACE", 2)

ExerciserStep ==
  \/ \E skip \in BOOLEAN : val_exerciser_execute_tests(skip)
  \/ host \in DmaHosts /\ (DmaCalls(1) \/ val_exerciser_ops("START_DMA", "EDMA_FROM_DEVICE", 0, 2))
  \/ host \in TraceHosts /\ cards.stage = "tests" /\ TraceCalls
  \/ host \in ReadHosts /\ (OtherCalls(1) \/ SecondCalls \/ \E i \in 1..2 : val_exerciser_init(i))

Hosts == SearchHosts \cup DmaHosts \cup TraceHosts \cup ReadHosts
OneHost == CardHost("bm", <<"DVSEC">>)

-----------------------------------------------------------------------------
(* Root ports.                                                             *)

\* Windows of no, one and three megabytes; upper halves of zero, one and
\* sixteen, with the limit in the same or in the next block.
Np(b, l) == [base |-> b, lim |-> l]
Pw(b, l, bu, lu) == [base |-> b, lim |-> l, bu |-> bu, lu |-> lu]
PortOf(behind, wide, offset) == [behind |-> behind, wide |-> wide, offset |-> offset]
OnePort(behind, wide, offset, np, p, up) == [port |-> PortOf(behind, wide, offset), win |-> [np |-> np, p |-> p], up |-> up]

Nps == {Np(0, 0), Np(1, 1), Np(1, 3)}
Narrow == {Pw(0, 0, 0, 0), Pw(5, 5, 0, 0), Pw(5, 7, 0, 0)}
Wides == {Pw(5, 7, 1, 1), Pw(0, 0, 1, 2), Pw(4, 6, 16, 16)}
PortCases ==
  {OnePort(TRUE, FALSE, 1, n, p, TRUE) : n \in Nps, p \in Narrow}
  \cup {OnePort(TRUE, TRUE, 1, n, p, TRUE) : n \in Nps, p \in Wides}
  \cup {OnePort(TRUE, FALSE, 3, Np(1, 1), Pw(5, 7, 0, 0), TRUE), OnePort(TRUE, FALSE, 1, Np(3, 1), Pw(7, 5, 0, 0), TRUE),
        OnePort(FALSE, FALSE, 1, Np(1, 3), Pw(5, 7, 0, 0), TRUE), OnePort(TRUE, FALSE, 1, Np(1, 3), Pw(5, 7, 0, 0), FALSE)}

PortTable(s) ==
  [ports |-> [i \in DOMAIN s |-> s[i].port], win |-> [i \in DOMAIN s |-> s[i].win], linkUp |-> [i \in DOMAIN s |-> s[i].up]]

PortInputs == PortInit({PortTable(s) : s \in UNION {[1..n -> PortCases] : n \in 0..2}})
PortIdle == PortInit({PortTable(<<>>)})
=============================================================================
