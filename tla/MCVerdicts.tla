----------------------------- MODULE MCVerdicts -----------------------------
(* Inputs of Verdicts.                                                      *)
EXTENDS Verdicts

\* The facts a payload tells apart; FunctionKind are the kinds a function may have.
FunctionKind == {"RP", "RCiEP", "EP"}
NodeKind == {"IOMMU", "RC"}
FunctionFacts ==
  [p004 |-> {"RRS"}, p010 |-> {"ACS", "SV", "TB"}, p011 |-> {"mem_bar", "ACS", "EC"},
   p012 |-> {"MSI", "MSIX", "int_pin"}, p013 |-> {"PTM"}, p014 |-> {"AER"}, p015 |-> {"DPC"},
   p016 |-> {"DPC", "RP_EXT"}, p017 |-> {"AER"}, p018 |-> {"ACS", "AER"}, p019 |-> {"AER", "RCECEA"},
   p021 |-> {"IOMMU", "invalid_cap"}, p022 |-> {"io_bar", "EA", "int_pin"}, p023 |-> {"SRIOV", "MSIX"},
   p024 |-> {"PASID", "narrow"}, p025 |-> {"mem_bar", "bar64"},
   iom002 |-> {"governed"}, iom003 |-> {"governed", "MSI_FLAT", "LVL_3"},
   iom011 |-> {"ATS", "governed", "iommu_ATS"}, iom024 |-> {"iommu_class"}]
NodeFacts ==
  [iom001 |-> {"VERSION_1_0"}, iom005 |-> {"sv39", "sv48"}, iom008 |-> {"MSI_MRIF", "AMO_MRIF"},
   iom013 |-> {"IGS_MSI", "IGS_BOTH"}, iom014 |-> {"BE", "BE_writeable"}, iom017 |-> {"PD8", "PD17", "PD20"},
   iom019 |-> {"HPM", "counters_40", "iocountovf", "iocountinh"}, iom022 |-> {}]

Entries(kinds, facts) == {{k} \cup s : k \in kinds, s \in SUBSET facts}
Tables(set) == UNION {[1..n -> set] : n \in 0..(IF Cardinality(set) > 6 THEN 2 ELSE 3)}
Runs(p, modes, tables) == {[payload |-> p, mode |-> m, table |-> t] : m \in modes, t \in tables}

FunctionRuns == UNION {Runs(p, {"sv39"}, Tables(Entries(FunctionKind, FunctionFacts[p]))) : p \in DOMAIN FunctionFacts}
NodeRuns ==
  UNION {Runs(p, IF p \in NeedsMode THEN {"none", "sv39", "sv48", "sv64"} ELSE {"sv39"},
              Tables(Entries(NodeKind, NodeFacts[p]))) : p \in DOMAIN NodeFacts}

\* Two IOMMUs, then root complexes of two segments with one or two mappings.
GoverningTables ==
  UNION {[governs : UNION {[1..r -> 0..n] : r \in 0..2}, nodes : [1..n -> {"good", "bad", "none"}]] : n \in 1..3}
SegmentTables ==
  {<<[kind |-> "iommu", lvl3 |-> a], [kind |-> "iommu", lvl3 |-> b],
     [kind |-> "rc", seg |-> 0, dest |-> d], [kind |-> "rc", seg |-> s, dest |-> e]>> :
     a, b \in BOOLEAN, s \in 0..1, d, e \in {<<1>>, <<2>>, <<1, 2>>, <<2, 1>>}}

GovernedRuns == Runs("iom004", {"sv39"}, GoverningTables) \cup Runs("iom026", {"sv39"}, SegmentTables)

VerdictInputs == VerdictInit(FunctionRuns) \/ VerdictInit(NodeRuns) \/ VerdictInit(GovernedRuns)
VerdictIdle == VerdictInit(Runs("p004", {"sv39"}, {<<>>}))

GovernedSpec == VerdictInit(GovernedRuns) /\ [][RunPayload]_verdictVars
=============================================================================
