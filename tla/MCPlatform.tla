----------------------------- MODULE MCPlatform -----------------------------
(***************************************************************************)
(* What the suite learns about the platform before a test runs, the PCIe   *)
(* services that rest on it, and the payloads that walk its tables. The    *)
(* tables are built one after another and none reads another while it is   *)
(* built, so a behaviour builds and uses the one named by part.            *)
(***************************************************************************)
EXTENDS MCPcie, MCTables, BmHeap, MCVerdicts

VARIABLE part

parts == <<part, pcieVars, cfgVars, iovirtVars, rimtVars, exerciserVars, timerVars, gicVars, hartVars, memVars, perVars, heapVars,
           verdictVars, portVars>>

ExerciserIdle == ExerciserInit({OneHost})

PartInit ==
  \/ /\ part \in {"hierarchy", "status", "field"}
     /\ CASE part = "hierarchy" -> HierarchyInit [] part = "status" -> StatusInit [] OTHER -> FieldInit
     /\ IovirtIdle /\ IommuIdle /\ ExerciserIdle /\ TimerIdle /\ GicIdle /\ HartIdle /\ MemIdle /\ PerIdle
  \/ /\ part \in {"iovirt", "iommu"}
     /\ IF part = "iovirt" THEN IovirtInputs /\ IommuIdle ELSE IovirtIdle /\ IommuInputs
     /\ StatusInit /\ ExerciserIdle /\ TimerIdle /\ GicIdle /\ HartIdle /\ MemIdle /\ PerIdle
  \/ /\ part = "exerciser" /\ ExerciserInit(Hosts)
     /\ StatusInit /\ IovirtIdle /\ IommuIdle /\ TimerIdle /\ GicIdle /\ HartIdle /\ MemIdle /\ PerIdle
  \/ /\ part \in {"timers", "gic", "harts"}
     /\ CASE part = "timers" -> TimerInputs /\ GicIdle /\ HartIdle
          [] part = "gic" -> TimerIdle /\ GicInputs /\ HartIdle
          [] OTHER -> TimerIdle /\ GicIdle /\ HartInputs
     /\ StatusInit /\ IovirtIdle /\ IommuIdle /\ ExerciserIdle /\ MemIdle /\ PerIdle
  \/ /\ part \in {"memory", "peripherals"}
     /\ IF part = "memory" THEN MemInit(MemSources) /\ PerIdle ELSE MemIdle /\ PerInit(PerSources)
     /\ StatusInit /\ IovirtIdle /\ IommuIdle /\ ExerciserIdle /\ TimerIdle /\ GicIdle /\ HartIdle
  \/ /\ part \in {"heap", "verdicts", "ports"}
     /\ StatusInit /\ IovirtIdle /\ IommuIdle /\ ExerciserIdle /\ TimerIdle /\ GicIdle /\ HartIdle /\ MemIdle /\ PerIdle

PlatformInit ==
  /\ PartInit
  /\ HeapInit
  /\ IF part = "verdicts" THEN VerdictInputs ELSE VerdictIdle
  /\ IF part = "ports" THEN PortInputs ELSE PortIdle

NoPcie == UNCHANGED <<pcieVars, cfgVars>>
NoTables == UNCHANGED <<iovirtVars, rimtVars>>
NoInfo == UNCHANGED <<timerVars, gicVars, hartVars, memVars, perVars>>

\* Alignments that are no powers of two, sizes whose product passes Uint32.
HeapStep == HeapNext({0, 3, 4}, {0, 1, 3})

TableNext ==
  \/ part = "hierarchy" /\ HierarchyStep /\ NoTables /\ UNCHANGED exerciserVars /\ NoInfo
  \/ part = "status" /\ StatusStep /\ NoTables /\ UNCHANGED exerciserVars /\ NoInfo
  \/ part = "field" /\ FieldStep /\ NoTables /\ UNCHANGED exerciserVars /\ NoInfo
  \/ part = "iovirt" /\ val_iovirt_create_info_table /\ NoPcie /\ UNCHANGED <<rimtVars, exerciserVars>> /\ NoInfo
  \/ part = "iommu" /\ IommuStep /\ NoPcie /\ UNCHANGED <<iovirtVars, exerciserVars>> /\ NoInfo
  \/ part = "exerciser" /\ ExerciserStep /\ NoPcie /\ NoTables /\ NoInfo
  \/ part = "timers" /\ TimerStep /\ NoPcie /\ NoTables /\ UNCHANGED <<exerciserVars, gicVars, hartVars, memVars, perVars>>
  \/ part = "gic" /\ GicStep /\ NoPcie /\ NoTables /\ UNCHANGED <<exerciserVars, timerVars, hartVars, memVars, perVars>>
  \/ part = "harts" /\ HartStep /\ NoPcie /\ NoTables /\ UNCHANGED <<exerciserVars, timerVars, gicVars, memVars, perVars>>
  \/ /\ part = "memory" /\ val_memory_create_info_table
     /\ NoPcie /\ NoTables /\ UNCHANGED <<exerciserVars, timerVars, gicVars, hartVars, perVars>>
  \/ /\ part = "peripherals" /\ val_peripheral_create_info_table
     /\ NoPcie /\ NoTables /\ UNCHANGED <<exerciserVars, timerVars, gicVars, hartVars, memVars>>

PlatformNext ==
  /\ UNCHANGED part
  /\ \/ TableNext /\ UNCHANGED <<heapVars, verdictVars, portVars>>
     \/ /\ NoPcie /\ NoTables /\ UNCHANGED exerciserVars /\ NoInfo
        /\ \/ part = "heap" /\ HeapStep /\ UNCHANGED <<verdictVars, portVars>>
           \/ part = "verdicts" /\ RunPayload /\ UNCHANGED <<heapVars, portVars>>
           \/ part = "ports" /\ PortNext /\ UNCHANGED <<heapVars, verdictVars>>

\* The memory table answers for the memory map and the peripheral table for
\* the controllers and UARTs there are (MemoryIsRight, PeripheralsAreRight;
\* val_memory_create_info_table, val_peripheral_create_info_table).
MapAndPeripheralsAreRight == MemoryIsRight /\ PeripheralsAreRight

\* The IORT and the RIMT tables lead every requester to its ids and to the
\* SMMU or IOMMU that serves it, and the registers of an IOMMU keep what was
\* written (IovirtIsRight, IommusAreRight; val_iovirt_create_info_table,
\* val_iommu_create_info_table and the accessors).
IoTablesAreRight == IovirtIsRight /\ IommusAreRight

PlatformSpec == PlatformInit /\ [][PlatformNext]_parts
=============================================================================
