------------------------------- MODULE Memory -------------------------------
(***************************************************************************)
(* The memory table: filled from the memory map of UEFI or from the bare   *)
(* metal configuration, and asked by the tests for the regions of a type,  *)
(* the type of an address, the end of memory and addresses where nothing   *)
(* is.                                                                     *)
(***************************************************************************)
EXTENDS Integers, Sequences, SequencesExt, FiniteSetsExt

CONSTANTS
  MaxEntry,   \* MEM_INFO_TBL_MAX_ENTRY
  NoIndex     \* 0xFF, the index that means none

VARIABLES
  memSource,   \* the build, its memory map and what it knows of holes
  mem          \* MEMORY_INFO_TABLE; ended: the terminator was written

memVars == <<memSource, mem>>

MemRegion(type, phy_addr, size) == [type |-> type, phy_addr |-> phy_addr, size |-> size]

-----------------------------------------------------------------------------
IsUefiMemory(type) == type \in {"Reserved", "LoaderCode", "LoaderData", "BootServicesCode", "BootServicesData",
                                "RuntimeServicesCode", "RuntimeServicesData", "ACPIReclaim", "ACPINVS"}
IsNormalMemory(type) == type = "Conventional"
IsDeviceMemory(type) == type \in {"MMIO", "MMIOPort", "Persistent"}
MemoryType_acpi(type) ==
  CASE IsUefiMemory(type) -> "RESERVED" [] IsNormalMemory(type) -> "NORMAL" [] IsDeviceMemory(type) -> "DEVICE"
    [] OTHER -> "NOT_POPULATED"
MemoryType_dt(type) == MemoryType_acpi(type)

\* The first MaxEntry descriptors of the map, if it could be read.
UefiEntries(map) == 1..Min({Len(map), MaxEntry})
pal_memory_create_info_table_acpi(map) ==
  [k \in UefiEntries(map) |-> MemRegion(MemoryType_acpi(map[k].type), map[k].start, map[k].size)]
pal_memory_create_info_table_dt(map) ==
  [k \in UefiEntries(map) |-> MemRegion(MemoryType_dt(map[k].type), map[k].start, map[k].size)]
pal_memory_create_info_table_bm(cfg) == [k \in DOMAIN cfg |-> MemRegion(cfg[k].type, cfg[k].start, cfg[k].size)]

val_memory_create_info_table ==
  /\ ~mem.built
  /\ mem' = [built |-> TRUE, ended |-> memSource.readable,
             info |-> IF ~memSource.readable THEN <<>>
                      ELSE IF memSource.by = "acpi" THEN pal_memory_create_info_table_acpi(memSource.map)
                      ELSE IF memSource.by = "dt" THEN pal_memory_create_info_table_dt(memSource.map)
                      ELSE pal_memory_create_info_table_bm(memSource.map)]
  /\ UNCHANGED memSource

-----------------------------------------------------------------------------
(* What the tests ask.                                                     *)

\* The index of instance number instance of a type.
val_memory_get_entry_index(type, instance) ==
  LET all == {k \in DOMAIN mem.info : mem.info[k].type = type}
      at == {k \in all : Cardinality({j \in all : j < k}) = instance}
  IN IF at = {} THEN NoIndex ELSE Max(at) - 1

val_memory_get_addr(type, instance) ==
  LET i == IF type \in {"DEVICE", "NORMAL"} THEN val_memory_get_entry_index(type, instance) ELSE NoIndex IN
    IF i = NoIndex THEN 0 ELSE mem.info[i + 1].phy_addr

\* Bug: the address after a region belongs to it.
InRegion_EndIncluded(addr, r) == addr >= r.phy_addr /\ addr <= r.phy_addr + r.size
InRegion(addr, r) == addr >= r.phy_addr /\ addr < r.phy_addr + r.size

val_memory_get_info(addr) ==
  LET in == {k \in DOMAIN mem.info : InRegion(addr, mem.info[k])} IN
    IF in = {} THEN "NOT_POPULATED" ELSE mem.info[Min(in)].type

\* The end of the last region that starts above the end of the one before.
val_get_max_memory == FoldLeft(LAMBDA addr, r : IF r.phy_addr > addr THEN r.phy_addr + r.size ELSE addr, 0, mem.info)

\* Holes of the GCD map, of which one at 0 is passed over; <<status, address>>.
NoHole == <<"NO_MAPPING", 0>>
pal_memory_get_unpopulated_addr_acpi(instance) ==
  LET holes == SelectSeq(memSource.gcd, LAMBDA d : d.type = "NonExistent")
      one(t, d) == IF t.found THEN t
                   ELSE IF t.n = instance /\ d.start # 0 THEN [t EXCEPT !.found = TRUE, !.addr = d.start]
                   ELSE IF t.n = instance THEN t
                   ELSE [t EXCEPT !.n = @ + 1]
      end == FoldLeft(one, [found |-> FALSE, addr |-> 0, n |-> 0], holes)
  IN IF end.found THEN <<"SUCCESS", end.addr>> ELSE NoHole

\* Nothing is looked up: success, and the caller's address as it was.
pal_memory_get_unpopulated_addr_dt(instance) == <<"SUCCESS", 0>>

pal_memory_get_unpopulated_addr_bm(instance) ==
  LET holes == SelectSeq(memSource.map, LAMBDA r : r.type = "NOT_POPULATED") IN
    IF instance < Len(holes) THEN <<"SUCCESS", holes[instance + 1].start>> ELSE NoHole

val_memory_get_unpopulated_addr(instance) ==
  CASE memSource.by = "acpi" -> pal_memory_get_unpopulated_addr_acpi(instance)
    [] memSource.by = "dt" -> pal_memory_get_unpopulated_addr_dt(instance)
    [] OTHER -> pal_memory_get_unpopulated_addr_bm(instance)

-----------------------------------------------------------------------------
MemInit(sources) == memSource \in sources /\ mem = [built |-> FALSE, ended |-> FALSE, info |-> <<>>]

DescribedType(r) == IF memSource.by = "bm" THEN r.type
                    ELSE CASE r.type = "Conventional" -> "NORMAL"
                           [] r.type \in {"MMIO", "MMIOPort", "Persistent"} -> "DEVICE"
                           [] r.type \in {"Unusable", "Pal"} -> "NOT_POPULATED"
                           [] OTHER -> "RESERVED"
DescribedRegions == SubSeq(memSource.map, 1, IF memSource.by = "bm" THEN Len(memSource.map) ELSE Min({MaxEntry, Len(memSource.map)}))
EndOf(r) == r.start + r.size

\* The table answers for the map it was built from: an address has the type of
\* the region it lies in, and no type beyond them; the instances of a type are
\* its regions in the order of the map, each once, then 0 (the region at the
\* index that means none is not found); the end of memory is that of the last
\* region, as long as no region starts where another one ends; and an address
\* given as unpopulated lies in no region of memory.  Regions past the room of
\* the table are unknown, not misread.
MemoryIsRight ==
  mem.ended =>
    LET regions == DescribedRegions
        known(r) == DescribedType(r) # "NOT_POPULATED"
    IN /\ \A a \in 0..memSource.top :
            val_memory_get_info(a) =
              (IF \E k \in DOMAIN regions : a \in regions[k].start..(EndOf(regions[k]) - 1)
               THEN DescribedType(regions[CHOOSE k \in DOMAIN regions : a \in regions[k].start..(EndOf(regions[k]) - 1)])
               ELSE "NOT_POPULATED")
       /\ \A type \in {"DEVICE", "NORMAL"} :
            LET all == SelectSeq(regions, LAMBDA r : DescribedType(r) = type)
                lost(r) == NoIndex < Len(regions) /\ regions[NoIndex + 1] = r
            IN \A i \in 0..Len(all) :
                 val_memory_get_addr(type, i) = (IF i = Len(all) \/ lost(all[i + 1]) THEN 0 ELSE all[i + 1].start)
       /\ (\A j, k \in DOMAIN regions : regions[j].start # EndOf(regions[k])) =>
            val_get_max_memory = Max({0} \cup {EndOf(regions[k]) : k \in DOMAIN regions})
       /\ \A i \in 0..Len(memSource.gcd) :
            LET hole == val_memory_get_unpopulated_addr(i) IN
              (memSource.by # "dt" /\ hole[1] = "SUCCESS") =>
                \A k \in DOMAIN memSource.map : hole[2] \in memSource.map[k].start..(EndOf(memSource.map[k]) - 1) => ~known(memSource.map[k])
=============================================================================
