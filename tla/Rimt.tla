-------------------------------- MODULE Rimt --------------------------------
(***************************************************************************)
(* The RISC-V IOMMU table: built from the ACPI RIMT                        *)
(* (platform/pal_uefi_acpi/src/pal_iommu.c) and read by the VAL            *)
(* (val/src/acs_iommu.c), which also reads and writes IOMMU registers.     *)
(*                                                                         *)
(* The table is an array of entries of 12 words whose last member is a     *)
(* flexible array, id_mapping_table: the mappings of entry i are the words *)
(* of entry i + 1, which is written later.  The table is therefore         *)
(* modelled word by word.                                                  *)
(***************************************************************************)
EXTENDS Integers, Sequences, SequencesExt, FiniteSets, FiniteSetsExt, TLC

CONSTANT TableWords    \* words of memory allocated for the table

ASSUME RimtAssumption == TableWords \in Nat \ {0}

VARIABLES
  rimt,       \* the RIMT: a sequence of devices
  iommu,      \* g_iommu_info_table: num_of_iommu (-1 before it is created) and words
  mmio,       \* 32-bit registers at a device's address
  expected    \* what was last written to each IOMMU's registers

rimtVars == <<rimt, iommu, mmio, expected>>

ENTRY_WORDS == 12
IOMMU == 0
PCIE_RC == 1
PLATFORM == 2

\* Word offsets of the members of an IOMMU_INFO_ENTRY.
WordOf == [iommu_num |-> 0, type |-> 1, iommu_offset |-> 2, base_address |-> 6, flags |-> 8,
           pcie |-> 9, idmap_num |-> 10, pcie_rc_seg |-> 11]
\* Word offsets of the members of an ID_MAPPTING_TABLE, behind the entry.
MapWordOf == [sourceid_base |-> 0, numids |-> 1, destid_base |-> 2, destiommu_offset |-> 3]

At(i, member) == ENTRY_WORDS * i + WordOf[member]
MapAt(i, k, member) == ENTRY_WORDS * (i + 1) + 4 * k + MapWordOf[member]

\* Words written to the table, the others kept.
Write(words, values) == [a \in DOMAIN words |-> IF a \in DOMAIN values THEN values[a] ELSE words[a]]

-----------------------------------------------------------------------------
\* The offset of device n of the RIMT.
RimtOffset(n) == 64 + 32 * (n - 1)

\* type (8 bits) and id (16 bits) share a word; the byte between them is kept.
TypeWord(old, d) == d.type + 256 * ((old \div 256) % 256) + 65536 * d.id

\* The members written for any device, for an IOMMU, and for a root complex
\* or a platform device, whose mappings are all copies of the first.
Header(words, i, d) ==
  Write(words, (At(i, "iommu_num") :> i) @@ (At(i, "type") :> TypeWord(words[At(i, "type")], d)))

IommuMembers(words, i, d) ==
  Write(words, (At(i, "iommu_offset") :> RimtOffset(i + 1)) @@ (At(i, "base_address") :> d.base)
               @@ (At(i, "flags") :> d.flags) @@ (At(i, "pcie") :> d.bdf))

Mappings(words, i, d) ==
  LET m == d.maps[1]
      a(k, member) == MapAt(i, k, member)
      add(w, k) == Write(w, (a(k, "sourceid_base") :> m.sourceid_base) @@ (a(k, "numids") :> m.numids)
                            @@ (a(k, "destid_base") :> 0)
                            @@ (a(k, "destiommu_offset") :> RimtOffset(m.iommu)))
  IN FoldLeft(add, Write(words, At(i, "idmap_num") :> Len(d.maps)), [k \in DOMAIN d.maps |-> k - 1])

\* Bug: the mappings are stored before the entry they follow.
pal_iommu_create_info_table_early(words, i, d) ==
  Header(IF d.type = IOMMU THEN words ELSE Mappings(words, i - 1, d), i, d)

\* One pass of the loop over the devices of the RIMT.
pal_iommu_create_info_table(words, i, d) ==
  LET w == Header(words, i, d) IN
    CASE d.type = IOMMU -> IommuMembers(w, i, d)
      [] d.type = PCIE_RC -> Mappings(Write(w, At(i, "pcie_rc_seg") :> d.segment), i, d)
      [] d.type = PLATFORM -> Mappings(w, i, d)

val_iommu_create_info_table ==
  /\ iommu.num_of_iommu = -1
  /\ LET add(w, n) == pal_iommu_create_info_table(w, n - 1, rimt[n]) IN
       iommu' = [num_of_iommu |-> Len(rimt),
                 words |-> FoldLeft(add, iommu.words, [n \in DOMAIN rimt |-> n])]
  /\ UNCHANGED <<rimt, mmio, expected>>

-----------------------------------------------------------------------------
val_iommu_get_num == IF iommu.num_of_iommu = -1 THEN 0 ELSE iommu.num_of_iommu

val_iommu_get_idmap_num(index) == iommu.words[At(index, "idmap_num")]

val_iommu_get_info(index, member) ==
  IF member = "type" THEN iommu.words[At(index, "type")] % 256 ELSE iommu.words[At(index, member)]

val_iommu_get_pcierc_platform_info(index, idmap, member) ==
  IF member = "pcie_rc_seg" THEN iommu.words[At(index, member)]
  ELSE iommu.words[MapAt(index, idmap, member)]

\* The index of the IOMMU at an offset of the RIMT, -1 if there is none.
val_iommu_check_governing_iommu_offset(offset) ==
  LET at == {i \in 0..(val_iommu_get_num - 1) :
               /\ val_iommu_get_info(i, "type") = IOMMU
               /\ val_iommu_get_info(i, "iommu_offset") = offset}
  IN IF at = {} THEN -1 ELSE Min(at)

\* A PCIe address is segment << 24, bus << 16, device << 8, function; a
\* requester id is bus << 8, device << 3, function.
IommuBdf(segment, prid) ==
  segment * 16777216 + (prid \div 256) * 65536 + ((prid % 256) \div 8) * 256 + (prid % 8)
PridOf(bdf) == ((bdf \div 65536) % 256) * 256 + ((bdf \div 256) % 256) * 8 + (bdf % 256)

\* The IOMMU that governs a function: that of the first mapping, of a root
\* complex of its segment, which does not end before the function's id.
val_iommu_check_governing_iommu(bdf) ==
  LET rcs == {i \in 0..(val_iommu_get_num - 1) :
                /\ val_iommu_get_info(i, "type") = PCIE_RC
                /\ val_iommu_get_pcierc_platform_info(i, 0, "pcie_rc_seg") = bdf \div 16777216}
      info(h, member) == val_iommu_get_pcierc_platform_info(h[1], h[2], member)
      hits == {h \in rcs \X (0..3) :
                 /\ h[2] < val_iommu_get_idmap_num(h[1])
                 /\ PridOf(bdf) <= info(h, "sourceid_base") + info(h, "numids")}
      first == CHOOSE h \in hits : \A g \in hits : h[1] < g[1] \/ (h[1] = g[1] /\ h[2] <= g[2])
  IN IF hits = {} THEN -1 ELSE val_iommu_check_governing_iommu_offset(info(first, "destiommu_offset"))

-----------------------------------------------------------------------------
(* Registers. A platform IOMMU is at its base address; a PCIe IOMMU is     *)
(* found by its address, behind its first memory BAR.                      *)

MAX_REG_OFFSET == 1024

\* The device that an access to the registers of an entry reaches.
Device(index) ==
  IF val_iommu_get_info(index, "flags") % 2 = 0
  THEN <<"mmio", val_iommu_get_info(index, "base_address")>>
  ELSE <<"bar", IommuBdf(val_iommu_get_info(index, "pcie") \div 65536,
                      val_iommu_get_info(index, "pcie") % 65536)>>

Accessible(index, offset, num) ==
  /\ offset <= MAX_REG_OFFSET /\ num <= 2
  /\ val_iommu_get_info(index, "type") = IOMMU

\* num words from the offset, the low one first.
val_iommu_read_iommu_reg(index, offset, num) ==
  [k \in 1..num |-> IF Accessible(index, offset, num) THEN mmio[Device(index), offset + 4 * (k - 1)] ELSE 0]

RegWritten(device, offset, data) ==
  [r \in DOMAIN mmio |->
     IF r[1] = device /\ \E k \in DOMAIN data : r[2] = offset + 4 * (k - 1)
     THEN data[(r[2] - offset) \div 4 + 1] ELSE mmio[r]]

val_iommu_write_iommu_reg(index, offset, data) ==
  /\ index < val_iommu_get_num
  /\ mmio' = IF Accessible(index, offset, Len(data)) THEN RegWritten(Device(index), offset, data) ELSE mmio
  /\ expected' = IF rimt[index + 1].type # IOMMU \/ offset > MAX_REG_OFFSET THEN expected
                 ELSE [r \in DOMAIN expected |->
                         IF r[1] = index /\ r[2] \in {offset, offset + 4 * (Len(data) - 1)}
                         THEN data[(r[2] - offset) \div 4 + 1] ELSE expected[r]]
  /\ UNCHANGED <<rimt, iommu>>

-----------------------------------------------------------------------------
\* Devices of the RIMT are distinct; registers start at zero.
RimtInit(tables, offsets) ==
  /\ rimt \in tables
  /\ iommu = [num_of_iommu |-> -1, words |-> [a \in 0..(TableWords - 1) |-> 0]]
  /\ mmio = [r \in {IF d.flags % 2 = 0 THEN <<"mmio", d.base>>
                    ELSE <<"bar", IommuBdf(d.bdf \div 65536, d.bdf % 65536)>> : d \in Range(rimt)} \X offsets |-> 0]
  /\ expected = [r \in (0..(Len(rimt) - 1)) \X offsets |-> 0]

\* Each entry keeps its members although the mappings of the entry before it
\* lie in the same words, and the IOMMU found for a function is the one its
\* mapping names when the root complex is last and its ids start at zero.
RimtIsRight ==
  iommu.num_of_iommu # -1 =>
    /\ \A n \in DOMAIN rimt :
         LET d == rimt[n] IN
           /\ val_iommu_get_info(n - 1, "type") = d.type
           /\ d.type = IOMMU => /\ val_iommu_get_info(n - 1, "base_address") = d.base
                                /\ val_iommu_get_info(n - 1, "iommu_offset") = RimtOffset(n)
                                /\ val_iommu_get_info(n - 1, "flags") = d.flags
           /\ d.type # IOMMU => val_iommu_get_idmap_num(n - 1) = Len(d.maps)
    /\ LET rc == rimt[Len(rimt)]
           m == rc.maps[1]
       IN /\ rc.type = PCIE_RC /\ Len(rc.maps) = 1 /\ m.sourceid_base = 0
          /\ \A n \in 1..(Len(rimt) - 1) : rimt[n].type # PCIE_RC
          => \A prid \in {0, 7, 8, 263} :
               val_iommu_check_governing_iommu(IommuBdf(rc.segment, prid)) =
                 IF prid <= m.numids /\ rimt[m.iommu].type = IOMMU THEN m.iommu - 1 ELSE -1

\* val_iommu_read_iommu_reg returns what was last written to that register of
\* that IOMMU, whichever way the IOMMU is attached and in words or pairs.
RegistersKeepValues ==
  iommu.num_of_iommu # -1 =>
    \A index \in {n - 1 : n \in {n \in DOMAIN rimt : rimt[n].type = IOMMU}}, offset \in {0, 4} :
      val_iommu_read_iommu_reg(index, offset, 1)[1] = expected[index, offset]

\* Both of the above, for the table of val_iommu_create_info_table and the
\* registers of the IOMMUs it names.
IommusAreRight == RimtIsRight /\ RegistersKeepValues
=============================================================================
