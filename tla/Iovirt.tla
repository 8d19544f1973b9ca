------------------------------- MODULE Iovirt -------------------------------
(***************************************************************************)
(* The IO virtualisation table: built from the ACPI IORT                   *)
(* (platform/pal_uefi_acpi/src/pal_iovirt.c), from a device tree           *)
(* (pal_uefi_dt) or from a platform file (pal_baremetal), and read by the  *)
(* VAL (val/src/acs_iovirt.c) to find the stream id, the device id, the    *)
(* ITS and the SMMU of a PCIe requester.                                   *)
(*                                                                         *)
(* The table is memory: blocks of different sizes follow each other, are   *)
(* found by walking over num_blocks of them, and refer to each other by    *)
(* offset.  Offsets are counted in words of four bytes; ids have W values. *)
(***************************************************************************)
EXTENDS Integers, Sequences, SequencesExt, FiniteSets, FiniteSetsExt

CONSTANT W    \* 2^32, the number of values of an id

ASSUME IovirtAssumption == W \in Nat \ {0}

VARIABLES
  target,     \* the build: "acpi", "dt", "bm" or "bm_boot"
  iort,       \* what firmware or the platform file describes: a sequence of nodes
  iovirt      \* g_iovirt_info_table; num_blocks is -1 before it is created

iovirtVars == <<target, iort, iovirt>>

BLOCK_WORDS == 67      \* an IOVIRT_BLOCK without its data maps
MAP_WORDS == 4         \* a NODE_DATA_MAP
FIRST_BLOCK == 6       \* the counters before blocks[0]

Smmus == {"IOVIRT_NODE_SMMU", "IOVIRT_NODE_SMMU_V3"}
RC == "IOVIRT_NODE_PCI_ROOT_COMPLEX"
ITS == "IOVIRT_NODE_ITS_GROUP"
PMCG == "IOVIRT_NODE_PMCG"
NodeTypes == Smmus \cup {RC, ITS, PMCG, "IOVIRT_NODE_NAMED_COMPONENT"}

-----------------------------------------------------------------------------
(* The table as memory.                                                    *)

\* [type, num_data_map, data, ids, maps, flags] at an offset; data is what
\* tells nodes of a type apart: segment, base address, name.
IOVIRT_BLOCK(type, num, data, ids) ==
  [type |-> type, num_data_map |-> num, data |-> data, ids |-> ids, maps |-> <<>>, flags |-> {}]

IOVIRT_NEXT_BLOCK(at, b) == at + BLOCK_WORDS + b.num_data_map * MAP_WORDS

\* Blocks are aligned to 8 bytes (bound) only when bare metal boots by itself.
ALIGN_MEMORY(at) == IF target = "bm_boot" THEN ((at + 1) \div 2) * 2 ELSE at

EmptyTable == [mem |-> [a \in {} |-> 0], num_blocks |-> 0, count |-> [k \in NodeTypes |-> 0]]

\* Writing a block destroys the blocks that start in the words it takes.
Put(mem, at, b) ==
  LET kept == {a \in DOMAIN mem : a < at \/ a >= IOVIRT_NEXT_BLOCK(at, b)} IN
    [a \in kept \cup {at} |-> IF a = at THEN b ELSE mem[a]]

\* The offsets visited by a walk; it is lost where no block starts.
RECURSIVE WalkFrom(_, _, _)
WalkFrom(t, at, left) ==
  IF left = 0 \/ at \notin DOMAIN t.mem THEN <<>>
  ELSE <<at>> \o WalkFrom(t, ALIGN_MEMORY(IOVIRT_NEXT_BLOCK(at, t.mem[at])), left - 1)

WalkTable(t) == WalkFrom(t, ALIGN_MEMORY(FIRST_BLOCK), t.num_blocks)

-----------------------------------------------------------------------------
(* ACPI: one block for every IORT node.                                    *)

\* The offset of a block that agrees with the key up to its flags, 0 if none.
find_block(key, t) ==
  LET same(at) == LET b == t.mem[at] IN
                    /\ b.type = key.type
                    /\ b.num_data_map = key.num_data_map
                    /\ b.data = key.data
                    /\ b.type = ITS => b.ids = key.ids /\ b.flags = key.flags
      hits == SelectSeq(WalkTable(t), same)
  IN IF hits = <<>> THEN 0 ELSE hits[1]

smmu_ctx_int_distinct(node) == IsInjective(node.ctx)

Counted(t, type) == [t EXCEPT !.num_blocks = @ + 1, !.count[type] = @ + 1]

\* Add node n at offset `at`: returns the table, the offset of the node's
\* block, old or new, and the offset for the next one. A referenced node is
\* added first, behind this block, which itself is counted last.
RECURSIVE iort_add_block(_, _, _)
iort_add_block(n, t, at) ==
  LET node == iort[n]
      num == IF node.type = ITS THEN (Len(node.ids) + 3) \div 4 ELSE Len(node.maps)
      behind == at + BLOCK_WORDS + num * MAP_WORDS
      bare == IOVIRT_BLOCK(node.type, num, [id |-> node.id, smmu_base |-> 0, ref |-> 0], node.ids)
      written == [t EXCEPT !.mem = Put(t.mem, at, bare)]
      ref == IF node.type = PMCG THEN iort_add_block(node.ref, written, behind)
             ELSE [t |-> written, offset |-> 0]
      key == [bare EXCEPT !.data.ref = ref.offset]
      placed == [ref.t EXCEPT !.mem = Put(ref.t.mem, at, key)]
      found == find_block(key, placed)
      addMap(l, m) ==
        LET to == iort_add_block(m.ref, l.t, l.next)
            b == to.t.mem[to.offset]
        IN [t |-> to.t, next |-> to.next,
            maps |-> Append(l.maps, [input_base |-> m.input_base, id_count |-> m.id_count,
                                     output_base |-> m.output_base, output_ref |-> to.offset]),
            smmu_base |-> IF node.type = RC /\ b.type \in Smmus THEN b.data.id ELSE 0]
      all == FoldLeft(addMap, [t |-> placed, next |-> behind, maps |-> <<>>, smmu_base |-> 0],
                      IF node.type = ITS THEN <<>> ELSE node.maps)
      block == [key EXCEPT !.maps = all.maps, !.data.smmu_base = all.smmu_base,
                           !.flags = IF node.type = "IOVIRT_NODE_SMMU"
                                        /\ ~smmu_ctx_int_distinct(node)
                                     THEN {"SMMU_CTX_INT"} ELSE {}]
  IN IF found # 0 THEN [t |-> placed, offset |-> found, next |-> at]
     ELSE [t |-> Counted([all.t EXCEPT !.mem = Put(all.t.mem, at, block)], node.type),
           offset |-> at, next |-> all.next]

\* Do the output ranges of two mappings meet? A range ends at base + count - 1.
Overlap(a, b) ==
  LET lastId(m) == (m.output_base + m.id_count - 1) % W IN
    \/ a.output_base >= b.output_base /\ a.output_base <= lastId(b)
    \/ lastId(a) >= b.output_base /\ lastId(a) <= lastId(b)
    \/ a.output_base < b.output_base /\ lastId(a) > lastId(b)

\* Every mapping is compared with those after it that lead to the same node.
check_mapping_overlap(t) ==
  LET blocks == WalkTable(t)
      maps == {<<i, j>> \in (DOMAIN blocks) \X (1..4) :
                 /\ t.mem[blocks[i]].type # ITS
                 /\ j \in DOMAIN t.mem[blocks[i]].maps}
      mapOf(p) == t.mem[blocks[p[1]]].maps[p[2]]
      clash(p, q) == /\ p[1] < q[1] \/ (p[1] = q[1] /\ p[2] < q[2])
                     /\ mapOf(p).output_ref = mapOf(q).output_ref
                     /\ Overlap(mapOf(p), mapOf(q))
      flag(p) == IF t.mem[mapOf(p).output_ref].type = ITS THEN "DEVID_OVERLAP" ELSE "STRID_OVERLAP"
      flags(at) == {flag(p) : p \in {p \in maps : /\ blocks[p[1]] = at
                                                  /\ \E q \in maps : clash(p, q) \/ clash(q, p)}}
  IN [t EXCEPT !.mem = [at \in DOMAIN t.mem |-> [t.mem[at] EXCEPT !.flags = @ \cup flags(at)]]]

acpi_create_info_table ==
  LET add(l, n) == LET r == iort_add_block(n, l.t, l.next) IN [t |-> r.t, next |-> r.next]
      all == FoldLeft(add, [t |-> EmptyTable, next |-> FIRST_BLOCK], [n \in DOMAIN iort |-> n])
  IN check_mapping_overlap(all.t)

-----------------------------------------------------------------------------
(* Device tree: blocks without mappings. A node is                         *)
(* [kind, reg, iommu, coherent, ats]; reg is NoReg when it has none.       *)

NoReg == 0

\* The next block of a table whose blocks follow each other without maps.
AddPlain(l, b) ==
  [t |-> Counted([l.t EXCEPT !.mem = Put(l.t.mem, l.next, b)], b.type),
   next |-> l.next + BLOCK_WORDS, ok |-> TRUE]

\* Nodes of a kind become SMMU blocks; a node without reg ends the parse.
AddSmmus(l, type) ==
  LET add(k, node) ==
        IF ~k.ok \/ node.type # type THEN k
        ELSE IF node.reg = NoReg THEN [k EXCEPT !.ok = FALSE]
        ELSE AddPlain(k, IOVIRT_BLOCK(type, 0, [id |-> node.reg], <<>>))
  IN FoldLeft(add, l, iort)

dt_add_smmu_v3(l) == AddSmmus(l, "IOVIRT_NODE_SMMU_V3")
dt_add_smmu_v2(l) == AddSmmus(l, "IOVIRT_NODE_SMMU")

\* PCI nodes with an iommu-map become root complexes of segment 0. The two
\* attributes are the absence of their properties.
dt_add_root_complexes(l) ==
  LET absent(has) == IF has THEN 0 ELSE 1
      rc(node) == IOVIRT_BLOCK(RC, 0, [id |-> 0, cca |-> absent(node.coherent),
                                       ats_attr |-> absent(node.ats)], <<>>)
      add(k, node) == IF ~k.ok \/ node.type # RC \/ ~node.iommu THEN k ELSE AddPlain(k, rc(node))
  IN FoldLeft(add, l, iort)

pal_iovirt_create_info_table_dt ==
  LET start == [t |-> EmptyTable, next |-> FIRST_BLOCK, ok |-> TRUE]
      all == dt_add_root_complexes(dt_add_smmu_v2(dt_add_smmu_v3(start)))
  IN IF all.ok THEN check_mapping_overlap(all.t) ELSE all.t

-----------------------------------------------------------------------------
(* Bare metal: the platform file lists ITS groups, then SMMUs, then root   *)
(* complexes, and the offsets that mappings lead to.                       *)

NUM_ITS_COUNT == Cardinality({n \in DOMAIN iort : iort[n].type = ITS})

\* The offset of node n in the table being built.
RECURSIVE bm_node(_)
bm_node(n) ==
  ALIGN_MEMORY(IF n = 1 THEN FIRST_BLOCK
               ELSE bm_node(n - 1) + BLOCK_WORDS +
                      MAP_WORDS * (IF iort[n - 1].type = ITS THEN (Len(iort[n - 1].ids) + 3) \div 4
                                   ELSE Len(iort[n - 1].maps)))

\* The j-th mapping of a root complex leads to the j-th node behind the ITS
\* groups; every other mapping to the offset in the platform file.
bm_create_info_table ==
  LET block(node) ==
        [IOVIRT_BLOCK(node.type,
                      IF node.type = ITS THEN (Len(node.ids) + 3) \div 4 ELSE Len(node.maps),
                      [id |-> node.id], node.ids)
         EXCEPT !.maps = [j \in DOMAIN node.maps |->
                            [node.maps[j] EXCEPT !.output_ref =
                               IF node.type = RC THEN bm_node(j + NUM_ITS_COUNT) ELSE @]],
                !.flags = IF node.type = "IOVIRT_NODE_SMMU" /\ ~smmu_ctx_int_distinct(node)
                          THEN {"SMMU_CTX_INT"} ELSE {}]
      add(t, n) == Counted([t EXCEPT !.mem = Put(t.mem, bm_node(n), block(iort[n]))], iort[n].type)
  IN FoldLeft(add, EmptyTable, [n \in DOMAIN iort |-> n])

-----------------------------------------------------------------------------
(* The VAL.                                                                *)

\* The block of the index-th node of some types, 0 if there is none.
Nth(types, index) ==
  LET blocks == SelectSeq(WalkTable(iovirt), LAMBDA at : iovirt.mem[at].type \in types)
  IN IF index < Len(blocks) THEN blocks[index + 1] ELSE 0

val_iovirt_get_smmu_info(index) == Nth(Smmus, index)
val_iovirt_get_pcie_rc_info(index) == Nth({RC}, index)

\* Where an ITS is: the group that lists it, and its index in a group.
val_iovirt_get_its_info(type, group, param) ==
  LET idsOf(g) == iovirt.mem[Nth({ITS}, g)].ids
      groups == {g \in 0..(iovirt.count[ITS] - 1) : Nth({ITS}, g) # 0}
      holding == {g \in groups : param \in Range(idsOf(g))}
  IN IF type = "ITS_NUM_GROUPS" THEN iovirt.count[ITS]
   ELSE IF type = "ITS_GET_GRP_INDEX_FOR_ID" THEN IF holding = {} THEN -1 ELSE Min(holding)
   ELSE IF group \notin groups THEN -1
   ELSE CASE type = "ITS_GROUP_NUM_BLOCKS" -> Len(idsOf(group))
            [] type = "ITS_GET_ID_FOR_BLK_INDEX" -> IF param < Len(idsOf(group)) THEN idsOf(group)[param + 1] ELSE -1
            [] type = "ITS_GET_BLK_INDEX_FOR_ID" ->
                 IF group \in holding THEN Min({k \in DOMAIN idsOf(group) : idsOf(group)[k] = param}) - 1 ELSE -1

\* What the first mapping that holds an id makes of it.
MapId(maps, id) ==
  LET hits == {j \in DOMAIN maps : /\ id >= maps[j].input_base
                                   /\ id <= maps[j].input_base + maps[j].id_count}
      m == maps[Min(hits)]
  IN IF hits = {} THEN [found |-> FALSE]
     ELSE [found |-> TRUE, id |-> (id - m.input_base) + m.output_base, ref |-> m.output_ref]

\* The mapping of a requester: that of the last root complex which has one.
RequesterMap(rid, segment) ==
  LET look(r, at) ==
        LET b == iovirt.mem[at]
            m == MapId(b.maps, rid)
        IN IF b.type = RC /\ b.data.id = segment /\ m.found THEN m ELSE r
  IN FoldLeft(look, [found |-> FALSE], WalkTable(iovirt))

\* Memory where no block starts has some other type.
TypeAt(at) == IF at \in DOMAIN iovirt.mem THEN iovirt.mem[at].type ELSE "garbage"

Err == [status |-> "ACS_STATUS_ERR"]
DeviceInfo(sid, did, at) ==
  [status |-> "ok", stream_id |-> sid, device_id |-> did,
   its_id |-> IF TypeAt(at) = ITS THEN iovirt.mem[at].ids[1] ELSE 0]

val_iovirt_get_device_info(rid, segment) ==
  LET m == RequesterMap(rid, segment)
      s == MapId(iovirt.mem[m.ref].maps, m.id)
  IN IF ~m.found THEN Err
     ELSE IF TypeAt(m.ref) = ITS THEN DeviceInfo(-1, m.id, m.ref)
     ELSE IF TypeAt(m.ref) \in Smmus THEN IF s.found THEN DeviceInfo(m.id, s.id, s.ref) ELSE Err
     ELSE Err

\* The base of the SMMU that a requester is behind: -1 when the requester has
\* no mapping, 0 when it is behind none.
SmmuBaseOf(rid, segment) ==
  LET m == RequesterMap(rid, segment) IN
    IF ~m.found THEN -1
    ELSE IF TypeAt(m.ref) \in Smmus /\ MapId(iovirt.mem[m.ref].maps, m.id).found THEN iovirt.mem[m.ref].data.id
    ELSE 0

acpi_get_rc_smmu_base(rid, segment) == SmmuBaseOf(rid, segment)
dt_get_rc_smmu_base(rid, segment) == SmmuBaseOf(rid, segment)
bm_get_rc_smmu_base(rid, segment) == SmmuBaseOf(rid, segment)

pal_iovirt_get_rc_smmu_base(rid, segment) ==
  CASE target = "acpi" -> acpi_get_rc_smmu_base(rid, segment)
    [] target = "dt" -> dt_get_rc_smmu_base(rid, segment)
    [] OTHER -> bm_get_rc_smmu_base(rid, segment)

\* Bug: the first SMMU is returned whatever the base.
val_iovirt_get_rc_smmu_index_first(rid, segment) ==
  IF pal_iovirt_get_rc_smmu_base(rid, segment) = 0 THEN -1 ELSE 0

\* The index of that SMMU, from the last to the first; -1 is ACS_INVALID_INDEX.
val_iovirt_get_rc_smmu_index(rid, segment) ==
  LET base == pal_iovirt_get_rc_smmu_base(rid, segment)
      same == {i \in 0..(iovirt.count["IOVIRT_NODE_SMMU"] + iovirt.count["IOVIRT_NODE_SMMU_V3"] - 1) :
                 LET at == val_iovirt_get_smmu_info(i) IN at # 0 /\ iovirt.mem[at].data.id = base}
  IN IF base = 0 \/ same = {} THEN -1 ELSE Max(same)

\* Flags found while the table was built.
val_iovirt_check_unique_ctx_intid(index) ==
  "SMMU_CTX_INT" \notin iovirt.mem[val_iovirt_get_smmu_info(index)].flags
val_iovirt_unique_rid_strid_map(index) ==
  "STRID_OVERLAP" \notin iovirt.mem[val_iovirt_get_pcie_rc_info(index)].flags

-----------------------------------------------------------------------------
NotCreated == [EmptyTable EXCEPT !.num_blocks = -1]

IovirtInit(builds, nodes) ==
  /\ target \in builds
  /\ iort \in nodes
  /\ iovirt = NotCreated

val_iovirt_create_info_table ==
  /\ iovirt = NotCreated
  /\ iovirt' = CASE target = "acpi" -> acpi_create_info_table
                 [] target = "dt" -> pal_iovirt_create_info_table_dt
                 [] OTHER -> bm_create_info_table
  /\ UNCHANGED <<target, iort>>
-----------------------------------------------------------------------------
(* Properties.                                                             *)

Created == iovirt # NotCreated

InRange(m, id) == m.input_base <= id /\ id <= m.input_base + m.id_count

\* Nodes are described before the nodes that refer to them.
ChildrenFirst ==
  \A n \in DOMAIN iort : /\ \A j \in DOMAIN iort[n].maps : iort[n].maps[j].ref < n
                         /\ iort[n].type = PMCG => iort[n].ref < n

\* What the description itself says of a requester, without the table.
NodesDescribed(rid, segment) ==
  LET hits == {<<n, j>> \in (DOMAIN iort) \X (1..2) :
                 /\ iort[n].type = RC /\ iort[n].id = segment
                 /\ j \in DOMAIN iort[n].maps /\ InRange(iort[n].maps[j], rid)}
      p == CHOOSE p \in hits : TRUE
      m == iort[p[1]].maps[p[2]]
      id == rid - m.input_base + m.output_base
      to == iort[m.ref]
      inner == {j \in DOMAIN to.maps : InRange(to.maps[j], id)}
      k == to.maps[CHOOSE j \in inner : TRUE]
  IN IF hits = {} THEN Err
     ELSE IF to.type = ITS THEN [status |-> "ok", stream_id |-> -1, device_id |-> id, its_id |-> to.ids[1]]
     ELSE IF inner = {} THEN Err
     ELSE [status |-> "ok", stream_id |-> id,
                    device_id |-> id - k.input_base + k.output_base, its_id |-> iort[k.ref].ids[1],
                    smmu |-> to.id]

\* A requester id belongs to one mapping of one root complex of its segment.
Unambiguous ==
  \A n, o \in {n \in DOMAIN iort : iort[n].type = RC} :
    \A i \in DOMAIN iort[n].maps, j \in DOMAIN iort[o].maps :
      iort[n].id = iort[o].id /\ <<n, i>> # <<o, j>> =>
        \A id \in 0..(W - 1) : ~(InRange(iort[n].maps[i], id) /\ InRange(iort[o].maps[j], id))

\* iort_add_block and the two other builders leave a table whose walk visits
\* as many blocks of each type as the counters say, with one block for every
\* IORT node when nodes come before their users.
TableIsWalkable ==
  Created =>
    /\ Len(WalkTable(iovirt)) = iovirt.num_blocks
    /\ \A type \in NodeTypes :
         Len(SelectSeq(WalkTable(iovirt), LAMBDA at : iovirt.mem[at].type = type)) = iovirt.count[type]
    /\ target = "acpi" /\ ChildrenFirst => iovirt.num_blocks = Len(iort)
    /\ target = "dt" /\ (\A n \in DOMAIN iort : iort[n].type \in Smmus => iort[n].reg # NoReg) =>
         iovirt.num_blocks = Len(SelectSeq(iort, LAMBDA d : d.type = RC => d.iommu))

\* val_iovirt_get_device_info gives a requester the stream id, device id and
\* ITS that the description gives it, and val_iovirt_get_rc_smmu_index the
\* index of the SMMU it is behind, whatever the order of the IORT nodes.
RequestersAreRight ==
  Created /\ target \in {"acpi", "bm"} /\ Unambiguous =>
    \A rid \in 0..7, segment \in 0..1 :
      LET is == val_iovirt_get_device_info(rid, segment)
          want == NodesDescribed(rid, segment)
          index == val_iovirt_get_rc_smmu_index(rid, segment)
      IN /\ is.status = want.status
         /\ is.status = "ok" => \A f \in {"stream_id", "device_id", "its_id"} : is[f] = want[f]
         /\ "smmu" \in DOMAIN want =>
              index # -1 /\ iovirt.mem[val_iovirt_get_smmu_info(index)].data.id = want.smmu
         /\ "smmu" \notin DOMAIN want => index = -1
         /\ is.status = "ok" =>
              LET group == val_iovirt_get_its_info("ITS_GET_GRP_INDEX_FOR_ID", 0, is.its_id)
                  k == val_iovirt_get_its_info("ITS_GET_BLK_INDEX_FOR_ID", group, is.its_id)
              IN val_iovirt_get_its_info("ITS_GET_ID_FOR_BLK_INDEX", group, k) = is.its_id

\* Ids that two mappings of the described nodes both produce.
SharedIds(m, k) ==
  {id \in 0..(W - 1) : /\ m.output_base <= id /\ id <= m.output_base + m.id_count
                       /\ k.output_base <= id /\ id <= k.output_base + k.id_count}

\* check_mapping_overlap flags a root complex when its stream ids overlap
\* those of another mapping to the same SMMU in two ids or more, and flags
\* none whose stream ids are its own (its ranges lack their last id); an SMMUv2
\* is flagged exactly when two of its context interrupts are the same.
FlagsAreRight ==
  Created /\ target = "acpi" /\ ChildrenFirst =>
    /\ \A n \in {n \in DOMAIN iort : iort[n].type \in Smmus} :
         val_iovirt_check_unique_ctx_intid(Cardinality({o \in 1..(n - 1) : iort[o].type \in Smmus}))
           <=> (iort[n].type = "IOVIRT_NODE_SMMU_V3" \/ Cardinality(Range(iort[n].ctx)) = Len(iort[n].ctx))
    /\ \A n \in {n \in DOMAIN iort : iort[n].type = RC} :
         LET shared(size) ==
               \E i \in DOMAIN iort[n].maps, o \in DOMAIN iort : \E j \in DOMAIN iort[o].maps :
                 /\ <<n, i>> # <<o, j>>
                 /\ iort[n].maps[i].ref = iort[o].maps[j].ref
                 /\ iort[iort[n].maps[i].ref].type \in Smmus
                 /\ Cardinality(SharedIds(iort[n].maps[i], iort[o].maps[j])) >= size
             index == Cardinality({o \in 1..(n - 1) : iort[o].type = RC})
             unique == val_iovirt_unique_rid_strid_map(index)
         IN /\ shared(2) => ~unique
            /\ ~unique => shared(1)

\* The three above: the table of val_iovirt_create_info_table can be walked,
\* leads every requester to its stream id, device id and ITS, and flags the
\* overlaps there are.
IovirtIsRight == TableIsWalkable /\ RequestersAreRight /\ FlagsAreRight
=============================================================================
