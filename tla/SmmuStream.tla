----------------------------- MODULE SmmuStream -----------------------------
(***************************************************************************)
(* Stream tables, context descriptor tables and the list of masters of the *)
(* SMMUv3 driver, under callers that map and unmap devices in any order.   *)
(*                                                                         *)
(* A device is a stream of one SMMU. A stream table entry aborts (None) or *)
(* names a context descriptor table; a descriptor names a page table. The  *)
(* SMMU may cache what a walk of its tables gave until it is told to       *)
(* invalidate. Descriptor tables are numbered; the allocator gives out the *)
(* least free number, as a freed block is the first to be used again.      *)
(***************************************************************************)
EXTENDS Integers, Sequences, FiniteSets

CONSTANTS
    Devices,    \* model values
    SmmuOf, SidOf,   \* smmu_index and streamid of a device
    Ssids, Pgts, None,
    Dangling,   \* a walk through freed memory
    TwoLevel,   \* supported.st_level_2lvl
    Split,      \* 2^STRTAB_SPLIT, the entries of one level 2 table
    Dwords,     \* STRTAB_STE_DWORDS
    L1Count,    \* entries of the level 1 table
    MaxNodes    \* bound on the length of the list of masters

ASSUME StreamAssumption ==
    /\ SidOf \in [Devices -> Nat] /\ SmmuOf \in [Devices -> Nat]
    /\ \A d \in Devices : SidOf[d] \div Split < L1Count
    /\ Split \in Nat \ {0} /\ Dwords \in Nat \ {0} /\ L1Count \in Nat \ {0} /\ MaxNodes \in Nat
    /\ None \notin Pgts /\ None \notin Nat /\ TwoLevel \in BOOLEAN

VARIABLES
    masters,    \* g_smmu_master_list_head, first node first
    level1,     \* L1 entries that hold the address of a level 2 table
    ste,        \* stream table entries, level 2 ones when there are two levels
    live,       \* allocated context descriptor tables
    cds,        \* their contents
    cache,      \* what each SMMU has cached: device and substream to page table
    l2ptr,      \* l1_desc[].l2ptr: level 2 tables that were allocated
    last        \* history: the last call that returned

streamVars == <<masters, level1, l2ptr, ste, live, cds, cache, last>>

StreamSmmus == {SmmuOf[d] : d \in Devices}
Sids == {SidOf[d] : d \in Devices}
Tables == 1 .. MaxNodes
Cleared == [smmu |-> None, sid |-> 0, cd |-> None]

(* smmu_strtab_init: linear tables have every entry, two-level ones none.   *)
StreamInit ==
    /\ masters = <<>>
    /\ level1 = [u \in StreamSmmus |-> {}] /\ l2ptr = [u \in StreamSmmus |-> {}]
    /\ ste = [u \in StreamSmmus |-> [s \in Sids |-> None]]
    /\ live = {} /\ cds = [t \in Tables |-> [s \in Ssids |-> None]]
    /\ cache = [u \in StreamSmmus |-> [l \in {} |-> None]]
    /\ last = <<"none">>
-----------------------------------------------------------------------------
Matches(sid) == {i \in DOMAIN masters : masters[i].sid = sid}

First(sid) == CHOOSE i \in Matches(sid) : \A j \in Matches(sid) : i =< j

(* The list with a node for sid, and the place of that node. A new node is  *)
(* cleared and comes first; which SMMU a node belongs to is not looked at.  *)
smmu_master_at(sid) ==
    IF Matches(sid) # {} THEN [list |-> masters, at |-> First(sid)]
    ELSE [list |-> <<Cleared>> \o masters, at |-> 1]

(* There is memory for the node, and for one more descriptor table.         *)
Room(sid) == Len(smmu_master_at(sid).list) =< MaxNodes

TableRoom == Tables \ live # {}

(* Only a cleared master gets an owner.                                     *)
Owned(m, d) == IF m.smmu = None THEN [m EXCEPT !.smmu = SmmuOf[d], !.sid = SidOf[d]] ELSE m

smmu_cdtab_alloc(m) ==
    IF m.cd = None THEN [m EXCEPT !.cd = CHOOSE t \in Tables \ live : \A x \in Tables \ live : t =< x]
    ELSE m

(* A level 2 table that exists already is not entered in level 1 again.     *)
smmu_strtab_init_level2(d) ==
    LET u == SmmuOf[d]
        i == SidOf[d] \div Split
    IN  IF TwoLevel /\ i \notin l2ptr[u]
        THEN /\ l2ptr' = [l2ptr EXCEPT ![u] = @ \cup {i}]
             /\ level1' = [level1 EXCEPT ![u] = @ \cup {i}]
        ELSE UNCHANGED <<l2ptr, level1>>

Empty == [l \in {} |-> None]

NoInvalidation(u) == UNCHANGED cache

(* The commands of an invalidation: the SMMU forgets all it has cached.     *)
smmu_tlbi_cfgi(u) == cache' = [cache EXCEPT ![u] = Empty]

(* A new descriptor table comes cleared; a descriptor is written to it, the *)
(* table is written to the entry of the caller's SMMU.                      *)
val_smmu_map(d, s, p) ==
    \E found \in {smmu_master_at(SidOf[d])} :
    LET old == found.list[found.at]
        m == smmu_cdtab_alloc(Owned(old, d))
        held == IF old.cd = None THEN [x \in Ssids |-> None] ELSE cds[m.cd]
    IN  /\ Room(SidOf[d]) /\ (old.cd = None => TableRoom)
        /\ masters' = [found.list EXCEPT ![found.at] = m]
        /\ smmu_strtab_init_level2(d)
        /\ live' = live \cup {m.cd}
        /\ cds' = [cds EXCEPT ![m.cd] = [held EXCEPT ![s] = p]]
        /\ ste' = [ste EXCEPT ![SmmuOf[d]][m.sid] = m.cd]
        /\ smmu_tlbi_cfgi(SmmuOf[d])
        /\ last' = <<"map", d, s, p>>

(* The returns of val_smmu_map that report an error: the SMMU lacks the     *)
(* stage, or there is no memory for the level 2 table, for the descriptor   *)
(* table, or for its leaf when the table itself has been allocated.         *)
val_smmu_map_fails(d) ==
    \E found \in {smmu_master_at(SidOf[d])} :
    LET m == Owned(found.list[found.at], d)
        t == smmu_cdtab_alloc(m)
    IN  /\ \/ /\ Room(SidOf[d])
              /\ masters' = [found.list EXCEPT ![found.at] = m]
              /\ UNCHANGED <<level1, l2ptr, live, cds>>
           \/ /\ Room(SidOf[d])
              /\ masters' = [found.list EXCEPT ![found.at] = m]
              /\ smmu_strtab_init_level2(d)
              /\ UNCHANGED <<live, cds>>
           \/ /\ Room(SidOf[d]) /\ m.cd = None /\ TableRoom
              /\ masters' = [found.list EXCEPT ![found.at] = t]
              /\ smmu_strtab_init_level2(d)
              /\ live' = live \cup {t.cd}
              /\ cds' = [cds EXCEPT ![t.cd] = [x \in Ssids |-> None]]
           \/ ~Room(SidOf[d]) /\ UNCHANGED <<masters, level1, l2ptr, live, cds>>
        /\ last' = <<"fail">>
        /\ UNCHANGED <<ste, cache>>

(* The entry is addressed as in a linear table. Its three words lie on      *)
(* level 1 entries when the table has two levels.                           *)
ClearEntry(u, sid) ==
    IF TwoLevel
    THEN /\ level1' = [level1 EXCEPT ![u] = @ \ (Dwords * sid .. Dwords * sid + 2)]
         /\ UNCHANGED ste
    ELSE /\ ste' = [ste EXCEPT ![u][sid] = None]
         /\ UNCHANGED level1

(* The descriptor table is kept for the next mapping of the stream.         *)
KeepTable(m) == UNCHANGED live

smmu_cdtab_free(m) == live' = live \ {m.cd}

val_smmu_unmap(d) ==
    \E found \in {smmu_master_at(SidOf[d])} :
    LET m == found.list[found.at]
    IN  /\ IF m.smmu = None
           THEN /\ masters' = IF Room(SidOf[d]) THEN found.list ELSE masters
                /\ UNCHANGED <<level1, ste, live, cache>>
           ELSE /\ ClearEntry(m.smmu, SidOf[d])
                /\ smmu_cdtab_free(m)
                /\ smmu_tlbi_cfgi(m.smmu)
                /\ masters' = [found.list EXCEPT ![found.at] = Cleared]
        /\ last' = <<"unmap", d>>
        /\ UNCHANGED <<l2ptr, cds>>
-----------------------------------------------------------------------------
(* The SMMU's walk from the stream table to a page table.                   *)
Walk(d, s) ==
    LET u == SmmuOf[d]
        cd == ste[u][SidOf[d]]
    IN  IF (TwoLevel /\ SidOf[d] \div Split \notin level1[u]) \/ cd = None THEN None
        ELSE IF cd \in live THEN cds[cd][s] ELSE Dangling

Lookup(d, s) ==
    IF <<d, s>> \in DOMAIN cache[SmmuOf[d]] THEN cache[SmmuOf[d]][<<d, s>>] ELSE Walk(d, s)

(* A DMA of the device makes the SMMU cache the walk.                       *)
Fetch(d, s) ==
    LET u == SmmuOf[d]
    IN  /\ <<d, s>> \notin DOMAIN cache[u]
        /\ cache' = [cache EXCEPT ![u] = [l \in DOMAIN @ \cup {<<d, s>>} |-> Lookup(l[1], l[2])]]
        /\ UNCHANGED <<masters, level1, l2ptr, ste, live, cds, last>>

StreamNext ==
    \E d \in Devices :
        \/ val_smmu_map_fails(d)
        \/ val_smmu_unmap(d)
        \/ \E s \in Ssids : Fetch(d, s) \/ \E p \in Pgts : val_smmu_map(d, s, p)

StreamSpec == StreamInit /\ [][StreamNext]_streamVars
-----------------------------------------------------------------------------
(* Table numbers, list nodes and cached walks are well formed.              *)
StreamTypeOK ==
    /\ masters \in Seq([smmu : StreamSmmus \cup {None}, sid : Sids \cup {0}, cd : Tables \cup {None}])
    /\ Len(masters) =< MaxNodes
    /\ ste \in [StreamSmmus -> [Sids -> Tables \cup {None}]]
    /\ live \subseteq Tables
    /\ \A u \in StreamSmmus : level1[u] \subseteq l2ptr[u]

through == [d \in Devices |-> [s \in Ssids |-> Lookup(d, s)]]

SM == INSTANCE StreamMap WITH Devices <- Devices, Ssids <- Ssids, Pgts <- Pgts, None <- None,
                             through <- through

(* Through the tables and caches of the SMMUs every device reaches exactly  *)
(* what its callers mapped last, whatever else was mapped, unmapped or      *)
(* failed to be mapped meanwhile.                                           *)
Implements == SM!Spec

(* After val_smmu_unmap no substream of the device is mapped.               *)
UnmapEffective ==
    \A d \in Devices, s \in Ssids : last = <<"unmap", d>> => Lookup(d, s) = None

(* A descriptor table is allocated exactly as long as one master holds it.  *)
NoLeak ==
    /\ live = {masters[i].cd : i \in DOMAIN masters} \ {None}
    /\ \A i, j \in DOMAIN masters : masters[i].cd = masters[j].cd => i = j \/ masters[i].cd = None
=============================================================================
