----------------------------- MODULE PageTable -----------------------------
(***************************************************************************)
(* The translation tables of val/src/acs_pgt.c: val_pgt_create fills the   *)
(* levels from StartLevel to 3 for a region, val_pgt_destroy frees them.   *)
(* Addresses and lengths are counted in pages; a table has E entries and   *)
(* is one page. Attributes are left out.                                   *)
(*                                                                         *)
(* The static counters of the file outlive a call: the number of entries   *)
(* "filled" per level, and offset.                                         *)
(***************************************************************************)
EXTENDS Integers, Sequences, FiniteSets

CONSTANTS
    E,           \* entries of a table, 2^bits_per_level
    StartLevel,  \* 4 - num_pgt_levels
    MaxTables,   \* pages the allocator has
    MaxLength,   \* bound on the length of a region
    MaxRegions,  \* bound on the regions of one call
    MaxCreates,  \* bound on the calls of val_pgt_create
    Observed     \* limits of the code that its callers keep to (see Fits)

(* What the constants must satisfy.                                         *)
PgtAssumption ==
    /\ E \in Nat \ {0, 1} /\ StartLevel \in 0 .. 2 /\ MaxTables \in Nat
    /\ MaxLength \in Nat /\ MaxRegions \in Nat /\ MaxCreates \in Nat
    /\ Observed \subseteq {"one table", "room left"}

VARIABLES
    mem,      \* the tables, Unused where a page is not allocated
    filled,   \* acs_pgt_info: l0_index .. l3_index
    offset,
    pgt_base, \* the table of the caller, 0 when it has none
    want,     \* history: the pages the caller asked for, and where to
    failed,   \* history: a call returned ACS_STATUS_ERR
    creates

vars == <<mem, filled, offset, pgt_base, want, failed, creates>>

Unused == <<>>
Zero == [kind |-> "none", to |-> 0]
EmptyTable == [i \in 0 .. E - 1 |-> Zero]

(* Pages one entry of a level stands for.                                   *)
get_block_size(level) == E ^ (3 - level)

(* The input pages, 2^ias.                                                  *)
Space == get_block_size(StartLevel) * E

NoPages == [a \in {} |-> 0]

Init ==
    /\ mem = [t \in 1 .. MaxTables |-> Unused]
    /\ filled = [l \in 0 .. 3 |-> 0] /\ offset = 0
    /\ pgt_base = 0 /\ want = NoPages /\ failed = FALSE /\ creates = 0
-----------------------------------------------------------------------------

(* One more entry of a level is counted as filled.                          *)
increment_pgt_index(f, level) ==
    IF level \in 1 .. 3 /\ f[level] = E - 1 THEN [f EXCEPT ![level] = 0, ![level - 1] = @ + 1]
    ELSE IF level = 3 THEN [f EXCEPT ![3] = @ + 1]
    ELSE f

Pages(m) == {t \in DOMAIN m : m[t] = Unused}

FirstPage(m) == CHOOSE t \in Pages(m) : \A x \in Pages(m) : t =< x

Least(a, b) == IF a < b THEN a ELSE b

Index(a, level) == (a \div get_block_size(level)) % E

(* Where the next level must stop so that it stays within its table.        *)
NextTop(a, top, level, off) == Least(top, a + get_block_size(level) - off)

(* The static state and the tables, and whether memory ran out.             *)
Store(m, f, o, ok) == [mem |-> m, filled |-> f, offset |-> o, ok |-> ok]

SetEntry(m, t, i, kind, to) == [m EXCEPT ![t][i] = [kind |-> kind, to |-> to]]

(* Bug: the output address is not asked to be aligned.                      *)
BlocksByInput(a, out, top, level) ==
    a % get_block_size(level) = 0 /\ top >= a + get_block_size(level)

IsBlock(a, out, top, level) ==
    /\ a % get_block_size(level) = 0 /\ out % get_block_size(level) = 0
    /\ top >= a + get_block_size(level)

RECURSIVE fill_translation_table(_, _, _, _, _, _)

(* The loop of table t at a level, from input address a up to top, with the *)
(* output address out.                                                      *)
fill_translation_table(s, t, level, a, top, out) ==
    LET i == Index(a, level)
        entry == s.mem[t][i]
        Step(r) == get_block_size(level) - r.offset
        Go(r) == fill_translation_table(r, t, level, a + Step(r), top, out + Step(r))
        Leaf(kind) == Store(SetEntry(s.mem, t, i, kind, out - (out % get_block_size(level))),
                            increment_pgt_index(s.filled, level), 0, TRUE)
        new == entry.kind # "table"
        next == IF new THEN FirstPage(s.mem) ELSE entry.to
        off == s.filled[level + 1] * get_block_size(level + 1)
        below == fill_translation_table(
                     Store(IF new THEN [s.mem EXCEPT ![next] = EmptyTable] ELSE s.mem,
                           increment_pgt_index(s.filled, level), off, TRUE),
                     next, level + 1, a, NextTop(a, top, level, off), out)
    IN  IF a >= top \/ ~s.ok THEN s
        ELSE IF level = 3 THEN Go(Leaf("page"))
        ELSE IF IsBlock(a, out, top, level) THEN Go(Leaf("block"))
        ELSE IF new /\ Pages(s.mem) = {} THEN [s EXCEPT !.ok = FALSE]
        ELSE IF ~below.ok THEN [below EXCEPT !.mem[next] = Unused]
        ELSE Go([below EXCEPT !.mem = SetEntry(@, t, i, "table", next)])

Build(s, t, r, k) ==
    LET f[i \in 0 .. k] ==
            IF i = 0 THEN s
            ELSE fill_translation_table(f[i - 1], t, StartLevel, r.va % Space,
                                        (r.va % Space) + r.n, r.pa)
    IN  f[k]

(* Pages and targets of a region: what the caller means by it.              *)
Meaning(r) == [a \in {x % Space : x \in r.va .. r.va + r.n - 1} |->
                  r.pa + ((a - r.va) % Space)]

Override(f, g) == [a \in DOMAIN f \cup DOMAIN g |-> IF a \in DOMAIN g THEN g[a] ELSE f[a]]

AllMeanings(rs) ==
    LET f[i \in 0 .. Len(rs)] ==
            IF i = 0 THEN want ELSE Override(f[i - 1], Meaning(rs[i]))
    IN  f[Len(rs)]

Shifts == {0, 1}

Region == {[va |-> v, pa |-> v + s, n |-> l] : v \in 0 .. Space - 1, s \in Shifts,
                                              l \in 1 .. MaxLength}

Aligned(r, level) ==
    r.va % get_block_size(level) = 0 /\ r.pa % get_block_size(level) = 0

(* A new region within the limits the callers keep to: "one table", it is   *)
(* one block or does not cross the boundary of a table; "room left", it is  *)
(* one block or its tables have that many entries not counted as filled.    *)
Fits(r) ==
    /\ r.va + r.n =< Space
    /\ DOMAIN Meaning(r) \cap DOMAIN want = {}
    /\ \E top \in StartLevel .. 3 :
          /\ top < 3 => Aligned(r, top) /\ r.n = get_block_size(top)
          /\ \A l \in StartLevel .. top - 1 :
                /\ "one table" \in Observed =>
                     r.va \div get_block_size(l) = (r.va + r.n - 1) \div get_block_size(l)
                /\ "room left" \in Observed =>
                     r.n =< get_block_size(l) - (filled[l + 1] * get_block_size(l + 1))
(* Regions of one call that fit and do not overlap.                         *)
Allowed(rs) ==
    /\ \A i \in DOMAIN rs : Fits(rs[i])
    /\ \A i, j \in DOMAIN rs :
          i # j => DOMAIN Meaning(rs[i]) \cap DOMAIN Meaning(rs[j]) = {}
-----------------------------------------------------------------------------
(* The base of the caller, or a new page.                                   *)
Base == IF pgt_base = 0 THEN FirstPage(mem) ELSE pgt_base

(* The table after the loop over the regions rs; each round of it reads     *)
(* *mem_desc, the first region.                                             *)
Filling(rs) ==
    LET m == IF pgt_base = 0 THEN [mem EXCEPT ![Base] = EmptyTable] ELSE mem
    IN  Build(Store(m, filled, offset, TRUE), Base, rs[1], Len(rs))

CanStart == pgt_base = 0 => Pages(mem) # {}

val_pgt_create(rs) ==
    /\ creates < MaxCreates /\ Allowed(rs) /\ CanStart
    /\ LET s == Filling(rs)
       IN  /\ s.ok
           /\ mem' = s.mem /\ filled' = s.filled /\ offset' = s.offset
    /\ pgt_base' = Base /\ want' = AllMeanings(rs) /\ creates' = creates + 1
    /\ UNCHANGED failed

(* Out of memory: the base is freed, and its caller gives the table up.     *)
CreateFails(rs) ==
    /\ creates < MaxCreates /\ Allowed(rs)
    /\ \/ /\ ~CanStart
          /\ UNCHANGED <<mem, filled, offset>>
       \/ /\ CanStart
          /\ LET s == Filling(rs)
             IN  /\ ~s.ok
                 /\ mem' = [s.mem EXCEPT ![Base] = Unused]
                 /\ filled' = s.filled /\ offset' = s.offset
    /\ failed' = TRUE /\ pgt_base' = 0 /\ want' = NoPages /\ creates' = creates + 1

(* An unaligned or too large address: the call returns with a new base      *)
(* allocated that it gives to nobody.                                       *)
CreateRejects ==
    /\ creates < MaxCreates /\ pgt_base = 0 /\ Pages(mem) # {}
    /\ mem' = [mem EXCEPT ![FirstPage(mem)] = EmptyTable]
    /\ failed' = TRUE /\ creates' = creates + 1
    /\ UNCHANGED <<filled, offset, pgt_base, want>>

RECURSIVE TablesOf(_, _, _)

TablesOf(m, t, level) ==
    {t} \cup (IF level = 3 THEN {}
             ELSE UNION {TablesOf(m, m[t][i].to, level + 1) :
                           i \in {j \in 0 .. E - 1 : m[t][j].kind = "table"}})

free_translation_table(m, t) ==
    [x \in DOMAIN m |-> IF x \in TablesOf(m, t, StartLevel) THEN Unused ELSE m[x]]

val_pgt_destroy ==
    /\ pgt_base # 0
    /\ mem' = free_translation_table(mem, pgt_base)
    /\ pgt_base' = 0 /\ want' = NoPages
    /\ UNCHANGED <<filled, offset, failed, creates>>

Regions == UNION {[1 .. k -> Region] : k \in 1 .. MaxRegions}

Next ==
    \/ \E rs \in Regions : val_pgt_create(rs)
    \/ \E rs \in Regions : CreateFails(rs)
    \/ CreateRejects
    \/ val_pgt_destroy

Spec == Init /\ [][Next]_vars
-----------------------------------------------------------------------------
(* Where the hardware walk of table t takes page a; -1 for a fault.         *)
RECURSIVE Walk(_, _, _)

Walk(t, level, a) ==
    LET e == mem[t][Index(a, level)]
    IN  CASE e.kind = "none" -> -1
          [] e.kind = "page" -> e.to
          [] e.kind = "block" -> e.to + (a % get_block_size(level))
          [] OTHER -> Walk(e.to, level + 1, a)

(* Type correctness: every page is unused or a table whose entries are      *)
(* empty, map a page or a block, or name a table, and the counters of       *)
(* acs_pgt_info stay within one table.                                      *)
TypeOK ==
    /\ \A t \in DOMAIN mem :
          mem[t] = Unused
          \/ \A i \in 0 .. E - 1 : mem[t][i].kind \in {"none", "page", "block", "table"}
    /\ filled[3] \in 0 .. E - 1 /\ filled \in [0 .. 3 -> 0 .. E]
    /\ offset \in 0 .. Space /\ pgt_base \in 0 .. MaxTables /\ failed \in BOOLEAN
    /\ creates \in 0 .. MaxCreates

(* After any sequence of val_pgt_create calls the walk of the caller's      *)
(* table finds exactly the pages it asked for, each at its own output       *)
(* address, and faults everywhere else.                                     *)
Translates ==
    pgt_base # 0 =>
        \A a \in 0 .. Space - 1 :
            Walk(pgt_base, StartLevel, a) = IF a \in DOMAIN want THEN want[a] ELSE -1

(* As long as no call failed, every page the code allocated is a table of   *)
(* the caller's hierarchy: val_pgt_destroy leaves none behind.              *)
NoLeak ==
    ~failed =>
        {t \in DOMAIN mem : mem[t] # Unused}
            = IF pgt_base = 0 THEN {} ELSE TablesOf(mem, pgt_base, StartLevel)

(* No table is reachable twice or after it was freed: the entries that name *)
(* tables name distinct, allocated pages.                                   *)
TablesAreATree ==
    LET links == {<<t, i>> \in (DOMAIN mem) \X (0 .. E - 1) :
                    mem[t] # Unused /\ mem[t][i].kind = "table"}
        Target(l) == mem[l[1]][l[2]].to
    IN  \A l \in links :
            /\ mem[Target(l)] # Unused
            /\ \A k \in links : Target(k) = Target(l) => k = l
=============================================================================
