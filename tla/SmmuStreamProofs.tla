-------------------------- MODULE SmmuStreamProofs --------------------------
(***************************************************************************)
(* No descriptor table leaks whatever the stream tables, the streams and   *)
(* the failures; and with linear stream tables and streams of their own    *)
(* the devices reach exactly what their callers mapped. For any number of  *)
(* SMMUs, any failures and any unacknowledged writes: memory is there as   *)
(* long as it is used and freed in the end, and success of val_smmu_init   *)
(* means translation.                                                      *)
(***************************************************************************)
EXTENDS SmmuStream, SmmuLife, SequenceTheorems, WellFoundedInduction, TLAPS

USE SMTT(15), ZenonT(60)

(* A set of numbers that is not empty has a least element.                  *)
LEMMA LeastOf ==
    ASSUME NEW T \in SUBSET Nat, T # {}
    PROVE  \E x \in T : \A y \in T : x =< y
  <1> DEFINE R == {ss \in Nat \X Nat : ss[1] < ss[2]}
  <1>1. IsWellFoundedOn(R, Nat)
    BY NatLessThanWellFounded DEF OpToRel
  <1>2. PICK x \in T : \A y \in T : ~(<<y, x>> \in R)
    <2> HIDE DEF R
    <2> QED
      BY <1>1, WFMin, ZenonT(60)
  <1>3. ASSUME NEW y \in T PROVE x =< y
    <2>1. x \in Nat /\ y \in Nat /\ <<y, x>> \in Nat \X Nat
      OBVIOUS
    <2>2. ~(y < x)
      BY <1>2, <2>1
    <2>3. QED
      BY <2>1, <2>2
  <1>4. QED
    BY <1>3
-----------------------------------------------------------------------------
(* The list of masters and the tables its nodes hold.                       *)
Node == [smmu : StreamSmmus \cup {None}, sid : Sids \cup {0}, cd : Tables \cup {None}]

TablesOf(list) == {list[i].cd : i \in DOMAIN list} \ {None}

Apart(list) ==
    \A i, j \in DOMAIN list : list[i].cd = list[j].cd => i = j \/ list[i].cd = None

LeakInv ==
    /\ masters \in Seq(Node) /\ live \subseteq Tables
    /\ Apart(masters) /\ live = TablesOf(masters)

LEMMA TableFacts == None \notin Tables /\ Tables \subseteq Nat /\ Cleared \in Node /\ Cleared.cd = None
  <1>1. MaxNodes \in Nat /\ None \notin Nat
    BY StreamAssumption
  <1>2. Cleared \in Node
    BY DEF Cleared, Node
  <1>3. QED
    BY <1>1, <1>2 DEF Tables, Cleared

(* smmu_master_at gives a list with the same tables and a node of it.       *)
LEMMA FoundKeeps ==
    ASSUME LeakInv, NEW sid, NEW found, found = smmu_master_at(sid)
    PROVE  /\ found.list \in Seq(Node) /\ found.at \in DOMAIN found.list
           /\ Apart(found.list) /\ live = TablesOf(found.list)
  <1>1. CASE Matches(sid) # {}
    <2>1. found = [list |-> masters, at |-> First(sid)]
      BY <1>1 DEF smmu_master_at
    <2>2. Matches(sid) \in SUBSET Nat
      BY DEF LeakInv, Matches
    <2>3. \E i \in Matches(sid) : \A j \in Matches(sid) : i =< j
      BY <1>1, <2>2, LeastOf
    <2>4. First(sid) \in Matches(sid)
      BY <2>3 DEF First
    <2>5. QED
      BY <2>1, <2>4 DEF LeakInv, Matches
  <1>2. CASE Matches(sid) = {}
    <2>1. found = [list |-> <<Cleared>> \o masters, at |-> 1]
      BY <1>2 DEF smmu_master_at
    <2> DEFINE new == <<Cleared>> \o masters
    <2>2. masters \in Seq(Node) /\ Len(masters) \in Nat /\ DOMAIN masters = 1 .. Len(masters)
      BY DEF LeakInv
    <2>3. new \in Seq(Node) /\ Len(new) = Len(masters) + 1 /\ DOMAIN new = 1 .. Len(masters) + 1
      BY <2>2, TableFacts
    <2>4. new[1] = Cleared /\ \A i \in DOMAIN masters : new[i + 1] = masters[i]
      BY <2>2, TableFacts
    <2>5. \A i \in DOMAIN new : i = 1 \/ (i - 1 \in DOMAIN masters /\ new[i] = masters[i - 1])
      BY <2>2, <2>3, <2>4
    <2>6. \A i \in DOMAIN masters : i + 1 \in DOMAIN new
      BY <2>2, <2>3
    <2> HIDE DEF new
    <2>7. Apart(new)
      <3> SUFFICES ASSUME NEW i \in DOMAIN new, NEW j \in DOMAIN new, new[i].cd = new[j].cd,
                          new[i].cd # None
                   PROVE  i = j
        BY DEF Apart
      <3>1. i # 1 /\ j # 1
        BY <2>4, TableFacts
      <3>2. /\ i - 1 \in DOMAIN masters /\ new[i] = masters[i - 1]
            /\ j - 1 \in DOMAIN masters /\ new[j] = masters[j - 1]
        BY <2>5, <3>1
      <3>3. i - 1 = j - 1
        BY <3>2 DEF LeakInv, Apart
      <3>4. QED
        BY <2>3, <3>3
    <2>8. TablesOf(new) = TablesOf(masters)
      <3>1. TablesOf(new) \subseteq TablesOf(masters)
        BY <2>4, <2>5, TableFacts DEF TablesOf
      <3>2. TablesOf(masters) \subseteq TablesOf(new)
        <4> SUFFICES ASSUME NEW i \in DOMAIN masters PROVE \E j \in DOMAIN new : new[j].cd = masters[i].cd
          BY DEF TablesOf
        <4> QED
          BY <2>4, <2>6
      <3>3. QED
        BY <3>1, <3>2, ZenonT(60)
    <2>9. QED
      BY <2>1, <2>2, <2>3, <2>7, <2>8 DEF LeakInv, new
  <1>3. QED
    BY <1>1, <1>2

Put(list, at, m) == [list EXCEPT ![at] = m]

Fits(m, list, at) == m.cd \in {None, list[at].cd} \/ m.cd \notin TablesOf(list)

(* A node is overwritten: its old table is gone from the list, the new one  *)
(* comes in.                                                                *)
LEMMA Replaced ==
    ASSUME NEW list \in Seq(Node), NEW at \in DOMAIN list, NEW m \in Node, Apart(list),
           Fits(m, list, at)
    PROVE  /\ Put(list, at, m) \in Seq(Node) /\ Apart(Put(list, at, m))
           /\ TablesOf(Put(list, at, m)) = (TablesOf(list) \ {list[at].cd}) \cup ({m.cd} \ {None})
  <1> DEFINE new == Put(list, at, m)
  <1>1. /\ new \in Seq(Node) /\ DOMAIN new = DOMAIN list
        /\ new[at] = m /\ \A i \in DOMAIN list : i # at => new[i] = list[i]
    BY ExceptSeq DEF Put
  <1> HIDE DEF new
  <1>2. \A i \in DOMAIN list : i # at => list[i].cd = None \/ list[i].cd # m.cd
    BY DEF Fits, Apart, TablesOf
  <1>3. Apart(new)
    BY <1>1, <1>2 DEF Apart
  <1>4. TablesOf(new) \subseteq (TablesOf(list) \ {list[at].cd}) \cup ({m.cd} \ {None})
    <2> SUFFICES ASSUME NEW i \in DOMAIN list, new[i].cd # None
                 PROVE  new[i].cd \in (TablesOf(list) \ {list[at].cd}) \cup ({m.cd} \ {None})
      BY <1>1 DEF TablesOf
    <2>1. CASE i = at
      BY <1>1, <2>1
    <2>2. CASE i # at
      BY <1>1, <2>2, ZenonT(60) DEF TablesOf, Apart
    <2>3. QED
      BY <2>1, <2>2, ZenonT(60)
  <1>5. (TablesOf(list) \ {list[at].cd}) \cup ({m.cd} \ {None}) \subseteq TablesOf(new)
    <2>1. {m.cd} \ {None} \subseteq TablesOf(new)
      BY <1>1 DEF TablesOf
    <2>2. ASSUME NEW i \in DOMAIN list, list[i].cd # None, list[i].cd # list[at].cd
          PROVE  list[i].cd \in TablesOf(new)
      BY <1>1, <2>2 DEF TablesOf
    <2>3. QED
      BY <2>1, <2>2 DEF TablesOf
  <1>6. QED
    BY <1>1, <1>3, <1>4, <1>5, ZenonT(60) DEF new

(* What val_smmu_map makes of the node it found: an owner that is not there *)
(* yet, and the least free table when it has none.                          *)
LEMMA OwnedFacts ==
    ASSUME NEW m \in Node, NEW d \in Devices
    PROVE  Owned(m, d) \in Node /\ Owned(m, d).cd = m.cd
  <1>1. SmmuOf[d] \in StreamSmmus /\ SidOf[d] \in Sids
    BY DEF StreamSmmus, Sids
  <1>2. QED
    BY <1>1, ZenonT(60) DEF Owned, Node

LEMMA AllocFacts ==
    ASSUME NEW m \in Node, LeakInv, m.cd = None => TableRoom
    PROVE  /\ smmu_cdtab_alloc(m) \in Node
           /\ smmu_cdtab_alloc(m).smmu = m.smmu /\ smmu_cdtab_alloc(m).sid = m.sid
           /\ m.cd # None => smmu_cdtab_alloc(m) = m
           /\ m.cd = None => smmu_cdtab_alloc(m).cd \in Tables \ live
  <1>1. CASE m.cd # None
    BY <1>1 DEF smmu_cdtab_alloc
  <1>2. CASE m.cd = None
    <2> DEFINE t == CHOOSE t \in Tables \ live : \A x \in Tables \ live : t =< x
    <2>1. Tables \ live \in SUBSET Nat /\ Tables \ live # {}
      BY <1>2, TableFacts, ZenonT(60) DEF TableRoom
    <2>2. \E x \in Tables \ live : \A y \in Tables \ live : x =< y
      BY <2>1, LeastOf, ZenonT(60)
    <2>3. t \in Tables \ live
      BY <2>2
    <2>4. smmu_cdtab_alloc(m) = [m EXCEPT !.cd = t]
      BY <1>2 DEF smmu_cdtab_alloc
    <2> HIDE DEF t
    <2>5. QED
      BY <1>2, <2>3, <2>4 DEF Node
  <1>3. QED
    BY <1>1, <1>2, ZenonT(60)

(* A node m takes the place of the one that was found, and the tables       *)
(* allocated follow.                                                        *)
LEMMA ListKept ==
    ASSUME LeakInv, NEW sid, NEW found, found = smmu_master_at(sid), NEW m \in Node,
           m.cd \in {None, found.list[found.at].cd} \/ m.cd \notin live,
           masters' = [found.list EXCEPT ![found.at] = m],
           live' = (live \ {found.list[found.at].cd}) \cup ({m.cd} \ {None})
    PROVE  LeakInv'
  <1>1. /\ found.list \in Seq(Node) /\ found.at \in DOMAIN found.list
        /\ Apart(found.list) /\ live = TablesOf(found.list)
    BY FoundKeeps, ZenonT(60)
  <1>2. /\ masters' \in Seq(Node) /\ Apart(masters') /\ live' = TablesOf(masters')
    <2> DEFINE list == found.list
               at == found.at
    <2>1. list \in Seq(Node) /\ at \in DOMAIN list /\ Apart(list) /\ live = TablesOf(list)
      BY <1>1, ZenonT(60)
    <2>2. Fits(m, list, at)
      BY <1>1, ZenonT(60) DEF Fits
    <2>3. /\ masters' = Put(list, at, m)
          /\ live' = (TablesOf(list) \ {list[at].cd}) \cup ({m.cd} \ {None})
      BY <1>1, ZenonT(60) DEF Put
    <2> HIDE DEF list, at
    <2>4. /\ Put(list, at, m) \in Seq(Node) /\ Apart(Put(list, at, m))
          /\ TablesOf(Put(list, at, m)) = (TablesOf(list) \ {list[at].cd}) \cup ({m.cd} \ {None})
      BY <2>1, <2>2, Replaced, ZenonT(60)
    <2>5. QED
      BY <2>3, <2>4, ZenonT(60)
  <1>3. live' \subseteq Tables
    BY ZenonT(60) DEF LeakInv, Node
  <1>4. QED
    BY <1>2, <1>3, ZenonT(60) DEF LeakInv, Apart, TablesOf

LEMMA MapLeaks ==
    ASSUME LeakInv, NEW d \in Devices, NEW s, NEW p, val_smmu_map(d, s, p)
    PROVE  LeakInv'
  <1> DEFINE found == smmu_master_at(SidOf[d])
             old == found.list[found.at]
             m == smmu_cdtab_alloc(Owned(old, d))
  <1>1. /\ masters' = [found.list EXCEPT ![found.at] = m] /\ live' = live \cup {m.cd}
        /\ old.cd = None => TableRoom
    BY ZenonT(60) DEF val_smmu_map
  <1>2. old \in Node /\ live = TablesOf(found.list) /\ old.cd \in live \cup {None}
    <2>1. /\ found.list \in Seq(Node) /\ found.at \in DOMAIN found.list /\ live = TablesOf(found.list)
      BY FoundKeeps
    <2>2. QED
      BY <2>1 DEF TablesOf
  <1>3. Owned(old, d) \in Node /\ Owned(old, d).cd = old.cd
    BY <1>2, OwnedFacts, ZenonT(60)
  <1>4. /\ m \in Node
        /\ old.cd # None => m.cd = old.cd
        /\ old.cd = None => m.cd \in Tables \ live
    BY <1>1, <1>3, AllocFacts, ZenonT(60)
  <1> HIDE DEF m
  <1>5. live' = (live \ {old.cd}) \cup ({m.cd} \ {None})
    BY <1>1, <1>2, <1>4, TableFacts, ZenonT(60) DEF LeakInv
  <1>6. QED
    BY <1>1, <1>4, <1>5, ListKept, ZenonT(60)

LEMMA MapFailsLeaks ==
    ASSUME LeakInv, NEW d \in Devices, val_smmu_map_fails(d)
    PROVE  LeakInv'
  <1> DEFINE found == smmu_master_at(SidOf[d])
             old == found.list[found.at]
             m == Owned(old, d)
             t == smmu_cdtab_alloc(m)
  <1>1. old \in Node /\ live = TablesOf(found.list) /\ old.cd \in live \cup {None}
    <2>1. /\ found.list \in Seq(Node) /\ found.at \in DOMAIN found.list /\ live = TablesOf(found.list)
      BY FoundKeeps
    <2>2. QED
      BY <2>1 DEF TablesOf
  <1>2. m \in Node /\ m.cd = old.cd
    BY <1>1, OwnedFacts, ZenonT(60)
  <1>3. CASE masters' = [found.list EXCEPT ![found.at] = m] /\ live' = live
    <2> HIDE DEF m
    <2>1. live' = (live \ {old.cd}) \cup ({m.cd} \ {None})
      BY <1>1, <1>2, <1>3, TableFacts, ZenonT(60) DEF LeakInv
    <2>2. QED
      BY <1>2, <1>3, <2>1, ListKept, ZenonT(60)
  <1>4. CASE /\ m.cd = None /\ TableRoom
             /\ masters' = [found.list EXCEPT ![found.at] = t] /\ live' = live \cup {t.cd}
    <2>1. t \in Node /\ t.cd \in Tables \ live
      BY <1>2, <1>4, AllocFacts, ZenonT(60)
    <2> HIDE DEF t
    <2>2. live' = (live \ {old.cd}) \cup ({t.cd} \ {None})
      BY <1>1, <1>2, <1>4, <2>1, TableFacts, ZenonT(60) DEF LeakInv
    <2>3. QED
      BY <1>4, <2>1, <2>2, ListKept, ZenonT(60)
  <1>5. CASE masters' = masters /\ live' = live
    BY <1>5 DEF LeakInv, Apart, TablesOf
  <1>6. QED
    BY <1>3, <1>4, <1>5, ZenonT(60) DEF val_smmu_map_fails

LEMMA UnmapLeaks ==
    ASSUME LeakInv, NEW d \in Devices, val_smmu_unmap(d)
    PROVE  LeakInv'
  <1> DEFINE found == smmu_master_at(SidOf[d])
             old == found.list[found.at]
  <1>1. /\ found.list \in Seq(Node) /\ found.at \in DOMAIN found.list
        /\ Apart(found.list) /\ live = TablesOf(found.list)
    BY FoundKeeps
  <1>2. CASE masters' = [found.list EXCEPT ![found.at] = Cleared] /\ live' = live \ {old.cd}
    <2>1. live' = (live \ {old.cd}) \cup ({Cleared.cd} \ {None})
      BY <1>2, TableFacts, ZenonT(60)
    <2>2. QED
      BY <1>2, <2>1, TableFacts, ListKept, ZenonT(60)
  <1>3. CASE masters' = found.list /\ live' = live
    <2> HIDE DEF found
    <2>1. /\ masters' \in Seq(Node) /\ Apart(masters') /\ live' = TablesOf(masters')
      BY <1>1, <1>3
    <2>2. live' \subseteq Tables
      BY <1>3 DEF LeakInv
    <2>3. QED
      BY <2>1, <2>2, ZenonT(60) DEF LeakInv, Apart, TablesOf
  <1>4. CASE masters' = masters /\ live' = live
    BY <1>4 DEF LeakInv, Apart, TablesOf
  <1>5. QED
    BY <1>2, <1>3, <1>4, ZenonT(60) DEF val_smmu_unmap, smmu_cdtab_free

LEMMA LeakStep == ASSUME LeakInv, [StreamNext]_streamVars PROVE LeakInv'
  <1>1. CASE \E d \in Devices, s \in Ssids : Fetch(d, s)
    BY <1>1 DEF Fetch, LeakInv, Apart, TablesOf
  <1>2. CASE UNCHANGED streamVars
    BY <1>2 DEF streamVars, LeakInv, Apart, TablesOf
  <1>3. QED
    BY <1>1, <1>2, MapLeaks, MapFailsLeaks, UnmapLeaks, ZenonT(60) DEF StreamNext

LEMMA LeakHolds == StreamSpec => []LeakInv
  <1>1. StreamInit => LeakInv
    BY DEF StreamInit, LeakInv, Apart, TablesOf
  <1>2. QED
    BY <1>1, LeakStep, PTL DEF StreamSpec

(* For any devices and streams, linear or two-level tables, and whichever   *)
(* step of val_smmu_map fails: a descriptor table is allocated exactly as   *)
(* long as one node of the list of masters holds it.                        *)
THEOREM NoTableLeaks == StreamSpec => []NoLeak
  <1>1. LeakInv => NoLeak
    BY DEF LeakInv, NoLeak, Apart, TablesOf
  <1>2. QED
    BY <1>1, LeakHolds, PTL
-----------------------------------------------------------------------------
(* Linear stream tables, and streams that are told apart by their number,   *)
(* which is not that of a cleared node: what the search of the list by      *)
(* stream number needs.                                                     *)
Separate ==
    /\ ~TwoLevel
    /\ \A d, e \in Devices : SidOf[d] = SidOf[e] => d = e
    /\ \A d \in Devices : SidOf[d] # 0

Blank == [x \in Ssids |-> None]

Entry(d) == ste[SmmuOf[d]][SidOf[d]]

Reach(d, s) == IF Entry(d) = None THEN None ELSE cds[Entry(d)][s]

(* A node is cleared or belongs to a device, no two of them to the same.    *)
ListInv(list) ==
    /\ \A i \in DOMAIN list :
          list[i] = Cleared \/ \E d \in Devices : list[i].smmu = SmmuOf[d] /\ list[i].sid = SidOf[d]
    /\ \A i, j \in DOMAIN list : list[i].sid = list[j].sid => i = j \/ list[i].sid = 0

(* The entry of a stream names the table of the device's own node; a table  *)
(* that is in no entry yet, left by a mapping that failed, is blank.        *)
EntryOK(list, d) ==
    /\ Entry(d) # None => \E i \in DOMAIN list : list[i].sid = SidOf[d] /\ list[i].cd = Entry(d)
    /\ Entry(d) = None =>
          \A i \in DOMAIN list :
              (list[i].sid = SidOf[d] /\ list[i].cd # None) => cds[list[i].cd] = Blank

ContentInv ==
    /\ ste \in [StreamSmmus -> [Sids -> Tables \cup {None}]]
    /\ cds \in [Tables -> [Ssids -> Pgts \cup {None}]]
    /\ ListInv(masters)
    /\ \A d \in Devices : EntryOK(masters, d)

(* An SMMU has cached nothing but what its tables say.                      *)
CacheInv ==
    /\ DOMAIN cache = StreamSmmus
    /\ \A u \in StreamSmmus : \A l \in DOMAIN cache[u] :
          \E d \in Devices, s \in Ssids :
              l = <<d, s>> /\ SmmuOf[d] = u /\ cache[u][l] = Reach(d, s)

StreamInv == LeakInv /\ ContentInv /\ CacheInv

ReachKept(d) == \A s \in Ssids : Reach(d, s)' = Reach(d, s)

LEMMA StreamFacts ==
    ASSUME NEW d \in Devices
    PROVE  /\ SmmuOf[d] \in StreamSmmus /\ SidOf[d] \in Sids
           /\ SmmuOf[d] # None /\ Cleared.smmu = None /\ Cleared.sid = 0
  BY StreamAssumption, ZenonT(60) DEF StreamSmmus, Sids, Cleared

(* The node smmu_master_at finds for a device is cleared or the device's,   *)
(* and no other node is.                                                    *)
LEMMA FoundIsOwn ==
    ASSUME Separate, LeakInv, ContentInv, NEW d \in Devices,
           NEW found, found = smmu_master_at(SidOf[d])
    PROVE  /\ ListInv(found.list)
           /\ \A e \in Devices : EntryOK(found.list, e)
           /\ \A i \in DOMAIN found.list : i # found.at => found.list[i].sid # SidOf[d]
           /\ \/ found.list[found.at] = Cleared
              \/ /\ found.list[found.at].smmu = SmmuOf[d]
                 /\ found.list[found.at].sid = SidOf[d]
  <1>1. CASE Matches(SidOf[d]) # {}
    <2>1. found = [list |-> masters, at |-> First(SidOf[d])]
      BY <1>1 DEF smmu_master_at
    <2>2. \E i \in Matches(SidOf[d]) : \A j \in Matches(SidOf[d]) : i =< j
      <3>1. Matches(SidOf[d]) \in SUBSET Nat
        BY DEF LeakInv, Matches
      <3>2. QED
        BY <1>1, <3>1, LeastOf, ZenonT(60)
    <2>3. First(SidOf[d]) \in Matches(SidOf[d])
      BY <2>2 DEF First
    <2>4. found.at \in DOMAIN masters /\ masters[found.at].sid = SidOf[d] /\ found.list = masters
      BY <2>1, <2>3 DEF Matches
    <2>5. SidOf[d] # 0 /\ masters[found.at] # Cleared
      BY <2>4, StreamFacts, ZenonT(60) DEF Separate
    <2>6. masters[found.at].smmu = SmmuOf[d]
      BY <2>4, <2>5 DEF ContentInv, ListInv, Separate
    <2>7. QED
      BY <2>4, <2>5, <2>6, ZenonT(60) DEF ContentInv, ListInv
  <1>2. CASE Matches(SidOf[d]) = {}
    <2> DEFINE new == <<Cleared>> \o masters
    <2>1. found.list = new /\ found.at = 1
      BY <1>2 DEF smmu_master_at
    <2>2. masters \in Seq(Node) /\ Len(masters) \in Nat /\ DOMAIN masters = 1 .. Len(masters)
      BY DEF LeakInv
    <2>3. new \in Seq(Node) /\ Len(new) = Len(masters) + 1 /\ DOMAIN new = 1 .. Len(masters) + 1
      BY <2>2, TableFacts
    <2>4. new[1] = Cleared /\ \A i \in DOMAIN masters : i + 1 \in DOMAIN new /\ new[i + 1] = masters[i]
      BY <2>2, <2>3, TableFacts
    <2>5. \A i \in DOMAIN new : i = 1 \/ (i - 1 \in DOMAIN masters /\ new[i] = masters[i - 1])
      BY <2>2, <2>3, <2>4
    <2>6. \A i, j \in DOMAIN new : i - 1 = j - 1 => i = j
      BY <2>2, <2>3
    <2> HIDE DEF new
    <2>7. ListInv(new)
      <3>1. ASSUME NEW i \in DOMAIN new
            PROVE  new[i] = Cleared \/ \E e \in Devices : new[i].smmu = SmmuOf[e] /\ new[i].sid = SidOf[e]
        BY <2>4, <2>5 DEF ContentInv, ListInv
      <3>2. ASSUME NEW i \in DOMAIN new, NEW j \in DOMAIN new, new[i].sid = new[j].sid, new[i].sid # 0
            PROVE  i = j
        <4>1. i # 1 /\ j # 1
          BY <2>4, <3>2 DEF Cleared
        <4>2. /\ i - 1 \in DOMAIN masters /\ new[i] = masters[i - 1]
              /\ j - 1 \in DOMAIN masters /\ new[j] = masters[j - 1]
          BY <2>5, <4>1, ZenonT(60)
        <4>3. i - 1 = j - 1
          BY <3>2, <4>2, ZenonT(60) DEF ContentInv, ListInv
        <4>4. QED
          BY <2>6, <4>3
      <3>3. QED
        BY <3>1, <3>2, ZenonT(60) DEF ListInv
    <2>8. ASSUME NEW e \in Devices PROVE EntryOK(new, e)
      <3>0. EntryOK(masters, e)
        BY DEF ContentInv
      <3>1. ASSUME Entry(e) # None
            PROVE  \E i \in DOMAIN new : new[i].sid = SidOf[e] /\ new[i].cd = Entry(e)
        BY <2>4, <3>0, <3>1, ZenonT(60) DEF EntryOK
      <3>2. ASSUME Entry(e) = None, NEW i \in DOMAIN new, new[i].sid = SidOf[e], new[i].cd # None
            PROVE  cds[new[i].cd] = Blank
        <4>1. i # 1
          BY <2>4, <3>2, TableFacts, ZenonT(60)
        <4>2. QED
          BY <2>5, <3>0, <3>2, <4>1, ZenonT(60) DEF EntryOK
      <3>3. QED
        BY <3>1, <3>2, ZenonT(60) DEF EntryOK
    <2>9. ASSUME NEW i \in DOMAIN new, i # 1 PROVE new[i].sid # SidOf[d]
      BY <1>2, <2>5, <2>9, ZenonT(60) DEF Matches
    <2>10. QED
      BY <2>1, <2>4, <2>7, <2>8, <2>9, ZenonT(60)
  <1>3. QED
    BY <1>1, <1>2, ZenonT(60)

(* The node of one device is overwritten, and no table of another device:   *)
(* the others find their entries and reach what they reached.               *)
LEMMA OthersKept ==
    ASSUME Separate, LeakInv, ContentInv, NEW d \in Devices,
           NEW found, found = smmu_master_at(SidOf[d]),
           NEW m \in Node, m = Cleared \/ (m.smmu = SmmuOf[d] /\ m.sid = SidOf[d]),
           masters' = [found.list EXCEPT ![found.at] = m],
           \A e \in Devices : e # d => Entry(e)' = Entry(e),
           \A t \in live : t # found.list[found.at].cd => cds'[t] = cds[t]
    PROVE  /\ ListInv(masters)'
           /\ \A e \in Devices : e # d => EntryOK(masters, e)' /\ ReachKept(e)
  <1> DEFINE list == found.list
             at == found.at
             old == found.list[found.at]
  <1>1. /\ list \in Seq(Node) /\ at \in DOMAIN list
        /\ Apart(list) /\ live = TablesOf(list)
    BY FoundKeeps, ZenonT(60)
  <1>2. /\ ListInv(list) /\ \A e \in Devices : EntryOK(list, e)
        /\ \A i \in DOMAIN list : i # at => list[i].sid # SidOf[d]
        /\ list[at] = Cleared \/ (list[at].smmu = SmmuOf[d] /\ list[at].sid = SidOf[d])
    BY FoundIsOwn, ZenonT(60)
  <1>3. /\ DOMAIN masters' = DOMAIN list
        /\ masters'[at] = m /\ \A i \in DOMAIN list : i # at => masters'[i] = list[i]
    BY <1>1, ExceptSeq, ZenonT(60)
  <1>4. \A i \in DOMAIN list : (i # at /\ list[i].cd # None) => cds'[list[i].cd] = cds[list[i].cd]
    BY <1>1, ZenonT(60) DEF Apart, TablesOf
  <1>5. ListInv(masters)'
    <2>1. ASSUME NEW i \in DOMAIN list
          PROVE  masters'[i] = Cleared
                   \/ \E e \in Devices : masters'[i].smmu = SmmuOf[e] /\ masters'[i].sid = SidOf[e]
      BY <1>2, <1>3, ZenonT(60) DEF ListInv
    <2>2. ASSUME NEW i \in DOMAIN list, NEW j \in DOMAIN list,
                 masters'[i].sid = masters'[j].sid, masters'[i].sid # 0
          PROVE  i = j
      <3>1. CASE i # at /\ j # at
        BY <1>2, <1>3, <2>2, <3>1, ZenonT(60) DEF ListInv
      <3>2. CASE i = at \/ j = at
        <4>1. m.sid \in {0, SidOf[d]}
          BY DEF Cleared
        <4>2. QED
          BY <1>2, <1>3, <2>2, <3>2, <4>1, ZenonT(30)
      <3>3. QED
        BY <3>1, <3>2, ZenonT(60)
    <2>3. QED
      BY <1>3, <2>1, <2>2, ZenonT(60) DEF ListInv
  <1>6. ASSUME NEW e \in Devices, e # d PROVE EntryOK(masters, e)' /\ ReachKept(e)
    <2>1. SidOf[e] # SidOf[d] /\ SidOf[e] # 0 /\ Entry(e)' = Entry(e) /\ EntryOK(list, e)
      BY <1>2, <1>6, ZenonT(60) DEF Separate
    <2>2. list[at].sid # SidOf[e] /\ m.sid # SidOf[e]
      BY <1>2, <2>1, StreamFacts, ZenonT(60)
    <2>3. CASE Entry(e) # None
      <3>1. PICK i \in DOMAIN list : list[i].sid = SidOf[e] /\ list[i].cd = Entry(e)
        BY <2>1, <2>3, ZenonT(60) DEF EntryOK
      <3>2. masters'[i] = list[i] /\ cds'[Entry(e)] = cds[Entry(e)]
        BY <1>3, <1>4, <2>2, <2>3, <3>1, ZenonT(60)
      <3>3. EntryOK(masters, e)'
        <4>1. Entry(e)' # None /\ i \in DOMAIN masters' /\ masters'[i].sid = SidOf[e] /\ masters'[i].cd = Entry(e)'
          BY <1>3, <2>1, <2>3, <3>1, <3>2, ZenonT(60)
        <4>2. QED
          BY <4>1, ZenonT(60) DEF EntryOK
      <3>4. ReachKept(e)
        BY <2>1, <3>2, ZenonT(60) DEF ReachKept, Reach
      <3>5. QED
        BY <3>3, <3>4, ZenonT(60)
    <2>4. CASE Entry(e) = None
      <3>1. ASSUME NEW i \in DOMAIN list, masters'[i].sid = SidOf[e], masters'[i].cd # None
            PROVE  cds'[masters'[i].cd] = Blank
        <4>1. i # at /\ masters'[i] = list[i] /\ cds'[list[i].cd] = cds[list[i].cd]
          BY <1>3, <1>4, <2>2, <3>1, ZenonT(60)
        <4>2. QED
          BY <2>1, <2>4, <3>1, <4>1, ZenonT(60) DEF EntryOK
      <3>2. EntryOK(masters, e)'
        BY <1>3, <2>1, <2>4, <3>1, ZenonT(60) DEF EntryOK, Blank
      <3>3. ReachKept(e)
        BY <2>1, <2>4, ZenonT(60) DEF ReachKept, Reach
      <3>4. QED
        BY <3>2, <3>3, ZenonT(60)
    <2>5. QED
      BY <2>3, <2>4, ZenonT(60)
  <1>7. QED
    BY <1>5, <1>6, ZenonT(60)

(* The node found for a device holds what the device reaches.               *)
LEMMA HeldIsReach ==
    ASSUME Separate, LeakInv, ContentInv, NEW d \in Devices,
           NEW found, found = smmu_master_at(SidOf[d])
    PROVE  LET old == found.list[found.at]
           IN  /\ old \in Node
               /\ Entry(d) # None => old.sid = SidOf[d] /\ old.cd = Entry(d)
               /\ old.cd # None => old.sid = SidOf[d] /\ old.smmu = SmmuOf[d] /\ old.cd \in live
               /\ (old.cd # None /\ Entry(d) = None) => cds[old.cd] = Blank
  <1> DEFINE old == found.list[found.at]
  <1>1. /\ found.list \in Seq(Node) /\ found.at \in DOMAIN found.list
        /\ live = TablesOf(found.list) /\ old \in Node
    BY FoundKeeps
  <1>2. /\ EntryOK(found.list, d)
        /\ \A i \in DOMAIN found.list : i # found.at => found.list[i].sid # SidOf[d]
        /\ old = Cleared \/ (old.smmu = SmmuOf[d] /\ old.sid = SidOf[d])
    BY FoundIsOwn, ZenonT(60)
  <1>3. old.cd # None => old.sid = SidOf[d] /\ old.smmu = SmmuOf[d] /\ old.cd \in live
    BY <1>1, <1>2, TableFacts, ZenonT(60) DEF TablesOf
  <1>4. Entry(d) # None => old.sid = SidOf[d] /\ old.cd = Entry(d)
    BY <1>2, ZenonT(60) DEF EntryOK
  <1>5. (old.cd # None /\ Entry(d) = None) => cds[old.cd] = Blank
    BY <1>1, <1>2, <1>3, ZenonT(60) DEF EntryOK
  <1>6. QED
    BY <1>1, <1>3, <1>4, <1>5, ZenonT(60)

LEMMA OwnedIsOwn ==
    ASSUME NEW m \in Node, NEW d \in Devices,
           m = Cleared \/ (m.smmu = SmmuOf[d] /\ m.sid = SidOf[d])
    PROVE  Owned(m, d).smmu = SmmuOf[d] /\ Owned(m, d).sid = SidOf[d]
  BY StreamFacts DEF Owned, Node, Cleared

(* One stream table entry is written.                                       *)
LEMMA EntryWritten ==
    ASSUME Separate, ContentInv, NEW d \in Devices, NEW v \in Tables \cup {None},
           ste' = [ste EXCEPT ![SmmuOf[d]][SidOf[d]] = v]
    PROVE  /\ ste' \in [StreamSmmus -> [Sids -> Tables \cup {None}]]
           /\ Entry(d)' = v
           /\ \A e \in Devices : e # d => Entry(e)' = Entry(e)
  <1>1. SmmuOf[d] \in StreamSmmus /\ SidOf[d] \in Sids /\ ste \in [StreamSmmus -> [Sids -> Tables \cup {None}]]
    BY StreamFacts, ZenonT(60) DEF ContentInv
  <1>2. ASSUME NEW e \in Devices, e # d PROVE Entry(e)' = Entry(e)
    <2>1. SmmuOf[e] \in StreamSmmus /\ SidOf[e] \in Sids /\ SidOf[e] # SidOf[d]
      BY <1>2, StreamFacts, ZenonT(60) DEF Separate
    <2>2. QED
      BY <1>1, <2>1, ZenonT(60) DEF Entry
  <1>3. QED
    BY <1>1, <1>2, ZenonT(60) DEF Entry

LEMMA CacheEmptied ==
    ASSUME CacheInv, NEW d \in Devices, smmu_tlbi_cfgi(SmmuOf[d]),
           \A e \in Devices : e # d => ReachKept(e)
    PROVE  CacheInv'
  <1>1. SmmuOf[d] \in StreamSmmus /\ DOMAIN cache = StreamSmmus
    BY StreamFacts DEF CacheInv
  <1>2. /\ DOMAIN cache' = StreamSmmus /\ DOMAIN cache'[SmmuOf[d]] = {}
        /\ \A u \in StreamSmmus : u # SmmuOf[d] => cache'[u] = cache[u]
    BY <1>1 DEF smmu_tlbi_cfgi, Empty
  <1>3. ASSUME NEW u \in StreamSmmus, NEW l \in DOMAIN cache'[u]
        PROVE  \E e \in Devices, s \in Ssids :
                  l = <<e, s>> /\ SmmuOf[e] = u /\ cache'[u][l] = Reach(e, s)'
    <2>1. u # SmmuOf[d] /\ cache'[u] = cache[u]
      BY <1>2
    <2>2. PICK e \in Devices, s \in Ssids : l = <<e, s>> /\ SmmuOf[e] = u /\ cache[u][l] = Reach(e, s)
      BY <2>1 DEF CacheInv
    <2>3. Reach(e, s)' = Reach(e, s)
      BY <2>1, <2>2, ZenonT(60) DEF ReachKept
    <2>4. QED
      BY <2>1, <2>2, <2>3, ZenonT(60)
  <1>4. QED
    BY <1>2, <1>3, ZenonT(60) DEF CacheInv

LEMMA CacheKept ==
    ASSUME CacheInv, UNCHANGED cache, \A e \in Devices : ReachKept(e)
    PROVE  CacheInv'
  <1>1. ASSUME NEW u \in StreamSmmus, NEW l \in DOMAIN cache[u]
        PROVE  \E e \in Devices, s \in Ssids :
                  l = <<e, s>> /\ SmmuOf[e] = u /\ cache[u][l] = Reach(e, s)'
    BY DEF CacheInv, ReachKept
  <1>2. QED
    BY <1>1 DEF CacheInv

(* A mapping changes what the device reaches by that substream, and nothing *)
(* else.                                                                    *)
LEMMA MapReach ==
    ASSUME Separate, StreamInv, NEW d \in Devices, NEW s \in Ssids, NEW p \in Pgts,
           val_smmu_map(d, s, p)
    PROVE  /\ ContentInv' /\ CacheInv'
           /\ \A e \in Devices : e # d => ReachKept(e)
           /\ \A x \in Ssids : Reach(d, x)' = IF x = s THEN p ELSE Reach(d, x)
  <1> DEFINE found == smmu_master_at(SidOf[d])
             old == found.list[found.at]
             m == smmu_cdtab_alloc(Owned(old, d))
             held == IF old.cd = None THEN Blank ELSE cds[m.cd]
  <1> USE DEF StreamInv
  <1>1. /\ masters' = [found.list EXCEPT ![found.at] = m]
        /\ old.cd = None => TableRoom
        /\ cds' = [cds EXCEPT ![m.cd] = [held EXCEPT ![s] = p]]
        /\ ste' = [ste EXCEPT ![SmmuOf[d]][m.sid] = m.cd]
        /\ smmu_tlbi_cfgi(SmmuOf[d])
    BY ZenonT(60) DEF val_smmu_map, Blank
  <1>2. /\ old \in Node
        /\ Entry(d) # None => old.sid = SidOf[d] /\ old.cd = Entry(d)
        /\ old.cd # None => old.sid = SidOf[d] /\ old.smmu = SmmuOf[d] /\ old.cd \in live
        /\ (old.cd # None /\ Entry(d) = None) => cds[old.cd] = Blank
    BY HeldIsReach, ZenonT(60)
  <1>3. /\ Owned(old, d) \in Node /\ Owned(old, d).cd = old.cd
        /\ Owned(old, d).smmu = SmmuOf[d] /\ Owned(old, d).sid = SidOf[d]
    <2>1. old = Cleared \/ (old.smmu = SmmuOf[d] /\ old.sid = SidOf[d])
      BY FoundIsOwn, ZenonT(60)
    <2>2. QED
      BY <1>2, <2>1, OwnedFacts, OwnedIsOwn, ZenonT(60)
  <1>4. /\ m \in Node /\ m.smmu = SmmuOf[d] /\ m.sid = SidOf[d]
        /\ old.cd # None => m.cd = old.cd
        /\ old.cd = None => m.cd \in Tables \ live
    BY <1>1, <1>3, AllocFacts, ZenonT(60)
  <1>5. found.at \in DOMAIN found.list /\ found.list \in Seq(Node)
    BY FoundKeeps
  <1> HIDE DEF m, found
  <1>6. m.cd \in Tables /\ m.cd # None
    BY <1>2, <1>4, TableFacts, ZenonT(60) DEF LeakInv
  <1>7. /\ Entry(d)' = m.cd /\ \A e \in Devices : e # d => Entry(e)' = Entry(e)
        /\ ste' \in [StreamSmmus -> [Sids -> Tables \cup {None}]]
    BY <1>1, <1>4, <1>6, EntryWritten, ZenonT(60)
  <1>8. held \in [Ssids -> Pgts \cup {None}]
    BY <1>6, ZenonT(60) DEF ContentInv, Blank
  <1>9. \A x \in Ssids : held[x] = Reach(d, x)
    BY <1>2, <1>4, <1>6, ZenonT(60) DEF Reach, Blank
  <1> HIDE DEF held
  <1>10. /\ cds' \in [Tables -> [Ssids -> Pgts \cup {None}]]
         /\ cds'[m.cd] = [held EXCEPT ![s] = p]
         /\ \A t \in Tables : t # m.cd => cds'[t] = cds[t]
    BY <1>1, <1>6, <1>8, ZenonT(60) DEF ContentInv
  <1>11. \A t \in live : t # old.cd => cds'[t] = cds[t]
    BY <1>4, <1>10, ZenonT(60) DEF LeakInv
  <1>12. /\ ListInv(masters)'
         /\ \A e \in Devices : e # d => EntryOK(masters, e)' /\ ReachKept(e)
    BY <1>1, <1>4, <1>7, <1>11, OthersKept, ZenonT(60) DEF found
  <1>13. EntryOK(masters, d)'
    <2>1. found.at \in DOMAIN masters' /\ masters'[found.at] = m
      BY <1>1, <1>4, <1>5, ExceptSeq, ZenonT(60)
    <2>2. QED
      BY <1>4, <1>6, <1>7, <2>1, ZenonT(60) DEF EntryOK
  <1>14. ContentInv'
    BY <1>7, <1>10, <1>12, <1>13, ZenonT(60) DEF ContentInv
  <1>15. CacheInv'
    BY <1>1, <1>12, CacheEmptied, ZenonT(60)
  <1>16. \A x \in Ssids : Reach(d, x)' = IF x = s THEN p ELSE Reach(d, x)
    BY <1>6, <1>7, <1>8, <1>9, <1>10, ZenonT(60) DEF Reach
  <1>17. QED
    BY <1>12, <1>14, <1>15, <1>16, ZenonT(60)

(* A mapping that fails changes nothing that any device reaches.            *)
LEMMA MapFailsReach ==
    ASSUME Separate, StreamInv, NEW d \in Devices, val_smmu_map_fails(d)
    PROVE  ContentInv' /\ CacheInv' /\ \A e \in Devices : ReachKept(e)
  <1> DEFINE found == smmu_master_at(SidOf[d])
             old == found.list[found.at]
             m == Owned(old, d)
             t == smmu_cdtab_alloc(m)
  <1> USE DEF StreamInv
  <1>1. ste' = ste /\ cache' = cache /\ \A e \in Devices : Entry(e)' = Entry(e)
    BY ZenonT(60) DEF val_smmu_map_fails, Entry
  <1>2. /\ old \in Node
        /\ Entry(d) # None => old.sid = SidOf[d] /\ old.cd = Entry(d)
        /\ old.cd # None => old.sid = SidOf[d] /\ old.smmu = SmmuOf[d] /\ old.cd \in live
        /\ (old.cd # None /\ Entry(d) = None) => cds[old.cd] = Blank
    BY HeldIsReach, ZenonT(60)
  <1>3. /\ found.at \in DOMAIN found.list /\ found.list \in Seq(Node)
        /\ old = Cleared \/ (old.smmu = SmmuOf[d] /\ old.sid = SidOf[d])
        /\ \A i \in DOMAIN found.list : i # found.at => found.list[i].sid # SidOf[d]
    BY FoundKeeps, FoundIsOwn, ZenonT(60)
  <1>4. m \in Node /\ m.cd = old.cd /\ m.smmu = SmmuOf[d] /\ m.sid = SidOf[d]
    BY <1>2, <1>3, OwnedFacts, OwnedIsOwn, ZenonT(60)
  <1>5. ASSUME ListInv(masters)', cds' \in [Tables -> [Ssids -> Pgts \cup {None}]],
               \A e \in Devices : EntryOK(masters, e)' /\ ReachKept(e)
        PROVE  ContentInv' /\ CacheInv' /\ \A e \in Devices : ReachKept(e)
    <2>1. ContentInv'
      BY <1>1, <1>5, ZenonT(60) DEF ContentInv
    <2>2. QED
      BY <1>1, <1>5, <2>1, CacheKept, ZenonT(60)
  <1>6. CASE masters' = [found.list EXCEPT ![found.at] = m] /\ cds' = cds
    <2> HIDE DEF m, found
    <2>1. /\ ListInv(masters)'
          /\ \A e \in Devices : e # d => EntryOK(masters, e)' /\ ReachKept(e)
      BY <1>1, <1>4, <1>6, OthersKept, ZenonT(60) DEF found
    <2>2. /\ DOMAIN masters' = DOMAIN found.list /\ masters'[found.at] = m
          /\ \A i \in DOMAIN found.list : i # found.at => masters'[i] = found.list[i]
      BY <1>3, <1>4, <1>6, ExceptSeq, ZenonT(60)
    <2>3. EntryOK(masters, d)'
      BY <1>1, <1>2, <1>3, <1>4, <1>6, <2>2, ZenonT(60) DEF EntryOK, Blank
    <2>4. ReachKept(d)
      BY <1>1, <1>6, ZenonT(60) DEF ReachKept, Reach
    <2>5. QED
      BY <1>5, <1>6, <2>1, <2>3, <2>4, ZenonT(60) DEF ContentInv
  <1>7. CASE /\ m.cd = None /\ TableRoom
             /\ masters' = [found.list EXCEPT ![found.at] = t]
             /\ cds' = [cds EXCEPT ![t.cd] = [x \in Ssids |-> None]]
    <2>1. t \in Node /\ t.cd \in Tables \ live /\ t.smmu = SmmuOf[d] /\ t.sid = SidOf[d]
      BY <1>4, <1>7, AllocFacts, ZenonT(60)
    <2> HIDE DEF m, t, found
    <2>2. /\ cds' \in [Tables -> [Ssids -> Pgts \cup {None}]] /\ cds'[t.cd] = Blank
          /\ \A x \in Tables : x # t.cd => cds'[x] = cds[x]
      BY <1>7, <2>1, ZenonT(60) DEF ContentInv, Blank
    <2>3. \A x \in live : x # old.cd => cds'[x] = cds[x]
      BY <2>1, <2>2, ZenonT(60) DEF LeakInv
    <2>4. /\ ListInv(masters)'
          /\ \A e \in Devices : e # d => EntryOK(masters, e)' /\ ReachKept(e)
      BY <1>1, <1>7, <2>1, <2>3, OthersKept, ZenonT(60) DEF found
    <2>5. /\ DOMAIN masters' = DOMAIN found.list /\ masters'[found.at] = t
          /\ \A i \in DOMAIN found.list : i # found.at => masters'[i] = found.list[i]
      BY <1>3, <1>7, <2>1, ExceptSeq, ZenonT(60)
    <2>6. Entry(d) = None
      BY <1>2, <1>4, <1>7, ZenonT(60)
    <2>7. EntryOK(masters, d)'
      BY <1>1, <1>3, <2>2, <2>5, <2>6, ZenonT(60) DEF EntryOK, Blank
    <2>8. ReachKept(d)
      BY <1>1, <2>6, ZenonT(60) DEF ReachKept, Reach
    <2>9. QED
      BY <1>5, <2>2, <2>4, <2>7, <2>8, ZenonT(60)
  <1>8. CASE masters' = masters /\ cds' = cds
    <2>1. ListInv(masters)' /\ cds' \in [Tables -> [Ssids -> Pgts \cup {None}]]
      BY <1>8, ZenonT(60) DEF ContentInv, ListInv
    <2>2. ASSUME NEW e \in Devices PROVE EntryOK(masters, e)' /\ ReachKept(e)
      BY <1>1, <1>8, ZenonT(60) DEF ContentInv, EntryOK, ReachKept, Reach, Blank
    <2>3. QED
      BY <1>5, <2>1, <2>2, ZenonT(60)
  <1>9. QED
    BY <1>6, <1>7, <1>8, ZenonT(60) DEF val_smmu_map_fails

(* An unmapping leaves the device nothing, and the others all they reach.   *)
LEMMA UnmapReach ==
    ASSUME Separate, StreamInv, NEW d \in Devices, val_smmu_unmap(d)
    PROVE  /\ ContentInv' /\ CacheInv'
           /\ \A e \in Devices : e # d => ReachKept(e)
           /\ \A x \in Ssids : Reach(d, x)' = None
  <1> DEFINE found == smmu_master_at(SidOf[d])
             old == found.list[found.at]
  <1> USE DEF StreamInv
  <1>1. cds' = cds
    BY ZenonT(60) DEF val_smmu_unmap
  <1>2. /\ old \in Node
        /\ Entry(d) # None => old.sid = SidOf[d] /\ old.cd = Entry(d)
    BY HeldIsReach, ZenonT(60)
  <1>3. /\ found.at \in DOMAIN found.list /\ found.list \in Seq(Node)
        /\ old = Cleared \/ (old.smmu = SmmuOf[d] /\ old.sid = SidOf[d])
        /\ \A i \in DOMAIN found.list : i # found.at => found.list[i].sid # SidOf[d]
        /\ ListInv(found.list) /\ \A e \in Devices : EntryOK(found.list, e)
    BY FoundKeeps, FoundIsOwn, ZenonT(60)
  <1>4. CASE /\ old.smmu = None /\ masters' \in {found.list, masters}
             /\ ste' = ste /\ cache' = cache
    <2>1. Entry(d) = None
      BY <1>2, <1>3, <1>4, StreamFacts, TableFacts, ZenonT(60)
    <2> HIDE DEF found
    <2>2. \A e \in Devices : Entry(e)' = Entry(e) /\ ReachKept(e)
      BY <1>1, <1>4, ZenonT(60) DEF Entry, Reach, ReachKept
    <2>3. ListInv(masters')
      BY <1>3, <1>4, ZenonT(60) DEF ContentInv
    <2>4. ASSUME NEW e \in Devices PROVE EntryOK(masters, e)'
      <3>1. EntryOK(found.list, e) /\ EntryOK(masters, e)
        BY <1>3, ZenonT(60) DEF ContentInv
      <3>2. QED
        BY <1>1, <1>4, <2>2, <3>1, ZenonT(60) DEF EntryOK, Blank
    <2>5. ContentInv'
      BY <1>1, <1>4, <2>3, <2>4, ZenonT(60) DEF ContentInv, ListInv
    <2>6. CacheInv'
      BY <1>4, <2>2, CacheKept, ZenonT(60)
    <2>7. \A x \in Ssids : Reach(d, x)' = None
      BY <2>1, <2>2, ZenonT(60) DEF Reach
    <2>8. QED
      BY <2>2, <2>5, <2>6, <2>7, ZenonT(60)
  <1>5. CASE /\ old.smmu # None /\ masters' = [found.list EXCEPT ![found.at] = Cleared]
             /\ ClearEntry(old.smmu, SidOf[d]) /\ smmu_tlbi_cfgi(old.smmu)
    <2>1. old.smmu = SmmuOf[d]
      BY <1>3, <1>5, StreamFacts, ZenonT(60)
    <2>2. ste' = [ste EXCEPT ![SmmuOf[d]][SidOf[d]] = None] /\ smmu_tlbi_cfgi(SmmuOf[d])
      BY <1>5, <2>1, ZenonT(60) DEF ClearEntry, Separate
    <2> HIDE DEF found
    <2>3. /\ Entry(d)' = None /\ \A e \in Devices : e # d => Entry(e)' = Entry(e)
          /\ ste' \in [StreamSmmus -> [Sids -> Tables \cup {None}]]
      BY <2>2, EntryWritten, ZenonT(60)
    <2>4. /\ ListInv(masters)'
          /\ \A e \in Devices : e # d => EntryOK(masters, e)' /\ ReachKept(e)
      BY <1>1, <1>5, <2>3, TableFacts, OthersKept, ZenonT(60) DEF found
    <2>5. /\ DOMAIN masters' = DOMAIN found.list /\ masters'[found.at] = Cleared
          /\ \A i \in DOMAIN found.list : i # found.at => masters'[i] = found.list[i]
      BY <1>3, <1>5, TableFacts, ExceptSeq, ZenonT(60)
    <2>6. EntryOK(masters, d)'
      BY <1>3, <2>3, <2>5, TableFacts, ZenonT(60) DEF EntryOK
    <2>7. ContentInv'
      BY <1>1, <2>3, <2>4, <2>6, ZenonT(60) DEF ContentInv
    <2>8. CacheInv'
      BY <2>2, <2>4, CacheEmptied, ZenonT(60)
    <2>9. \A x \in Ssids : Reach(d, x)' = None
      BY <2>3 DEF Reach
    <2>10. QED
      BY <2>4, <2>7, <2>8, <2>9, ZenonT(60)
  <1>6. QED
    BY <1>4, <1>5, ZenonT(60) DEF val_smmu_unmap

(* What a device's DMA goes through is what the tables say, cached or not.  *)
LEMMA LookupIsReach ==
    ASSUME Separate, StreamInv, NEW d \in Devices, NEW s \in Ssids
    PROVE  Lookup(d, s) = Reach(d, s)
  <1>1. Walk(d, s) = Reach(d, s)
    <2>1. CASE Entry(d) = None
      BY <2>1, ZenonT(60) DEF Walk, Reach, Entry
    <2>2. CASE Entry(d) # None
      <3>1. Entry(d) \in live
        BY <2>2, ZenonT(60) DEF StreamInv, LeakInv, ContentInv, EntryOK, TablesOf
      <3>2. QED
        BY <2>2, <3>1, ZenonT(60) DEF Walk, Reach, Entry, Separate
    <2>3. QED
      BY <2>1, <2>2
  <1>2. ASSUME <<d, s>> \in DOMAIN cache[SmmuOf[d]]
        PROVE  cache[SmmuOf[d]][<<d, s>>] = Reach(d, s)
    <2>1. PICK e \in Devices, x \in Ssids :
              <<d, s>> = <<e, x>> /\ cache[SmmuOf[d]][<<d, s>>] = Reach(e, x)
      BY <1>2, StreamFacts DEF StreamInv, CacheInv
    <2>2. e = d /\ x = s
      BY <2>1
    <2>3. QED
      BY <2>1, <2>2, ZenonT(60)
  <1>3. QED
    BY <1>1, <1>2, ZenonT(60) DEF Lookup

(* A walk that the SMMU caches says what the tables say.                    *)
LEMMA FetchReach ==
    ASSUME Separate, StreamInv, NEW d \in Devices, NEW s \in Ssids, Fetch(d, s)
    PROVE  ContentInv' /\ CacheInv' /\ \A e \in Devices : ReachKept(e)
  <1> DEFINE u == SmmuOf[d]
             seen == DOMAIN cache[u] \cup {<<d, s>>}
  <1>1. /\ cache' = [cache EXCEPT ![u] = [l \in seen |-> Lookup(l[1], l[2])]]
        /\ UNCHANGED <<masters, ste, cds>>
    BY ZenonT(60) DEF Fetch
  <1>2. ContentInv' /\ \A e \in Devices : ReachKept(e)
    BY <1>1, ZenonT(60) DEF StreamInv, ContentInv, ListInv, EntryOK, ReachKept, Reach, Entry, Blank
  <1>3. u \in StreamSmmus /\ DOMAIN cache = StreamSmmus
    BY StreamFacts DEF StreamInv, CacheInv
  <1>4. /\ DOMAIN cache' = StreamSmmus /\ cache'[u] = [l \in seen |-> Lookup(l[1], l[2])]
        /\ \A v \in StreamSmmus : v # u => cache'[v] = cache[v]
    BY <1>1, <1>3, ZenonT(60)
  <1>5. ASSUME NEW v \in StreamSmmus, NEW l \in DOMAIN cache'[v]
        PROVE  \E e \in Devices, x \in Ssids :
                  l = <<e, x>> /\ SmmuOf[e] = v /\ cache'[v][l] = Reach(e, x)'
    <2>1. CASE v = u
      <3>1. l \in seen /\ cache'[v][l] = Lookup(l[1], l[2])
        BY <1>4, <2>1, ZenonT(60)
      <3>2. PICK e \in Devices, x \in Ssids : l = <<e, x>> /\ SmmuOf[e] = u
        BY <1>3, <3>1, ZenonT(60) DEF StreamInv, CacheInv
      <3>3. cache'[v][l] = Reach(e, x)
        BY <3>1, <3>2, LookupIsReach, ZenonT(60)
      <3>4. QED
        BY <1>2, <2>1, <3>2, <3>3, ZenonT(60) DEF ReachKept
    <2>2. CASE v # u
      <3>1. PICK e \in Devices, x \in Ssids : l = <<e, x>> /\ SmmuOf[e] = v /\ cache[v][l] = Reach(e, x)
        BY <1>4, <2>2, ZenonT(60) DEF StreamInv, CacheInv
      <3>2. QED
        BY <1>2, <1>4, <2>2, <3>1, ZenonT(60) DEF ReachKept
    <2>3. QED
      BY <2>1, <2>2, ZenonT(60)
  <1>6. QED
    BY <1>2, <1>4, <1>5, ZenonT(60) DEF CacheInv

LEMMA StreamStep == ASSUME Separate, StreamInv, [StreamNext]_streamVars PROVE StreamInv'
  <1>1. LeakInv'
    BY LeakStep DEF StreamInv
  <1>2. ContentInv' /\ CacheInv'
    <2>1. CASE UNCHANGED streamVars
      <3>1. ContentInv' /\ \A e \in Devices : ReachKept(e)
        <4>1. masters' = masters /\ ste' = ste /\ cds' = cds
          BY <2>1 DEF streamVars
        <4>2. QED
          BY <4>1, ZenonT(30) DEF StreamInv, ContentInv, ListInv, EntryOK, ReachKept, Reach, Entry, Blank
      <3>2. QED
        BY <2>1, <3>1, CacheKept, ZenonT(60) DEF streamVars, StreamInv
    <2>2. QED
      BY <2>1, MapReach, MapFailsReach, UnmapReach, FetchReach, ZenonT(60) DEF StreamNext
  <1>3. QED
    BY <1>1, <1>2 DEF StreamInv

LEMMA StreamStart == ASSUME StreamInit PROVE StreamInv
  <1>1. LeakInv
    BY DEF StreamInit, LeakInv, Apart, TablesOf
  <1>2. masters = <<>> /\ DOMAIN masters = {}
    BY DEF StreamInit
  <1>3. \A d \in Devices : Entry(d) = None
    BY StreamFacts, ZenonT(60) DEF StreamInit, Entry
  <1>4. ContentInv
    BY <1>2, <1>3, ZenonT(60) DEF StreamInit, ContentInv, ListInv, EntryOK
  <1>5. CacheInv
    BY DEF StreamInit, CacheInv
  <1>6. QED
    BY <1>1, <1>4, <1>5, ZenonT(60) DEF StreamInv

LEMMA StreamHolds == ASSUME Separate PROVE StreamSpec => []StreamInv
  BY StreamStart, StreamStep, PTL DEF StreamSpec
-----------------------------------------------------------------------------
Reached == [d \in Devices |-> [s \in Ssids |-> Reach(d, s)]]

LEMMA ThroughIsReached == ASSUME Separate, StreamInv PROVE through = Reached
  BY LookupIsReach DEF through, Reached

LEMMA StreamSimulates ==
    ASSUME Separate, StreamInv, StreamInv', [StreamNext]_streamVars
    PROVE  [SM!Next]_through
  <1>1. through = Reached /\ through' = Reached'
    <2>1. (through = Reached)'
      BY ThroughIsReached, PTL
    <2>2. QED
      BY <2>1, ThroughIsReached
  <1>2. ASSUME \A e \in Devices : ReachKept(e) PROVE through' = through
    BY <1>1, <1>2, ZenonT(60) DEF Reached, ReachKept
  <1>3. ASSUME NEW d \in Devices, NEW s \in Ssids, NEW p \in Pgts, val_smmu_map(d, s, p)
        PROVE  SM!Map(d, s, p)
    <2>1. /\ \A e \in Devices : e # d => ReachKept(e)
          /\ \A x \in Ssids : Reach(d, x)' = IF x = s THEN p ELSE Reach(d, x)
      BY <1>3, MapReach, ZenonT(60)
    <2>2. Reached' = [Reached EXCEPT ![d][s] = p]
      BY <2>1, ZenonT(60) DEF Reached, ReachKept
    <2>3. QED
      BY <1>1, <2>2, ZenonT(60) DEF SM!Map
  <1>4. ASSUME NEW d \in Devices, val_smmu_unmap(d) PROVE SM!Unmap(d)
    <2>1. /\ \A e \in Devices : e # d => ReachKept(e)
          /\ \A x \in Ssids : Reach(d, x)' = None
      BY <1>4, UnmapReach, ZenonT(60)
    <2>2. Reached' = [Reached EXCEPT ![d] = [s \in Ssids |-> None]]
      BY <2>1, ZenonT(60) DEF Reached, ReachKept
    <2>3. QED
      BY <1>1, <2>2, ZenonT(60) DEF SM!Unmap
  <1>5. CASE UNCHANGED streamVars
    BY <1>2, <1>5, ZenonT(60) DEF streamVars, ReachKept, Reach, Entry
  <1>6. CASE \E d \in Devices : val_smmu_map_fails(d) \/ \E s \in Ssids : Fetch(d, s)
    BY <1>2, <1>6, MapFailsReach, FetchReach, ZenonT(60)
  <1>7. QED
    BY <1>3, <1>4, <1>5, <1>6, ZenonT(60) DEF StreamNext, SM!Next

(* With linear stream tables, and streams whose numbers differ and are not  *)
(* 0, the tables, lists and caches of val_smmu_map and val_smmu_unmap do    *)
(* what StreamMap promises: every device reaches what was mapped for it     *)
(* last, for any number of devices, SMMUs, substreams and failures.         *)
THEOREM StreamsImplementMap == ASSUME Separate PROVE StreamSpec => Implements
  <1>1. StreamInit => SM!Init
    <2> SUFFICES ASSUME StreamInit PROVE SM!Init
      OBVIOUS
    <2>1. \A d \in Devices : Entry(d) = None
      BY StreamFacts, ZenonT(60) DEF StreamInit, Entry
    <2>2. through = Reached
      BY StreamStart, ThroughIsReached
    <2>3. QED
      BY <2>1, <2>2, ZenonT(60) DEF SM!Init, Reached, Reach
  <1>2. QED
    BY <1>1, StreamHolds, StreamSimulates, PTL DEF StreamSpec, Implements, SM!Spec

UnmapInv == \A d \in Devices, s \in Ssids : last = <<"unmap", d>> => Reach(d, s) = None

(* And val_smmu_unmap then always takes every page table of the device      *)
(* away, from the SMMU's caches too.                                        *)
THEOREM LinearUnmapIsEffective == ASSUME Separate PROVE StreamSpec => []UnmapEffective
  <1>1. StreamInit => UnmapInv
    BY DEF StreamInit, UnmapInv
  <1>2. ASSUME StreamInv, UnmapInv, [StreamNext]_streamVars PROVE UnmapInv'
    <2>1. ASSUME NEW d \in Devices, NEW s \in Ssids, NEW p \in Pgts, val_smmu_map(d, s, p)
          PROVE  UnmapInv'
      <3>1. last' = <<"map", d, s, p>>
        BY <2>1, Zenon DEF val_smmu_map
      <3>2. last'[1] = "map"
        BY <3>1
      <3>3. QED
        BY <3>2 DEF UnmapInv
    <2>2. ASSUME NEW d \in Devices, val_smmu_map_fails(d) PROVE UnmapInv'
      <3>1. last' = <<"fail">>
        BY <2>2, Zenon DEF val_smmu_map_fails
      <3>2. last'[1] = "fail"
        BY <3>1
      <3>3. QED
        BY <3>2 DEF UnmapInv
    <2>3. ASSUME NEW d \in Devices, val_smmu_unmap(d) PROVE UnmapInv'
      <3>1. last' = <<"unmap", d>>
        BY <2>3, ZenonT(60) DEF val_smmu_unmap
      <3>2. \A x \in Ssids : Reach(d, x)' = None
        BY <1>2, <2>3, UnmapReach, ZenonT(60)
      <3>3. QED
        BY <3>1, <3>2, ZenonT(60) DEF UnmapInv
    <2>4. ASSUME NEW d \in Devices, NEW s \in Ssids, Fetch(d, s) PROVE UnmapInv'
      BY <1>2, <2>4, ZenonT(60) DEF Fetch, UnmapInv, Reach, Entry
    <2>5. CASE UNCHANGED streamVars
      BY <1>2, <2>5, ZenonT(60) DEF streamVars, UnmapInv, Reach, Entry
    <2>6. QED
      BY <1>2, <2>1, <2>2, <2>3, <2>4, <2>5, ZenonT(60) DEF StreamNext
  <1>3. ASSUME StreamInv, UnmapInv PROVE UnmapEffective
    BY <1>3, LookupIsReach, ZenonT(60) DEF UnmapInv, UnmapEffective
  <1>4. QED
    BY <1>1, <1>2, <1>3, StreamHolds, PTL DEF StreamSpec

-----------------------------------------------------------------------------
(* The life of the SMMUs.                                                  *)

Resetting == {"clear"} \cup Bits
Starting == {"version"} \cup Parts \cup Resetting

(* What the SMMU being brought up has, and those before and after it.       *)
Progress ==
    /\ pc \in Starting => \A i \in Smmus : i > index => ~base[i]
    /\ pc = "version" => ~base[index]
    /\ pc = "evntq" => "cmdq" \in memory[index]
    /\ pc = "strtab" => "cmdq" \in memory[index] /\ "evntq" \in memory[index]
    /\ pc \in Resetting => memory[index] = Parts

Before ==
    pc \in Starting =>
        \A i \in Smmus : i < index /\ base[i] =>
            memory[i] = Parts /\ (i \in lost \/ "SMMUEN" \in cr0[i])

Ready == pc = "ready" => \A i \in Smmus : base[i] => memory[i] = Parts

(* The way down: what is behind index is freed, what is freed is off.       *)
Stopping ==
    /\ pc \in {"disable", "free"} => \A i \in Smmus : i < index /\ base[i] => memory[i] = {}
    /\ pc = "free" => index \in lost \/ cr0[index] = {}
    /\ pc = "start" => \A i \in Smmus : ~base[i]

LifeInv ==
    /\ TypeOK /\ EnabledHasMemory /\ StopFreesAll
    /\ Progress /\ Before /\ Ready /\ Stopping

(* LifeInv is inductive: it holds at first and every action keeps it.       *)
LEMMA LifeStarts == Init => LifeInv
  <1> SUFFICES ASSUME Init PROVE LifeInv
    OBVIOUS
  <1>1. 0 \in Smmus
    BY LifeAssumption DEF Smmus
  <1>2. QED
    BY <1>1, ZenonT(60) DEF Init, LifeInv, TypeOK, EnabledHasMemory, StopFreesAll, Progress, Before, Ready,
                Stopping, Starting, Resetting, Parts, Bits

LEMMA InitStep == ASSUME LifeInv, val_smmu_init PROVE LifeInv'
  BY LifeAssumption DEF val_smmu_init, LifeInv, TypeOK, EnabledHasMemory, StopFreesAll,
     Progress, Before, Ready, Stopping, Starting, Resetting, Parts, Bits, Smmus

LEMMA VersionStep == ASSUME LifeInv, Version PROVE LifeInv'
  <1>1. TypeOK'
    <2>1. CASE NextSmmu /\ UNCHANGED base
      BY <2>1, LifeAssumption DEF Version, NextSmmu, LifeInv, TypeOK, Smmus, Parts
    <2>2. CASE pc' = "cmdq" /\ base' = [base EXCEPT ![index] = TRUE] /\ UNCHANGED <<index, status>>
      <3>1. base' \in [Smmus -> BOOLEAN]
        BY <2>2, Zenon DEF LifeInv, TypeOK
      <3>2. QED
        BY <2>2, <3>1, ZenonT(60) DEF Version, LifeInv, TypeOK, Parts
    <2>3. QED
      BY <2>1, <2>2, ZenonT(60) DEF Version
  <1>2. EnabledHasMemory'
    BY LifeAssumption, ZenonT(60) DEF Version, NextSmmu, LifeInv, TypeOK, Smmus, Parts, Bits, EnabledHasMemory, Progress, Ready, Resetting
  <1>3. StopFreesAll'
    BY LifeAssumption, ZenonT(60) DEF Version, NextSmmu, LifeInv, TypeOK, Smmus, Parts, Bits, StopFreesAll
  <1>4. Progress'
    BY LifeAssumption DEF Version, NextSmmu, LifeInv, TypeOK, Smmus, Parts, Bits, Progress, Starting, Resetting
  <1>5. Before'
    BY LifeAssumption DEF Version, NextSmmu, LifeInv, TypeOK, Smmus, Parts, Bits, Before, Progress, Starting, Resetting
  <1>6. Ready'
    BY LifeAssumption DEF Version, NextSmmu, LifeInv, TypeOK, Smmus, Parts, Bits, Ready, Before, Progress, Starting, Resetting
  <1>7. Stopping'
    BY LifeAssumption, ZenonT(60) DEF Version, NextSmmu, LifeInv, TypeOK, Smmus, Parts, Bits, Stopping
  <1>8. QED
    BY <1>1, <1>2, <1>3, <1>4, <1>5, <1>6, <1>7, ZenonT(60) DEF LifeInv

LEMMA ProbeStep == ASSUME LifeInv, smmu_probe_fails PROVE LifeInv'
  BY LifeAssumption DEF smmu_probe_fails, InitFails, LifeInv, TypeOK, EnabledHasMemory, StopFreesAll,
     Progress, Before, Ready, Stopping, Starting, Resetting, Parts, Bits, Smmus

LEMMA AllocateStep == ASSUME LifeInv, Allocate PROVE LifeInv'
  BY LifeAssumption DEF Allocate, After, LifeInv, TypeOK, EnabledHasMemory, StopFreesAll,
     Progress, Before, Ready, Stopping, Starting, Resetting, Parts, Bits, Smmus

LEMMA AllocationStep == ASSUME LifeInv, AllocationFails PROVE LifeInv'
  BY LifeAssumption DEF AllocationFails, InitFails, LifeInv, TypeOK, EnabledHasMemory, StopFreesAll,
     Progress, Before, Ready, Stopping, Starting, Resetting, Parts, Bits, Smmus

LEMMA ResetOk == ASSUME LifeInv, ResetStep PROVE LifeInv'
  <1>1. TypeOK'
    BY LifeAssumption DEF ResetStep, NextSmmu, NextStep, Acknowledged, WriteBit, LifeInv, TypeOK, Smmus, Parts, Bits
  <1>2. EnabledHasMemory'
    BY LifeAssumption, ZenonT(60) DEF ResetStep, NextSmmu, NextStep, Acknowledged, WriteBit, LifeInv, TypeOK, Smmus, Parts, Bits, EnabledHasMemory, Progress, Ready, Resetting
  <1>3. StopFreesAll'
    BY LifeAssumption, ZenonT(60) DEF ResetStep, NextSmmu, NextStep, Acknowledged, WriteBit, LifeInv, TypeOK, Smmus, Parts, Bits, StopFreesAll
  <1>4. Progress'
    BY LifeAssumption DEF ResetStep, NextSmmu, NextStep, Acknowledged, WriteBit, LifeInv, TypeOK, Smmus, Parts, Bits, Progress, Starting, Resetting
  <1>5. Before'
    BY LifeAssumption DEF ResetStep, NextSmmu, NextStep, Acknowledged, WriteBit, LifeInv, TypeOK, Smmus, Parts, Bits, Before, Progress, Starting, Resetting
  <1>6. Ready'
    BY LifeAssumption DEF ResetStep, NextSmmu, NextStep, Acknowledged, WriteBit, LifeInv, TypeOK, Smmus, Parts, Bits, Ready, Before, Progress, Starting, Resetting
  <1>7. Stopping'
    BY LifeAssumption, ZenonT(60) DEF ResetStep, NextSmmu, NextStep, Acknowledged, WriteBit, LifeInv, TypeOK, Smmus, Parts, Bits, Stopping
  <1>8. QED
    BY <1>1, <1>2, <1>3, <1>4, <1>5, <1>6, <1>7, ZenonT(60) DEF LifeInv

LEMMA ResetLost == ASSUME LifeInv, ResetFails PROVE LifeInv'
  BY LifeAssumption DEF ResetFails, NextSmmu, NotAcknowledged, LifeInv, TypeOK, EnabledHasMemory, StopFreesAll,
     Progress, Before, Ready, Stopping, Starting, Resetting, Parts, Bits, Smmus

LEMMA StopStep == ASSUME LifeInv, val_smmu_stop PROVE LifeInv'
  BY LifeAssumption DEF val_smmu_stop, LifeInv, TypeOK, EnabledHasMemory, StopFreesAll,
     Progress, Before, Ready, Stopping, Starting, Resetting, Parts, Bits, Smmus

LEMMA SkipStep == ASSUME LifeInv, StopSkips PROVE LifeInv'
  BY LifeAssumption DEF StopSkips, StopNext, LifeInv, TypeOK, EnabledHasMemory, StopFreesAll,
     Progress, Before, Ready, Stopping, Starting, Resetting, Parts, Bits, Smmus

LEMMA DisableStep == ASSUME LifeInv, smmu_dev_disable PROVE LifeInv'
  <1>1. TypeOK'
    BY LifeAssumption, ZenonT(60) DEF smmu_dev_disable, Acknowledged, NotAcknowledged, LifeInv, TypeOK, Smmus, Parts, Bits
  <1>2. EnabledHasMemory'
    BY LifeAssumption, ZenonT(60) DEF smmu_dev_disable, Acknowledged, NotAcknowledged, LifeInv, TypeOK, Smmus, Parts, Bits, EnabledHasMemory, Progress, Ready, Resetting
  <1>3. StopFreesAll'
    BY LifeAssumption, ZenonT(60) DEF smmu_dev_disable, Acknowledged, NotAcknowledged, LifeInv, TypeOK, Smmus, Parts, Bits, StopFreesAll
  <1>4. Progress'
    BY LifeAssumption, ZenonT(60) DEF smmu_dev_disable, Acknowledged, NotAcknowledged, LifeInv, TypeOK, Smmus, Parts, Bits, Progress, Starting, Resetting
  <1>5. Before'
    BY LifeAssumption, ZenonT(60) DEF smmu_dev_disable, Acknowledged, NotAcknowledged, LifeInv, TypeOK, Smmus, Parts, Bits, Before, Progress, Starting, Resetting
  <1>6. Ready'
    BY LifeAssumption, ZenonT(60) DEF smmu_dev_disable, Acknowledged, NotAcknowledged, LifeInv, TypeOK, Smmus, Parts, Bits, Ready, Before, Progress, Starting, Resetting
  <1>7. Stopping'
    BY LifeAssumption, ZenonT(60) DEF smmu_dev_disable, Acknowledged, NotAcknowledged, LifeInv, TypeOK, Smmus, Parts, Bits, Stopping
  <1>8. QED
    BY <1>1, <1>2, <1>3, <1>4, <1>5, <1>6, <1>7, ZenonT(60) DEF LifeInv

LEMMA FreeStep == ASSUME LifeInv, StopFrees PROVE LifeInv'
  BY LifeAssumption DEF StopFrees, StopNext, FreeParts, LifeInv, TypeOK, EnabledHasMemory, StopFreesAll,
     Progress, Before, Ready, Stopping, Starting, Resetting, Parts, Bits, Smmus

LEMMA StateStep == ASSUME LifeInv, NEW i \in Smmus, NEW en \in BOOLEAN, smmu_set_state(i, en) PROVE LifeInv'
  <1>1. TypeOK'
    <2>1. \A bits \in SUBSET Bits : [cr0 EXCEPT ![i] = bits] \in [Smmus -> SUBSET Bits]
      BY DEF LifeInv, TypeOK
    <2>2. (cr0[i] \cup {"SMMUEN"}) \in SUBSET Bits /\ (cr0[i] \ {"SMMUEN"}) \in SUBSET Bits
      BY DEF LifeInv, TypeOK, Bits
    <2>3. cr0' \in [Smmus -> SUBSET Bits]
      <3>1. CASE NotAcknowledged(i)
        BY <3>1, ZenonT(60) DEF NotAcknowledged, LifeInv, TypeOK
      <3>2. CASE Acknowledged(i, IF en THEN cr0[i] \cup {"SMMUEN"} ELSE cr0[i] \ {"SMMUEN"})
        BY <3>2, <2>1, <2>2, ZenonT(60) DEF Acknowledged
      <3>3. QED
        BY <3>1, <3>2, ZenonT(60) DEF smmu_set_state
    <2>4. lost' \subseteq Smmus
      BY DEF smmu_set_state, Acknowledged, NotAcknowledged, LifeInv, TypeOK
    <2>5. QED
      BY <2>3, <2>4, ZenonT(60) DEF smmu_set_state, LifeInv, TypeOK
  <1>2. EnabledHasMemory'
    BY LifeAssumption, ZenonT(60) DEF smmu_set_state, Acknowledged, NotAcknowledged, LifeInv, TypeOK, Smmus, Parts, Bits, EnabledHasMemory, Progress, Ready, Resetting
  <1>3. StopFreesAll'
    BY LifeAssumption, ZenonT(60) DEF smmu_set_state, Acknowledged, NotAcknowledged, LifeInv, TypeOK, Smmus, Parts, Bits, StopFreesAll
  <1>4. Progress'
    BY LifeAssumption, ZenonT(60) DEF smmu_set_state, Acknowledged, NotAcknowledged, LifeInv, TypeOK, Smmus, Parts, Bits, Progress, Starting, Resetting
  <1>5. Before'
    BY LifeAssumption, ZenonT(60) DEF smmu_set_state, Acknowledged, NotAcknowledged, LifeInv, TypeOK, Smmus, Parts, Bits, Before, Progress, Starting, Resetting
  <1>6. Ready'
    BY LifeAssumption, ZenonT(60) DEF smmu_set_state, Acknowledged, NotAcknowledged, LifeInv, TypeOK, Smmus, Parts, Bits, Ready, Before, Progress, Starting, Resetting
  <1>7. Stopping'
    BY LifeAssumption, ZenonT(60) DEF smmu_set_state, Acknowledged, NotAcknowledged, LifeInv, TypeOK, Smmus, Parts, Bits, Stopping
  <1>8. QED
    BY <1>1, <1>2, <1>3, <1>4, <1>5, <1>6, <1>7, ZenonT(60) DEF LifeInv

LEMMA LifeKeeps == LifeInv /\ [Next]_vars => LifeInv'
  <1> SUFFICES ASSUME LifeInv, [Next]_vars PROVE LifeInv'
    BY ZenonT(60)
  <1>1. CASE UNCHANGED vars
    BY <1>1 DEF vars, LifeInv, TypeOK, EnabledHasMemory, StopFreesAll, Progress, Before, Ready, Stopping
  <1>2. CASE Next
    <2>1. Stopped => UNCHANGED vars
      BY DEF Stopped
    <2>2. QED
      BY <1>1, <1>2, <2>1, InitStep, VersionStep, ProbeStep, AllocateStep, AllocationStep, ResetOk,
         ResetLost, StateStep, StopStep, SkipStep, DisableStep, FreeStep DEF Next
  <1>3. QED
    BY <1>1, <1>2, ZenonT(60)

(* Whatever fails or stays unacknowledged, an SMMU whose writes of CR0 took *)
(* effect has all of its memory while it is on, and val_smmu_stop leaves no *)
(* memory of an SMMU that val_smmu_init took on.                            *)
THEOREM MemoryAlwaysFollowsUse == Spec => []MemoryFollowsUse
  <1>1. LifeInv => MemoryFollowsUse
    BY DEF LifeInv, MemoryFollowsUse
  <1>2. QED
    BY LifeStarts, LifeKeeps, <1>1, PTL DEF Spec

Announces ==
    status' = "ok" /\ status = "none" =>
        \A i \in Smmus \ lost' : base'[i] => "SMMUEN" \in cr0'[i]

(* The last SMMU is done: those before it are known to be on.               *)
LEMMA LastSmmu ==
    ASSUME LifeInv, pc \in Starting, ~(index + 1 < NumSmmus),
           base' = base, lost \subseteq lost',
           \A i \in Smmus : i < index => cr0'[i] = cr0[i],
           base[index] => index \in lost' \/ "SMMUEN" \in cr0'[index]
    PROVE  Announces
  BY LifeAssumption DEF Announces, LifeInv, TypeOK, Before, Smmus

LEMMA AnnouncesRight == ASSUME LifeInv, [Next]_vars PROVE [Announces]_vars
  <1>1. CASE Version
    <2>1. CASE UNCHANGED status
      BY <2>1 DEF Announces
    <2>2. CASE status' # status
      <3>1. ~(index + 1 < NumSmmus) /\ pc \in Starting /\ base' = base
        BY <1>1, <2>2, ZenonT(60) DEF Version, NextSmmu, Starting, Resetting, Bits
      <3>2. lost \subseteq lost' /\ \A i \in Smmus : i < index => cr0'[i] = cr0[i]
        BY <1>1, <2>2, ZenonT(60) DEF Version, LifeInv, TypeOK, Smmus
      <3>3. base[index] => index \in lost' \/ "SMMUEN" \in cr0'[index]
        BY <1>1, <2>2, ZenonT(60) DEF Version, NextSmmu, LifeInv, Progress
      <3>4. QED
        BY <3>1, <3>2, <3>3, LastSmmu, ZenonT(60)
    <2>3. QED
      BY <2>1, <2>2, ZenonT(60)
  <1>2. CASE ResetStep
    <2>1. CASE UNCHANGED status
      BY <2>1 DEF Announces
    <2>2. CASE status' # status
      <3>1. ~(index + 1 < NumSmmus) /\ pc \in Starting /\ base' = base
        BY <1>2, <2>2, ZenonT(60) DEF ResetStep, NextSmmu, Starting, Resetting, Bits
      <3>2. lost \subseteq lost' /\ \A i \in Smmus : i < index => cr0'[i] = cr0[i]
        BY <1>2, <2>2 DEF ResetStep, Acknowledged, LifeInv, TypeOK, Smmus
      <3>3. base[index] => index \in lost' \/ "SMMUEN" \in cr0'[index]
        BY <1>2, <2>2, ZenonT(60) DEF ResetStep, NextSmmu, Acknowledged, WriteBit, LifeInv, TypeOK
      <3>4. QED
        BY <3>1, <3>2, <3>3, LastSmmu, ZenonT(60)
    <2>3. QED
      BY <2>1, <2>2, ZenonT(60)
  <1>3. CASE ResetFails
    <2>1. CASE UNCHANGED status
      BY <2>1 DEF Announces
    <2>2. CASE status' # status
      <3>1. ~(index + 1 < NumSmmus) /\ pc \in Starting /\ base' = base
        BY <1>3, <2>2, ZenonT(60) DEF ResetFails, NextSmmu, Starting, Resetting, Bits
      <3>2. lost \subseteq lost' /\ \A i \in Smmus : i < index => cr0'[i] = cr0[i]
        BY <1>3, <2>2, ZenonT(60) DEF ResetFails, NotAcknowledged, LifeInv, TypeOK, Smmus
      <3>3. base[index] => index \in lost' \/ "SMMUEN" \in cr0'[index]
        BY <1>3, <2>2, ZenonT(60) DEF ResetFails, NotAcknowledged, LifeInv, TypeOK
      <3>4. QED
        BY <3>1, <3>2, <3>3, LastSmmu, ZenonT(60)
    <2>3. QED
      BY <2>1, <2>2, ZenonT(60)
  <1>4. CASE UNCHANGED vars
    BY <1>4
  <1>5. CASE val_smmu_init \/ smmu_probe_fails \/ Allocate \/ AllocationFails
    BY <1>5, ZenonT(60) DEF val_smmu_init, smmu_probe_fails, Allocate, AllocationFails, InitFails, Announces
  <1>6. CASE \E i \in Smmus, en \in BOOLEAN : smmu_set_state(i, en)
    BY <1>6, ZenonT(60) DEF smmu_set_state, Announces
  <1>7. CASE val_smmu_stop \/ StopSkips \/ smmu_dev_disable \/ StopFrees
    BY <1>7, ZenonT(60) DEF val_smmu_stop, StopSkips, smmu_dev_disable, StopFrees, Announces
  <1>8. QED
    BY <1>1, <1>2, <1>3, <1>4, <1>5, <1>6, <1>7, ZenonT(60) DEF Next, Stopped

(* When val_smmu_init reports success, every SMMU it took on translates     *)
(* unless it left a write of its CR0 unacknowledged.                        *)
THEOREM SuccessMeansEnabled == Spec => InitMeansEnabled
  <1>1. LifeInv /\ [Next]_vars => [Announces]_vars
    BY AnnouncesRight
  <1>2. QED
    BY LifeStarts, LifeKeeps, <1>1, PTL DEF Spec, InitMeansEnabled, Announces
=============================================================================
