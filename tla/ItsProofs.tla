----------------------------- MODULE ItsProofs ------------------------------
(***************************************************************************)
(* For any number of functions, ITSs and LPIs, any queue and any timing of *)
(* the ITSs: once val_gic_request_msi has passed with no poll giving up    *)
(* the message of the function arrives, and once val_gic_free_msi has      *)
(* returned it is silent.                                                  *)
(***************************************************************************)
EXTENDS ItsMsi, WellFoundedInduction, TLAPS

USE SMTT(60), ZenonT(60)

\* A set of numbers that is not empty has a least element, which is Min.
LEMMA MinIsMember ==
  ASSUME NEW T \in SUBSET Nat, T # {}
  PROVE  Min(T) \in T
<1> DEFINE R == {p \in Nat \X Nat : p[1] < p[2]}
<1>1. IsWellFoundedOn(R, Nat)
  BY NatLessThanWellFounded DEF OpToRel
<1>2. PICK x \in T : \A y \in T : ~(<<y, x>> \in R)
  <2> HIDE DEF R
  <2> QED  BY <1>1, WFMin, ZenonT(60)
<1>3. ASSUME NEW y \in T PROVE x <= y
  <2>1. x \in Nat /\ y \in Nat /\ <<y, x>> \in Nat \X Nat
    OBVIOUS
  <2>2. ~(y < x)
    BY <1>2, <2>1
  <2> QED  BY <2>1, <2>2
<1> QED  BY <1>3, ZenonT(60) DEF Min

\* The fields of an MSI-X entry that is set.
LEMMA EntryFields ==
  \A m, i, id : m = [enabled |-> TRUE, its |-> i, data |-> id, masked |-> FALSE]
                  => m.enabled /\ m.its = i /\ m.data = id /\ ~m.masked
  OBVIOUS

\* The fields of an ITS; those the proof never looks into have any value.
ItsRec(t) ==
  t \in [ID : {t.ID}, PTA : {t.PTA}, IDBits : {t.IDBits}, g_cwriter_ptr : Nat, queue : {t.queue}, cwriter : Nat,
         creadr : Nat, stalled : BOOLEAN, enabled : BOOLEAN, devices : {t.devices}, itt : {t.itt},
         collections : {t.collections}]

\* The queue never wraps, what is between the pointers is still to be done, and
\* every MAPC in it is for the redistributor of this hart.
QueueOK(t, rd) ==
  /\ ItsRec(t)
  /\ t.cwriter = t.g_cwriter_ptr /\ t.cwriter < Slots /\ t.creadr <= t.cwriter
  /\ DOMAIN t.queue = 1..t.cwriter
  /\ \A k \in 1..t.cwriter : t.queue[k].name = "MAPC" => t.queue[k].id = 1 /\ t.queue[k].dev = rd

\* That is how it begins.
LEMMA NewFacts ==
  ASSUME NEW e, NEW on \in BOOLEAN, NEW rd
  PROVE  QueueOK(NewIts(e, on), rd)
BY ItsAssumption DEF NewIts, QueueOK, ItsRec

\* The ITS has all it needs for an interrupt of a device.
Mapped(t, dev, id, rd) ==
  t.enabled /\ dev \in t.devices /\ id \in t.itt /\ <<1, rd>> \in t.collections

\* Nothing that is still to be done takes it away.
Spares(t, dev, id) ==
  \A k \in (t.creadr + 1)..t.cwriter :
    /\ t.queue[k].name = "UNMAPD" => t.queue[k].dev # dev
    /\ t.queue[k].name = "DISCARD" => t.queue[k].id # id

\* The commands of a request are the last in the queue; each of them has been
\* executed, and its effect lasts, once the read pointer is past it.
Requesting(t, dev, id, rd) ==
  LET b == t.cwriter - 5 IN
    /\ b \in Nat /\ t.enabled
    /\ t.queue[b + 1] = WriteCmdQMAPD(dev, TRUE) /\ t.queue[b + 2] = Command("MAPC", rd, 1)
    /\ t.queue[b + 3] = WriteCmdQMAPI(dev, id) /\ t.queue[b + 4] = WriteCmdQINV(dev, id)
    /\ t.queue[b + 5] = WriteCmdQSYNC
    /\ t.creadr >= b + 1 => dev \in t.devices
    /\ t.creadr >= b + 2 => <<1, rd>> \in t.collections
    /\ t.creadr >= b + 3 => id \in t.itt

SameIts(t, u) == u.ID = t.ID /\ u.PTA = t.PTA

\* One command executed.
Advanced(t) == [Executed(t, t.queue[t.creadr + 1]) EXCEPT !.creadr = (@ + 1) % Slots]

LEMMA Small == ASSUME NEW M \in Nat \ {0}, NEW r \in 0..(M - 1) PROVE r % M = r
OBVIOUS

\* The ITS u is the ITS t after the command c.
After(t, u, c) ==
  /\ ItsRec(u) /\ SameIts(t, u)
  /\ u.g_cwriter_ptr = t.g_cwriter_ptr /\ u.queue = t.queue /\ u.cwriter = t.cwriter
  /\ u.creadr = t.creadr /\ u.enabled = t.enabled
  /\ \A dev : dev \in t.devices /\ (c.name = "UNMAPD" => c.dev # dev) => dev \in u.devices
  /\ c.name = "MAPD" => c.dev \in u.devices
  /\ \A id : id \in t.itt /\ (c.name = "DISCARD" => c.id # id) => id \in u.itt
  /\ c.name = "MAPI" /\ c.dev \in t.devices => c.id \in u.itt
  /\ \A rd : <<1, rd>> \in t.collections /\ (c.name = "MAPC" => c.dev = rd /\ c.id = 1) => <<1, rd>> \in u.collections
  /\ c.name = "MAPC" => <<c.id, c.dev>> \in u.collections

\* What a command does, and what it leaves alone.
LEMMA ExecutedFacts ==
  ASSUME NEW t, ItsRec(t), NEW c
  PROVE  After(t, Executed(t, c), c)
<1>1. CASE c.name = "MAPD"
  <2>1. Executed(t, c) = [t EXCEPT !.devices = @ \cup {c.dev}]
    BY <1>1 DEF Executed
  <2> QED  BY <1>1, <2>1 DEF After, ItsRec, SameIts
<1>2. CASE c.name = "UNMAPD"
  <2>1. Executed(t, c) = [t EXCEPT !.devices = @ \ {c.dev}]
    BY <1>2 DEF Executed
  <2> QED  BY <1>2, <2>1 DEF After, ItsRec, SameIts
<1>3. CASE c.name = "MAPC"
  <2>1. Executed(t, c) = [t EXCEPT !.collections = {x \in @ : x[1] # c.id} \cup {<<c.id, c.dev>>}]
    BY <1>3 DEF Executed
  <2> QED  BY <1>3, <2>1, ZenonT(60) DEF After, ItsRec, SameIts
<1>4. CASE c.name = "MAPI" /\ c.dev \in t.devices
  <2>1. Executed(t, c) = [t EXCEPT !.itt = @ \cup {c.id}]
    BY <1>4 DEF Executed
  <2> QED  BY <1>4, <2>1 DEF After, ItsRec, SameIts
<1>5. CASE c.name = "DISCARD" /\ c.dev \in t.devices
  <2>1. Executed(t, c) = [t EXCEPT !.itt = @ \ {c.id}]
    BY <1>5 DEF Executed
  <2> QED  BY <1>5, <2>1 DEF After, ItsRec, SameIts
<1>6. CASE /\ c.name \notin {"MAPD", "UNMAPD", "MAPC"}
           /\ ~(c.name = "MAPI" /\ c.dev \in t.devices) /\ ~(c.name = "DISCARD" /\ c.dev \in t.devices)
  <2>1. Executed(t, c) = t
    BY <1>6 DEF Executed
  <2> QED  BY <1>6, <2>1, ZenonT(60) DEF After, ItsRec, SameIts
<1> QED  BY <1>1, <1>2, <1>3, <1>4, <1>5, <1>6, ZenonT(60)

\* The ITS u has lost nothing of what the ITS t has or is about to do.
Keeps(t, u, rd) ==
  /\ QueueOK(u, rd) /\ SameIts(t, u) /\ u.cwriter = t.cwriter /\ u.queue = t.queue
  /\ \A dev, id : Mapped(t, dev, id, rd) /\ Spares(t, dev, id) => Mapped(u, dev, id, rd) /\ Spares(u, dev, id)
  /\ \A dev, id : Requesting(t, dev, id, rd) => Requesting(u, dev, id, rd)

\* Nothing is lost by going on to the next command.
LEMMA AdvancedFacts ==
  ASSUME NEW t, NEW rd, QueueOK(t, rd), t.creadr # t.cwriter
  PROVE  Keeps(t, Advanced(t), rd) /\ Advanced(t).creadr = t.creadr + 1
<1> DEFINE c == t.queue[t.creadr + 1]
           e == Executed(t, c)
           u == Advanced(t)
<1>1. /\ ItsRec(t) /\ t.creadr \in Nat /\ t.cwriter \in Nat /\ t.creadr + 1 \in 1..t.cwriter
      /\ (t.creadr + 1) % Slots = t.creadr + 1
  <2>1. ItsRec(t) /\ t.creadr \in Nat /\ t.cwriter \in Nat /\ t.creadr < t.cwriter /\ t.cwriter < Slots
    BY DEF QueueOK, ItsRec
  <2>2. Slots \in Nat \ {0} /\ t.creadr + 1 \in 0..(Slots - 1)
    BY <2>1, ItsAssumption
  <2> QED  BY <2>1, <2>2, Small
<1>2. After(t, e, c)
  BY <1>1, ExecutedFacts, ZenonT(60)
<1>3. u = [e EXCEPT !.creadr = t.creadr + 1]
  <2>1. u = [e EXCEPT !.creadr = (e.creadr + 1) % Slots]
    BY ZenonT(60) DEF Advanced
  <2>2. e.creadr = t.creadr
    BY <1>2, ZenonT(60) DEF After
  <2> QED  BY <1>1, <2>1, <2>2, ZenonT(60)
<1>4. c.name = "MAPC" => c.id = 1 /\ c.dev = rd
  BY <1>1, ZenonT(60) DEF QueueOK
<1> HIDE DEF e, u
<1>5. /\ ItsRec(u) /\ SameIts(t, u) /\ u.g_cwriter_ptr = t.g_cwriter_ptr /\ u.queue = t.queue /\ u.cwriter = t.cwriter
      /\ u.creadr = t.creadr + 1 /\ u.enabled = t.enabled
      /\ u.devices = e.devices /\ u.itt = e.itt /\ u.collections = e.collections
  <2>1. ItsRec(e) /\ SameIts(t, e) /\ e.g_cwriter_ptr = t.g_cwriter_ptr /\ e.queue = t.queue /\ e.cwriter = t.cwriter
        /\ e.enabled = t.enabled /\ t.creadr + 1 \in Nat
    BY <1>1, <1>2 DEF After
  <2> HIDE DEF c
  <2> QED  BY <1>3, <2>1 DEF ItsRec, SameIts
<1>6. QueueOK(u, rd)
  BY <1>1, <1>5 DEF QueueOK
<1>7. ASSUME NEW dev, NEW id, Mapped(t, dev, id, rd), Spares(t, dev, id)
      PROVE  Mapped(u, dev, id, rd) /\ Spares(u, dev, id)
  <2>1. (c.name = "UNMAPD" => c.dev # dev) /\ (c.name = "DISCARD" => c.id # id)
    BY <1>1, <1>7 DEF Spares
  <2>2. Mapped(u, dev, id, rd)
    BY <1>2, <1>4, <1>5, <1>7, <2>1, ZenonT(60) DEF Mapped, After
  <2>3. Spares(u, dev, id)
    BY <1>1, <1>5, <1>7 DEF Spares
  <2> QED  BY <2>2, <2>3
<1>8. ASSUME NEW dev, NEW id, Requesting(t, dev, id, rd) PROVE Requesting(u, dev, id, rd)
  <2> DEFINE b == t.cwriter - 5
  <2>1. /\ b \in Nat /\ t.enabled
        /\ t.queue[b + 1] = Command("MAPD", dev, 0) /\ t.queue[b + 2] = Command("MAPC", rd, 1)
        /\ t.queue[b + 3] = Command("MAPI", dev, id) /\ t.queue[b + 4] = Command("INV", dev, id)
        /\ t.queue[b + 5] = Command("SYNC", 0, 0)
        /\ t.creadr >= b + 1 => dev \in t.devices
        /\ t.creadr >= b + 2 => <<1, rd>> \in t.collections
        /\ t.creadr >= b + 3 => id \in t.itt
    BY <1>8, ZenonT(60) DEF Requesting, WriteCmdQMAPD, WriteCmdQMAPI, WriteCmdQINV, WriteCmdQSYNC
  <2>2. t.creadr = b \/ t.creadr = b + 1 \/ t.creadr = b + 2 \/ t.creadr = b + 3 \/ t.creadr = b + 4 \/ t.creadr < b
    BY <1>1, <2>1
  <2>3. t.creadr >= b => c.name \in {"MAPD", "MAPC", "MAPI", "INV", "SYNC"}
    BY <1>1, <2>1, <2>2 DEF Command
  <2>4. t.creadr = b => c.name = "MAPD" /\ c.dev = dev
    BY <2>1 DEF Command
  <2>5. t.creadr = b + 1 => c.name = "MAPC" /\ c.dev = rd /\ c.id = 1
    BY <2>1 DEF Command
  <2>6. t.creadr = b + 2 => c.name = "MAPI" /\ c.dev = dev /\ c.id = id
    BY <2>1 DEF Command
  <2> HIDE DEF c, b
  <2>7. t.creadr + 1 >= b + 1 => dev \in u.devices
    BY <1>1, <1>2, <1>5, <2>1, <2>2, <2>3, <2>4 DEF After
  <2>8. t.creadr + 1 >= b + 2 => <<1, rd>> \in u.collections
    BY <1>1, <1>2, <1>4, <1>5, <2>1, <2>2, <2>5 DEF After
  <2>9. t.creadr + 1 >= b + 3 => id \in u.itt
    BY <1>1, <1>2, <1>5, <2>1, <2>2, <2>3, <2>6 DEF After
  <2> QED  BY <1>5, <1>8, <2>7, <2>8, <2>9, ZenonT(60) DEF Requesting, b
<1>9. Keeps(t, u, rd) /\ u.creadr = t.creadr + 1
  BY <1>5, <1>6, <1>7, <1>8, ZenonT(60) DEF Keeps
<1> QED  BY <1>9, ZenonT(60) DEF u

\* The ITS u is the ITS t with n commands added behind those that are there.
Added(t, u, rd, n, commands) ==
  /\ QueueOK(u, rd) /\ SameIts(t, u) /\ u.cwriter = t.cwriter + n /\ u.creadr = t.creadr
  /\ u.enabled = t.enabled /\ u.devices = t.devices /\ u.itt = t.itt /\ u.collections = t.collections
  /\ \A k \in 1..t.cwriter : u.queue[k] = t.queue[k]
  /\ \A k \in 1..n : u.queue[t.cwriter + k] = commands[k]

\* Commands are added behind those that are there.
LEMMA EnqueuedFacts ==
  ASSUME NEW t, NEW rd, QueueOK(t, rd), NEW n \in 1..5, NEW commands, Len(commands) = n, t.g_cwriter_ptr + n < Slots,
         \A k \in 1..n : commands[k].name = "MAPC" => commands[k].id = 1 /\ commands[k].dev = rd
  PROVE  Added(t, Kick(Enqueue(t, commands)), rd, n, commands)
<1> DEFINE p == t.g_cwriter_ptr
           q == [k \in 1..Minimum(Slots, p + Len(commands)) |-> IF k <= p THEN t.queue[k] ELSE commands[k - p]]
           e == Enqueue(t, commands)
           u == Kick(e)
<1>1. ItsRec(t) /\ p \in Nat /\ t.cwriter = p /\ t.creadr \in Nat /\ t.creadr <= p /\ DOMAIN t.queue = 1..p
      /\ Slots \in Nat
  BY ItsAssumption, ZenonT(60) DEF QueueOK, ItsRec
<1>2. Minimum(Slots, p + Len(commands)) = p + n
  BY <1>1 DEF Minimum
<1>3. e = [t EXCEPT !.g_cwriter_ptr = p + n, !.queue = q]
  BY DEF Enqueue
<1>4. q = [k \in 1..(p + n) |-> IF k <= p THEN t.queue[k] ELSE commands[k - p]]
  BY <1>2
<1> HIDE DEF q, e
<1>5. /\ u = [e EXCEPT !.cwriter = e.g_cwriter_ptr] /\ p + n \in Nat
      /\ DOMAIN q = 1..(p + n) /\ \A k \in 1..p : q[k] = t.queue[k]
  BY <1>1, <1>4 DEF Kick
<1> HIDE DEF u, p
<1>6. \A k \in 1..n : q[p + k] = commands[k]
  BY <1>1, <1>4
<1>7. /\ ItsRec(u) /\ SameIts(t, u) /\ u.cwriter = p + n /\ u.g_cwriter_ptr = p + n /\ u.creadr = t.creadr /\ u.queue = q
      /\ u.enabled = t.enabled /\ u.devices = t.devices /\ u.itt = t.itt /\ u.collections = t.collections
  BY <1>1, <1>3, <1>5, ZenonT(60) DEF ItsRec, SameIts
<1>8. \A k \in 1..(p + n) : q[k].name = "MAPC" => q[k].id = 1 /\ q[k].dev = rd
  <2> SUFFICES ASSUME NEW k \in 1..(p + n) PROVE q[k].name = "MAPC" => q[k].id = 1 /\ q[k].dev = rd
    OBVIOUS
  <2>1. CASE k <= p
    BY <1>1, <1>5, <2>1 DEF QueueOK
  <2>2. CASE ~(k <= p)
    <3>1. k - p \in 1..n /\ k = p + (k - p)
      BY <1>1, <2>2
    <3>2. q[k] = commands[k - p]
      BY <1>6, <3>1
    <3> QED  BY <3>1, <3>2
  <2> QED  BY <2>1, <2>2
<1>9. QueueOK(u, rd)
  <2>1. p + n < Slots /\ t.creadr <= p + n
    BY <1>1 DEF p
  <2> QED  BY <1>5, <1>7, <1>8, <2>1, ZenonT(60) DEF QueueOK
<1>10. Added(t, u, rd, n, commands)
  BY <1>1, <1>5, <1>6, <1>7, <1>9, ZenonT(60) DEF Added
<1> QED  BY <1>10 DEF u, e

-----------------------------------------------------------------------------
\* How an ITS is told of this hart, the ITS of a function, and whether a call
\* for a function is in progress.
Rd(t) == GetRDBaseFormat(t) % Width
Index(d) == get_its_index(ItsId[d])
Calling(d) == call # NoCall /\ call.d = d
Holding == {"PASS", "SKIP"}
Ids == Lpis \cup {0}

ItsCalls ==
  [op : {"request", "free"}, pc : {"poll", "msix"}, d : Devices, i : Nat, int_id : Ids, count : Nat, late : BOOLEAN]

ItsType ==
  /\ Addressed(entries)
  /\ info.rd \in Nat /\ g_its_setup_done \in BOOLEAN
  /\ lpi \in [config : SUBSET Ids, cached : SUBSET Ids, enabled : BOOLEAN]
  /\ DOMAIN its \subseteq Nat \ {0}
  /\ \A i \in DOMAIN its : QueueOK(its[i], Rd(its[i]))
  /\ msix \in [Devices -> [enabled : BOOLEAN, its : Nat, data : Ids, masked : BOOLEAN]]
  /\ call = NoCall \/ call \in ItsCalls
  /\ asked \in [Devices -> [status : {"free", "ERR", "unfreed", "PASS", "SKIP"}, int_id : Ids, late : BOOLEAN]]

\* Nothing is held before the set-up.
SetupInv ==
  /\ g_its_setup_done => info.memory = "set"
  /\ info.memory = "null" => call = NoCall /\ \A d \in Devices : asked[d].status \notin Holding

\* No two functions hold one LPI, and the call in progress is about another one
\* or about the one its function holds.
OwnInv ==
  /\ \A d, e \in Devices : d # e /\ asked[d].status \in Holding /\ asked[e].status \in Holding
                             => asked[d].int_id # asked[e].int_id
  /\ call # NoCall =>
       /\ call.i = Index(call.d) /\ call.i \in DOMAIN its
       /\ call.op = "request" => \A e \in Devices : asked[e].status \in Holding => asked[e].int_id # call.int_id
       /\ call.op = "free" => asked[call.d].status \in Holding /\ asked[call.d].int_id = call.int_id

\* The message of a function arrives, and goes on arriving.
Held(d) ==
  LET i == Index(d)
      id == asked[d].int_id
  IN /\ msix[d] = [enabled |-> TRUE, its |-> i, data |-> id, masked |-> FALSE] /\ i \in DOMAIN its
     /\ Mapped(its[i], DeviceId[d], id, Rd(its[i])) /\ Spares(its[i], DeviceId[d], id)
     /\ lpi.enabled /\ id \in lpi.config /\ id \in lpi.cached

HeldInv ==
  g_its_setup_done =>
    \A d \in Devices : asked[d].status = "PASS" /\ ~asked[d].late /\ ~Calling(d) => Held(d)

\* How far the ITS is with the call in progress.
CallInv ==
  g_its_setup_done /\ call # NoCall =>
    LET t == its[call.i] IN
      /\ call.op = "request" =>
           /\ Requesting(t, DeviceId[call.d], call.int_id, Rd(t)) /\ lpi.enabled /\ call.int_id \in lpi.config
           /\ t.creadr >= t.cwriter - 1 => call.int_id \in lpi.cached
      /\ call.pc = "msix" /\ ~call.late => t.creadr = t.cwriter

FreedInv == \A d \in Devices : asked[d].status = "free" \/ ~HasMsix[d] => ~msix[d].enabled

ItsInv == ItsType /\ SetupInv /\ OwnInv /\ HeldInv /\ CallInv /\ FreedInv

\* The ITS of a function is one with the identifier looked for.
LEMMA IndexFacts ==
  ASSUME DOMAIN its \subseteq Nat \ {0}, NEW d \in Devices
  PROVE  /\ Index(d) # 0 => Index(d) \in DOMAIN its /\ its[Index(d)].ID = ItsId[d]
         /\ Index(d) \in DOMAIN its => Index(d) # 0
<1> DEFINE hits == {i \in DOMAIN its : its[i].ID = ItsId[d]}
<1>1. Index(d) = IF hits = {} THEN 0 ELSE Min(hits)
  BY DEF Index, get_its_index
<1>2. hits # {} => Min(hits) \in hits
  <2>1. hits \in SUBSET Nat
    OBVIOUS
  <2> HIDE DEF hits
  <2> QED  BY <2>1, MinIsMember
<1> QED  BY <1>1, <1>2, ZenonT(60)

\* Once the ITSs are known they stay what they are.
SameItses == DOMAIN its' = DOMAIN its /\ info' = info /\ \A j \in DOMAIN its : SameIts(its[j], its'[j])

LEMMA SameFacts ==
  ASSUME SameItses
  PROVE  (\A d \in Devices : Index(d)' = Index(d)) /\ \A j \in DOMAIN its : Rd(its[j])' = Rd(its[j])
<1>1. ASSUME NEW d \in Devices PROVE Index(d)' = Index(d)
  <2>1. {i \in DOMAIN its' : its'[i].ID = ItsId[d]} = {i \in DOMAIN its : its[i].ID = ItsId[d]}
    BY DEF SameItses, SameIts
  <2> QED  BY <2>1, ZenonT(60) DEF Index, get_its_index
<1>2. \A j \in DOMAIN its : Rd(its[j])' = Rd(its[j])
  BY DEF SameItses, SameIts, Rd, GetRDBaseFormat
<1> QED  BY <1>1, <1>2

\* What is held stays held when its ITS and its LPI keep what they have.
LEMMA HeldKept ==
  ASSUME SameItses, NEW d \in Devices, Held(d), asked'[d] = asked[d], msix'[d] = msix[d],
         LET i == Index(d)
             id == asked[d].int_id
         IN /\ Mapped(its'[i], DeviceId[d], id, Rd(its[i])) /\ Spares(its'[i], DeviceId[d], id)
            /\ lpi'.enabled /\ id \in lpi'.config /\ id \in lpi'.cached
  PROVE  Held(d)'
<1>1. Index(d)' = Index(d) /\ Index(d) \in DOMAIN its /\ Index(d) \in DOMAIN its'
  BY SameFacts, ZenonT(60) DEF Held, SameItses
<1>2. Rd(its[Index(d)])' = Rd(its[Index(d)])
  BY <1>1, SameFacts, ZenonT(60)
<1> QED  BY <1>1, <1>2, ZenonT(60) DEF Held

\* A call ends, for better or worse.
LEMMA ReturnKeeps ==
  ASSUME ItsInv, NEW d \in Devices, NEW status \in {"ERR", "unfreed"}, NEW id \in Ids, Return(d, status, id, FALSE),
         call = NoCall,
         UNCHANGED <<entries, info, g_its_setup_done, lpi, its, msix, call>>
  PROVE  ItsInv'
<1>1. /\ ItsType /\ SetupInv /\ OwnInv /\ HeldInv /\ CallInv /\ FreedInv
      /\ asked' = [asked EXCEPT ![d] = [status |-> status, int_id |-> id, late |-> FALSE]]
  BY DEF ItsInv, Return
<1>2. /\ asked' \in [Devices -> [status : {"free", "ERR", "unfreed", "PASS", "SKIP"}, int_id : Ids, late : BOOLEAN]]
      /\ asked'[d].status \notin Holding /\ asked'[d].status # "free" /\ \A e \in Devices \ {d} : asked'[e] = asked[e]
  BY <1>1, ZenonT(60) DEF ItsType, Holding
<1>3. SameItses
  BY DEF SameItses, SameIts
<1>4. ItsType'
  <2>1. \A i \in DOMAIN its' : QueueOK(its[i], Rd(its[i]))'
    BY <1>1 DEF ItsType, QueueOK, ItsRec, Rd, GetRDBaseFormat
  <2> QED  BY <1>1, <1>2, <2>1, ZenonT(60) DEF ItsType
<1>5. SetupInv' /\ OwnInv' /\ CallInv' /\ FreedInv'
  BY <1>1, <1>2 DEF SetupInv, OwnInv, CallInv, FreedInv
<1>6. HeldInv'
  <2> SUFFICES ASSUME g_its_setup_done', NEW e \in Devices, asked'[e].status = "PASS", ~asked'[e].late, ~Calling(e)'
               PROVE  Held(e)'
    BY DEF HeldInv
  <2>1. e # d /\ asked'[e] = asked[e]
    BY <1>2 DEF Holding
  <2>2. Held(e)
    BY <1>1, <2>1, ZenonT(60) DEF HeldInv, Calling
  <2> QED  BY <1>3, <2>1, <2>2, HeldKept, ZenonT(60) DEF Held
<1> QED  BY <1>4, <1>5, <1>6, ZenonT(60) DEF ItsInv

\* A call that has begun on a system without a set-up has changed nothing but
\* its own state.
LEMMA UnmappedKeeps ==
  ASSUME ItsInv, ~g_its_setup_done, call = NoCall, info.memory # "null", call' \in ItsCalls,
         call'.i = Index(call'.d), call'.i \in DOMAIN its,
         call'.op = "request" => \A e \in Devices : asked[e].status \in Holding => asked[e].int_id # call'.int_id,
         call'.op = "free" => asked[call'.d].status \in Holding /\ asked[call'.d].int_id = call'.int_id,
         UNCHANGED <<entries, info, g_its_setup_done, lpi, its, msix, asked>>
  PROVE  ItsInv'
<1>1. ItsType /\ SetupInv /\ OwnInv /\ HeldInv /\ CallInv /\ FreedInv
  BY DEF ItsInv
<1>2. SameItses /\ call' # NoCall
  BY DEF SameItses, SameIts, ItsCalls, NoCall
<1>3. \A d \in Devices : Index(d)' = Index(d)
  BY <1>2, SameFacts, ZenonT(60)
<1>4. ItsType'
  <2>1. \A i \in DOMAIN its' : QueueOK(its[i], Rd(its[i]))'
    BY <1>1 DEF ItsType, QueueOK, ItsRec, Rd, GetRDBaseFormat
  <2> QED  BY <1>1, <2>1, ZenonT(60) DEF ItsType
<1>5. call'.d \in Devices
  BY DEF ItsCalls
<1>6. OwnInv'
  <2>1. call'.i = Index(call.d)'
    BY <1>3, <1>5, ZenonT(60) DEF Index, get_its_index
  <2> QED  BY <1>1, <2>1, ZenonT(60) DEF OwnInv
<1>7. SetupInv' /\ HeldInv' /\ CallInv' /\ FreedInv'
  BY <1>1, ZenonT(60) DEF SetupInv, HeldInv, CallInv, FreedInv
<1> QED  BY <1>4, <1>6, <1>7, ZenonT(60) DEF ItsInv

\* Commands added to the queue of one ITS: what that does to the others, and to
\* what is held.
LEMMA QueuedFacts ==
  ASSUME ItsInv, NEW i \in DOMAIN its, NEW u, DOMAIN its' = DOMAIN its, info' = info,
         its'[i] = u, \A j \in DOMAIN its \ {i} : its'[j] = its[j], SameIts(its[i], u), QueueOK(u, Rd(its[i]))
  PROVE  /\ SameItses
         /\ \A j \in DOMAIN its' : QueueOK(its[j], Rd(its[j]))'
         /\ (\A d \in Devices : Index(d)' = Index(d)) /\ \A j \in DOMAIN its : Rd(its[j])' = Rd(its[j])
<1>2. SameItses
  BY DEF SameItses, SameIts
<1>3. (\A d \in Devices : Index(d)' = Index(d)) /\ \A j \in DOMAIN its : Rd(its[j])' = Rd(its[j])
  BY <1>2, SameFacts
<1>4. ASSUME NEW j \in DOMAIN its PROVE QueueOK(its[j], Rd(its[j]))'
  <2>1. QueueOK(its'[j], Rd(its[j]))
    <3>1. CASE j = i
      BY <3>1
    <3>2. CASE j # i
      BY <3>2 DEF ItsInv, ItsType
    <3> QED  BY <3>1, <3>2
  <2>2. Rd(its[j])' = Rd(its[j])
    BY <1>3
  <2> QED  BY <2>1, <2>2, ZenonT(60) DEF QueueOK, ItsRec
<1> QED  BY <1>2, <1>3, <1>4, ZenonT(60)

LEMMA RequestKeeps ==
  ASSUME ItsInv, NEW d \in Devices, NEW id \in Lpis, Room(d, 5), val_gic_request_msi(d, id)
  PROVE  ItsInv'
<1> DEFINE i == Index(d)
<1>1. /\ ItsType /\ SetupInv /\ OwnInv /\ HeldInv /\ CallInv /\ FreedInv
      /\ call = NoCall /\ id \in Ids
      /\ \A e \in Devices : asked[e].status \in Holding => asked[e].int_id # id
      /\ UNCHANGED <<entries, info, g_its_setup_done, msix>>
  BY ZenonT(60) DEF ItsInv, val_gic_request_msi, Ids, Holding
<1>2. PICK seen \in Seen :
        IF ~seen \/ i = 0 THEN Return(d, "ERR", id, FALSE) /\ UNCHANGED <<lpi, its, call>>
        ELSE /\ call' = [op |-> "request", pc |-> IF g_its_setup_done THEN "poll" ELSE "msix",
                         d |-> d, i |-> i, int_id |-> id, count |-> 0, late |-> FALSE]
             /\ IF g_its_setup_done THEN val_its_create_lpi_map(i, DeviceId[d], id)
                ELSE UNCHANGED <<lpi, its>>
             /\ UNCHANGED asked
  BY ZenonT(60) DEF val_gic_request_msi, Index
<1>3. CASE ~seen \/ i = 0
  BY <1>1, <1>2, <1>3, ReturnKeeps, ZenonT(60)
<1>4. ASSUME seen, i # 0 PROVE ItsInv'
  <2>1. /\ call' = [op |-> "request", pc |-> IF g_its_setup_done THEN "poll" ELSE "msix",
                    d |-> d, i |-> i, int_id |-> id, count |-> 0, late |-> FALSE]
        /\ g_its_setup_done => val_its_create_lpi_map(i, DeviceId[d], id)
        /\ ~g_its_setup_done => UNCHANGED <<lpi, its>>
        /\ asked' = asked
    BY <1>2, <1>4, ZenonT(60)
  <2>2. i \in DOMAIN its /\ its[i].ID = ItsId[d] /\ i \in Nat /\ info.memory # "null"
    <3>1. i \in DOMAIN its /\ its[i].ID = ItsId[d]
      BY <1>1, <1>4, IndexFacts, ZenonT(60) DEF ItsType
    <3>2. info.memory # "null"
      BY <1>2, <1>4, ZenonT(60) DEF Seen
    <3> QED  BY <1>1, <3>1, <3>2, ZenonT(60) DEF ItsType
  <2> HIDE DEF i
  <2>3. /\ call' \in ItsCalls /\ call' # NoCall /\ call'.d = d /\ call'.i = i /\ call'.int_id = id /\ call'.op = "request"
        /\ (g_its_setup_done => call'.pc = "poll") /\ ~call'.late
    BY <1>1, <2>1, <2>2, ZenonT(60) DEF ItsCalls, NoCall
  <2>4. CASE ~g_its_setup_done
    BY <1>1, <2>1, <2>2, <2>3, <2>4, UnmappedKeeps, ZenonT(60) DEF i
  <2>5. CASE g_its_setup_done
    <3> DEFINE t == its[i]
               on == EnableITS(t)
               rd == Rd(t)
               five == <<WriteCmdQMAPD(DeviceId[d], TRUE), WriteCmdQMAPC(1, GetRDBaseFormat(t)), WriteCmdQMAPI(DeviceId[d], id),
                         WriteCmdQINV(DeviceId[d], id), WriteCmdQSYNC>>
               u == Kick(Enqueue(on, five))
    <3>1. its' = [its EXCEPT ![i] = u] /\ lpi' = [lpi EXCEPT !.config = @ \cup {id}, !.enabled = TRUE]
      BY <1>1, <2>1, <2>2, <2>5, ZenonT(60) DEF val_its_create_lpi_map, EnableLPIsRD, SetConfigTable, ItsType
    <3>2. QueueOK(t, rd)
      BY <1>1, <2>2, ZenonT(60) DEF ItsType
    <3>3. /\ QueueOK(on, rd) /\ SameIts(t, on) /\ on.cwriter = t.cwriter /\ on.g_cwriter_ptr = t.g_cwriter_ptr
          /\ on.creadr = t.creadr /\ on.queue = t.queue
          /\ on.enabled /\ on.devices = t.devices /\ on.itt = t.itt /\ on.collections = t.collections
      BY <3>2, ZenonT(60) DEF QueueOK, ItsRec, EnableITS, SameIts
    <3>4. t.g_cwriter_ptr + 5 < Slots
      BY <1>4, <2>2, ZenonT(60) DEF Room, Index, i
    <3>5. /\ Len(five) = 5
          /\ five[1] = WriteCmdQMAPD(DeviceId[d], TRUE) /\ five[2] = Command("MAPC", rd, 1)
          /\ five[3] = WriteCmdQMAPI(DeviceId[d], id) /\ five[4] = WriteCmdQINV(DeviceId[d], id) /\ five[5] = WriteCmdQSYNC
      BY ZenonT(60) DEF WriteCmdQMAPC, Rd
    <3>6. \A k \in 1..5 : /\ five[k].name \notin {"UNMAPD", "DISCARD"}
                          /\ five[k].name = "MAPC" => five[k].id = 1 /\ five[k].dev = rd
      <4>1. \A k \in 1..5 : k = 1 \/ k = 2 \/ k = 3 \/ k = 4 \/ k = 5
        OBVIOUS
      <4> HIDE DEF five
      <4> QED  BY <3>5, <4>1 DEF WriteCmdQMAPD, WriteCmdQMAPI, WriteCmdQINV, WriteCmdQSYNC, Command
    <3> HIDE DEF five, on
    <3>7. /\ QueueOK(u, rd) /\ SameIts(on, u) /\ u.cwriter = t.cwriter + 5 /\ u.creadr = t.creadr
          /\ u.enabled /\ u.devices = t.devices /\ u.itt = t.itt /\ u.collections = t.collections
          /\ \A k \in 1..t.cwriter : u.queue[k] = t.queue[k]
          /\ \A k \in 1..5 : u.queue[t.cwriter + k] = five[k]
      <4>1. Added(on, u, rd, 5, five)
        <5>1. 5 \in 1..5 /\ on.g_cwriter_ptr + 5 < Slots
          BY <3>3, <3>4
        <5>2. \A k \in 1..5 : five[k].name = "MAPC" => five[k].id = 1 /\ five[k].dev = rd
          BY <3>6, ZenonT(60)
        <5> HIDE DEF t, rd
        <5> QED  BY <3>3, <3>5, <5>1, <5>2, EnqueuedFacts, ZenonT(60)
      <4> HIDE DEF u, t, rd
      <4> QED  BY <3>3, <4>1, ZenonT(60) DEF Added
    <3> HIDE DEF u
    <3>8. SameIts(t, u)
      BY <3>3, <3>7, ZenonT(60) DEF SameIts
    <3>9. /\ SameItses /\ its'[i] = u /\ \A j \in DOMAIN its \ {i} : its'[j] = its[j]
          /\ \A j \in DOMAIN its' : QueueOK(its[j], Rd(its[j]))'
          /\ (\A e \in Devices : Index(e)' = Index(e)) /\ \A j \in DOMAIN its : Rd(its[j])' = Rd(its[j])
      <4>1. DOMAIN its' = DOMAIN its /\ its'[i] = u /\ \A j \in DOMAIN its \ {i} : its'[j] = its[j]
        BY <2>2, <3>1
      <4> QED  BY <1>1, <2>2, <4>1, <3>7, <3>8, QueuedFacts, ZenonT(60)
    <3>10. t.cwriter \in Nat /\ t.creadr \in Nat /\ t.creadr <= t.cwriter
      BY <3>2, ZenonT(60) DEF QueueOK, ItsRec
    <3> HIDE DEF t, rd
    <3>11. /\ lpi' \in [config : SUBSET Ids, cached : SUBSET Ids, enabled : BOOLEAN]
           /\ lpi'.config = lpi.config \cup {id} /\ lpi'.cached = lpi.cached /\ lpi'.enabled
      BY <1>1, <3>1, ZenonT(60) DEF ItsType
    <3>12. ItsType'
      BY <1>1, <2>1, <2>3, <3>9, <3>11, ZenonT(60) DEF ItsType, SameItses
    <3>13. SetupInv' /\ OwnInv' /\ FreedInv'
      <4>1. call'.i = Index(call.d)' /\ call'.i \in DOMAIN its'
        <5>1. Index(d)' = i
          BY <3>9, ZenonT(60) DEF i
        <5> QED  BY <2>2, <2>3, <3>9, <5>1, ZenonT(60) DEF Index, get_its_index, SameItses
      <4> QED  BY <1>1, <2>1, <2>2, <2>3, <4>1, ZenonT(60) DEF SetupInv, OwnInv, FreedInv
    <3>14. HeldInv'
      <4> SUFFICES ASSUME g_its_setup_done', NEW e \in Devices, asked'[e].status = "PASS", ~asked'[e].late, ~Calling(e)'
                   PROVE  Held(e)'
        BY ZenonT(60) DEF HeldInv
      <4>1. Held(e)
        BY <1>1, <2>1, ZenonT(60) DEF HeldInv, Calling
      <4> DEFINE j == Index(e)
                 ee == asked[e].int_id
      <4>2. /\ Mapped(its[j], DeviceId[e], ee, Rd(its[j])) /\ Spares(its[j], DeviceId[e], ee)
            /\ lpi.enabled /\ ee \in lpi.config /\ ee \in lpi.cached /\ j \in DOMAIN its
        BY <4>1, ZenonT(60) DEF Held
      <4>3. Mapped(its'[j], DeviceId[e], ee, Rd(its[j])) /\ Spares(its'[j], DeviceId[e], ee)
        <5>1. CASE j # i
          BY <3>9, <4>2, <5>1, ZenonT(60)
        <5>2. CASE j = i
          <6>1. Mapped(u, DeviceId[e], ee, Rd(its[j]))
            BY <3>7, <4>2, <5>2, ZenonT(60) DEF Mapped, t
          <6>2. Spares(u, DeviceId[e], ee)
            <7> SUFFICES ASSUME NEW k \in (u.creadr + 1)..u.cwriter
                         PROVE  /\ u.queue[k].name = "UNMAPD" => u.queue[k].dev # DeviceId[e]
                                /\ u.queue[k].name = "DISCARD" => u.queue[k].id # ee
              BY ZenonT(60) DEF Spares
            <7>1. CASE k <= t.cwriter
              <8>1. k \in (t.creadr + 1)..t.cwriter /\ k \in 1..t.cwriter
                BY <3>7, <3>10, <7>1
              <8>2. u.queue[k] = t.queue[k]
                BY <3>7, <8>1, ZenonT(60)
              <8> QED  BY <4>2, <5>2, <8>1, <8>2, ZenonT(60) DEF Spares, t
            <7>2. CASE ~(k <= t.cwriter)
              <8>1. k - t.cwriter \in 1..5 /\ k = t.cwriter + (k - t.cwriter)
                BY <3>7, <3>10, <7>2
              <8>2. u.queue[k] = five[k - t.cwriter]
                BY <3>7, <8>1, ZenonT(60)
              <8> QED  BY <3>6, <8>1, <8>2, ZenonT(60)
            <7> QED  BY <7>1, <7>2, ZenonT(60)
          <6> QED  BY <3>9, <5>2, <6>1, <6>2, ZenonT(60)
        <5> QED  BY <5>1, <5>2, ZenonT(60)
      <4> QED  BY <1>1, <2>1, <3>9, <3>11, <4>1, <4>2, <4>3, HeldKept, ZenonT(60)
    <3>15. CallInv'
      <4>1. Requesting(u, DeviceId[d], id, rd)
        <5>1. u.cwriter - 5 = t.cwriter
          BY <3>7, <3>10
        <5>2. u.queue[t.cwriter + 1] = five[1] /\ u.queue[t.cwriter + 2] = five[2] /\ u.queue[t.cwriter + 3] = five[3]
              /\ u.queue[t.cwriter + 4] = five[4] /\ u.queue[t.cwriter + 5] = five[5]
          BY <3>7
        <5>3. ~(u.creadr >= t.cwriter + 1) /\ ~(u.creadr >= t.cwriter + 2) /\ ~(u.creadr >= t.cwriter + 3)
          BY <3>7, <3>10
        <5> QED  BY <3>5, <3>7, <3>10, <5>1, <5>2, <5>3, ZenonT(60) DEF Requesting
      <4>2. ~(u.creadr >= u.cwriter - 1)
        BY <3>7, <3>10
      <4>3. its'[call'.i] = u /\ Rd(its[call.i])' = rd
        BY <1>1, <2>3, <3>8, <3>9, ZenonT(60) DEF Rd, GetRDBaseFormat, SameIts, rd, t
      <4> QED  BY <2>3, <2>5, <3>9, <3>11, <4>1, <4>2, <4>3, ZenonT(60) DEF CallInv, rd, t
    <3> QED  BY <3>12, <3>13, <3>14, <3>15, ZenonT(60) DEF ItsInv
  <2> QED  BY <2>4, <2>5
<1> QED  BY <1>3, <1>4 DEF Seen

LEMMA FreeKeeps ==
  ASSUME ItsInv, NEW d \in Devices, Room(d, 3), val_gic_free_msi(d)
  PROVE  ItsInv'
<1> DEFINE i == Index(d)
           id == asked[d].int_id
<1>1. /\ ItsType /\ SetupInv /\ OwnInv /\ HeldInv /\ CallInv /\ FreedInv
      /\ call = NoCall /\ asked[d].status \in Holding /\ id \in Ids /\ 0 \in Ids
      /\ UNCHANGED <<entries, info, g_its_setup_done, msix>>
  BY ZenonT(60) DEF ItsInv, ItsType, val_gic_free_msi, Ids, Holding
<1>2. PICK seen \in Seen :
        IF ~seen \/ i = 0 THEN Return(d, "unfreed", 0, FALSE) /\ UNCHANGED <<lpi, its, call>>
        ELSE /\ call' = [op |-> "free", pc |-> IF g_its_setup_done THEN "poll" ELSE "msix",
                         d |-> d, i |-> i, int_id |-> id, count |-> 0, late |-> FALSE]
             /\ IF g_its_setup_done THEN val_its_clear_lpi_map(i, DeviceId[d], id)
                ELSE UNCHANGED <<lpi, its>>
             /\ UNCHANGED asked
  BY ZenonT(60) DEF val_gic_free_msi, Index
<1>3. CASE ~seen \/ i = 0
  BY <1>1, <1>2, <1>3, ReturnKeeps, ZenonT(60)
<1>4. ASSUME seen, i # 0 PROVE ItsInv'
  <2>1. /\ call' = [op |-> "free", pc |-> IF g_its_setup_done THEN "poll" ELSE "msix",
                    d |-> d, i |-> i, int_id |-> id, count |-> 0, late |-> FALSE]
        /\ g_its_setup_done => val_its_clear_lpi_map(i, DeviceId[d], id)
        /\ ~g_its_setup_done => UNCHANGED <<lpi, its>>
        /\ asked' = asked
    BY <1>2, <1>4, ZenonT(60)
  <2>2. i \in DOMAIN its /\ its[i].ID = ItsId[d] /\ i \in Nat /\ info.memory # "null"
    <3>1. i \in DOMAIN its /\ its[i].ID = ItsId[d]
      BY <1>1, <1>4, IndexFacts, ZenonT(60) DEF ItsType
    <3>2. info.memory # "null"
      BY <1>2, <1>4, ZenonT(60) DEF Seen
    <3> QED  BY <1>1, <3>1, <3>2, ZenonT(60) DEF ItsType
  <2> HIDE DEF i, id
  <2>3. /\ call' \in ItsCalls /\ call' # NoCall /\ call'.d = d /\ call'.i = i /\ call'.int_id = id /\ call'.op = "free"
        /\ (g_its_setup_done => call'.pc = "poll") /\ ~call'.late
    BY <1>1, <2>1, <2>2, ZenonT(60) DEF ItsCalls, NoCall
  <2>4. CASE ~g_its_setup_done
    BY <1>1, <2>1, <2>2, <2>3, <2>4, UnmappedKeeps, ZenonT(60) DEF i, id
  <2>5. CASE g_its_setup_done
    <3> DEFINE t == its[i]
               rd == Rd(t)
               three == <<WriteCmdQDISCARD(DeviceId[d], id), WriteCmdQMAPD(DeviceId[d], FALSE), WriteCmdQSYNC>>
               u == Kick(Enqueue(t, three))
    <3>1. its' = [its EXCEPT ![i] = u] /\ lpi' = [lpi EXCEPT !.config = @ \ {id}]
      BY <1>1, <2>1, <2>2, <2>5, ZenonT(60) DEF val_its_clear_lpi_map, ClearConfigTable
    <3>2. QueueOK(t, rd)
      BY <1>1, <2>2, ZenonT(60) DEF ItsType
    <3>3. t.g_cwriter_ptr + 3 < Slots
      BY <1>4, <2>2, ZenonT(60) DEF Room, Index, i
    <3>4. /\ Len(three) = 3
          /\ three[1] = Command("DISCARD", DeviceId[d], id) /\ three[2] = Command("UNMAPD", DeviceId[d], 0)
          /\ three[3] = Command("SYNC", 0, 0)
      BY DEF WriteCmdQDISCARD, WriteCmdQMAPD, WriteCmdQSYNC
    <3>5. \A k \in 1..3 : /\ three[k].name # "MAPC"
                          /\ three[k].name = "UNMAPD" => three[k].dev = DeviceId[d]
                          /\ three[k].name = "DISCARD" => three[k].id = id
      <4>1. \A k \in 1..3 : k = 1 \/ k = 2 \/ k = 3
        OBVIOUS
      <4> HIDE DEF three
      <4> QED  BY <3>4, <4>1 DEF Command
    <3> HIDE DEF three
    <3>6. /\ QueueOK(u, rd) /\ SameIts(t, u) /\ u.cwriter = t.cwriter + 3 /\ u.creadr = t.creadr
          /\ u.enabled = t.enabled /\ u.devices = t.devices /\ u.itt = t.itt /\ u.collections = t.collections
          /\ \A k \in 1..t.cwriter : u.queue[k] = t.queue[k]
          /\ \A k \in 1..3 : u.queue[t.cwriter + k] = three[k]
      <4>1. Added(t, u, rd, 3, three)
        <5>1. 3 \in 1..5 /\ t.g_cwriter_ptr + 3 < Slots
          BY <3>3
        <5>2. \A k \in 1..3 : three[k].name = "MAPC" => three[k].id = 1 /\ three[k].dev = rd
          BY <3>5, ZenonT(60)
        <5> HIDE DEF t, rd
        <5> QED  BY <3>2, <3>4, <5>1, <5>2, EnqueuedFacts, ZenonT(60)
      <4> HIDE DEF u, t, rd
      <4> QED  BY <3>2, <4>1, ZenonT(60) DEF Added
    <3> HIDE DEF u
    <3>7. /\ SameItses /\ its'[i] = u /\ \A j \in DOMAIN its \ {i} : its'[j] = its[j]
          /\ \A j \in DOMAIN its' : QueueOK(its[j], Rd(its[j]))'
          /\ (\A e \in Devices : Index(e)' = Index(e)) /\ \A j \in DOMAIN its : Rd(its[j])' = Rd(its[j])
      <4>1. DOMAIN its' = DOMAIN its /\ its'[i] = u /\ \A j \in DOMAIN its \ {i} : its'[j] = its[j]
        BY <2>2, <3>1
      <4> QED  BY <1>1, <2>2, <4>1, <3>6, QueuedFacts, ZenonT(60)
    <3>8. t.cwriter \in Nat /\ t.creadr \in Nat /\ t.creadr <= t.cwriter
      BY <3>2, ZenonT(60) DEF QueueOK, ItsRec
    <3> HIDE DEF t, rd
    <3>9. /\ lpi' \in [config : SUBSET Ids, cached : SUBSET Ids, enabled : BOOLEAN]
          /\ lpi'.config = lpi.config \ {id} /\ lpi'.cached = lpi.cached /\ lpi'.enabled = lpi.enabled
      BY <1>1, <3>1, ZenonT(60) DEF ItsType
    <3>10. ItsType'
      BY <1>1, <2>1, <2>3, <3>7, <3>9, ZenonT(60) DEF ItsType, SameItses
    <3>11. SetupInv' /\ OwnInv' /\ FreedInv'
      <4>1. call'.i = Index(call.d)' /\ call'.i \in DOMAIN its'
        <5>1. Index(d)' = i
          BY <3>7 DEF i
        <5> QED  BY <2>2, <2>3, <3>7, <5>1, ZenonT(60) DEF Index, get_its_index, SameItses
      <4> QED  BY <1>1, <2>1, <2>2, <2>3, <4>1, ZenonT(60) DEF SetupInv, OwnInv, FreedInv, id
    <3>12. HeldInv'
      <4> SUFFICES ASSUME g_its_setup_done', NEW e \in Devices, asked'[e].status = "PASS", ~asked'[e].late, ~Calling(e)'
                   PROVE  Held(e)'
        BY ZenonT(60) DEF HeldInv
      <4>1. Held(e) /\ e # d
        BY <1>1, <2>1, <2>3, ZenonT(60) DEF HeldInv, Calling
      <4> DEFINE j == Index(e)
                 ee == asked[e].int_id
      <4>2. /\ Mapped(its[j], DeviceId[e], ee, Rd(its[j])) /\ Spares(its[j], DeviceId[e], ee)
            /\ lpi.enabled /\ ee \in lpi.config /\ ee \in lpi.cached /\ j \in DOMAIN its
        BY <4>1, ZenonT(60) DEF Held
      \* The LPI is another one, and so is the device if the ITS is the same.
      <4>3. ee # id
        BY <1>1, <2>1, <4>1, ZenonT(60) DEF OwnInv, Holding, id
      <4>4. j = i => DeviceId[e] # DeviceId[d]
        <5>1. j = i => its[i].ID = ItsId[e]
          BY <1>1, <4>2, IndexFacts, ZenonT(60) DEF ItsType
        <5> QED  BY <2>2, <4>1, <5>1, ItsAssumption, ZenonT(60)
      <4>5. Mapped(its'[j], DeviceId[e], ee, Rd(its[j])) /\ Spares(its'[j], DeviceId[e], ee)
        <5>1. CASE j # i
          BY <3>7, <4>2, <5>1, ZenonT(60)
        <5>2. CASE j = i
          <6>1. Mapped(u, DeviceId[e], ee, Rd(its[j]))
            BY <3>6, <4>2, <5>2, ZenonT(60) DEF Mapped, t
          <6>2. Spares(u, DeviceId[e], ee)
            <7> SUFFICES ASSUME NEW k \in (u.creadr + 1)..u.cwriter
                         PROVE  /\ u.queue[k].name = "UNMAPD" => u.queue[k].dev # DeviceId[e]
                                /\ u.queue[k].name = "DISCARD" => u.queue[k].id # ee
              BY ZenonT(60) DEF Spares
            <7>1. CASE k <= t.cwriter
              <8>1. k \in (t.creadr + 1)..t.cwriter /\ k \in 1..t.cwriter
                BY <3>6, <3>8, <7>1
              <8>2. u.queue[k] = t.queue[k]
                BY <3>6, <8>1, ZenonT(60)
              <8> QED  BY <4>2, <5>2, <8>1, <8>2, ZenonT(60) DEF Spares, t
            <7>2. CASE ~(k <= t.cwriter)
              <8>1. k - t.cwriter \in 1..3 /\ k = t.cwriter + (k - t.cwriter)
                BY <3>6, <3>8, <7>2
              <8>2. u.queue[k] = three[k - t.cwriter]
                BY <3>6, <8>1, ZenonT(60)
              <8> QED  BY <3>5, <4>3, <4>4, <5>2, <8>1, <8>2, ZenonT(60)
            <7> QED  BY <7>1, <7>2, ZenonT(60)
          <6> QED  BY <3>7, <5>2, <6>1, <6>2, ZenonT(60)
        <5> QED  BY <5>1, <5>2, ZenonT(60)
      <4> QED  BY <1>1, <2>1, <3>7, <3>9, <4>1, <4>2, <4>3, <4>5, HeldKept, ZenonT(60)
    <3>13. CallInv'
      BY <2>3, <2>5, ZenonT(60) DEF CallInv
    <3> QED  BY <3>10, <3>11, <3>12, <3>13, ZenonT(60) DEF ItsInv
  <2> QED  BY <2>4, <2>5
<1> QED  BY <1>3, <1>4, ZenonT(60) DEF Seen

\* A turn of the poll changes no more of an ITS than whether it is stalled.
LEMMA PollKeeps ==
  ASSUME ItsInv, PollTillCommandQueueDone
  PROVE  ItsInv'
<1>1. /\ ItsType /\ SetupInv /\ OwnInv /\ HeldInv /\ CallInv /\ FreedInv /\ call.pc = "poll"
      /\ UNCHANGED <<entries, info, g_its_setup_done, lpi, msix, asked>>
  BY DEF ItsInv, PollTillCommandQueueDone
<1>2. call # NoCall /\ call \in ItsCalls /\ call.i \in DOMAIN its /\ call.i = Index(call.d) /\ call.d \in Devices
  <2>1. call # NoCall
    BY <1>1 DEF NoCall
  <2> QED  BY <1>1, <2>1, ZenonT(60) DEF ItsType, OwnInv, ItsCalls
<1> DEFINE t == its[call.i]
<1>3. QueueOK(t, Rd(t))
  BY <1>1, <1>2, ZenonT(60) DEF ItsType
<1>4. /\ DOMAIN its' = DOMAIN its /\ \A j \in DOMAIN its \ {call.i} : its'[j] = its[j]
      /\ its'[call.i] = t \/ its'[call.i] = [t EXCEPT !.stalled = FALSE]
  BY <1>2 DEF PollTillCommandQueueDone
<1> DEFINE u == its'[call.i]
<1>5. /\ QueueOK(u, Rd(t)) /\ SameIts(t, u) /\ u.creadr = t.creadr /\ u.cwriter = t.cwriter /\ u.queue = t.queue
      /\ u.enabled = t.enabled /\ u.devices = t.devices /\ u.itt = t.itt /\ u.collections = t.collections
  BY <1>3, <1>4, ZenonT(60) DEF QueueOK, ItsRec, SameIts
<1>6. /\ SameItses /\ \A j \in DOMAIN its' : QueueOK(its[j], Rd(its[j]))'
      /\ (\A e \in Devices : Index(e)' = Index(e)) /\ \A j \in DOMAIN its : Rd(its[j])' = Rd(its[j])
  <2> HIDE DEF u
  <2>1. u = its'[call.i]
    BY DEF u
  <2> QED  BY <1>1, <1>2, <1>4, <1>5, <2>1, QueuedFacts, ZenonT(60)
<1>7. /\ call' \in ItsCalls /\ call' # NoCall /\ call'.d = call.d /\ call'.i = call.i /\ call'.int_id = call.int_id
      /\ call'.op = call.op /\ (call'.pc = "msix" /\ ~call'.late => u.creadr = u.cwriter)
  <2>1. \/ t.creadr = t.cwriter /\ call' = [call EXCEPT !.pc = "msix"]
        \/ call' = [call EXCEPT !.pc = "msix", !.late = TRUE]
        \/ call' = [call EXCEPT !.count = @ + 1]
    BY DEF PollTillCommandQueueDone
  <2> HIDE DEF t, u
  <2>2. CASE t.creadr = t.cwriter /\ call' = [call EXCEPT !.pc = "msix"]
    BY <1>2, <1>5, <2>2, ZenonT(60) DEF ItsCalls, NoCall
  <2>3. CASE call' = [call EXCEPT !.pc = "msix", !.late = TRUE]
    BY <1>2, <2>3, ZenonT(60) DEF ItsCalls, NoCall
  <2>4. CASE call' = [call EXCEPT !.count = @ + 1]
    <3>1. call.count + 1 \in Nat
      BY <1>2 DEF ItsCalls
    <3>2. call' \in ItsCalls
      BY <1>2, <2>4, <3>1, ZenonT(60) DEF ItsCalls
    <3> QED  BY <1>1, <1>2, <2>4, <3>2, ZenonT(60) DEF ItsCalls, NoCall
  <2> QED  BY <2>1, <2>2, <2>3, <2>4, ZenonT(60)
<1>8. ItsType'
  BY <1>1, <1>6, <1>7, ZenonT(60) DEF ItsType, SameItses
<1>9. SetupInv' /\ OwnInv' /\ FreedInv'
  <2>1. call'.i = Index(call.d)' /\ call'.i \in DOMAIN its'
    <3>1. PICK d \in Devices : d = call.d
      BY <1>2
    <3>2. Index(d)' = call.i
      BY <1>2, <1>6, <3>1, ZenonT(60)
    <3> QED  BY <1>2, <1>4, <1>7, <3>1, <3>2, ZenonT(60) DEF Index, get_its_index
  <2> QED  BY <1>1, <1>2, <1>7, <2>1, ZenonT(60) DEF SetupInv, OwnInv, FreedInv
<1>10. HeldInv'
  <2> SUFFICES ASSUME g_its_setup_done', NEW e \in Devices, asked'[e].status = "PASS", ~asked'[e].late, ~Calling(e)'
               PROVE  Held(e)'
    BY DEF HeldInv
  <2>1. Held(e)
    BY <1>1, <1>2, <1>7, ZenonT(60) DEF HeldInv, Calling
  <2> DEFINE j == Index(e)
             ee == asked[e].int_id
  <2>2. /\ Mapped(its[j], DeviceId[e], ee, Rd(its[j])) /\ Spares(its[j], DeviceId[e], ee) /\ j \in DOMAIN its
        /\ lpi.enabled /\ ee \in lpi.config /\ ee \in lpi.cached
    BY <2>1, ZenonT(60) DEF Held
  <2>3. Mapped(its'[j], DeviceId[e], ee, Rd(its[j])) /\ Spares(its'[j], DeviceId[e], ee)
    <3>1. CASE j # call.i
      BY <1>4, <2>2, <3>1, ZenonT(60)
    <3>2. CASE j = call.i
      BY <1>5, <2>2, <3>2, ZenonT(60) DEF Mapped, Spares
    <3> QED  BY <3>1, <3>2, ZenonT(60)
  <2> QED  BY <1>1, <1>6, <2>1, <2>2, <2>3, HeldKept, ZenonT(60)
<1>11. CallInv'
  <2>1. Rd(its[call.i])' = Rd(t)
    BY <1>1, <1>5, <1>7, ZenonT(60) DEF Rd, GetRDBaseFormat, SameIts
  <2> HIDE DEF t, u
  <2>2. \A dev, id, rd : Requesting(t, dev, id, rd) => Requesting(u, dev, id, rd)
    <3> SUFFICES ASSUME NEW dev, NEW id, NEW rd, Requesting(t, dev, id, rd) PROVE Requesting(u, dev, id, rd)
      OBVIOUS
    <3> QED  BY <1>5, ZenonT(60) DEF Requesting
  <2>3. its'[call'.i] = u
    BY <1>7 DEF u
  <2> QED  BY <1>1, <1>2, <1>5, <1>7, <2>1, <2>2, <2>3, ZenonT(60) DEF CallInv, t
<1> QED  BY <1>8, <1>9, <1>10, <1>11, ZenonT(60) DEF ItsInv

\* The call writes the MSI-X entry and ends. A request that was polled to its
\* end has everything executed.
LEMMA MsiXKeeps ==
  ASSUME ItsInv, MsiX
  PROVE  ItsInv'
<1>1. /\ ItsType /\ SetupInv /\ OwnInv /\ HeldInv /\ CallInv /\ FreedInv /\ call.pc = "msix" /\ call' = NoCall
      /\ UNCHANGED <<entries, info, g_its_setup_done, lpi, its>>
  BY DEF ItsInv, MsiX
<1>2. call # NoCall /\ call \in ItsCalls
  BY <1>1 DEF NoCall, ItsType
<1>3. PICK d \in Devices : d = call.d
  BY <1>2 DEF ItsCalls
<1>4. PICK id \in Ids : id = call.int_id
  BY <1>2 DEF ItsCalls
<1>5. PICK i \in DOMAIN its : i = call.i
  BY <1>1, <1>2, ZenonT(60) DEF OwnInv
<1>6. i = Index(d) /\ i \in Nat /\ call.op \in {"request", "free"} /\ call.late \in BOOLEAN /\ 0 \in Ids
      /\ HasMsix[d] \in BOOLEAN
  BY <1>1, <1>2, <1>3, <1>5, ItsAssumption, ZenonT(60) DEF OwnInv, ItsCalls, Ids, ItsType
<1>7. SameItses
  BY <1>1 DEF SameItses, SameIts
<1>8. \A j \in DOMAIN its' : QueueOK(its[j], Rd(its[j]))'
  BY <1>1 DEF ItsType, QueueOK, ItsRec, Rd, GetRDBaseFormat
\* What the call leaves for its function.
<1> DEFINE Leaves(a, m) ==
        /\ asked' = [asked EXCEPT ![d] = a] /\ msix' = [msix EXCEPT ![d] = m]
        /\ a \in [status : {"free", "ERR", "unfreed", "PASS", "SKIP"}, int_id : Ids, late : BOOLEAN]
        /\ m \in [enabled : BOOLEAN, its : Nat, data : Ids, masked : BOOLEAN]
        /\ a.late = call.late /\ (a.status \in Holding => call.op = "request" /\ a.int_id = id)
        /\ a.status = "PASS" => m = [enabled |-> TRUE, its |-> i, data |-> id, masked |-> FALSE]
        /\ a.status = "free" \/ ~HasMsix[d] => ~m.enabled
<1>9. \E a, m : Leaves(a, m)
  <2>0. /\ msix = [msix EXCEPT ![d] = msix[d]] /\ msix[d] \in [enabled : BOOLEAN, its : Nat, data : Ids, masked : BOOLEAN]
        /\ ~HasMsix[d] => ~msix[d].enabled
    BY <1>1, ZenonT(60) DEF ItsType, FreedInv
  <2> DEFINE on == [enabled |-> TRUE, its |-> i, data |-> id, masked |-> FALSE]
             off == [enabled |-> FALSE, its |-> 0, data |-> 0, masked |-> TRUE]
             got == [status |-> IF HasMsix[d] THEN "PASS" ELSE "SKIP", int_id |-> id, late |-> call.late]
             gone == [status |-> "free", int_id |-> 0, late |-> call.late]
  <2>1. CASE call.op = "request"
    <3>1. /\ asked' = [asked EXCEPT ![d] = got]
          /\ msix' = IF HasMsix[d] THEN [msix EXCEPT ![d] = on] ELSE msix
      BY <1>3, <1>4, <1>5, <2>1, ZenonT(60) DEF MsiX, Return, fill_msi_x_table
    <3>2. CASE HasMsix[d]
      <4>1. Leaves(got, on)
        BY <1>6, <2>1, <3>1, <3>2, ZenonT(60) DEF Holding
      <4> HIDE DEF Leaves
      <4> QED  BY <4>1, ZenonT(60)
    <3>3. CASE ~HasMsix[d]
      <4>1. Leaves(got, msix[d])
        BY <1>6, <2>0, <2>1, <3>1, <3>3, ZenonT(60) DEF Holding
      <4> HIDE DEF Leaves
      <4> QED  BY <4>1, ZenonT(60)
    <3> QED  BY <3>2, <3>3, ZenonT(60)
  <2>2. CASE call.op = "free"
    <3>1. /\ asked' = [asked EXCEPT ![d] = gone]
          /\ msix' = IF HasMsix[d] THEN [msix EXCEPT ![d] = off] ELSE msix
      BY <1>3, <2>2, ZenonT(60) DEF MsiX, Return, clear_msi_x_table
    <3>2. CASE HasMsix[d]
      <4>1. gone \in [status : {"free", "ERR", "unfreed", "PASS", "SKIP"}, int_id : Ids, late : BOOLEAN]
        BY <1>6
      <4>2. off \in [enabled : BOOLEAN, its : Nat, data : Ids, masked : BOOLEAN] /\ ~off.enabled
        BY <1>6
      <4>3. gone.status = "free" /\ gone.late = call.late
        BY ZenonT(60)
      <4> HIDE DEF gone, off
      <4>4. Leaves(gone, off)
        BY <3>1, <3>2, <4>1, <4>2, <4>3, ZenonT(60) DEF Holding
      <4> HIDE DEF Leaves
      <4> QED  BY <4>4, ZenonT(60)
    <3>3. CASE ~HasMsix[d]
      <4>1. Leaves(gone, msix[d])
        BY <1>6, <2>0, <2>2, <3>1, <3>3, ZenonT(60) DEF Holding
      <4> HIDE DEF Leaves
      <4> QED  BY <4>1, ZenonT(60)
    <3> QED  BY <3>2, <3>3, ZenonT(60)
  <2> QED  BY <1>6, <2>1, <2>2, ZenonT(60)
<1>10. PICK a, m : Leaves(a, m)
  BY <1>9, ZenonT(60)
<1>11. /\ asked'[d] = a /\ msix'[d] = m /\ \A e \in Devices \ {d} : asked'[e] = asked[e] /\ msix'[e] = msix[e]
       /\ asked' \in [Devices -> [status : {"free", "ERR", "unfreed", "PASS", "SKIP"}, int_id : Ids, late : BOOLEAN]]
       /\ msix' \in [Devices -> [enabled : BOOLEAN, its : Nat, data : Ids, masked : BOOLEAN]]
  BY <1>1, <1>10, ZenonT(60) DEF ItsType
<1>12. ItsType'
  BY <1>1, <1>8, <1>11, ZenonT(60) DEF ItsType
<1>13. SetupInv' /\ CallInv'
  BY <1>1, <1>2, ZenonT(60) DEF SetupInv, CallInv
<1>14. OwnInv'
  <2> SUFFICES ASSUME NEW x \in Devices, NEW y \in Devices, x # y, asked'[x].status \in Holding, asked'[y].status \in Holding
               PROVE  asked'[x].int_id # asked'[y].int_id
    BY <1>1, ZenonT(60) DEF OwnInv
  <2>1. call.op = "request" => \A e \in Devices : asked[e].status \in Holding => asked[e].int_id # id
    BY <1>1, <1>2, <1>4, ZenonT(60) DEF OwnInv
  <2>2. a.status \in Holding => \A e \in Devices : asked[e].status \in Holding => asked[e].int_id # a.int_id
    <3>1. a.status \in Holding => call.op = "request" /\ a.int_id = id
      BY <1>10, ZenonT(60)
    <3> QED  BY <2>1, <3>1, ZenonT(60)
  <2>3. CASE x = d \/ y = d
    BY <1>11, <2>2, <2>3, ZenonT(60)
  <2>4. CASE x # d /\ y # d
    <3>1. asked'[x] = asked[x] /\ asked'[y] = asked[y]
      BY <1>11, <2>4, ZenonT(60)
    <3> QED  BY <1>1, <3>1, ZenonT(60) DEF OwnInv
  <2> QED  BY <2>3, <2>4, ZenonT(60)
<1>15. FreedInv'
  BY <1>1, <1>10, <1>11, ZenonT(60) DEF FreedInv
<1>16. HeldInv'
  <2> SUFFICES ASSUME g_its_setup_done', NEW e \in Devices, asked'[e].status = "PASS", ~asked'[e].late
               PROVE  Held(e)'
    BY DEF HeldInv
  <2>1. CASE e # d
    <3>1. Held(e)
      BY <1>1, <1>3, <1>11, <2>1, ZenonT(60) DEF HeldInv, Calling
    <3> QED  BY <1>1, <1>7, <1>11, <2>1, <3>1, HeldKept, ZenonT(60) DEF Held
  <2>2. CASE e = d
    <3> DEFINE t == its[i]
    <3>1. a.status = "PASS" /\ ~call.late /\ call.op = "request" /\ a.int_id = id
      BY <1>10, <1>11, <2>2, ZenonT(60) DEF Holding
    <3>2. /\ Requesting(t, DeviceId[d], id, Rd(t)) /\ lpi.enabled /\ id \in lpi.config
          /\ (t.creadr >= t.cwriter - 1 => id \in lpi.cached) /\ t.creadr = t.cwriter
      BY <1>1, <1>2, <1>3, <1>4, <1>5, <3>1, ZenonT(60) DEF CallInv
    <3>3. QueueOK(t, Rd(t)) /\ t.cwriter \in Nat
      BY <1>1, ZenonT(60) DEF ItsType, QueueOK, ItsRec
    <3>4. t.creadr >= t.cwriter - 5 + 1 /\ t.creadr >= t.cwriter - 5 + 2 /\ t.creadr >= t.cwriter - 5 + 3
          /\ t.creadr >= t.cwriter - 1
      BY <3>2, <3>3
    <3>5. Mapped(t, DeviceId[d], id, Rd(t)) /\ id \in lpi.cached
      BY <3>2, <3>4, ZenonT(60) DEF Requesting, Mapped
    <3>6. Spares(t, DeviceId[d], id)
      BY <3>2, <3>3 DEF Spares
    <3>7. Index(d)' = i /\ Rd(its[i])' = Rd(t)
      BY <1>6, <1>7, SameFacts, ZenonT(60)
    <3> QED  BY <1>1, <1>10, <1>11, <2>2, <3>1, <3>2, <3>5, <3>6, <3>7, ZenonT(60) DEF Held
  <2> QED  BY <2>1, <2>2
<1> QED  BY <1>12, <1>13, <1>14, <1>15, <1>16, ZenonT(60) DEF ItsInv

\* The ITS executes a command or stalls.
LEMMA ItsRunsKeeps ==
  ASSUME ItsInv, NEW i \in DOMAIN its, ItsRuns(i)
  PROVE  ItsInv'
<1> DEFINE t == its[i]
           u == its'[i]
           c == t.queue[t.creadr + 1]
           rd == Rd(t)
<1>1. /\ ItsType /\ SetupInv /\ OwnInv /\ HeldInv /\ CallInv /\ FreedInv /\ t.creadr # t.cwriter
      /\ UNCHANGED <<entries, info, g_its_setup_done, msix, call, asked>> /\ QueueOK(t, rd)
  <2>1. ItsType /\ SetupInv /\ OwnInv /\ HeldInv /\ CallInv /\ FreedInv
    BY ZenonT(60) DEF ItsInv
  <2>2. t.creadr # t.cwriter /\ UNCHANGED <<entries, info, g_its_setup_done, msix, call, asked>>
    BY ZenonT(60) DEF ItsRuns
  <2> QED  BY <2>1, <2>2, ZenonT(60) DEF ItsType
<1>2. DOMAIN its' = DOMAIN its /\ \A j \in DOMAIN its \ {i} : its'[j] = its[j]
  BY ZenonT(60) DEF ItsRuns
<1>3. \/ u = [t EXCEPT !.stalled = TRUE] /\ lpi' = lpi
      \/ /\ u = Advanced(t)
         /\ lpi' = IF c.name = "INV" THEN [lpi EXCEPT !.cached = (@ \ {c.id}) \cup (lpi.config \cap {c.id})] ELSE lpi
  <2>1. \/ its' = [its EXCEPT ![i].stalled = TRUE] /\ lpi' = lpi
        \/ /\ its' = [its EXCEPT ![i] = [Executed(its[i], c) EXCEPT !.creadr = (@ + 1) % Slots]]
           /\ lpi' = IF c.name = "INV" THEN [lpi EXCEPT !.cached = (@ \ {c.id}) \cup (lpi.config \cap {c.id})] ELSE lpi
    BY Zenon DEF ItsRuns
  <2>2. Advanced(t) = [Executed(its[i], c) EXCEPT !.creadr = (@ + 1) % Slots]
    BY Zenon DEF Advanced
  <2> HIDE DEF c
  <2> QED  BY <2>1, <2>2, ZenonT(60)
\* In both cases nothing is lost.
<1>4. Keeps(t, u, rd) /\ (u.creadr = t.creadr \/ (u.creadr = t.creadr + 1 /\ u = Advanced(t)))
  <2> HIDE DEF t, u, rd
  <2>1. CASE u = [t EXCEPT !.stalled = TRUE]
    <3>1. /\ ItsRec(u) /\ SameIts(t, u) /\ u.creadr = t.creadr /\ u.cwriter = t.cwriter /\ u.queue = t.queue
          /\ u.g_cwriter_ptr = t.g_cwriter_ptr
          /\ u.enabled = t.enabled /\ u.devices = t.devices /\ u.itt = t.itt /\ u.collections = t.collections
      BY <1>1, <2>1, ZenonT(60) DEF QueueOK, ItsRec, SameIts
    <3>2. QueueOK(u, rd)
      BY <1>1, <3>1, ZenonT(60) DEF QueueOK
    <3>3. \A dev, id : Mapped(t, dev, id, rd) /\ Spares(t, dev, id) => Mapped(u, dev, id, rd) /\ Spares(u, dev, id)
      BY <3>1, ZenonT(60) DEF Mapped, Spares
    <3>4. ASSUME NEW dev, NEW id, Requesting(t, dev, id, rd) PROVE Requesting(u, dev, id, rd)
      BY <3>1, <3>4, ZenonT(60) DEF Requesting
    <3> QED  BY <3>1, <3>2, <3>3, <3>4, ZenonT(60) DEF Keeps
  <2>2. CASE u = Advanced(t)
    BY <1>1, <2>2, AdvancedFacts, ZenonT(60)
  <2> QED  BY <1>3, <2>1, <2>2, ZenonT(60)
<1>5. /\ lpi' \in [config : SUBSET Ids, cached : SUBSET Ids, enabled : BOOLEAN]
      /\ lpi'.config = lpi.config /\ lpi'.enabled = lpi.enabled
      /\ \A id \in lpi.config : id \in lpi.cached => id \in lpi'.cached
      /\ \A id \in lpi.config : u = Advanced(t) /\ t.creadr # u.creadr /\ c.name = "INV" /\ c.id = id => id \in lpi'.cached
  <2> HIDE DEF t, u, c
  <2>1. lpi \in [config : SUBSET Ids, cached : SUBSET Ids, enabled : BOOLEAN]
    BY <1>1, ZenonT(60) DEF ItsType
  <2>2. CASE u = [t EXCEPT !.stalled = TRUE] /\ lpi' = lpi
    <3>1. u.creadr = t.creadr
      BY <1>1, <2>2, ZenonT(60) DEF QueueOK, ItsRec
    <3> QED  BY <2>1, <2>2, <3>1
  <2>3. CASE lpi' = IF c.name = "INV" THEN [lpi EXCEPT !.cached = (@ \ {c.id}) \cup (lpi.config \cap {c.id})] ELSE lpi
    BY <2>1, <2>3, ZenonT(60)
  <2> QED  BY <1>3, <2>2, <2>3, ZenonT(60)
<1>6. /\ SameItses /\ \A j \in DOMAIN its' : QueueOK(its[j], Rd(its[j]))'
      /\ (\A e \in Devices : Index(e)' = Index(e)) /\ \A j \in DOMAIN its : Rd(its[j])' = Rd(its[j])
  <2> HIDE DEF u
  <2>1. u = its'[i]
    BY DEF u
  <2> QED  BY <1>1, <1>2, <1>4, <2>1, QueuedFacts, ZenonT(60) DEF Keeps
<1>7. ItsType'
  BY <1>1, <1>5, <1>6, ZenonT(60) DEF ItsType, SameItses
<1>8. SetupInv' /\ FreedInv'
  BY <1>1, ZenonT(60) DEF SetupInv, FreedInv
<1>9. OwnInv'
  <2>1. call # NoCall => Index(call.d)' = Index(call.d)
    <3> SUFFICES ASSUME call # NoCall PROVE Index(call.d)' = Index(call.d)
      OBVIOUS
    <3>1. PICK d \in Devices : d = call.d
      BY <1>1, ZenonT(60) DEF ItsType, ItsCalls
    <3>2. Index(d)' = Index(call.d)
      BY <1>6, <3>1
    <3> QED  BY <1>1, <3>1, <3>2, ZenonT(60) DEF Index, get_its_index
  <2> QED  BY <1>1, <1>2, <2>1, ZenonT(60) DEF OwnInv
<1>10. HeldInv'
  <2> SUFFICES ASSUME g_its_setup_done', NEW e \in Devices, asked'[e].status = "PASS", ~asked'[e].late, ~Calling(e)'
               PROVE  Held(e)'
    BY ZenonT(60) DEF HeldInv
  <2>1. Held(e)
    BY <1>1, ZenonT(60) DEF HeldInv, Calling
  <2> DEFINE j == Index(e)
             ee == asked[e].int_id
  <2>2. /\ Mapped(its[j], DeviceId[e], ee, Rd(its[j])) /\ Spares(its[j], DeviceId[e], ee) /\ j \in DOMAIN its
        /\ lpi.enabled /\ ee \in lpi.config /\ ee \in lpi.cached
    BY <2>1, ZenonT(60) DEF Held
  <2>3. Mapped(its'[j], DeviceId[e], ee, Rd(its[j])) /\ Spares(its'[j], DeviceId[e], ee)
    <3>1. CASE j # i
      BY <1>2, <2>2, <3>1, ZenonT(60)
    <3>2. CASE j = i
      BY <1>4, <2>2, <3>2, ZenonT(60) DEF Keeps
    <3> QED  BY <3>1, <3>2, ZenonT(60)
  <2> QED  BY <1>1, <1>5, <1>6, <2>1, <2>2, <2>3, HeldKept, ZenonT(60)
<1>11. CallInv'
  <2> SUFFICES ASSUME g_its_setup_done, call # NoCall PROVE CallInv'
    BY <1>1, ZenonT(60) DEF CallInv
  <2>1. PICK k \in DOMAIN its : k = call.i
    BY <1>1, ZenonT(60) DEF OwnInv
  <2>2. CASE k # i
    <3>1. its'[k] = its[k] /\ Rd(its[k])' = Rd(its[k])
      BY <1>2, <1>6, <2>2, ZenonT(60)
    <3>2. Rd(its[call.i])' = Rd(its[call.i])
      BY <1>1, <2>1, <3>1, ZenonT(60) DEF Rd, GetRDBaseFormat
    <3> QED  BY <1>1, <1>5, <2>1, <3>1, <3>2, ZenonT(60) DEF CallInv
  <2>3. CASE k = i
    <3>1. Rd(its[call.i])' = rd /\ its'[call'.i] = u
      BY <1>1, <1>4, <2>1, <2>3, ZenonT(60) DEF Rd, GetRDBaseFormat, SameIts, Keeps
    <3>2. /\ call.op = "request" =>
               /\ Requesting(t, DeviceId[call.d], call.int_id, rd) /\ lpi.enabled /\ call.int_id \in lpi.config
               /\ t.creadr >= t.cwriter - 1 => call.int_id \in lpi.cached
          /\ ~(call.pc = "msix" /\ ~call.late)
      BY <1>1, <2>1, <2>3, ZenonT(60) DEF CallInv
    <3>3. t.creadr \in Nat /\ t.cwriter \in Nat
      BY <1>1, ZenonT(60) DEF QueueOK, ItsRec
    <3>4. ASSUME call.op = "request", u.creadr >= u.cwriter - 1 PROVE call.int_id \in lpi'.cached
      <4>1. CASE t.creadr >= t.cwriter - 1
        BY <1>5, <3>2, <3>4, <4>1, ZenonT(60)
      <4>2. CASE ~(t.creadr >= t.cwriter - 1)
        <5>1. u = Advanced(t) /\ t.creadr # u.creadr /\ t.creadr + 1 = t.cwriter - 5 + 4
          <6>1. u.cwriter = t.cwriter /\ (u.creadr # t.creadr => u.creadr = t.creadr + 1 /\ u = Advanced(t))
            BY <1>4, ZenonT(60) DEF Keeps
          <6> HIDE DEF u, t
          <6>2. u.creadr # t.creadr
            BY <3>4, <4>2, <6>1, ZenonT(60)
          <6>3. t.creadr + 1 >= t.cwriter - 1 /\ ~(t.creadr >= t.cwriter - 1)
            BY <3>4, <4>2, <6>1, <6>2, ZenonT(60)
          <6>4. t.creadr + 1 = t.cwriter - 5 + 4
            BY <3>3, <6>3
          <6> QED  BY <6>1, <6>2, <6>4, ZenonT(60)
        <5>2. c = WriteCmdQINV(DeviceId[call.d], call.int_id)
          BY <3>2, <3>4, <5>1, ZenonT(60) DEF Requesting
        <5>3. c.name = "INV" /\ c.id = call.int_id
          BY <5>2 DEF WriteCmdQINV, Command
        <5> QED  BY <1>5, <3>2, <3>4, <5>1, <5>3, ZenonT(60)
      <4> QED  BY <4>1, <4>2
    <3>5. call.op = "request" => Requesting(u, DeviceId[call.d], call.int_id, rd)
      BY <1>4, <3>2, ZenonT(60) DEF Keeps
    <3> HIDE DEF u, t, rd
    <3> QED  BY <1>1, <1>5, <3>1, <3>2, <3>4, <3>5, ZenonT(60) DEF CallInv
  <2> QED  BY <2>2, <2>3
<1> QED  BY <1>7, <1>8, <1>9, <1>10, <1>11, ZenonT(60) DEF ItsInv

\* The set-up: whatever it finds and however much memory there is.
LEMMA ConfigureKeeps ==
  ASSUME ItsInv, val_gic_its_configure
  PROVE  ItsInv'
<1>1. /\ ItsType /\ SetupInv /\ OwnInv /\ FreedInv /\ info.memory = "null"
      /\ UNCHANGED <<entries, lpi, msix, call, asked>>
  BY ZenonT(60) DEF ItsInv, val_gic_its_configure
<1>2. call = NoCall /\ \A d \in Devices : asked[d].status \notin Holding
  BY <1>1 DEF SetupInv
<1> DEFINE usable == /\ ItsBlocks # {} /\ GicRdBase # 0 /\ GicDBase # 0
                     /\ val_its_gicd_lpi_support /\ val_its_gicr_lpi_support
<1>3. PICK left :
        /\ info' = [memory |-> IF usable /\ val_its_init(left).status = 0 THEN "set" ELSE "freed",
                    rd |-> GicRdBase, d |-> GicDBase, registers |-> IF usable THEN val_its_init(left).registers ELSE {}]
        /\ g_its_setup_done' = (usable /\ val_its_init(left).done)
        /\ its' = [i \in ItsBlocks |-> NewIts(entries[i], usable)]
  BY Zenon DEF val_gic_its_configure
<1>4. val_its_init(left).done \in BOOLEAN /\ (val_its_init(left).done => val_its_init(left).status = 0)
  BY Zenon DEF val_its_init
<1> usable \in BOOLEAN
  OBVIOUS
<1> HIDE DEF usable
<1>5. info'.memory # "null" /\ info'.rd = GicRdBase /\ (g_its_setup_done' => info'.memory = "set")
      /\ g_its_setup_done' \in BOOLEAN
  BY <1>3, <1>4, ZenonT(60)
<1>6. GicRdBase \in Nat
  <2> DEFINE found == {k \in DOMAIN entries : entries[k].type \in {"GICR_GICRD", "GICC_GICRD"}
                                                /\ val_its_get_curr_rdbase(entries[k]) # 0}
  <2>1. found # {} => Min(found) \in found
    <3>1. found \in SUBSET Nat
      BY <1>1, ZenonT(60) DEF ItsType, Addressed
    <3> HIDE DEF found
    <3> QED  BY <3>1, MinIsMember, ZenonT(60)
  <2>2. \A k \in found : val_its_get_curr_rdbase(entries[k]) \in Nat
    BY <1>1 DEF ItsType, Addressed, val_its_get_curr_rdbase
  <2> QED  BY <2>1, <2>2, ZenonT(60) DEF GicRdBase
<1>7. DOMAIN its' \subseteq Nat \ {0}
  BY <1>1, <1>3, ZenonT(60) DEF ItsBlocks, ItsType, Addressed
<1>8. ASSUME NEW i \in DOMAIN its', NEW rd PROVE QueueOK(its'[i], rd)
  <2>1. its'[i] = NewIts(entries[i], usable)
    BY <1>3, ZenonT(60)
  <2> QED  BY <2>1, NewFacts, ZenonT(60)
<1>9. ItsType'
  <2>1. \A i \in DOMAIN its' : QueueOK(its[i], Rd(its[i]))'
    BY <1>8, ZenonT(60) DEF QueueOK, ItsRec
  <2> QED  BY <1>1, <1>5, <1>6, <1>7, <2>1, ZenonT(60) DEF ItsType
<1>10. SetupInv' /\ OwnInv' /\ HeldInv' /\ CallInv' /\ FreedInv'
  BY <1>1, <1>2, <1>5, ZenonT(60) DEF SetupInv, OwnInv, HeldInv, CallInv, FreedInv, Holding
<1> QED  BY <1>9, <1>10 DEF ItsInv

\* Before the set-up there is nothing to keep.
LEMMA ItsStarts ==
  ASSUME NEW tables, \A table \in tables : Addressed(table), ItsInit(tables)
  PROVE  ItsInv
<1>1. DOMAIN its = {}
  BY DEF ItsInit
<1>2. ItsType
  BY <1>1, ZenonT(60) DEF ItsInit, ItsType, Ids
<1> QED  BY <1>2, ZenonT(60) DEF ItsInit, ItsInv, SetupInv, OwnInv, HeldInv, CallInv, FreedInv, Holding

LEMMA ItsStepKeeps ==
  ASSUME ItsInv, [ItsNext]_itsVars
  PROVE  ItsInv'
<1>1. CASE val_gic_its_configure
  BY <1>1, ConfigureKeeps
<1>2. ASSUME NEW d \in Devices, NEW id \in Lpis, Room(d, 5), val_gic_request_msi(d, id) PROVE ItsInv'
  BY <1>2, RequestKeeps
<1>3. ASSUME NEW d \in Devices, Room(d, 3), val_gic_free_msi(d) PROVE ItsInv'
  BY <1>3, FreeKeeps
<1>4. CASE PollTillCommandQueueDone
  BY <1>4, PollKeeps
<1>5. CASE MsiX
  BY <1>5, MsiXKeeps
<1>6. ASSUME NEW i \in DOMAIN its, ItsRuns(i) PROVE ItsInv'
  BY <1>6, ItsRunsKeeps
<1>7. CASE UNCHANGED itsVars
  <2>1. UNCHANGED entries /\ UNCHANGED info /\ UNCHANGED g_its_setup_done /\ UNCHANGED lpi
        /\ UNCHANGED its /\ UNCHANGED msix /\ UNCHANGED call /\ UNCHANGED asked
    BY <1>7, ZenonT(60) DEF itsVars
  <2>2. /\ \A d : Index(d)' = Index(d) /\ Calling(d)' = Calling(d)
        /\ \A i : Rd(its[i])' = Rd(its[i])
    BY <2>1, ZenonT(60) DEF Index, get_its_index, Calling, Rd, GetRDBaseFormat
  <2>3. ItsType'
    BY <2>1, <2>2 DEF ItsInv, ItsType, QueueOK, ItsRec
  <2>4. SetupInv' /\ OwnInv' /\ FreedInv'
    BY <2>1, <2>2, ZenonT(60) DEF ItsInv, SetupInv, OwnInv, FreedInv
  <2>5. HeldInv'
    <3> SUFFICES ASSUME g_its_setup_done', NEW d \in Devices, asked'[d].status = "PASS", ~asked'[d].late, ~Calling(d)'
                 PROVE  Held(d)'
      BY ZenonT(60) DEF HeldInv
    <3>1. Held(d)
      BY <2>1, <2>2, ZenonT(60) DEF ItsInv, HeldInv
    <3> QED  BY <2>1, <2>2, <3>1, ZenonT(60) DEF Held, Mapped, Spares
  <2>6. CallInv'
    BY <2>1, <2>2, ZenonT(60) DEF ItsInv, CallInv, Requesting
  <2> QED  BY <2>3, <2>4, <2>5, <2>6, ZenonT(60) DEF ItsInv
<1> QED  BY <1>1, <1>2, <1>3, <1>4, <1>5, <1>6, <1>7, ZenonT(60) DEF ItsNext, ItsDriver

\* What holds of a function that was asked for a message is what it takes for
\* the message to arrive.
LEMMA HeldArrives ==
  ASSUME ItsInv
  PROVE  MessagesArrive
<1> SUFFICES ASSUME g_its_setup_done, InTime, call = NoCall, NEW d \in Devices, asked[d].status = "PASS",
                    GetRDBaseFormat(its[msix[d].its]) < Width
             PROVE  Arrives(d, asked[d].int_id)
  BY DEF MessagesArrive
<1>1. Held(d) /\ ItsType
  BY ZenonT(60) DEF ItsInv, HeldInv, InTime, Calling, ItsType
<1>2. PICK i : i = Index(d)
  BY ZenonT(60)
<1>3. /\ i \in DOMAIN its /\ i # 0 /\ msix[d].its = i /\ msix[d].enabled /\ ~msix[d].masked /\ msix[d].data = asked[d].int_id
      /\ lpi.enabled /\ asked[d].int_id \in lpi.cached
      /\ Mapped(its[i], DeviceId[d], asked[d].int_id, Rd(its[i]))
  <2>1. /\ msix[d] = [enabled |-> TRUE, its |-> i, data |-> asked[d].int_id, masked |-> FALSE] /\ i \in DOMAIN its
        /\ lpi.enabled /\ asked[d].int_id \in lpi.cached
        /\ Mapped(its[i], DeviceId[d], asked[d].int_id, Rd(its[i]))
    BY <1>1, <1>2, ZenonT(60) DEF Held
  <2>2. i # 0
    BY <1>1, <2>1, ZenonT(60) DEF ItsType
  <2>3. msix[d].its = i /\ msix[d].enabled /\ ~msix[d].masked /\ msix[d].data = asked[d].int_id
    <3>1. msix[d] = [enabled |-> TRUE, its |-> i, data |-> asked[d].int_id, masked |-> FALSE]
      BY <2>1, ZenonT(60)
    <3>2. msix[d] = [enabled |-> TRUE, its |-> i, data |-> asked[d].int_id, masked |-> FALSE]
          => msix[d].enabled /\ msix[d].its = i /\ msix[d].data = asked[d].int_id /\ ~msix[d].masked
      BY EntryFields, ZenonT(60)
    <3> QED  BY <3>1, <3>2, ZenonT(60)
  <2> QED  BY <2>1, <2>2, <2>3, ZenonT(60)
<1>4. GetRDBaseFormat(its[i]) \in Nat
  BY <1>1, ZenonT(60) DEF ItsType, GetRDBaseFormat, ProcessorNumber
<1>5. Rd(its[i]) = GetRDBaseFormat(its[i])
  <2>1. GetRDBaseFormat(its[i]) \in 0..(Width - 1)
    BY <1>3, <1>4, ItsAssumption
  <2> QED  BY <2>1, Small, ItsAssumption, ZenonT(60) DEF Rd
<1> QED  BY <1>3, <1>5, ZenonT(60) DEF Arrives, Mapped

\* When val_gic_request_msi has returned PASS and no poll has given up, the
\* message arrives: for any number of functions, ITSs and LPIs, any queue
\* that is not filled, and any table of the GIC whose regions have addresses.
THEOREM RequestedMessagesArrive ==
  ASSUME NEW tables, \A table \in tables : Addressed(table)
  PROVE  ItsInit(tables) /\ [][ItsNext]_itsVars => []MessagesArrive
<1>1. ItsInit(tables) => ItsInv
  BY ItsStarts
<1>2. ItsInv /\ [ItsNext]_itsVars => ItsInv'
  BY ItsStepKeeps
<1>3. ItsInv => MessagesArrive
  BY HeldArrives
<1> QED  BY <1>1, <1>2, <1>3, PTL

\* After val_gic_free_msi no message of the function arrives, even while the
\* ITS is behind with the commands of a call that gave up waiting.
THEOREM FreedMessagesSilent ==
  ASSUME NEW tables, \A table \in tables : Addressed(table)
  PROVE  ItsInit(tables) /\ [][ItsNext]_itsVars => []FreedMsiIsSilent
<1>1. ItsInit(tables) => ItsInv
  BY ItsStarts
<1>2. ItsInv /\ [ItsNext]_itsVars => ItsInv'
  BY ItsStepKeeps
<1>3. ItsInv => FreedMsiIsSilent
  BY ZenonT(60) DEF ItsInv, FreedInv, FreedMsiIsSilent, Arrives
<1> QED  BY <1>1, <1>2, <1>3, PTL
=============================================================================
