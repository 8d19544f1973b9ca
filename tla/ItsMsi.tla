------------------------------- MODULE ItsMsi -------------------------------
(***************************************************************************)
(* Message-signalled interrupts through the ITS of the Arm build           *)
(* (val/sys_arch_src/gic/its/, val/src/acs_gic_support.c): set-up of the   *)
(* ITS and of the redistributor, mapping of a device's MSI to an LPI by    *)
(* commands in a queue that the ITS reads at its own pace, and the MSI-X   *)
(* entry of the device.                                                    *)
(*                                                                         *)
(* One thread calls val_gic_request_msi and val_gic_free_msi; the ITS is   *)
(* the other actor.  Commands are counted in queue slots of 32 bytes.      *)
(***************************************************************************)
EXTENDS Integers, Sequences, FiniteSets, FiniteSetsExt, Folds, Functions

CONSTANTS
  Devices,      \* PCIe functions
  DeviceId,     \* the device id of a function
  ItsId,        \* the ITS a function's messages go to, by its identifier
  HasMsix,      \* does the function have an MSI-X capability?
  Lpis,         \* interrupt ids that tests ask for
  Width,        \* numbers that a uint32_t holds
  Slots,        \* commands that the queue holds
  WAIT_ITS_COMMAND_DONE,  \* polls of the read pointer before giving up
  Handover      \* does a test free a function's MSI before it asks again?

ASSUME ItsAssumption ==
  /\ DeviceId \in [Devices -> Nat] /\ HasMsix \in [Devices -> BOOLEAN]
  /\ \A d, e \in Devices : ItsId[d] = ItsId[e] /\ DeviceId[d] = DeviceId[e] => d = e
  /\ Slots \in Nat \ {0} /\ WAIT_ITS_COMMAND_DONE \in Nat /\ Width \in Nat \ {0}

VARIABLES
  entries,          \* the GIC information table
  info,             \* g_gic_its_info: state of the allocation, RdBase, DBase, ITSs
  g_its_setup_done,
  lpi,              \* redistributor: configuration table, what it has cached, enable
  its,              \* each ITS: queue, pointers, and the tables commands fill
  msix,             \* each function's MSI-X entry
  call,             \* the call in progress
  asked             \* what each function was last asked for, and whether it timed out

itsVars == <<entries, info, g_its_setup_done, lpi, its, msix, call, asked>>

ARM_LPI_MINID == 8192
ARM_LPI_MIN_IDBITS == 14
ProcessorNumber == 3
NoCall == [op |-> "none", pc |-> "idle"]

-----------------------------------------------------------------------------
(* Set-up.                                                                 *)

\* The redistributor frame of this hart in a region, 0 if it is not there.
val_its_get_curr_rdbase(e) ==
  IF e.mine >= 0 /\ (e.type = "GICC_GICRD" => e.mine = 0) /\ (e.type = "GICR_GICRD" => e.mine < e.frames)
  THEN e.base + e.mine ELSE 0

\* The ITS blocks, named by their place in the table.
ItsBlocks == {k \in DOMAIN entries : entries[k].type = "GICITS"}

Region(type) == SelectSeq(entries, LAMBDA e : e.type \in type)

\* The last distributor, and the first region that holds this hart.
LastGicD == LET d == Region({"GICD"}) IN d[Len(d)]
GicDBase == IF Region({"GICD"}) = <<>> THEN 0 ELSE LastGicD.base
GicRdBase ==
  LET found == {k \in DOMAIN entries : entries[k].type \in {"GICR_GICRD", "GICC_GICRD"}
                                        /\ val_its_get_curr_rdbase(entries[k]) # 0}
  IN IF found = {} THEN 0 ELSE val_its_get_curr_rdbase(entries[Min(found)])

val_its_gicd_lpi_support == \A e \in Range(Region({"GICD"})) : e.lpis
val_its_gicr_lpi_support == \A e \in Range(Region({"GICR_GICRD", "GICC_GICRD"})) : e.lpis

Minimum(a, b) == IF a < b THEN a ELSE b

\* Interrupt id bits of an ITS; too few of them end the set-up.
SetInitialConfiguration(e) == Minimum(e.idbits, LastGicD.idbits)

NewIts(e, usable) ==
  [ID |-> e.id, PTA |-> e.pta, IDBits |-> IF usable THEN SetInitialConfiguration(e) ELSE 0, g_cwriter_ptr |-> 0,
   queue |-> <<>>, cwriter |-> 0, creadr |-> 0, stalled |-> FALSE, enabled |-> FALSE,
   devices |-> {}, itt |-> {}, collections |-> {}]

\* A step of the set-up takes memory and gives it to a register; s.left
\* allocations succeed, and after one that fails nothing more is done.
Program(s, register) ==
  IF s.status = 1 THEN s
  ELSE IF s.left = 0 THEN [s EXCEPT !.status = 1]
  ELSE [s EXCEPT !.left = @ - 1, !.registers = @ \cup {register}]

\* The steps step(k, _), one after the other by increasing k.
InOrder(step(_, _), s, places) == MapThenFoldSet(step, s, LAMBDA k : k, Max, places)

ArmGicSetItsConfigTableBase(s) == Program(s, <<"GICR_PROPBASER", 0>>)
ArmGicSetItsPendingTableBase(s) == Program(s, <<"GICR_PENDBASER", 0>>)
ArmGicRedistributorConfigurationForLPI(s) == ArmGicSetItsPendingTableBase(ArmGicSetItsConfigTableBase(s))
ArmGicSetItsCommandQueueBase(s, i) == Program(s, <<"GITS_CBASER", i>>)

\* The device and collection tables the ITS asks for, then the one
\* interrupt translation table that all devices of the ITS share.
ArmGicSetItsTables(s, i) ==
  LET table(k, r) == Program(r, <<entries[i].tables[k], i>>)
  IN Program(InOrder(table, s, DOMAIN entries[i].tables), <<"ITTBase", i>>)

\* Without memory for the write pointers success is reported, and the set-up
\* left undone.
val_its_init(left) ==
  LET start == [status |-> 0, left |-> left - 1, registers |-> {}]
      bits == [start EXCEPT !.status = IF \E i \in ItsBlocks :
                                            SetInitialConfiguration(entries[i]) < ARM_LPI_MIN_IDBITS THEN 1 ELSE 0]
      tables(i, s) == ArmGicSetItsTables(ArmGicSetItsCommandQueueBase(s, i), i)
      last == InOrder(tables, ArmGicRedistributorConfigurationForLPI(bits), ItsBlocks)
  IN IF left = 0 THEN [status |-> 0, done |-> FALSE, registers |-> {}]
     ELSE [status |-> last.status, done |-> last.status = 0, registers |-> last.registers]

\* On failure the information is freed, and its pointer kept.
val_gic_its_configure ==
  /\ info.memory = "null"
  /\ \E left \in 0..(3 + 4 * Cardinality(ItsBlocks)) :
       LET init == val_its_init(left)
           usable == /\ ItsBlocks # {} /\ GicRdBase # 0 /\ GicDBase # 0
                     /\ val_its_gicd_lpi_support /\ val_its_gicr_lpi_support
           ok == usable /\ init.status = 0
       IN /\ info' = [memory |-> IF ok THEN "set" ELSE "freed", rd |-> GicRdBase, d |-> GicDBase,
                      registers |-> IF usable THEN init.registers ELSE {}]
          /\ g_its_setup_done' = (usable /\ init.done)
          /\ its' = [i \in ItsBlocks |-> NewIts(entries[i], usable)]
  /\ UNCHANGED <<entries, lpi, msix, call, asked>>

\* The largest LPI that every ITS takes: 2^(IDBits + 1) - 1.
val_its_get_max_lpi ==
  IF ~g_its_setup_done THEN 0
  ELSE 2 ^ (Min({its[i].IDBits : i \in DOMAIN its} \cup {28}) + 1) - 1

val_gic_is_valid_lpi(int_id) == int_id >= ARM_LPI_MINID /\ int_id <= val_its_get_max_lpi

get_its_index(id) ==
  LET hits == {i \in DOMAIN its : its[i].ID = id} IN IF hits = {} THEN 0 ELSE Min(hits)

-----------------------------------------------------------------------------
(* The command queue. Commands are written at g_cwriter_ptr, which only    *)
(* grows; those beyond the last slot are written outside the queue.        *)

Command(name, dev, id) == [name |-> name, dev |-> dev, id |-> id]
WriteCmdQMAPD(dev, valid) == Command(IF valid THEN "MAPD" ELSE "UNMAPD", dev, 0)
WriteCmdQMAPC(collection, rd) == Command("MAPC", rd % Width, collection)
WriteCmdQMAPI(dev, int_id) == Command("MAPI", dev, int_id)
WriteCmdQINV(dev, int_id) == Command("INV", dev, int_id)
WriteCmdQDISCARD(dev, int_id) == Command("DISCARD", dev, int_id)
WriteCmdQSYNC == Command("SYNC", 0, 0)

\* How an ITS names this hart's redistributor: by address or by number.
GetRDBaseFormat(t) == IF t.PTA THEN info.rd ELSE ProcessorNumber

Enqueue(t, commands) ==
  [t EXCEPT !.g_cwriter_ptr = @ + Len(commands),
            !.queue = [k \in 1..Minimum(Slots, t.g_cwriter_ptr + Len(commands)) |->
                         IF k <= t.g_cwriter_ptr THEN t.queue[k] ELSE commands[k - t.g_cwriter_ptr]]]

SetConfigTable(l, int_id) == [l EXCEPT !.config = @ \cup {int_id}]
ClearConfigTable(l, int_id) == [l EXCEPT !.config = @ \ {int_id}]
EnableLPIsRD(l) == [l EXCEPT !.enabled = TRUE]
EnableITS(t) == [t EXCEPT !.enabled = TRUE]

\* The write pointer is given to the ITS, and read back by the poll.
Kick(t) == [t EXCEPT !.cwriter = t.g_cwriter_ptr]

val_its_create_lpi_map(i, dev, int_id) ==
  /\ lpi' = EnableLPIsRD(SetConfigTable(lpi, int_id))
  /\ its' = [its EXCEPT ![i] =
       Kick(Enqueue(EnableITS(@), <<WriteCmdQMAPD(dev, TRUE), WriteCmdQMAPC(1, GetRDBaseFormat(@)), WriteCmdQMAPI(dev, int_id),
                                    WriteCmdQINV(dev, int_id), WriteCmdQSYNC>>))]

val_its_clear_lpi_map(i, dev, int_id) ==
  /\ lpi' = ClearConfigTable(lpi, int_id)
  /\ its' = [its EXCEPT ![i] =
       Kick(Enqueue(@, <<WriteCmdQDISCARD(dev, int_id), WriteCmdQMAPD(dev, FALSE), WriteCmdQSYNC>>))]

-----------------------------------------------------------------------------
(* The ITS (external): it takes commands in order, wraps at the end of the *)
(* queue, and may stall until it is told to retry.                         *)

Executed(t, c) ==
  CASE c.name = "MAPD" -> [t EXCEPT !.devices = @ \cup {c.dev}]
    [] c.name = "UNMAPD" -> [t EXCEPT !.devices = @ \ {c.dev}]
    [] c.name = "MAPC" -> [t EXCEPT !.collections = {x \in @ : x[1] # c.id} \cup {<<c.id, c.dev>>}]
    [] c.name = "MAPI" /\ c.dev \in t.devices -> [t EXCEPT !.itt = @ \cup {c.id}]
    [] c.name = "DISCARD" /\ c.dev \in t.devices -> [t EXCEPT !.itt = @ \ {c.id}]
    [] OTHER -> t

ItsRuns(i) ==
  /\ its[i].enabled /\ ~its[i].stalled /\ its[i].creadr # its[i].cwriter
  /\ \/ its' = [its EXCEPT ![i].stalled = TRUE] /\ UNCHANGED lpi
     \/ LET c == its[i].queue[its[i].creadr + 1] IN
          /\ its' = [its EXCEPT ![i] = [Executed(its[i], c) EXCEPT !.creadr = (@ + 1) % Slots]]
          /\ lpi' = IF c.name = "INV"
                    THEN [lpi EXCEPT !.cached = (@ \ {c.id}) \cup (lpi.config \cap {c.id})] ELSE lpi
  /\ UNCHANGED <<entries, info, g_its_setup_done, msix, call, asked>>

-----------------------------------------------------------------------------
(* The calls.                                                              *)

\* What a call sees of the information: freed memory may have been reused.
Seen == IF info.memory = "freed" THEN {FALSE, info.rd # 0 /\ info.d # 0 /\ its # <<>>}
        ELSE {info.memory = "set"}

fill_msi_x_table(d, i, int_id) ==
  IF HasMsix[d] THEN [msix EXCEPT ![d] = [enabled |-> TRUE, its |-> i, data |-> int_id, masked |-> FALSE]]
  ELSE msix

\* Bug: a function whose MSI is freed keeps its entry and stays enabled.
clear_msi_x_table_unmasked(d) == msix

clear_msi_x_table(d) ==
  IF HasMsix[d] THEN [msix EXCEPT ![d] = [enabled |-> FALSE, its |-> 0, data |-> 0, masked |-> TRUE]]
  ELSE msix

Return(d, status, int_id, late) ==
  asked' = [asked EXCEPT ![d] = [status |-> status, int_id |-> int_id, late |-> late]]

\* The guards of both calls, the mapping commands, then the poll. Without a
\* set-up the mapping is skipped and the call goes on.
val_gic_request_msi(d, int_id) ==
  /\ call = NoCall
  /\ val_gic_is_valid_lpi(int_id) \/ ~g_its_setup_done
  /\ \A e \in Devices : asked[e].status \in {"PASS", "SKIP"} => asked[e].int_id # int_id
  /\ Handover => asked[d].status # "PASS"
  /\ \E seen \in Seen :
       LET i == get_its_index(ItsId[d]) IN
         IF ~seen \/ i = 0 THEN Return(d, "ERR", int_id, FALSE) /\ UNCHANGED <<lpi, its, call>>
         ELSE /\ call' = [op |-> "request", pc |-> IF g_its_setup_done THEN "poll" ELSE "msix",
                          d |-> d, i |-> i, int_id |-> int_id, count |-> 0, late |-> FALSE]
              /\ IF g_its_setup_done THEN val_its_create_lpi_map(i, DeviceId[d], int_id)
                 ELSE UNCHANGED <<lpi, its>>
              /\ UNCHANGED asked
  /\ UNCHANGED <<entries, info, g_its_setup_done, msix>>

val_gic_free_msi(d) ==
  /\ call = NoCall /\ asked[d].status \in {"PASS", "SKIP"}
  /\ \E seen \in Seen :
       LET i == get_its_index(ItsId[d])
           int_id == asked[d].int_id
       IN IF ~seen \/ i = 0 THEN Return(d, "unfreed", 0, FALSE) /\ UNCHANGED <<lpi, its, call>>
          ELSE /\ call' = [op |-> "free", pc |-> IF g_its_setup_done THEN "poll" ELSE "msix",
                           d |-> d, i |-> i, int_id |-> int_id, count |-> 0, late |-> FALSE]
               /\ IF g_its_setup_done THEN val_its_clear_lpi_map(i, DeviceId[d], int_id)
                  ELSE UNCHANGED <<lpi, its>>
               /\ UNCHANGED asked
  /\ UNCHANGED <<entries, info, g_its_setup_done, msix>>

\* Bug: the poll gives up at once when the queue has stalled.
PollTillCommandQueueDone_stall ==
  /\ call.pc = "poll"
  /\ LET t == its[call.i] IN
       IF t.creadr = t.cwriter \/ t.stalled THEN call' = [call EXCEPT !.pc = "msix"]
       ELSE call' = [call EXCEPT !.count = @ + 1]
  /\ UNCHANGED <<entries, info, g_its_setup_done, lpi, its, msix, asked>>

\* One turn of the loop: a stalled queue is told to retry; after too many
\* turns the wait is given up.
PollTillCommandQueueDone ==
  /\ call.pc = "poll"
  /\ LET t == its[call.i] IN
       IF t.creadr = t.cwriter THEN call' = [call EXCEPT !.pc = "msix"] /\ UNCHANGED its
       ELSE /\ its' = [its EXCEPT ![call.i].stalled = FALSE]
            /\ call' = IF call.count + 1 > WAIT_ITS_COMMAND_DONE
                       THEN [call EXCEPT !.pc = "msix", !.late = TRUE]
                       ELSE [call EXCEPT !.count = @ + 1]
  /\ UNCHANGED <<entries, info, g_its_setup_done, lpi, msix, asked>>

\* The MSI-X entry is written whatever the poll saw.
MsiX ==
  /\ call.pc = "msix"
  /\ IF call.op = "request"
     THEN /\ msix' = fill_msi_x_table(call.d, call.i, call.int_id)
          /\ Return(call.d, IF HasMsix[call.d] THEN "PASS" ELSE "SKIP", call.int_id, call.late)
     ELSE /\ msix' = clear_msi_x_table(call.d)
          /\ Return(call.d, "free", 0, call.late)
  /\ call' = NoCall
  /\ UNCHANGED <<entries, info, g_its_setup_done, lpi, its>>

-----------------------------------------------------------------------------
\* Tables whose regions of redistributors have addresses.
Addressed(table) ==
  /\ DOMAIN table \subseteq Nat \ {0}
  /\ \A k \in DOMAIN table : table[k].type \in {"GICR_GICRD", "GICC_GICRD"} => table[k].base \in Nat /\ table[k].mine \in Int

ItsInit(tables) ==
  /\ entries \in tables
  /\ info = [memory |-> "null", rd |-> 0, d |-> 0, registers |-> {}]
  /\ g_its_setup_done = FALSE
  /\ lpi = [config |-> {}, cached |-> {}, enabled |-> FALSE]
  /\ its = <<>>
  /\ msix = [d \in Devices |-> [enabled |-> FALSE, its |-> 0, data |-> 0, masked |-> TRUE]]
  /\ call = NoCall
  /\ asked = [d \in Devices |-> [status |-> "free", int_id |-> 0, late |-> FALSE]]

\* Commands that a call adds, and the room the queue has left for them.
Room(d, n) == LET i == get_its_index(ItsId[d]) IN i # 0 => its[i].g_cwriter_ptr + n < Slots

ItsDriver ==
  \/ val_gic_its_configure
  \/ \E d \in Devices : \/ Room(d, 5) /\ \E int_id \in Lpis : val_gic_request_msi(d, int_id)
                        \/ Room(d, 3) /\ val_gic_free_msi(d)
  \/ PollTillCommandQueueDone
  \/ MsiX

ItsNext == ItsDriver \/ \E i \in DOMAIN its : ItsRuns(i)

-----------------------------------------------------------------------------
(* Properties.                                                             *)

\* A message of function d becomes interrupt int_id at the hart.
Arrives(d, int_id) ==
  /\ msix[d].enabled /\ ~msix[d].masked /\ msix[d].its # 0 /\ msix[d].data = int_id
  /\ LET t == its[msix[d].its] IN
       /\ t.enabled /\ DeviceId[d] \in t.devices /\ int_id \in t.itt /\ <<1, GetRDBaseFormat(t)>> \in t.collections
  /\ lpi.enabled /\ int_id \in lpi.cached

InTime == \A d \in Devices : ~asked[d].late

\* val_its_init reports the set-up done only when every table is in place and
\* no ITS has fewer interrupt id bits than LPIs need.
SetupIsComplete ==
  g_its_setup_done =>
    /\ {<<"GICR_PROPBASER", 0>>, <<"GICR_PENDBASER", 0>>} \subseteq info.registers
    /\ \A i \in DOMAIN its :
         /\ its[i].IDBits >= ARM_LPI_MIN_IDBITS
         /\ {<<"GITS_CBASER", i>>, <<"ITTBase", i>>} \subseteq info.registers
         /\ \A type \in Range(entries[i].tables) : <<type, i>> \in info.registers

\* When val_gic_request_msi has returned PASS on a system whose set-up is
\* done, and no poll has given up, the function's message arrives as the
\* interrupt asked for, whatever other functions asked for or freed since.
\* The claim leaves out a redistributor named by an address above 32 bits,
\* which the parameter of WriteCmdQMAPC cuts short.
MessagesArrive ==
  g_its_setup_done /\ InTime /\ call = NoCall =>
    \A d \in Devices : asked[d].status = "PASS" /\ GetRDBaseFormat(its[msix[d].its]) < Width => Arrives(d, asked[d].int_id)

\* Both of the above: the set-up is complete, and requested messages arrive.
RequestedMsiArrives == SetupIsComplete /\ MessagesArrive

\* After val_gic_free_msi, and before another request of that function is
\* under way, none of its messages arrives, although the ITS may still be
\* executing the commands of a call that gave up.
FreedMsiIsSilent ==
  \A d \in Devices :
    asked[d].status = "free" /\ ~(call # NoCall /\ call.d = d) => \A int_id \in Lpis : ~Arrives(d, int_id)
=============================================================================
