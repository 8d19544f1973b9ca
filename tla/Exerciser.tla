----------------------------- MODULE Exerciser -----------------------------
(***************************************************************************)
(* The PCIe exerciser: the table of exerciser cards the validation layer   *)
(* builds from the function table, and the calls by which tests drive a    *)
(* card through its registers (BAR 0) and its configuration space.  The    *)
(* driver exists three times (acpi, dt, bm); they differ in which ECAM     *)
(* they read, in the parameters they know and in one fall through.         *)
(* One function per bus; a configuration address is an ECAM base plus the  *)
(* bus.  Word is the span of a 32-bit register write.                      *)
(***************************************************************************)
EXTENDS Integers, Sequences, SequencesExt, FiniteSets

CONSTANTS Word, MaxTrace

VARIABLES
  host,     \* the platform: its build, its ECAMs and its PCIe functions
  cards,    \* g_exerciser_info_table
  regs,     \* the registers behind BAR 0 of every function
  conf,     \* the configuration space of every function
  asked,    \* what the calls so far asked of every function
  said      \* the last answer

exerciserVars == <<host, cards, regs, conf, asked, said>>

NoCard == 0
Own == -1        \* the function's own requester id; no PASID
Quiet == [call |-> "none", status |-> 0]

-----------------------------------------------------------------------------
(* Finding a function.                                                     *)

Functions(h) == DOMAIN h.functions

\* The ECAM that really decodes a function, and the address it decodes.
Decodes(e, f) == e.seg = f.seg /\ f.bus \in e.start..e.end
Mapped(h, k) == \E e \in Range(h.ecams) : Decodes(e, h.functions[k])
AddressOf(h, k) == LET f == h.functions[k] IN
  (CHOOSE e \in Range(h.ecams) : Decodes(e, f)).base + f.bus

pal_exerciser_get_pcie_config_offset(f) == f.bus

\* The UEFI builds read through the first ECAM of the MCFG.
pal_pcie_get_mcfg_ecam(h, f) == h.ecams[1].base

\* Bare metal takes the first block whose buses hold the function's.
pal_exerciser_get_ecam_bm(h, f) ==
  LET at == {i \in DOMAIN h.ecams : f.bus \in h.ecams[i].start..h.ecams[i].end} IN
    IF at = {} THEN 0 ELSE h.ecams[CHOOSE i \in at : \A j \in at : i <= j].base

EcamRead(h, f) == IF h.build = "bm" THEN pal_exerciser_get_ecam_bm(h, f) ELSE pal_pcie_get_mcfg_ecam(h, f)

\* The function whose configuration space the driver reaches for function k.
ConfigOf(h, k) == LET f == h.functions[k]
                      at == {j \in {g \in Functions(h) : Mapped(h, g)} :
                               AddressOf(h, j) = EcamRead(h, f) + pal_exerciser_get_pcie_config_offset(f)}
                  IN IF at = {} THEN NoCard ELSE CHOOSE j \in at : TRUE

pal_is_bdf_exerciser(h, k) == ConfigOf(h, k) # NoCard /\ h.functions[ConfigOf(h, k)].exerciser
pal_is_bdf_exerciser_dt(h, k) == pal_is_bdf_exerciser(h, k)
pal_is_bdf_exerciser_bm(h, k) == pal_is_bdf_exerciser(h, k)
IsExerciser(h, k) ==
  CASE h.build = "acpi" -> pal_is_bdf_exerciser(h, k)
    [] h.build = "dt" -> pal_is_bdf_exerciser_dt(h, k)
    [] h.build = "bm" -> pal_is_bdf_exerciser_bm(h, k)

\* 0 when the list of capabilities holds the one sought, or 1 when it ends first.
pal_exerciser_find_pcie_capability(caps, id) == IF id \in Range(caps) THEN 0 ELSE 1
pal_exerciser_find_pcie_capability_dt(caps, id) == pal_exerciser_find_pcie_capability(caps, id)
pal_exerciser_find_pcie_capability_bm(caps, id) == pal_exerciser_find_pcie_capability(caps, id)
FindCapability(caps, id) ==
  CASE host.build = "acpi" -> pal_exerciser_find_pcie_capability(caps, id)
    [] host.build = "dt" -> pal_exerciser_find_pcie_capability_dt(caps, id)
    [] host.build = "bm" -> pal_exerciser_find_pcie_capability_bm(caps, id)

\* The functions of the table are tried from the last to the first; one that no
\* ECAM decodes ends the search with what was found so far.
SearchedDownTo(h) ==
  LET bad == {k \in Functions(h) : ~Mapped(h, k)} IN
    IF bad = {} THEN 1 ELSE 1 + CHOOSE k \in bad : \A j \in bad : j <= k

Found(h) ==
  SelectSeq([i \in 1..(Len(h.functions) - SearchedDownTo(h) + 1) |-> Len(h.functions) + 1 - i],
            LAMBDA k : IsExerciser(h, k))

TableStatus(h) ==
  IF h.ecams = <<>> \/ h.functions = <<>> \/ \E k \in Functions(h) : ~Mapped(h, k) THEN 1 ELSE 0

val_exerciser_create_info_table ==
  [status |-> TableStatus(host),
   info |-> IF host.ecams = <<>> \/ host.functions = <<>> THEN <<>>
            ELSE [i \in DOMAIN Found(host) |-> [bdf |-> Found(host)[i], initialized |-> FALSE]]]

\* The tests of the module run unless it is skipped, the table fails or is empty.
val_exerciser_execute_tests(skip) ==
  /\ cards.stage = "start"
  /\ LET table == val_exerciser_create_info_table IN
       cards' = IF skip THEN [cards EXCEPT !.stage = "skipped"]
                ELSE [stage |-> IF table.status = 1 \/ table.info = <<>> THEN "skipped" ELSE "tests",
                      info |-> table.info]
  /\ said' = [call |-> "execute", status |-> IF cards'.stage = "tests" THEN 0 ELSE 1]
  /\ UNCHANGED <<host, regs, conf, asked>>

-----------------------------------------------------------------------------
(* Registers.                                                              *)

Ret(status, r, c) == [status |-> status, reg |-> r, cfg |-> c]

\* The bits an address type sets in DMACTL1, by its value; nothing clears them.
AddrTypeBits == <<{0}, {}, {1}, {0, 1}>>
TxnAddrType(value2, r, c) == Ret(0, [r EXCEPT !.at = @ \cup AddrTypeBits[value2 + 1]], c)

TxnReqIdValid(value2, r, c, otherwise) ==
  CASE value2 = 1 -> Ret(0, [r EXCEPT !.ridValid = TRUE], c)
    [] value2 = 0 -> Ret(0, [r EXCEPT !.rid = 0, !.ridValid = FALSE], c)
    [] OTHER -> otherwise

pal_exerciser_set_param_dt(type, value1, value2, r, c) ==
  CASE type \in {"SNOOP_ATTRIBUTES", "LEGACY_IRQ", "P2P_ATTRIBUTES", "MSIX_ATTRIBUTES"} -> Ret(0, r, c)
    [] type = "DMA_ATTRIBUTES" -> Ret(0, [r EXCEPT !.addr = value1 % Word, !.len = value2 % Word], c)
    [] type = "PASID_ATTRIBUTES" -> Ret(0, [r EXCEPT !.pasidLen = (value1 - 16) % 8], c)
    [] type = "CFG_TXN_ATTRIBUTES" ->
         (CASE value1 = "TXN_REQ_ID" -> Ret(0, [r EXCEPT !.rid = value2, !.ridValid = TRUE], c)
            [] value1 = "TXN_REQ_ID_VALID" -> TxnReqIdValid(value2, r, c, TxnAddrType(value2, r, c))
            [] value1 = "TXN_ADDR_TYPE" -> TxnAddrType(value2, r, c)
            [] OTHER -> Ret(1, r, c))
    [] OTHER -> Ret(1, r, c)

\* Without the capability the write lands in the read-only class register.
DvsecControl(c, value) == IF FindCapability(c.caps, "DVSEC") = 0 THEN [c EXCEPT !.error = value] ELSE c

pal_exerciser_set_param_acpi(type, value1, value2, r, c) ==
  IF type = "ERROR_INJECT_TYPE"
  THEN Ret(IF value1 <= 7 THEN 2 ELSE 3, r, DvsecControl(c, <<value1, value2>>))
  ELSE pal_exerciser_set_param_dt(type, value1, value2, r, c)

pal_exerciser_set_param_bm(type, value1, value2, r, c) ==
  IF type = "CFG_TXN_ATTRIBUTES" /\ value1 = "TXN_REQ_ID_VALID"
  THEN TxnReqIdValid(value2, r, c, Ret(0, r, c))
  ELSE pal_exerciser_set_param_acpi(type, value1, value2, r, c)

SetParam(type, value1, value2, r, c) ==
  CASE host.build = "acpi" -> pal_exerciser_set_param_acpi(type, value1, value2, r, c)
    [] host.build = "dt" -> pal_exerciser_set_param_dt(type, value1, value2, r, c)
    [] host.build = "bm" -> pal_exerciser_set_param_bm(type, value1, value2, r, c)

\* A DMA is what the registers say when the trigger bit is written.
Transaction(r) ==
  [dir |-> r.dir, addr |-> r.addr, len |-> r.len, at |-> r.at, noSnoop |-> r.noSnoop,
   rid |-> IF r.ridValid THEN r.rid ELSE Own,
   pasid |-> IF r.pasidEn THEN r.pasid ELSE Own]
NoDma == <<>>
Triggered(r) == [r EXCEPT !.done = Transaction(r)]

pal_exerciser_start_dma_direction_Sticky(direction, dmaStatus, r, c) ==   \* Bug: to-device clears nothing
  Ret(dmaStatus, Triggered(IF direction = "EDMA_FROM_DEVICE" THEN [r EXCEPT !.dir = direction] ELSE r), c)

pal_exerciser_start_dma_direction(direction, dmaStatus, r, c) ==
  Ret(dmaStatus, Triggered([r EXCEPT !.dir = direction]), c)
pal_exerciser_start_dma_direction_dt(direction, dmaStatus, r, c) ==
  pal_exerciser_start_dma_direction(direction, dmaStatus, r, c)
pal_exerciser_start_dma_direction_bm(direction, dmaStatus, r, c) ==
  pal_exerciser_start_dma_direction(direction, dmaStatus, r, c)
StartDma(direction, dmaStatus, r, c) ==
  CASE host.build = "acpi" -> pal_exerciser_start_dma_direction(direction, dmaStatus, r, c)
    [] host.build = "dt" -> pal_exerciser_start_dma_direction_dt(direction, dmaStatus, r, c)
    [] host.build = "bm" -> pal_exerciser_start_dma_direction_bm(direction, dmaStatus, r, c)

\* The device's part of PASID comes first; a card without the capability keeps it
\* although the call fails.
PasidCapability(c, r, enable) ==
  IF FindCapability(c.caps, "PASID") = 0 THEN Ret(0, r, [c EXCEPT !.pasid = enable]) ELSE Ret(1, r, c)

Directions == {"EDMA_FROM_DEVICE", "EDMA_TO_DEVICE"}

\* answer is what the device's status register holds after the operation.
pal_exerciser_ops_dt(ops, param, answer, r, c) ==
  CASE ops = "START_DMA" ->
         (CASE param \in Directions -> StartDma(param, answer, r, c)
            [] param \in {"EDMA_NO_SUPPORT", "EDMA_COHERENT", "EDMA_NOT_COHERENT"} -> Ret(0, r, c)
            [] OTHER -> Ret(1, r, c))
    [] ops = "GENERATE_MSI" -> Ret(0, [r EXCEPT !.msi = @ \cup param], c)
    [] ops = "GENERATE_L_INTR" -> Ret(0, [r EXCEPT !.intx = TRUE], c)
    [] ops = "CLEAR_INTR" -> Ret(0, [r EXCEPT !.intx = FALSE], c)
    [] ops \in {"MEM_READ", "MEM_WRITE"} -> Ret(0, r, c)
    [] ops = "PASID_TLP_START" -> PasidCapability(c, [r EXCEPT !.pasidEn = TRUE, !.pasid = param], TRUE)
    [] ops = "PASID_TLP_STOP" -> PasidCapability(c, [r EXCEPT !.pasidEn = FALSE], FALSE)
    [] ops = "TXN_NO_SNOOP_ENABLE" -> Ret(0, [r EXCEPT !.noSnoop = TRUE], c)
    [] ops = "TXN_NO_SNOOP_DISABLE" -> Ret(0, [r EXCEPT !.noSnoop = FALSE], c)
    [] ops = "ATS_TXN_REQ" -> Ret(IF answer = 0 THEN 1 ELSE 0, [r EXCEPT !.addr = param % Word], c)
    [] OTHER -> Ret(1, r, c)

pal_exerciser_ops_acpi(ops, param, answer, r, c) ==
  CASE ops = "START_TXN_MONITOR" -> Ret(0, [r EXCEPT !.monitor = "on", !.trace = <<>>], c)
    [] ops = "STOP_TXN_MONITOR" -> Ret(0, [r EXCEPT !.monitor = "stopped"], c)
    [] ops = "INJECT_ERROR" -> Ret(param, r, DvsecControl(c, "injected"))
    [] OTHER -> pal_exerciser_ops_dt(ops, param, answer, r, c)

pal_exerciser_ops_bm(ops, param, answer, r, c) == pal_exerciser_ops_acpi(ops, param, answer, r, c)

Ops(ops, param, answer, r, c) ==
  CASE host.build = "acpi" -> pal_exerciser_ops_acpi(ops, param, answer, r, c)
    [] host.build = "dt" -> pal_exerciser_ops_dt(ops, param, answer, r, c)
    [] host.build = "bm" -> pal_exerciser_ops_bm(ops, param, answer, r, c)

-----------------------------------------------------------------------------
(* Reading back.  A call that fails leaves the caller's variables alone.   *)

Values(status, v1, v2, r) == [status |-> status, v1 |-> v1, v2 |-> v2, reg |-> r]
Unset == "unset"

pal_exerciser_get_param_dt(type, dmaStatus, r) ==
  CASE type = "DMA_ATTRIBUTES" -> Values(dmaStatus % 2, r.addr, r.len, r)
    [] type = "PASID_ATTRIBUTES" -> Values(0, r.pasidLen + 16, Unset, r)
    [] type = "LEGACY_IRQ" -> Values(1, r.intx, Unset, r)
    [] type = "MSIX_ATTRIBUTES" -> Values(1, r.msi, Unset, r)
    [] type = "ATS_RES_ATTRIBUTES" -> Values(0, r.ats, Unset, r)
    [] type \in {"SNOOP_ATTRIBUTES", "P2P_ATTRIBUTES"} -> Values(0, Unset, Unset, r)
    [] OTHER -> Values(1, Unset, Unset, r)

\* Every read of the trace takes one transaction out of it.
TraceTypes == {"CFG_TXN_ATTRIBUTES", "TRANSACTION_TYPE", "ADDRESS_ATTRIBUTES", "DATA_ATTRIBUTES"}
pal_exerciser_get_param_acpi(type, dmaStatus, r) ==
  IF type \notin TraceTypes THEN pal_exerciser_get_param_dt(type, dmaStatus, r)
  ELSE IF r.trace = <<>> THEN Values(1, Unset, Unset, r)
  ELSE LET rest == [r EXCEPT !.trace = Tail(@)] IN
         IF type = "TRANSACTION_TYPE" THEN Values(0, Unset, Head(r.trace), rest)
                                      ELSE Values(0, type, Unset, rest)

pal_exerciser_get_param_bm(type, dmaStatus, r) == pal_exerciser_get_param_acpi(type, dmaStatus, r)

GetParam(type, dmaStatus, r) ==
  CASE host.build = "acpi" -> pal_exerciser_get_param_acpi(type, dmaStatus, r)
    [] host.build = "dt" -> pal_exerciser_get_param_dt(type, dmaStatus, r)
    [] host.build = "bm" -> pal_exerciser_get_param_bm(type, dmaStatus, r)

\* Bare metal masks the type bits of a BAR, so every BAR looks like memory there.
\* The search for a memory BAR steps by four BARs.
BarSeen(f, n) == IF host.build = "bm" THEN "mem" ELSE f.bars[n]
BarData(f, n) == [status |-> 0, base |-> n, prefetchable |-> BarSeen(f, n) = "prefetchable"]

pal_exerciser_get_data_dt(type, f) ==
  CASE type = "EXERCISER_DATA_CFG_SPACE" -> [status |-> 0, id |-> f.exerciser]
    [] type = "EXERCISER_DATA_BAR0_SPACE" -> BarData(f, 0)
    [] OTHER -> [status |-> 1]

pal_exerciser_get_data_acpi(type, f) ==
  IF type = "EXERCISER_DATA_MMIO_SPACE"
  THEN LET hit == {n \in {0, 4} : BarSeen(f, n) # "io"} IN
         IF hit = {} THEN [status |-> 1] ELSE BarData(f, CHOOSE n \in hit : \A m \in hit : n <= m)
  ELSE pal_exerciser_get_data_dt(type, f)

pal_exerciser_get_data_bm(type, f) == pal_exerciser_get_data_acpi(type, f)

GetData(type, f) ==
  CASE host.build = "acpi" -> pal_exerciser_get_data_acpi(type, f)
    [] host.build = "dt" -> pal_exerciser_get_data_dt(type, f)
    [] host.build = "bm" -> pal_exerciser_get_data_bm(type, f)

-----------------------------------------------------------------------------
(* The calls of the validation layer, on card i.                           *)

Card(i) == cards.info[i].bdf
CanCall(i) == cards.stage = "tests" /\ i \in DOMAIN cards.info

\* What the caller has asked of the card, kept beside the registers.
AskedParam(type, value1, value2, a) ==
  CASE type = "DMA_ATTRIBUTES" -> [a EXCEPT !.addr = value1, !.len = value2]
    [] type = "CFG_TXN_ATTRIBUTES" /\ value1 = "TXN_REQ_ID" -> [a EXCEPT !.rid = value2]
    [] type = "CFG_TXN_ATTRIBUTES" /\ value1 = "TXN_REQ_ID_VALID" /\ value2 = 0 -> [a EXCEPT !.rid = Own]
    [] type = "CFG_TXN_ATTRIBUTES" /\ value1 = "TXN_REQ_ID_VALID" /\ value2 # 0 -> [a EXCEPT !.rid = IF @ = Own THEN 0 ELSE @]
    [] type = "CFG_TXN_ATTRIBUTES" /\ value1 = "TXN_ADDR_TYPE" -> [a EXCEPT !.types = @ \cup {value2}]
    [] OTHER -> a
AskedOps(ops, param, a) ==
  CASE ops = "START_DMA" /\ param \in Directions -> [a EXCEPT !.dir = param]
    [] ops = "PASID_TLP_START" -> [a EXCEPT !.pasid = param]
    [] ops = "PASID_TLP_STOP" -> [a EXCEPT !.pasid = Own]
    [] ops = "TXN_NO_SNOOP_ENABLE" -> [a EXCEPT !.noSnoop = TRUE]
    [] ops = "TXN_NO_SNOOP_DISABLE" -> [a EXCEPT !.noSnoop = FALSE]
    [] ops = "ATS_TXN_REQ" -> [a EXCEPT !.addr = Own]
    [] OTHER -> a

Effect(i, call, out, a) ==
  LET k == Card(i) IN
    /\ regs' = [regs EXCEPT ![k] = [out.reg EXCEPT !.done = NoDma]]
    /\ conf' = [conf EXCEPT ![ConfigOf(host, k)] = out.cfg]
    /\ asked' = [asked EXCEPT ![k] = a]
    /\ said' = [call |-> call, status |-> out.status, card |-> k, dma |-> out.reg.done]
    /\ UNCHANGED <<host, cards>>

val_exerciser_set_param(type, value1, value2, i) ==
  /\ CanCall(i)
  /\ \E out \in {SetParam(type, value1, value2, regs[Card(i)], conf[ConfigOf(host, Card(i))])} :
       Effect(i, type, out, AskedParam(type, value1, value2, asked[Card(i)]))

val_exerciser_ops(ops, param, answer, i) ==
  /\ CanCall(i)
  /\ \E out \in {Ops(ops, param, answer, regs[Card(i)], conf[ConfigOf(host, Card(i))])} :
       Effect(i, ops, out, AskedOps(ops, param, asked[Card(i)]))

val_exerciser_get_param(type, dmaStatus, i) ==
  /\ CanCall(i)
  /\ LET out == GetParam(type, dmaStatus, regs[Card(i)]) IN
       /\ regs' = [regs EXCEPT ![Card(i)] = out.reg]
       /\ said' = [call |-> type, status |-> out.status, v1 |-> out.v1, v2 |-> out.v2, card |-> Card(i)]
  /\ UNCHANGED <<host, cards, conf, asked>>

\* The ECAM handed down is the one that decodes the function.
val_exerciser_get_data(type, i) ==
  /\ CanCall(i)
  /\ said' = [call |-> type, card |-> Card(i)] @@ GetData(type, host.functions[Card(i)])
  /\ UNCHANGED <<host, cards, regs, conf, asked>>

pal_exerciser_get_state(k) == [status |-> 0, state |-> "EXERCISER_ON"]

val_exerciser_init(i) ==
  /\ CanCall(i)
  /\ IF cards.info[i].initialized \/ pal_exerciser_get_state(Card(i)).state # "EXERCISER_ON"
     THEN UNCHANGED <<cards, conf>>
     ELSE /\ conf' = [conf EXCEPT ![Card(i)].enabled = TRUE]
          /\ cards' = [cards EXCEPT !.info[i].initialized = TRUE]
  /\ said' = [call |-> "init", status |-> 0]
  /\ UNCHANGED <<host, regs, asked>>

\* The device records what reaches it while it is monitored; it may miss some.
Observe(k, kind) ==
  /\ regs[k].monitor = "on" /\ Len(regs[k].trace) < MaxTrace
  /\ regs' = [regs EXCEPT ![k].trace = Append(@, kind)]
  /\ UNCHANGED <<host, cards, conf, asked, said>>

\* The order in which a test's accesses must arrive: 1 is a write, 0 a read.
transaction_order == <<1, 1, 0, 1, 0, 0, 0, 0>>

\* The n-th type the check compares: a read of an empty trace fails and leaves the
\* type of the read before, or what the stack held.
TypeSeen(n, trace, garbage) ==
  IF n <= Len(trace) THEN trace[n] ELSE IF trace = <<>> THEN garbage ELSE Last(trace)

test_sequence_check(i, garbage) ==
  /\ CanCall(i) /\ regs[Card(i)].monitor = "stopped"
  /\ LET trace == regs[Card(i)].trace
         bad == {n \in DOMAIN transaction_order : TypeSeen(n, trace, garbage) # transaction_order[n]}
     IN said' = [call |-> "order", status |-> IF bad = {} THEN 0 ELSE 1, trace |-> trace]
  /\ regs' = [regs EXCEPT ![Card(i)].monitor = "off", ![Card(i)].trace = <<>>]
  /\ UNCHANGED <<host, cards, conf, asked>>

-----------------------------------------------------------------------------
CardReset == [addr |-> 0, len |-> 0, dir |-> "EDMA_TO_DEVICE", at |-> {}, noSnoop |-> FALSE, pasidEn |-> FALSE,
              pasid |-> 0, pasidLen |-> 0, rid |-> 0, ridValid |-> FALSE, msi |-> {}, intx |-> FALSE,
              ats |-> 0, monitor |-> "off", trace |-> <<>>, done |-> NoDma]
ResetAsked == [addr |-> 0, len |-> 0, dir |-> "EDMA_TO_DEVICE", types |-> {}, noSnoop |-> FALSE,
               rid |-> Own, pasid |-> Own]

ExerciserInit(hosts) ==
  /\ host \in hosts
  /\ cards = [stage |-> "start", info |-> <<>>]
  /\ regs = [k \in Functions(host) |-> CardReset]
  /\ conf = [k \in Functions(host) |->
                [caps |-> host.functions[k].caps, pasid |-> FALSE, error |-> <<>>, enabled |-> FALSE]]
  /\ asked = [k \in Functions(host) |-> ResetAsked]
  /\ said = Quiet

\* Bus numbers tell functions apart, and the driver reads the ECAM that decodes them.
OneEcamPerBus == Len(host.ecams) = 1 \/ (host.build = "bm" /\
  \A i, j \in DOMAIN host.ecams : i # j => host.ecams[i].end < host.ecams[j].start \/ host.ecams[j].end < host.ecams[i].start)

(* The cards the tests see are the exercisers of the function table, each once, last first; on a
   platform whose ECAMs overlap in bus numbers, or a UEFI build with a second ECAM, the drivers
   look elsewhere and this is not promised. *)
ExercisersFound ==
  cards.stage = "tests" /\ OneEcamPerBus =>
    [i \in DOMAIN cards.info |-> cards.info[i].bdf] =
      Reverse(SelectSeq([k \in Functions(host) |-> k], LAMBDA k : host.functions[k].exerciser))

(* A DMA carries what was last asked of the card, whatever calls came before it and on whatever other
   card: direction, address and length (below the register's width, unless an ATS request came
   between), no-snoop, requester id, PASID, and the one address type ever asked for.  The card's
   PASID capability agrees with its DMA engine. *)
DmaAsAsked ==
  OneEcamPerBus =>
    /\ said.call = "START_DMA" /\ said.dma # NoDma =>
         LET a == asked[said.card] dma == said.dma IN
           /\ dma.dir = a.dir /\ dma.noSnoop = a.noSnoop /\ dma.rid = a.rid /\ dma.pasid = a.pasid
           /\ a.addr \in 0..(Word - 1) => dma.addr = a.addr /\ dma.len = a.len
           /\ \A t \in {0, 2, 3} : a.types = {t} => dma.at = AddrTypeBits[t + 1]
    /\ \A k \in Functions(host) : "PASID" \in Range(conf[k].caps) => conf[k].pasid = regs[k].pasidEn

(* The arrival-order test passes only when every write, and every read up to the last write, was
   recorded, and all that was recorded is in order. *)
OrderIsChecked ==
  said.call = "order" /\ said.status = 0 =>
    Len(said.trace) >= 5 /\ said.trace = SubSeq(transaction_order, 1, Len(said.trace))

(* All of the above: the cards of val_exerciser_create_info_table are those of the host, each does
   what it was last asked (val_exerciser_set_param, val_exerciser_ops), and the test of the arrival
   order is not passed by writes out of order. *)
CardsAreRight == ExercisersFound /\ DmaAsAsked /\ OrderIsChecked
=============================================================================
