------------------------------ MODULE PcieCfg ------------------------------
(***************************************************************************)
(* The configuration space of one PCIe function as val/src/acs_pcie.c uses *)
(* it: the capability chains, the command, status and device control       *)
(* registers with their write-one-to-clear status bits, and the bit-field  *)
(* check that tests registers against the attribute the specification      *)
(* gives them while the hardware may raise status bits at any time.        *)
(*                                                                         *)
(* A register is the set of its bits that are one; a bit is read-only      *)
(* ("ro"), writable ("rw") or cleared by writing one ("w1c").              *)
(***************************************************************************)
EXTENDS Integers, Sequences

VARIABLES
  caps,          \* the chain of the function
  cfgreg,        \* CR, DCTL and SEC: the registers shared by control and status
  raised,        \* history: status bits raised since they were last cleared
  field,         \* [kind, reg]: the register the bit-field table is about
  entries,       \* the bit-field table
  bf             \* progress of val_pcie_register_bitfields_check

cfgVars == <<caps, cfgreg, raised, field, entries, bf>>

-----------------------------------------------------------------------------
(* Capability chains.                                                      *)

\* The chain is followed until the wanted capability or a null pointer.
Walk(chain, start, cid) ==
  LET walk[offset \in DOMAIN chain.at \cup {0}] ==
        IF offset = 0 THEN [status |-> "PCIE_CAP_NOT_FOUND", offset |-> 0]
        ELSE IF chain.at[offset].cid = cid THEN [status |-> "PCIE_SUCCESS", offset |-> offset]
        ELSE walk[chain.at[offset].next]
  IN walk[start]

val_pcie_find_capability(chain, cid) == Walk(chain, chain.head, cid)

\* The platform layer walks the chain itself for the port type, 0 without one.
pal_pcie_get_pcie_type(chain) ==
  LET found == Walk(chain, chain.head, "PCIECS") IN
    IF found.offset = 0 THEN 0 ELSE chain.at[found.offset].word

\* ... and for the no-snoop bit, 2 without one.
pal_pcie_get_snoop_bit(chain) ==
  LET found == Walk(chain, chain.head, "PCIECS") IN
    IF found.offset = 0 THEN 2 ELSE chain.at[found.offset].word % 2

-----------------------------------------------------------------------------
(* Registers with status bits.                                             *)

CR == {"bme", "mse", "serre", "sta"}
DCTL == {"ere", "urd", "err"}
SEC == {"secctl", "ssta"}
StatusBits == {"sta", "urd", "err", "ssta"}

\* What a write of the value v leaves in a register.
Written(kind, old, v) ==
  {b \in DOMAIN kind : CASE kind[b] = "ro" -> b \in old
                         [] kind[b] = "rw" -> b \in v
                         [] kind[b] = "w1c" -> b \in old /\ b \notin v}

BitKind == [b \in CR \cup DCTL \cup SEC |-> IF b \in StatusBits THEN "w1c" ELSE "rw"]

\* The three registers are one set; a write goes to one of them.
WriteReg(all, register, v) ==
  (all \ register) \cup (Written(BitKind, all \cap register, v) \cap register)

\* Read, change, write back: status bits that are set are written as ones.
Modify(all, register, set, clear) ==
  WriteReg(all, register, ((all \cap register) \cup set) \ clear)

val_pcie_disable_bme(r) == Modify(r, CR, {}, {"bme"})
val_pcie_enable_bme(r) == Modify(r, CR, {"bme"}, {})
val_pcie_disable_msa(r) == Modify(r, CR, {}, {"mse"})
val_pcie_enable_msa(r) == Modify(r, CR, {"mse"}, {})
val_pcie_is_msa_enabled(r) == IF "mse" \in r THEN 0 ELSE 1

\* Bug: only the event of the caller's function is acknowledged by a zero.
val_pcie_clear_urd_by_zero(r) == WriteReg(r, DCTL, (r \cap DCTL) \ {"urd"})

\* The status half is masked off before the URD bit is written.
val_pcie_clear_urd(r) == WriteReg(r, DCTL, ((r \cap DCTL) \ StatusBits) \cup {"urd"})
val_pcie_is_urd(r) == "urd" \in r

val_pcie_clear_device_status_error(r) == Modify(r, DCTL, {"urd", "err"}, {})
val_pcie_is_device_status_error(r) == r \cap {"urd", "err"} # {}

val_pcie_clear_sig_target_abort(r) == Modify(Modify(r, CR, {"sta"}, {}), SEC, {"ssta"}, {})
val_pcie_is_sig_target_abort(r) == r \cap {"sta", "ssta"} # {}

val_pcie_enable_eru(r) == Modify(Modify(r, CR, {"serre"}, {}), DCTL, {"ere"}, {})
val_pcie_disable_eru(r) == Modify(Modify(r, CR, {}, {"serre"}), DCTL, {}, {"ere"})

\* A control call of the VAL: what it does to the registers, and the status
\* bits its documentation says it clears.
Control(r, call) ==
  CASE call = "disable_bme" -> val_pcie_disable_bme(r)
    [] call = "enable_bme" -> val_pcie_enable_bme(r)
    [] call = "disable_msa" -> val_pcie_disable_msa(r)
    [] call = "enable_msa" -> val_pcie_enable_msa(r)
    [] call = "enable_eru" -> val_pcie_enable_eru(r)
    [] call = "disable_eru" -> val_pcie_disable_eru(r)

ControlCalls == {"disable_bme", "enable_bme", "disable_msa", "enable_msa", "enable_eru",
                 "disable_eru"}

-----------------------------------------------------------------------------
(* The bit-field check, one configuration access at a time.                *)

BitKinds == {"ro", "rw", "w1c"}
Attributes == {"HW_INIT", "READ_ONLY", "STICKY_RO", "RSVDP_RO", "RSVDZ_RO", "READ_WRITE", "STICKY_RW"}

\* The entries of bit-field tables for a register of these bits, and the
\* registers with such tables.
FieldEntries(bits, cids) ==
  [mask : SUBSET bits, cfg : SUBSET bits, attr : Attributes, cid : cids,
   warn1 : BOOLEAN, warn2 : BOOLEAN, applies : BOOLEAN]
FieldCases(bits, cids) ==
  [field : [kind : [bits -> BitKinds], reg : SUBSET bits], entries : Seq(FieldEntries(bits, cids))]

\* The capability chains ([head, at |-> [offset -> [cid, next, word]]]) and the
\* registers with bit-field tables considered are arguments.
CfgInit(chains, cases) ==
  /\ caps \in chains
  /\ cfgreg = {}
  /\ raised = {}
  /\ \E c \in cases : field = c.field /\ entries = c.entries
  /\ bf = [pc |-> "idle", i |-> 1, seen |-> {}, wrote |-> {}, temp |-> {},
           pass |-> 0, fails |-> 0, first |-> {}, hit |-> FALSE, verdict |-> <<>>]

Current == entries[bf.i]

\* Status bits of the register that are in none of the fields.
Interfering ==
  {b \in DOMAIN field.kind : /\ field.kind[b] = "w1c"
                              /\ \A i \in DOMAIN entries : b \notin entries[i].mask}

WriteField(v) == Written(field.kind, field.reg, v)

\* A bit-field entry is finished with a status; the loop goes on.
Finished(status, hit) ==
  bf' = [bf EXCEPT !.pc = "entry", !.i = bf.i + 1,
                   !.pass = bf.pass + (IF status = 0 THEN 1 ELSE 0),
                   !.fails = bf.fails + (IF status = 0 THEN 0 ELSE 1),
                   !.verdict = Append(@, [status |-> status, hit |-> hit, reg |-> bf.first])]

val_pcie_register_bitfields_check ==
  /\ bf.pc = "idle"
  /\ cfgreg' = val_pcie_disable_eru(cfgreg)
  /\ bf' = [bf EXCEPT !.pc = "entry"]
  /\ UNCHANGED <<caps, raised, field, entries>>

\* An entry for another device type is skipped; a capability that is absent
\* fails it; otherwise the register is read, written back, read again and
\* compared with the configured value. Status raised before the second read
\* is in the value read.
BitfieldRead ==
  /\ bf.pc = "entry" /\ bf.i <= Len(entries)
  /\ UNCHANGED <<caps, cfgreg, raised, entries>>
  /\ \/ /\ ~Current.applies
        /\ bf' = [bf EXCEPT !.i = bf.i + 1,
                            !.verdict = Append(@, [status |-> -1, hit |-> FALSE, reg |-> {}])]
        /\ UNCHANGED field
     \/ /\ Current.applies
        /\ val_pcie_find_capability(caps, Current.cid).offset = 0
        /\ Finished(2, FALSE)
        /\ UNCHANGED field
     \/ \E late \in SUBSET Interfering :
        LET settled == WriteField(field.reg) \cup late IN
        /\ Current.applies
        /\ val_pcie_find_capability(caps, Current.cid).offset # 0
        /\ field' = [field EXCEPT !.reg = settled]
        /\ IF settled \cap Current.mask = Current.cfg
           THEN bf' = [bf EXCEPT !.pc = "write", !.seen = settled, !.first = settled,
                                 !.hit = (late # {})]
           ELSE bf' = [bf EXCEPT !.pc = "entry", !.i = bf.i + 1,
                                 !.pass = bf.pass + (IF Current.warn1 THEN 1 ELSE 0),
                                 !.fails = bf.fails + (IF Current.warn1 THEN 0 ELSE 1),
                                 !.verdict = Append(@, [status |-> IF Current.warn1 THEN 0 ELSE 1,
                                                        hit |-> late # {}, reg |-> settled])]

\* The value written: the field toggled, preserved or zeroed.
Toggled == (bf.seen \ Current.mask) \cup (Current.mask \ bf.seen)

Overwrite ==
  CASE Current.attr \in {"HW_INIT", "READ_ONLY", "STICKY_RO", "READ_WRITE", "STICKY_RW"} -> Toggled
    [] Current.attr = "RSVDP_RO" -> bf.seen
    [] Current.attr = "RSVDZ_RO" -> bf.seen \ Current.mask

BitfieldWrite ==
  /\ bf.pc = "write"
  /\ field' = [field EXCEPT !.reg = WriteField(Overwrite)]
  /\ bf' = [bf EXCEPT !.pc = "readback", !.wrote = Overwrite, !.temp = bf.seen]
  /\ UNCHANGED <<caps, cfgreg, raised, entries>>

\* The register is read back and compared; a writable field is restored.
BitfieldReadback ==
  /\ bf.pc = "readback"
  /\ LET writable == Current.attr \in {"READ_WRITE", "STICKY_RW"}
         same == CASE writable -> bf.wrote = field.reg
                   [] Current.attr = "RSVDP_RO" -> field.reg \cap Current.mask = {}
                   [] OTHER -> field.reg = bf.seen
     IN /\ field' = [field EXCEPT !.reg = IF writable THEN WriteField(bf.temp) ELSE @]
        /\ Finished(IF same \/ Current.warn2 THEN 0 ELSE 1, bf.hit)
  /\ UNCHANGED <<caps, cfgreg, raised, entries>>

BitfieldsDone ==
  /\ bf.pc = "entry" /\ bf.i > Len(entries)
  /\ bf' = [bf EXCEPT !.pc = "done"]
  /\ UNCHANGED <<caps, cfgreg, raised, field, entries>>

\* The hardware raises a status bit beside the field, at any time.
FieldStatus ==
  /\ bf.pc \in {"entry", "write", "readback"}
  /\ \E b \in Interfering \ field.reg :
       field' = [field EXCEPT !.reg = @ \cup {b}]
  /\ bf' = [bf EXCEPT !.hit = TRUE]
  /\ UNCHANGED <<caps, cfgreg, raised, entries>>

-----------------------------------------------------------------------------
(* Tests and hardware share the status registers.                          *)

ControlCall ==
  /\ \E call \in ControlCalls : cfgreg' = Control(cfgreg, call)
  /\ UNCHANGED <<caps, raised, field, entries, bf>>

ClearUrd ==
  /\ cfgreg' = val_pcie_clear_urd(cfgreg)
  /\ raised' = raised \ {"urd"}
  /\ UNCHANGED <<caps, field, entries, bf>>

ClearDeviceStatus ==
  /\ cfgreg' = val_pcie_clear_device_status_error(cfgreg)
  /\ raised' = raised \ {"urd", "err"}
  /\ UNCHANGED <<caps, field, entries, bf>>

ClearTargetAbort ==
  /\ cfgreg' = val_pcie_clear_sig_target_abort(cfgreg)
  /\ raised' = raised \ {"sta", "ssta"}
  /\ UNCHANGED <<caps, field, entries, bf>>

Raise ==
  /\ \E b \in StatusBits : cfgreg' = cfgreg \cup {b} /\ raised' = raised \cup {b}
  /\ UNCHANGED <<caps, field, entries, bf>>

StatusNext == ControlCall \/ ClearUrd \/ ClearDeviceStatus \/ ClearTargetAbort \/ Raise

FieldNext ==
  \/ val_pcie_register_bitfields_check
  \/ BitfieldRead \/ BitfieldWrite \/ BitfieldReadback \/ BitfieldsDone
  \/ FieldStatus

CfgNext == StatusNext \/ FieldNext

-----------------------------------------------------------------------------
\* A status bit is seen only when the hardware raised it after the last call
\* that clears it: clearing works although control and status share a
\* register and are written together (val_pcie_clear_urd,
\* val_pcie_clear_device_status_error, val_pcie_clear_sig_target_abort).
StatusIsEarned == cfgreg \cap StatusBits \subseteq raised

\* Does the field behave as its attribute says, in the state it was in?
Conforms(e, reg) ==
  /\ reg \cap e.mask = e.cfg
  /\ CASE e.attr \in {"HW_INIT", "READ_ONLY", "STICKY_RO"} ->
            \A b \in e.mask : field.kind[b] = "ro" \/ (field.kind[b] = "w1c" /\ b \notin reg)
       [] e.attr = "RSVDP_RO" -> reg \cap e.mask = {}
       [] e.attr = "RSVDZ_RO" -> \A b \in e.mask \cap reg : field.kind[b] # "rw"
       [] e.attr \in {"READ_WRITE", "STICKY_RW"} -> \A b \in e.mask : field.kind[b] = "rw"

\* A bit-field that does not behave as its attribute says never passes (a
\* "WARNING" entry apart), whatever status bits the hardware raises during the
\* check, and one that does behave fails only when the hardware raised a
\* status bit of the same register meanwhile (val_pcie_bitfield_check compares
\* whole registers).
VerdictIsRight ==
  \A i \in DOMAIN bf.verdict :
    LET v == bf.verdict[i]
        e == entries[i]
    IN v.status \in {0, 1} =>
         /\ v.status = 0 /\ ~e.warn1 /\ ~e.warn2 => Conforms(e, v.reg)
         /\ v.status = 1 /\ ~v.hit => ~Conforms(e, v.reg)

\* When every entry passes without a warning and without interference, the
\* register holds what it held before the check, status bits apart: the
\* toggled value of a writable field is put back (val_pcie_bitfield_check).
FieldRestored ==
  LET untouched == \A j \in DOMAIN bf.verdict :
                     ~bf.verdict[j].hit /\ ~entries[j].warn1 /\ ~entries[j].warn2
      lasting(reg) == {b \in reg : field.kind[b] # "w1c"}
  IN bf.pc = "done" /\ bf.fails = 0 /\ untouched =>
       \A i \in DOMAIN bf.verdict :
         bf.verdict[i].status = 0 => lasting(field.reg) = lasting(bf.verdict[i].reg)

\* Status bits are seen when raised and only then, bit-field verdicts are
\* right, and a check that passes leaves the register as it was: the three
\* above (val_pcie_clear_urd and the rest, val_pcie_bitfield_check).
RegistersAreRight == StatusIsEarned /\ VerdictIsRight /\ FieldRestored
=============================================================================
