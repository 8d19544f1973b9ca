------------------------------- MODULE Imsic --------------------------------
(***************************************************************************)
(* The RISC-V interrupt file of a hart as val/sys_arch_src/aia/aia.c       *)
(* drives it through the indirect registers, and the test that exercises   *)
(* it (test_pool/iic/operating_system/test_os_i002.c).                     *)
(*                                                                         *)
(* Registers eip and eie hold XLEN interrupts each and are numbered in     *)
(* steps of XLEN \div IregBits; the driver gathers the bits to write in a  *)
(* variable of IregBits bits.                                              *)
(***************************************************************************)
EXTENDS Integers, Sequences, FiniteSets, FiniteSetsExt

CONSTANTS XLEN, IregBits, MaxId

ASSUME ImsicAssumption ==
  /\ XLEN \in Nat \ {0} /\ IregBits \in Nat \ {0, 1} /\ XLEN % IregBits = 0
  /\ MaxId \in Nat /\ MaxId >= IregBits - 1

VARIABLES
  fault,        \* what is wrong with the interrupt file
  primary,      \* index of the hart that runs the test
  eip, eie,     \* interrupts pending and enabled
  want,         \* what the calls asked for within the driver's reach
  ei,           \* eidelivery and eithreshold
  i002          \* the test: place, loop index, status of each hart

imsicVars == <<fault, primary, eip, eie, want, ei, i002>>

Faults == {"none", "enable", "pending", "message", "readback", "top"}

\* External: the register that isel selects, relative to the first of its
\* kind, and the interrupts behind bits of it.
Selected(isel, bits) ==
  {id \in 1..MaxId : isel % (XLEN \div IregBits) = 0
                     /\ id \div XLEN = isel \div (XLEN \div IregBits) /\ id % XLEN \in bits}

imsic_csr_set(file, isel, bits, broken) == IF broken THEN file ELSE file \cup Selected(isel, bits)
imsic_csr_clear(file, isel, bits) == file \ Selected(isel, bits)

\* What a variable of IregBits bits keeps of the bits put into it.
Ireg(bits) == {b \in bits : b < IregBits}

\* Bug: the number of the register is not scaled.
Isel_unscaled(id) == id \div XLEN

Isel(id) == (id \div XLEN) * (XLEN \div IregBits)

Written(pend, val, isel, bits) ==
  /\ eip' = IF ~pend THEN eip ELSE IF val THEN imsic_csr_set(eip, isel, bits, fault = "pending")
            ELSE imsic_csr_clear(eip, isel, bits)
  /\ eie' = IF pend THEN eie ELSE IF val THEN imsic_csr_set(eie, isel, bits, fault = "enable")
            ELSE imsic_csr_clear(eie, isel, bits)

\* Interrupts in the lower part of a register.
Low == {id \in 1..MaxId : id % XLEN < IregBits}

Wanted(pend, val, ids) ==
  want' = [want EXCEPT ![pend] = IF val THEN @ \cup (ids \cap Low) ELSE @ \ ids]

val_iic_imsic_eix_update(id, pend, val) ==
  Written(pend, val, Isel(id), Ireg({id % XLEN})) /\ Wanted(pend, val, {id})

\* One turn of the outer loop per register; the turns commute.
val_iic_imsic_eix_array_update(base_id, num_id, pend, val) ==
  LET ids == base_id..(base_id + num_id - 1)
      turns == {Isel(id) : id \in ids}
      reached == UNION {Selected(isel, Ireg({id % XLEN : id \in {x \in ids : Isel(x) = isel}})) : isel \in turns}
      change(file, broken) == IF ~val THEN file \ reached ELSE IF broken THEN file ELSE file \cup reached
  IN /\ eip' = IF pend THEN change(eip, fault = "pending") ELSE eip
     /\ eie' = IF pend THEN eie ELSE change(eie, fault = "enable")
     /\ Wanted(pend, val, ids)

\* The bits of the register that holds id.
val_iic_imsic_eix_read(id, pend) ==
  {x % XLEN : x \in {y \in IF pend THEN eip ELSE eie : Isel(y) = Isel(id)}}

val_iic_imsic_eidelivery_update(val) == ei' = [ei EXCEPT !.delivery = val]
val_iic_imsic_eithreshold_update(val) == ei' = [ei EXCEPT !.threshold = val]

\* External: the top interrupt, 0 if there is none.
Stopei ==
  LET top == {id \in eip \cap eie : ei.threshold = 0 \/ id < ei.threshold}
  IN IF top = {} \/ fault = "top" THEN 0 ELSE Min(top)

-----------------------------------------------------------------------------
(* The test: each id below IregBits enabled and made pending in turn, then *)
(* a message written to the interrupt file.                                *)

TestId == IregBits - 1
At(pc) == i002.pc = pc
GoTo(pc) == i002' = [i002 EXCEPT !.pc = pc]
Verdict(hart, status) == i002' = [i002 EXCEPT !.pc = "done", !.status[hart] = status]
Quiet == UNCHANGED <<fault, primary>>

\* One id: set and read back the enable, then the pending bit.
LoopStep(pc, read, pend, next) ==
  \/ /\ At(pc) /\ val_iic_imsic_eix_update(i002.i, pend, TRUE)
     /\ GoTo(read) /\ UNCHANGED ei
  \/ /\ At(read)
     /\ IF i002.i % XLEN \notin val_iic_imsic_eix_read(i002.i, pend)
        THEN Verdict(primary, "FAIL") /\ UNCHANGED <<eip, eie, want>>
        ELSE val_iic_imsic_eix_update(i002.i, pend, FALSE) /\ next
     /\ UNCHANGED ei

Payload ==
  \/ LoopStep("enable", "enable_read", FALSE, GoTo("pending"))
  \/ LoopStep("pending", "pending_read", TRUE,
              i002' = IF i002.i < TestId THEN [i002 EXCEPT !.pc = "enable", !.i = @ + 1]
                      ELSE [i002 EXCEPT !.pc = "delivery"])
  \/ /\ At("delivery") /\ val_iic_imsic_eidelivery_update(1) /\ GoTo("threshold")
     /\ UNCHANGED <<eip, eie, want>>
  \/ /\ At("threshold") /\ val_iic_imsic_eithreshold_update(0) /\ GoTo("arm") /\ UNCHANGED <<eip, eie, want>>
  \/ /\ At("arm") /\ val_iic_imsic_eix_update(TestId, FALSE, TRUE) /\ GoTo("send") /\ UNCHANGED ei
  \/ /\ At("send") /\ GoTo("readback")
     /\ eip' = IF fault = "message" THEN eip ELSE eip \cup {TestId}
     /\ Wanted(TRUE, TRUE, {TestId}) /\ UNCHANGED <<eie, ei>>
  \/ /\ At("readback")
     /\ IF fault = "readback" \/ TestId \notin val_iic_imsic_eix_read(TestId, TRUE) \/ Stopei # TestId
        THEN Verdict(primary, "FAIL") /\ UNCHANGED <<eip, eie, want>>
        ELSE val_iic_imsic_eix_update(TestId, FALSE, FALSE) /\ GoTo("clear")
     /\ UNCHANGED ei
  \/ /\ At("clear") /\ val_iic_imsic_eix_update(TestId, TRUE, FALSE) /\ Verdict(0, "PASS") /\ UNCHANGED ei

\* Other calls of the driver, before the test.
Calls ==
  /\ At("start") /\ fault = "none" /\ UNCHANGED <<i002, ei>>
  /\ \E pend, val \in BOOLEAN :
       \/ \E id \in 1..MaxId : val_iic_imsic_eix_update(id, pend, val)
       \/ \E id \in 1..MaxId, n \in 1..(MaxId - 1) :
            id + n <= MaxId + 1 /\ val_iic_imsic_eix_array_update(id, n, pend, val)

Begin == At("start") /\ eip = {} /\ eie = {} /\ GoTo("enable") /\ UNCHANGED <<eip, eie, want, ei>>

ImsicInit(faults, primaries) ==
  /\ fault \in faults /\ primary \in primaries /\ eip = {} /\ eie = {}
  /\ want = [pend \in BOOLEAN |-> {}]
  /\ ei = [delivery |-> 0, threshold |-> 0]
  /\ i002 = [pc |-> "start", i |-> 1, status |-> [h \in 0..1 |-> "PENDING"]]

ImsicNext == (Calls \/ Begin \/ Payload) /\ Quiet

-----------------------------------------------------------------------------
(* Properties.                                                             *)

\* On a sound interrupt file the calls of the driver leave exactly the bits
\* asked for, one at a time or in ranges across registers; interrupts in the
\* upper part of a register are out of the driver's reach and never change.
EixIsExact ==
  fault = "none" => eip = want[TRUE] /\ eie = want[FALSE]

\* The test passes if and only if the interrupt file is sound. A pass is
\* claimed for the hart with index 0, where the test always reports it.
I002IsRight ==
  At("done") => /\ (fault # "none") => i002.status[primary] = "FAIL"
                /\ (fault = "none" /\ primary = 0) => i002.status[primary] = "PASS"

\* Both of the above: the driver is exact on a sound interrupt file and the
\* test tells a sound file from an unsound one.
ImsicIsRight == EixIsExact /\ I002IsRight
=============================================================================
