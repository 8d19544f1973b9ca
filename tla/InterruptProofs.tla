-------------------------- MODULE InterruptProofs ---------------------------
(***************************************************************************)
(* The enable and pending bits of an interrupt file are what the tests set,*)
(* for every register width and number of ids, and the test of them fails  *)
(* exactly the files that do not keep them; an interrupt whose handler was *)
(* installed is served, on every controller built as its architecture says.*)
(***************************************************************************)
EXTENDS Imsic, Gic, TLAPS

USE SMTT(15), ZenonT(60)

-----------------------------------------------------------------------------
(* The interrupt file.                                                     *)

\* Division with remainder.
LEMMA Remainder ==
  ASSUME NEW x \in Nat, NEW M \in Nat \ {0}
  PROVE  x % M \in 0..(M - 1) /\ x \div M \in Nat /\ x = M * (x \div M) + (x % M)
<1> DEFINE q == x \div M
           r == x % M
<1>1. q \in Int /\ r \in 0..(M - 1)
  OBVIOUS
<1>2. x = M * q + r
  BY SMT
<1> HIDE DEF q, r
<1>3. q <= -1 => M * q <= M * (-1)
  BY <1>1
<1>4. M * (-1) = -M
  OBVIOUS
<1>5. q \in Nat
  BY <1>1, <1>2, <1>3, <1>4
<1> QED  BY <1>1, <1>2, <1>5 DEF q, r

\* Quotient and remainder are the only ones.
LEMMA OnlyQuotient ==
  ASSUME NEW M \in Nat \ {0}, NEW q \in Nat, NEW r \in 0..(M - 1), NEW p \in Nat, NEW s \in 0..(M - 1),
         M * q + r = M * p + s
  PROVE  q = p /\ r = s
<1>1. p >= q + 1 => M * p >= M * (q + 1)
  OBVIOUS
<1>2. q >= p + 1 => M * q >= M * (p + 1)
  OBVIOUS
<1>3. M * (q + 1) = M * q + M /\ M * (p + 1) = M * p + M
  OBVIOUS
<1>4. M * q \in Nat /\ M * p \in Nat
  OBVIOUS
<1> DEFINE Q == M * q
           P == M * p
<1>5. Q + r = P + s /\ Q \in Nat /\ P \in Nat /\ (p >= q + 1 => P >= Q + M) /\ (q >= p + 1 => Q >= P + M)
  BY <1>1, <1>2, <1>3, <1>4
<1>6. p = q => P = Q
  OBVIOUS
<1> HIDE DEF Q, P
<1>7. p = q
  BY <1>5
<1> QED  BY <1>5, <1>6, <1>7

LEMMA Quotient ==
  ASSUME NEW M \in Nat \ {0}, NEW q \in Nat, NEW r \in 0..(M - 1)
  PROVE  (M * q + r) \div M = q /\ (M * q + r) % M = r
<1> DEFINE x == M * q + r
<1>1. x \in Nat
  OBVIOUS
<1>2. x % M \in 0..(M - 1) /\ x \div M \in Nat /\ x = M * (x \div M) + (x % M)
  BY <1>1, Remainder, ZenonT(60)
<1> DEFINE p == x \div M
           s == x % M
<1>3. p \in Nat /\ s \in 0..(M - 1) /\ M * q + r = M * p + s
  BY <1>2
<1> HIDE DEF p, s
<1>4. q = p /\ r = s
  BY <1>3, OnlyQuotient
<1> QED  BY <1>4 DEF p, s

\* What an id is to the interrupt file: number of its register and bit.
Reg(id) == id \div XLEN
Position(id) == id % XLEN
RegStep == XLEN \div IregBits

LEMMA StepFacts == RegStep \in Nat \ {0} /\ IregBits <= XLEN
<1>1. XLEN % IregBits \in 0..(IregBits - 1) /\ RegStep \in Nat /\ XLEN = IregBits * RegStep + (XLEN % IregBits)
  BY ImsicAssumption, Remainder, ZenonT(60) DEF RegStep
<1>2. RegStep \in Nat /\ XLEN = IregBits * RegStep
  BY <1>1, ImsicAssumption
<1> HIDE DEF RegStep
<1>3. RegStep # 0
  BY <1>2, ImsicAssumption
<1>4. IregBits * RegStep >= IregBits * 1
  BY <1>2, <1>3, ImsicAssumption
<1> QED  BY <1>2, <1>3, <1>4, ImsicAssumption

\* Register and bit tell ids apart, and the number the driver selects is that
\* of the register.
LEMMA IdFacts ==
  ASSUME NEW id \in 1..MaxId
  PROVE  /\ Reg(id) \in Nat /\ Position(id) \in 0..(XLEN - 1)
         /\ Isel(id) % RegStep = 0 /\ Isel(id) \div RegStep = Reg(id)
         /\ \A x \in 1..MaxId : Reg(x) = Reg(id) /\ Position(x) = Position(id) => x = id
<1>1. \A x \in 1..MaxId : Position(x) \in 0..(XLEN - 1) /\ Reg(x) \in Nat /\ x = XLEN * Reg(x) + Position(x)
  <2> SUFFICES ASSUME NEW x \in 1..MaxId
               PROVE  Position(x) \in 0..(XLEN - 1) /\ Reg(x) \in Nat /\ x = XLEN * Reg(x) + Position(x)
    OBVIOUS
  <2>1. x \in Nat /\ XLEN \in Nat \ {0}
    BY ImsicAssumption
  <2> QED  BY <2>1, Remainder, ZenonT(60) DEF Reg, Position
<1>2. Isel(id) = RegStep * Reg(id) + 0
  <2>1. Isel(id) = Reg(id) * RegStep
    BY DEF Isel, Reg, RegStep
  <2>2. Reg(id) \in Nat /\ RegStep \in Nat
    BY <1>1, StepFacts
  <2> QED  BY <2>1, <2>2
<1>3. Isel(id) % RegStep = 0 /\ Isel(id) \div RegStep = Reg(id)
  <2>1. Reg(id) \in Nat /\ RegStep \in Nat \ {0} /\ 0 \in 0..(RegStep - 1)
    BY <1>1, StepFacts
  <2>2. (RegStep * Reg(id) + 0) \div RegStep = Reg(id) /\ (RegStep * Reg(id) + 0) % RegStep = 0
    BY <2>1, Quotient
  <2> QED  BY <1>2, <2>2
<1>4. ASSUME NEW x \in 1..MaxId, Reg(x) = Reg(id), Position(x) = Position(id) PROVE x = id
  <2>1. x = XLEN * Reg(x) + Position(x) /\ id = XLEN * Reg(id) + Position(id)
    BY <1>1
  <2> QED  BY <1>4, <2>1
<1> QED  BY <1>1, <1>3, <1>4

\* The interrupts behind bits of the register of an id.
LEMMA SelectedIds ==
  ASSUME NEW id \in 1..MaxId, NEW bits
  PROVE  Selected(Isel(id), bits) = {x \in 1..MaxId : Reg(x) = Reg(id) /\ Position(x) \in bits}
BY IdFacts DEF Selected, Reg, Position, RegStep

\* Interrupts in the lower part of a register are written, and no others.
LEMMA OneId ==
  ASSUME NEW id \in 1..MaxId
  PROVE  Selected(Isel(id), Ireg({id % XLEN})) = {id} \cap Low
<1>1. Selected(Isel(id), Ireg({id % XLEN})) = {x \in 1..MaxId : Reg(x) = Reg(id) /\ Position(x) \in Ireg({id % XLEN})}
  BY SelectedIds
<1>2. \A x \in 1..MaxId : Position(x) \in Ireg({id % XLEN}) <=> Position(x) = Position(id) /\ Position(id) < IregBits
  BY DEF Ireg, Position
<1>3. \A x \in 1..MaxId : Reg(x) = Reg(id) /\ Position(x) = Position(id) <=> x = id
  BY IdFacts
<1>4. \A x : x \in {id} \cap Low <=> x \in 1..MaxId /\ x = id /\ Position(id) < IregBits
  BY DEF Low, Position
<1> QED  BY <1>1, <1>2, <1>3, <1>4, ZenonT(60)

\* The same for the registers that a range of ids reaches.
LEMMA ManyIds ==
  ASSUME NEW ids \in SUBSET (1..MaxId)
  PROVE  UNION {Selected(isel, Ireg({id % XLEN : id \in {x \in ids : Isel(x) = isel}})) : isel \in {Isel(id) : id \in ids}}
           = ids \cap Low
<1> DEFINE part(isel) == Ireg({id % XLEN : id \in {x \in ids : Isel(x) = isel}})
<1>1. \A y \in ids : Selected(Isel(y), part(Isel(y))) =
                       {x \in 1..MaxId : Reg(x) = Reg(y) /\ Position(x) \in part(Isel(y))}
  BY SelectedIds
<1>2. \A y, x \in ids : Isel(x) = Isel(y) => Reg(x) = Reg(y)
  <2> SUFFICES ASSUME NEW x \in ids, NEW y \in ids, Isel(x) = Isel(y) PROVE Reg(x) = Reg(y)
    OBVIOUS
  <2>1. Isel(x) \div RegStep = Reg(x) /\ Isel(y) \div RegStep = Reg(y)
    BY IdFacts
  <2> QED  BY <2>1
<1>3. \A y \in ids : \A b : b \in part(Isel(y)) <=> \E z \in ids : Isel(z) = Isel(y) /\ b = Position(z) /\ Position(z) < IregBits
  BY DEF Ireg, Position
<1>4. \A x \in 1..MaxId, y \in ids : Reg(x) = Reg(y) /\ Position(x) = Position(y) => x = y
  BY IdFacts
<1>5. \A x : x \in ids \cap Low <=> x \in ids /\ Position(x) < IregBits
  BY ZenonT(60) DEF Low, Position
<1> DEFINE U == UNION {Selected(isel, part(isel)) : isel \in {Isel(id) : id \in ids}}
<1>6. \A x : x \in U <=> \E y \in ids : x \in Selected(Isel(y), part(Isel(y)))
  BY ZenonT(60)
<1> HIDE DEF part, U
<1>7. ASSUME NEW x \in U PROVE x \in ids \cap Low
  <2>1. PICK y \in ids : x \in Selected(Isel(y), part(Isel(y)))
    BY <1>6
  <2>2. x \in 1..MaxId /\ Reg(x) = Reg(y) /\ Position(x) \in part(Isel(y))
    BY <1>1, <2>1
  <2>3. PICK z \in ids : Isel(z) = Isel(y) /\ Position(x) = Position(z) /\ Position(z) < IregBits
    BY <1>3, <2>2
  <2>4. x = z
    BY <1>2, <1>4, <2>2, <2>3
  <2> QED  BY <1>5, <2>3, <2>4
<1>8. ASSUME NEW x \in ids \cap Low PROVE x \in U
  <2>1. x \in ids /\ Position(x) < IregBits /\ x \in 1..MaxId
    BY <1>5
  <2>2. Position(x) \in part(Isel(x))
    BY <1>3, <2>1
  <2> QED  BY <1>1, <1>6, <2>1, <2>2
<1> QED  BY <1>7, <1>8, ZenonT(60) DEF U, part

\* The file after a call that sets or clears ids, unless it ignores the call.
After(file, val, ids, broken) ==
  IF ~val THEN file \ (ids \cap Low) ELSE IF broken THEN file ELSE file \cup (ids \cap Low)

Changed(pending, val, ids) ==
  /\ eip' = IF pending THEN After(eip, val, ids, fault = "pending") ELSE eip
  /\ eie' = IF pending THEN eie ELSE After(eie, val, ids, fault = "enable")
  /\ Wanted(pending, val, ids)

LEMMA UpdateEffect ==
  ASSUME NEW id \in 1..MaxId, NEW pending \in BOOLEAN, NEW val \in BOOLEAN, val_iic_imsic_eix_update(id, pending, val)
  PROVE  Changed(pending, val, {id})
BY OneId, ZenonT(60) DEF val_iic_imsic_eix_update, Written, imsic_csr_set, imsic_csr_clear, Changed, After

LEMMA ArrayEffect ==
  ASSUME NEW base_id \in 1..MaxId, NEW num_id \in 1..(MaxId - 1), base_id + num_id <= MaxId + 1,
         NEW pending \in BOOLEAN, NEW val \in BOOLEAN, val_iic_imsic_eix_array_update(base_id, num_id, pending, val)
  PROVE  Changed(pending, val, base_id..(base_id + num_id - 1))
<1> DEFINE ids == base_id..(base_id + num_id - 1)
<1>1. ids \in SUBSET (1..MaxId)
  BY ImsicAssumption
<1> HIDE DEF ids
<1>2. UNION {Selected(isel, Ireg({id % XLEN : id \in {x \in ids : Isel(x) = isel}})) : isel \in {Isel(id) : id \in ids}}
           = ids \cap Low
  BY <1>1, ManyIds, ZenonT(60)
<1> QED  BY <1>2, ZenonT(60) DEF val_iic_imsic_eix_array_update, Changed, After, ids

\* The id of the message is one the driver reaches, and its own bit.
LEMMA TestIdFacts ==
  ASSUME NEW i \in 1..TestId
  PROVE  i \in 1..MaxId /\ i % XLEN = i /\ {i} \cap Low = {i} /\ TestId \in Nat \ {0}
<1>1. i \in 1..MaxId /\ i \in 0..(XLEN - 1) /\ TestId \in Nat \ {0} /\ i < IregBits
  BY ImsicAssumption, StepFacts DEF TestId
<1>2. (XLEN * 0 + i) % XLEN = i
  BY <1>1, ImsicAssumption, Quotient
<1>3. XLEN * 0 + i = i
  BY <1>1, ImsicAssumption
<1>4. i % XLEN = i
  BY <1>2, <1>3
<1> QED  BY <1>1, <1>4 DEF Low

ImsicPcs == {"start", "enable", "enable_read", "pending", "pending_read", "delivery", "threshold", "arm", "send",
             "readback", "clear", "done"}

ImsicType ==
  /\ fault \in Faults /\ primary \in 0..1
  /\ want \in [BOOLEAN -> SUBSET Low]
  /\ i002 \in [pc : ImsicPcs, i : 1..TestId, status : [0..1 -> {"PENDING", "PASS", "FAIL"}]]
  /\ ei \in [delivery : 0..1, threshold : {0}]

\* What is in the file at each place of the test, and which faults have been
\* ruled out there: an id is set alone, and cleared before the next.
FileInv ==
  /\ At("enable") => eip = {} /\ eie = {}
  /\ At("enable_read") => eip = {} /\ eie = IF fault = "enable" THEN {} ELSE {i002.i}
  /\ At("pending") => eip = {} /\ eie = {} /\ fault # "enable"
  /\ At("pending_read") => eip = (IF fault = "pending" THEN {} ELSE {i002.i}) /\ eie = {} /\ fault # "enable"
  /\ i002.pc \in {"delivery", "threshold", "arm"} => eip = {} /\ eie = {} /\ fault \notin {"enable", "pending"}
  /\ At("send") => eip = {} /\ eie = {TestId} /\ fault \notin {"enable", "pending"}
  /\ At("readback") => /\ eip = (IF fault = "message" THEN {} ELSE {TestId}) /\ eie = {TestId}
                       /\ fault \notin {"enable", "pending"}
  /\ At("clear") => eip = {TestId} /\ eie = {} /\ fault = "none"

ImsicInv == ImsicType /\ FileInv /\ ImsicIsRight

\* A call leaves a sound file with what was asked for.
LEMMA ChangeExact ==
  ASSUME ImsicInv, NEW pending \in BOOLEAN, NEW val \in BOOLEAN, NEW ids, Changed(pending, val, ids), fault' = fault
  PROVE  want' \in [BOOLEAN -> SUBSET Low] /\ EixIsExact'
<1>1. want \in [BOOLEAN -> SUBSET Low]
  BY DEF ImsicInv, ImsicType
<1>2. want' = [want EXCEPT ![pending] = IF val THEN @ \cup (ids \cap Low) ELSE @ \ ids]
  BY DEF Changed, Wanted
<1>3. (IF val THEN want[pending] \cup (ids \cap Low) ELSE want[pending] \ ids) \in SUBSET Low
  BY <1>1
<1>4. want' \in [BOOLEAN -> SUBSET Low]
  BY <1>1, <1>2, <1>3
<1>5. ASSUME fault = "none" PROVE eip' = want'[TRUE] /\ eie' = want'[FALSE]
  <2>1. eip = want[TRUE] /\ eie = want[FALSE]
    BY <1>5, ZenonT(60) DEF ImsicInv, ImsicIsRight, EixIsExact
  <2>2. \A b \in BOOLEAN : want[b] \in SUBSET Low
    BY <1>1
  <2>3. CASE pending
    <3>1. want'[TRUE] = (IF val THEN want[TRUE] \cup (ids \cap Low) ELSE want[TRUE] \ ids) /\ want'[FALSE] = want[FALSE]
      BY <1>1, <1>2, <2>3
    <3>2. eip' = (IF val THEN eip \cup (ids \cap Low) ELSE eip \ (ids \cap Low)) /\ eie' = eie
      BY <1>5, <2>3 DEF Changed, After
    <3> QED  BY <2>1, <2>2, <3>1, <3>2, ZenonT(60)
  <2>4. CASE ~pending
    <3>1. want'[FALSE] = (IF val THEN want[FALSE] \cup (ids \cap Low) ELSE want[FALSE] \ ids) /\ want'[TRUE] = want[TRUE]
      BY <1>1, <1>2, <2>4, ZenonT(60)
    <3>2. eie' = (IF val THEN eie \cup (ids \cap Low) ELSE eie \ (ids \cap Low)) /\ eip' = eip
      BY <1>5, <2>4 DEF Changed, After
    <3> QED  BY <2>1, <2>2, <3>1, <3>2, ZenonT(60)
  <2> QED  BY <2>3, <2>4, ZenonT(60)
<1> QED  BY <1>4, <1>5, ZenonT(60) DEF EixIsExact

\* The test ends with FAIL on an unsound file.
LEMMA FailKeeps ==
  ASSUME ImsicInv, Quiet, Verdict(primary, "FAIL"), UNCHANGED <<eip, eie, want, ei>>, fault # "none"
  PROVE  ImsicInv'
<1>1. /\ ImsicType /\ EixIsExact /\ fault' = fault /\ primary' = primary /\ primary \in 0..1
      /\ i002' = [i002 EXCEPT !.pc = "done", !.status[primary] = "FAIL"]
  BY DEF ImsicInv, ImsicType, ImsicIsRight, Quiet, Verdict
<1>2. i002'.pc = "done" /\ i002'.status = [i002.status EXCEPT ![primary] = "FAIL"] /\ i002'.i = i002.i
      /\ i002.status \in [0..1 -> {"PENDING", "PASS", "FAIL"}]
  BY <1>1 DEF ImsicType
<1>3. i002'.status[primary] = "FAIL" /\ i002'.status \in [0..1 -> {"PENDING", "PASS", "FAIL"}]
  BY <1>1, <1>2
<1>4. i002' = [i002 EXCEPT !.pc = "done", !.status = i002'.status]
  BY <1>1, <1>2 DEF ImsicType
<1>5. ImsicType'
  BY <1>1, <1>3, <1>4, ZenonT(60) DEF ImsicType, ImsicPcs
<1>6. FileInv'
  BY <1>2 DEF FileInv, At
<1>7. I002IsRight'
  BY <1>1, <1>3 DEF I002IsRight
<1>8. EixIsExact'
  BY <1>1 DEF EixIsExact
<1> QED  BY <1>5, <1>6, <1>7, <1>8 DEF ImsicInv, ImsicIsRight

\* What a call for one id does in the test.
LEMMA TestSetsId ==
  ASSUME ImsicInv, Quiet, NEW pending \in BOOLEAN, NEW val \in BOOLEAN, NEW id \in 1..TestId,
         val_iic_imsic_eix_update(id, pending, val)
  PROVE  /\ eip' = IF ~pending THEN eip ELSE IF ~val THEN eip \ {id} ELSE IF fault = "pending" THEN eip ELSE eip \cup {id}
         /\ eie' = IF pending THEN eie ELSE IF ~val THEN eie \ {id} ELSE IF fault = "enable" THEN eie ELSE eie \cup {id}
         /\ want' \in [BOOLEAN -> SUBSET Low] /\ EixIsExact'
         /\ fault' = fault /\ primary' = primary
<1>1. id \in 1..MaxId /\ {id} \cap Low = {id}
  BY TestIdFacts
<1>2. Changed(pending, val, {id})
  BY <1>1, UpdateEffect
<1>3. want' \in [BOOLEAN -> SUBSET Low] /\ EixIsExact'
  BY <1>2, ChangeExact DEF Quiet
<1> QED  BY <1>1, <1>2, <1>3, ZenonT(60) DEF Changed, After, Quiet

\* What is read of a file that holds one id or none.
LEMMA ReadFacts ==
  ASSUME NEW id \in 1..TestId, NEW pending \in BOOLEAN
  PROVE  LET file == IF pending THEN eip ELSE eie IN
           /\ file = {} => id % XLEN \notin val_iic_imsic_eix_read(id, pending)
           /\ file = {id} => id % XLEN \in val_iic_imsic_eix_read(id, pending)
BY DEF val_iic_imsic_eix_read

LEMMA LoopKeeps ==
  ASSUME ImsicInv, Quiet,
         \/ LoopStep("enable", "enable_read", FALSE, GoTo("pending"))
         \/ LoopStep("pending", "pending_read", TRUE,
                     i002' = IF i002.i < TestId THEN [i002 EXCEPT !.pc = "enable", !.i = @ + 1]
                             ELSE [i002 EXCEPT !.pc = "delivery"])
  PROVE  ImsicInv'
<1>1. ImsicType /\ FileInv /\ EixIsExact /\ i002.i \in 1..TestId /\ fault' = fault /\ primary' = primary
  BY DEF ImsicInv, ImsicType, ImsicIsRight, Quiet
<1>2. CASE /\ At("enable") /\ val_iic_imsic_eix_update(i002.i, FALSE, TRUE)
           /\ GoTo("enable_read") /\ UNCHANGED ei
  <2>1. /\ eip' = eip /\ eie' = (IF fault = "enable" THEN eie ELSE eie \cup {i002.i})
        /\ want' \in [BOOLEAN -> SUBSET Low] /\ EixIsExact'
    BY <1>1, <1>2, TestSetsId, ZenonT(60)
  <2>2. i002' = [i002 EXCEPT !.pc = "enable_read"] /\ ei' = ei
    BY <1>2 DEF GoTo
  <2>3. ImsicType'
    BY <1>1, <2>1, <2>2 DEF ImsicType, ImsicPcs
  <2>4. i002'.pc = "enable_read" /\ i002'.i = i002.i
    BY <1>1, <2>2 DEF ImsicType
  <2>5. FileInv'
    BY <1>1, <1>2, <2>1, <2>4, ZenonT(60) DEF FileInv, At
  <2> QED  BY <2>1, <2>3, <2>4, <2>5 DEF ImsicInv, ImsicIsRight, I002IsRight, At
<1>3. CASE /\ At("pending") /\ val_iic_imsic_eix_update(i002.i, TRUE, TRUE)
           /\ GoTo("pending_read") /\ UNCHANGED ei
  <2>1. /\ eie' = eie /\ eip' = (IF fault = "pending" THEN eip ELSE eip \cup {i002.i})
        /\ want' \in [BOOLEAN -> SUBSET Low] /\ EixIsExact'
    BY <1>1, <1>3, TestSetsId, ZenonT(60)
  <2>2. i002' = [i002 EXCEPT !.pc = "pending_read"] /\ ei' = ei
    BY <1>3 DEF GoTo
  <2>3. ImsicType'
    BY <1>1, <2>1, <2>2 DEF ImsicType, ImsicPcs
  <2>4. i002'.pc = "pending_read" /\ i002'.i = i002.i
    BY <1>1, <2>2 DEF ImsicType
  <2>5. FileInv'
    BY <1>1, <1>3, <2>1, <2>4, ZenonT(60) DEF FileInv, At
  <2> QED  BY <2>1, <2>3, <2>4, <2>5 DEF ImsicInv, ImsicIsRight, I002IsRight, At
\* The bit is not there: only because the file ignores what is written to it.
<1>4. ASSUME Verdict(primary, "FAIL"), UNCHANGED <<eip, eie, want, ei>>, fault # "none"
      PROVE  ImsicInv'
  BY <1>1, <1>4, FailKeeps
<1>5. CASE /\ At("enable_read") /\ UNCHANGED ei
           /\ IF i002.i % XLEN \notin val_iic_imsic_eix_read(i002.i, FALSE)
              THEN Verdict(primary, "FAIL") /\ UNCHANGED <<eip, eie, want>>
              ELSE val_iic_imsic_eix_update(i002.i, FALSE, FALSE) /\ GoTo("pending")
  <2>1. eip = {} /\ eie = IF fault = "enable" THEN {} ELSE {i002.i}
    BY <1>1, <1>5 DEF FileInv
  <2>2. (i002.i % XLEN \notin val_iic_imsic_eix_read(i002.i, FALSE)) <=> fault = "enable"
    BY <1>1, <2>1, ReadFacts, ZenonT(60)
  <2>3. CASE fault = "enable"
    BY <1>4, <1>5, <2>2, <2>3
  <2>4. CASE fault # "enable"
    <3>1. eip' = eip /\ eie' = eie \ {i002.i} /\ want' \in [BOOLEAN -> SUBSET Low] /\ EixIsExact'
      BY <1>1, <1>5, <2>2, <2>4, TestSetsId, ZenonT(60)
    <3>2. i002' = [i002 EXCEPT !.pc = "pending"] /\ ei' = ei
      BY <1>5, <2>2, <2>4, ZenonT(60) DEF GoTo
    <3>3. ImsicType'
      BY <1>1, <3>1, <3>2 DEF ImsicType, ImsicPcs
    <3>4. i002'.pc = "pending"
      BY <1>1, <3>2 DEF ImsicType
    <3>5. FileInv'
      BY <1>1, <2>1, <2>4, <3>1, <3>4, ZenonT(60) DEF FileInv, At
    <3> QED  BY <3>1, <3>3, <3>4, <3>5 DEF ImsicInv, ImsicIsRight, I002IsRight, At
  <2> QED  BY <2>3, <2>4
<1>6. CASE /\ At("pending_read") /\ UNCHANGED ei
           /\ IF i002.i % XLEN \notin val_iic_imsic_eix_read(i002.i, TRUE)
              THEN Verdict(primary, "FAIL") /\ UNCHANGED <<eip, eie, want>>
              ELSE /\ val_iic_imsic_eix_update(i002.i, TRUE, FALSE)
                   /\ i002' = IF i002.i < TestId THEN [i002 EXCEPT !.pc = "enable", !.i = @ + 1]
                              ELSE [i002 EXCEPT !.pc = "delivery"]
  <2>1. eie = {} /\ eip = (IF fault = "pending" THEN {} ELSE {i002.i}) /\ fault # "enable"
    BY <1>1, <1>6 DEF FileInv
  <2>2. (i002.i % XLEN \notin val_iic_imsic_eix_read(i002.i, TRUE)) <=> fault = "pending"
    BY <1>1, <2>1, ReadFacts, ZenonT(60)
  <2>3. CASE fault = "pending"
    BY <1>4, <1>6, <2>2, <2>3
  <2>4. CASE fault # "pending"
    <3>1. eie' = eie /\ eip' = eip \ {i002.i} /\ want' \in [BOOLEAN -> SUBSET Low] /\ EixIsExact'
      BY <1>1, <1>6, <2>2, <2>4, TestSetsId, ZenonT(60)
    <3>2. /\ i002' = IF i002.i < TestId THEN [i002 EXCEPT !.pc = "enable", !.i = i002.i + 1]
                     ELSE [i002 EXCEPT !.pc = "delivery"]
          /\ ei' = ei
      BY <1>6, <2>2, <2>4, ZenonT(60)
    <3>3. i002.i < TestId => i002.i + 1 \in 1..TestId
      BY <1>1, TestIdFacts
    <3>4. ImsicType'
      <4>1. CASE i002.i < TestId
        BY <1>1, <3>1, <3>2, <3>3, <4>1, ZenonT(60) DEF ImsicType, ImsicPcs
      <4>2. CASE ~(i002.i < TestId)
        BY <1>1, <3>1, <3>2, <4>2, ZenonT(60) DEF ImsicType, ImsicPcs
      <4> QED  BY <4>1, <4>2
    <3>5. i002'.pc \in {"enable", "delivery"}
      BY <1>1, <3>2 DEF ImsicType
    <3>6. FileInv'
      BY <1>1, <2>1, <2>4, <3>1, <3>5, ZenonT(60) DEF FileInv, At
    <3> QED  BY <3>1, <3>4, <3>5, <3>6 DEF ImsicInv, ImsicIsRight, I002IsRight, At
  <2> QED  BY <2>3, <2>4
<1> QED  BY <1>2, <1>3, <1>5, <1>6, ZenonT(60) DEF LoopStep

\* From the end of the loop to the message and its reading back.
LEMMA MessageKeeps ==
  ASSUME ImsicInv, Quiet, Payload,
         i002.pc \in {"delivery", "threshold", "arm", "send", "readback", "clear"}
  PROVE  ImsicInv'
<1>1. ImsicType /\ FileInv /\ EixIsExact /\ i002.i \in 1..TestId /\ fault' = fault /\ primary' = primary
  BY DEF ImsicInv, ImsicType, ImsicIsRight, Quiet
<1>2. TestId \in 1..TestId /\ TestId \in Nat \ {0} /\ {TestId} \cap Low = {TestId}
  <2>1. TestId \in 1..TestId
    BY ImsicAssumption DEF TestId
  <2> QED  BY <2>1, TestIdFacts
\* A step that moves on to pc with these contents keeps the rest.
<1>3. ASSUME NEW pc \in ImsicPcs \ {"done"}, i002' = [i002 EXCEPT !.pc = pc], ei' \in [delivery : 0..1, threshold : {0}],
             want' \in [BOOLEAN -> SUBSET Low], EixIsExact', FileInv'
      PROVE  ImsicInv'
  <2>1. ImsicType'
    BY <1>1, <1>3 DEF ImsicType
  <2>2. i002'.pc = pc
    BY <1>1, <1>3 DEF ImsicType
  <2> QED  BY <1>3, <2>1, <2>2 DEF ImsicInv, ImsicIsRight, I002IsRight, At
<1>4. ASSUME NEW pc, i002' = [i002 EXCEPT !.pc = pc] PROVE i002'.pc = pc
  BY <1>1, <1>4 DEF ImsicType
<1>5. CASE i002.pc = "delivery"
  <2>1. i002' = [i002 EXCEPT !.pc = "threshold"] /\ ei' = [ei EXCEPT !.delivery = 1] /\ UNCHANGED <<eip, eie, want>>
    BY <1>5 DEF Payload, LoopStep, At, GoTo, val_iic_imsic_eidelivery_update
  <2>2. 1 \in 0..1 /\ ei \in [delivery : 0..1, threshold : {0}]
    BY <1>1 DEF ImsicType
  <2>3. ei' \in [delivery : 0..1, threshold : {0}]
    BY <2>1, <2>2
  <2>4. FileInv' /\ EixIsExact' /\ want' \in [BOOLEAN -> SUBSET Low]
    BY <1>1, <1>4, <1>5, <2>1, ZenonT(60) DEF FileInv, At, EixIsExact, ImsicType
  <2> QED  BY <1>3, <2>1, <2>3, <2>4 DEF ImsicPcs
<1>6. CASE i002.pc = "threshold"
  <2>1. i002' = [i002 EXCEPT !.pc = "arm"] /\ ei' = [ei EXCEPT !.threshold = 0] /\ UNCHANGED <<eip, eie, want>>
    BY <1>6 DEF Payload, LoopStep, At, GoTo, val_iic_imsic_eithreshold_update
  <2>2. FileInv' /\ EixIsExact' /\ ei' \in [delivery : 0..1, threshold : {0}] /\ want' \in [BOOLEAN -> SUBSET Low]
    BY <1>1, <1>4, <1>6, <2>1, ZenonT(60) DEF FileInv, At, EixIsExact, ImsicType
  <2> QED  BY <1>3, <2>1, <2>2 DEF ImsicPcs
<1>7. CASE i002.pc = "arm"
  <2>1. val_iic_imsic_eix_update(TestId, FALSE, TRUE) /\ i002' = [i002 EXCEPT !.pc = "send"] /\ ei' = ei
    BY <1>7, ZenonT(60) DEF Payload, LoopStep, At, GoTo
  <2>2. /\ eip' = eip /\ eie' = (IF fault = "enable" THEN eie ELSE eie \cup {TestId})
        /\ want' \in [BOOLEAN -> SUBSET Low] /\ EixIsExact'
    BY <1>2, <2>1, TestSetsId, ZenonT(60)
  <2>3. FileInv' /\ ei' \in [delivery : 0..1, threshold : {0}]
    BY <1>1, <1>4, <1>7, <2>1, <2>2, ZenonT(60) DEF FileInv, At, ImsicType
  <2> QED  BY <1>3, <2>1, <2>2, <2>3 DEF ImsicPcs
<1>8. CASE i002.pc = "send"
  <2>1. /\ i002' = [i002 EXCEPT !.pc = "readback"] /\ eip' = (IF fault = "message" THEN eip ELSE eip \cup {TestId})
        /\ Wanted(TRUE, TRUE, {TestId}) /\ UNCHANGED <<eie, ei>>
    BY <1>8, ZenonT(60) DEF Payload, LoopStep, At, GoTo
  <2>2. want' = [want EXCEPT ![TRUE] = @ \cup {TestId}]
    BY <1>2, <2>1, ZenonT(60) DEF Wanted
  <2>3. want' \in [BOOLEAN -> SUBSET Low] /\ want'[TRUE] = want[TRUE] \cup {TestId} /\ want'[FALSE] = want[FALSE]
    BY <1>1, <1>2, <2>2, ZenonT(60) DEF ImsicType
  <2>4. EixIsExact'
    BY <1>1, <2>1, <2>3, ZenonT(60) DEF EixIsExact
  <2>5. FileInv' /\ ei' \in [delivery : 0..1, threshold : {0}]
    BY <1>1, <1>4, <1>8, <2>1, ZenonT(60) DEF FileInv, At, ImsicType
  <2> QED  BY <1>3, <2>1, <2>3, <2>4, <2>5 DEF ImsicPcs
<1>9. CASE i002.pc = "readback"
  <2>1. /\ eip = (IF fault = "message" THEN {} ELSE {TestId}) /\ eie = {TestId}
        /\ fault \notin {"enable", "pending"}
    BY <1>1, <1>9 DEF FileInv, At
  <2> DEFINE bad == fault = "readback" \/ TestId \notin val_iic_imsic_eix_read(TestId, TRUE) \/ Stopei # TestId
  <2>2. /\ IF bad THEN Verdict(primary, "FAIL") /\ UNCHANGED <<eip, eie, want>>
           ELSE val_iic_imsic_eix_update(TestId, FALSE, FALSE) /\ GoTo("clear")
        /\ ei' = ei
    BY <1>9, ZenonT(60) DEF Payload, LoopStep, At
  <2>3. bad <=> fault # "none"
    <3>1. TestId % XLEN = TestId
      BY <1>2, TestIdFacts
    <3>2. fault = "message" => TestId \notin val_iic_imsic_eix_read(TestId, TRUE)
      BY <1>2, <2>1, <3>1, ReadFacts, ZenonT(60)
    <3>3. fault = "top" => Stopei # TestId
      BY <1>2 DEF Stopei
    <3>4. fault = "none" => TestId \in val_iic_imsic_eix_read(TestId, TRUE)
      BY <1>2, <2>1, <3>1, ReadFacts, ZenonT(60)
    <3>5. fault = "none" => Stopei = TestId
      <4>1. {id \in {TestId} : ei.threshold = 0 \/ id < ei.threshold} = {TestId}
        BY <1>1 DEF ImsicType
      <4>2. Min({TestId}) = TestId
        BY <1>2 DEF Min
      <4> QED  BY <2>1, <4>1, <4>2 DEF Stopei
    <3> QED  BY <1>1, <2>1, <3>2, <3>3, <3>4, <3>5, ZenonT(60) DEF ImsicType, Faults
  <2> HIDE DEF bad
  <2>4. CASE bad
    BY <2>2, <2>3, <2>4, FailKeeps
  <2>5. CASE ~bad
    <3>1. /\ eip' = eip /\ eie' = eie \ {TestId}
          /\ want' \in [BOOLEAN -> SUBSET Low] /\ EixIsExact'
      BY <1>2, <2>2, <2>5, TestSetsId, ZenonT(60)
    <3>2. i002' = [i002 EXCEPT !.pc = "clear"]
      BY <2>2, <2>5 DEF GoTo
    <3>3. FileInv' /\ ei' \in [delivery : 0..1, threshold : {0}]
      BY <1>1, <1>4, <2>1, <2>2, <2>3, <2>5, <3>1, <3>2, ZenonT(60) DEF FileInv, At, ImsicType
    <3> QED  BY <1>3, <3>1, <3>2, <3>3 DEF ImsicPcs
  <2> QED  BY <2>4, <2>5
<1>10. CASE i002.pc = "clear"
  <2>1. val_iic_imsic_eix_update(TestId, TRUE, FALSE) /\ Verdict(0, "PASS") /\ ei' = ei
    BY <1>10, ZenonT(60) DEF Payload, LoopStep, At
  <2>2. want' \in [BOOLEAN -> SUBSET Low] /\ EixIsExact'
    BY <1>2, <2>1, TestSetsId, ZenonT(60)
  <2>3. i002' = [i002 EXCEPT !.pc = "done", !.status[0] = "PASS"]
    BY <2>1 DEF Verdict
  <2>4. /\ i002'.pc = "done" /\ i002'.status = [i002.status EXCEPT ![0] = "PASS"] /\ i002'.i = i002.i
        /\ i002.status \in [0..1 -> {"PENDING", "PASS", "FAIL"}]
    BY <1>1, <2>3 DEF ImsicType
  <2>5. i002'.status[0] = "PASS" /\ i002'.status \in [0..1 -> {"PENDING", "PASS", "FAIL"}]
    BY <2>4
  <2>6. i002' = [i002 EXCEPT !.pc = "done", !.status = i002'.status]
    BY <1>1, <2>3, <2>4 DEF ImsicType
  <2>7. ImsicType'
    BY <1>1, <2>1, <2>2, <2>5, <2>6, ZenonT(60) DEF ImsicType, ImsicPcs
  <2>8. fault = "none"
    BY <1>1, <1>10 DEF FileInv, At
  <2>9. FileInv' /\ I002IsRight'
    BY <1>1, <2>4, <2>5, <2>8, ZenonT(60) DEF FileInv, At, I002IsRight
  <2> QED  BY <2>2, <2>7, <2>9 DEF ImsicInv, ImsicIsRight
<1> QED  BY <1>5, <1>6, <1>7, <1>8, <1>9, <1>10

\* Calls of the driver outside the test.
LEMMA CallsKeep ==
  ASSUME ImsicInv, Quiet, Calls
  PROVE  ImsicInv'
<1>1. i002' = i002 /\ ei' = ei /\ i002.pc = "start" /\ fault' = fault /\ primary' = primary /\ ImsicType
  BY DEF Calls, At, Quiet, ImsicInv
<1>2. \E pending, val \in BOOLEAN : \E ids : Changed(pending, val, ids)
  BY UpdateEffect, ArrayEffect, ZenonT(60) DEF Calls
<1>3. want' \in [BOOLEAN -> SUBSET Low] /\ EixIsExact'
  BY <1>1, <1>2, ChangeExact
<1>4. ImsicType'
  BY <1>1, <1>3 DEF ImsicType
<1> QED  BY <1>1, <1>3, <1>4, ZenonT(60) DEF ImsicInv, FileInv, ImsicIsRight, I002IsRight, At

\* For registers of any width, any number of interrupts and every kind of
\* fault: the calls of aia.c leave exactly the bits asked for in a sound
\* interrupt file, one at a time or in ranges across registers, and
\* test_os_i002 fails on every unsound file and passes on a sound one.
THEOREM ImsicAlwaysRight ==
  ASSUME NEW faults \in SUBSET Faults, NEW primaries \in SUBSET (0..1)
  PROVE  ImsicInit(faults, primaries) /\ [][ImsicNext]_imsicVars => []ImsicIsRight
<1>1. ImsicInit(faults, primaries) => ImsicInv
  <2> SUFFICES ASSUME ImsicInit(faults, primaries) PROVE ImsicInv
    OBVIOUS
  <2>1. 1 \in 1..TestId
    BY ImsicAssumption DEF TestId
  <2>2. ImsicType
    BY <2>1 DEF ImsicInit, ImsicType, ImsicPcs
  <2> QED  BY <2>2 DEF ImsicInit, ImsicInv, FileInv, ImsicIsRight, EixIsExact, I002IsRight, At
<1>2. ImsicInv /\ [ImsicNext]_imsicVars => ImsicInv'
  <2> SUFFICES ASSUME ImsicInv, [ImsicNext]_imsicVars PROVE ImsicInv'
    OBVIOUS
  <2>1. ASSUME Payload, Quiet PROVE ImsicInv'
    <3>1. \/ LoopStep("enable", "enable_read", FALSE, GoTo("pending"))
          \/ LoopStep("pending", "pending_read", TRUE,
                      i002' = IF i002.i < TestId THEN [i002 EXCEPT !.pc = "enable", !.i = @ + 1]
                              ELSE [i002 EXCEPT !.pc = "delivery"])
          \/ i002.pc \in {"delivery", "threshold", "arm", "send", "readback", "clear"}
      BY <2>1, ZenonT(60) DEF Payload, At
    <3> QED  BY <2>1, <3>1, LoopKeeps, MessageKeeps, ZenonT(60)
  <2>2. ASSUME Begin, Quiet PROVE ImsicInv'
    <3>1. /\ i002' = [i002 EXCEPT !.pc = "enable"] /\ eip = {} /\ eie = {} /\ UNCHANGED <<eip, eie, want, ei>>
          /\ fault' = fault /\ primary' = primary /\ ImsicType /\ EixIsExact
      BY <2>2 DEF Begin, GoTo, Quiet, ImsicInv, ImsicIsRight
    <3>2. ImsicType' /\ i002'.pc = "enable"
      BY <3>1 DEF ImsicType, ImsicPcs
    <3> QED  BY <3>1, <3>2, ZenonT(60) DEF ImsicInv, FileInv, ImsicIsRight, EixIsExact, I002IsRight, At
  <2>3. ASSUME UNCHANGED imsicVars PROVE ImsicInv'
    BY <2>3, ZenonT(60) DEF imsicVars, ImsicInv, ImsicType, FileInv, ImsicIsRight, EixIsExact, I002IsRight, At
  <2> QED  BY <2>1, <2>2, <2>3, CallsKeep DEF ImsicNext
<1>3. ImsicInv => ImsicIsRight
  BY DEF ImsicInv
<1> QED  BY <1>1, <1>2, <1>3, PTL

-----------------------------------------------------------------------------
(* Handlers installed in the interrupt controller.                         *)

Registers == [enabled : SUBSET Int, masked : SUBSET Int, here : SUBSET Int, on : BOOLEAN, set : BOOLEAN]

\* What makes an interrupt one of those that are served, apart from its priority.
Reachable(int_id) ==
  /\ HwGicd(int_id) # {} \/ int_id < 32 \/ v3_is_extended_ppi(int_id)
  /\ V3 /\ (int_id < 32 \/ Extended(int_id)) => CurrentCpuRDBase

\* The numbers of a controller.
LEMMA BuiltFacts ==
  ASSUME Built(gp), NEW n \in IntIds
  PROVE  /\ n \in Nat /\ n \in Int /\ n \notin 1020..1023 /\ gp.max \in Int /\ gp.max >= 32 /\ gp.max <= 1024
         /\ gp.version \in Int /\ gp.version <= 4 /\ gp.eppi \in {0, 1, 2} /\ gp.espi \in Int /\ gp.espi >= -1
         /\ val_bsa_gic_max_eppi_val \in {0, 1087, 1119}
<1>2. n \in Nat /\ n \notin 1020..1023
  BY GicAssumption
<1>3. val_bsa_gic_max_eppi_val \in {0, 1087, 1119}
  BY DEF val_bsa_gic_max_eppi_val
<1>1. gp.version \in Int /\ gp.version <= 4
  BY DEF Built
<1>4. gp.max \in Int /\ gp.max >= 32 /\ gp.max <= 1024
  BY DEF Built
<1>5. gp.eppi \in {0, 1, 2}
  BY DEF Built
<1>6. gp.espi \in Int /\ gp.espi >= -1
  BY DEF Built
<1> QED  BY <1>1, <1>2, <1>3, <1>4, <1>5, <1>6

\* The bits written for an interrupt stand for no other.
LEMMA BitsAreOwn ==
  ASSUME Built(gp), NEW n \in IntIds
  PROVE  HwGicd(n) \subseteq {n} /\ Bit(n) \subseteq {n} /\ (Extended(n) => ExtendedBit(n) \subseteq {n})
<1>1. HwGicd(n) \subseteq {n}
  BY DEF HwGicd
<1>2. ASSUME Extended(n) PROVE ExtendedBit(n) \subseteq {n}
  <2>1. CASE v3_is_extended_spi(n)
    BY <2>1, BuiltFacts DEF ExtendedBit, HwGicdE
  <2>2. CASE ~v3_is_extended_spi(n)
    <3>1. n >= 1056
      BY <1>2, <2>2 DEF Extended, v3_is_extended_ppi
    <3>2. HwGicr(n - 1024) \subseteq {n}
      BY <3>1, BuiltFacts DEF HwGicr
    <3> QED  BY <2>2, <3>2 DEF ExtendedBit, Redistributor
  <2> QED  BY <2>1, <2>2
<1>3. ASSUME ~Extended(n), ~IsSpi(n) PROVE Redistributor(n) \subseteq {n}
  <2>1. n < 32 \/ n >= 1024
    BY <1>3, BuiltFacts DEF IsSpi
  <2>2. HwGicr(n) \subseteq {n}
    BY <2>1, BuiltFacts DEF HwGicr
  <2> QED  BY <2>2 DEF Redistributor
<1> QED  BY <1>1, <1>2, <1>3 DEF Bit

\* A reachable interrupt is enabled by the bit that is written for it.
LEMMA BitReaches ==
  ASSUME Built(gp), NEW n \in IntIds, Reachable(n)
  PROVE  /\ V3 => ~v3_is_extended_spi(n) /\ n \in Bit(n)
         /\ ~V3 => n \in HwGicd(n)
<1>1. CASE HwGicd(n) # {}
  <2>1. n < gp.max /\ HwGicd(n) = {n} /\ (n >= 32 \/ ~V3)
    BY <1>1 DEF HwGicd
  <2>2. ASSUME V3 PROVE IsSpi(n) /\ ~v3_is_extended_spi(n) /\ ~v3_is_extended_ppi(n)
    BY <2>1, <2>2, BuiltFacts DEF IsSpi, v3_is_extended_spi, v3_is_extended_ppi
  <2> QED  BY <2>1, <2>2 DEF Bit, Extended
<1>2. CASE HwGicd(n) = {} /\ n < 32
  <2>1. V3
    BY <1>2, BuiltFacts DEF HwGicd
  <2>2. ~IsSpi(n) /\ ~v3_is_extended_spi(n) /\ ~v3_is_extended_ppi(n)
    BY <1>2, BuiltFacts DEF IsSpi, v3_is_extended_spi, v3_is_extended_ppi
  <2>3. HwGicr(n) = {n}
    BY <1>2 DEF HwGicr
  <2> QED  BY <1>2, <2>1, <2>2, <2>3 DEF Bit, Extended, Redistributor, Reachable
<1>3. CASE HwGicd(n) = {} /\ ~(n < 32)
  <2>1. v3_is_extended_ppi(n)
    BY <1>3 DEF Reachable
  <2>2. n >= 1056 /\ n <= val_bsa_gic_max_eppi_val /\ val_bsa_gic_max_eppi_val # 0
    BY <2>1, BuiltFacts DEF v3_is_extended_ppi
  <2>3. ~(gp.version < 3) /\ ((gp.eppi = 1 /\ n <= 1087) \/ (gp.eppi = 2 /\ n <= 1119))
    BY <2>2 DEF val_bsa_gic_max_eppi_val
  <2>4. V3
    BY <2>3, Built(gp) DEF V3, Built
  <2>5. ~v3_is_extended_spi(n) /\ ~IsSpi(n)
    BY <2>2, BuiltFacts DEF v3_is_extended_spi, IsSpi
  <2>6. HwGicr(n - 1024) = {n}
    BY <2>2, <2>3, BuiltFacts DEF HwGicr
  <2>7. CurrentCpuRDBase /\ Extended(n)
    BY <2>1, <2>4 DEF Reachable, Extended
  <2> QED  BY <2>4, <2>5, <2>6, <2>7 DEF Bit, ExtendedBit, Redistributor
<1> QED  BY <1>1, <1>2, <1>3
\* Enabling or disabling the source of an interrupt changes no other.
LEMMA SourceFacts ==
  ASSUME Built(gp), NEW n \in IntIds, NEW r \in Registers
  PROVE  LET off == val_bsa_gic_disableInterruptSource(r, n)
             on == val_bsa_gic_enableInterruptSource(r, n)
         IN /\ off \in Registers /\ on \in Registers
            /\ \A m \in IntIds \ {n} : (m \in r.enabled => m \in off.enabled) /\ (m \in r.enabled => m \in on.enabled)
            /\ off.masked = r.masked /\ off.here = r.here /\ off.on = r.on /\ off.set = r.set
            /\ on.masked = r.masked /\ on.here = r.here /\ on.on = r.on /\ on.set = r.set
            /\ Reachable(n) => n \in on.enabled
<1> DEFINE off == val_bsa_gic_disableInterruptSource(r, n)
           on == val_bsa_gic_enableInterruptSource(r, n)
<1>1. n \in Int
  BY BuiltFacts
<1>2. off = [r EXCEPT !.enabled = r.enabled \ (IF V3 THEN Bit(n) ELSE HwGicd(n))]
  BY DEF val_bsa_gic_disableInterruptSource, v3_DisableInterruptSource, v2_DisableInterruptSource, Disable
<1>3. \/ on = [r EXCEPT !.enabled = r.enabled \cup (IF V3 THEN Bit(n) ELSE HwGicd(n))]
      \/ /\ V3 /\ v3_is_extended_spi(n)
         /\ on = [r EXCEPT !.enabled = r.enabled \ Bit(n)]
  <2>1. CASE ~V3
    BY <2>1 DEF val_bsa_gic_enableInterruptSource, v2_EnableInterruptSource, Enable
  <2>2. CASE V3 /\ ~Extended(n)
    BY <2>2 DEF val_bsa_gic_enableInterruptSource, v3_EnableInterruptSource, Enable
  <2>3. CASE V3 /\ Extended(n)
    <3>1. ~IsSpi(n)
      BY <2>3, BuiltFacts DEF Extended, v3_is_extended_spi, v3_is_extended_ppi, IsSpi
    <3>2. Bit(n) = ExtendedBit(n)
      BY <2>3, <3>1 DEF Bit
    <3> QED  BY <2>3, <3>2 DEF val_bsa_gic_enableInterruptSource, v3_EnableInterruptSource,
                               v3_enable_extended_interrupt_source, Enable, Disable
  <2> QED  BY <2>1, <2>2, <2>3
<1>4. PICK bits : bits = (IF V3 THEN Bit(n) ELSE HwGicd(n)) /\ bits \subseteq {n}
  BY BitsAreOwn
<1>5. off \in Registers /\ \A m \in IntIds \ {n} : m \in r.enabled => m \in off.enabled
  <2>1. r.enabled \ bits \in SUBSET Int
    BY DEF Registers
  <2> QED  BY <1>2, <1>4, <2>1 DEF Registers
<1>6. on \in Registers /\ \A m \in IntIds \ {n} : m \in r.enabled => m \in on.enabled
  <2>1. r.enabled \ bits \in SUBSET Int /\ r.enabled \cup bits \in SUBSET Int
    BY <1>1, <1>4 DEF Registers
  <2> QED  BY <1>3, <1>4, <2>1 DEF Registers
<1>7. ASSUME Reachable(n) PROVE n \in on.enabled
  BY <1>3, <1>7, BitReaches DEF Registers
<1>8. off.masked = r.masked /\ off.here = r.here /\ off.on = r.on /\ off.set = r.set
  BY <1>2 DEF Registers
<1>9. on.masked = r.masked /\ on.here = r.here /\ on.on = r.on /\ on.set = r.set
  BY <1>3 DEF Registers
<1> QED  BY <1>5, <1>6, <1>7, <1>8, <1>9, ZenonT(60)

\* Initialisation routes the interrupts of the distributor here and turns the
\* interface on.
LEMMA InitFacts ==
  ASSUME Built(gp), NEW r \in Registers
  PROVE  LET new == IF V3 THEN v3_Init(r) ELSE v2_Init(r) IN
           /\ new \in Registers /\ new.on
           /\ \A n \in IntIds : n >= 32 /\ n < gp.max => n \in new.here
<1> DEFINE ids == {n \in IntIds : n < val_get_max_intid}
           far == {n \in ids : n >= 32}
<1>1. far \in SUBSET Int
  <2>1. \A n \in IntIds : n \in Int
    BY GicAssumption
  <2> QED  BY <2>1
<1>2. ASSUME NEW s \in Registers, NEW x
      PROVE  Disable(s, x) \in Registers /\ DefaultPriority(s, x) \in Registers
  <2>1. s.enabled \ x \in SUBSET Int /\ s.masked \ x \in SUBSET Int
    BY DEF Registers
  <2> QED  BY <2>1 DEF Registers, Disable, DefaultPriority
<1>3. ASSUME NEW s \in Registers PROVE RouteHere(s, ids) \in Registers /\ far \subseteq RouteHere(s, ids).here
  <2>1. s.here \cup far \in SUBSET Int
    BY <1>1 DEF Registers
  <2>2. RouteHere(s, ids) = [s EXCEPT !.here = s.here \cup far]
    BY DEF RouteHere
  <2> HIDE DEF far
  <2> QED  BY <2>1, <2>2, ZenonT(60) DEF Registers
<1>4. ASSUME NEW s \in Registers
      PROVE [s EXCEPT !.on = TRUE] \in Registers /\ [s EXCEPT !.on = TRUE].on /\ [s EXCEPT !.on = TRUE].here = s.here
  BY ZenonT(60) DEF Registers
<1>5. v3_extended_init(r) \in Registers
  BY <1>2 DEF v3_extended_init
<1>6. PICK s \in Registers : (IF V3 THEN v3_Init(r) ELSE v2_Init(r)) = [RouteHere(s, ids) EXCEPT !.on = TRUE]
  <2>1. CASE V3
    <3> DEFINE extended == IF val_bsa_gic_espi_support \/ val_bsa_gic_eppi_support THEN v3_extended_init(r) ELSE r
               s == DefaultPriority(Disable(extended, Each(Bit, ids)), Each(v3_SetInterruptPriority, ids))
    <3>1. v3_Init(r) = [RouteHere(s, ids) EXCEPT !.on = TRUE]
      BY DEF v3_Init, val_gic_cpuif_init
    <3>2. extended \in Registers
      BY <1>5
    <3> HIDE DEF extended
    <3>3. s \in Registers
      BY <1>2, <3>2
    <3> HIDE DEF s
    <3> QED  BY <2>1, <3>1, <3>3, ZenonT(60)
  <2>2. CASE ~V3
    <3> DEFINE s == DefaultPriority(Disable(r, Each(HwGicd, ids)), Each(HwGicd, ids))
    <3>1. v2_Init(r) = [RouteHere(s, ids) EXCEPT !.on = TRUE]
      BY DEF v2_Init
    <3>2. s \in Registers
      BY <1>2
    <3> HIDE DEF s
    <3> QED  BY <2>2, <3>1, <3>2, ZenonT(60)
  <2> QED  BY <2>1, <2>2, ZenonT(60)
<1>7. \A n \in IntIds : n >= 32 /\ n < gp.max => n \in far
  BY DEF val_get_max_intid
<1> HIDE DEF ids, far
<1> QED  BY <1>3, <1>4, <1>6, <1>7, ZenonT(60)

-----------------------------------------------------------------------------
\* The inductive invariant: UEFI leaves the controller open and routed, the
\* driver does so in its initialisation, before which nothing is installed;
\* what was installed is in the table and stays enabled.
GicInv ==
  /\ Built(gp) /\ regs \in Registers
  /\ g_intr_handler \in [IntIds -> Isrs \cup {None}]
  /\ installed \in [IntIds -> [status : {None, "PASS", "ERR"}, isr : Isrs \cup {None}]]
  /\ gp.build = "acpi" => regs.on /\ regs.masked = {} /\ IntIds \subseteq regs.here
  /\ gp.build # "acpi" /\ regs.set => regs.on /\ \A n \in IntIds : n >= 32 /\ n < gp.max => n \in regs.here
  /\ \A n \in IntIds : installed[n].status = "PASS" =>
       /\ g_intr_handler[n] = installed[n].isr
       /\ gp.build = "acpi" \/ regs.set
       /\ gp.build = "acpi" \/ Reachable(n) => n \in regs.enabled

LEMMA GicStarts ==
  ASSUME NEW platforms, \A p \in platforms : Built(p), GicInit(platforms)
  PROVE  GicInv
<1>1. \A n \in IntIds : n \in Int
  BY GicAssumption
<1>2. PICK masked \in SUBSET {n \in IntIds : n < 32} :
        regs = IF gp.build = "acpi"
               THEN [enabled |-> {}, masked |-> {}, here |-> IntIds, on |-> TRUE, set |-> TRUE]
               ELSE [enabled |-> IntIds, masked |-> masked \cup {n \in IntIds : n >= 32},
                     here |-> {}, on |-> FALSE, set |-> FALSE]
  BY ZenonT(60) DEF GicInit
<1>3. regs \in Registers
  BY <1>1, <1>2 DEF Registers
<1>4. gp.build = "acpi" => regs.on /\ regs.masked = {} /\ IntIds \subseteq regs.here
  BY <1>2
<1>5. gp.build # "acpi" => ~regs.set
  BY <1>2
<1>6. Built(gp)
  BY DEF GicInit
<1>7. installed \in [IntIds -> [status : {None, "PASS", "ERR"}, isr : Isrs \cup {None}]]
  BY DEF GicInit
<1>8. \A n \in IntIds : installed[n].status # "PASS"
  BY DEF GicInit, None
<1>9. g_intr_handler \in [IntIds -> Isrs \cup {None}]
  BY DEF GicInit
<1> QED  BY <1>3, <1>4, <1>5, <1>6, <1>7, <1>8, <1>9, ZenonT(60) DEF GicInv

\* An installation is kept by what leaves the registers it needs alone.
LEMMA GicStays ==
  ASSUME GicInv, UNCHANGED <<gp, regs, g_intr_handler, installed>>
  PROVE  GicInv'
<1>1. Built(gp)' /\ \A n \in IntIds : Reachable(n)' = Reachable(n)
  BY DEF GicInv, Built, Reachable, HwGicd, V3, v3_is_extended_ppi, val_bsa_gic_max_eppi_val, CurrentCpuRDBase,
         Extended, v3_is_extended_spi, val_bsa_gic_max_espi_val
<1> QED  BY <1>1, ZenonT(60) DEF GicInv

LEMMA GicInstalls ==
  ASSUME GicInv, NEW n \in gp.used, NEW isr \in Isrs, val_gic_install_isr(n, isr)
  PROVE  GicInv'
<1>1. gp' = gp /\ n \in IntIds
  BY ZenonT(60) DEF val_gic_install_isr, GicInv, Built
<1>2. Built(gp)' /\ \A m \in IntIds : Reachable(m)' = Reachable(m)
  BY <1>1 DEF GicInv, Built, Reachable, HwGicd, V3, v3_is_extended_ppi, val_bsa_gic_max_eppi_val, CurrentCpuRDBase,
         Extended, v3_is_extended_spi, val_bsa_gic_max_espi_val
<1>3. CASE /\ installed' = [installed EXCEPT ![n] = [status |-> "ERR", isr |-> isr]]
           /\ UNCHANGED g_intr_handler
           /\ regs' \in Registers /\ regs.enabled \subseteq regs'.enabled
           /\ regs'.masked = regs.masked /\ regs'.here = regs.here /\ regs'.on = regs.on /\ regs'.set = regs.set
  BY <1>1, <1>2, <1>3, ZenonT(60) DEF GicInv
<1>4. CASE /\ installed' = [installed EXCEPT ![n] = [status |-> "PASS", isr |-> isr]]
           /\ g_intr_handler' = [g_intr_handler EXCEPT ![n] = isr]
           /\ gp.build = "acpi" \/ regs.set
           /\ regs' \in Registers /\ \A m \in IntIds \ {n} : m \in regs.enabled => m \in regs'.enabled
           /\ gp.build = "acpi" \/ Reachable(n) => n \in regs'.enabled
           /\ regs'.masked = regs.masked /\ regs'.here = regs.here /\ regs'.on = regs.on /\ regs'.set = regs.set
  BY <1>1, <1>2, <1>4, ZenonT(60) DEF GicInv
<1>5. CASE installed' = [installed EXCEPT ![n] = [status |-> "ERR", isr |-> isr]] /\ UNCHANGED <<regs, g_intr_handler>>
  BY <1>3, <1>5, ZenonT(60) DEF GicInv
<1>6. CASE gp.build = "acpi" /\ pal_gic_install_isr(n, isr)
  <2>1. n \in Int /\ HwGicd(n) \subseteq {n}
    BY <1>1, BuiltFacts, BitsAreOwn DEF GicInv
  <2>2. ASSUME NEW r \in Registers, NEW x \in SUBSET {n}
        PROVE  /\ Enable(r, x) \in Registers /\ Enable(r, x).enabled = r.enabled \cup x
               /\ Enable(r, x).masked = r.masked /\ Enable(r, x).here = r.here
               /\ Enable(r, x).on = r.on /\ Enable(r, x).set = r.set
    <3>1. r.enabled \cup x \in SUBSET Int
      BY <2>1, ZenonT(60) DEF Registers
    <3> QED  BY <3>1 DEF Registers, Enable
  <2>3. PICK x \in SUBSET {n}, y \in SUBSET {n} :
          \/ /\ g_intr_handler' = [g_intr_handler EXCEPT ![n] = isr]
             /\ regs' = Enable(Enable(regs, {n}), x) \/ regs' = Enable(regs, {n})
             /\ installed' = [installed EXCEPT ![n] = [status |-> "PASS", isr |-> isr]]
          \/ /\ regs' = Enable(regs, y) \/ regs' = regs
             /\ installed' = [installed EXCEPT ![n] = [status |-> "ERR", isr |-> isr]]
             /\ UNCHANGED g_intr_handler
    BY <1>6, <2>1 DEF pal_gic_install_isr
  <2>4. Enable(regs, {n}) \in Registers /\ Enable(regs, y) \in Registers
    BY <2>2, ZenonT(60) DEF GicInv
  <2>5. regs \in Registers
    BY ZenonT(60) DEF GicInv
  <2>6. /\ regs' \in Registers /\ regs.enabled \subseteq regs'.enabled
        /\ regs'.masked = regs.masked /\ regs'.here = regs.here /\ regs'.on = regs.on /\ regs'.set = regs.set
    BY <2>2, <2>3, <2>4, <2>5
  <2>7. CASE regs' = Enable(Enable(regs, {n}), x) \/ regs' = Enable(regs, {n})
    <3>1. n \in regs'.enabled
      BY <2>2, <2>4, <2>5, <2>7
    <3> QED  BY <1>3, <1>4, <1>6, <2>3, <2>6, <3>1, ZenonT(60)
  <2>8. CASE regs' = Enable(regs, y) \/ regs' = regs
    BY <1>3, <1>4, <1>6, <2>3, <2>6, <2>7, <2>8, ZenonT(60)
  <2> QED  BY <2>3, <2>7, <2>8, ZenonT(60)
<1>7. CASE gp.build # "acpi" /\ val_gic_bsa_install_isr(n, isr)
  <2> DEFINE off == val_bsa_gic_disableInterruptSource(regs, n)
             on == val_bsa_gic_enableInterruptSource(off, n)
  <2>1. /\ off \in Registers /\ \A m \in IntIds \ {n} : m \in regs.enabled => m \in off.enabled
        /\ off.masked = regs.masked /\ off.here = regs.here /\ off.on = regs.on /\ off.set = regs.set
    BY <1>1, SourceFacts, ZenonT(60) DEF GicInv
  <2> HIDE DEF off
  <2>2. /\ on \in Registers /\ \A m \in IntIds \ {n} : m \in off.enabled => m \in on.enabled
        /\ on.masked = off.masked /\ on.here = off.here /\ on.on = off.on /\ on.set = off.set
        /\ Reachable(n) => n \in on.enabled
    BY <1>1, <2>1, SourceFacts DEF GicInv
  <2>3. regs' = on /\ g_intr_handler' = [g_intr_handler EXCEPT ![n] = isr]
        /\ installed' = [installed EXCEPT ![n] = [status |-> "PASS", isr |-> isr]]
    BY <1>7 DEF val_gic_bsa_install_isr, off
  <2>4. gp.build = "acpi" \/ regs.set
    BY DEF val_gic_install_isr
  <2> HIDE DEF on
  <2> QED  BY <1>4, <1>7, <2>1, <2>2, <2>3, <2>4, ZenonT(60)
<1> QED  BY <1>5, <1>6, <1>7, ZenonT(60) DEF val_gic_install_isr

LEMMA GicStepKeeps ==
  ASSUME GicInv, GicNext \/ UNCHANGED gicVars
  PROVE  GicInv'
<1>1. CASE val_bsa_gic_init
  <2>1. gp.build # "acpi" /\ UNCHANGED <<gp, g_intr_handler, installed>> /\ ~regs.set
    BY <1>1 DEF val_bsa_gic_init
  <2> DEFINE new == IF V3 THEN v3_Init(regs) ELSE v2_Init(regs)
  <2>2. new \in Registers /\ new.on /\ \A n \in IntIds : n >= 32 /\ n < gp.max => n \in new.here
    BY InitFacts, ZenonT(60) DEF GicInv
  <2>3. regs' = [new EXCEPT !.set = TRUE]
    BY <1>1 DEF val_bsa_gic_init
  <2> HIDE DEF new
  <2>4. regs' \in Registers /\ regs'.on /\ \A n \in IntIds : n >= 32 /\ n < gp.max => n \in regs'.here
    BY <2>2, <2>3, ZenonT(60) DEF Registers
  <2>5. \A n \in IntIds : installed[n].status # "PASS"
    BY <2>1 DEF GicInv
  <2>6. Built(gp)'
    BY <2>1, ZenonT(60) DEF GicInv, Built
  <2> QED  BY <2>1, <2>4, <2>5, <2>6, ZenonT(60) DEF GicInv
<1>2. CASE \E n \in gp.used, isr \in Isrs : val_gic_install_isr(n, isr)
  BY <1>2, GicInstalls
<1>3. CASE \E n \in gp.used, cpu \in 0..1 : Raise(n, cpu)
  BY <1>3, GicStays DEF Raise
<1>4. CASE HartTakes
  BY <1>4, GicStays, ZenonT(60) DEF HartTakes, common_exception_handler, AcknowledgeInterrupt, default_irq_handler, EndofInterrupt
<1>5. CASE \E n \in gp.used : val_gic_clear_interrupt(n)
  BY <1>5, GicStays DEF val_gic_clear_interrupt
<1>6. ASSUME NEW n \in gp.used, val_gic_route_interrupt_to_pe(n, TRUE) PROVE GicInv'
  <2>1. CASE regs' = regs
    BY <1>6, <2>1, GicStays DEF val_gic_route_interrupt_to_pe
  <2>2. CASE regs' = [regs EXCEPT !.here = @ \cup {n}]
    <3>1. n \in IntIds
      BY DEF GicInv, Built
    <3>2. regs.here \cup {n} \in SUBSET Int
      BY <3>1, BuiltFacts DEF GicInv, Registers
    <3>3. /\ regs' \in Registers /\ regs'.enabled = regs.enabled /\ regs'.masked = regs.masked
          /\ regs.here \subseteq regs'.here /\ regs'.on = regs.on /\ regs'.set = regs.set
      BY <2>2, <3>2 DEF GicInv, Registers
    <3>4. UNCHANGED <<gp, g_intr_handler, installed>>
      BY <1>6 DEF val_gic_route_interrupt_to_pe
    <3>5. Built(gp)' /\ \A m \in IntIds : Reachable(m)' = Reachable(m)
      BY <3>4 DEF GicInv, Built, Reachable, HwGicd, V3, v3_is_extended_ppi, val_bsa_gic_max_eppi_val,
             CurrentCpuRDBase, Extended, v3_is_extended_spi, val_bsa_gic_max_espi_val
    <3> QED  BY <3>3, <3>4, <3>5, ZenonT(60) DEF GicInv
  <2> QED  BY <1>6, <2>1, <2>2 DEF val_gic_route_interrupt_to_pe
<1>7. CASE UNCHANGED gicVars
  BY <1>7, GicStays DEF gicVars
<1> QED  BY <1>1, <1>2, <1>3, <1>4, <1>5, <1>6, <1>7, ZenonT(60) DEF GicNext

\* On every controller, whatever handlers are installed, replaced and cleared
\* and whatever interrupts are raised meanwhile, an interrupt whose
\* installation val_gic_install_isr reported as done reaches the hart and runs
\* the handler installed last.
THEOREM InstalledAlwaysServed ==
  ASSUME NEW platforms, \A p \in platforms : Built(p)
  PROVE  GicInit(platforms) /\ [][GicNext]_gicVars => []InstalledIsServed
<1>1. GicInit(platforms) => GicInv
  BY GicStarts
<1>2. GicInv /\ [GicNext]_gicVars => GicInv'
  BY GicStepKeeps
<1>3. ASSUME GicInv PROVE InstalledIsServed
  <2>1. SUFFICES ASSUME NEW n \in IntIds, installed[n].status = "PASS", gp.build = "acpi" \/ Served(n)
                 PROVE  Deliverable(n) /\ g_intr_handler[n] = installed[n].isr
    BY DEF InstalledIsServed
  <2>4. /\ g_intr_handler[n] = installed[n].isr /\ (gp.build = "acpi" \/ regs.set)
        /\ gp.build = "acpi" \/ Reachable(n) => n \in regs.enabled
    BY <1>3, <2>1, ZenonT(60) DEF GicInv
  <2>5. /\ gp.build = "acpi" => regs.on /\ regs.masked = {} /\ n \in regs.here
        /\ gp.build # "acpi" /\ regs.set => regs.on /\ (n >= 32 /\ n < gp.max => n \in regs.here)
    BY <1>3, <2>1, ZenonT(60) DEF GicInv
  <2>2. CASE gp.build = "acpi"
    BY <2>2, <2>4, <2>5 DEF Deliverable
  <2>3. CASE gp.build # "acpi"
    <3>1. Reachable(n) /\ n \notin regs.masked
      BY <2>1, <2>3 DEF Served, Reachable
    <3>2. n \in regs.enabled /\ regs.on /\ g_intr_handler[n] = installed[n].isr
      BY <2>3, <2>4, <2>5, <3>1, ZenonT(60)
    <3>3. n < 32 \/ n \in 1056..1119 \/ n \in regs.here
      <4>1. CASE HwGicd(n) # {} /\ ~(n < 32)
        <5>1. n < gp.max /\ n >= 32
          BY <4>1, <1>3, BuiltFacts DEF HwGicd, GicInv
        <5> QED  BY <2>3, <2>4, <2>5, <5>1
      <4>2. CASE v3_is_extended_ppi(n)
        BY <4>2, <1>3, BuiltFacts DEF v3_is_extended_ppi, GicInv
      <4> QED  BY <3>1, <4>1, <4>2 DEF Reachable
    <3> QED  BY <3>1, <3>2, <3>3, ZenonT(60) DEF Deliverable
  <2> QED  BY <2>2, <2>3
<1> QED  BY <1>1, <1>2, <1>3, PTL
=============================================================================
