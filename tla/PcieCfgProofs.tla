---------------------------- MODULE PcieCfgProofs ----------------------------
(***************************************************************************)
(* Proofs about PcieCfg: for registers and bit-field tables of any size, a *)
(* status bit is seen only when it was raised, the verdict on a field is   *)
(* right, and a check that passes leaves the register as it was.           *)
(***************************************************************************)
EXTENDS PcieCfg, TLAPS

USE SMTT(15), ZenonT(60)

Results(bits) == [status : {-1, 0, 1, 2}, hit : BOOLEAN, reg : SUBSET bits]

CfgTypeInv(bits, cids) ==
  /\ field \in [kind : [bits -> BitKinds], reg : SUBSET bits]
  /\ entries \in Seq(FieldEntries(bits, cids))
  /\ bf \in [pc : {"idle", "entry", "write", "readback", "done"}, i : Nat \ {0},
             seen : SUBSET bits, wrote : SUBSET bits, temp : SUBSET bits, pass : Nat, fails : Nat,
             first : SUBSET bits, hit : BOOLEAN, verdict : Seq(Results(bits))]
  /\ Len(bf.verdict) = bf.i - 1
  /\ bf.verdict # <<>> => bf.pc # "idle"
  /\ bf.i <= Len(entries) + 1
  /\ bf.pc \in {"write", "readback"} => bf.i <= Len(entries)

Lasting(kind, reg) == {b \in reg : kind[b] # "w1c"}

\* Between the first reading of a register and the comparison that judges it:
\* the value seen is the configured one, status bits come from the hardware,
\* and the other bits are those seen or those written.
ProgressInv ==
  bf.pc \in {"write", "readback"} =>
    /\ bf.first = bf.seen /\ bf.seen \cap Current.mask = Current.cfg
    /\ \A b \in DOMAIN field.kind :
         (field.kind[b] = "w1c" /\ b \in bf.seen \cup field.reg) => bf.hit /\ b \in Interfering
    /\ bf.pc = "write" => Lasting(field.kind, field.reg) = Lasting(field.kind, bf.seen)
    /\ bf.pc = "readback" =>
         /\ bf.wrote = Overwrite /\ bf.temp = bf.seen
         /\ \A b \in DOMAIN field.kind :
              /\ field.kind[b] = "ro" => (b \in field.reg <=> b \in bf.seen)
              /\ field.kind[b] = "rw" => (b \in field.reg <=> b \in bf.wrote)

\* No entry so far failed, was told to warn only, or met a status bit.
Clean ==
  bf.fails = 0 /\ \A j \in DOMAIN bf.verdict : ~bf.verdict[j].hit /\ ~entries[j].warn1 /\ ~entries[j].warn2

\* The register as it is, or as it was before the field was written.
Base == IF bf.pc \in {"write", "readback"} THEN bf.seen ELSE field.reg

RestoreInv ==
  Clean => \A j \in DOMAIN bf.verdict :
             bf.verdict[j].status = 0 => Lasting(field.kind, bf.verdict[j].reg) = Lasting(field.kind, Base)

FieldInv(bits, cids) == CfgTypeInv(bits, cids) /\ ProgressInv /\ VerdictIsRight /\ RestoreInv

\* What a write leaves of each bit.
LEMMA WrittenBits ==
  ASSUME NEW bits, NEW kind \in [bits -> BitKinds], NEW old, NEW v
  PROVE  /\ Written(kind, old, v) \subseteq bits
         /\ \A b \in bits :
              /\ kind[b] = "ro" => (b \in Written(kind, old, v) <=> b \in old)
              /\ kind[b] = "rw" => (b \in Written(kind, old, v) <=> b \in v)
              /\ kind[b] = "w1c" => (b \in Written(kind, old, v) <=> b \in old /\ b \notin v)
<1>1. Written(kind, old, v) \subseteq bits
  BY ZenonT(60) DEF Written
<1>2. ASSUME NEW b \in bits
      PROVE  /\ kind[b] = "ro" => (b \in Written(kind, old, v) <=> b \in old)
             /\ kind[b] = "rw" => (b \in Written(kind, old, v) <=> b \in v)
             /\ kind[b] = "w1c" => (b \in Written(kind, old, v) <=> b \in old /\ b \notin v)
  BY ZenonT(60) DEF Written
<1> QED  BY <1>1, <1>2

\* Status bits outside the fields.
LEMMA InterferingBits ==
  ASSUME NEW bits, NEW cids, CfgTypeInv(bits, cids)
  PROVE  /\ Interfering \subseteq bits
         /\ \A b \in Interfering : field.kind[b] = "w1c"
         /\ bf.i <= Len(entries) => Current \in FieldEntries(bits, cids) /\ Interfering \cap Current.mask = {}
<1>1. Interfering \subseteq bits /\ \A b \in Interfering : field.kind[b] = "w1c"
  BY DEF Interfering, CfgTypeInv
<1>2. ASSUME bf.i <= Len(entries) PROVE bf.i \in DOMAIN entries /\ Current \in FieldEntries(bits, cids)
  BY <1>2 DEF CfgTypeInv, Current
<1>3. ASSUME bf.i <= Len(entries) PROVE Interfering \cap Current.mask = {}
  BY <1>2, <1>3 DEF Interfering, Current
<1> QED  BY <1>1, <1>2, <1>3

\* A result is right for an entry.
RightFor(v, e) ==
  v.status \in {0, 1} =>
    /\ v.status = 0 /\ ~e.warn1 /\ ~e.warn2 => Conforms(e, v.reg)
    /\ v.status = 1 /\ ~v.hit => ~Conforms(e, v.reg)

\* An entry is judged: the results stay right, and if none disturbed the
\* register it is the same for all of them.
LEMMA Judged ==
  ASSUME NEW bits, NEW cids, FieldInv(bits, cids), bf.i <= Len(entries),
         entries' = entries, field'.kind = field.kind,
         NEW v \in Results(bits), bf'.verdict = Append(bf.verdict, v), RightFor(v, Current),
         bf'.fails = 0 => bf.fails = 0,
         Clean' => Lasting(field.kind, Base') = Lasting(field.kind, Base),
         (Clean' /\ v.status = 0) => Lasting(field.kind, v.reg) = Lasting(field.kind, Base)
  PROVE  VerdictIsRight' /\ RestoreInv' /\ Len(bf'.verdict) = bf.i
<1> DEFINE n == Len(bf.verdict)
<1>1. /\ bf.verdict \in Seq(Results(bits)) /\ n \in Nat /\ n = bf.i - 1 /\ bf.i \in Nat
      /\ DOMAIN bf.verdict = 1..n
  BY DEF FieldInv, CfgTypeInv
<1>2. /\ DOMAIN bf'.verdict = 1..(n + 1) /\ bf'.verdict[n + 1] = v /\ n + 1 = bf.i
      /\ \A j \in 1..n : bf'.verdict[j] = bf.verdict[j]
      /\ Len(bf'.verdict) = n + 1
  BY <1>1
<1> HIDE DEF n
<1>3. \A j \in DOMAIN bf'.verdict : j \in 1..n \/ j = bf.i
  BY <1>1, <1>2
<1>4. VerdictIsRight'
  <2>1. ASSUME NEW j \in DOMAIN bf'.verdict PROVE RightFor(bf'.verdict[j], entries[j])
    <3>1. CASE j \in 1..n
      BY <1>1, <1>2, <3>1, ZenonT(60) DEF FieldInv, VerdictIsRight, RightFor
    <3>2. CASE j = bf.i
      BY <1>2, <3>2 DEF Current
    <3> QED  BY <1>3, <3>1, <3>2
  <2>2. ASSUME NEW e, NEW reg PROVE Conforms(e, reg)' <=> Conforms(e, reg)
    BY DEF Conforms
  <2> QED  BY <2>1, <2>2, ZenonT(60) DEF VerdictIsRight, RightFor
<1>5. RestoreInv'
  <2> SUFFICES ASSUME Clean', NEW j \in DOMAIN bf'.verdict, bf'.verdict[j].status = 0
               PROVE  Lasting(field.kind, bf'.verdict[j].reg) = Lasting(field.kind, Base)
    BY DEF RestoreInv
  <2>1. CASE j \in 1..n
    <3>1. Clean
      BY <1>1, <1>2 DEF Clean
    <3> QED  BY <1>1, <1>2, <2>1, <3>1, ZenonT(60) DEF FieldInv, RestoreInv
  <2>2. CASE j = bf.i
    BY <1>2, <2>2, ZenonT(60)
  <2> QED  BY <1>3, <2>1, <2>2, ZenonT(60)
<1> QED  BY <1>1, <1>2, <1>4, <1>5

\* A step that judges nothing and keeps the lasting bits.
LEMMA NotJudged ==
  ASSUME NEW bits, NEW cids, FieldInv(bits, cids),
         entries' = entries, field'.kind = field.kind, bf'.verdict = bf.verdict, bf'.fails = bf.fails,
         Lasting(field.kind, Base') = Lasting(field.kind, Base)
  PROVE  VerdictIsRight' /\ RestoreInv'
<1>1. VerdictIsRight'
  <2>1. ASSUME NEW e, NEW reg PROVE Conforms(e, reg)' <=> Conforms(e, reg)
    BY DEF Conforms
  <2> QED  BY <2>1, ZenonT(60) DEF FieldInv, VerdictIsRight
<1>2. Clean' => Clean
  BY DEF Clean
<1> QED  BY <1>1, <1>2 DEF FieldInv, RestoreInv

Writable == Current.attr \in {"READ_WRITE", "STICKY_RW"}

\* The comparison of BitfieldReadback.
Same ==
  CASE Writable -> bf.wrote = field.reg
    [] Current.attr = "RSVDP_RO" -> field.reg \cap Current.mask = {}
    [] OTHER -> field.reg = bf.seen

\* The comparison of the whole register tells a field that behaves as its
\* attribute says from one that does not, and when it finds nothing wrong the
\* bits that last are those seen, after a writable field is put back.
LEMMA ReadbackRight ==
  ASSUME NEW bits, NEW cids, FieldInv(bits, cids), bf.pc = "readback"
  PROVE  /\ Same => Conforms(Current, bf.first)
         /\ ~Same /\ ~bf.hit => ~Conforms(Current, bf.first)
         /\ Writable => Lasting(field.kind, WriteField(bf.temp)) = Lasting(field.kind, bf.seen)
         /\ Same /\ ~Writable => Lasting(field.kind, field.reg) = Lasting(field.kind, bf.seen)
<1> DEFINE e == Current
           k == field.kind
           reg == field.reg
           seen == bf.seen
<1>1. /\ k \in [bits -> BitKinds] /\ reg \subseteq bits /\ seen \subseteq bits /\ bf.temp = seen
      /\ e.mask \subseteq bits /\ e.attr \in Attributes /\ Interfering \cap e.mask = {}
      /\ bf.first = seen /\ seen \cap e.mask = e.cfg /\ bf.wrote = Overwrite /\ bf.hit \in BOOLEAN
  <2>1. bf.i <= Len(entries) /\ CfgTypeInv(bits, cids) /\ ProgressInv
    BY DEF FieldInv, CfgTypeInv
  <2>2. Current \in FieldEntries(bits, cids) /\ Interfering \cap Current.mask = {}
    BY <2>1, InterferingBits
  <2> QED  BY <2>1, <2>2, ZenonT(60) DEF CfgTypeInv, ProgressInv, FieldEntries
<1>2. \A b \in bits : k[b] = "w1c" => (b \in seen \cup reg => bf.hit /\ b \in Interfering)
  BY <1>1 DEF FieldInv, ProgressInv
<1>3. \A b \in bits : /\ k[b] = "ro" => (b \in reg <=> b \in seen)
                      /\ k[b] = "rw" => (b \in reg <=> b \in bf.wrote)
  BY <1>1 DEF FieldInv, ProgressInv
<1>4. \A b \in bits : k[b] \in {"ro", "rw", "w1c"}
  BY <1>1 DEF BitKinds
<1>5. \A b \in e.mask : k[b] = "w1c" => b \notin seen /\ b \notin reg
  BY <1>1, <1>2
<1>6. CASE Writable
  <2>1. bf.wrote = (seen \ e.mask) \cup (e.mask \ seen)
    BY <1>1, <1>6 DEF Writable, Overwrite, Toggled
  <2>2. Same <=> bf.wrote = reg
    BY <1>6 DEF Same, Writable
  <2>3. Conforms(e, bf.first) <=> \A b \in e.mask : k[b] = "rw"
    BY <1>1, <1>6, ZenonT(60) DEF Conforms, Writable
  <2>4. ASSUME bf.wrote = reg, NEW b \in e.mask PROVE k[b] = "rw"
    BY <1>1, <1>3, <1>4, <1>5, <2>1, <2>4
  <2>5. ASSUME ~bf.hit, \A b \in e.mask : k[b] = "rw" PROVE bf.wrote = reg
    <3>1. \A b \in bits : b \in bf.wrote <=> b \in reg
      BY <1>1, <1>2, <1>3, <1>4, <2>1, <2>5
    <3>2. bf.wrote \subseteq bits
      BY <1>1, <2>1
    <3> QED  BY <1>1, <3>1, <3>2
  <2>6. Lasting(k, WriteField(bf.temp)) = Lasting(k, seen)
    <3>1. /\ WriteField(bf.temp) \subseteq bits
          /\ \A b \in bits : k[b] # "w1c" => (b \in WriteField(bf.temp) <=> b \in seen)
      BY <1>1, <1>3, <1>4, WrittenBits DEF WriteField
    <3> QED  BY <1>1, <3>1 DEF Lasting
  <2> QED  BY <1>6, <2>2, <2>3, <2>4, <2>5, <2>6
<1>7. CASE e.attr \in {"HW_INIT", "READ_ONLY", "STICKY_RO"}
  <2>1. bf.wrote = (seen \ e.mask) \cup (e.mask \ seen) /\ ~Writable
    BY <1>1, <1>7 DEF Writable, Overwrite, Toggled
  <2>2. Same <=> reg = seen
    BY <1>7 DEF Same, Writable
  <2>3. Conforms(e, bf.first) <=> \A b \in e.mask : k[b] = "ro" \/ (k[b] = "w1c" /\ b \notin seen)
    BY <1>1, <1>7, ZenonT(60) DEF Conforms
  <2>4. ASSUME reg = seen, NEW b \in e.mask PROVE k[b] = "ro" \/ (k[b] = "w1c" /\ b \notin seen)
    BY <1>1, <1>3, <1>4, <1>5, <2>1, <2>4
  <2>5. ASSUME ~bf.hit, \A b \in e.mask : k[b] = "ro" \/ (k[b] = "w1c" /\ b \notin seen) PROVE reg = seen
    <3>1. \A b \in bits : b \in reg <=> b \in seen
      BY <1>1, <1>2, <1>3, <1>4, <2>1, <2>5, ZenonT(60)
    <3> QED  BY <1>1, <3>1, ZenonT(60)
  <2> QED  BY <2>1, <2>2, <2>3, <2>4, <2>5
<1>8. CASE e.attr = "RSVDP_RO"
  <2>1. bf.wrote = seen /\ ~Writable
    BY <1>1, <1>8 DEF Writable, Overwrite
  <2>2. Same <=> reg \cap e.mask = {}
    BY <1>8 DEF Same, Writable
  <2>3. Conforms(e, bf.first) <=> seen \cap e.mask = {}
    BY <1>1, <1>8 DEF Conforms
  <2>4. reg \cap e.mask = seen \cap e.mask
    BY <1>1, <1>3, <1>4, <1>5, <2>1
  <2>5. Lasting(k, reg) = Lasting(k, seen)
    BY <1>1, <1>3, <1>4, <2>1 DEF Lasting
  <2> QED  BY <2>1, <2>2, <2>3, <2>4, <2>5
<1>9. CASE e.attr = "RSVDZ_RO"
  <2>1. bf.wrote = seen \ e.mask /\ ~Writable
    BY <1>1, <1>9 DEF Writable, Overwrite
  <2>2. Same <=> reg = seen
    BY <1>9 DEF Same, Writable
  <2>3. Conforms(e, bf.first) <=> \A b \in e.mask \cap seen : k[b] # "rw"
    BY <1>1, <1>9 DEF Conforms
  <2>4. ASSUME reg = seen, NEW b \in e.mask \cap seen PROVE k[b] # "rw"
    BY <1>1, <1>3, <2>1, <2>4
  <2>5. ASSUME ~bf.hit, \A b \in e.mask \cap seen : k[b] # "rw" PROVE reg = seen
    <3>1. \A b \in bits : b \in reg <=> b \in seen
      BY <1>1, <1>2, <1>3, <1>4, <2>1, <2>5, ZenonT(60)
    <3> QED  BY <1>1, <3>1, ZenonT(60)
  <2> QED  BY <2>1, <2>2, <2>3, <2>4, <2>5
<1> QED  BY <1>1, <1>6, <1>7, <1>8, <1>9, ZenonT(60) DEF Attributes, Writable

\* The types after an entry is judged.
LEMMA JudgedTypes ==
  ASSUME NEW bits, NEW cids, CfgTypeInv(bits, cids), bf.i <= Len(entries),
         entries' = entries, field' \in [kind : [bits -> BitKinds], reg : SUBSET bits],
         NEW v \in Results(bits), NEW p \in Nat, NEW f \in Nat,
         bf' = [bf EXCEPT !.pc = "entry", !.i = bf.i + 1, !.pass = p, !.fails = f,
                          !.verdict = Append(bf.verdict, v)]
  PROVE  CfgTypeInv(bits, cids)'
<1>1. bf.i \in Nat /\ Len(entries) \in Nat /\ bf.verdict \in Seq(Results(bits)) /\ Len(bf.verdict) = bf.i - 1
  BY DEF CfgTypeInv
<1>2. Append(bf.verdict, v) \in Seq(Results(bits)) /\ Len(Append(bf.verdict, v)) = bf.i
  BY <1>1
<1>3. bf'.pc = "entry" /\ bf'.i = bf.i + 1 /\ bf'.verdict = Append(bf.verdict, v)
  BY DEF CfgTypeInv
<1>4. bf' \in [pc : {"idle", "entry", "write", "readback", "done"}, i : Nat \ {0},
               seen : SUBSET bits, wrote : SUBSET bits, temp : SUBSET bits, pass : Nat, fails : Nat,
               first : SUBSET bits, hit : BOOLEAN, verdict : Seq(Results(bits))]
  <2>1. bf.i + 1 \in Nat \ {0}
    BY <1>1
  <2> DEFINE V == Seq(Results(bits))
             next == Append(bf.verdict, v)
  <2>2. /\ bf \in [pc : {"idle", "entry", "write", "readback", "done"}, i : Nat \ {0},
                   seen : SUBSET bits, wrote : SUBSET bits, temp : SUBSET bits, pass : Nat, fails : Nat,
                   first : SUBSET bits, hit : BOOLEAN, verdict : V]
        /\ next \in V
        /\ bf' = [bf EXCEPT !.pc = "entry", !.i = bf.i + 1, !.pass = p, !.fails = f, !.verdict = next]
    BY <1>2, ZenonT(60) DEF CfgTypeInv
  <2> HIDE DEF V, next
  <2>3. bf' \in [pc : {"idle", "entry", "write", "readback", "done"}, i : Nat \ {0},
                 seen : SUBSET bits, wrote : SUBSET bits, temp : SUBSET bits, pass : Nat, fails : Nat,
                 first : SUBSET bits, hit : BOOLEAN, verdict : V]
    BY <2>1, <2>2
  <2> QED  BY <2>3 DEF V
<1>5. Len(bf'.verdict) = bf'.i - 1 /\ bf'.i <= Len(entries) + 1
  BY <1>1, <1>2, <1>3
<1>6. entries \in Seq(FieldEntries(bits, cids))
  BY DEF CfgTypeInv
<1> QED  BY <1>3, <1>4, <1>5, <1>6, ZenonT(60) DEF CfgTypeInv

\* The first reading keeps the invariant.
LEMMA ReadKeeps ==
  ASSUME NEW bits, NEW cids, FieldInv(bits, cids), BitfieldRead
  PROVE  FieldInv(bits, cids)'
<1>1. /\ bf.pc = "entry" /\ bf.i <= Len(entries) /\ entries' = entries /\ CfgTypeInv(bits, cids)
      /\ Base = field.reg
  BY ZenonT(60) DEF BitfieldRead, FieldInv, Base
<1>2. /\ Current \in FieldEntries(bits, cids) /\ Interfering \cap Current.mask = {}
      /\ Interfering \subseteq bits /\ \A b \in Interfering : field.kind[b] = "w1c"
  BY <1>1, InterferingBits
<1>3. /\ bf.i \in Nat \ {0} /\ Len(entries) \in Nat /\ bf.i + 1 \in Nat \ {0} /\ bf.i + 1 <= Len(entries) + 1
      /\ bf.pass \in Nat /\ bf.fails \in Nat
  <2>1. Len(entries) \in Nat
    BY <1>1 DEF CfgTypeInv
  <2> QED  BY <1>1, <2>1 DEF CfgTypeInv
<1>4. CASE /\ ~Current.applies
           /\ bf' = [bf EXCEPT !.i = bf.i + 1,
                               !.verdict = Append(@, [status |-> -1, hit |-> FALSE, reg |-> {}])]
           /\ UNCHANGED field
  <2> DEFINE v == [status |-> -1, hit |-> FALSE, reg |-> {}]
  <2>1. v \in Results(bits) /\ RightFor(v, Current) /\ v.status # 0
    BY DEF Results, RightFor
  <2>2. bf'.verdict = Append(bf.verdict, v) /\ bf'.fails = bf.fails /\ bf'.pc = "entry" /\ field' = field
    BY <1>1, <1>4 DEF CfgTypeInv
  <2>3. Base' = Base
    BY <1>1, <2>2 DEF Base
  <2> HIDE DEF v
  <2>4. VerdictIsRight' /\ RestoreInv' /\ Len(bf'.verdict) = bf.i
    BY <1>1, <2>1, <2>2, <2>3, Judged, ZenonT(60)
  <2>5. CfgTypeInv(bits, cids)'
    <3>1. bf' = [bf EXCEPT !.pc = "entry", !.i = bf.i + 1, !.pass = bf.pass, !.fails = bf.fails,
                           !.verdict = Append(bf.verdict, v)]
      BY <1>1, <1>4, ZenonT(60) DEF CfgTypeInv, v
    <3>2. field' \in [kind : [bits -> BitKinds], reg : SUBSET bits]
      BY <1>1, <2>2, ZenonT(60) DEF CfgTypeInv
    <3> QED  BY <1>1, <1>3, <2>1, <3>1, <3>2, JudgedTypes, ZenonT(60)
  <2>6. ProgressInv'
    BY <2>2 DEF ProgressInv
  <2> QED  BY <2>4, <2>5, <2>6 DEF FieldInv
<1>5. CASE Finished(2, FALSE) /\ UNCHANGED field
  <2> DEFINE v == [status |-> 2, hit |-> FALSE, reg |-> bf.first]
  <2>1. v \in Results(bits) /\ RightFor(v, Current) /\ v.status # 0
    BY <1>1 DEF Results, RightFor, CfgTypeInv
  <2>2. /\ bf'.verdict = Append(bf.verdict, v) /\ bf'.fails = bf.fails + 1 /\ bf'.pc = "entry" /\ field' = field
    BY <1>1, <1>3, <1>5 DEF CfgTypeInv, Finished
  <2>3. Base' = Base /\ bf'.fails # 0
    BY <1>1, <1>3, <2>2 DEF Base
  <2> HIDE DEF v
  <2>4. VerdictIsRight' /\ RestoreInv' /\ Len(bf'.verdict) = bf.i
    BY <1>1, <2>1, <2>2, <2>3, Judged, ZenonT(60)
  <2>5. CfgTypeInv(bits, cids)'
    <3>1. bf' = [bf EXCEPT !.pc = "entry", !.i = bf.i + 1, !.pass = bf.pass + 0, !.fails = bf.fails + 1,
                           !.verdict = Append(bf.verdict, v)]
      BY <1>1, <1>5 DEF CfgTypeInv, Finished, v
    <3>2. field' \in [kind : [bits -> BitKinds], reg : SUBSET bits]
      BY <1>1, <2>2, ZenonT(60) DEF CfgTypeInv
    <3>3. bf.pass + 0 \in Nat /\ bf.fails + 1 \in Nat
      BY <1>3
    <3> QED  BY <1>1, <2>1, <3>1, <3>2, <3>3, JudgedTypes, ZenonT(60)
  <2>6. ProgressInv'
    BY <2>2 DEF ProgressInv
  <2> QED  BY <2>4, <2>5, <2>6 DEF FieldInv
<1>6. ASSUME NEW late \in SUBSET Interfering,
             field' = [field EXCEPT !.reg = WriteField(field.reg) \cup late],
             IF (WriteField(field.reg) \cup late) \cap Current.mask = Current.cfg
             THEN bf' = [bf EXCEPT !.pc = "write", !.seen = WriteField(field.reg) \cup late,
                                   !.first = WriteField(field.reg) \cup late, !.hit = (late # {})]
             ELSE bf' = [bf EXCEPT !.pc = "entry", !.i = bf.i + 1,
                                   !.pass = bf.pass + (IF Current.warn1 THEN 1 ELSE 0),
                                   !.fails = bf.fails + (IF Current.warn1 THEN 0 ELSE 1),
                                   !.verdict = Append(@, [status |-> IF Current.warn1 THEN 0 ELSE 1,
                                                          hit |-> late # {},
                                                          reg |-> WriteField(field.reg) \cup late])]
      PROVE  FieldInv(bits, cids)'
  <2> DEFINE settled == WriteField(field.reg) \cup late
             k == field.kind
  <2>1. k \in [bits -> BitKinds] /\ field.reg \subseteq bits /\ DOMAIN k = bits
    BY <1>1 DEF CfgTypeInv
  <2>2. \A b \in bits : k[b] \in {"ro", "rw", "w1c"}
    BY <2>1 DEF BitKinds
  <2>3. /\ settled \subseteq bits
        /\ \A b \in bits : /\ k[b] = "w1c" => (b \in settled <=> b \in late)
                           /\ k[b] # "w1c" => (b \in settled <=> b \in field.reg)
    BY <1>2, <1>6, <2>1, <2>2, WrittenBits DEF WriteField
  <2>4. Lasting(k, settled) = Lasting(k, field.reg)
    BY <2>1, <2>3 DEF Lasting
  <2>5. field' = [field EXCEPT !.reg = settled] /\ field'.kind = k /\ field'.reg = settled
    BY <1>1, <1>6 DEF CfgTypeInv
  <2> HIDE DEF settled
  <2>6. CASE settled \cap Current.mask = Current.cfg
    <3>1. bf' = [bf EXCEPT !.pc = "write", !.seen = settled, !.first = settled, !.hit = (late # {})]
      BY <1>6, <2>6 DEF settled
    <3>2. /\ bf'.pc = "write" /\ bf'.seen = settled /\ bf'.first = settled /\ bf'.hit = (late # {})
          /\ bf'.i = bf.i /\ bf'.verdict = bf.verdict /\ bf'.fails = bf.fails
      BY <1>1, <3>1 DEF CfgTypeInv
    <3>3. VerdictIsRight' /\ RestoreInv'
      <4>1. Lasting(k, Base') = Lasting(k, Base)
        BY <1>1, <2>4, <3>2, ZenonT(60) DEF Base
      <4> QED  BY <1>1, <2>5, <3>2, <4>1, NotJudged
    <3>4. CfgTypeInv(bits, cids)'
      BY <1>1, <1>3, <2>3, <2>5, <3>1, <3>2, ZenonT(60) DEF CfgTypeInv
    <3>5. Current' = Current /\ Interfering' = Interfering
      BY <1>1, <2>5, <3>2 DEF Current, Interfering
    <3>6. ProgressInv'
      BY <1>6, <2>1, <2>3, <2>5, <2>6, <3>2, <3>5, ZenonT(60) DEF ProgressInv
    <3> QED  BY <3>3, <3>4, <3>6 DEF FieldInv
  <2>7. CASE settled \cap Current.mask # Current.cfg
    <3> DEFINE v == [status |-> IF Current.warn1 THEN 0 ELSE 1, hit |-> late # {}, reg |-> settled]
    <3>1. bf' = [bf EXCEPT !.pc = "entry", !.i = bf.i + 1,
                           !.pass = bf.pass + (IF Current.warn1 THEN 1 ELSE 0),
                           !.fails = bf.fails + (IF Current.warn1 THEN 0 ELSE 1),
                           !.verdict = Append(@, v)]
      BY <1>6, <2>7 DEF settled
    <3>2. /\ bf'.pc = "entry" /\ bf'.verdict = Append(bf.verdict, v) /\ bf'.i = bf.i + 1
          /\ bf'.fails = bf.fails + (IF Current.warn1 THEN 0 ELSE 1)
      BY <1>1, <3>1 DEF CfgTypeInv
    <3>3. v \in Results(bits) /\ v.reg = settled
      BY <2>3 DEF Results
    <3>4. RightFor(v, Current)
      <4>1. ~Conforms(Current, settled)
        BY <2>7, ZenonT(60) DEF Conforms
      <4>2. v.status = 0 => Current.warn1
        OBVIOUS
      <4> QED  BY <3>3, <4>1, <4>2 DEF RightFor
    <3>5. Lasting(k, Base') = Lasting(k, Base) /\ Lasting(k, v.reg) = Lasting(k, Base)
      BY <1>1, <2>4, <2>5, <3>2 DEF Base
    <3> HIDE DEF v
    <3>6. bf'.fails = 0 => bf.fails = 0
      BY <1>3, <3>2
    <3>7. VerdictIsRight' /\ RestoreInv' /\ Len(bf'.verdict) = bf.i
      BY <1>1, <2>5, <3>2, <3>3, <3>4, <3>5, <3>6, Judged, ZenonT(60)
    <3>8. CfgTypeInv(bits, cids)'
      <4>1. field' \in [kind : [bits -> BitKinds], reg : SUBSET bits]
        BY <1>1, <2>3, <2>5 DEF CfgTypeInv
      <4>2. /\ bf.pass + (IF Current.warn1 THEN 1 ELSE 0) \in Nat
            /\ bf.fails + (IF Current.warn1 THEN 0 ELSE 1) \in Nat
        BY <1>3
      <4> QED  BY <1>1, <3>1, <3>3, <4>1, <4>2, JudgedTypes, ZenonT(60)
    <3>9. ProgressInv'
      BY <3>2 DEF ProgressInv
    <3> QED  BY <3>7, <3>8, <3>9 DEF FieldInv
  <2> QED  BY <2>6, <2>7
<1> QED  BY <1>4, <1>5, <1>6, ZenonT(60) DEF BitfieldRead

\* The write of the toggled, preserved or zeroed value keeps the invariant.
LEMMA WriteKeeps ==
  ASSUME NEW bits, NEW cids, FieldInv(bits, cids), BitfieldWrite
  PROVE  FieldInv(bits, cids)'
<1> DEFINE k == field.kind
<1>1. /\ bf.pc = "write" /\ entries' = entries /\ CfgTypeInv(bits, cids) /\ bf.i <= Len(entries)
      /\ k \in [bits -> BitKinds] /\ field.reg \subseteq bits /\ bf.seen \subseteq bits /\ DOMAIN k = bits
  BY DEF BitfieldWrite, FieldInv, CfgTypeInv
<1>2. Current.mask \subseteq bits /\ Current.attr \in Attributes /\ Overwrite \subseteq bits
  <2>1. Current \in FieldEntries(bits, cids)
    BY <1>1, InterferingBits
  <2>2. Current.mask \subseteq bits /\ Current.attr \in Attributes
    BY <2>1 DEF FieldEntries
  <2> QED  BY <1>1, <2>2 DEF Overwrite, Toggled, Attributes
<1>3. /\ field' = [field EXCEPT !.reg = WriteField(Overwrite)]
      /\ bf' = [bf EXCEPT !.pc = "readback", !.wrote = Overwrite, !.temp = bf.seen]
  BY DEF BitfieldWrite
<1>4. /\ field'.kind = k /\ field'.reg = WriteField(Overwrite)
      /\ bf'.pc = "readback" /\ bf'.wrote = Overwrite /\ bf'.temp = bf.seen /\ bf'.seen = bf.seen
      /\ bf'.first = bf.first /\ bf'.hit = bf.hit
      /\ bf'.i = bf.i /\ bf'.verdict = bf.verdict /\ bf'.fails = bf.fails
  BY <1>1, <1>3 DEF CfgTypeInv
<1>5. /\ WriteField(Overwrite) \subseteq bits
      /\ \A b \in bits :
           /\ k[b] = "ro" => (b \in WriteField(Overwrite) <=> b \in field.reg)
           /\ k[b] = "rw" => (b \in WriteField(Overwrite) <=> b \in Overwrite)
           /\ k[b] = "w1c" => (b \in WriteField(Overwrite) <=> b \in field.reg /\ b \notin Overwrite)
  BY <1>1, WrittenBits DEF WriteField
<1>6. VerdictIsRight' /\ RestoreInv'
  <2>1. Base' = Base
    BY <1>1, <1>4 DEF Base
  <2> QED  BY <1>1, <1>4, <2>1, NotJudged
<1>7. CfgTypeInv(bits, cids)'
  BY <1>1, <1>2, <1>3, <1>4, <1>5, ZenonT(60) DEF CfgTypeInv
<1>8. Current' = Current /\ Interfering' = Interfering /\ Overwrite' = Overwrite
  <2>1. Current' = Current
    BY <1>1, <1>4 DEF Current
  <2> QED  BY <1>1, <1>4, <2>1 DEF Interfering, Overwrite, Toggled
<1>9. ProgressInv'
  <2>1. /\ bf.first = bf.seen /\ bf.seen \cap Current.mask = Current.cfg
        /\ \A b \in bits : (k[b] = "w1c" /\ b \in bf.seen \cup field.reg) => bf.hit /\ b \in Interfering
        /\ \A b \in bits : k[b] = "ro" => (b \in field.reg <=> b \in bf.seen)
    BY <1>1 DEF FieldInv, ProgressInv, Lasting
  <2> QED  BY <1>1, <1>4, <1>5, <1>8, <2>1, ZenonT(60) DEF ProgressInv
<1> QED  BY <1>6, <1>7, <1>9 DEF FieldInv

\* The comparison keeps the invariant.
LEMMA ReadbackKeeps ==
  ASSUME NEW bits, NEW cids, FieldInv(bits, cids), BitfieldReadback
  PROVE  FieldInv(bits, cids)'
<1> DEFINE k == field.kind
           status == IF Same \/ Current.warn2 THEN 0 ELSE 1
           reg == IF Writable THEN WriteField(bf.temp) ELSE field.reg
           v == [status |-> status, hit |-> bf.hit, reg |-> bf.first]
<1>1. /\ bf.pc = "readback" /\ entries' = entries /\ CfgTypeInv(bits, cids) /\ bf.i <= Len(entries)
      /\ k \in [bits -> BitKinds] /\ field.reg \subseteq bits /\ bf.fails \in Nat /\ bf.pass \in Nat
      /\ bf.hit \in BOOLEAN /\ bf.first \subseteq bits
  BY ZenonT(60) DEF BitfieldReadback, FieldInv, CfgTypeInv
<1>2. Current.warn1 \in BOOLEAN /\ Current.warn2 \in BOOLEAN /\ bf.first = bf.seen /\ Base = bf.seen
  BY <1>1, InterferingBits DEF FieldEntries, FieldInv, ProgressInv, Base
<1>3. field' = [field EXCEPT !.reg = reg] /\ Finished(status, bf.hit)
  BY DEF BitfieldReadback, Same, Writable
<1>4. status \in {0, 1} /\ (status = 0 <=> (Same \/ Current.warn2))
  OBVIOUS
<1>5. /\ Same => Conforms(Current, bf.first)
      /\ ~Same /\ ~bf.hit => ~Conforms(Current, bf.first)
      /\ Same \/ Writable => Lasting(k, reg) = Lasting(k, bf.seen)
  BY <1>1, ReadbackRight
<1>6. reg \subseteq bits
  BY <1>1, WrittenBits DEF WriteField
<1> HIDE DEF status, reg
<1>7. v \in Results(bits) /\ v.status = status /\ v.hit = bf.hit /\ v.reg = bf.first
  BY <1>1, <1>4 DEF Results
<1>8. RightFor(v, Current)
  BY <1>4, <1>5, <1>7 DEF RightFor
<1> HIDE DEF v
<1>9. bf' = [bf EXCEPT !.pc = "entry", !.i = bf.i + 1,
                       !.pass = bf.pass + (IF status = 0 THEN 1 ELSE 0),
                       !.fails = bf.fails + (IF status = 0 THEN 0 ELSE 1),
                       !.verdict = Append(bf.verdict, v)]
  BY <1>1, <1>3 DEF Finished, v, CfgTypeInv
<1>10. /\ bf'.pc = "entry" /\ bf'.verdict = Append(bf.verdict, v)
       /\ bf'.fails = bf.fails + (IF status = 0 THEN 0 ELSE 1)
       /\ field'.kind = k /\ field'.reg = reg
  BY <1>1, <1>3, <1>9 DEF CfgTypeInv
<1>11. (bf'.fails = 0 => bf.fails = 0 /\ status = 0) /\ Base' = reg
  BY <1>1, <1>10 DEF Base
<1>12. Clean' => ~Current.warn2
  <2>1. bf.i \in DOMAIN bf'.verdict
    <3>1. bf.verdict \in Seq(Results(bits)) /\ Len(bf.verdict) = bf.i - 1 /\ bf.i \in Nat \ {0}
      BY <1>1 DEF CfgTypeInv
    <3>2. Len(bf'.verdict) = bf.i /\ DOMAIN bf'.verdict = 1..bf.i
      BY <1>7, <1>10, <3>1
    <3> QED  BY <3>1, <3>2
  <2> QED  BY <1>1, <2>1 DEF Clean, Current
<1>13. Clean' => Lasting(k, reg) = Lasting(k, bf.seen)
  <2>1. Clean' => bf'.fails = 0
    BY DEF Clean
  <2> QED  BY <1>4, <1>5, <1>11, <1>12, <2>1
<1>14. VerdictIsRight' /\ RestoreInv' /\ Len(bf'.verdict) = bf.i
  BY <1>1, <1>2, <1>7, <1>8, <1>10, <1>11, <1>13, Judged, ZenonT(60)
<1>15. CfgTypeInv(bits, cids)'
  <2>1. field' \in [kind : [bits -> BitKinds], reg : SUBSET bits]
    BY <1>1, <1>3, <1>6, ZenonT(60) DEF CfgTypeInv
  <2>2. bf.pass + (IF status = 0 THEN 1 ELSE 0) \in Nat /\ bf.fails + (IF status = 0 THEN 0 ELSE 1) \in Nat
    BY <1>1
  <2> QED  BY <1>1, <1>7, <1>9, <2>1, <2>2, JudgedTypes, ZenonT(60)
<1>16. ProgressInv'
  BY <1>10 DEF ProgressInv
<1> QED  BY <1>14, <1>15, <1>16 DEF FieldInv

\* A status bit that the hardware raises keeps the invariant.
LEMMA StatusKeeps ==
  ASSUME NEW bits, NEW cids, FieldInv(bits, cids), FieldStatus
  PROVE  FieldInv(bits, cids)'
<1> DEFINE k == field.kind
<1>1. PICK b \in Interfering \ field.reg : field' = [field EXCEPT !.reg = @ \cup {b}]
  BY ZenonT(60) DEF FieldStatus
<1>2. /\ entries' = entries /\ bf' = [bf EXCEPT !.hit = TRUE] /\ CfgTypeInv(bits, cids)
      /\ bf.pc \in {"entry", "write", "readback"}
      /\ k \in [bits -> BitKinds] /\ field.reg \subseteq bits /\ DOMAIN k = bits
  BY DEF FieldStatus, FieldInv, CfgTypeInv
<1>3. b \in bits /\ k[b] = "w1c"
  BY <1>2, InterferingBits
<1>4. /\ field'.kind = k /\ field'.reg = field.reg \cup {b}
      /\ bf'.hit = TRUE /\ bf'.pc = bf.pc /\ bf'.i = bf.i /\ bf'.seen = bf.seen /\ bf'.first = bf.first
      /\ bf'.wrote = bf.wrote /\ bf'.temp = bf.temp /\ bf'.verdict = bf.verdict /\ bf'.fails = bf.fails
  BY <1>1, <1>2 DEF CfgTypeInv
<1>5. Lasting(k, field'.reg) = Lasting(k, field.reg)
  BY <1>3, <1>4 DEF Lasting
<1>6. VerdictIsRight' /\ RestoreInv'
  <2>1. Lasting(k, Base') = Lasting(k, Base)
    BY <1>4, <1>5 DEF Base
  <2> QED  BY <1>2, <1>4, <2>1, NotJudged
<1>7. CfgTypeInv(bits, cids)'
  BY <1>1, <1>2, <1>3, <1>4, ZenonT(60) DEF CfgTypeInv
<1>8. Current' = Current /\ Interfering' = Interfering /\ Overwrite' = Overwrite
  <2>1. Current' = Current
    BY <1>2, <1>4 DEF Current
  <2> QED  BY <1>2, <1>4, <2>1, ZenonT(60) DEF Interfering, Overwrite, Toggled
<1>9. ProgressInv'
  <2> SUFFICES ASSUME bf.pc \in {"write", "readback"} PROVE ProgressInv'
    BY <1>4, ZenonT(60) DEF ProgressInv
  <2>1. /\ bf.first = bf.seen /\ bf.seen \cap Current.mask = Current.cfg
        /\ \A c \in bits : (k[c] = "w1c" /\ c \in bf.seen \cup field.reg) => bf.hit /\ c \in Interfering
    BY <1>2 DEF FieldInv, ProgressInv
  <2>2. bf.pc = "write" => Lasting(k, field.reg) = Lasting(k, bf.seen)
    BY <1>2 DEF FieldInv, ProgressInv
  <2>3. bf.pc = "readback" =>
          /\ bf.wrote = Overwrite /\ bf.temp = bf.seen
          /\ \A c \in bits : /\ k[c] = "ro" => (c \in field.reg <=> c \in bf.seen)
                             /\ k[c] = "rw" => (c \in field.reg <=> c \in bf.wrote)
    BY <1>2 DEF FieldInv, ProgressInv
  <2>4. \A c \in bits : (k[c] = "w1c" /\ c \in bf.seen \cup field'.reg) => c \in Interfering
    BY <1>1, <1>4, <2>1
  <2>5. \A c \in bits : k[c] # "w1c" => (c \in field'.reg <=> c \in field.reg)
    BY <1>3, <1>4
  <2> QED  BY <1>2, <1>4, <1>5, <1>8, <2>1, <2>2, <2>3, <2>4, <2>5, ZenonT(60) DEF ProgressInv
<1> QED  BY <1>6, <1>7, <1>9 DEF FieldInv

\* A write never sets a status bit.
LEMMA WriteKeepsStatus ==
  ASSUME NEW all, NEW register, NEW v
  PROVE  /\ WriteReg(all, register, v) \cap StatusBits \subseteq all
         /\ register \cap StatusBits \cap v \cap WriteReg(all, register, v) = {}
<1>1. /\ BitKind \in [CR \cup DCTL \cup SEC -> BitKinds] /\ StatusBits \subseteq CR \cup DCTL \cup SEC
      /\ \A b \in StatusBits : BitKind[b] = "w1c"
  BY DEF BitKind, BitKinds, StatusBits, CR, DCTL, SEC
<1>2. \A b \in StatusBits : b \in Written(BitKind, all \cap register, v) <=> b \in all \cap register /\ b \notin v
  BY <1>1, WrittenBits
<1> QED  BY <1>2 DEF WriteReg

\* Neither does a read, a change and a write back, and it clears the ones it sets.
LEMMA ModifyStatus ==
  ASSUME NEW all, NEW register, NEW set, NEW clear
  PROVE  /\ Modify(all, register, set, clear) \cap StatusBits \subseteq all
         /\ register \cap StatusBits \cap (set \ clear) \cap Modify(all, register, set, clear) = {}
<1> DEFINE v == ((all \cap register) \cup set) \ clear
<1>1. set \ clear \subseteq v
  OBVIOUS
<1>2. Modify(all, register, set, clear) = WriteReg(all, register, v)
  BY DEF Modify
<1> HIDE DEF v
<1> QED  BY <1>1, <1>2, WriteKeepsStatus

\* A step keeps StatusIsEarned.
LEMMA EarnedStep ==
  ASSUME StatusIsEarned, [CfgNext]_cfgVars
  PROVE  StatusIsEarned'
<1>1. \A all : val_pcie_disable_eru(all) \cap StatusBits \subseteq all
  BY ModifyStatus DEF val_pcie_disable_eru
<1>2. \A all : \A call \in ControlCalls : Control(all, call) \cap StatusBits \subseteq all
  <2> TAKE all
  <2>1. /\ Control(all, "disable_bme") \cap StatusBits \subseteq all
        /\ Control(all, "enable_bme") \cap StatusBits \subseteq all
        /\ Control(all, "disable_msa") \cap StatusBits \subseteq all
        /\ Control(all, "enable_msa") \cap StatusBits \subseteq all
    BY ModifyStatus DEF Control, val_pcie_disable_bme, val_pcie_enable_bme, val_pcie_disable_msa,
                        val_pcie_enable_msa
  <2>2. Control(all, "enable_eru") \cap StatusBits \subseteq all
    BY ModifyStatus DEF Control, val_pcie_enable_eru
  <2>3. Control(all, "disable_eru") \cap StatusBits \subseteq all
    BY <1>1 DEF Control
  <2> QED  BY <2>1, <2>2, <2>3 DEF ControlCalls
<1>3. ASSUME ControlCall PROVE StatusIsEarned'
  BY <1>2, <1>3 DEF ControlCall, StatusIsEarned
<1>4. ASSUME ClearUrd PROVE StatusIsEarned'
  <2>1. cfgreg' \cap StatusBits \subseteq cfgreg /\ "urd" \notin cfgreg'
    BY <1>4, WriteKeepsStatus DEF ClearUrd, val_pcie_clear_urd, DCTL, StatusBits
  <2> QED  BY <1>4, <2>1 DEF ClearUrd, StatusIsEarned
<1>5. ASSUME ClearDeviceStatus PROVE StatusIsEarned'
  <2>1. cfgreg' = Modify(cfgreg, DCTL, {"urd", "err"}, {})
    BY <1>5 DEF ClearDeviceStatus, val_pcie_clear_device_status_error
  <2>2. cfgreg' \cap StatusBits \subseteq cfgreg /\ DCTL \cap StatusBits \cap ({"urd", "err"} \ {}) \cap cfgreg' = {}
    BY <2>1, ModifyStatus
  <2>3. "urd" \notin cfgreg' /\ "err" \notin cfgreg'
    BY <2>2 DEF DCTL, StatusBits
  <2> QED  BY <1>5, <2>2, <2>3 DEF ClearDeviceStatus, StatusIsEarned
<1>6. ASSUME ClearTargetAbort PROVE StatusIsEarned'
  <2> DEFINE mid == Modify(cfgreg, CR, {"sta"}, {})
  <2>1. mid \cap StatusBits \subseteq cfgreg /\ CR \cap StatusBits \cap ({"sta"} \ {}) \cap mid = {}
    BY ModifyStatus
  <2>2. cfgreg' = Modify(mid, SEC, {"ssta"}, {})
    BY <1>6 DEF ClearTargetAbort, val_pcie_clear_sig_target_abort
  <2> HIDE DEF mid
  <2>3. cfgreg' \cap StatusBits \subseteq mid /\ SEC \cap StatusBits \cap ({"ssta"} \ {}) \cap cfgreg' = {}
    BY <2>2, ModifyStatus
  <2>4. "sta" \notin cfgreg' /\ "ssta" \notin cfgreg'
    BY <2>1, <2>3 DEF CR, SEC, StatusBits
  <2> QED  BY <1>6, <2>1, <2>3, <2>4 DEF ClearTargetAbort, StatusIsEarned
<1>7. ASSUME Raise PROVE StatusIsEarned'
  BY <1>7 DEF Raise, StatusIsEarned
<1>8. ASSUME val_pcie_register_bitfields_check PROVE StatusIsEarned'
  BY <1>1, <1>8, ZenonT(60) DEF val_pcie_register_bitfields_check, StatusIsEarned
<1>9. ASSUME \/ BitfieldRead \/ BitfieldWrite \/ BitfieldReadback \/ BitfieldsDone \/ FieldStatus
             \/ UNCHANGED cfgVars
      PROVE  StatusIsEarned'
  BY <1>9, ZenonT(60) DEF BitfieldRead, BitfieldWrite, BitfieldReadback, BitfieldsDone, FieldStatus, cfgVars, StatusIsEarned
<1> QED  BY <1>3, <1>4, <1>5, <1>6, <1>7, <1>8, <1>9 DEF CfgNext, StatusNext, FieldNext

\* A step keeps the invariant of the bit-field checks.
LEMMA FieldStep ==
  ASSUME NEW bits, NEW cids, FieldInv(bits, cids), [CfgNext]_cfgVars
  PROVE  FieldInv(bits, cids)'
<1>1. ASSUME UNCHANGED <<field, entries, bf>> PROVE FieldInv(bits, cids)'
  <2>1. CfgTypeInv(bits, cids)'
    BY <1>1 DEF FieldInv, CfgTypeInv
  <2>2. Current' = Current /\ Interfering' = Interfering /\ Overwrite' = Overwrite /\ Base' = Base
    BY <1>1 DEF Current, Interfering, Overwrite, Toggled, Base
  <2>3. ProgressInv'
    BY <1>1, <2>2 DEF FieldInv, ProgressInv
  <2> QED  BY <1>1, <2>1, <2>2, <2>3, NotJudged DEF FieldInv
<1>2. ASSUME StatusNext \/ UNCHANGED cfgVars PROVE UNCHANGED <<field, entries, bf>>
  BY <1>2 DEF StatusNext, ControlCall, ClearUrd, ClearDeviceStatus, ClearTargetAbort, Raise, cfgVars
<1>3. ASSUME NEW pc \in {"entry", "done"}, bf' = [bf EXCEPT !.pc = pc], field' = field, entries' = entries,
             bf.pc \in {"idle", "entry"}
      PROVE  FieldInv(bits, cids)'
  <2>1. /\ bf'.pc = pc /\ bf'.i = bf.i /\ bf'.verdict = bf.verdict /\ bf'.fails = bf.fails
        /\ CfgTypeInv(bits, cids)
    BY <1>3 DEF FieldInv, CfgTypeInv
  <2>2. CfgTypeInv(bits, cids)'
    BY <1>3, <2>1, ZenonT(60) DEF CfgTypeInv
  <2>3. Base' = Base
    BY <1>3, <2>1 DEF Base
  <2>4. ProgressInv'
    BY <2>1 DEF ProgressInv
  <2> QED  BY <1>3, <2>1, <2>2, <2>3, <2>4, NotJudged DEF FieldInv
<1>4. ASSUME val_pcie_register_bitfields_check \/ BitfieldsDone PROVE FieldInv(bits, cids)'
  BY <1>3, <1>4 DEF val_pcie_register_bitfields_check, BitfieldsDone
<1> QED  BY <1>1, <1>2, <1>4, ReadKeeps, WriteKeeps, ReadbackKeeps, StatusKeeps DEF CfgNext, FieldNext

\* For registers and bit-field tables of any size, whatever the capability
\* chains: RegistersAreRight. A status bit is seen only when it was raised, a
\* field that does not behave as its attribute says never passes and one that
\* does fails only beside a status bit raised meanwhile, and a check that
\* passes leaves the register as it was (val_pcie_bitfield_check,
\* val_pcie_clear_urd and the rest).
THEOREM RegistersAlwaysRight ==
  ASSUME NEW bits, NEW cids, NEW chains
  PROVE  CfgInit(chains, FieldCases(bits, cids)) /\ [][CfgNext]_cfgVars => []RegistersAreRight
<1>1. CfgInit(chains, FieldCases(bits, cids)) => FieldInv(bits, cids) /\ StatusIsEarned
  <2> SUFFICES ASSUME CfgInit(chains, FieldCases(bits, cids)) PROVE FieldInv(bits, cids) /\ StatusIsEarned
    OBVIOUS
  <2>1. PICK c \in FieldCases(bits, cids) : field = c.field /\ entries = c.entries
    BY DEF CfgInit
  <2>2. bf = [pc |-> "idle", i |-> 1, seen |-> {}, wrote |-> {}, temp |-> {},
              pass |-> 0, fails |-> 0, first |-> {}, hit |-> FALSE, verdict |-> <<>>]
    BY DEF CfgInit
  <2>3. Len(entries) \in Nat /\ entries \in Seq(FieldEntries(bits, cids))
    BY <2>1 DEF FieldCases
  <2>4. CfgTypeInv(bits, cids)
    <3>1. field \in [kind : [bits -> BitKinds], reg : SUBSET bits]
      BY <2>1 DEF FieldCases
    <3>2. <<>> \in Seq(Results(bits)) /\ Len(<<>>) = 0
      OBVIOUS
    <3>3. /\ bf \in [pc : {"idle", "entry", "write", "readback", "done"}, i : Nat \ {0},
                    seen : SUBSET bits, wrote : SUBSET bits, temp : SUBSET bits, pass : Nat, fails : Nat,
                    first : SUBSET bits, hit : BOOLEAN, verdict : Seq(Results(bits))]
          /\ bf.i = 1 /\ bf.verdict = <<>> /\ bf.pc = "idle"
      BY <2>2, <3>2
    <3> QED  BY <2>3, <3>1, <3>2, <3>3 DEF CfgTypeInv
  <2>5. ProgressInv /\ VerdictIsRight /\ RestoreInv
    <3>1. bf.pc = "idle" /\ DOMAIN bf.verdict = {}
      BY <2>2
    <3> QED  BY <3>1 DEF ProgressInv, VerdictIsRight, RestoreInv
  <2>6. StatusIsEarned
    BY DEF CfgInit, StatusIsEarned
  <2> QED  BY <2>4, <2>5, <2>6 DEF FieldInv
<1>2. (FieldInv(bits, cids) /\ StatusIsEarned) /\ [CfgNext]_cfgVars => (FieldInv(bits, cids) /\ StatusIsEarned)'
  BY FieldStep, EarnedStep
<1>3. FieldInv(bits, cids) /\ StatusIsEarned => RegistersAreRight
  <2> SUFFICES ASSUME FieldInv(bits, cids), StatusIsEarned PROVE RegistersAreRight
    OBVIOUS
  <2>1. FieldRestored
    BY DEF FieldInv, RestoreInv, Clean, Base, Lasting, FieldRestored
  <2> QED  BY <2>1 DEF FieldInv, RegistersAreRight
<1> QED  BY <1>1, <1>2, <1>3, PTL
=============================================================================
