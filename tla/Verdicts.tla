------------------------------ MODULE Verdicts ------------------------------
(***************************************************************************)
(* How the payloads that walk a table reach their verdict: the PCIe tests  *)
(* built for RISC-V (test_pool/pcie/operating_system/riscv) over the table *)
(* of functions, and the IOMMU tests (test_pool/iommu/operating_system)    *)
(* over the functions or the nodes of the RIMT table.                      *)
(*                                                                         *)
(* An entry is the set of the facts that a payload reads in its registers. *)
(* A payload has a test of one entry, which finds it out of scope          *)
(* ("none"), compliant ("good") or not ("bad"), and a loop that turns what *)
(* it finds into one status. val_set_status overwrites what was set        *)
(* before. What a payload writes to a register to see whether it keeps the *)
(* value is part of reading the fact.                                      *)
(***************************************************************************)
EXTENDS Integers, Sequences, SequencesExt, FiniteSets, FiniteSetsExt

VARIABLES
  payload,    \* the test that runs
  mode,       \* the translation mode of the hart, "none" if it is not known
  walked,     \* the table it walks
  status      \* the status of the hart

verdictVars == <<payload, mode, walked, status>>

Judge(scope, ok) == IF ~scope THEN "none" ELSE IF ok THEN "good" ELSE "bad"

Either(f, kinds) == f \cap kinds # {}

-----------------------------------------------------------------------------
(* One PCIe function. A BAR that is not an I/O BAR counts as a memory BAR. *)

os_p004(f) == Judge("RP" \in f, "RRS" \in f)
os_p010(f) == Judge("RP" \in f, {"ACS", "SV", "TB"} \subseteq f)
os_p011(f) == Judge({"RP", "mem_bar"} \subseteq f, {"ACS", "EC"} \subseteq f)
os_p012(f) ==
  Judge(Either(f, {"RP", "RCiEP"}),
        ("RP" \in f => Either(f, {"MSI", "MSIX"})) /\ "int_pin" \notin f)
os_p013(f) == Judge({"RP", "PTM"} \subseteq f, TRUE)
os_p014(f) == Judge("RP" \in f, "AER" \in f)
os_p015(f) == Judge("RP" \in f, "DPC" \in f)
os_p016(f) == Judge({"RP", "DPC"} \subseteq f, "RP_EXT" \in f)
os_p017(f) == Judge("RCiEP" \in f, TRUE)
os_p018(f) == Judge({"RCiEP", "ACS"} \subseteq f, "AER" \in f)
os_p019(f) == Judge({"RCiEP", "AER"} \subseteq f, "RCECEA" \in f)
os_p021(f) == Judge(Either(f, {"RP", "RCiEP", "HB", "IOMMU"}), "invalid_cap" \notin f)
os_p022(f) == Judge(Either(f, {"RP", "RCiEP"}), ~Either(f, {"io_bar", "EA", "int_pin"}))
os_p023(f) == Judge({"RCiEP", "SRIOV"} \subseteq f, "MSIX" \in f)
os_p024(f) == Judge({"RCiEP", "PASID"} \subseteq f, "narrow" \notin f)
os_p025(f) == Judge({"RCiEP", "mem_bar"} \subseteq f, "bar64" \in f)

\* Functions and the IOMMU that governs them.
os_iom002(f) == Judge(Either(f, {"RP", "RCiEP"}), "governed" \in f)
os_iom003(f) ==
  Judge("RP" \in f,
        "governed" \in f /\ Either(f, IF "MSI_FLAT" \in f THEN {"LVL_3"} ELSE {"LVL_2", "LVL_3"}))
os_iom011(f) == Judge({"RCiEP", "ATS"} \subseteq f, {"governed", "iommu_ATS"} \subseteq f)
os_iom024(f) == Judge({"RCiEP", "iommu_class"} \subseteq f, TRUE)

-----------------------------------------------------------------------------
(* One node of the RIMT; a node that is not an IOMMU is out of scope.      *)

os_iom001(f) == Judge("IOMMU" \in f, "VERSION_1_0" \in f)
os_iom005(f) == Judge("IOMMU" \in f, mode \in {"sv39", "sv48", "sv57"} => mode \in f)
os_iom008(f) == Judge("IOMMU" \in f, ("MSI_MRIF" \in f) <=> ("AMO_MRIF" \in f))
os_iom013(f) == Judge("IOMMU" \in f, Either(f, {"IGS_MSI", "IGS_BOTH"}))
os_iom017(f) == Judge("IOMMU" \in f, Either(f, {"PD8", "PD17", "PD20"}) => "PD20" \in f)
os_iom019(f) ==
  Judge({"IOMMU", "HPM"} \subseteq f,
        {"counters_40", "iocountovf", "iocountinh"} \subseteq f)

\* The address width is eight bits of the register, the product it is
\* compared with is greater than any of them.
os_iom022(f) == Judge("IOMMU" \in f, FALSE)

-----------------------------------------------------------------------------
(* The loops, over what is found in the entries.                           *)

\* Bug: test_skip tells of the last entry only.
CountedVerdict_SkipOfLast(found) ==
  LET fails == Cardinality({i \in DOMAIN found : found[i] = "bad"})
  IN IF found = <<>> \/ Last(found) = "none" THEN "SKIP" ELSE IF fails > 0 THEN "FAIL" ELSE "PASS"

\* test_skip is cleared by an entry in scope, test_fails counts the bad ones.
CountedVerdict(found) ==
  LET step(s, j) == [skip |-> s.skip /\ j = "none", fails |-> s.fails + (IF j = "bad" THEN 1 ELSE 0)]
      s == FoldLeft(step, [skip |-> TRUE, fails |-> 0], found)
  IN IF s.skip THEN "SKIP" ELSE IF s.fails > 0 THEN "FAIL" ELSE "PASS"

\* The first bad entry sets FAIL and returns.
UpToBad(found) == SelectInSeq(found, LAMBDA j : j = "bad")

PassUnlessBad(found) == IF UpToBad(found) # 0 THEN "FAIL" ELSE "PASS"

SkipUnlessGood(found) ==
  IF UpToBad(found) # 0 THEN "FAIL"
  ELSE IF SelectLastInSeq(found, LAMBDA j : j = "good") # 0 THEN "PASS" ELSE "SKIP"

\* A good entry sets PASS and goes on, the end of the loop sets SKIP.
SkipAtEnd(found) == IF UpToBad(found) # 0 THEN "FAIL" ELSE "SKIP"

-----------------------------------------------------------------------------
(* Payloads with a loop of their own.                                      *)

\* The big-endian bit of every IOMMU is read and inverted. be_mode and
\* be_mode_next are kept from entry to entry; a bit that is one and cannot
\* be written leaves be_mode_next as it was.
os_iom014(nodes) ==
  LET next(s, f) == IF "BE_writeable" \in f THEN "W"
                    ELSE IF "BE" \notin f THEN "RO_0"
                    ELSE s.next
      step(s, i) ==
        IF s.failed \/ "IOMMU" \notin nodes[i] THEN s
        ELSE LET n == next(s, nodes[i]) IN
               [next |-> n, be |-> n, failed |-> n = "unset" \/ (i > 1 /\ n # s.be)]
      s == FoldLeft(step, [next |-> "unset", be |-> "unset", failed |-> FALSE], [i \in DOMAIN nodes |-> i])
  IN IF s.failed THEN "FAIL" ELSE "PASS"

\* Every node that does not govern a root port is checked: good or bad, or
\* "none" if no mapping leads to it. A bad one sets FAIL and the loop goes
\* on; ret, which the search for the governing IOMMUs used before, decides at
\* the end. governs gives for each root port its IOMMU, 0 if there is none.
os_iom004(t) ==
  LET checked == {n \in DOMAIN t.nodes : \A r \in DOMAIN t.governs : t.governs[r] # n}
      ret == IF checked # {} THEN t.nodes[Max(checked)]
             ELSE IF t.governs = <<>> THEN "none"
             ELSE IF Last(t.governs) = 0 THEN "bad" ELSE "good"
  IN IF ret = "good" THEN "PASS" ELSE "SKIP"

\* The pairs of an IOMMU and a root complex, in the order of the mappings, as
\* long as they are at most IOMMU_MAP_MAX.
IommuMap(nodes) ==
  FlattenSeq([i \in DOMAIN nodes |->
    IF nodes[i].kind = "iommu" THEN <<>>
    ELSE [k \in DOMAIN nodes[i].dest |-> [iommu |-> nodes[i].dest[k], seg |-> nodes[i].seg]]])

Segments(pairs, n) == {pairs[k].seg : k \in {m \in DOMAIN pairs : pairs[m].iommu = n}}

\* An IOMMU with root complexes of two segments puts the IOMMU that was looked
\* up last on the list; the IOMMUs on the list must have three levels, and
\* ret, left by the last of them, decides.
os_iom026(nodes) ==
  LET pairs == IommuMap(nodes)
      multi == IF \E n \in DOMAIN nodes : Cardinality(Segments(pairs, n)) > 1
               THEN {Last(pairs).iommu} ELSE {}
  IN IF multi # {} /\ nodes[Max(multi)].lvl3 THEN "PASS" ELSE "SKIP"

-----------------------------------------------------------------------------
(* The payload as a whole.                                                 *)

CountedTests == {"p010", "p011", "p012", "p013", "p014", "p015", "p016", "p017", "p018", "p019",
                 "p021", "p022", "p023", "p024", "p025"}
PassUnlessBadTests == {"iom001", "iom005", "iom008", "iom013", "iom017", "iom019", "iom022"}
SkipUnlessGoodTests == {"p004", "iom002", "iom003", "iom024"}

Find(p, f) ==
  CASE p = "p004" -> os_p004(f) [] p = "p010" -> os_p010(f) [] p = "p011" -> os_p011(f) [] p = "p012" -> os_p012(f)
    [] p = "p013" -> os_p013(f) [] p = "p014" -> os_p014(f) [] p = "p015" -> os_p015(f)
    [] p = "p016" -> os_p016(f) [] p = "p017" -> os_p017(f) [] p = "p018" -> os_p018(f)
    [] p = "p019" -> os_p019(f) [] p = "p021" -> os_p021(f) [] p = "p022" -> os_p022(f)
    [] p = "p023" -> os_p023(f) [] p = "p024" -> os_p024(f) [] p = "p025" -> os_p025(f)
    [] p = "iom001" -> os_iom001(f) [] p = "iom002" -> os_iom002(f) [] p = "iom003" -> os_iom003(f)
    [] p = "iom005" -> os_iom005(f) [] p = "iom008" -> os_iom008(f) [] p = "iom011" -> os_iom011(f)
    [] p = "iom013" -> os_iom013(f) [] p = "iom017" -> os_iom017(f) [] p = "iom019" -> os_iom019(f)
    [] p = "iom022" -> os_iom022(f) [] p = "iom024" -> os_iom024(f)

FoundIn(p, t) == [i \in DOMAIN t |-> Find(p, t[i])]

\* Two payloads need to know the translation mode of the hart.
NeedsMode == {"iom005", "iom022"}

\* What the payload leaves in the status.
Verdict(p, t) ==
  IF p \in NeedsMode /\ mode = "none" THEN "SKIP" ELSE
  CASE p \in CountedTests -> CountedVerdict(FoundIn(p, t))
    [] p \in PassUnlessBadTests -> PassUnlessBad(FoundIn(p, t))
    [] p \in SkipUnlessGoodTests -> SkipUnlessGood(FoundIn(p, t))
    [] p = "iom004" -> os_iom004(t)
    [] p = "iom011" -> SkipAtEnd(FoundIn(p, t))
    [] p = "iom014" -> os_iom014(t)
    [] p = "iom026" -> os_iom026(t)

VerdictInit(inputs) ==
  /\ \E i \in inputs : payload = i.payload /\ mode = i.mode /\ walked = i.table
  /\ status = "PENDING"

RunPayload ==
  /\ status = "PENDING"
  /\ status' = Verdict(payload, walked)
  /\ UNCHANGED <<payload, mode, walked>>

-----------------------------------------------------------------------------
\* What was found to be wrong in the table: an entry that its test rejects, an
\* IOMMU without a root port that is too narrow, big-endian support that is
\* not the same everywhere or a bit that is stuck at one, an IOMMU with
\* several segments and fewer than three levels.
Wrong ==
  CASE payload = "iom004" -> \E n \in DOMAIN walked.nodes :
                               walked.nodes[n] = "bad" /\ n \notin Range(walked.governs)
    [] payload = "iom014" ->
         LET be == {IF "BE_writeable" \in f THEN "W" ELSE IF "BE" \in f THEN "stuck" ELSE "RO_0" :
                      f \in {g \in Range(walked) : "IOMMU" \in g}}
         IN "stuck" \in be \/ Cardinality(be) > 1
    [] payload = "iom026" -> \E n \in DOMAIN walked :
                               /\ Cardinality(Segments(IommuMap(walked), n)) > 1
                               /\ ~walked[n].lvl3
    [] OTHER -> "bad" \in Range(FoundIn(payload, walked))

\* The payloads whose loop is sound, and the tables of the big-endian test for
\* which it is: an IOMMU first, no bit stuck at one.
Sound ==
  \/ payload \in CountedTests \cup PassUnlessBadTests \cup SkipUnlessGoodTests \cup {"iom011"}
  \/ /\ payload = "iom014"
     /\ walked # <<>> => "IOMMU" \in walked[1]
     /\ \A i \in DOMAIN walked : "BE" \in walked[i] => "BE_writeable" \in walked[i]

Judged == status # "PENDING" /\ ~(payload \in NeedsMode /\ mode = "none")

InScope == {f \in Range(walked) : Find(payload, f) # "none"}

\* A payload fails exactly when some entry of its table breaks the rule,
\* wherever the entry stands and whatever the others are, and it passes only
\* when an entry is in scope (the payloads of the PCIe and IOMMU test pools
\* with a sound loop; those that cannot skip pass an empty table).
VerdictsAreRight ==
  Sound /\ Judged =>
    /\ status = "FAIL" <=> Wrong
    /\ payload \in CountedTests \cup SkipUnlessGoodTests => (status = "SKIP" <=> InScope = {})

\* A payload that finds an entry that breaks the rule fails (all payloads
\* that walk a table).
FailureIsReported == Judged /\ Wrong => status = "FAIL"
=============================================================================
