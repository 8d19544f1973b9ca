----------------------------- MODULE PciePorts -----------------------------
(***************************************************************************)
(* The payloads that change a root port while they test it: p003 takes its *)
(* link down and up again, p007 and p008 narrow its non-prefetchable and   *)
(* its prefetchable window to 1 MB, read behind it with the link up and    *)
(* down, and write the window back                                         *)
(* (test_pool/pcie/operating_system/riscv). They run in this order on the  *)
(* same ports, each over the whole table.                                  *)
(*                                                                         *)
(* Addresses are counted in units of half a megabyte; a window register    *)
(* holds the first and the last megabyte, the prefetchable one with upper  *)
(* halves if the port is wide.                                             *)
(***************************************************************************)
EXTENDS Integers, Sequences, FiniteSets, FiniteSetsExt, Bitwise

VARIABLES
  ports,      \* the root ports of the table, with what does not change
  win,        \* their windows: np and p
  linkUp,     \* their links are not disabled
  before,     \* history: win and linkUp when the running payload began
  test,       \* [name, running, at, skip, bu, lu, result]: the last payload and its locals
  probes      \* history: the memory reads of the running payload

portVars == <<ports, win, linkUp, before, test, probes>>

MEM_OFFSET_LARGE == 2      \* a megabyte
MEM_OFFSET_SMALL == 1
UPPER == 4096              \* megabytes below the upper half

Port == test.at
AtPort == test.running /\ Port \in DOMAIN ports

\* A port is examined if a function behind it answers that is neither a
\* network, a display nor a storage controller; none does without a link.
check_bdf_under_rp(i) == ports[i].behind /\ linkUp[i]

-----------------------------------------------------------------------------
Ends(result) == test' = [test EXCEPT !.running = FALSE, !.result = result]

\* The order of val_pcie_execute_tests; a test may be left out. p007 and p008
\* end at once if their exception handlers cannot be installed.
Order == [none |-> 0, p003 |-> 3, p007 |-> 7, p008 |-> 8]

Begin(name) ==
  /\ ~test.running /\ Order[test.name] < Order[name]
  /\ \E running \in IF name = "p003" THEN {TRUE} ELSE BOOLEAN :
       test' = [name |-> name, running |-> running, at |-> 1, skip |-> TRUE, bu |-> 0, lu |-> 0,
                result |-> IF running THEN "PENDING" ELSE "FAIL"]
  /\ before' = [win |-> win, linkUp |-> linkUp]
  /\ probes' = {}
  /\ UNCHANGED <<ports, win, linkUp>>

\* The vendors on the bus of the first port that may be examined are read
\* with the link up and with the link down; that the two agree is the test.
os_p003 ==
  /\ test.name = "p003" /\ test.running
  /\ LET usable == {i \in DOMAIN ports : check_bdf_under_rp(i)} IN
       \/ usable = {} /\ Ends("SKIP") /\ UNCHANGED linkUp
       \/ /\ usable # {}
          /\ linkUp' = [linkUp EXCEPT ![Min(usable)] = TRUE]
          /\ \E result \in {"PASS", "FAIL"} : Ends(result)
  /\ UNCHANGED <<ports, win, before, probes>>

\* The window a payload tests, as it computes it: the upper halves of p008
\* are those of an earlier port if this one is not wide.
WideAt(i) == ports[i].wide
Upper(i, reg, kept) == IF WideAt(i) THEN reg ELSE kept

TestedWindow(i) ==
  IF test.name = "p007"
  THEN [base |-> win[i].np.base, lim |-> win[i].np.lim, bu |-> 0, lu |-> 0]
  ELSE [base |-> win[i].p.base, lim |-> win[i].p.lim,
        bu |-> Upper(i, win[i].p.bu, test.bu), lu |-> Upper(i, win[i].p.lu, test.lu)]

FirstMB(w) == w.bu * UPPER + w.base
LastMB(w) == w.lu * UPPER + w.lim
FirstOf(w) == MEM_OFFSET_LARGE * FirstMB(w)
FinalOf(w) == MEM_OFFSET_LARGE * LastMB(w) + (MEM_OFFSET_LARGE - 1)
Inside(w, a) == FirstOf(w) <= a /\ a <= FinalOf(w)

\* The register reads as zero, or holds a limit below the base.
Closed(i, w) ==
  \/ w.base = 0 /\ w.lim = 0 /\ (test.name = "p007" \/ ~WideAt(i))
  \/ FinalOf(w) < FirstOf(w)

\* The register of the tested window with the limit at the base.
Narrowed(i, w) ==
  IF test.name = "p007" THEN [win[i] EXCEPT !.np.lim = w.base]
  ELSE [win[i] EXCEPT !.p.lim = w.base, !.p.lu = IF WideAt(i) THEN w.bu ELSE @]

\* Bug: the probe does not go past the narrowed window.
ProbeAt_Inside(w) == FirstOf(w) + MEM_OFFSET_SMALL

ProbeAt(w) == FirstOf(w) + MEM_OFFSET_LARGE + MEM_OFFSET_SMALL

\* The window as it is in the hardware.
NpWindow(v) == [base |-> v.np.base, lim |-> v.np.lim, bu |-> 0, lu |-> 0]
InHardware(v) == IF test.name = "p007" THEN NpWindow(v) ELSE v.p

\* Base and limit are put together in 32 bits; upper bits of the base beyond
\* the lowest four fall into the limit. Both payloads write the prefetchable
\* registers.
WrittenBack(i, v, w) ==
  [v EXCEPT !.p.base = w.base, !.p.lim = w.lim | (w.bu \div 16), !.p.lu = IF WideAt(i) THEN w.lu ELSE @]

Answers == {"ones", "data", "exception"}

\* The uppers that p008 leaves for the ports behind this one.
Uppers(i, w, checked) ==
  [bu |-> w.bu, lu |-> IF checked /\ WideAt(i) THEN w.bu ELSE w.lu]

GoOn(skip, u) == test' = [test EXCEPT !.at = @ + 1, !.skip = skip, !.bu = u.bu, !.lu = u.lu]

\* A port is passed over, before its window is read or because it is closed.
PassOver ==
  /\ test.name \in {"p007", "p008"} /\ AtPort
  /\ LET w == TestedWindow(Port) IN
       \/ ~check_bdf_under_rp(Port) /\ GoOn(test.skip, [bu |-> test.bu, lu |-> test.lu])
       \/ check_bdf_under_rp(Port) /\ Closed(Port, w) /\ GoOn(test.skip, Uppers(Port, w, FALSE))
  /\ UNCHANGED <<ports, win, linkUp, before, probes>>

\* The offset the platform gives does not fit into the window.
OffsetPastLimit(i, w) == FirstOf(w) + ports[i].offset > FinalOf(w)

\* One port: the window is narrowed if it has more than one megabyte, read
\* behind with the link up and down, and written back. An exception goes
\* straight to the write-back.
Examine ==
  /\ test.name \in {"p007", "p008"} /\ AtPort /\ check_bdf_under_rp(Port)
  /\ UNCHANGED <<ports, before>>
  /\ LET i == Port
         w == TestedWindow(i)
         v == Narrowed(i, w)
         probe == [port |-> i, at |-> ProbeAt(w), now |-> InHardware(v)]
     IN /\ ~Closed(i, w)
        /\ \/ OffsetPastLimit(i, w) /\ Ends("FAIL") /\ UNCHANGED <<win, linkUp, probes>>
           \/ /\ ~OffsetPastLimit(i, w) /\ LastMB(w) <= FirstMB(w)
              /\ GoOn(FALSE, Uppers(i, w, FALSE)) /\ UNCHANGED <<win, linkUp, probes>>
           \/ /\ ~OffsetPastLimit(i, w) /\ LastMB(w) > FirstMB(w)
              /\ win' = [win EXCEPT ![i] = WrittenBack(i, v, w)]
              /\ probes' = probes \cup {probe}
              /\ \E up, down \in Answers :
                   /\ linkUp' = [linkUp EXCEPT ![i] = (up = "exception")]
                   /\ IF up = "ones" /\ down = "ones" THEN GoOn(FALSE, Uppers(i, w, TRUE)) ELSE Ends("FAIL")

EndOfTable ==
  /\ test.name \in {"p007", "p008"} /\ test.running /\ ~AtPort
  /\ Ends(IF test.skip THEN "SKIP" ELSE "PASS")
  /\ UNCHANGED <<ports, win, linkUp, before, probes>>

PortInit(inputs) ==
  /\ \E t \in inputs : ports = t.ports /\ win = t.win /\ linkUp = t.linkUp
  /\ before = [win |-> win, linkUp |-> linkUp]
  /\ test = [name |-> "none", running |-> FALSE, at |-> 1, skip |-> TRUE, bu |-> 0, lu |-> 0,
             result |-> "none"]
  /\ probes = {}

PortNext ==
  \/ \E name \in {"p003", "p007", "p008"} : Begin(name)
  \/ os_p003 \/ PassOver \/ Examine \/ EndOfTable

-----------------------------------------------------------------------------
\* No port before this one leaves upper halves that this one does not set.
OwnUppers(i) == \A j \in 1..(i - 1) : WideAt(j) => WideAt(i)

\* The upper half of the base has no bits that fall into the limit.
LowBase(i) == before.win[i].p.bu < 16

\* Every read of p007 and p008 is in the window the port had and outside the
\* one it has at that moment, so that only a port that forwards what it must
\* not can answer; p003 leaves all links and windows as they were, and p008
\* all windows, whether the reads return, fail or end in an exception. The
\* upper halves must be the port's own and the base within its first bits.
PortsAreRight ==
  /\ \A q \in probes :
       test.name = "p007" \/ OwnUppers(q.port) =>
         ~Inside(q.now, q.at) /\ Inside(InHardware(before.win[q.port]), q.at)
  /\ test.name = "p003" => win = before.win /\ linkUp = before.linkUp
  /\ test.name = "p008" =>
       \A i \in DOMAIN ports : OwnUppers(i) /\ LowBase(i) => win[i] = before.win[i]
=============================================================================
