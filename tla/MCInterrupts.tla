---------------------------- MODULE MCInterrupts ----------------------------
(***************************************************************************)
(* The interrupt drivers and the tests that wait for interrupts, explored  *)
(* in one model: a behaviour uses one of them, named by part.              *)
(***************************************************************************)
EXTENDS ItsMsi, Gic, Imsic, Wakeup, TLC

CONSTANTS d1, d2, d3

VARIABLE part

-----------------------------------------------------------------------------
(* Two functions behind one ITS and one behind another; tables that the    *)
(* set-up accepts and tables that it refuses.                              *)

MCDeviceId == (d1 :> 1) @@ (d2 :> 2) @@ (d3 :> 1)
MCItsId == (d1 :> 10) @@ (d2 :> 10) @@ (d3 :> 20)
MCHasMsix == (d1 :> TRUE) @@ (d2 :> TRUE) @@ (d3 :> FALSE)

GicD(bits) == [type |-> "GICD", base |-> 1, lpis |-> TRUE, idbits |-> bits]
GicR(type, frames, mine) == [type |-> type, base |-> 100, frames |-> frames, mine |-> mine, lpis |-> TRUE]
ItsBlock(id, bits) ==
  [type |-> "GICITS", id |-> id, pta |-> id # 10, idbits |-> bits, tables |-> <<"device", "collection">>]

Good == {<<GicD(16), GicR("GICR_GICRD", 2, 1), ItsBlock(10, 15)>>,
         <<GicD(14), GicR("GICC_GICRD", 1, 0), ItsBlock(30, 13), ItsBlock(20, 14)>>,
         <<GicD(14), GicR("GICC_GICRD", 1, 0), ItsBlock(30, 15), ItsBlock(20, 14)>>}
Bad == {<<GicD(16), GicR("GICR_GICRD", 2, -1), ItsBlock(10, 15)>>,
        <<GicD(16), GicR("GICC_GICRD", 1, 0)>>,
        <<GicD(13), GicR("GICR_GICRD", 1, 0), ItsBlock(10, 15)>>,
        <<GicR("GICR_GICRD", 1, 0), ItsBlock(10, 15)>>,
        <<GicD(15), [GicR("GICC_GICRD", 1, 0) EXCEPT !.lpis = FALSE], ItsBlock(10, 16)>>}

ASSUME TablesAreMeant == \A table \in Good \cup Bad : Addressed(table)

-----------------------------------------------------------------------------
(* Interrupt controllers of version 2 and 3, with and without extended     *)
(* ranges, the hart in the first or the second redistributor region.       *)

Controller(build, version, extended, region, used) ==
  [build |-> build, version |-> version, max |-> 64, espi |-> extended - 1, eppi |-> extended,
   region |-> region, used |-> used]

Uses == {{1, 40}, {27, 64}, {40, 1056}, {4096}}
Controllers == {Controller(b, 2, 0, 1, u) : b \in {"acpi", "bm"}, u \in Uses} \cup
               {Controller("dt", 3, e, r, u) : e \in 0..1, r \in 1..2, u \in Uses} \cup
               {Controller("acpi", 3, 1, 1, u) : u \in Uses}

ASSUME ControllersAreMeant == \A p \in Controllers : Built(p)

-----------------------------------------------------------------------------
(* Sources of wakeup: some dead, early, refused or secure.                 *)

Platform(live, early, refused, secure) ==
  [live |-> live, early |-> early, refused |-> refused, secure |-> secure, wds |-> 2, frames |-> 2, nobase |-> {},
   cntl |-> TRUE, grant |-> TRUE, rev |-> 1, freq |-> 3, el2 |-> TRUE, g_el1physkip |-> FALSE, other |-> FALSE]
Plain == Platform(Sources, {}, {}, {})

Platforms ==
  {Platform(Sources \ dead, early, {}, {}) :
     dead \in SUBSET {"vir", "wd0", "wd1", "sys1"}, early \in {{}, {"el2", "wd1", "sys0"}}} \cup
  {Platform(Sources, {}, refused, secure) :
     refused \in SUBSET {"el2", "wd0", "sys1"}, secure \in SUBSET {"wd1", "sys0", "sys1"}} \cup
  {[Plain EXCEPT !.wds = w, !.frames = f, !.rev = r, !.freq = q, !.cntl = c, !.grant = g, !.nobase = b] :
     w \in 0..1, f \in 0..1, r \in 0..1, q \in {3, 5}, c \in BOOLEAN, g \in BOOLEAN, b \in {{}, {"sys0"}}} \cup
  {[Plain EXCEPT !.el2 = e, !.g_el1physkip = s, !.live = @ \ d] :
     e \in BOOLEAN, s \in BOOLEAN, d \in {{"sys0"}, {"vir"}}} \cup
  {[Plain EXCEPT !.wds = 1, !.frames = 1, !.other = TRUE],
   Platform(Sources \ {"phy"}, {}, {}, {}), Platform(Sources, {"phy"}, {}, {}), Platform(Sources, {}, {"phy"}, {})}

ASSUME PlatformsAreMeant == Platforms \subseteq Hardware

-----------------------------------------------------------------------------
ItsIdle == ItsInit({<<>>})
GicIdle == GicInit({Controller("acpi", 2, 0, 1, {})})
ImsicIdle == ImsicInit({"none"}, {0})
WakeIdle == WakeInit({Platform({}, {}, {}, {})})

Init ==
  \/ part = "its" /\ ItsInit(Good \cup Bad) /\ GicIdle /\ ImsicIdle /\ WakeIdle
  \/ part = "gic" /\ GicInit(Controllers) /\ ItsIdle /\ ImsicIdle /\ WakeIdle
  \/ part = "imsic" /\ ImsicInit(Faults, 0..1) /\ ItsIdle /\ GicIdle /\ WakeIdle
  \/ part = "wakeup" /\ WakeInit(Platforms) /\ ItsIdle /\ GicIdle /\ ImsicIdle

Next ==
  \/ part = "its" /\ ItsNext /\ UNCHANGED <<part, gicVars, imsicVars, wakeVars>>
  \/ part = "gic" /\ GicNext /\ UNCHANGED <<part, itsVars, imsicVars, wakeVars>>
  \/ part = "imsic" /\ ImsicNext /\ UNCHANGED <<part, itsVars, gicVars, wakeVars>>
  \/ part = "wakeup" /\ WakeNext /\ UNCHANGED <<part, itsVars, gicVars, imsicVars>>

\* Fairness of each part in its own behaviours: the hart runs, and a working
\* timer that has been started expires.
Fairness ==
  /\ WF_gicVars(part = "gic" /\ HartTakes)
  /\ WF_wakeVars(part = "wakeup" /\ WakePayload) /\ WF_wakeVars(part = "wakeup" /\ os_u001_entry)
  /\ WF_wakeVars(part = "wakeup" /\ AnyFires)

Spec == Init /\ [][Next]_<<part, itsVars, gicVars, imsicVars, wakeVars>> /\ Fairness
=============================================================================
