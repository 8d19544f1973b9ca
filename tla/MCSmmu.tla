------------------------------- MODULE MCSmmu -------------------------------
(***************************************************************************)
(* The parts of the SMMU driver that share no variable: the life of three  *)
(* SMMUs, an event queue of two entries, the stream tables of two devices  *)
(* on two SMMUs, and translation tables of two entries a level. A          *)
(* behaviour exercises the one named by part.                              *)
(***************************************************************************)
EXTENDS SmmuLife, SmmuEvtq, SmmuStream, TLC

CONSTANTS d1, d2

VARIABLES part, mem, filled, offset, pgt_base, want, failed, creates

pgtVars == <<mem, filled, offset, pgt_base, want, failed, creates>>
all == <<part, vars, evtqVars, streamVars, pgtVars>>

TwoSmmus == (d1 :> 0) @@ (d2 :> 1)
Distinct == (d1 :> 5) @@ (d2 :> 300)

Pgt == INSTANCE PageTable WITH
    E <- 2, StartLevel <- 1, MaxTables <- 5, MaxLength <- 4, MaxRegions <- 1, MaxCreates <- 4,
    Observed <- {"one table", "room left"}

ASSUME InstanceAssumption == Pgt!PgtAssumption

SmmuInit ==
    /\ part \in {"life", "events", "streams", "tables"}
    /\ Init /\ EvtqInit /\ StreamInit /\ Pgt!Init

SmmuNext ==
    /\ UNCHANGED part
    /\ \/ part = "life" /\ Next /\ UNCHANGED <<evtqVars, streamVars, pgtVars>>
       \/ part = "events" /\ EvtqNext /\ UNCHANGED <<vars, streamVars, pgtVars>>
       \/ part = "streams" /\ StreamNext /\ UNCHANGED <<vars, evtqVars, pgtVars>>
       \/ part = "tables" /\ Pgt!Next /\ UNCHANGED <<vars, evtqVars, streamVars>>

(* The processor runs a dump of the events once it has been called.         *)
SmmuSpec ==
    SmmuInit /\ [][SmmuNext]_all /\ WF_evtqVars(part = "events" /\ epc # "idle" /\ Dump)
-----------------------------------------------------------------------------
(* The walk finds what val_pgt_create was asked for and nothing else.       *)
Translates == Pgt!Translates

(* What the driver allocates is held in exactly one place: descriptor       *)
(* tables by a master, translation tables by the hierarchy of their caller. *)
NothingLeaks == NoLeak /\ Pgt!NoLeak /\ Pgt!TablesAreATree
=============================================================================
