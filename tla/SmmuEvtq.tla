------------------------------ MODULE SmmuEvtq ------------------------------
(***************************************************************************)
(* The event queue of the SMMUv3 driver: the SMMU writes events and moves  *)
(* EVENTQ_PROD, val_smmu_dump_eventq handles them and moves EVENTQ_CONS.   *)
(* When the queue is full the SMMU drops the event and raises its overflow *)
(* flag, unless the flag is still unacknowledged.                          *)
(*                                                                         *)
(* A register is a position and bit 31. An event stands for its number in  *)
(* the order of writing.                                                   *)
(***************************************************************************)
EXTENDS SmmuQueue, Sequences

CONSTANTS
    EvtqN,     \* entries of the queue, 2^IDR1.EVNTQS
    MaxEvents  \* bound on the events the SMMU raises

ASSUME EvtqAssumption == EvtqN \in Nat \ {0} /\ MaxEvents \in Nat

VARIABLES
    eprod_reg, econs_reg, \* SMMU_EVNTQ_PROD and SMMU_EVNTQ_CONS
    eprod, econs,         \* evntq->queue
    ebase,                \* the entries in memory
    gerror,               \* EVTQ_ABT_ERR or MSI_EVTQ_ABT_ERR is active
    epc,
    raised,               \* events raised, written or not
    written, handled,     \* history: events written, events handled
    pending,              \* history: events written when the dump began
    dropped,              \* history: an event was dropped between two dumps
    reports, missed       \* history: overflows reported, and one that was not

dumpVars == <<eprod, econs, epc, pending, reports, missed>>
evtqVars == <<eprod_reg, econs_reg, eprod, econs, ebase, gerror, epc, raised, written, handled,
              pending, dropped, reports, missed>>

Zero == [pos |-> 0, ovf |-> FALSE]

(* smmu_evnt_queue_init, and smmu_reset up to CR0_EVNTQEN.                  *)
EvtqInit ==
    /\ eprod_reg = Zero /\ econs_reg = Zero /\ eprod = Zero /\ econs = Zero
    /\ ebase = [e \in 0 .. EvtqN - 1 |-> 0]
    /\ gerror = FALSE /\ epc = "idle" /\ raised = 0
    /\ written = 0 /\ handled = <<>> /\ pending = 0
    /\ dropped = FALSE /\ reports = 0 /\ missed = FALSE

(* The SMMU raises an event: written when there is room, dropped when there *)
(* is none, or its write is aborted.                                        *)
EventWritten ==
    /\ raised < MaxEvents /\ ~smmu_queue_full(eprod_reg.pos, econs_reg.pos, EvtqN)
    /\ ebase' = [ebase EXCEPT ![eprod_reg.pos % EvtqN] = written + 1]
    /\ eprod_reg' = [eprod_reg EXCEPT !.pos = smmu_inc(@, EvtqN)]
    /\ raised' = raised + 1 /\ written' = written + 1
    /\ UNCHANGED <<dumpVars, econs_reg, gerror, handled, dropped>>

EventDropped ==
    /\ raised < MaxEvents /\ smmu_queue_full(eprod_reg.pos, econs_reg.pos, EvtqN)
    /\ eprod_reg' = [eprod_reg EXCEPT !.ovf = ~econs_reg.ovf]
    /\ raised' = raised + 1 /\ dropped' = (dropped \/ epc = "idle")
    /\ UNCHANGED <<dumpVars, econs_reg, ebase, gerror, written, handled>>

EventAborted ==
    /\ raised < MaxEvents
    /\ raised' = raised + 1 /\ gerror' = TRUE
    /\ UNCHANGED <<dumpVars, eprod_reg, econs_reg, ebase, written, handled, dropped>>
-----------------------------------------------------------------------------
(* smmu_evtq_thread, from the check of the global errors; an active error   *)
(* is never cleared.                                                        *)
smmu_gerror_check ==
    /\ epc = "idle"
    /\ epc' = IF gerror THEN "idle" ELSE "drain"
    /\ pending' = IF gerror THEN pending ELSE written
    /\ UNCHANGED <<eprod_reg, econs_reg, eprod, econs, ebase, gerror, raised, written, handled,
                   dropped, reports, missed>>

(* smmu_queue_remove_raw and smmu_handle_evt.                               *)
smmu_queue_read ==
    /\ epc = "drain" /\ ~smmu_queue_empty(eprod.pos, econs.pos, EvtqN)
    /\ handled' = Append(handled, ebase[econs.pos % EvtqN])
    /\ epc' = "read"
    /\ UNCHANGED <<eprod_reg, econs_reg, eprod, econs, ebase, gerror, raised, written, pending,
                   dropped, reports, missed>>

(* The position runs over one lap too few bits.                             *)
AdvanceWithoutWrap ==
    /\ epc = "read"
    /\ econs' = [pos |-> (econs.pos + 1) % EvtqN, ovf |-> FALSE]
    /\ econs_reg' = econs' /\ epc' = "drain"
    /\ UNCHANGED <<eprod_reg, eprod, ebase, gerror, raised, written, handled, pending, dropped,
                   reports, missed>>

Advance ==
    /\ epc = "read"
    /\ econs' = [pos |-> smmu_inc(econs.pos, EvtqN), ovf |-> FALSE]
    /\ econs_reg' = econs' /\ epc' = "drain"
    /\ UNCHANGED <<eprod_reg, eprod, ebase, gerror, raised, written, handled, pending, dropped,
                   reports, missed>>

Overflowed == eprod_reg.ovf # eprod.ovf

(* The loop ends on the positions read before.                              *)
SyncAfterTest ==
    /\ epc = "drain" /\ smmu_queue_empty(eprod.pos, econs.pos, EvtqN)
    /\ eprod' = eprod_reg
    /\ reports' = IF Overflowed THEN reports + 1 ELSE reports
    /\ dropped' = (dropped /\ ~Overflowed)
    /\ epc' = "finish"
    /\ UNCHANGED <<eprod_reg, econs_reg, econs, ebase, gerror, raised, written, handled, pending,
                   missed>>

(* The outer loop compares the registers, flag included.                    *)
SyncComparesFlag ==
    /\ epc = "drain" /\ smmu_queue_empty(eprod.pos, econs.pos, EvtqN)
    /\ eprod' = eprod_reg
    /\ reports' = IF Overflowed THEN reports + 1 ELSE reports
    /\ dropped' = (dropped /\ ~Overflowed)
    /\ epc' = IF eprod' = econs THEN "finish" ELSE "drain"
    /\ UNCHANGED <<eprod_reg, econs_reg, econs, ebase, gerror, raised, written, handled, pending,
                   missed>>

(* queue_sync_prod_in and the test of the outer loop.                       *)
queue_sync_prod_in ==
    /\ epc = "drain" /\ smmu_queue_empty(eprod.pos, econs.pos, EvtqN)
    /\ eprod' = eprod_reg
    /\ reports' = IF Overflowed THEN reports + 1 ELSE reports
    /\ dropped' = (dropped /\ ~Overflowed)
    /\ epc' = IF smmu_queue_empty(eprod'.pos, econs.pos, EvtqN) THEN "finish" ELSE "drain"
    /\ UNCHANGED <<eprod_reg, econs_reg, econs, ebase, gerror, raised, written, handled, pending,
                   missed>>

(* The overflow is acknowledged in the driver's copy of cons.               *)
Finish ==
    /\ epc = "finish"
    /\ econs' = [econs EXCEPT !.ovf = eprod.ovf] /\ epc' = "idle"
    /\ missed' = (missed \/ dropped) /\ dropped' = FALSE
    /\ UNCHANGED <<eprod_reg, econs_reg, eprod, ebase, gerror, raised, written, handled, pending,
                   reports>>

Smmu == EventWritten \/ EventDropped \/ EventAborted

Dump == smmu_gerror_check \/ smmu_queue_read \/ Advance \/ queue_sync_prod_in \/ Finish

EvtqNext == Smmu \/ Dump

EvtqSpec == EvtqInit /\ [][EvtqNext]_evtqVars

(* The processor runs the dump once it has been called.                     *)
EvtqFairSpec == EvtqSpec /\ WF_evtqVars(epc # "idle" /\ Dump)
-----------------------------------------------------------------------------
Events == INSTANCE Fifo WITH sent <- written, received <- handled

Registers == [pos : 0 .. 2 * EvtqN - 1, ovf : BOOLEAN]

(* Positions stay within two laps and events are counted.                   *)
EvtqTypeOK ==
    /\ {eprod_reg, econs_reg, eprod, econs} \subseteq Registers
    /\ ebase \in [0 .. EvtqN - 1 -> 0 .. MaxEvents]
    /\ epc \in {"idle", "drain", "read", "finish"}
    /\ gerror \in BOOLEAN /\ dropped \in BOOLEAN /\ missed \in BOOLEAN
    /\ {raised, written, pending, reports} \subseteq 0 .. MaxEvents

(* Every event written is handled once and in order: the SMMU never         *)
(* overwrites an entry the dump has still to read.                          *)
EventsInOrder == Events!Spec

(* A dump that is not stopped by a global error handles every event that    *)
(* was in the queue when it began.                                          *)
DumpHandlesAll == epc \in {"idle", "finish"} => Len(handled) >= pending

(* The first overflow is reported by the next dump.                         *)
FirstOverflowReported == missed => reports > 0

(* The dumps never report more overflows than events were lost.             *)
NoFalseReport == reports =< raised - written

(* What val_smmu_dump_eventq prints is right: the three above.              *)
DumpIsRight == DumpHandlesAll /\ FirstOverflowReported /\ NoFalseReport

(* Every dump reports that events were lost since the previous one ended.   *)
LossReported == ~missed

(* A dump returns once the SMMU has raised its last event.                  *)
DumpReturns == epc # "idle" ~> epc = "idle"
=============================================================================
