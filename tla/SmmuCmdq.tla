------------------------------ MODULE SmmuCmdq ------------------------------
(***************************************************************************)
(* The command queue of the SMMUv3 driver: the processor writes commands   *)
(* to memory and moves CMDQ_PROD, the SMMU executes them and moves         *)
(* CMDQ_CONS. smmu_tlbi_cfgi is the only caller: it issues the three or    *)
(* four commands of an invalidation and waits until they are consumed.     *)
(*                                                                         *)
(* A command stands for its number in the order of issue.                  *)
(***************************************************************************)
EXTENDS SmmuQueue, Sequences

CONSTANTS
    N,         \* entries of the queue, 2^IDR1.CMDQS
    Hyp,       \* IDR0.HYP: CMDQ_OP_TLBI_EL2_ALL is issued as well
    MaxCalls   \* bound on the calls of smmu_tlbi_cfgi

ASSUME CmdqAssumption ==
    /\ N \in Nat \ {0} /\ MaxCalls \in Nat
    /\ Hyp \in BOOLEAN

VARIABLES
    prod_reg, cons_reg,   \* SMMU_CMDQ_PROD and SMMU_CMDQ_CONS
    queue,     \* cmdq->queue, the driver's own copy of the positions
    base,      \* the entries in memory; 0 stands for a cleared one
    pc,        \* where smmu_tlbi_cfgi is
    left,      \* commands it still has to issue
    snap,      \* prod and cons as smmu_cmdq_poll_until_consumed read them
    calls, timedout,
    sent,      \* history: number of commands issued
    received,  \* history: the commands the SMMU executed
    stalled,   \* history: a poll has timed out
    overrun    \* history: an entry was written before its last command was executed

vars == <<prod_reg, cons_reg, queue, base, pc, left, snap, calls, timedout, sent, received,
          stalled, overrun>>

Batch == IF Hyp THEN 4 ELSE 3

(* smmu_cmd_queue_init, and smmu_reset up to CR0_CMDQEN.                    *)
Init ==
    /\ prod_reg = 0 /\ cons_reg = 0
    /\ queue = [prod |-> 0, cons |-> 0]
    /\ base = [e \in 0 .. N - 1 |-> 0]
    /\ pc = "idle" /\ left = 0 /\ calls = 0 /\ timedout = FALSE
    /\ snap = [prod |-> 0, cons |-> 0]
    /\ sent = 0 /\ received = <<>> /\ stalled = FALSE /\ overrun = FALSE

smmu_tlbi_cfgi ==
    /\ pc = "idle" /\ calls < MaxCalls
    /\ pc' = "write" /\ left' = Batch /\ calls' = calls + 1
    /\ UNCHANGED <<prod_reg, cons_reg, queue, base, snap, timedout, sent, received, stalled, overrun>>

(* The entry's address computed after smmu_inc_prod.                        *)
WriteAfterInc ==
    /\ pc = "write" /\ left > 0
    /\ ~smmu_queue_full(queue.prod, queue.cons, N)
    /\ base' = [base EXCEPT ![smmu_inc(prod_reg, N) % N] = sent + 1]
    /\ overrun' = (overrun \/ sent - Len(received) >= N)
    /\ pc' = "publish"
    /\ UNCHANGED <<prod_reg, cons_reg, queue, left, snap, calls, timedout, sent, received, stalled>>

(* smmu_cmdq_write_cmd. The wait for room looks at the driver's own copy of *)
(* the positions, which nothing updates.                                    *)
WriteEntry ==
    /\ pc = "write" /\ left > 0
    /\ ~smmu_queue_full(queue.prod, queue.cons, N)
    /\ base' = [base EXCEPT ![prod_reg % N] = sent + 1]
    /\ overrun' = (overrun \/ sent - Len(received) >= N)
    /\ pc' = "publish"
    /\ UNCHANGED <<prod_reg, cons_reg, queue, left, snap, calls, timedout, sent, received, stalled>>

Publish ==
    /\ pc = "publish"
    /\ prod_reg' = smmu_inc(prod_reg, N)
    /\ sent' = sent + 1 /\ left' = left - 1
    /\ pc' = "write"
    /\ UNCHANGED <<cons_reg, queue, base, snap, calls, timedout, received, stalled, overrun>>

(* smmu_cmdq_poll_until_consumed.                                           *)
PollStart ==
    /\ pc = "write" /\ left = 0
    /\ snap' = [prod |-> prod_reg, cons |-> cons_reg]
    /\ pc' = "poll"
    /\ UNCHANGED <<prod_reg, cons_reg, queue, base, left, calls, timedout, sent, received, stalled, overrun>>

PollAgain ==
    /\ pc = "poll" /\ ~smmu_queue_empty(snap.prod, snap.cons, N)
    /\ snap' = [snap EXCEPT !.cons = cons_reg]
    /\ UNCHANGED <<prod_reg, cons_reg, queue, base, pc, left, calls, timedout, sent, received, stalled, overrun>>

(* The wrap bit is left out of the comparison.                              *)
SameEntry == snap.prod % N = snap.cons % N

Consumed == smmu_queue_empty(snap.prod, snap.cons, N)

PollDone ==
    /\ pc = "poll" /\ Consumed
    /\ pc' = "idle" /\ timedout' = FALSE
    /\ UNCHANGED <<prod_reg, cons_reg, queue, base, left, snap, calls, sent, received, stalled, overrun>>

(* The counter restarted instead of leaving the loop.                       *)
PollRestarts ==
    /\ pc = "poll"
    /\ timedout' = TRUE /\ stalled' = TRUE
    /\ UNCHANGED <<prod_reg, cons_reg, queue, base, pc, left, snap, calls, sent, received, overrun>>

PollTimesOut ==
    /\ pc = "poll"
    /\ pc' = "idle" /\ timedout' = TRUE /\ stalled' = TRUE
    /\ UNCHANGED <<prod_reg, cons_reg, queue, base, left, snap, calls, sent, received, overrun>>

(* The SMMU executes the command at its own position.                       *)
SmmuExecutes ==
    /\ cons_reg # prod_reg
    /\ received' = Append(received, base[cons_reg % N])
    /\ cons_reg' = smmu_inc(cons_reg, N)
    /\ UNCHANGED <<prod_reg, queue, base, pc, left, snap, calls, timedout, sent, stalled, overrun>>

Done == pc = "idle" /\ calls = MaxCalls /\ cons_reg = prod_reg /\ UNCHANGED vars

Driver ==
    smmu_tlbi_cfgi \/ WriteEntry \/ Publish \/ PollStart \/ PollAgain \/ PollDone \/ PollTimesOut

Next == Driver \/ SmmuExecutes \/ Done

(* The processor runs the driver, and its poll loop counts down to its      *)
(* timeout. Nothing is asked of the SMMU: it may stall for ever.            *)
Fairness == WF_vars(Driver) /\ WF_vars(PollTimesOut)

Spec == Init /\ [][Next]_vars

FairSpec == Spec /\ Fairness
-----------------------------------------------------------------------------
F == INSTANCE Fifo WITH sent <- sent, received <- received

(* As long as the queue was not overrun, commands are executed in the order *)
(* they were issued, each exactly once: an invalidation is never overtaken. *)
InOrder == F!Init /\ [][~overrun' => F!Next]_<<sent, received>>

(* When smmu_tlbi_cfgi returns without a timeout the SMMU has executed      *)
(* every command issued so far, those of earlier calls that timed out       *)
(* included, unless the queue was overrun.                                  *)
SyncComplete == (pc = "idle" /\ ~timedout /\ ~overrun) => Len(received) = sent

(* No entry is overwritten before the SMMU has executed it, until a poll    *)
(* has timed out.                                                           *)
NeverOverrun == ~stalled => ~overrun

(* Every invalidation comes to its end, whatever the SMMU does.             *)
Returns == pc # "idle" ~> pc = "idle"
=============================================================================
