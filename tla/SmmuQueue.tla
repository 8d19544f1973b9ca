----------------------------- MODULE SmmuQueue -----------------------------
(***************************************************************************)
(* The queue arithmetic of the SMMUv3 driver                               *)
(* (val/sys_arch_src/smmu_v3/smmu_v3.c). A queue of n = 2^log2nent entries *)
(* has a producer and a consumer position in 0 .. 2n-1: the entry in the   *)
(* low bits and one wrap bit above them. Bit 31 of the event queue's       *)
(* registers is kept apart.                                                *)
(***************************************************************************)
EXTENDS Integers

smmu_inc(x, n) == (x + 1) % (2 * n)

smmu_queue_full(prod, cons, n) ==
    prod % n = cons % n /\ prod \div n # cons \div n

smmu_queue_empty(prod, cons, n) ==
    prod % n = cons % n /\ prod \div n = cons \div n
=============================================================================
