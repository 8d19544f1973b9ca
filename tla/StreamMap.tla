----------------------------- MODULE StreamMap -----------------------------
(***************************************************************************)
(* What the SMMU driver promises its callers: val_smmu_map lets a device   *)
(* reach memory through one page table per substream, val_smmu_unmap takes *)
(* all of a device's page tables away, and neither touches another device. *)
(***************************************************************************)
CONSTANTS Devices, Ssids, Pgts, None

VARIABLE through   \* the page table each device's DMA goes through, or None

Init == through = [d \in Devices |-> [s \in Ssids |-> None]]

Map(d, s, p) == through' = [through EXCEPT ![d][s] = p]

Unmap(d) == through' = [through EXCEPT ![d] = [s \in Ssids |-> None]]

Next == \E d \in Devices : Unmap(d) \/ \E s \in Ssids, p \in Pgts : Map(d, s, p)

Spec == Init /\ [][Next]_through
=============================================================================
