---------------------------- MODULE MCSmmuStream ----------------------------
(* Two devices with different streams on two SMMUs.                         *)
EXTENDS SmmuStream, TLC
CONSTANTS d1, d2

TwoSmmus == [d \in Devices |-> IF d = d1 THEN 0 ELSE 1]

Distinct == [d \in Devices |-> IF d = d1 THEN 5 ELSE 300]

Symmetry == Permutations(Ssids) \cup Permutations(Pgts)
=============================================================================
