----------------------------- MODULE MCTestRun -----------------------------
(* Instances of TestRun for TLC.                                           *)
EXTENDS TestRunProofs

T(n, kind) == [num |-> n, kind |-> kind]

(* two tests on all harts back to back                                      *)
AllAll == <<T(3, "all"), T(4, "all")>>

(* every kind, and a deselected test (5)                                    *)
Mixed == <<T(3, "all"), T(1, "seq"), T(5, "all"), T(201, "one")>>
Late == <<T(1, "seq"), T(3, "all"), T(5, "all"), T(201, "one")>>
=============================================================================
