------------------------------ MODULE MCSuite ------------------------------
EXTENDS SuiteProofs

(* Three of the six modules, with two tests each.                           *)
Small ==
    << [base |-> 200, tests |-> <<201, 202>>, pcie |-> FALSE],
       [base |-> 800, tests |-> <<801, 825>>, pcie |-> TRUE],
       [base |-> 1100, tests |-> <<1101, 1102>>, pcie |-> FALSE] >>

Lists(items) == {<<>>} \cup {<<x>> : x \in items}

CommandLines ==
    [os : BOOLEAN,
     skip : Lists({0, 200, 801, Junk}) \cup {<<202, 800>>},
     t : Lists({202, 801, 299, Junk}) \cup {<<201, 825>>},
     m : Lists({200, 800, 810, Junk}) \cup {<<1100, 800>>}]
=============================================================================
