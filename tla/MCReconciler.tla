--------------------------- MODULE MCReconciler ---------------------------
(* Two groups and a name that is in no group; a second process whose config *)
(* has one name twice, with the labels in either order.                     *)
EXTENDS Reconciler

CONSTANTS p1, p2, reading, work, mine

MCGroups ==
    [p \in Processes |->
        <<[name |-> reading, labels |-> <<2, 1>>],
          [name |-> work, labels |-> <<3>>]>>]

TwinGroups ==
    [p \in Processes |->
        <<[name |-> reading, labels |-> <<2, 1>>]>> \o
        (IF p = p1 THEN <<>> ELSE <<[name |-> reading, labels |-> <<1, 2>>]>>)]

MCUserFilters == {<<1>>}
=============================================================================
