------------------------------- MODULE Ledger -------------------------------
(***************************************************************************)
(* What classifying promises, without processes, requests or failures:     *)
(* labels are only ever added to bookmarks; a bookmark is recorded as      *)
(* processed only with labels that have reached it; a record may be        *)
(* replaced or forgotten at any time.  A user may add and remove labels.   *)
(* Pipeline is shown to implement this.                                    *)
(***************************************************************************)
CONSTANTS Bookmarks, Labels, NoRow

VARIABLES
    carried,    \* the labels on each bookmark
    removed,    \* the labels a user took off, and nobody put back
    recorded    \* the record of each bookmark: its labels, or NoRow

ledgerVars == <<carried, removed, recorded>>

LedgerTypeOK ==
    /\ carried \in [Bookmarks -> SUBSET Labels]
    /\ removed \in [Bookmarks -> SUBSET Labels]
    /\ recorded \in [Bookmarks -> {NoRow} \cup SUBSET Labels]

Init ==
    /\ carried = [b \in Bookmarks |-> {}]
    /\ removed = [b \in Bookmarks |-> {}]
    /\ recorded = [b \in Bookmarks |-> NoRow]

Add(b, labels) ==
    /\ carried' = [carried EXCEPT ![b] = @ \cup labels]
    /\ removed' = [removed EXCEPT ![b] = @ \ labels]
    /\ UNCHANGED recorded

UserRemoves(b, l) ==
    /\ carried' = [carried EXCEPT ![b] = @ \ {l}]
    /\ removed' = [removed EXCEPT ![b] = @ \cup {l}]
    /\ UNCHANGED recorded

Record(b, labels) ==
    /\ labels \subseteq carried[b] \cup removed[b]
    /\ recorded' = [recorded EXCEPT ![b] = labels]
    /\ UNCHANGED <<carried, removed>>

Forget(forgotten) ==
    /\ recorded' = [b \in Bookmarks |-> IF b \in forgotten THEN NoRow ELSE recorded[b]]
    /\ UNCHANGED <<carried, removed>>

Next ==
    \/ \E b \in Bookmarks, labels \in SUBSET Labels : Add(b, labels) \/ Record(b, labels)
    \/ \E b \in Bookmarks, l \in Labels : UserRemoves(b, l)
    \/ \E forgotten \in SUBSET Bookmarks : Forget(forgotten)

Spec == Init /\ [][Next]_ledgerVars

(* Every label of a record is on its bookmark, or was taken off by a user.  *)
Backed ==
    \A b \in Bookmarks : recorded[b] # NoRow => recorded[b] \subseteq carried[b] \cup removed[b]
=============================================================================
