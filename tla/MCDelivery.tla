----------------------------- MODULE MCDelivery -----------------------------
(* The delivery model on a small instance: one root service, one window    *)
(* service.                                                                *)
EXTENDS Delivery

CONSTANTS root, window

\* Two rows with failures of any kind; or a third row, and one of them a
\* payload the database refuses, from the root service alone and without
\* failures.
Refusals == {i \in DOMAIN log' : log'[i].bytes \in Unstorable}

Scenarios ==
    Len(log') = 3 \/ Refusals # {} =>
        /\ faults' = 0 /\ now' = 0
        /\ \A i \in DOMAIN log' : log'[i].src = root /\ log'[i].bytes < 3
        /\ Cardinality(Refusals) = 1
=============================================================================
