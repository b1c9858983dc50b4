---- MODULE MCRetention ----
(* Two events of one device and role; an administrator posts a retention   *)
(* below the minimum with a mode that does not exist, and one at the       *)
(* safety floor.                                                           *)
EXTENDS Retention
CONSTANT d1
MCKey == [e \in Events |-> d1]
MCRequests == {[days |-> 0, mode |-> "other"], [days |-> 2]}
====
