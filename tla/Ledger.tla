------------------------------- MODULE Ledger -------------------------------
(***************************************************************************)
(* What telemetry delivery promises, whatever fails: every payload the     *)
(* agent has collected is pending until it is stored, once, or given up    *)
(* for good.  Nothing that was given up is stored later, and nothing       *)
(* stored is taken back.                                                   *)
(***************************************************************************)
EXTENDS Naturals, Sequences

CONSTANT Payloads
VARIABLES pending,  \* collected, and still on the way
          stored,   \* stored by the API, in order
          lost      \* given up

ledger == <<pending, stored, lost>>

Known == pending \cup {stored[k] : k \in DOMAIN stored} \cup lost

Init == pending = {} /\ stored = <<>> /\ lost = {}

\* A payload is collected; the room it takes may cost pending ones theirs.
Collect(p, evicted) ==
    /\ p \notin Known
    /\ evicted \subseteq pending \cup {p}
    /\ pending' = (pending \cup {p}) \ evicted
    /\ lost' = lost \cup evicted
    /\ UNCHANGED stored

Store(p) ==
    /\ p \in pending
    /\ pending' = pending \ {p}
    /\ stored' = Append(stored, p)
    /\ UNCHANGED lost

GiveUp(gone) ==
    /\ gone \subseteq pending /\ gone # {}
    /\ pending' = pending \ gone
    /\ lost' = lost \cup gone
    /\ UNCHANGED stored

Next == \/ \E p \in Payloads, evicted \in SUBSET Payloads : Collect(p, evicted)
        \/ \E p \in Payloads : Store(p)
        \/ \E gone \in SUBSET Payloads : GiveUp(gone)

Spec == Init /\ [][Next]_ledger
=============================================================================
