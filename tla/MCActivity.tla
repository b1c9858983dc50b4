----------------------------- MODULE MCActivity -----------------------------
EXTENDS Activity, TLC
SlotSymmetry == Permutations(Slots)
CONSTANTS u, a, b, hidden, e1, e2, e3

S(app, from, to) == [app |-> app, start |-> from, end |-> to]

\* A session from before midnight; sessions of one app with a pause between
\* them, and one of the other app that overlaps the second and is followed by
\* a short pause; an exact replay; a pause of the telemetry that is longer than
\* OnlineCap but filled by the merge; an upload without sessions that waited
\* in the queue.
MCPayload ==
    (e1 :> [user |-> u, at |-> 0, queued |-> FALSE,
            sessions |-> <<S(a, -1, 2), S(hidden, 2, 3), S(a, 4, 7)>>])
 @@ (e2 :> [user |-> u, at |-> 6, queued |-> FALSE,
            sessions |-> <<S(b, 5, 8), S(a, 11, 14), S(a, 11, 14)>>])
 @@ (e3 :> [user |-> u, at |-> 7, queued |-> TRUE, sessions |-> <<>>])
=============================================================================
