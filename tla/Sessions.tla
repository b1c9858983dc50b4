------------------------------ MODULE Sessions ------------------------------
(***************************************************************************)
(* The arithmetic of focus sessions in the API: what is archived for a     *)
(* day, what is summed, and what the daily report shows of it.  Time is    *)
(* counted in ticks from the midnight of the archived day (30 s in the     *)
(* runs); a session covers the ticks start .. end - 1.  A name that        *)
(* displayAppName or appKey would change is not distinguished from its     *)
(* canonical form, and an entry without parsable times is left out.        *)
(***************************************************************************)
EXTENDS Integers, Sequences, SequencesExt, FiniteSets, FiniteSetsExt

CONSTANTS
    Apps,
    Hidden,      \* the apps that isVisibleAppUsageName refuses
    DayLength,   \* 24 hours
    MergeGap,    \* activitySessionMergeGap, 90 seconds
    OnlineCap    \* longest presence window, 2 minutes

ASSUME SessionsAssumption ==
    /\ Hidden \subseteq Apps
    /\ DayLength \in Nat /\ MergeGap \in Nat /\ OnlineCap \in Nat

Session == [app : Apps, start : Int, end : Int]
Visible(s) == s.app \notin Hidden
Larger(a, b)  == IF a < b THEN b ELSE a
Smaller(a, b) == IF a < b THEN a ELSE b
ClipTo(s, lo, hi) == [s EXCEPT !.start = Larger(@, lo), !.end = Smaller(@, hi)]

\* The elements of the finite set S in the strict order Before: the k-th is
\* the one with k - 1 elements before it.
InOrder(S, Before(_, _)) ==
    [k \in 1 .. Cardinality(S) |->
        CHOOSE x \in S : Cardinality({y \in S : Before(y, x)}) = k - 1]

\* Indices I of seq, by start, then end; sort.SliceStable keeps the order of
\* arrival between sessions that agree in both.
ByStart(seq, I) ==
    LET Before(i, j) ==
            \/ seq[i].start < seq[j].start
            \/ seq[i].start = seq[j].start /\ seq[i].end < seq[j].end
            \/ seq[i].start = seq[j].start /\ seq[i].end = seq[j].end /\ i < j
        order == InOrder(I, Before)
    IN  [k \in DOMAIN order |-> seq[order[k]]]

\* Each session gives way to the one before it (occupiedUntil).
Trim(sorted) ==
    LET Step(acc, s) ==
            LET from == Larger(s.start, acc.until)
            IN  IF s.end <= from THEN acc
                ELSE [until |-> s.end, out |-> Append(acc.out, [s EXCEPT !.start = from])]
    IN  FoldLeft(Step, [until |-> 0, out |-> <<>>], sorted).out

\* Mutant: fragments are merged whatever their applications.
MergeAnyApp(sorted) ==
    LET Step(out, s) ==
            IF out # <<>> /\ s.start <= Last(out).end + MergeGap
            THEN [out EXCEPT ![Len(out)].end = Larger(@, s.end)]
            ELSE Append(out, s)
    IN  FoldLeft(Step, <<>>, sorted)

mergeActivitySessions(sorted) ==
    LET Step(out, s) ==
            IF /\ out # <<>>
               /\ Last(out).app = s.app
               /\ s.start <= Last(out).end + MergeGap
            THEN [out EXCEPT ![Len(out)].end = Larger(@, s.end)]
            ELSE Append(out, s)
    IN  FoldLeft(Step, <<>>, sorted)

\* Clip to the day, drop exact replays, sort, trim overlaps, merge.
normalizeActivitySessions(sessions) ==
    LET clipped == [i \in DOMAIN sessions |-> ClipTo(sessions[i], 0, DayLength)]
        kept == {i \in DOMAIN clipped :
                    /\ Visible(clipped[i])
                    /\ clipped[i].end > clipped[i].start
                    /\ \A j \in 1 .. i - 1 : clipped[j] # clipped[i]}
    IN  mergeActivitySessions(Trim(ByStart(clipped, kept)))

Seconds(s) == s.end - s.start
Ticks(s) == s.start .. s.end - 1

\* Per app: seconds and number of sessions; total_seconds is their sum.
summarizeActivitySessions(sessions) ==
    LET Of(a) == {i \in DOMAIN sessions :
                    sessions[i].app = a /\ Visible(sessions[i]) /\ Seconds(sessions[i]) > 0}
        Sec(i) == Seconds(sessions[i])
    IN  [a \in {b \in Apps : Of(b) # {}} |->
            [seconds |-> MapThenSumSet(Sec, Of(a)), sessions |-> Cardinality(Of(a))]]

AppSeconds(apps) == LET Sec(a) == apps[a].seconds IN MapThenSumSet(Sec, DOMAIN apps)

(* What the daily report makes of it. *)

\* Consecutive points bound a window, cut off at OnlineCap.
presenceWindows(points) ==
    LET p == InOrder(points, <)
    IN  [i \in 1 .. Len(p) - 1 |->
            [start |-> p[i], end |-> Smaller(p[i + 1], p[i] + OnlineCap)]]

presenceOnlineSeconds(points) ==
    LET w == presenceWindows(points)
        Sec(i) == w[i].end - w[i].start
    IN  MapThenSumSet(Sec, DOMAIN w)

clippedActivitySessionsForPresence(sessions, windows) ==
    LET Pieces(s) == [k \in DOMAIN windows |-> ClipTo(s, windows[k].start, windows[k].end)]
        parts == FlattenSeq([i \in DOMAIN sessions |-> Pieces(sessions[i])])
    IN  mergeActivitySessions(Trim(ByStart(parts,
            {i \in DOMAIN parts : Visible(parts[i]) /\ parts[i].end > parts[i].start})))

\* rows[u]: the apps of user u, no apps for a user without a row.
RowsSeconds(rows) ==
    LET Sec(u) == AppSeconds(rows[u]) IN MapThenSumSet(Sec, DOMAIN rows)

\* Mutant: the rows are shown as they are.
CapNothing(rows, online) == [rows |-> rows, num |-> 1, den |-> 1]

\* All rows are scaled by one factor when together they exceed the time the
\* device was online.  The factor is kept as a fraction: the seconds shown
\* are rows[u][a].seconds * num / den.
capDailyAppUsageRowsToOnlineSeconds(rows, online) ==
    LET total == RowsSeconds(rows)
    IN  IF online <= 0 THEN [rows |-> [u \in {} |-> {}], num |-> 1, den |-> 1]
        ELSE IF total <= online THEN [rows |-> rows, num |-> 1, den |-> 1]
        ELSE [rows |-> rows, num |-> online, den |-> total]
=============================================================================
