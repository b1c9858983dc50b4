---------------------------- MODULE ActiveWindow ----------------------------
(***************************************************************************)
(* The active-window tracker of the agent: a sampler asks the desktop for  *)
(* the focused application on every tick and folds the answer into an open *)
(* focus session; Collect, called by the loop that uploads, takes the      *)
(* closed sessions away and soft-closes the open one.                      *)
(*                                                                         *)
(* A time has two readings, as in Go: m, of the monotonic clock, which is  *)
(* what differences are taken of and which stands still while a Linux host *)
(* is suspended, and w, of the wall clock, which is what is uploaded.      *)
(* One unit is the sample interval.                                        *)
(***************************************************************************)
EXTENDS Integers, Sequences, FiniteSets, FiniteSetsExt

CONSTANTS
    Programs,            \* names of applications
    NoApp,           \* the empty name
    None,
    Display,         \* "wayland", "x11", or "bare": no display of its own
    AllowProcGuess,  \* DEVICEPULSE_ALLOW_PROC_GUESS
    MaxSampleGap, StaleAt,
    MaxTime, MaxSleeps, SleepTime, MaxFailures   \* bounds

ASSUME ActiveWindowAssumption ==
    /\ NoApp \notin Programs /\ Display \in {"wayland", "x11", "bare"}
    /\ AllowProcGuess \in BOOLEAN
    /\ {MaxSampleGap, StaleAt, MaxTime, MaxSleeps, SleepTime, MaxFailures} \subseteq Nat
    /\ None \notin [m : Nat, w : Nat]

VARIABLES
    now, slept, failures,
    tick,       \* the tick in the ticker's channel, or None
    pc,         \* sampler: "select", "asking", "hung" or "failed"
    asked,      \* time of the tick that is being worked on
    currentApp, sessionStart, sessionCounted,
    sessions,   \* closed since the last Collect
    cumulative,
    lastSampleAt,
    focusSource,
    idle,
    collected,  \* history: the sessions that Collect returned
    observed    \* history: the samples, in order

samplerVars == <<tick, pc, asked>>
trackerVars == <<currentApp, sessionStart, sessionCounted, sessions, lastSampleAt, focusSource, idle>>
windowVars == <<now, slept, failures, samplerVars, trackerVars, cumulative, collected, observed>>

Time == [m |-> now, w |-> now + slept]
Fails == failures < MaxFailures /\ failures' = failures + 1

(* What the desktop can answer: an application, the source that is named   *)
(* with it and whether it is a guess from CPU activity.                    *)

Answers(sources) == [app : Programs \cup {NoApp}, source : sources, guess : {FALSE}]
Nothing(source) == [app |-> NoApp, source |-> source, guess |-> FALSE]
Guesses(source) == {[app |-> a, source |-> source, guess |-> a # NoApp] : a \in Programs \cup {NoApp}}

\* The sessions of other users are tried in turn, then the guess.
getActiveWindowFromUserSessions ==
    Answers({"user-session"})
        \cup (IF AllowProcGuess THEN Guesses("user-session") ELSE {})

\* The first source that answers names the application; cleaning the name of
\* a system process leaves NoApp with that source.
getForegroundAppLinuxDetailed ==
    IF Display = "bare" THEN getActiveWindowFromUserSessions \cup {Nothing("none")}
    ELSE
        Answers(IF Display = "wayland"
                THEN {"gnome-extension", "gnome-eval", "kde", "sway"} ELSE {"x11"})
        \cup (IF AllowProcGuess THEN Guesses("proc-guess") ELSE {Nothing("none")})

focusQuality(source) ==
    CASE source \in {"", "none"} -> "unavailable"
      [] source = "proc-guess" -> "estimated"
      [] OTHER -> "accurate"

(* The open session.  Its end is worked out on a record s of the tracker.  *)

Fragment(s, end) ==
    [app |-> s.app, start |-> s.start, end |-> end, dur |-> end.m - s.start.m, cont |-> s.counted]

Tracker == [app |-> currentApp, start |-> sessionStart, counted |-> sessionCounted, closed |-> sessions]

\* Mutant: a session that has been counted is not closed again.
endSessionCounted(s, end) ==
    [s EXCEPT !.app = NoApp, !.start = None, !.counted = FALSE,
              !.closed = IF s.app # NoApp /\ ~s.counted /\ end.m - s.start.m > 0
                         THEN @ \cup {Fragment(s, end)} ELSE @]

endSession(s, end) ==
    [s EXCEPT !.app = NoApp, !.start = None, !.counted = FALSE,
              !.closed = IF s.app # NoApp /\ end.m - s.start.m > 0
                         THEN @ \cup {Fragment(s, end)} ELSE @]

\* A silence that is too long ends the session where it was last seen.
AfterGap(t) ==
    IF currentApp # NoApp /\ t.m - lastSampleAt.m > MaxSampleGap
    THEN endSession(Tracker, lastSampleAt) ELSE Tracker

Switch(s, t, app) ==
    IF app = NoApp THEN endSession(s, t)
    ELSE IF app # s.app
    THEN [endSession(s, t) EXCEPT !.app = app, !.start = t, !.counted = FALSE]
    ELSE s

SourceOf(r, app) == IF r.source # "" THEN r.source ELSE focusSource

\* Sample r, taken on the tick at t, of a user who is away or not.
observe(t, r, away) ==
    LET app == IF away THEN NoApp ELSE r.app
        s == Switch(AfterGap(t), t, app) IN
    /\ lastSampleAt' = t /\ idle' = away
    /\ focusSource' = SourceOf(r, app)
    /\ currentApp' = s.app /\ sessionStart' = s.start /\ sessionCounted' = s.counted
    /\ sessions' = s.closed
    /\ observed' = Append(observed, [at |-> t.m, app |-> app, guess |-> r.guess])

(* The sampler. *)

\* A tick is taken from the channel and a goroutine asks the desktop.
Ask(hangs) ==
    /\ pc = "select" /\ tick # None
    /\ asked' = tick /\ tick' = None
    /\ \/ ~hangs /\ pc' = "asking" /\ UNCHANGED failures
       \/ hangs /\ pc' = "hung" /\ Fails
    /\ UNCHANGED <<now, slept, trackerVars, cumulative, collected, observed>>

\* userIdle is asked only about an application and may have no answer.
Sample(r, away) ==
    /\ pc = "asking" /\ pc' = "select" /\ asked' = None
    /\ r \in getForegroundAppLinuxDetailed
    /\ away => r.app # NoApp
    /\ observe(asked, r, away)
    /\ UNCHANGED <<now, slept, failures, tick, cumulative, collected>>

\* foregroundAppWithTimeout gives up, or recovers a panic: no sample.
TimesOut == pc \in {"asking", "hung"}

SampleFails ==
    /\ TimesOut
    /\ pc = "asking" => Fails
    /\ pc = "hung" => UNCHANGED failures
    /\ pc' = "select" /\ asked' = None
    /\ UNCHANGED <<now, slept, tick, trackerVars, cumulative, collected, observed>>

\* A panic elsewhere ends the loop and its ticker ...
Panic ==
    /\ Fails
    /\ pc = "asking" /\ pc' = "failed" /\ asked' = None /\ tick' = None
    /\ UNCHANGED <<now, slept, trackerVars, cumulative, collected, observed>>

\* ... which runSampler starts again.
runSampler ==
    /\ pc = "failed" /\ pc' = "select"
    /\ UNCHANGED <<now, slept, failures, tick, asked, trackerVars, cumulative, collected, observed>>

(* Collect *)

Fresh == now - lastSampleAt.m <= StaleAt

CreditUpTo == lastSampleAt

\* Mutant: the rest of the session counts as a session of its own.
CountedAfterNever(s) == s.counted

CountedAfter(s) == TRUE

\* The tracker after the soft close of the open session.
SoftClose ==
    IF currentApp # NoApp /\ Fresh /\ CreditUpTo.m - sessionStart.m > 0
    THEN [Tracker EXCEPT !.start = CreditUpTo, !.counted = CountedAfter(Tracker),
                         !.closed = @ \cup {Fragment(Tracker, CreditUpTo)}]
    ELSE Tracker

Summary(a, s) ==
    LET own == {f \in s : f.app = a} IN
    [total |-> MapThenSumSet(LAMBDA f : f.dur, own), count |-> Cardinality({f \in own : ~f.cont})]

Collect ==
    LET s == SoftClose IN
    /\ sessionStart' = s.start /\ sessionCounted' = s.counted /\ sessions' = {}
    /\ cumulative' = [a \in Programs |->
                        [total |-> cumulative[a].total + Summary(a, s.closed).total,
                         count |-> cumulative[a].count + Summary(a, s.closed).count]]
    /\ collected' = collected \cup s.closed
    /\ UNCHANGED <<now, slept, failures, samplerVars, currentApp, lastSampleAt, focusSource, idle, observed>>

(* Time passes; a tick that finds the channel full is dropped. *)

Tick ==
    /\ now < MaxTime /\ now' = now + 1
    /\ tick' = IF tick = None /\ pc # "failed" THEN [m |-> now', w |-> now' + slept] ELSE tick
    /\ UNCHANGED <<slept, failures, pc, asked, trackerVars, cumulative, collected, observed>>

Suspend ==
    /\ slept < MaxSleeps * SleepTime /\ slept' = slept + SleepTime
    /\ UNCHANGED <<now, failures, samplerVars, trackerVars, cumulative, collected, observed>>

WindowInit ==
    /\ now = 0 /\ slept = 0 /\ failures = 0
    /\ tick = None /\ pc = "select" /\ asked = None
    /\ currentApp = NoApp /\ sessionStart = None /\ sessionCounted = FALSE
    /\ sessions = {} /\ cumulative = [a \in Programs |-> [total |-> 0, count |-> 0]]
    /\ lastSampleAt = [m |-> 0, w |-> 0] /\ focusSource = "" /\ idle = FALSE
    /\ collected = {} /\ observed = <<>>

WindowNext ==
    \/ \E hangs \in BOOLEAN : Ask(hangs)
    \/ \E r \in getForegroundAppLinuxDetailed, away \in BOOLEAN : Sample(r, away)
    \/ SampleFails \/ Panic \/ runSampler
    \/ Collect \/ Tick \/ Suspend

WindowSpec == WindowInit /\ [][WindowNext]_windowVars

(* Properties *)

Times == [m : 0..MaxTime, w : 0..(MaxTime + MaxSleeps * SleepTime)]
Fragments == [app : Programs, start : Times, end : Times, dur : 1..MaxTime, cont : BOOLEAN]

\* The type of every variable; no session is empty, and one that is open has
\* a start.
WindowTypeOK ==
    /\ tick \in Times \cup {None} /\ asked \in Times \cup {None}
    /\ pc \in {"select", "asking", "hung", "failed"}
    /\ currentApp \in Programs \cup {NoApp} /\ (currentApp = NoApp <=> sessionStart = None)
    /\ sessionStart \in Times \cup {None} /\ sessionCounted \in BOOLEAN
    /\ sessions \subseteq Fragments /\ collected \subseteq Fragments
    /\ lastSampleAt \in Times /\ idle \in BOOLEAN

\* Samples i and i + 1 are close enough for the time between to count.
Joined(i) == observed[i + 1].at - observed[i].at <= MaxSampleGap

\* The instants at which application a was seen and no silence followed.
Seen(a) ==
    UNION {observed[i].at..(observed[i + 1].at - 1) :
            i \in {j \in 1..(Len(observed) - 1) : observed[j].app = a /\ Joined(j)}}

Instants(fs, a) == UNION {f.start.m..(f.end.m - 1) : f \in {g \in fs : g.app = a}}

\* The instants of the open session, up to the last sample.
OpenInstants(a) == IF currentApp = a THEN sessionStart.m..(lastSampleAt.m - 1) ELSE {}

\* No application is credited with time at which the last sample had not seen
\* it, or that lies in a silence of the sampler, however ticks queue up, calls
\* hang and Collect cuts in.
CreditedIsSeen ==
    \A a \in Programs : Instants(sessions \cup collected, a) \cup OpenInstants(a) \subseteq Seen(a)

\* All time at which an application was seen is in a session: collected,
\* waiting to be collected, or open.
SeenIsCredited ==
    \A a \in Programs : Seen(a) \subseteq Instants(sessions \cup collected, a) \cup OpenInstants(a)

\* A sample that opens a period of focus.
Opens(i, a) ==
    observed[i].app = a /\ (i = 1 \/ (i > 1 /\ ~(observed[i - 1].app = a /\ Joined(i - 1))))

\* The cumulative totals count every instant once, and every period of focus
\* once although each Collect cuts the open one: the total is the number of
\* instants collected, the count the number of periods whose beginning was.
TotalsAgree ==
    \A a \in Programs :
        /\ cumulative[a].total = Cardinality(Instants(collected, a))
        /\ cumulative[a].count =
            Cardinality({i \in 1..Len(observed) :
                            Opens(i, a) /\ observed[i].at \in Instants(collected, a)})

\* The quality that is reported with an application that has the focus is the
\* one of the sample that last saw it: a guess is marked as estimated.
QualityOfSample ==
    currentApp # NoApp =>
        LET r == observed[Len(observed)] IN
        /\ r.app = currentApp
        /\ focusQuality(focusSource) = IF r.guess THEN "estimated" ELSE "accurate"

\* Every state is well formed, and what the tracker has credited, or is about
\* to, is what the samples have seen: all of it, nothing else, from that source.
CreditInv == WindowTypeOK /\ CreditedIsSeen /\ SeenIsCredited /\ QualityOfSample

\* What the comment on maxSampleGap says of a suspended machine, "that time
\* must not be credited to an app": a session lasts as long as it says.
SleepNotCredited == \A f \in sessions \cup collected : f.end.w - f.start.w = f.dur

=============================================================================
