----------------------- MODULE BrowserHistory_proofs -----------------------
(***************************************************************************)
(* Proofs about the browser history, for any databases, pages, policies,   *)
(* limits and numbers of visits and failures: no visit is taken for sent   *)
(* that was not, a visit is queued again only when the record of it is     *)
(* lost, and the archive shows what was stored.                            *)
(***************************************************************************)
EXTENDS BrowserHistory, FiniteSetTheorems, WellFoundedInduction, TLAPS

\* Everything that the databases record.
Rows == UNION {history[d] : d \in Databases}

\* The record of the visits already sent that the next Collect consults.
Record == IF loaded THEN sent ELSE stateFile

AgentPolicy == [collect : BOOLEAN, mode : Modes, limit : Nat]
CollectState == [pc : {"idle", "next"} \cup Databases, left : SUBSET Databases,
                 sig : Nat, found : SUBSET Entry]
CycleState == [pc : {"start", "wait", "push", "commit"}, history : SUBSET Entry, policy : AgentPolicy]
Payload == [id : Nat, history : SUBSET Entry]
Request == [pc : {"idle", "put"}, id : Nat, kept : SUBSET Entry, days : SUBSET Nat]
Object == [day : Nat, id : Nat, run : Nat, entries : SUBSET Entry]
Document == [id : Nat, kept : SUBSET Entry]

TypeInv ==
    /\ clock \in 0..MaxVisits /\ changes \in 0..MaxPolicies /\ faults \in 0..MaxFaults
    /\ history \in [Databases -> SUBSET Entry] /\ version \in [Databases -> Nat]
    /\ policy \in Policies /\ polled \in AgentPolicy
    /\ collect \in CollectState /\ running \in BOOLEAN
    /\ scanCache \in [Databases -> [sig : Nat, rows : SUBSET Entry]]
    /\ loaded \in BOOLEAN
    /\ sent \subseteq Entry /\ pending \subseteq Entry /\ stateFile \subseteq Entry
    /\ cycle \in CycleState
    /\ pushes \in Nat /\ queue \subseteq Payload
    /\ ingest \in Request /\ objects \subseteq Object /\ docs \subseteq Document

\* The guard's flag, and the event ids.
GuardInv ==
    /\ running <=> collect.pc # "idle"
    /\ cycle.pc = "wait" => running
    /\ \A p \in queue : p.id \in 1..pushes

\* A time names one visit; whatever the collector holds was read from a database.
RowInv ==
    /\ \A e \in Rows : e.at <= clock
    /\ \A e, f \in Rows : e.at = f.at => e = f
    /\ collect.found \subseteq Rows
    /\ \A d \in Databases : scanCache[d].rows \subseteq Rows
    /\ sent \subseteq Rows /\ pending \subseteq Rows /\ stateFile \subseteq Rows
    /\ Cardinality(sent) <= SentLimit /\ Cardinality(stateFile) <= SentLimit

\* What is pending becomes sent only after its payload was queued: until then
\* it is part of the payload that is about to be, or given up.
SkipInv ==
    /\ NothingSkipped
    /\ Times(pending) \subseteq
           queued \cup stray \cup (IF cycle.pc = "push" THEN Times(cycle.history) ELSE {})

\* Collect works on a record that is loaded.  A visit that was queued is in the
\* record, about to be committed to it, or forgotten; so one that is about to
\* be queued again is forgotten.
AgainInv ==
    /\ AgainOnlyIfForgotten
    /\ pending # {} \/ collect.pc # "idle" => loaded
    /\ cycle.pc = "wait" => cycle.history = {}
    /\ cycle.pc = "push" /\ cycle.history # {} =>
           /\ collect.pc = "idle"
           /\ Times(cycle.history) \subseteq Times(pending)
           /\ Times(cycle.history) \cap queued \subseteq forgotten
    /\ queued \subseteq forgotten \cup Times(Record)
           \cup (IF cycle.pc = "commit" /\ collect.pc = "idle" THEN Times(pending) ELSE {})

\* What is stored has an entry of its key, as recent, in some object.
Covered(e) == \E o \in objects : \E f \in o.entries :
                  browserHistoryDedupeKey(f) = browserHistoryDedupeKey(e) /\ f.at >= e.at

\* An object holds entries of its day.  A request has put what it kept for the
\* days that are done, and a document is stored when all of them are.
ArchiveInv ==
    /\ \A o \in objects : \A e \in o.entries : Day(e) = o.day
    /\ ingest.pc = "put" => \A e \in extractNewBrowserHistoryEntries(ingest.kept) :
           Day(e) \in ingest.days \/ \E o \in objects : e \in o.entries
    /\ \A doc \in docs : \A e \in doc.kept : Covered(e)

IInv == TypeInv /\ GuardInv /\ RowInv /\ SkipInv /\ AgainInv /\ ArchiveInv

-----------------------------------------------------------------------------
(* Facts about the constants and the operators. *)

LEMMA Constants ==
    /\ MaxVisits \in Nat /\ MaxPolicies \in Nat /\ MaxFaults \in Nat
    /\ SentLimit \in Nat \ {0} /\ DayLength \in Nat \ {0}
    /\ Policies \subseteq AgentPolicy /\ FirstPolicy \in Policies
    /\ \A p \in Pages : Site[p] \in Sites \cup {NoHost}
    /\ "idle" \notin Databases /\ "next" \notin Databases
BY BrowserAssumption DEF AgentPolicy

LEMMA LeastNat ==
    ASSUME NEW T, T \subseteq Nat, T # {}
    PROVE  \E x \in T : \A y \in T : x <= y
<1> DEFINE R == {ss \in Nat \X Nat : ss[1] < ss[2]}
<1>1. IsWellFoundedOn(R, Nat)
  BY NatLessThanWellFounded DEF OpToRel
<1>2. \A x, y \in Nat : x < y => <<x, y>> \in R
  OBVIOUS
<1> HIDE DEF R
<1>3. PICK x \in T : \A y \in T : ~(<<y, x>> \in R)
  BY <1>1, WFMin
<1>4. \A y \in T : ~(y < x)
  BY <1>2, <1>3
<1> QED
  BY <1>4

LEMMA EntryTime ==
    ASSUME NEW e \in Entry
    PROVE  e.at \in 1..MaxVisits /\ e.at \in Nat /\ e.at <= MaxVisits /\ e.at >= 1
BY Constants DEF Entry, Visits

\* A later visit is not of an earlier day.
LEMMA DivMonotone ==
    ASSUME NEW n \in Nat \ {0}, NEW x \in Nat, NEW y \in Nat, x <= y
    PROVE  x \div n <= y \div n
<1> DEFINE p == x \div n
           q == y \div n
<1>1. p \in Int /\ q \in Int
  OBVIOUS
<1>2. n * p <= x /\ y < n * q + n
  OBVIOUS
<1> HIDE DEF p, q
<1>3. ASSUME q + 1 <= p PROVE FALSE
  <2>1. n * (q + 1) <= n * p
    BY <1>1, <1>3
  <2>2. n * (q + 1) = n * q + n
    BY <1>1
  <2>3. n * p \in Int /\ n * q \in Int
    BY <1>1
  <2> QED BY <1>2, <2>1, <2>2, <2>3
<1>4. p <= q
  BY <1>1, <1>3
<1> QED
  BY <1>4 DEF p, q

\* Of some entries one is the oldest and one the latest.
LEMMA OldestEntry ==
    ASSUME NEW S, S \subseteq Entry, S # {}
    PROVE  \E e \in S : \A f \in S : e.at <= f.at
<1> DEFINE T == {e.at : e \in S}
<1>1. T \subseteq Nat /\ T # {}
  BY EntryTime
<1>2. PICK x \in T : \A y \in T : x <= y
  <2> HIDE DEF T
  <2> QED BY <1>1, LeastNat
<1> QED
  BY <1>2

LEMMA LatestEntry ==
    ASSUME NEW S, S \subseteq Entry, S # {}
    PROVE  \E e \in S : \A f \in S : f.at <= e.at
<1> DEFINE T == {MaxVisits - e.at : e \in S}
<1>1. T \subseteq Nat /\ T # {}
  BY EntryTime, Constants
<1>2. PICK x \in T : \A y \in T : x <= y
  <2> HIDE DEF T
  <2> QED BY <1>1, LeastNat
<1>3. PICK e \in S : x = MaxVisits - e.at
  BY <1>2
<1>4. \A f \in S : MaxVisits - e.at <= MaxVisits - f.at
  BY <1>2, <1>3
<1>5. \A f \in S : f.at \in Nat /\ e.at \in Nat
  BY EntryTime
<1>6. \A f \in S : f.at <= e.at
  BY <1>4, <1>5, Constants
<1> QED
  BY <1>6

\* The newest n of some entries are no more than n, when no two are of the same time.
LEMMA NewestBound ==
    ASSUME NEW S, S \subseteq Entry, \A e, f \in S : e.at = f.at => e = f,
           NEW n \in Nat \ {0}
    PROVE  Cardinality(Newest(S, n)) <= n
<1> DEFINE at == [e \in S |-> e.at]
           N == Newest(S, n)
<1>1. IsFiniteSet(S)
  <2>1. at \in Injection(S, 1..MaxVisits)
    BY EntryTime DEF Injection, IsInjective
  <2>2. IsFiniteSet(1..MaxVisits)
    BY FS_Interval, Constants
  <2> QED BY <2>1, <2>2, FS_Injection
<1>2. N \subseteq S /\ IsFiniteSet(N)
  <2>1. N \subseteq S
    BY DEF Newest
  <2> QED BY <1>1, <2>1, FS_Subset
<1>3. CASE N = {}
  BY <1>3, FS_EmptySet
<1>4. CASE N # {}
  <2>1. PICK e \in N : \A f \in N : e.at <= f.at
    BY <1>2, <1>4, OldestEntry
  <2> DEFINE Later == {f \in S : f.at > e.at}
  <2>2. Cardinality(Later) < n
    BY DEF Newest
  <2>3. N \ {e} \subseteq Later
    <3> SUFFICES ASSUME NEW f \in N, f # e
                 PROVE  f \in Later
      OBVIOUS
    <3>1. f.at # e.at /\ f.at >= e.at
      BY <1>2, <2>1
    <3>2. f.at \in Nat /\ e.at \in Nat
      BY <1>2, EntryTime
    <3> QED BY <1>2, <3>1, <3>2
  <2>4. Later \subseteq S
    OBVIOUS
  <2> HIDE DEF Later, N
  <2>5. IsFiniteSet(Later) /\ Cardinality(N \ {e}) <= Cardinality(Later)
    <3>1. IsFiniteSet(Later)
      BY <1>1, <2>4, FS_Subset
    <3> QED BY <2>3, <3>1, FS_Subset
  <2>6. Cardinality(N \ {e}) = Cardinality(N) - 1
    BY <1>2, FS_RemoveElement
  <2>7. Cardinality(N) \in Nat /\ Cardinality(Later) \in Nat
    BY <1>2, <2>5, FS_CardinalityType
  <2> QED BY <2>2, <2>5, <2>6, <2>7 DEF N
<1> QED
  BY <1>3, <1>4

\* The policies change where an entry points, never its time.
LEMMA PolicyEntries ==
    ASSUME NEW S, S \subseteq Entry, NEW pol
    PROVE  /\ applyBrowserHistoryPolicy(S, pol) \subseteq Entry
           /\ Times(applyBrowserHistoryPolicy(S, pol)) \subseteq Times(S)
<1> DEFINE kept == IF pol.limit > 0 THEN Newest(S, pol.limit) ELSE S
           cut(e) == [e EXCEPT !.url = IF @ \in Pages /\ Site[@] # NoHost THEN Site[@] ELSE @]
<1>1. kept \subseteq S
  BY DEF Newest
<1>2. \A e \in S : cut(e) \in Entry /\ cut(e).at = e.at
  BY Constants DEF Entry
<1>3. applyBrowserHistoryPolicy(S, pol) = IF pol.mode # "domain_only" THEN kept ELSE {cut(e) : e \in kept}
  BY DEF applyBrowserHistoryPolicy
<1> HIDE DEF kept, cut
<1> QED
  BY <1>1, <1>2, <1>3 DEF Times

LEMMA EnforcedEntries ==
    ASSUME NEW S, S \subseteq Entry
    PROVE  enforceBrowserHistoryPolicy(S) \subseteq Entry
<1>1. \A e \in Entry : (e.url \in Pages => Site[e.url] # NoHost) =>
          [e EXCEPT !.url = IF @ \in Pages THEN Site[@] ELSE @] \in Entry
  BY Constants DEF Entry
<1> QED
  BY <1>1 DEF enforceBrowserHistoryPolicy

LEMMA ScanRows ==
    ASSUME NEW d \in Databases
    PROVE  Scan(d) \subseteq history[d]
BY DEF Scan, scanSafariDB, scanChromiumDB, Newest

LEMMA BatchRows == Batch \subseteq collect.found /\ \A e \in Batch : e \notin sent
BY DEF Batch, Unsent, Oldest, hasSent

LEMMA RememberedRows == Remembered \subseteq sent \cup pending
BY DEF Remembered, pruneSentEntries, Newest

\* In the invariants a step is one of these actions, with what it changes.
LEMMA Steps ==
    ASSUME [Next]_vars
    PROVE  \/ \E d \in Databases, p \in Pages : Visit(d, p)
           \/ \E pol \in Policies : SetPolicy(pol)
           \/ policyPoller
           \/ StartCycle
           \/ \E d \in Databases : dbSignature(d)
           \/ \E d \in Databases : cachedScan(d)
           \/ \E d \in Databases : ScanFails(d)
           \/ FinishCollect
           \/ CollectPanics
           \/ CollectTimeout
           \/ Push
           \/ PushFails
           \/ \E stored \in BOOLEAN : Commit(stored)
           \/ \E file \in {stateFile, Torn} : Restart(file)
           \/ \E p \in queue : BeginIngest(p)
           \/ \E day \in ingest.days : PutDay(day)
           \/ IngestFails
           \/ \E answered \in BOOLEAN : StoreTelemetry(answered)
           \/ UNCHANGED vars
BY DEF Next, Collector, MainLoop, Server, Fault

-----------------------------------------------------------------------------
(* The types. *)

LEMMA InitTypes == Init => TypeInv
<1> SUFFICES ASSUME Init PROVE TypeInv
  OBVIOUS
<1>1. {} \in SUBSET Entry /\ {} \in SUBSET Databases /\ {} \in SUBSET Nat
  OBVIOUS
<1>2. collect \in CollectState
  BY <1>1 DEF Init, Resting, CollectState
<1>3. cycle \in CycleState /\ polled \in AgentPolicy /\ policy \in Policies
  BY <1>1, Constants DEF Init, CycleState
<1>4. ingest \in Request
  BY <1>1 DEF Init, NoRequest, Request
<1>5. history \in [Databases -> SUBSET Entry] /\ version \in [Databases -> Nat]
  BY <1>1 DEF Init
<1>6. scanCache \in [Databases -> [sig : Nat, rows : SUBSET Entry]]
  BY <1>1 DEF Init
<1>7. clock \in 0..MaxVisits /\ changes \in 0..MaxPolicies /\ faults \in 0..MaxFaults
  BY Constants DEF Init
<1>8. /\ running = FALSE /\ loaded = FALSE /\ pushes = 0
      /\ sent = {} /\ pending = {} /\ stateFile = {} /\ queue = {} /\ objects = {} /\ docs = {}
  BY DEF Init
<1> QED
  BY <1>2, <1>3, <1>4, <1>5, <1>6, <1>7, <1>8 DEF TypeInv

LEMMA VisitTypes ==
    ASSUME TypeInv, NEW d \in Databases, NEW p \in Pages, Visit(d, p)
    PROVE  TypeInv'
<1>1. clock' \in 0..MaxVisits /\ clock' \in Visits
  BY Constants DEF Visit, TypeInv, Visits
<1>2. [db |-> d, url |-> p, at |-> clock'] \in Entry
  BY <1>1 DEF Entry
<1>3. history' \in [Databases -> SUBSET Entry]
  BY <1>2 DEF Visit, TypeInv
<1>4. version' \in [Databases -> Nat]
  BY DEF Visit, TypeInv
<1> QED
  BY <1>1, <1>3, <1>4 DEF Visit, TypeInv, policyVars, collectorVars, queueVars, serverVars

LEMMA PolicyTypes ==
    ASSUME TypeInv, policyPoller \/ \E pol \in Policies : SetPolicy(pol)
    PROVE  TypeInv'
<1>1. CASE \E pol \in Policies : SetPolicy(pol)
  BY <1>1, Constants DEF SetPolicy, TypeInv, userVars, collectorVars, queueVars, serverVars
<1>2. CASE policyPoller
  <2>1. policy \in AgentPolicy
    BY Constants DEF TypeInv
  <2>2. (policy.collect /\ policy.mode # "disabled") \in BOOLEAN
    OBVIOUS
  <2>3. PICK b \in BOOLEAN : polled' = [policy EXCEPT !.collect = b]
    BY <1>2, <2>2, Zenon DEF policyPoller
  <2>4. polled' \in AgentPolicy
    BY <2>1, <2>3 DEF AgentPolicy
  <2> QED
    BY <1>2, <2>4 DEF policyPoller, TypeInv, userVars, collectorVars, queueVars, serverVars
<1> QED
  BY <1>1, <1>2

LEMMA StartTypes ==
    ASSUME TypeInv, StartCycle
    PROVE  TypeInv'
<1>1. (polled.collect /\ ~running) \in BOOLEAN
  OBVIOUS
<1>2. PICK called \in BOOLEAN :
        /\ cycle' = [pc |-> IF called THEN "wait" ELSE "push", history |-> {}, policy |-> polled]
        /\ running' = (running \/ called)
        /\ loaded' = (loaded \/ called)
        /\ sent' = IF called THEN loadState ELSE sent
        /\ collect' = IF called THEN [Resting EXCEPT !.pc = "next", !.left = Databases] ELSE collect
  BY <1>1, Zenon DEF StartCycle
<1>3. {} \in SUBSET Entry
  OBVIOUS
<1>4. cycle' \in CycleState
  BY <1>2, <1>3 DEF CycleState, TypeInv
<1>5. collect' \in CollectState
  BY <1>2, <1>3 DEF CollectState, Resting, TypeInv
<1>6. running' \in BOOLEAN /\ loaded' \in BOOLEAN
  BY <1>2, Zenon
<1>7. sent' \subseteq Entry
  BY <1>2 DEF loadState, TypeInv
<1> QED
  BY <1>4, <1>5, <1>6, <1>7 DEF StartCycle, TypeInv, userVars, policyVars, queueVars, serverVars

LEMMA ScanTypes ==
    ASSUME TypeInv, NEW d \in Databases, dbSignature(d) \/ cachedScan(d) \/ ScanFails(d)
    PROVE  TypeInv'
<1>1. Scan(d) \subseteq Entry /\ scanCache[d].rows \subseteq Entry /\ version[d] \in Nat
  BY ScanRows DEF TypeInv
<1>2. CASE dbSignature(d)
  <2>1. collect' \in CollectState
    BY <1>1, <1>2 DEF dbSignature, CollectState, TypeInv
  <2> QED
    BY <1>2, <2>1 DEF dbSignature, TypeInv, userVars, policyVars, queueVars, serverVars
<1>3. CASE cachedScan(d)
  <2>1. collect' \in CollectState
    BY <1>1, <1>3 DEF cachedScan, CollectState, TypeInv
  <2>2. scanCache' \in [Databases -> [sig : Nat, rows : SUBSET Entry]]
    BY <1>1, <1>3 DEF cachedScan, CollectState, TypeInv
  <2> QED
    BY <1>3, <2>1, <2>2 DEF cachedScan, TypeInv, userVars, policyVars, queueVars, serverVars
<1>4. CASE ScanFails(d)
  <2>1. collect' \in CollectState
    BY <1>4 DEF ScanFails, CollectState, TypeInv
  <2> QED
    BY <1>4, <2>1, Constants
       DEF ScanFails, FailureNotCached, TypeInv, userVars, policyVars, queueVars, serverVars
<1> QED
  BY <1>2, <1>3, <1>4

LEMMA RestingType == Resting \in CollectState
<1>1. {} \in SUBSET Entry /\ {} \in SUBSET Databases
  OBVIOUS
<1> QED
  BY <1>1 DEF Resting, CollectState

LEMMA FinishTypes ==
    ASSUME TypeInv, FinishCollect
    PROVE  TypeInv'
<1>1. Batch \subseteq Entry
  BY BatchRows DEF TypeInv, CollectState
<1> DEFINE out == applyBrowserHistoryPolicy(Batch, cycle.policy)
<1>2. out \subseteq Entry
  BY <1>1, PolicyEntries
<1>3. cycle' = [cycle EXCEPT !.pc = "push", !.history = out] \/ cycle' = cycle
  BY DEF FinishCollect
<1> HIDE DEF out
<1>4. cycle' \in CycleState
  BY <1>2, <1>3 DEF CycleState, TypeInv
<1> QED
  BY <1>1, <1>4, RestingType
     DEF FinishCollect, Pending, TypeInv, userVars, policyVars, queueVars, serverVars

LEMMA GiveUpTypes ==
    ASSUME TypeInv, CollectPanics \/ CollectTimeout \/ PushFails
    PROVE  TypeInv'
<1>1. cycle' \in CycleState
  BY DEF CollectPanics, CollectTimeout, PushFails, CycleState, TypeInv
<1>2. faults' \in 0..MaxFaults
  BY Constants DEF CollectPanics, CollectTimeout, PushFails, TypeInv
<1>3. collect' \in CollectState /\ running' \in BOOLEAN
  BY RestingType DEF CollectPanics, CollectTimeout, PushFails, Recover, TypeInv, collectorVars
<1>4. UNCHANGED <<clock, history, version, policy, polled, changes, scanCache, loaded, sent, pending,
                  stateFile, pushes, queue, ingest, objects, docs>>
  BY DEF CollectPanics, CollectTimeout, PushFails, userVars, policyVars, collectorVars, queueVars, serverVars
<1> QED
  BY <1>1, <1>2, <1>3, <1>4 DEF TypeInv

LEMMA PushTypes ==
    ASSUME TypeInv, Push
    PROVE  TypeInv'
<1>1. cycle' \in CycleState
  BY DEF Push, CycleState, TypeInv
<1>2. pushes' \in Nat
  BY DEF Push, TypeInv, queueVars
<1>3. [id |-> pushes', history |-> cycle.history] \in Payload
  BY <1>2 DEF Payload, TypeInv, CycleState
<1>4. queue' \subseteq Payload
  BY <1>3 DEF Push, TypeInv, queueVars
<1> QED
  BY <1>1, <1>2, <1>4 DEF Push, TypeInv, userVars, policyVars, collectorVars, serverVars

LEMMA CommitTypes ==
    ASSUME TypeInv, NEW stored \in BOOLEAN, Commit(stored)
    PROVE  TypeInv'
<1>1. cycle' \in CycleState
  BY DEF Commit, CycleState, TypeInv
<1>2. sent' \subseteq Entry /\ pending' \subseteq Entry /\ stateFile' \subseteq Entry
  BY RememberedRows DEF Commit, TypeInv
<1>3. faults' \in 0..MaxFaults
  BY Constants DEF Commit, TypeInv
<1> QED
  BY <1>1, <1>2, <1>3 DEF Commit, TypeInv, userVars, policyVars, queueVars, serverVars

LEMMA RestartTypes ==
    ASSUME TypeInv, NEW file \in {stateFile, Torn}, Restart(file)
    PROVE  TypeInv'
<1>1. {} \in SUBSET Entry
  OBVIOUS
<1>2. cycle' \in CycleState
  BY <1>1 DEF Restart, CycleState, TypeInv
<1>3. scanCache' \in [Databases -> [sig : Nat, rows : SUBSET Entry]]
  BY <1>1 DEF Restart
<1>4. file \subseteq Entry
  BY DEF TypeInv, Torn
<1>5. faults' \in 0..MaxFaults
  BY Constants DEF Restart, TypeInv
<1>6. /\ stateFile' = file /\ collect' = Resting /\ running' = FALSE
      /\ loaded' = FALSE /\ sent' = {} /\ pending' = {}
      /\ UNCHANGED <<clock, history, version, policy, polled, changes, pushes, queue, ingest, objects, docs>>
  BY DEF Restart, userVars, policyVars, queueVars, serverVars
<1> QED
  BY <1>2, <1>3, <1>4, <1>5, <1>6, RestingType DEF TypeInv

LEMMA IngestTypes ==
    ASSUME TypeInv, \/ \E p \in queue : BeginIngest(p)
                    \/ \E day \in ingest.days : PutDay(day)
                    \/ IngestFails
                    \/ \E answered \in BOOLEAN : StoreTelemetry(answered)
    PROVE  TypeInv'
<1>1. NoRequest \in Request
  <2>1. {} \in SUBSET Entry /\ {} \in SUBSET Nat
    OBVIOUS
  <2> QED BY <2>1 DEF NoRequest, Request
<1>2. ASSUME NEW p \in queue, BeginIngest(p)
      PROVE  TypeInv'
  <2> DEFINE kept == enforceBrowserHistoryPolicy(p.history)
  <2>1. kept \subseteq Entry /\ p.id \in Nat
    BY EnforcedEntries DEF TypeInv, Payload
  <2>2. \A e \in Entry : Day(e) \in Nat
    BY EntryTime, Constants DEF Day
  <2>3. {Day(e) : e \in kept} \subseteq Nat
    BY <2>1, <2>2
  <2>4. [pc |-> "put", id |-> p.id, kept |-> kept, days |-> {Day(e) : e \in kept}] \in Request
    BY <2>1, <2>3 DEF Request
  <2>5. ingest' \in Request /\ queue' \subseteq Payload
    BY <1>2, <2>4 DEF BeginIngest, TypeInv
  <2> QED
    BY <1>2, <2>5 DEF BeginIngest, TypeInv, userVars, policyVars, collectorVars
<1>3. ASSUME NEW day \in ingest.days, PutDay(day)
      PROVE  TypeInv'
  <2> DEFINE group == {e \in extractNewBrowserHistoryEntries(ingest.kept) : Day(e) = day}
  <2>1. group \subseteq Entry /\ day \in Nat
    BY DEF extractNewBrowserHistoryEntries, TypeInv, Request
  <2>2. faults \in Nat
    BY Constants DEF TypeInv
  <2>3. [day |-> day, id |-> ingest.id, run |-> faults, entries |-> group] \in Object
    BY <2>1, <2>2 DEF Object, TypeInv, Request
  <2>4. objects' \subseteq Object
    BY <1>3, <2>3 DEF PutDay, TypeInv
  <2>5. ingest' \in Request
    BY <1>3 DEF PutDay, TypeInv, Request
  <2> QED
    BY <1>3, <2>4, <2>5 DEF PutDay, TypeInv, userVars, policyVars, collectorVars, queueVars
<1>4. CASE IngestFails
  BY <1>1, <1>4, Constants DEF IngestFails, TypeInv, userVars, policyVars, collectorVars, queueVars
<1>5. ASSUME NEW answered \in BOOLEAN, StoreTelemetry(answered)
      PROVE  TypeInv'
  <2>1. [id |-> ingest.id, kept |-> ingest.kept] \in Document
    BY DEF Document, TypeInv, Request
  <2>2. faults' \in 0..MaxFaults
    BY <1>5, Constants DEF StoreTelemetry, TypeInv
  <2> QED
    BY <1>1, <1>5, <2>1, <2>2 DEF StoreTelemetry, TypeInv, userVars, policyVars, collectorVars
<1> QED
  BY <1>2, <1>3, <1>4, <1>5

LEMMA Types == TypeInv /\ [Next]_vars => TypeInv'
<1> SUFFICES ASSUME TypeInv, [Next]_vars PROVE TypeInv'
  OBVIOUS
<1>1. UNCHANGED vars => TypeInv'
  BY DEF vars, TypeInv, userVars, policyVars, collectorVars, queueVars, serverVars
<1> QED
  BY <1>1, Steps, VisitTypes, PolicyTypes, StartTypes, ScanTypes, FinishTypes, GiveUpTypes,
     PushTypes, CommitTypes, RestartTypes, IngestTypes

-----------------------------------------------------------------------------
(* The guard and the event ids. *)

LEMMA GuardStep == TypeInv /\ GuardInv /\ [Next]_vars => GuardInv'
<1> SUFFICES ASSUME TypeInv, GuardInv, [Next]_vars PROVE GuardInv'
  OBVIOUS
<1> DEFINE Flag == (running <=> collect.pc # "idle") /\ (cycle.pc = "wait" => running)
           Ids == \A p \in queue : p.id \in 1..pushes
<1>1. Flag'
  <2>1. ASSUME UNCHANGED <<collect, running, cycle>>
        PROVE  Flag'
    BY <2>1 DEF GuardInv
  <2>2. ASSUME UNCHANGED <<collect, running>>, cycle'.pc # "wait"
        PROVE  Flag'
    BY <2>2 DEF GuardInv
  <2>3. ASSUME collect' = Resting, running' = FALSE, cycle'.pc # "wait"
        PROVE  Flag'
    BY <2>3 DEF Resting
  <2>4. ASSUME NEW d \in Databases, dbSignature(d) \/ cachedScan(d) \/ ScanFails(d)
        PROVE  Flag'
    <3>1. collect.pc # "idle" /\ collect'.pc # "idle" /\ UNCHANGED <<running, cycle>>
      BY <2>4, Constants DEF dbSignature, cachedScan, ScanFails, NextProfile, TypeInv, CollectState
    <3> QED BY <3>1 DEF GuardInv
  <2>5. CASE StartCycle
    <3>1. CASE polled.collect /\ ~running
      <4>1. running' = TRUE /\ collect'.pc = "next"
        BY <2>5, <3>1 DEF StartCycle, Resting
      <4> QED BY <4>1
    <3>2. CASE ~(polled.collect /\ ~running)
      <4>1. (running' <=> running) /\ collect' = collect /\ cycle'.pc = "push"
        BY <2>5, <3>2 DEF StartCycle
      <4> QED BY <4>1 DEF GuardInv
    <3> QED BY <3>1, <3>2
  <2>6. CASE FinishCollect \/ CollectPanics
    <3>1. collect' = Resting /\ running' = FALSE /\ cycle'.pc # "wait"
      BY <2>6 DEF FinishCollect, CollectPanics, Recover, TypeInv, CycleState
    <3> QED BY <3>1, <2>3
  <2>7. ASSUME NEW file \in {stateFile, Torn}, Restart(file)
        PROVE  Flag'
    <3>1. collect' = Resting /\ running' = FALSE /\ cycle'.pc # "wait"
      BY <2>7 DEF Restart, TypeInv, CycleState
    <3> QED BY <3>1, <2>3
  <2>8. CASE CollectTimeout \/ Push \/ PushFails
    <3>1. UNCHANGED <<collect, running>> /\ cycle'.pc # "wait"
      BY <2>8 DEF CollectTimeout, Push, PushFails, collectorVars, TypeInv, CycleState
    <3> QED BY <3>1, <2>2
  <2>9. ASSUME NEW stored \in BOOLEAN, Commit(stored)
        PROVE  Flag'
    <3>1. UNCHANGED <<collect, running>> /\ cycle'.pc # "wait"
      BY <2>9 DEF Commit, TypeInv, CycleState
    <3> QED BY <3>1, <2>2
  <2>10. ASSUME NEW d \in Databases, NEW p \in Pages, Visit(d, p)
         PROVE  UNCHANGED <<collect, running, cycle>>
    BY <2>10 DEF Visit, collectorVars
  <2>11. ASSUME policyPoller \/ \E pol \in Policies : SetPolicy(pol)
         PROVE  UNCHANGED <<collect, running, cycle>>
    BY <2>11 DEF policyPoller, SetPolicy, collectorVars
  <2>12. ASSUME \/ \E p \in queue : BeginIngest(p)
                \/ \E day \in ingest.days : PutDay(day)
                \/ IngestFails
                \/ \E answered \in BOOLEAN : StoreTelemetry(answered)
         PROVE  UNCHANGED <<collect, running, cycle>>
    BY <2>12 DEF BeginIngest, PutDay, IngestFails, StoreTelemetry, collectorVars
  <2>13. ASSUME UNCHANGED vars
         PROVE  UNCHANGED <<collect, running, cycle>>
    BY <2>13 DEF vars, collectorVars
  <2> HIDE DEF Flag
  <2> QED
    BY Steps, <2>1, <2>4, <2>5, <2>6, <2>7, <2>8, <2>9, <2>10, <2>11, <2>12, <2>13
<1>2. Ids'
  <2>1. queue' \subseteq queue /\ pushes' = pushes => Ids'
    BY DEF GuardInv
  <2>2. CASE Push
    <3>1. CASE cycle.history = {}
      BY <2>1, <2>2, <3>1 DEF Push, queueVars
    <3>2. CASE cycle.history # {}
      <4>1. pushes' = pushes + 1 /\ queue' = queue \cup {[id |-> pushes', history |-> cycle.history]}
        BY <2>2, <3>2 DEF Push
      <4>2. pushes \in Nat /\ \A p \in queue : p.id \in 1..pushes
        BY DEF GuardInv, TypeInv
      <4> QED BY <4>1, <4>2
    <3> QED BY <3>1, <3>2
  <2>3. CASE ~Push
    <3>1. queue' \subseteq queue /\ pushes' = pushes
      BY <2>3, Steps
         DEF Visit, SetPolicy, policyPoller, StartCycle, dbSignature, cachedScan, ScanFails, FinishCollect,
             CollectPanics, CollectTimeout, PushFails, Commit, Restart, BeginIngest, PutDay, IngestFails,
             StoreTelemetry, queueVars, vars
    <3> QED BY <3>1, <2>1
  <2> QED BY <2>2, <2>3
<1> QED
  BY <1>1, <1>2 DEF GuardInv

-----------------------------------------------------------------------------
(* The rows that the collector holds. *)

\* The steps that neither the user nor the collector nor the main loop takes.
Elsewhere ==
    UNCHANGED <<clock, history, collect, running, scanCache, loaded, sent, pending, stateFile, cycle,
                queued, again, forgotten>>

LEMMA ElsewhereSteps ==
    ASSUME \/ policyPoller
           \/ \E pol \in Policies : SetPolicy(pol)
           \/ \E p \in queue : BeginIngest(p)
           \/ \E day \in ingest.days : PutDay(day)
           \/ IngestFails
           \/ \E answered \in BOOLEAN : StoreTelemetry(answered)
           \/ UNCHANGED vars
    PROVE  Elsewhere /\ stray \subseteq stray'
BY DEF policyPoller, SetPolicy, BeginIngest, PutDay, IngestFails, StoreTelemetry, Elsewhere,
       vars, userVars, collectorVars, ghosts

LEMMA RowsGrow ==
    ASSUME TypeInv, [Next]_vars, ~\E d \in Databases, p \in Pages : Visit(d, p)
    PROVE  clock' = clock /\ history' = history /\ Rows' = Rows
<1>1. clock' = clock /\ history' = history
  BY Steps, ElsewhereSteps
     DEF Elsewhere, StartCycle, dbSignature, cachedScan, ScanFails, FinishCollect, CollectPanics,
         CollectTimeout, Push, PushFails, Commit, Restart, userVars
<1> QED
  BY <1>1 DEF Rows

LEMMA VisitRows ==
    ASSUME TypeInv, RowInv, NEW d \in Databases, NEW p \in Pages, Visit(d, p)
    PROVE  RowInv'
<1> DEFINE e == [db |-> d, url |-> p, at |-> clock + 1]
<1>1. clock \in Nat /\ clock' = clock + 1
  BY Constants DEF Visit, TypeInv
<1>2. history' = [history EXCEPT ![d] = @ \cup {e}]
  BY <1>1 DEF Visit
<1>3. Rows' = Rows \cup {e}
  <2>1. \A c \in Databases : history'[c] = IF c = d THEN history[d] \cup {e} ELSE history[c]
    BY <1>2 DEF TypeInv
  <2> HIDE DEF e
  <2> QED BY <2>1 DEF Rows
<1>4. \A f \in Rows : f.at <= clock /\ f.at \in Nat
  <2>1. Rows \subseteq Entry
    BY DEF Rows, TypeInv
  <2> QED BY <2>1, EntryTime DEF RowInv
<1>5. e.at = clock + 1 /\ \A f \in Rows : f.at # e.at
  BY <1>1, <1>4
<1>6. \A f \in Rows' : f.at <= clock'
  <2> HIDE DEF e
  <2> QED BY <1>1, <1>3, <1>4, <1>5
<1>7. \A f, g \in Rows' : f.at = g.at => f = g
  <2> HIDE DEF e
  <2> QED BY <1>3, <1>5 DEF RowInv
<1>8. UNCHANGED <<collect, scanCache, sent, pending, stateFile>>
  BY DEF Visit, collectorVars
<1> HIDE DEF e
<1> QED
  BY <1>3, <1>6, <1>7, <1>8 DEF RowInv

\* What the collector holds after a step it held before or read from a database.
LEMMA RowsFrom ==
    ASSUME TypeInv, RowInv, Rows' = Rows, clock' = clock,
           collect'.found \subseteq Rows,
           \A d \in Databases : scanCache'[d].rows \subseteq Rows,
           sent' \subseteq Rows, pending' \subseteq Rows, stateFile' \subseteq Rows,
           Cardinality(sent') <= SentLimit, Cardinality(stateFile') <= SentLimit
    PROVE  RowInv'
BY DEF RowInv

LEMMA RememberedBound ==
    ASSUME TypeInv, RowInv
    PROVE  Cardinality(Remembered) <= SentLimit
<1>1. sent \cup pending \subseteq Entry
  BY DEF TypeInv
<1>2. \A e, f \in sent \cup pending : e.at = f.at => e = f
  BY DEF RowInv
<1>3. SentLimit \in Nat \ {0}
  BY Constants
<1>4. Cardinality(Newest(sent \cup pending, SentLimit)) <= SentLimit
  BY <1>1, <1>2, <1>3, NewestBound
<1> QED
  BY <1>4 DEF Remembered, pruneSentEntries

LEMMA RowStep == TypeInv /\ RowInv /\ [Next]_vars => RowInv'
<1> SUFFICES ASSUME TypeInv, RowInv, [Next]_vars PROVE RowInv'
  OBVIOUS
<1>1. CASE \E d \in Databases, p \in Pages : Visit(d, p)
  BY <1>1, VisitRows
<1>2. CASE ~\E d \in Databases, p \in Pages : Visit(d, p)
  <2>1. Rows' = Rows /\ clock' = clock
    BY <1>2, RowsGrow
  <2>2. /\ collect.found \subseteq Rows /\ \A d \in Databases : scanCache[d].rows \subseteq Rows
        /\ sent \subseteq Rows /\ pending \subseteq Rows /\ stateFile \subseteq Rows
        /\ Cardinality(sent) <= SentLimit /\ Cardinality(stateFile) <= SentLimit
    BY DEF RowInv
  <2>3. Cardinality({}) <= SentLimit
    BY FS_EmptySet, Constants
  <2>4. CASE StartCycle
    <3>1. collect'.found \subseteq Rows
      BY <2>2, <2>4 DEF StartCycle, Resting
    <3>2. sent' = sent \/ sent' = stateFile
      BY <2>4 DEF StartCycle, loadState
    <3> QED BY <2>1, <2>2, <2>4, <3>1, <3>2, RowsFrom DEF StartCycle
  <2>5. ASSUME NEW d \in Databases, dbSignature(d) \/ cachedScan(d) \/ ScanFails(d)
        PROVE  RowInv'
    <3>1. Scan(d) \subseteq Rows
      BY ScanRows DEF Rows
    <3>2. collect'.found \subseteq Rows
      <4>1. collect'.found \in {collect.found, collect.found \cup Scan(d),
                                collect.found \cup scanCache[d].rows, collect.found \cup {}}
        BY <2>5 DEF dbSignature, cachedScan, ScanFails, TypeInv, CollectState
      <4> QED BY <2>2, <3>1, <4>1
    <3>3. \A c \in Databases : scanCache'[c].rows \subseteq Rows
      <4>1. CASE cachedScan(d)
        <5>1. \/ scanCache' = scanCache
              \/ scanCache' = [scanCache EXCEPT ![d] = [sig |-> collect.sig, rows |-> Scan(d)]]
          BY <4>1 DEF cachedScan
        <5> QED BY <2>2, <3>1, <5>1 DEF TypeInv
      <4>2. CASE dbSignature(d) \/ ScanFails(d)
        <5>1. scanCache' = scanCache
          BY <4>2 DEF dbSignature, ScanFails, FailureNotCached
        <5> QED BY <2>2, <5>1
      <4> QED BY <2>5, <4>1, <4>2
    <3>4. UNCHANGED <<sent, pending, stateFile>>
      BY <2>5 DEF dbSignature, cachedScan, ScanFails
    <3> QED BY <2>1, <2>2, <3>2, <3>3, <3>4, RowsFrom
  <2>6. CASE FinishCollect
    <3>1. pending' \subseteq Rows /\ collect'.found = {}
      BY <2>2, <2>6, BatchRows DEF FinishCollect, Pending, Resting
    <3>2. UNCHANGED <<scanCache, sent, stateFile>>
      BY <2>6 DEF FinishCollect
    <3> QED BY <2>1, <2>2, <3>1, <3>2, RowsFrom
  <2>7. CASE CollectPanics \/ CollectTimeout \/ Push \/ PushFails
    <3>1. collect'.found \subseteq Rows
      BY <2>2, <2>7 DEF CollectPanics, CollectTimeout, Push, PushFails, Resting, collectorVars
    <3>2. UNCHANGED <<scanCache, sent, pending, stateFile>>
      BY <2>7 DEF CollectPanics, CollectTimeout, Push, PushFails, collectorVars
    <3> QED BY <2>1, <2>2, <3>1, <3>2, RowsFrom
  <2>8. ASSUME NEW stored \in BOOLEAN, Commit(stored)
        PROVE  RowInv'
    <3>1. /\ sent' = sent \/ sent' = Remembered
          /\ pending' = pending \/ pending' = {}
          /\ stateFile' = stateFile \/ stateFile' = Remembered
      BY <2>8 DEF Commit
    <3>2. Remembered \subseteq Rows /\ Cardinality(Remembered) <= SentLimit
      BY <2>2, RememberedRows, RememberedBound
    <3>3. UNCHANGED <<collect, scanCache>>
      BY <2>8 DEF Commit
    <3> QED BY <2>1, <2>2, <3>1, <3>2, <3>3, RowsFrom
  <2>9. ASSUME NEW file \in {stateFile, Torn}, Restart(file)
        PROVE  RowInv'
    <3>1. collect'.found = {} /\ sent' = {} /\ pending' = {} /\ stateFile' = file
      BY <2>9 DEF Restart, Resting
    <3>2. \A d \in Databases : scanCache'[d].rows = {}
      BY <2>9 DEF Restart
    <3>3. file \subseteq Rows /\ Cardinality(file) <= SentLimit
      BY <2>2, <2>3 DEF Torn
    <3> QED BY <2>1, <2>2, <2>3, <3>1, <3>2, <3>3, RowsFrom
  <2>10. CASE Elsewhere
    BY <2>1, <2>2, <2>10, RowsFrom DEF Elsewhere
  <2> QED
    BY <1>2, Steps, ElsewhereSteps, <2>4, <2>5, <2>6, <2>7, <2>8, <2>9, <2>10
<1> QED
  BY <1>1, <1>2

-----------------------------------------------------------------------------
(* What counts as sent was queued or given up. *)

LEMMA TimesOf ==
    ASSUME NEW S, NEW T
    PROVE  /\ S \subseteq T => Times(S) \subseteq Times(T)
           /\ Times(S \cup T) = Times(S) \cup Times(T)
           /\ Times({}) = {}
BY DEF Times

LEMMA SkipStep == TypeInv /\ SkipInv /\ [Next]_vars => SkipInv'
<1> SUFFICES ASSUME TypeInv, SkipInv, [Next]_vars PROVE SkipInv'
  OBVIOUS
<1> DEFINE safe == queued \cup stray
           about == IF cycle.pc = "push" THEN Times(cycle.history) ELSE {}
<1>1. Times(sent) \subseteq safe /\ Times(stateFile) \subseteq safe
  BY TimesOf DEF SkipInv, NothingSkipped
<1>2. Times(pending) \subseteq safe \cup about
  BY DEF SkipInv
<1>3. ASSUME Times(sent') \subseteq safe', Times(stateFile') \subseteq safe',
             Times(pending') \subseteq safe' \cup about'
      PROVE  SkipInv'
  <2>1. NothingSkipped' <=> Times(sent') \cup Times(stateFile') \subseteq safe'
    BY TimesOf DEF NothingSkipped, Times
  <2> QED BY <1>3, <2>1 DEF SkipInv, Times
<1>4. ASSUME queued \subseteq queued', stray \subseteq stray', UNCHANGED <<sent, pending, stateFile>>,
             cycle' = cycle \/ cycle.pc # "push"
      PROVE  SkipInv'
  <2>1. Times(sent') = Times(sent) /\ Times(pending') = Times(pending) /\ Times(stateFile') = Times(stateFile)
    BY <1>4 DEF Times
  <2>2. about \subseteq about'
    BY <1>4 DEF Times
  <2> QED BY <1>1, <1>2, <1>3, <1>4, <2>1, <2>2
<1>5. CASE StartCycle
  <2>1. sent' = sent \/ sent' = stateFile
    BY <1>5 DEF StartCycle, loadState
  <2>2. UNCHANGED <<pending, stateFile, queued, stray>> /\ cycle.pc = "start"
    BY <1>5 DEF StartCycle, ghosts
  <2> QED BY <1>1, <1>2, <1>3, <2>1, <2>2 DEF Times
<1>6. ASSUME NEW d \in Databases, dbSignature(d) \/ cachedScan(d) \/ ScanFails(d)
      PROVE  SkipInv'
  BY <1>4, <1>6 DEF dbSignature, cachedScan, ScanFails, ghosts
<1>7. CASE FinishCollect
  <2>1. UNCHANGED <<sent, stateFile, queued>> /\ pending' = Batch
    BY <1>7 DEF FinishCollect, Pending
  <2>2. CASE cycle.pc = "wait"
    <3> DEFINE out == applyBrowserHistoryPolicy(Batch, cycle.policy)
    <3>1. cycle' = [cycle EXCEPT !.pc = "push", !.history = out]
          /\ stray' = stray \cup (Times(Batch) \ Times(out))
      BY <1>7, <2>2 DEF FinishCollect
    <3> HIDE DEF out
    <3>2. cycle'.pc = "push" /\ cycle'.history = out
      BY <3>1 DEF TypeInv, CycleState
    <3>3. Times(pending') \subseteq stray' \cup about'
      BY <2>1, <3>1, <3>2 DEF Times
    <3> QED BY <1>1, <1>3, <2>1, <3>1, <3>3 DEF Times
  <2>3. CASE cycle.pc # "wait"
    <3>1. stray' = stray \cup Times(Batch)
      BY <1>7, <2>3 DEF FinishCollect
    <3> QED BY <1>1, <1>3, <2>1, <3>1 DEF Times
  <2> QED BY <2>2, <2>3
<1>8. CASE CollectPanics
  <2>1. cycle' = cycle \/ cycle.pc # "push"
    BY <1>8 DEF CollectPanics
  <2> QED BY <1>4, <1>8, <2>1 DEF CollectPanics, ghosts
<1>9. CASE CollectTimeout
  BY <1>4, <1>9 DEF CollectTimeout, collectorVars, ghosts
<1>10. CASE Push
  <2>1. /\ UNCHANGED <<sent, pending, stateFile, stray>> /\ queued' = queued \cup Times(cycle.history)
        /\ cycle.pc = "push"
    BY <1>10 DEF Push, collectorVars
  <2> QED BY <1>1, <1>2, <1>3, <2>1 DEF Times
<1>11. CASE PushFails
  <2>1. UNCHANGED <<sent, pending, stateFile, queued>> /\ stray' = stray \cup Times(pending)
    BY <1>11 DEF PushFails, collectorVars
  <2> QED BY <1>1, <1>3, <2>1 DEF Times
<1>12. ASSUME NEW stored \in BOOLEAN, Commit(stored)
       PROVE  SkipInv'
  <2>1. /\ sent' = sent \/ sent' = Remembered
        /\ pending' = pending \/ pending' = {}
        /\ stateFile' = stateFile \/ stateFile' = Remembered
    BY <1>12 DEF Commit
  <2>2. cycle.pc = "commit" /\ UNCHANGED <<queued, stray>>
    BY <1>12 DEF Commit
  <2>3. Times(Remembered) \subseteq safe /\ Times(pending) \subseteq safe
    BY <1>1, <1>2, <2>2, RememberedRows DEF Times
  <2> QED BY <1>1, <1>3, <2>1, <2>2, <2>3 DEF Times
<1>13. ASSUME NEW file \in {stateFile, Torn}, Restart(file)
       PROVE  SkipInv'
  <2>1. sent' = {} /\ pending' = {} /\ stateFile' = file /\ UNCHANGED <<queued, stray>>
    BY <1>13 DEF Restart
  <2>2. Times(file) \subseteq safe
    BY <1>1 DEF Torn, Times
  <2> QED BY <1>3, <2>1, <2>2 DEF Times
<1>14. ASSUME NEW d \in Databases, NEW p \in Pages, Visit(d, p)
       PROVE  SkipInv'
  BY <1>4, <1>14 DEF Visit, collectorVars, ghosts
<1>15. ASSUME Elsewhere, stray \subseteq stray'
       PROVE  SkipInv'
  BY <1>4, <1>15 DEF Elsewhere
<1> QED
  BY Steps, ElsewhereSteps, <1>5, <1>6, <1>7, <1>8, <1>9, <1>10, <1>11, <1>12, <1>13, <1>14, <1>15

-----------------------------------------------------------------------------
(* What is queued again was forgotten. *)

LEMMA AgainStep == TypeInv /\ GuardInv /\ RowInv /\ AgainInv /\ [Next]_vars => AgainInv'
<1> SUFFICES ASSUME TypeInv, GuardInv, RowInv, AgainInv, [Next]_vars PROVE AgainInv'
  OBVIOUS
<1> DEFINE due == IF cycle.pc = "commit" /\ collect.pc = "idle" THEN Times(pending) ELSE {}
<1>1. /\ again \subseteq forgotten
      /\ pending # {} \/ collect.pc # "idle" => loaded
      /\ cycle.pc = "wait" => cycle.history = {}
      /\ cycle.pc = "push" /\ cycle.history # {} =>
            /\ collect.pc = "idle"
            /\ Times(cycle.history) \subseteq Times(pending)
            /\ Times(cycle.history) \cap queued \subseteq forgotten
      /\ queued \subseteq forgotten \cup Times(Record) \cup due
  BY DEF AgainInv, AgainOnlyIfForgotten
<1>2. ASSUME again' \subseteq forgotten',
             pending' # {} \/ collect'.pc # "idle" => loaded',
             cycle'.pc = "wait" => cycle'.history = {},
             cycle'.pc = "push" /\ cycle'.history # {} =>
                 /\ collect'.pc = "idle"
                 /\ Times(cycle'.history) \subseteq Times(pending')
                 /\ Times(cycle'.history) \cap queued' \subseteq forgotten',
             queued' \subseteq forgotten' \cup Times(Record') \cup due'
      PROVE  AgainInv'
  <2>1. Times(cycle.history)' = Times(cycle'.history) /\ Times(pending)' = Times(pending')
        /\ Times(Record)' = Times(Record')
    BY DEF Times
  <2> QED BY <1>2, <2>1 DEF AgainInv, AgainOnlyIfForgotten
<1>3. ASSUME UNCHANGED <<loaded, sent, pending, stateFile, cycle, queued, again, forgotten>>,
             collect'.pc = "idle" <=> collect.pc = "idle"
      PROVE  AgainInv'
  <2>1. Record' = Record /\ Times(pending') = Times(pending)
    BY <1>3 DEF Record
  <2>2. due' = due
    BY <1>3 DEF Times
  <2> QED BY <1>1, <1>2, <1>3, <2>1, <2>2
<1>4. CASE StartCycle
  <2>1. /\ cycle.pc = "start" /\ cycle'.history = {} /\ cycle'.pc # "commit"
        /\ UNCHANGED <<pending, stateFile, queued, again, forgotten>>
    BY <1>4 DEF StartCycle, ghosts
  <2>2. Record' = Record /\ (loaded => loaded')
    BY <1>4 DEF StartCycle, Record, loadState
  <2>3. collect'.pc # "idle" => loaded'
    BY <1>1, <1>4 DEF StartCycle
  <2>4. queued \subseteq forgotten \cup Times(Record)
    BY <1>1, <2>1
  <2> QED BY <1>1, <1>2, <2>1, <2>2, <2>3, <2>4
<1>5. ASSUME NEW d \in Databases, dbSignature(d) \/ cachedScan(d) \/ ScanFails(d)
      PROVE  AgainInv'
  <2>1. collect.pc # "idle" /\ collect'.pc # "idle"
    BY <1>5, Constants DEF dbSignature, cachedScan, ScanFails, NextProfile, TypeInv, CollectState
  <2> QED BY <1>3, <1>5, <2>1 DEF dbSignature, cachedScan, ScanFails, ghosts
<1>6. CASE FinishCollect
  <2>1. /\ collect.pc = "next" /\ collect'.pc = "idle" /\ pending' = Batch
        /\ UNCHANGED <<loaded, sent, stateFile, queued, again, forgotten>>
    BY <1>6 DEF FinishCollect, Collected, Pending, Resting
  <2>2. loaded /\ Record' = Record /\ Record = sent
    BY <1>1, <2>1 DEF Record
  <2>3. queued \subseteq forgotten \cup Times(sent)
    BY <1>1, <2>1, <2>2
  <2>4. CASE cycle.pc = "wait"
    <3> DEFINE out == applyBrowserHistoryPolicy(Batch, cycle.policy)
    <3>1. cycle' = [cycle EXCEPT !.pc = "push", !.history = out]
      BY <1>6, <2>4 DEF FinishCollect
    <3>2. Times(out) \subseteq Times(Batch)
      <4>1. Batch \subseteq Entry
        BY BatchRows DEF TypeInv, CollectState
      <4> QED BY <4>1, PolicyEntries
    <3> HIDE DEF out
    <3>3. cycle'.pc = "push" /\ cycle'.history = out
      BY <3>1 DEF TypeInv, CycleState
    <3>4. Times(Batch) \cap Times(sent) = {}
      <4>1. \A e \in Batch : e \in Rows /\ e \notin sent
        BY BatchRows DEF RowInv
      <4>2. \A e \in Batch, f \in sent : e.at # f.at
        BY <4>1 DEF RowInv
      <4> QED BY <4>2 DEF Times
    <3>5. Times(cycle'.history) \cap queued \subseteq forgotten
      BY <2>3, <3>2, <3>3, <3>4
    <3> QED BY <1>1, <1>2, <2>1, <2>2, <2>3, <3>2, <3>3, <3>5
  <2>5. CASE cycle.pc # "wait"
    <3>1. cycle' = cycle
      BY <1>6, <2>5 DEF FinishCollect
    <3>2. ~(cycle.pc = "push" /\ cycle.history # {})
      BY <1>1, <2>1
    <3> QED BY <1>1, <1>2, <2>1, <2>2, <2>3, <3>1, <3>2
  <2> QED BY <2>4, <2>5
<1>7. CASE CollectPanics
  <2>1. /\ collect.pc # "idle" /\ collect'.pc = "idle"
        /\ UNCHANGED <<loaded, sent, pending, stateFile, queued, again, forgotten>>
    BY <1>7 DEF CollectPanics, Resting, ghosts
  <2>2. cycle'.history = cycle.history /\ ~(cycle'.pc = "push" /\ cycle.history # {})
        /\ (cycle'.pc = "wait" => cycle.pc = "wait")
    BY <1>1, <1>7, <2>1 DEF CollectPanics, TypeInv, CycleState
  <2>3. Record' = Record /\ queued \subseteq forgotten \cup Times(Record)
    BY <1>1, <2>1 DEF Record
  <2> QED BY <1>1, <1>2, <2>1, <2>2, <2>3
<1>8. CASE CollectTimeout
  <2>1. /\ UNCHANGED <<collect, loaded, sent, pending, stateFile, queued, again, forgotten>>
        /\ cycle.pc = "wait" /\ cycle'.pc = "push" /\ cycle'.history = cycle.history
    BY <1>8 DEF CollectTimeout, collectorVars, ghosts, TypeInv, CycleState
  <2>2. Record' = Record
    BY <2>1 DEF Record
  <2> QED BY <1>1, <1>2, <2>1, <2>2
<1>9. CASE Push
  <2>1. /\ UNCHANGED <<collect, loaded, sent, pending, stateFile, forgotten>>
        /\ cycle.pc = "push" /\ cycle'.pc = "commit"
        /\ queued' = queued \cup Times(cycle.history)
        /\ again' = again \cup (queued \cap Times(cycle.history))
    BY <1>9 DEF Push, collectorVars, TypeInv, CycleState
  <2>2. Record' = Record /\ queued \subseteq forgotten \cup Times(Record)
    BY <1>1, <2>1 DEF Record
  <2>3. CASE cycle.history = {}
    <3>1. queued' = queued /\ again' = again
      BY <2>1, <2>3, TimesOf
    <3> QED BY <1>1, <1>2, <2>1, <2>2, <3>1
  <2>4. CASE cycle.history # {}
    <3>1. /\ collect.pc = "idle" /\ Times(cycle.history) \subseteq Times(pending)
          /\ Times(cycle.history) \cap queued \subseteq forgotten
      BY <1>1, <2>1, <2>4
    <3>2. due' = Times(pending)
      BY <2>1, <3>1 DEF Times
    <3> QED BY <1>1, <1>2, <2>1, <2>2, <3>1, <3>2
  <2> QED BY <2>3, <2>4
<1>10. CASE PushFails
  <2>1. /\ UNCHANGED <<collect, loaded, sent, pending, stateFile, queued, again, forgotten>>
        /\ cycle.pc = "push" /\ cycle'.pc = "start"
    BY <1>10 DEF PushFails, collectorVars, TypeInv, CycleState
  <2>2. Record' = Record
    BY <2>1 DEF Record
  <2> QED BY <1>1, <1>2, <2>1, <2>2
<1>11. ASSUME NEW stored \in BOOLEAN, Commit(stored)
       PROVE  AgainInv'
  <2>1. /\ UNCHANGED <<collect, loaded, queued, again>>
        /\ cycle.pc = "commit" /\ cycle'.pc = "start"
    BY <1>11 DEF Commit, TypeInv, CycleState
  <2>2. CASE collect.pc # "idle" \/ pending = {}
    <3>1. UNCHANGED <<sent, pending, stateFile, forgotten>>
      BY <1>11, <2>2 DEF Commit
    <3>2. Record' = Record /\ queued \subseteq forgotten \cup Times(Record)
      BY <1>1, <2>1, <2>2, <3>1, TimesOf DEF Record
    <3> QED BY <1>1, <1>2, <2>1, <3>1, <3>2
  <2>3. CASE ~(collect.pc # "idle" \/ pending = {})
    <3>1. /\ sent' = Remembered /\ pending' = {}
          /\ forgotten' = forgotten \cup (Times(sent \cup pending) \ Times(Remembered))
      BY <1>11, <2>3 DEF Commit, Remembered
    <3>2. loaded /\ Record = sent /\ Record' = Remembered
      BY <1>1, <2>1, <2>3, <3>1 DEF Record
    <3>3. queued \subseteq forgotten \cup Times(sent \cup pending)
      BY <1>1, <2>1, <2>3, <3>2, TimesOf
    <3> QED BY <1>1, <1>2, <2>1, <2>3, <3>1, <3>2, <3>3
  <2> QED BY <2>2, <2>3
<1>12. ASSUME NEW file \in {stateFile, Torn}, Restart(file)
       PROVE  AgainInv'
  <2>1. /\ collect'.pc = "idle" /\ loaded' = FALSE /\ pending' = {} /\ stateFile' = file
        /\ forgotten' = forgotten \cup (queued \ Times(file)) /\ UNCHANGED <<queued, again>>
    BY <1>12 DEF Restart, Resting
  <2>2. cycle'.pc = "start"
    BY <1>12 DEF Restart, TypeInv, CycleState
  <2>3. Record' = file
    BY <2>1 DEF Record
  <2> QED BY <1>1, <1>2, <2>1, <2>2, <2>3
<1>13. ASSUME NEW d \in Databases, NEW p \in Pages, Visit(d, p)
       PROVE  AgainInv'
  BY <1>3, <1>13 DEF Visit, collectorVars, ghosts
<1>14. CASE Elsewhere
  BY <1>3, <1>14 DEF Elsewhere
<1> QED
  BY Steps, ElsewhereSteps, <1>4, <1>5, <1>6, <1>7, <1>8, <1>9, <1>10, <1>11, <1>12, <1>13, <1>14

-----------------------------------------------------------------------------
(* The archive. *)

\* An entry of a request has one of its key and as recent among those that are extracted.
LEMMA Extracted ==
    ASSUME NEW S, S \subseteq Entry, NEW e \in S
    PROVE  \E f \in extractNewBrowserHistoryEntries(S) :
               browserHistoryDedupeKey(f) = browserHistoryDedupeKey(e) /\ f.at >= e.at
<1> DEFINE same == {f \in S : browserHistoryDedupeKey(f) = browserHistoryDedupeKey(e)}
<1>1. same \subseteq Entry /\ e \in same
  OBVIOUS
<1>2. PICK f \in same : \A g \in same : g.at <= f.at
  <2> HIDE DEF same
  <2> QED BY <1>1, LatestEntry
<1>3. f \in extractNewBrowserHistoryEntries(S)
  BY <1>2 DEF extractNewBrowserHistoryEntries
<1>4. f.at >= e.at
  <2>1. f.at \in Nat /\ e.at \in Nat /\ e.at <= f.at
    BY <1>2, EntryTime
  <2> QED BY <2>1
<1> QED
  BY <1>2, <1>3, <1>4

LEMMA ArchiveStep == TypeInv /\ ArchiveInv /\ [Next]_vars => ArchiveInv'
<1> SUFFICES ASSUME TypeInv, ArchiveInv, [Next]_vars PROVE ArchiveInv'
  OBVIOUS
<1>1. /\ \A o \in objects : \A e \in o.entries : Day(e) = o.day
      /\ ingest.pc = "put" => \A e \in extractNewBrowserHistoryEntries(ingest.kept) :
             Day(e) \in ingest.days \/ \E o \in objects : e \in o.entries
      /\ \A doc \in docs : \A e \in doc.kept : Covered(e)
  BY DEF ArchiveInv, Covered
<1>2. ASSUME objects \subseteq objects',
             \A o \in objects' \ objects : \A e \in o.entries : Day(e) = o.day,
             ingest'.pc = "put" => \A e \in extractNewBrowserHistoryEntries(ingest'.kept) :
                 Day(e) \in ingest'.days \/ \E o \in objects' : e \in o.entries,
             \A doc \in docs' \ docs : \A e \in doc.kept : Covered(e)
      PROVE  ArchiveInv'
  <2>1. \A e : Covered(e) => Covered(e)'
    BY <1>2 DEF Covered, browserHistoryDedupeKey
  <2>2. \A doc \in docs' : \A e \in doc.kept : Covered(e)'
    BY <1>1, <1>2, <2>1
  <2>3. \A o \in objects' : \A e \in o.entries : Day(e) = o.day
    BY <1>1, <1>2
  <2>4. extractNewBrowserHistoryEntries(ingest.kept)' = extractNewBrowserHistoryEntries(ingest'.kept)
    BY DEF extractNewBrowserHistoryEntries, browserHistoryDedupeKey
  <2> QED BY <1>2, <2>2, <2>3, <2>4 DEF ArchiveInv, Covered, Day
<1>3. ASSUME UNCHANGED serverVars
      PROVE  ArchiveInv'
  BY <1>1, <1>2, <1>3 DEF serverVars
<1>4. ASSUME NEW p \in queue, BeginIngest(p)
      PROVE  ArchiveInv'
  <2> DEFINE kept == enforceBrowserHistoryPolicy(p.history)
  <2>1. UNCHANGED <<objects, docs>>
    BY <1>4 DEF BeginIngest
  <2>2. ingest' = ingest \/ ingest' = [pc |-> "put", id |-> p.id, kept |-> kept, days |-> {Day(e) : e \in kept}]
    BY <1>4 DEF BeginIngest
  <2>3. extractNewBrowserHistoryEntries(kept) \subseteq kept
    BY DEF extractNewBrowserHistoryEntries
  <2> HIDE DEF kept
  <2>4. \A e \in extractNewBrowserHistoryEntries(kept) : Day(e) \in {Day(f) : f \in kept}
    BY <2>3
  <2> QED BY <1>1, <1>2, <2>1, <2>2, <2>4
<1>5. ASSUME NEW day \in ingest.days, PutDay(day)
      PROVE  ArchiveInv'
  <2> DEFINE all == extractNewBrowserHistoryEntries(ingest.kept)
             group == {e \in all : Day(e) = day}
             o == [day |-> day, id |-> ingest.id, run |-> faults, entries |-> group]
  <2>1. /\ docs' = docs /\ ingest.pc = "put" /\ ingest' = [ingest EXCEPT !.days = @ \ {day}]
        /\ objects' = IF group = {} THEN objects ELSE objects \cup {o}
    BY <1>5 DEF PutDay
  <2>2. ingest'.kept = ingest.kept /\ ingest'.days = ingest.days \ {day}
    BY <2>1 DEF TypeInv, Request
  <2>3. o.entries = group /\ o.day = day /\ \A e \in group : Day(e) = day
    OBVIOUS
  <2>4. \A e \in all : Day(e) \in ingest.days \/ \E x \in objects : e \in x.entries
    BY <1>1, <2>1
  <2>5. \A e \in all : Day(e) = day => e \in group
    OBVIOUS
  <2> HIDE DEF all, group, o
  <2>6. \A e \in all : Day(e) \in ingest'.days \/ \E x \in objects' : e \in x.entries
    BY <2>1, <2>2, <2>3, <2>4, <2>5
  <2>7. \A x \in objects' \ objects : \A e \in x.entries : Day(e) = x.day
    BY <2>1, <2>3
  <2> QED BY <1>2, <2>1, <2>2, <2>6, <2>7 DEF all
<1>6. CASE IngestFails
  <2>1. UNCHANGED <<objects, docs>> /\ ingest'.pc = "idle"
    BY <1>6 DEF IngestFails, NoRequest
  <2> QED BY <1>2, <2>1
<1>7. ASSUME NEW answered \in BOOLEAN, StoreTelemetry(answered)
      PROVE  ArchiveInv'
  <2>1. /\ objects' = objects /\ ingest'.pc = "idle" /\ ingest.pc = "put" /\ ingest.days = {}
        /\ docs' = docs \cup {[id |-> ingest.id, kept |-> ingest.kept]}
    BY <1>7 DEF StoreTelemetry, NoRequest
  <2>2. ASSUME NEW e \in ingest.kept
        PROVE  Covered(e)
    <3>1. ingest.kept \subseteq Entry
      BY DEF TypeInv, Request
    <3>2. PICK f \in extractNewBrowserHistoryEntries(ingest.kept) :
              browserHistoryDedupeKey(f) = browserHistoryDedupeKey(e) /\ f.at >= e.at
      BY <3>1, Extracted
    <3>3. PICK o \in objects : f \in o.entries
      BY <1>1, <2>1
    <3> QED BY <3>2, <3>3 DEF Covered
  <2>3. \A doc \in docs' \ docs : \A e \in doc.kept : Covered(e)
    BY <2>1, <2>2
  <2> QED BY <1>2, <2>1, <2>3
<1>8. ASSUME ~\E p \in queue : BeginIngest(p),
             ~\E day \in ingest.days : PutDay(day),
             ~IngestFails, ~\E answered \in BOOLEAN : StoreTelemetry(answered)
      PROVE  UNCHANGED serverVars
  BY <1>8, Steps
     DEF Visit, SetPolicy, policyPoller, StartCycle, dbSignature, cachedScan, ScanFails, FinishCollect,
         CollectPanics, CollectTimeout, Push, PushFails, Commit, Restart, vars
<1> QED
  BY <1>3, <1>4, <1>5, <1>6, <1>7, <1>8

-----------------------------------------------------------------------------
(* The theorems. *)

LEMMA InitInv == Init => IInv
<1> SUFFICES ASSUME Init PROVE IInv
  OBVIOUS
<1>1. TypeInv
  BY InitTypes
<1>2. GuardInv
  BY DEF Init, GuardInv, Resting
<1>3. Rows = {}
  BY DEF Init, Rows
<1>4. RowInv
  <2>1. Cardinality({}) <= SentLimit
    BY FS_EmptySet, Constants
  <2> QED BY <1>3, <2>1 DEF Init, RowInv, Resting
<1>5. SkipInv
  BY DEF Init, SkipInv, NothingSkipped, Times
<1>6. AgainInv
  BY DEF Init, AgainInv, AgainOnlyIfForgotten, Resting
<1>7. ArchiveInv
  BY DEF Init, ArchiveInv, NoRequest
<1> QED
  BY <1>1, <1>2, <1>4, <1>5, <1>6, <1>7 DEF IInv

LEMMA Inductive == Spec => []IInv
<1>1. IInv /\ [Next]_vars => IInv'
  BY Types, GuardStep, RowStep, SkipStep, AgainStep, ArchiveStep DEF IInv
<1> QED
  BY InitInv, <1>1, PTL DEF Spec

\* The state keeps its types, the guard is held exactly while a Collect works,
\* and no more than SentLimit rows count as sent.
THEOREM TypeCorrect == Spec => []TypeOK
<1>1. IInv => TypeOK
  <2> SUFFICES ASSUME IInv PROVE TypeOK
    OBVIOUS
  <2>1. running = (collect.pc # "idle")
    <3>1. (collect.pc # "idle") \in BOOLEAN
      OBVIOUS
    <3>2. running \in BOOLEAN /\ (running <=> collect.pc # "idle")
      BY DEF IInv, TypeInv, GuardInv
    <3> QED BY <3>1, <3>2, Zenon
  <2>2. cycle.pc = "wait" => running
    BY DEF IInv, GuardInv
  <2>3. cycle.pc \in {"start", "wait", "push", "commit"} /\ cycle.history \subseteq Entry
    BY DEF IInv, TypeInv, CycleState
  <2>4. \A p \in queue : p.id \in 1..pushes /\ p.history \subseteq Entry
    BY DEF IInv, TypeInv, GuardInv, Payload
  <2>5. \A o \in objects : o.entries \subseteq Entry
    BY DEF IInv, TypeInv, Object
  <2>6. Cardinality(sent) <= SentLimit
    BY DEF IInv, RowInv
  <2>7. /\ clock \in 0..MaxVisits /\ changes \in 0..MaxPolicies /\ faults \in 0..MaxFaults
        /\ \A d \in Databases : history[d] \subseteq Entry /\ version[d] \in Nat
        /\ policy \in Policies
        /\ sent \subseteq Entry /\ pending \subseteq Entry /\ stateFile \subseteq Entry
    BY DEF IInv, TypeInv
  <2> QED BY <2>1, <2>2, <2>3, <2>4, <2>5, <2>6, <2>7 DEF TypeOK
<1> QED
  BY Inductive, <1>1, PTL

\* Commit takes no visit for sent that was not queued or given up, whatever
\* times out, panics, fails or is abandoned between a Collect and its Commit.
THEOREM NoVisitSkipped == Spec => []SentInv
<1>1. IInv => NothingSkipped
  BY DEF IInv, SkipInv
<1>2. NothingSkipped /\ TypeOK => SentInv
  BY DEF SentInv
<1> QED
  BY Inductive, TypeCorrect, <1>1, <1>2, PTL

\* A visit is queued again only after the agent has lost its record of it, in a
\* crash or by the limit of the record.
THEOREM RepeatsAreForgotten == Spec => []AgainOnlyIfForgotten
<1>1. IInv => AgainOnlyIfForgotten
  BY DEF IInv, AgainInv
<1> QED
  BY Inductive, <1>1, PTL

\* For every entry of a stored upload the archive shows one of its key that is
\* as recent, whatever part of an upload was repeated or cut off.
THEOREM StoredIsShown == Spec => []ArchiveCovers
<1>1. IInv => ArchiveCovers
  <2> SUFFICES ASSUME IInv, NEW doc \in docs, NEW e \in doc.kept
               PROVE  \E f \in ReadEntries(1, MaxVisits) :
                          browserHistoryDedupeKey(f) = browserHistoryDedupeKey(e) /\ f.at >= e.at
    BY DEF ArchiveCovers
  <2> DEFINE days == (1 \div DayLength)..(MaxVisits \div DayLength)
             found == {x \in UNION {o.entries : o \in {y \in objects : y.day \in days}} :
                         x.at \in 1..MaxVisits}
             same == {x \in found : browserHistoryDedupeKey(x) = browserHistoryDedupeKey(e)}
  <2>1. e \in Entry
    BY DEF IInv, TypeInv, Document
  <2>2. PICK o \in objects : \E f \in o.entries :
            browserHistoryDedupeKey(f) = browserHistoryDedupeKey(e) /\ f.at >= e.at
    BY DEF IInv, ArchiveInv, Covered
  <2>3. PICK f \in o.entries : browserHistoryDedupeKey(f) = browserHistoryDedupeKey(e) /\ f.at >= e.at
    BY <2>2
  <2>4. f \in Entry /\ o.day = f.at \div DayLength
    BY DEF IInv, TypeInv, Object, ArchiveInv, Day
  <2>5. o.day \in days
    <3>1. f.at \in Nat /\ 1 <= f.at /\ f.at <= MaxVisits /\ DayLength \in Nat \ {0} /\ MaxVisits \in Nat
      BY <2>4, EntryTime, Constants
    <3>2. \A x, y \in Nat : x <= y => x \div DayLength <= y \div DayLength
      BY <3>1, DivMonotone
    <3>3. \A x \in Nat : x \div DayLength \in Nat
      BY <3>1
    <3> QED BY <2>4, <3>1, <3>2, <3>3
  <2>6. f \in same
    <3>1. f.at \in 1..MaxVisits
      BY <2>4, EntryTime
    <3> HIDE DEF days
    <3> QED BY <2>3, <2>5, <3>1
  <2>7. found \subseteq Entry
    BY DEF IInv, TypeInv, Object
  <2>8. ReadEntries(1, MaxVisits) =
            {x \in found : \A y \in found :
                browserHistoryDedupeKey(y) = browserHistoryDedupeKey(x) => y.at <= x.at}
    BY DEF ReadEntries
  <2> HIDE DEF found
  <2>9. PICK g \in same : \A x \in same : x.at <= g.at
    <3>1. same \subseteq Entry /\ same # {}
      BY <2>6, <2>7
    <3> HIDE DEF same
    <3> QED BY <3>1, LatestEntry
  <2>10. g \in ReadEntries(1, MaxVisits)
    BY <2>8, <2>9
  <2>11. g.at >= e.at
    <3>1. g.at \in Nat /\ f.at \in Nat /\ e.at \in Nat
      BY <2>1, <2>4, <2>7, <2>9, EntryTime
    <3>2. f.at <= g.at /\ f.at >= e.at
      BY <2>3, <2>6, <2>9
    <3> QED BY <3>1, <3>2
  <2> QED BY <2>9, <2>10, <2>11
<1> QED
  BY Inductive, <1>1, PTL
=============================================================================
