--------------------------- MODULE BrowserHistory ---------------------------
(***************************************************************************)
(* The browser history of one device, from the databases of its browsers   *)
(* to the archive that the dashboard reads: the collector and the guard    *)
(* around it, the cycle of the agent that queues and then commits, the     *)
(* policy on both sides, the upload and the objects in S3.                 *)
(*                                                                         *)
(* A visit is named by its time; no two visits have the same.  The queue   *)
(* between agent and API is that of module Delivery without its limits.    *)
(***************************************************************************)
EXTENDS Naturals, FiniteSets, Functions

CONSTANTS
    Databases,     \* history files, one per browser profile
    PerVisit,      \* those that keep every visit and not one row per page (Safari)
    Pages, Site,   \* Site[p]: scheme://host of page p, NoHost if it has none
    NoHost,
    Title,         \* Title[p]: what identifies p next to the browser
    Policies,      \* policies an admin may set
    FirstPolicy,   \* the one in force when the agent starts
    ScanLimit,     \* maxBrowserHistoryScanEntries
    UploadLimit,   \* maxBrowserHistoryUploadEntries
    SentLimit,     \* maxBrowserHistorySentStateEntries
    DayLength,     \* visits per day, for the objects of the archive
    MaxVisits, MaxPolicies, MaxFaults  \* bounds

Sites == Range(Site) \ {NoHost}
Modes == {"full_url", "domain_only", "disabled"}

ASSUME BrowserAssumption ==
    /\ PerVisit \subseteq Databases /\ {"idle", "next"} \cap Databases = {}
    /\ Site \in [Pages -> Sites \cup {NoHost}] /\ Sites \cap Pages = {}
    /\ DOMAIN Title = Pages
    /\ Policies \subseteq [collect : BOOLEAN, mode : Modes, limit : Nat] /\ FirstPolicy \in Policies
    /\ {ScanLimit, UploadLimit, SentLimit, DayLength} \subseteq Nat \ {0}
    /\ {MaxVisits, MaxPolicies, MaxFaults} \subseteq Nat

Visits == 1..MaxVisits
Entry == [db : Databases, url : Pages \cup Sites, at : Visits]
Torn == {}   \* a state file that is not JSON is read as one without entries

VARIABLES
    clock,      \* visits so far
    history,    \* history[d]: visits that the database records
    version,    \* version[d]: its size and modification time
    policy,     \* of the API
    polled,     \* of the agent
    changes, faults,
    collect,    \* the goroutine of the guarded Collect; it holds mu until it is done
    running,    \* the guard's flag
    scanCache,
    loaded, sent, pending,     \* fields of the collector
    stateFile,
    cycle,      \* the main loop: pc and the history of the payload
    pushes,     \* payloads with history so far, the next event id
    queue,      \* those on disk
    ingest,     \* the request being served
    objects,    \* browser-history objects in S3
    docs,       \* stored telemetry: event id and the history that the policy left
    queued,     \* history: visits that were part of a pushed payload
    again,      \* history: visits pushed although pushed before
    stray,      \* history: visits of a Collect whose payload was not pushed
    forgotten   \* history: visits pushed of which the agent lost the record

userVars == <<clock, history, version>>
policyVars == <<policy, polled, changes>>
collectorVars == <<collect, running, scanCache, loaded, sent, pending, stateFile>>
queueVars == <<pushes, queue>>
serverVars == <<ingest, objects, docs>>
ghosts == <<queued, again, stray, forgotten>>
vars == <<userVars, policyVars, faults, collectorVars, cycle, queueVars, serverVars, ghosts>>

Newest(S, n) == {e \in S : Cardinality({f \in S : f.at > e.at}) < n}
Oldest(S, n) == {e \in S : Cardinality({f \in S : f.at < e.at}) < n}
Times(S) == {e.at : e \in S}

(* The user and the administrator. *)

Visit(d, p) ==
    /\ clock < MaxVisits
    /\ clock' = clock + 1
    /\ history' = [history EXCEPT ![d] = @ \cup {[db |-> d, url |-> p, at |-> clock']}]
    /\ version' = [version EXCEPT ![d] = @ + 1]
    /\ UNCHANGED <<policyVars, faults, collectorVars, cycle, queueVars, serverVars, ghosts>>

SetPolicy(pol) ==
    /\ changes < MaxPolicies /\ pol # policy
    /\ policy' = pol /\ changes' = changes + 1
    /\ UNCHANGED <<polled, userVars, faults, collectorVars, cycle, queueVars, serverVars, ghosts>>

\* Mode "disabled" switches the collection off in the agent.
policyPoller ==
    /\ polled' = [policy EXCEPT !.collect = @ /\ policy.mode # "disabled"]
    /\ polled' # polled
    /\ UNCHANGED <<policy, changes, userVars, faults, collectorVars, cycle, queueVars, serverVars, ghosts>>

(* The collector. *)

Resting == [pc |-> "idle", left |-> {}, sig |-> 0, found |-> {}]

\* The main loop starts a cycle: it reads the policy and calls Collect under
\* the guard, unless the collection is off or an earlier call still runs.
loadState == IF loaded THEN sent ELSE stateFile

StartCycle ==
    /\ cycle.pc = "start"
    /\ LET called == polled.collect /\ ~running IN
       /\ cycle' = [pc |-> IF called THEN "wait" ELSE "push", history |-> {}, policy |-> polled]
       /\ running' = (running \/ called)
       /\ loaded' = (loaded \/ called)
       /\ sent' = IF called THEN loadState ELSE sent
       /\ collect' = IF called THEN [Resting EXCEPT !.pc = "next", !.left = Databases] ELSE collect
    /\ UNCHANGED <<userVars, policyVars, faults, scanCache, pending, stateFile, queueVars, serverVars, ghosts>>

\* The profiles of a browser come in the order in which they were last used.
NextProfile(d) == collect.pc = "next" /\ d \in collect.left

\* The signature of a database is taken before it is copied.
dbSignature(d) ==
    /\ NextProfile(d)
    /\ LET hit == scanCache[d].sig = version[d] IN
       collect' = [collect EXCEPT !.left = @ \ {d}, !.sig = version[d],
                                  !.pc = IF hit THEN "next" ELSE d,
                                  !.found = @ \cup (IF hit THEN scanCache[d].rows ELSE {})]
    /\ UNCHANGED <<userVars, policyVars, faults, running, scanCache, loaded, sent, pending, stateFile,
                   cycle, queueVars, serverVars, ghosts>>

\* Chromium and Firefox: a row per page, with the time of the latest visit.
scanChromiumDB(d) ==
    Newest({e \in history[d] : \A f \in history[d] : f.url = e.url => f.at <= e.at}, ScanLimit)

\* Safari: a row per visit.
scanSafariDB(d) == Newest(history[d], ScanLimit)

Scan(d) == IF d \in PerVisit THEN scanSafariDB(d) ELSE scanChromiumDB(d)

\* The copy is queried for its latest rows; the scan is kept under the
\* signature that was taken before.
cachedScan(d) ==
    /\ collect.pc = d
    /\ LET rows == Scan(d) IN
       /\ collect' = [collect EXCEPT !.pc = "next", !.found = @ \cup rows]
       /\ scanCache' = IF collect.sig = 0 THEN scanCache
                       ELSE [scanCache EXCEPT ![d] = [sig |-> collect.sig, rows |-> rows]]
    /\ UNCHANGED <<userVars, policyVars, faults, running, loaded, sent, pending, stateFile,
                   cycle, queueVars, serverVars, ghosts>>

\* Mutant: a scan without result is kept like any other.
FailureCached(d) == [scanCache EXCEPT ![d] = [sig |-> collect.sig, rows |-> {}]]

\* A scan that failed (nil) is not kept.
FailureNotCached(d) == scanCache

\* A torn copy or a locked file: the database counts as empty in this cycle.
ScanFails(d) ==
    /\ collect.pc = d /\ faults < MaxFaults
    /\ faults' = faults + 1
    /\ collect' = [collect EXCEPT !.pc = "next"]
    /\ scanCache' = FailureNotCached(d)
    /\ UNCHANGED <<userVars, policyVars, running, loaded, sent, pending, stateFile,
                   cycle, queueVars, serverVars, ghosts>>

hasSent(e) == e \in sent

\* Mutant: what is remembered for Commit is taken before the cap.
PendingUncapped(batch, unsent) == unsent

Pending(batch, unsent) == batch

\* Collect returns the oldest unsent rows and keeps a copy for Commit.  The
\* policy of the cycle is applied to the returned rows only.
Collected == collect.pc = "next" /\ collect.left = {}
Unsent == {e \in collect.found : ~hasSent(e)}
Batch == Oldest(Unsent, UploadLimit)

\* applyBrowserHistoryPolicy in the agent: rows without a host stay as they are.
applyBrowserHistoryPolicy(S, pol) ==
    LET kept == IF pol.limit > 0 THEN Newest(S, pol.limit) ELSE S IN
    IF pol.mode # "domain_only" THEN kept
    ELSE {[e EXCEPT !.url = IF @ \in Pages /\ Site[@] # NoHost THEN Site[@] ELSE @] : e \in kept}

\* Collect ends.  If its caller has given up nobody takes the result, but the
\* rows stay behind in pending.
FinishCollect ==
    /\ Collected
    /\ pending' = Pending(Batch, Unsent)
    /\ collect' = Resting /\ running' = FALSE
    /\ IF cycle.pc = "wait"
       THEN LET out == applyBrowserHistoryPolicy(Batch, cycle.policy) IN
            /\ cycle' = [cycle EXCEPT !.pc = "push", !.history = out]
            /\ stray' = stray \cup (Times(Batch) \ Times(out))
       ELSE cycle' = cycle /\ stray' = stray \cup Times(Batch)
    /\ UNCHANGED <<userVars, policyVars, faults, scanCache, loaded, sent, stateFile, queueVars,
                   serverVars, queued, again, forgotten>>

\* The deferred release of the guard.
Recover == running' = FALSE

\* A panic is recovered in the goroutine and reported as an error.
CollectPanics ==
    /\ collect.pc # "idle" /\ faults < MaxFaults
    /\ faults' = faults + 1
    /\ collect' = Resting /\ Recover
    /\ cycle' = IF cycle.pc = "wait" THEN [cycle EXCEPT !.pc = "push"] ELSE cycle
    /\ UNCHANGED <<userVars, policyVars, scanCache, loaded, sent, pending, stateFile, queueVars, serverVars, ghosts>>

\* The guard gives up waiting; the goroutine goes on.
CollectTimeout ==
    /\ cycle.pc = "wait" /\ faults < MaxFaults
    /\ faults' = faults + 1
    /\ cycle' = [cycle EXCEPT !.pc = "push"]
    /\ UNCHANGED <<userVars, policyVars, collectorVars, queueVars, serverVars, ghosts>>

(* The end of the cycle. *)

\* A payload without history matters to Commit only.
Push ==
    /\ cycle.pc = "push"
    /\ IF cycle.history = {} THEN UNCHANGED queueVars
       ELSE /\ pushes' = pushes + 1
            /\ queue' = queue \cup {[id |-> pushes', history |-> cycle.history]}
    /\ cycle' = [cycle EXCEPT !.pc = "commit"]
    /\ queued' = queued \cup Times(cycle.history)
    /\ again' = again \cup (queued \cap Times(cycle.history))
    /\ UNCHANGED <<userVars, policyVars, faults, collectorVars, serverVars, stray, forgotten>>

\* The next payload that is pushed commits what is pending now.
PushFails ==
    /\ cycle.pc = "push" /\ faults < MaxFaults
    /\ faults' = faults + 1
    /\ cycle' = [cycle EXCEPT !.pc = "start"]
    /\ stray' = stray \cup Times(pending)
    /\ UNCHANGED <<userVars, policyVars, collectorVars, queueVars, serverVars, queued, again, forgotten>>

pruneSentEntries(S) == Newest(S, SentLimit)

\* Mutant: only the rows of this cycle are remembered.
RememberedOnly == pending

\* The rows that count as sent after a commit.
Remembered == pruneSentEntries(sent \cup pending)

\* Commit follows every successful Push.  It does nothing while a Collect
\* holds the lock or when there is nothing pending; the file is written last.
Commit(stored) ==
    /\ cycle.pc = "commit"
    /\ cycle' = [cycle EXCEPT !.pc = "start"]
    /\ IF collect.pc # "idle" \/ pending = {}
       THEN /\ stored
            /\ UNCHANGED <<sent, pending, stateFile, forgotten, faults>>
       ELSE /\ stored \/ faults < MaxFaults
            /\ faults' = IF stored THEN faults ELSE faults + 1
            /\ sent' = Remembered /\ pending' = {}
            /\ stateFile' = IF stored THEN Remembered ELSE stateFile
            /\ forgotten' = forgotten \cup
                   (Times(sent \cup pending) \ Times(pruneSentEntries(sent \cup pending)))
    /\ UNCHANGED <<userVars, policyVars, collect, running, scanCache, loaded, queueVars, serverVars,
                   queued, again, stray>>

\* The agent dies, possibly while it writes the state file, and starts again.
Restart(file) ==
    /\ faults < MaxFaults
    /\ file = stateFile \/ (file = Torn /\ cycle.pc = "commit" /\ pending # {} /\ collect.pc = "idle")
    /\ faults' = faults + 1
    /\ stateFile' = file
    /\ collect' = Resting /\ running' = FALSE
    /\ scanCache' = [d \in Databases |-> [sig |-> 0, rows |-> {}]]
    /\ loaded' = FALSE /\ sent' = {} /\ pending' = {}
    /\ cycle' = [cycle EXCEPT !.pc = "start", !.history = {}]
    /\ forgotten' = forgotten \cup (queued \ Times(file))
    /\ UNCHANGED <<userVars, policyVars, queueVars, serverVars, queued, again, stray>>

(* The ingest. *)

NoRequest == [pc |-> "idle", id |-> 0, kept |-> {}, days |-> {}]
Day(e) == e.at \div DayLength
browserHistoryDedupeKey(e) == <<e.db, IF e.url \in Pages THEN Title[e.url] ELSE e.url>>

\* enforceBrowserHistoryPolicy: the policy of the API at the time of the
\* upload, whatever the agent applied.
enforceBrowserHistoryPolicy(S) ==
    IF ~policy.collect \/ policy.mode = "disabled" THEN {}
    ELSE IF policy.mode # "domain_only" THEN S
    ELSE {[e EXCEPT !.url = IF @ \in Pages THEN Site[@] ELSE @] :
             e \in {f \in S : f.url \in Pages => Site[f.url] # NoHost}}

\* Mutant: of two entries with the same key the later in the list is kept.
ExtractLast(S) ==
    {e \in S : \A f \in S : browserHistoryDedupeKey(f) = browserHistoryDedupeKey(e) => e.at <= f.at}

\* The list is newest first and the first entry of a key is kept.
extractNewBrowserHistoryEntries(S) ==
    {e \in S : \A f \in S : browserHistoryDedupeKey(f) = browserHistoryDedupeKey(e) => f.at <= e.at}

\* An upload of a stored event is answered at once.
BeginIngest(p) ==
    /\ ingest.pc = "idle" /\ p \in queue
    /\ LET kept == enforceBrowserHistoryPolicy(p.history) IN
       IF p.id \in {doc.id : doc \in docs}
       THEN queue' = queue \ {p} /\ UNCHANGED <<ingest, stray>>
       ELSE /\ queue' = queue
            /\ ingest' = [pc |-> "put", id |-> p.id, kept |-> kept, days |-> {Day(e) : e \in kept}]
            /\ stray' = stray \cup (Times(p.history) \ Times(kept))
    /\ UNCHANGED <<userVars, policyVars, faults, collectorVars, cycle, pushes, objects, docs,
                   queued, again, forgotten>>

\* One object per day; its name holds a hash of a body with the time of the
\* ingest, so a repeated upload adds a second object.
PutDay(day) ==
    /\ ingest.pc = "put" /\ day \in ingest.days
    /\ LET group == {e \in extractNewBrowserHistoryEntries(ingest.kept) : Day(e) = day} IN
       objects' = IF group = {} THEN objects
                  ELSE objects \cup {[day |-> day, id |-> ingest.id, run |-> faults, entries |-> group]}
    /\ ingest' = [ingest EXCEPT !.days = @ \ {day}]
    /\ UNCHANGED <<userVars, policyVars, faults, collectorVars, cycle, queueVars, docs, ghosts>>

\* The answer 500, or an API that dies: the payload stays in the queue.
IngestFails ==
    /\ ingest.pc = "put" /\ faults < MaxFaults
    /\ faults' = faults + 1
    /\ ingest' = NoRequest
    /\ UNCHANGED <<userVars, policyVars, collectorVars, cycle, queueVars, objects, docs, ghosts>>

\* The telemetry document is stored; the agent may miss the answer.
StoreTelemetry(answered) ==
    /\ ingest.pc = "put" /\ ingest.days = {}
    /\ answered \/ faults < MaxFaults
    /\ faults' = IF answered THEN faults ELSE faults + 1
    /\ docs' = docs \cup {[id |-> ingest.id, kept |-> ingest.kept]}
    /\ queue' = IF answered THEN {p \in queue : p.id # ingest.id} ELSE queue
    /\ ingest' = NoRequest
    /\ UNCHANGED <<userVars, policyVars, collectorVars, cycle, pushes, objects, ghosts>>

\* What the dashboard shows of a range: the latest entry of every key.
ReadEntries(from, to) ==
    LET found == {e \in UNION {o.entries : o \in {x \in objects :
                        x.day \in (from \div DayLength)..(to \div DayLength)}} :
                  e.at \in from..to}
    IN  {e \in found : \A f \in found :
            browserHistoryDedupeKey(f) = browserHistoryDedupeKey(e) => f.at <= e.at}

-----------------------------------------------------------------------------
Init ==
    /\ clock = 0 /\ changes = 0 /\ faults = 0
    /\ history = [d \in Databases |-> {}] /\ version = [d \in Databases |-> 1]
    /\ policy = FirstPolicy /\ polled = FirstPolicy
    /\ collect = Resting /\ running = FALSE
    /\ scanCache = [d \in Databases |-> [sig |-> 0, rows |-> {}]]
    /\ loaded = FALSE /\ sent = {} /\ pending = {} /\ stateFile = {}
    /\ cycle = [pc |-> "start", history |-> {}, policy |-> FirstPolicy]
    /\ pushes = 0 /\ queue = {}
    /\ ingest = NoRequest /\ objects = {} /\ docs = {}
    /\ queued = {} /\ again = {} /\ stray = {} /\ forgotten = {}

Collector == FinishCollect \/ \E d \in Databases : dbSignature(d) \/ cachedScan(d)
MainLoop == StartCycle \/ Push \/ Commit(TRUE)

Server ==
    \/ \E p \in queue : BeginIngest(p)
    \/ \E day \in ingest.days : PutDay(day)
    \/ StoreTelemetry(TRUE)

Fault ==
    \/ \E d \in Databases : ScanFails(d)
    \/ CollectPanics \/ CollectTimeout \/ PushFails \/ Commit(FALSE)
    \/ \E file \in {stateFile, Torn} : Restart(file)
    \/ IngestFails \/ StoreTelemetry(FALSE)

Next ==
    \/ \E d \in Databases, p \in Pages : Visit(d, p)
    \/ \E pol \in Policies : SetPolicy(pol)
    \/ policyPoller \/ Collector \/ MainLoop \/ Server \/ Fault

Spec == Init /\ [][Next]_vars

\* The loops of the agent never end, the collector ends whether or not it was
\* waited for, and the API serves what is uploaded.
Fairness == WF_vars(policyPoller) /\ WF_vars(Collector) /\ WF_vars(MainLoop) /\ WF_vars(Server)
FairSpec == Spec /\ Fairness

-----------------------------------------------------------------------------
\* The type of the state; the guard's flag is set exactly while a Collect is
\* at work, and no more than SentLimit rows count as sent.
TypeOK ==
    /\ clock \in 0..MaxVisits /\ changes \in 0..MaxPolicies /\ faults \in 0..MaxFaults
    /\ \A d \in Databases : history[d] \subseteq Entry /\ version[d] \in Nat
    /\ policy \in Policies
    /\ running = (collect.pc # "idle") /\ (cycle.pc = "wait" => running)
    /\ sent \subseteq Entry /\ pending \subseteq Entry
    /\ Cardinality(sent) <= SentLimit
    /\ stateFile \subseteq Entry
    /\ cycle.pc \in {"start", "wait", "push", "commit"} /\ cycle.history \subseteq Entry
    /\ \A p \in queue : p.id \in 1..pushes /\ p.history \subseteq Entry
    /\ \A o \in objects : o.entries \subseteq Entry

\* A visit counts as sent, in memory or on disk, only if a payload with it was
\* queued.  Exempt is what the code gives up: rows cut by the limit of the
\* policy, rows of a Collect that ended after its caller had gone, and rows of
\* a payload that could not be queued; the next Commit takes all of them.
NothingSkipped ==
    Times(sent \cup stateFile) \subseteq queued \cup stray

\* Every state is well formed, and a Commit takes no visit for sent that was not.
SentInv == TypeOK /\ NothingSkipped

\* A visit is queued a second time only after the agent has lost its record of
\* it: in a crash before the state was written, or by the limit of the state.
AgainOnlyIfForgotten == again \subseteq forgotten

\* Whatever was repeated, and in whichever order, the archive shows for every
\* entry of a stored upload an entry of the same key that is as recent.
ArchiveCovers ==
    \A doc \in docs : \A e \in doc.kept : \E f \in ReadEntries(1, MaxVisits) :
        browserHistoryDedupeKey(f) = browserHistoryDedupeKey(e) /\ f.at >= e.at

\* A row that Collect reads, and of which the archive shows neither the row
\* itself nor a later one of its page or site; rows given up do not wait.
Waiting(t) ==
    \E d \in Databases : \E e \in Scan(d) :
        /\ e.at = t /\ t \notin stray
        /\ \A f \in ReadEntries(1, MaxVisits) : f.db = d /\ f.at >= t =>
               f.url \notin {q \in Pages : Title[q] = Title[e.url]} \cup {Site[e.url]}

\* While the policy asks for history no visit waits for ever, despite timeouts,
\* panics, failed scans, crashes and repeated uploads.
VisitsShown ==
    \A t \in Visits :
        <>[](policy.collect /\ policy.mode # "disabled") => []<>~Waiting(t)

\* The archive receives an entry once: the comment of the code says that only
\* entries the agent has not sent before are archived.
OnlyNewEntries == again = {}
=============================================================================
