------------------------------ MODULE Activity ------------------------------
(***************************************************************************)
(* One device, one calendar day: the ingests that archive its focus        *)
(* sessions, the summary rows in MongoDB, the focus cache in the memory of *)
(* the API and the reports that are made of them.  Two services of the     *)
(* device upload at the same time, an upload whose answer was lost is      *)
(* repeated, and the API may die between any two calls.                    *)
(***************************************************************************)
EXTENDS Sessions, Functions

CONSTANTS
    Users,             \* names the sessions are filed under
    Events,            \* event ids
    Payload,           \* Payload[e]: user, time, sessions and age of the upload
    Slots,             \* ingests at work at the same time
    maxWriteAttempts,
    MaxUploads,        \* bound: deliveries of events
    MaxFaults          \* bound: failing calls and restarts

ASSUME ActivityAssumption ==
    /\ IsFiniteSet(Users) /\ IsFiniteSet(Events)
    /\ Payload \in [Events -> [user : Users, at : Nat, sessions : Seq(Session),
                               queued : BOOLEAN]]
    /\ maxWriteAttempts \in Nat \ {0}
    /\ MaxUploads \in Nat /\ MaxFaults \in Nat

VARIABLES
    uploads, faults,
    object,   \* object[u]: activity.json of user u; etag 0 when there is none
    row,      \* row[u]: apps of the document in app_usage_daily
    docs,     \* events stored in telemetry
    ingest,   \* ingest[i]: the request in slot i
    applying, \* goroutines that will add an event to the focus cache
    cache,    \* cache[e]: how often e is contained in the totals of the cache
    rebuild,  \* buildFocusCacheFromMongo: stage and documents still to come
    raced,    \* events that were being stored when the cursor was opened
    unsure,   \* events whose insert was committed and answered with an error
    plain     \* an object was written without a condition

storeVars == <<object, row, docs>>
cacheVars == <<applying, cache, rebuild, raced, unsure>>
vars == <<uploads, faults, plain, storeVars, ingest, cacheVars>>

NoApps == [a \in {} |-> [seconds |-> 0, sessions |-> 0]]
NoObject == [etag |-> 0, sessions |-> <<>>]
Idle == [pc |-> "idle", event |-> "none", seen |-> NoObject, tries |-> 0, result |-> NoApps]

\* extractFocusSessions: what a payload contributes.
extractFocusSessions(e) ==
    LET all == Payload[e].sessions
        order == InOrder({i \in DOMAIN all : Visible(all[i]) /\ all[i].end > all[i].start}, <)
    IN  [k \in DOMAIN order |-> all[order[k]]]
UserOf(e) == Payload[e].user

(* The ingest of one upload. *)

\* A body that is known by its event id is answered without any work.  An
\* upload without sessions does not touch the archive.
Begin(i, e) ==
    /\ ingest[i].pc = "idle" /\ SumFunction(uploads) < MaxUploads
    /\ uploads' = [uploads EXCEPT ![e] = @ + 1]
    /\ ingest' = IF e \in docs THEN ingest
                 ELSE [ingest EXCEPT ![i] = [Idle EXCEPT
                        !.pc = IF extractFocusSessions(e) = <<>> THEN "insert" ELSE "read",
                        !.event = e]]
    /\ UNCHANGED <<faults, plain, storeVars, cacheVars>>

readObject(i) ==
    /\ ingest[i].pc = "read"
    /\ ingest' = [ingest EXCEPT ![i].seen = object[UserOf(ingest[i].event)],
                                ![i].pc = "put"]
    /\ UNCHANGED <<uploads, faults, plain, storeVars, cacheVars>>

\* The document that the PUT of slot i carries.
Merged(i) ==
    normalizeActivitySessions(ingest[i].seen.sessions \o extractFocusSessions(ingest[i].event))

\* The object becomes what slot i merged, under a new etag.
Stored(i) ==
    [object EXCEPT ![UserOf(ingest[i].event)] = [etag |-> @.etag + 1, sessions |-> Merged(i)]]

Archived(i) ==
    [ingest EXCEPT ![i].result = summarizeActivitySessions(Merged(i)), ![i].pc = "insert"]

\* Another writer won: read and merge again, three times at most; the last
\* failure is answered with an error and the agent keeps the upload queued.
Again(i) ==
    LET tries == ingest[i].tries + 1
    IN  IF tries < maxWriteAttempts
        THEN [ingest EXCEPT ![i].tries = tries, ![i].pc = "read"]
        ELSE [ingest EXCEPT ![i] = Idle]

\* Mutant: the write carries no condition.
MatchesAnything(i) == TRUE

Matches(i) == object[UserOf(ingest[i].event)].etag = ingest[i].seen.etag

\* PUT with IfMatch (IfNoneMatch for a new object).
Archive(i) ==
    /\ ingest[i].pc = "put"
    /\ IF Matches(i)
       THEN object' = Stored(i) /\ ingest' = Archived(i)
       ELSE object' = object /\ ingest' = Again(i)
    /\ UNCHANGED <<uploads, faults, plain, row, docs, cacheVars>>

\* The write is done, its answer is lost, and the SDK's own repetition of the
\* request fails on the etag that it has itself replaced.
ArchiveEcho(i) ==
    /\ ingest[i].pc = "put" /\ Matches(i) /\ faults < MaxFaults
    /\ object' = Stored(i)
    /\ ingest' = Again(i)
    /\ faults' = faults + 1
    /\ UNCHANGED <<uploads, plain, row, docs, cacheVars>>

\* A failure without an error code, such as a broken connection, is taken for
\* a provider that lacks conditional writes.
ArchiveUncoded(i) ==
    /\ ingest[i].pc = "put" /\ faults < MaxFaults
    /\ ingest' = [ingest EXCEPT ![i].pc = "plain"]
    /\ faults' = faults + 1
    /\ UNCHANGED <<uploads, plain, storeVars, cacheVars>>

\* The same body again, without a condition.
ArchivePlain(i) ==
    /\ ingest[i].pc = "plain"
    /\ object' = Stored(i) /\ ingest' = Archived(i)
    /\ plain' = TRUE
    /\ UNCHANGED <<uploads, faults, row, docs, cacheVars>>

\* Mutant: a duplicate key is not told from success.
InsertTwice(i) ==
    /\ ingest[i].pc = "insert"
    /\ docs' = docs \cup {ingest[i].event}
    /\ ingest' = [ingest EXCEPT ![i].pc = "row"]
    /\ UNCHANGED <<uploads, faults, plain, object, row, cacheVars>>

\* The unique index on event ids decides between two concurrent uploads.
InsertTelemetry(i) ==
    LET e == ingest[i].event IN
    /\ ingest[i].pc = "insert"
    /\ docs' = docs \cup {e}
    /\ ingest' = IF e \in docs THEN [ingest EXCEPT ![i] = Idle]
                 ELSE [ingest EXCEPT ![i].pc = "row"]
    /\ UNCHANGED <<uploads, faults, plain, object, row, cacheVars>>

\* The document is stored but the call reports an error: the request ends
\* there, and the repeated upload is answered as a duplicate.
InsertUnsure(i) ==
    LET e == ingest[i].event IN
    /\ ingest[i].pc = "insert" /\ e \notin docs /\ faults < MaxFaults
    /\ docs' = docs \cup {e}
    /\ unsure' = unsure \cup {e}
    /\ ingest' = [ingest EXCEPT ![i] = Idle]
    /\ faults' = faults + 1
    /\ UNCHANGED <<uploads, plain, object, row, applying, cache, rebuild, raced>>

\* A snapshot is fresh for five minutes; one that waited in the queue of the
\* agent was fresh when it was taken, not when it arrives.
activeWindowSnapshotFresh(e) == ~Payload[e].queued

\* The goroutine that will add an event to the focus cache drops a stale one.
FocusGoroutine(e) ==
    IF activeWindowSnapshotFresh(e) THEN applying \cup {e} ELSE applying

\* The upsert of the summary (absent when nothing was archived), the
\* goroutine for the focus cache and the answer.
UpsertRow(i) ==
    LET e == ingest[i].event IN
    /\ ingest[i].pc = "row"
    /\ row' = IF ingest[i].result = NoApps THEN row
              ELSE [row EXCEPT ![UserOf(e)] = ingest[i].result]
    /\ applying' = FocusGoroutine(e)
    /\ ingest' = [ingest EXCEPT ![i] = Idle]
    /\ UNCHANGED <<uploads, faults, plain, object, docs, cache, rebuild, raced, unsure>>

\* A failing upsert is logged; everything else goes on.
UpsertRowFails(i) ==
    LET e == ingest[i].event IN
    /\ ingest[i].pc = "row" /\ faults < MaxFaults
    /\ applying' = FocusGoroutine(e)
    /\ ingest' = [ingest EXCEPT ![i] = Idle]
    /\ faults' = faults + 1
    /\ UNCHANGED <<uploads, plain, storeVars, cache, rebuild, raced, unsure>>

\* Any other failing call ends the request with an error.
IngestFails(i) ==
    /\ ingest[i].pc \in {"read", "put", "plain", "insert"} /\ faults < MaxFaults
    /\ ingest' = [ingest EXCEPT ![i] = Idle]
    /\ faults' = faults + 1
    /\ UNCHANGED <<uploads, plain, storeVars, cacheVars>>

(* The focus cache. *)

applyFocusSummaries(e) ==
    /\ e \in applying
    /\ applying' = applying \ {e}
    /\ cache' = [cache EXCEPT ![e] = @ + 1]
    /\ UNCHANGED <<uploads, faults, plain, storeVars, ingest, rebuild, raced, unsure>>

\* The cursor descends from the newest document: it sees what is stored when
\* it is opened, also what no request will count.  Requests are served before.
OpenRebuild ==
    /\ rebuild.stage = "starting"
    /\ rebuild' = [stage |-> "reading", left |-> docs]
    /\ raced' = {e \in docs : e \in applying \/ cache[e] > 0
                              \/ \E i \in Slots : ingest[i].pc = "row" /\ ingest[i].event = e}
    /\ unsure' = {}
    /\ UNCHANGED <<uploads, faults, plain, storeVars, ingest, applying, cache>>

RebuildNext(e) ==
    /\ rebuild.stage = "reading" /\ e \in rebuild.left
    /\ cache' = [cache EXCEPT ![e] = @ + 1]
    /\ rebuild' = [rebuild EXCEPT !.left = @ \ {e}]
    /\ UNCHANGED <<uploads, faults, plain, storeVars, ingest, applying, raced, unsure>>

\* The timeout of five minutes per device: the rest is given up, with a log line.
RebuildTruncated ==
    /\ rebuild.stage = "reading" /\ rebuild.left # {} /\ faults < MaxFaults
    /\ rebuild' = [stage |-> "truncated", left |-> {}]
    /\ faults' = faults + 1
    /\ UNCHANGED <<uploads, plain, storeVars, ingest, applying, cache, raced, unsure>>

\* The API dies and starts again: requests, goroutines and cache are lost.
Restart ==
    /\ faults < MaxFaults
    /\ faults' = faults + 1
    /\ ingest' = [i \in Slots |-> Idle]
    /\ applying' = {} /\ cache' = [e \in Events |-> 0] /\ raced' = {} /\ unsure' = {}
    /\ rebuild' = [stage |-> "starting", left |-> {}]
    /\ UNCHANGED <<uploads, plain, storeVars>>

Init ==
    /\ uploads = [e \in Events |-> 0] /\ faults = 0 /\ plain = FALSE
    /\ object = [u \in Users |-> NoObject]
    /\ row = [u \in Users |-> NoApps]
    /\ docs = {}
    /\ ingest = [i \in Slots |-> Idle]
    /\ applying = {} /\ cache = [e \in Events |-> 0] /\ raced = {} /\ unsure = {}
    /\ rebuild = [stage |-> "starting", left |-> {}]

IngestStep(i) ==
    \/ readObject(i) \/ Archive(i) \/ ArchiveEcho(i) \/ ArchiveUncoded(i) \/ ArchivePlain(i)
    \/ InsertTelemetry(i) \/ InsertUnsure(i) \/ UpsertRow(i) \/ UpsertRowFails(i)
    \/ IngestFails(i)

Next ==
    \/ \E i \in Slots : IngestStep(i) \/ \E e \in Events : Begin(i, e)
    \/ \E e \in Events : applyFocusSummaries(e) \/ RebuildNext(e)
    \/ OpenRebuild \/ RebuildTruncated \/ Restart

Spec == Init /\ [][Next]_vars

(* The reports. *)

Points == {Payload[e].at : e \in docs}

\* Rows are computed again from their archives, clipped to the time the
\* device was online.  A row without sessions left is dropped; with no
\* window at all the stored rows are taken as they are.
recomputeDailyAppUsageRowsFromArchives(windows) ==
    LET Recomputed(u) == summarizeActivitySessions(
            clippedActivitySessionsForPresence(object[u].sessions, windows))
        shown == {u \in Users : row[u] # NoApps}
    IN  IF windows = <<>> THEN [u \in shown |-> row[u]]
        ELSE [u \in {v \in shown : Recomputed(v) # NoApps} |-> Recomputed(u)]

deviceAppUsage ==
    capDailyAppUsageRowsToOnlineSeconds(
        recomputeDailyAppUsageRowsFromArchives(presenceWindows(Points)),
        presenceOnlineSeconds(Points))

\* The weekly report sums the rows as they are stored.
weeklyAppSeconds == RowsSeconds(row)

(* Properties. *)

\* The type of every variable; no ingest is past its last attempt to write the
\* object, and only stored uploads are on their way into the focus cache.
TypeOK ==
    /\ uploads \in [Events -> 0 .. MaxUploads] /\ faults \in 0 .. MaxFaults
    /\ \A u \in Users : object[u].etag \in Nat /\ object[u].sessions \in Seq(Session)
    /\ docs \subseteq Events /\ applying \subseteq docs
    /\ raced \subseteq docs /\ unsure \subseteq docs
    /\ cache \in [Events -> Nat]
    /\ rebuild.stage \in {"starting", "reading", "truncated"} /\ rebuild.left \subseteq docs
    /\ \A i \in Slots :
        /\ ingest[i].pc \in {"idle", "read", "put", "plain", "insert", "row"}
        /\ ingest[i].event \in Events \cup {"none"}
        /\ ingest[i].tries \in 0 .. maxWriteAttempts - 1

CoveredIn(seq) == UNION {Ticks(seq[k]) : k \in DOMAIN seq}
TimeOf(seq, a) == UNION {Ticks(seq[k]) : k \in {j \in DOMAIN seq : seq[j].app = a}}
Sent(e) == CoveredIn(extractFocusSessions(e)) \cap (0 .. DayLength - 1)

\* Whatever the uploads race with, repeat or lose, the time of every stored
\* upload that falls on the day stays covered by the archived day, as long as
\* every write carried its condition: no writer overwrites the sessions of
\* another (DailyActivityArchive.Archive).
SessionsKept ==
    plain \/ \A e \in docs : Sent(e) \subseteq CoveredIn(object[UserOf(e)].sessions)

\* Every state is well formed, and no writer overwrites another's sessions.
ArchiveInv == TypeOK /\ SessionsKept

\* The same without the proviso, as the comment in Archive has it: IfMatch
\* turns the race of two writers into a retry, and the plain write is for
\* providers that lack conditional writes (they all have them here).
SessionsAlwaysKept ==
    \A e \in docs : Sent(e) \subseteq CoveredIn(object[UserOf(e)].sessions)

\* normalizeActivitySessions: the archived sessions of a day are in order and
\* disjoint, lie within the day and are all of visible apps, so that their
\* sum cannot exceed the day.
DayIsOrdered ==
    \A u \in Users :
        LET s == object[u].sessions IN
        \A k \in DOMAIN s :
            /\ 0 <= s[k].start /\ s[k].start < s[k].end /\ s[k].end <= DayLength
            /\ Visible(s[k])
            /\ k > 1 => s[k - 1].end <= s[k].start

\* What the uploads so far have reported for application a of user u.
TimeReported(u, a) ==
    (0 .. DayLength - 1) \cap
    UNION {TimeOf(extractFocusSessions(e), a) : e \in {f \in Events : uploads[f] > 0 /\ UserOf(f) = u}}

\* Archived time was spent, and on the application it is archived for: a tick
\* that no upload reported for it lies in a pause of at most MergeGap ticks
\* between two that were reported for it.
NoPhantomTime ==
    \A u \in Users, a \in Apps :
        LET reported == TimeReported(u, a)
        IN  \A t \in TimeOf(object[u].sessions, a) :
                \/ t \in reported
                \/ \E lo, hi \in reported : lo < t /\ t < hi /\ hi - lo <= MergeGap + 1

\* What mergeActivitySessions and its callers make of late, overlapping and
\* repeated sessions is a possible day of one user, and the one reported.
DayInv == DayIsOrdered /\ NoPhantomTime

\* A row may be stale, since the upserts of two ingests can pass each other,
\* but it never claims time that the archive does not contain; nor does the
\* weekly report, which sums rows.
RowsWithinArchive ==
    /\ plain \/ \A u \in Users :
        AppSeconds(row[u]) <= AppSeconds(summarizeActivitySessions(object[u].sessions))
    /\ weeklyAppSeconds <= Cardinality(Users) * DayLength

\* deviceAppUsageHandler: the report never shows more usage than the device
\* was online, although fragments are merged across pauses and the users of
\* one device overlap.
ReportWithinOnline ==
    LET r == deviceAppUsage
    IN  RowsSeconds(r.rows) * r.num <= presenceOnlineSeconds(Points) * r.den

\* Neither the stored rows nor the report computed from the archives claims
\* more than the archive, or the presence of the device, supports.
ReportInv == RowsWithinArchive /\ ReportWithinOnline

\* The focus cache contains no upload twice, however often it is delivered,
\* except those that were being stored while the start-up rebuild began.
FocusCountedOnce == \A e \in Events : cache[e] <= IF e \in raced THEN 2 ELSE 1

\* A stored upload with a live snapshot is in the cache, or a goroutine, a
\* request or the rebuild is still going to add it: unless its insert was
\* committed and answered with an error, when only the next rebuild counts it.
FocusComplete ==
    \A e \in docs :
        \/ Payload[e].queued \/ e \in unsure
        \/ cache[e] > 0 \/ e \in applying \/ e \in rebuild.left
        \/ rebuild.stage # "reading"
        \/ \E i \in Slots : ingest[i].pc = "row" /\ ingest[i].event = e

\* The focus totals count what is stored: all of it, and once.
FocusInv == FocusCountedOnce /\ FocusComplete
=============================================================================
