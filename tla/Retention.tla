----------------------------- MODULE Retention ------------------------------
(***************************************************************************)
(* How long telemetry is kept.  The policy lives in the memory of the API  *)
(* and is saved by a goroutine per change; the ingest stamps a document    *)
(* with the time it expires and, if S3 is configured, puts the payload     *)
(* into an object first; MongoDB removes expired documents and a daily     *)
(* sweep removes old objects; the history of a device reads both.  Without *)
(* S3 most documents are stored slim, with a full snapshot now and then.   *)
(*                                                                         *)
(* S3_RETENTION_SWEEP is "true" and TELEMETRY_STORE_FULL is not set.       *)
(***************************************************************************)
EXTENDS Integers

CONSTANTS
    Events,        \* events that agents upload, any number of times
    Key,           \* Key[e]: the device and collector role of event e
    Requests,      \* what an administrator posts: some settings
    NaN,           \* a retention that is not a number
    MinDays, MaxDays, DefaultDays,
    SafetyFloor,   \* shortest retention that is swept
    Every,         \* telemetrySnapshotInterval
    Never, None,
    MaxTime, MaxRequests, MaxFaults   \* bounds; uploads and posts share MaxRequests

Slots == {1, 2}     \* concurrent ingests
Modes == {"full_url", "domain_only", "disabled"}
Keys == {Key[e] : e \in Events}

ASSUME RetentionAssumption ==
    /\ {MinDays, MaxDays, DefaultDays, SafetyFloor, Every} \subseteq Nat
    /\ {MaxTime, MaxRequests, MaxFaults} \subseteq Nat
    /\ 0 < MinDays /\ MinDays <= DefaultDays /\ DefaultDays <= MaxDays
    /\ NaN \notin Nat /\ Never \notin Nat
    /\ None \notin [days : MinDays..MaxDays, mode : Modes]
    /\ \A new \in Requests : "days" \in DOMAIN new => new.days \in Int \cup {NaN}

VARIABLES
    now, faults,
    archiving,  \* telemetryStore is configured
    config,     \* globalPolicy
    stored,     \* the document global_policy, or None
    saves,      \* goroutines of savePolicyToMongo: the policies they save
    changes,    \* number of policies posted
    accepted,   \* history: the policy last answered with 200
    doubt,      \* history: since then a save was overtaken or lost, or a load failed
    attempts,   \* number of ingests begun
    req,        \* req[s]: the ingest in slot s
    last,       \* telemetrySnapshots
    taken,      \* history: snapshots stored
    wasted,     \* history: snapshots marked as taken and not stored
    objects,    \* the S3 archive
    docs,       \* the telemetry collection
    sweep,      \* the running sweep: its cutoff and retention, or None
    removed     \* history: objects swept, with the retention of the sweep

policyVars == <<config, stored, saves, changes, accepted, doubt>>
ingestVars == <<attempts, req, last, taken, wasted>>
sweepVars == <<sweep, removed>>
vars == <<now, faults, archiving, policyVars, ingestVars, objects, docs, sweepVars>>

Budget == attempts + changes < MaxRequests
Fault == faults < MaxFaults /\ faults' = faults + 1

(* The policy.  Of its settings the model keeps a number, the retention,   *)
(* and a mode; the others are clamped or defaulted in the same way.        *)

defaultPolicy == [days |-> DefaultDays, mode |-> "full_url"]

clampNumber(v) ==
    IF v = NaN THEN DefaultDays
    ELSE IF v < MinDays THEN MinDays ELSE IF v > MaxDays THEN MaxDays ELSE v

normalizePolicy(p) ==
    [days |-> clampNumber(p.days),
     mode |-> IF p.mode \in Modes THEN p.mode ELSE "disabled"]

currentRetentionDays == config.days

Merge(new) == [k \in DOMAIN config |-> IF k \in DOMAIN new THEN new[k] ELSE config[k]]

\* Mutant: the copy is taken before the change.
SavedBefore(new) == config

\* The copy of the policy that the goroutine saves.
Saved(new) == normalizePolicy(Merge(new))

policyHandler(new) ==
    /\ Budget /\ changes' = changes + 1
    /\ config' = normalizePolicy(Merge(new))
    /\ accepted' = config'
    /\ saves' = saves \cup {[n |-> changes, policy |-> Saved(new)]}
    /\ doubt' = (saves # {})
    /\ UNCHANGED <<now, faults, archiving, stored, ingestVars, objects, docs, sweepVars>>

\* The goroutines run in any order.
savePolicyToMongo(g) ==
    /\ saves' = saves \ {g}
    /\ stored' = g.policy
    /\ UNCHANGED <<now, faults, archiving, config, changes, accepted, doubt,
                   ingestVars, objects, docs, sweepVars>>

\* An error is only logged.
SaveFails(g) ==
    /\ Fault
    /\ saves' = saves \ {g} /\ doubt' = TRUE
    /\ UNCHANGED <<now, archiving, config, stored, changes, accepted,
                   ingestVars, objects, docs, sweepVars>>

loadPolicyFromMongo(found) ==
    config' = IF found /\ stored # None THEN normalizePolicy(stored) ELSE defaultPolicy

(* The ingest. *)

Free == [pc |-> "idle"]
Known(e) == \E doc \in docs : doc.event = e

\* The lookup by event id comes first; an event that is stored is answered
\* as a duplicate and changes nothing.  The slots are alike: the first that
\* is free is used.
BeginIngest(s, e) ==
    /\ req[s] = Free /\ (\A o \in Slots : o < s => req[o] # Free) /\ ~Known(e)
    /\ Budget /\ attempts' = attempts + 1
    /\ req' = [req EXCEPT ![s] = [pc |-> IF archiving THEN "archive" ELSE "store",
                                  event |-> e, at |-> now, days |-> currentRetentionDays,
                                  n |-> attempts, kind |-> "none"]]
    /\ UNCHANGED <<now, faults, archiving, policyVars, last, taken, wasted, objects, docs, sweepVars>>

\* TelemetryArchive.Archive.  The name of the object has a hash of the body,
\* which holds ingested_at: every attempt writes an object of its own.
Archive(s) ==
    /\ req[s].pc = "archive"
    /\ objects' = objects \cup {[id |-> req[s].n, modified |-> now]}
    /\ req' = [req EXCEPT ![s].pc = "insert", ![s].kind = "archived"]
    /\ UNCHANGED <<now, faults, archiving, policyVars, attempts, last, taken, wasted, docs, sweepVars>>

\* Mutant: a snapshot is due only after more than the interval.
dueLate(k, at) == Every > 0 /\ ~(last[k] # Never /\ at - last[k] <= Every)

due(k, at) == Every > 0 /\ ~(last[k] # Never /\ at - last[k] < Every)

\* Without S3 the document is a full snapshot or a slim one; due marks the
\* snapshot as taken.
telemetryDocForStorage(s) ==
    LET k == Key[req[s].event]
        full == due(k, req[s].at) IN
    /\ req[s].pc = "store"
    /\ last' = IF full THEN [last EXCEPT ![k] = req[s].at] ELSE last
    /\ req' = [req EXCEPT ![s].pc = "insert", ![s].kind = IF full THEN "snapshot" ELSE "slim"]
    /\ UNCHANGED <<now, faults, archiving, policyVars, attempts, taken, wasted, objects, docs, sweepVars>>

\* The snapshot, if any, that request r is to store.
Snapshot(r) ==
    IF r # Free /\ r.kind = "snapshot" THEN {[key |-> Key[r.event], at |-> r.at]} ELSE {}

\* What the telemetry collection keeps of request r: a pointer to the object,
\* or identity and times, or the payload.
telemetryMetadata(r) ==
    [event |-> r.event, at |-> r.at, days |-> r.days, kind |-> "archived", object |-> r.n]
slimTelemetryDoc(r) ==
    [event |-> r.event, at |-> r.at, days |-> r.days, kind |-> "slim", object |-> None]
Document(r) ==
    CASE r.kind = "archived" -> telemetryMetadata(r)
      [] r.kind = "slim" -> slimTelemetryDoc(r)
      [] r.kind = "snapshot" -> [slimTelemetryDoc(r) EXCEPT !.kind = "snapshot"]

\* The unique index on the event id decides between concurrent uploads.
InsertOne(s) ==
    LET r == req[s] IN
    /\ r.pc = "insert"
    /\ IF Known(r.event)
       THEN wasted' = wasted \cup Snapshot(r) /\ UNCHANGED <<docs, taken>>
       ELSE /\ docs' = docs \cup {Document(r)}
            /\ taken' = taken \cup Snapshot(r) /\ UNCHANGED wasted
    /\ req' = [req EXCEPT ![s] = Free]
    /\ UNCHANGED <<now, faults, archiving, policyVars, attempts, last, objects, sweepVars>>

\* An S3 or database error ends the handler with a 500; the agent retries.
IngestFails(s) ==
    /\ Fault
    /\ req[s] # Free
    /\ req' = [req EXCEPT ![s] = Free] /\ wasted' = wasted \cup Snapshot(req[s])
    /\ UNCHANGED <<now, archiving, policyVars, attempts, last, taken, objects, docs, sweepVars>>

(* The end of a document and of an object. *)

\* MongoDB's monitor of the index on telemetry_expires_at.
ExpireDoc(doc) ==
    /\ doc.at + doc.days <= now
    /\ docs' = docs \ {doc}
    /\ UNCHANGED <<now, faults, archiving, policyVars, ingestVars, objects, sweepVars>>

\* Mutant: the floor itself is not swept.
SweptAboveFloor == currentRetentionDays > SafetyFloor

Sweepable == currentRetentionDays >= SafetyFloor

\* Mutant: the floor is taken for the retention.
CutoffAtFloor == now - SafetyFloor

Cutoff == now - currentRetentionDays

startRetentionSweep ==
    /\ archiving /\ sweep = None /\ Sweepable
    /\ sweep' = [cutoff |-> Cutoff, days |-> currentRetentionDays]
    /\ UNCHANGED <<now, faults, archiving, policyVars, ingestVars, objects, docs, removed>>

\* Old objects are deleted one by one, in the order of the listing.
sweepS3Prefix(o) ==
    /\ sweep # None /\ o.modified < sweep.cutoff
    /\ objects' = objects \ {o}
    /\ removed' = removed \cup {[id |-> o.id, days |-> sweep.days]}
    /\ UNCHANGED <<now, faults, archiving, policyVars, ingestVars, docs, sweep>>

SweepDone ==
    /\ sweep # None /\ \A o \in objects : o.modified >= sweep.cutoff
    /\ sweep' = None
    /\ UNCHANGED <<now, faults, archiving, policyVars, ingestVars, objects, docs, removed>>

\* The first error, or the end of the half hour, ends the sweep of a prefix.
SweepFails ==
    /\ Fault
    /\ sweep # None /\ sweep' = None
    /\ UNCHANGED <<now, archiving, policyVars, ingestVars, objects, docs, removed>>

\* The API starts again; a policy that cannot be read is the default one.
Restart(found) ==
    /\ Fault
    /\ loadPolicyFromMongo(found)
    /\ saves' = {} /\ sweep' = None
    /\ doubt' = (doubt \/ saves # {} \/ (~found /\ stored # None))
    /\ req' = [s \in Slots |-> Free] /\ last' = [k \in Keys |-> Never]
    /\ wasted' = wasted \cup UNION {Snapshot(req[s]) : s \in Slots}
    /\ UNCHANGED <<now, archiving, stored, changes, accepted, attempts, taken, objects, docs, removed>>

Tick ==
    /\ now < MaxTime /\ now' = now + 1
    /\ UNCHANGED <<faults, archiving, policyVars, ingestVars, objects, docs, sweepVars>>

\* TelemetryArchive.Read
Read(doc) == \E o \in objects : o.id = doc.object

\* One archived document without its object fails the whole answer.
historyHandler(k) ==
    LET history == {doc \in docs : Key[doc.event] = k} IN
    [history |-> history,
     failed |-> \E doc \in history : doc.kind = "archived" /\ ~Read(doc)]

Init ==
    /\ now = 0 /\ faults = 0 /\ archiving \in BOOLEAN
    /\ config = defaultPolicy /\ stored = None /\ saves = {} /\ changes = 0
    /\ accepted = defaultPolicy /\ doubt = FALSE
    /\ attempts = 0 /\ req = [s \in Slots |-> Free] /\ last = [k \in Keys |-> Never]
    /\ taken = {} /\ wasted = {} /\ objects = {} /\ docs = {} /\ sweep = None /\ removed = {}

Next ==
    \/ \E new \in Requests : policyHandler(new)
    \/ \E g \in saves : savePolicyToMongo(g) \/ SaveFails(g)
    \/ \E s \in Slots :
        \/ \E e \in Events : BeginIngest(s, e)
        \/ Archive(s) \/ telemetryDocForStorage(s) \/ InsertOne(s) \/ IngestFails(s)
    \/ \E doc \in docs : ExpireDoc(doc)
    \/ startRetentionSweep \/ \E o \in objects : sweepS3Prefix(o)
    \/ SweepDone \/ SweepFails
    \/ \E found \in BOOLEAN : Restart(found)
    \/ Tick

Spec == Init /\ [][Next]_vars

\* The goroutine of the sweep runs as long as the API does.
FairSpec ==
    /\ Spec
    /\ WF_vars(startRetentionSweep) /\ WF_vars(SweepDone)
    /\ WF_vars(\E o \in objects : sweepS3Prefix(o))

(* Properties *)

Policies == [days : MinDays..MaxDays, mode : Modes]

\* The type of every variable; the retention that is used is always one of
\* the values normalizePolicy admits.
TypeOK ==
    /\ now \in 0..MaxTime /\ faults \in 0..MaxFaults /\ archiving \in BOOLEAN
    /\ config \in Policies /\ accepted \in Policies /\ stored \in Policies \cup {None}
    /\ saves \subseteq [n : 0..MaxRequests, policy : Policies] /\ doubt \in BOOLEAN
    /\ \A s \in Slots :
        req[s] = Free \/ (req[s].event \in Events /\ req[s].days \in MinDays..MaxDays)
    /\ last \in [Keys -> 0..MaxTime \cup {Never}]
    /\ taken \cup wasted \subseteq [key : Keys, at : 0..MaxTime]
    /\ objects \subseteq [id : 0..MaxRequests, modified : 0..MaxTime]
    /\ docs \subseteq [event : Events, at : 0..MaxTime, days : MinDays..MaxDays,
                       kind : {"archived", "snapshot", "slim"}, object : 0..MaxRequests \cup {None}]
    /\ sweep = None \/ sweep.days \in SafetyFloor..MaxDays
    /\ removed \subseteq [id : 0..MaxRequests, days : SafetyFloor..MaxDays]

\* The history of a device fails for want of an object only while a document
\* has expired and MongoDB has not removed it yet, or when the object went in
\* a sweep with a shorter retention than the document was stored under: the
\* stamp of the ingest and the cutoff of the sweep never cross otherwise.
HistoryReadable ==
    \A k \in Keys : LET answer == historyHandler(k) IN answer.failed =>
        \A doc \in answer.history : doc.kind = "archived" /\ ~Read(doc) =>
            \/ doc.at + doc.days <= now
            \/ \E r \in removed : r.id = doc.object /\ r.days < doc.days

\* Every state is well formed, and the history fails only for those reasons.
HistoryInv == TypeOK /\ HistoryReadable

\* Unless saves overlapped, failed or were cut off by a restart, or the load
\* at a start failed, the policy last accepted is the one in force and, once
\* saved, the one the next start will read.
PolicySurvives ==
    saves = {} /\ ~doubt =>
        /\ config = accepted
        /\ stored = accepted \/ (stored = None /\ accepted = defaultPolicy)

\* Every slim document has a full snapshot of its device and role less than
\* the interval before it (or after it), whatever the order in which concurrent
\* ingests mark and insert; the one exception is a snapshot that was marked as
\* taken and then not inserted.
SnapshotRegular ==
    \A doc \in docs : doc.kind = "slim" /\ Every > 0 =>
        \E full \in taken \cup wasted \cup UNION {Snapshot(req[s]) : s \in Slots} :
            full.key = Key[doc.event] /\ doc.at - full.at < Every

\* The comment on the snapshots without that exception: "plus one full
\* snapshot per device and collector role per TELEMETRY_SNAPSHOT_MINUTES".
SnapshotStored ==
    \A doc \in docs : doc.kind = "slim" /\ Every > 0 =>
        \E full \in taken \cup UNION {Snapshot(req[s]) : s \in Slots} :
            full.key = Key[doc.event] /\ doc.at - full.at < Every

Old(n) ==
    /\ currentRetentionDays >= SafetyFloor
    /\ \E o \in objects : o.id = n /\ o.modified < now - currentRetentionDays

\* An object older than a retention at or above the floor is swept in the end,
\* although sweeps fail and the API restarts, unless the retention changes.
SweptEventually == \A n \in 0..(MaxRequests - 1) : Old(n) ~> ~Old(n)

=============================================================================
