------------------------------ MODULE Delivery ------------------------------
(***************************************************************************)
(* Telemetry delivery: the collection loops of the agent processes push    *)
(* payloads into the shared SQLite queue, the sync engine of the root      *)
(* service uploads them newest first, and POST /ingest on the API stores   *)
(* them.  Several ingest handlers may work at once: the API keeps working  *)
(* on a request whose client has timed out or died, while the agent        *)
(* uploads the same row again.                                             *)
(*                                                                         *)
(* A payload is identified with its row id: the queue's AUTOINCREMENT      *)
(* never reuses one, so log[i], the payload pushed as row i, never changes.*)
(***************************************************************************)
EXTENDS Integers, Sequences, FiniteSets, FiniteSetsExt

CONSTANTS
    Collectors,        \* processes with a collection loop and a session id
    WindowCollectors,  \* those whose payloads have collector_role active_window
    RootCollector,     \* the process that also runs the sync engine
    Slots,             \* ingest requests the API can be working on at once
    Sizes,             \* payload sizes
    Unstorable,        \* sizes that stand for documents the database refuses
    MaxPayloadBytes,   \* maxTelemetryPayloadBytes
    QueueMaxBytes,     \* DEVICEPULSE_QUEUE_MAX_MB
    QueueMaxAge,       \* DEVICEPULSE_QUEUE_MAX_AGE_HOURS
    PruneEveryNPushes, \* pruneEveryNPushes
    BatchLimit,        \* the limit syncEngine passes to PopBatch
    LeaseTime,         \* two minutes, for a live payload and for the lease
    MaxRows,           \* bound: payloads pushed in one behaviour
    MaxTime,           \* bound: clock
    MaxFaults          \* bound: crashes, lost messages and failed calls

ASSUME DeliveryAssumption ==
    /\ WindowCollectors \subseteq Collectors
    /\ RootCollector \in Collectors
    /\ Sizes \subseteq Nat /\ Unstorable \subseteq Sizes
    /\ {MaxPayloadBytes, QueueMaxBytes, QueueMaxAge, LeaseTime,
        MaxRows, MaxTime, MaxFaults} \subseteq Nat
    /\ {PruneEveryNPushes, BatchLimit} \subseteq Nat \ {0}

VARIABLES
    now,       \* the clock
    faults,    \* failures so far
    session,   \* session[c]: agentSessionID of the running process c
    sequence,  \* sequence[c]: its next sequence number
    pushes,    \* pushes[c]: Queue.pushes of that process
    log,       \* log[i]: the payload pushed as row i
    queue,     \* ids of the rows in the telemetry table of the queue
    pruned,    \* ids of the rows deleted by pruneTo
    pc,        \* where the sync engine is
    batch,     \* ids of the rows of its batch that it has not handled yet
    sentIDs,   \* its sentIDs
    attempt,   \* 1, or 2 after the re-registration on a 401
    agentKey,  \* the key the agent holds (keys are numbered as minted)
    serverKey, \* the key the device row holds
    stage,     \* stage[s]: the call the request in slot s makes next
    item,      \* item[s]: the row it uploads
    reqKey,    \* reqKey[s]: the key it carries
    code,      \* code[s]: the status of its answer
    client,    \* client[s]: the sync engine is waiting for the answer
    telemetry, \* ids stored in the telemetry collection, in order
    rejected,  \* ids answered with collector_rejected
    lease,     \* active_window_lease_id and active_window_lease_until
    latest,    \* latest[c]: id of the payload the device row shows for c
    revoked    \* device_revocations names the device

agentVars  == <<session, sequence, pushes, log, pruned>>
syncVars   == <<pc, batch, sentIDs, attempt>>
requests   == <<stage, item, reqKey, code, client>>
serverVars == <<telemetry, rejected, lease, latest, revoked>>
vars == <<now, faults, agentVars, queue, syncVars, agentKey, serverKey,
          requests, serverVars>>

Events  == Collectors \X Nat \X Nat   \* event_id: session id and sequence
Payload == [src: Collectors, event: Events, bytes: Sizes, at: Nat]
NoLease == [id |-> <<>>, until |-> 0]
Stages  == {"free", "auth", "preflight", "lease", "archive", "insert",
            "upsert", "reply"}
Codes   == {0, 200, 401, 403, 500}

AgentTypes ==
    /\ now \in Nat /\ faults \in Nat
    /\ session \in [Collectors -> Nat]
    /\ sequence \in [Collectors -> Nat]
    /\ pushes \in [Collectors -> Nat]
    /\ log \in Seq(Payload)
    /\ queue \subseteq DOMAIN log /\ pruned \subseteq DOMAIN log

SyncTypes ==
    /\ pc \in {"idle", "each", "wait", "reauth", "mark"}
    /\ batch \subseteq DOMAIN log
    /\ sentIDs \subseteq DOMAIN log
    /\ attempt \in {1, 2}
    /\ agentKey \in Nat /\ serverKey \in Nat

RequestTypes ==
    /\ stage \in [Slots -> Stages]
    /\ item \in [Slots -> Nat]
    /\ \A s \in Slots : stage[s] # "free" => item[s] \in DOMAIN log
    /\ reqKey \in [Slots -> Nat]
    /\ code \in [Slots -> Codes]
    /\ client \in [Slots -> BOOLEAN]
    /\ \A s \in Slots : client[s] => stage[s] # "free"

ServerTypes ==
    /\ telemetry \in Seq(Nat)
    /\ \A k \in DOMAIN telemetry : telemetry[k] \in DOMAIN log
    /\ rejected \subseteq DOMAIN log
    /\ lease.until \in Nat
    /\ latest \in [Collectors -> Nat]
    /\ revoked \in BOOLEAN

\* The type of every variable; batches, requests and the telemetry collection
\* name payloads that were pushed.
TypeOK == AgentTypes /\ SyncTypes /\ RequestTypes /\ ServerTypes

\* The key the agent starts with, the one in registration.json, may have been
\* rotated while the agent was off.
Init ==
    /\ now = 0 /\ faults = 0
    /\ session = [c \in Collectors |-> 0]
    /\ sequence = [c \in Collectors |-> 0]
    /\ pushes = [c \in Collectors |-> 0]
    /\ log = <<>> /\ queue = {} /\ pruned = {}
    /\ pc = "idle" /\ batch = {} /\ sentIDs = {} /\ attempt = 1
    /\ agentKey = 0 /\ serverKey \in {0, 1}
    /\ stage = [s \in Slots |-> "free"]
    /\ item = [s \in Slots |-> 0]
    /\ reqKey = [s \in Slots |-> 0]
    /\ code = [s \in Slots |-> 0]
    /\ client = [s \in Slots |-> FALSE]
    /\ telemetry = <<>> /\ rejected = {} /\ lease = NoLease
    /\ latest = [c \in Collectors |-> 0]
    /\ revoked = FALSE

Tick ==
    /\ now < MaxTime
    /\ now' = now + 1
    /\ UNCHANGED <<faults, agentVars, queue, syncVars, agentKey, serverKey,
                   requests, serverVars>>

Fault == faults < MaxFaults /\ faults' = faults + 1

-----------------------------------------------------------------------------
(* The queue and the collection loops.                                     *)

\* Bytes of the rows of q that are at least as new as row i.
BytesFrom(q, i, l) == MapThenSumSet(LAMBDA j : l[j].bytes, {j \in q : j >= i})

\* (PruneTo with the total taken from the oldest row upwards.)
PruneToFromOldest(q, l) ==
    LET young == {i \in q : l[i].at >= now - QueueMaxAge}
    IN  {i \in young : MapThenSumSet(LAMBDA j : l[j].bytes,
                                     {j \in young : j <= i}) <= QueueMaxBytes}

\* The rows pruneTo keeps: it deletes the rows older than the maximal age,
\* then the newest row at which the running total from the newest row
\* backwards exceeds the cap, and every older row.
PruneTo(q, l) ==
    LET young == {i \in q : l[i].at >= now - QueueMaxAge}
    IN  {i \in young : BytesFrom(young, i, l) <= QueueMaxBytes}

\* (A session id that survives the restart, while the sequence starts over.)
PersistentSessionID(c) == session[c]

\* newAgentSessionID: a fresh random id at every start of the process.
NewAgentSessionID(c) == session[c] + 1

\* event_id of the next payload of c: the session id, then the sequence.
EventId(c) == <<c, session[c], sequence[c]>>

\* One turn of a collection loop: push the payload; every
\* PruneEveryNPushes-th push prunes the queue.
Push(c) ==
    /\ Len(log) < MaxRows
    /\ sequence' = [sequence EXCEPT ![c] = @ + 1]
    /\ \E b \in Sizes :
         LET l == Append(log, [src |-> c, event |-> EventId(c),
                               bytes |-> b, at |-> now])
             q == queue \cup {Len(l)}
         IN  /\ log' = l
             /\ pushes' = [pushes EXCEPT ![c] = @ + 1]
             /\ queue' = IF pushes'[c] % PruneEveryNPushes = 0
                         THEN PruneTo(q, l) ELSE q
             /\ pruned' = pruned \cup (q \ queue')
    /\ UNCHANGED <<now, faults, session, syncVars, agentKey, serverKey,
                   requests, serverVars>>

\* The INSERT fails: the payload is gone, its sequence number is consumed.
PushFails(c) ==
    /\ Fault
    /\ sequence' = [sequence EXCEPT ![c] = @ + 1]
    /\ UNCHANGED <<now, session, pushes, log, queue, pruned, syncVars,
                   agentKey, serverKey, requests, serverVars>>

\* Process c dies and starts again: a fresh session id, sequence 0, and
\* NewQueue prunes the queue.  The sync engine lives in the root service:
\* it starts over, and nobody waits for the request it had sent.
Restart(c) ==
    /\ Fault
    /\ session' = [session EXCEPT ![c] = NewAgentSessionID(c)]
    /\ sequence' = [sequence EXCEPT ![c] = 0]
    /\ pushes' = [pushes EXCEPT ![c] = 0]
    /\ queue' = PruneTo(queue, log)
    /\ pruned' = pruned \cup (queue \ queue')
    /\ IF c = RootCollector
       THEN /\ pc' = "idle" /\ batch' = {} /\ sentIDs' = {} /\ attempt' = 1
            /\ client' = [s \in Slots |-> FALSE]
       ELSE UNCHANGED <<syncVars, client>>
    /\ UNCHANGED <<now, log, agentKey, serverKey, stage, item, reqKey, code,
                   serverVars>>

-----------------------------------------------------------------------------
(* The sync engine of the root service.                                    *)

\* The BatchLimit newest rows.
PopBatch(q) == {i \in q : Cardinality({j \in q : j > i}) < BatchLimit}

\* One turn of the loop; an empty queue leaves it where it was.
Poll ==
    /\ pc = "idle"
    /\ batch' = PopBatch(queue)
    /\ pc' = IF batch' = {} THEN "idle" ELSE "each"
    /\ UNCHANGED <<now, faults, agentVars, queue, sentIDs, attempt, agentKey,
                   serverKey, requests, serverVars>>

\* The current item: the batch is sorted newest first.
Current(i) == i \in batch /\ \A j \in batch : j <= i
Oversized(i) == log[i].bytes > MaxPayloadBytes

\* The engine is done with item i and goes on to the next one.
NextItem(i) ==
    /\ batch' = batch \ {i}
    /\ pc' = "each"
    /\ attempt' = 1

\* (The batch ends with the first item that fails.)
EndAtFailure(i) ==
    /\ batch' = {}
    /\ pc' = "each"
    /\ attempt' = 1

\* An item that fails stays in the queue and the engine goes on.
SkipItem(i) == NextItem(i)

DropOversized ==
    /\ pc = "each"
    /\ \E i \in batch :
         /\ Current(i) /\ Oversized(i)
         /\ sentIDs' = sentIDs \cup {i}
         /\ NextItem(i)
    /\ UNCHANGED <<now, faults, agentVars, queue, agentKey, serverKey,
                   requests, serverVars>>

\* uploadQueuedItem: the request reaches the API, with the agent's key.
Upload(s) ==
    /\ pc = "each"
    /\ stage[s] = "free"
    /\ stage' = [stage EXCEPT ![s] = "auth"]
    /\ \E i \in batch :
         /\ Current(i) /\ ~Oversized(i)
         /\ item' = [item EXCEPT ![s] = i]
    /\ reqKey' = [reqKey EXCEPT ![s] = agentKey]
    /\ client' = [client EXCEPT ![s] = TRUE]
    /\ pc' = "wait"
    /\ UNCHANGED <<now, faults, agentVars, queue, batch, sentIDs, attempt,
                   agentKey, serverKey, code, serverVars>>

\* The request never reaches the API.
UploadFails ==
    /\ pc = "each"
    /\ Fault
    /\ \E i \in batch : Current(i) /\ ~Oversized(i) /\ SkipItem(i)
    /\ UNCHANGED <<now, agentVars, queue, sentIDs, agentKey, serverKey,
                   requests, serverVars>>

\* The answers on which the row counts as sent.
Sent(c) == c = 200

\* The slot is empty again.
Release(s) ==
    /\ stage' = [stage EXCEPT ![s] = "free"]
    /\ item' = [item EXCEPT ![s] = 0]
    /\ reqKey' = [reqKey EXCEPT ![s] = 0]
    /\ code' = [code EXCEPT ![s] = 0]
    /\ client' = [client EXCEPT ![s] = FALSE]

\* The answer arrives.  The first 401 for an item leads to a
\* re-registration; any other failure leaves the row for a later batch.
Receive(s) ==
    /\ stage[s] = "reply" /\ client[s]
    /\ Release(s)
    /\ \/ /\ Sent(code[s])
          /\ sentIDs' = sentIDs \cup {item[s]}
          /\ NextItem(item[s])
       \/ /\ ~Sent(code[s])
          /\ code[s] = 401 /\ attempt = 1
          /\ pc' = "reauth"
          /\ UNCHANGED <<batch, sentIDs, attempt>>
       \/ /\ ~Sent(code[s])
          /\ code[s] # 401 \/ attempt = 2
          /\ SkipItem(item[s])
          /\ UNCHANGED sentIDs
    /\ UNCHANGED <<now, faults, agentVars, queue, agentKey, serverKey, serverVars>>

\* The client times out, or the answer is lost.  The handler works with a
\* context of its own and goes on.
LoseReply(s) ==
    /\ client[s]
    /\ Fault
    /\ client' = [client EXCEPT ![s] = FALSE]
    /\ SkipItem(item[s])
    /\ UNCHANGED <<now, agentVars, queue, sentIDs, agentKey, serverKey, stage,
                   item, reqKey, code, serverVars>>

\* registerDeviceWithCache(FALSE): the API rotates the key of the device row
\* and the agent adopts the new one, then uploads the item once more.
Reregister ==
    /\ pc = "reauth" /\ ~revoked
    /\ serverKey' = serverKey + 1
    /\ agentKey' = serverKey'
    /\ attempt' = 2
    /\ pc' = "each"
    /\ UNCHANGED <<now, faults, agentVars, queue, batch, sentIDs, requests, serverVars>>

\* The API refuses to register a revoked device.
ReregisterRefused ==
    /\ pc = "reauth" /\ revoked
    /\ \E i \in batch : Current(i) /\ SkipItem(i)
    /\ UNCHANGED <<now, faults, agentVars, queue, sentIDs, agentKey, serverKey,
                   requests, serverVars>>

\* It fails; the API may have rotated the key all the same.
ReregisterFails ==
    /\ pc = "reauth"
    /\ Fault
    /\ serverKey' \in {serverKey, serverKey + 1}
    /\ \E i \in batch : Current(i) /\ SkipItem(i)
    /\ UNCHANGED <<now, agentVars, queue, sentIDs, agentKey, requests, serverVars>>

\* The batch is done: MarkSent follows when an id was collected.
EndBatch ==
    /\ pc = "each" /\ batch = {}
    /\ pc' = IF sentIDs = {} THEN "idle" ELSE "mark"
    /\ UNCHANGED <<now, faults, agentVars, queue, batch, sentIDs, attempt,
                   agentKey, serverKey, requests, serverVars>>

MarkSent ==
    /\ pc = "mark"
    /\ queue' = queue \ sentIDs
    /\ sentIDs' = {}
    /\ pc' = "idle"
    /\ UNCHANGED <<now, faults, agentVars, batch, attempt, agentKey,
                   serverKey, requests, serverVars>>

\* The DELETE fails; every row of the batch is uploaded again.
MarkSentFails ==
    /\ pc = "mark"
    /\ Fault
    /\ sentIDs' = {}
    /\ pc' = "idle"
    /\ UNCHANGED <<now, agentVars, queue, batch, attempt, agentKey,
                   serverKey, requests, serverVars>>

\* The device row gets another key behind the agent's back: a second
\* installation on the same hardware registered.
KeyRotated ==
    /\ Fault
    /\ serverKey' = serverKey + 1
    /\ UNCHANGED <<now, agentVars, queue, syncVars, agentKey, requests, serverVars>>

\* An administrator deletes the device, and the deletion fails once the
\* revocation is written: the device row and its telemetry stay.  (A deletion
\* that succeeds removes the telemetry this module is about.)
DeleteFails ==
    /\ Fault
    /\ revoked' = TRUE
    /\ UNCHANGED <<now, agentVars, queue, syncVars, agentKey, serverKey, requests,
                   telemetry, rejected, lease, latest>>

\* An administrator clears the revocation.
Reinstate ==
    /\ revoked
    /\ revoked' = FALSE
    /\ UNCHANGED <<now, faults, agentVars, queue, syncVars, agentKey, serverKey,
                   requests, telemetry, rejected, lease, latest>>

-----------------------------------------------------------------------------
(* ingestHandler, one step for each call to the database.                  *)

Reply(s, status) ==
    /\ stage' = [stage EXCEPT ![s] = "reply"]
    /\ code' = [code EXCEPT ![s] = status]
Go(s, next) ==
    /\ stage' = [stage EXCEPT ![s] = next]
    /\ UNCHANGED code

\* Whether the telemetry collection holds a document with the event_id of i.
Stored(i) == \E k \in DOMAIN telemetry : log[telemetry[k]].event = log[i].event

handlerUnchanged == <<now, agentVars, queue, syncVars, agentKey, serverKey,
                      item, reqKey, client>>

\* resolveAPIKey, then isDeviceRevoked.
Auth(s) ==
    /\ stage[s] = "auth"
    /\ \/ reqKey[s] # serverKey /\ Reply(s, 401)
       \/ reqKey[s] = serverKey /\ revoked /\ Reply(s, 403)
       \/ reqKey[s] = serverKey /\ ~revoked /\ Go(s, "preflight")
    /\ UNCHANGED <<handlerUnchanged, faults, serverVars>>

\* The lookup by event_id: a payload stored earlier is acknowledged at once.
Preflight(s) ==
    /\ stage[s] = "preflight"
    /\ IF Stored(item[s]) THEN Reply(s, 200) ELSE Go(s, "lease")
    /\ UNCHANGED <<handlerUnchanged, faults, serverVars>>

\* isLiveCollectorPayload, for a payload with role active_window.
NeedsLease(i) ==
    log[i].src \in WindowCollectors /\ now - log[i].at <= LeaseTime

\* The filter of claimActiveWindowLease: the lease has run out, was never
\* taken, or belongs to the session of the payload.
LeaseFree(sid) == lease.until <= now \/ lease.id = sid

\* claimActiveWindowLease.  A collector that does not get the lease is
\* acknowledged too: the agent clears the row.
ClaimLease(s) ==
    /\ stage[s] = "lease"
    /\ LET i   == item[s]
           sid == <<log[i].event[1], log[i].event[2]>>
       IN  \/ /\ ~NeedsLease(i)
              /\ Go(s, "archive")
              /\ UNCHANGED <<lease, rejected>>
           \/ /\ NeedsLease(i) /\ LeaseFree(sid)
              /\ lease' = [id |-> sid, until |-> now + LeaseTime]
              /\ Go(s, "archive")
              /\ UNCHANGED rejected
           \/ /\ NeedsLease(i) /\ ~LeaseFree(sid)
              /\ rejected' = rejected \cup {i}
              /\ Reply(s, 200)
              /\ UNCHANGED lease
    /\ UNCHANGED <<handlerUnchanged, faults, telemetry, latest, revoked>>

\* A database error in the claim reads as a lease held by another collector.
ClaimLeaseFails(s) ==
    /\ stage[s] = "lease" /\ NeedsLease(item[s])
    /\ Fault
    /\ rejected' = rejected \cup {item[s]}
    /\ Reply(s, 200)
    /\ UNCHANGED <<handlerUnchanged, telemetry, lease, latest, revoked>>

\* (The device row is updated ahead of the insert.)
ArchiveUpserting(s) ==
    /\ stage[s] = "archive"
    /\ Go(s, "insert")
    /\ latest' = [latest EXCEPT ![log[item[s]].src] = item[s]]
    /\ UNCHANGED <<handlerUnchanged, faults, telemetry, rejected, lease, revoked>>

\* The three S3 archives.
Archive(s) ==
    /\ stage[s] = "archive"
    /\ Go(s, "insert")
    /\ UNCHANGED <<handlerUnchanged, faults, serverVars>>

\* (InsertOne without the unique index: only the preflight lookup is left.)
InsertUnindexed(s) ==
    /\ stage[s] = "insert"
    /\ Go(s, "upsert") /\ telemetry' = Append(telemetry, item[s])
    /\ UNCHANGED <<handlerUnchanged, faults, rejected, lease, latest, revoked>>

\* A document the database refuses at every attempt: it is too large or too
\* deep for it, or has a key it cannot hold.
Refused(i) == log[i].bytes \in Unstorable

\* InsertOne under the unique index on (device_id, event_id): a duplicate
\* key is acknowledged as a success.
Insert(s) ==
    /\ stage[s] = "insert"
    /\ \/ /\ Stored(item[s])
          /\ Reply(s, 200) /\ UNCHANGED telemetry
       \/ /\ ~Stored(item[s]) /\ Refused(item[s])
          /\ Reply(s, 500) /\ UNCHANGED telemetry
       \/ /\ ~Stored(item[s]) /\ ~Refused(item[s])
          /\ Go(s, "upsert") /\ telemetry' = Append(telemetry, item[s])
    /\ UNCHANGED <<handlerUnchanged, faults, rejected, lease, latest, revoked>>

\* The upsert of the device row, then the answer.
Upsert(s) ==
    /\ stage[s] = "upsert"
    /\ latest' = [latest EXCEPT ![log[item[s]].src] = item[s]]
    /\ Reply(s, 200)
    /\ UNCHANGED <<handlerUnchanged, faults, telemetry, rejected, lease, revoked>>

\* Errors: an unresolved key is a 401, a failed lookup of the revocation lets
\* the request pass, a failed upsert is only logged, any other failure is a
\* 500.
HandlerFails(s) ==
    /\ Fault
    /\ \/ stage[s] = "auth" /\ Reply(s, 401)
       \/ stage[s] = "auth" /\ reqKey[s] = serverKey /\ Go(s, "preflight")
       \/ stage[s] \in {"preflight", "archive", "insert"} /\ Reply(s, 500)
       \/ stage[s] = "upsert" /\ Reply(s, 200)
    /\ UNCHANGED <<handlerUnchanged, serverVars>>

\* InsertOne commits and reports an error all the same.
InsertUnsure(s) ==
    /\ stage[s] = "insert" /\ ~Stored(item[s]) /\ ~Refused(item[s])
    /\ Fault
    /\ telemetry' = Append(telemetry, item[s])
    /\ Reply(s, 500)
    /\ UNCHANGED <<handlerUnchanged, rejected, lease, latest, revoked>>

\* A handler whose client is gone has nobody to answer.
Discard(s) ==
    /\ stage[s] = "reply" /\ ~client[s]
    /\ Release(s)
    /\ UNCHANGED <<now, faults, agentVars, queue, syncVars, agentKey,
                   serverKey, serverVars>>

\* The API process dies with every request it was working on; the sync
\* engine sees a broken connection.
ApiRestart ==
    /\ Fault
    /\ \E s \in Slots : stage[s] # "free"
    /\ stage' = [s \in Slots |-> "free"]
    /\ item' = [s \in Slots |-> 0]
    /\ reqKey' = [s \in Slots |-> 0]
    /\ code' = [s \in Slots |-> 0]
    /\ client' = [s \in Slots |-> FALSE]
    /\ IF pc = "wait"
       THEN \E s \in Slots : client[s] /\ SkipItem(item[s])
       ELSE UNCHANGED <<pc, batch, attempt>>
    /\ UNCHANGED <<now, agentVars, queue, sentIDs, agentKey, serverKey, serverVars>>

-----------------------------------------------------------------------------
Sync == Poll \/ DropOversized \/ Reregister \/ ReregisterRefused \/ EndBatch
        \/ MarkSent
        \/ \E s \in Slots : Upload(s) \/ Receive(s)

Ingest(s) == Auth(s) \/ Preflight(s) \/ ClaimLease(s) \/ Archive(s)
             \/ Insert(s) \/ Upsert(s) \/ Discard(s)

Failure ==
    \/ \E c \in Collectors : PushFails(c) \/ Restart(c)
    \/ UploadFails \/ ReregisterFails \/ MarkSentFails
    \/ KeyRotated \/ DeleteFails \/ ApiRestart
    \/ \E s \in Slots : LoseReply(s) \/ ClaimLeaseFails(s) \/ HandlerFails(s)
                        \/ InsertUnsure(s)

Next ==
    \/ Tick
    \/ \E c \in Collectors : Push(c)
    \/ Sync
    \/ \E s \in Slots : Ingest(s)
    \/ Reinstate
    \/ Failure

\* The loop of the sync engine never ends, and a handler runs to its answer.
Fairness == WF_vars(Sync) /\ \A s \in Slots : WF_vars(Ingest(s))

Spec     == Init /\ [][Next]_vars
FairSpec == Spec /\ Fairness

-----------------------------------------------------------------------------
(* Properties.                                                             *)

\* The payloads the API has stored, and those nobody has to upload again.
StoredIds == {telemetry[k] : k \in DOMAIN telemetry}
Accounted(i) == i \in rejected \cup StoredIds \/ Oversized(i)

\* syncEngine clears a row on the word of the API alone.  Whatever crashes,
\* is retried, answered twice or answered to nobody: a payload that is no
\* longer in the queue is in the telemetry collection, or was given up in
\* one of the ways the code provides for (pruned by the caps of the queue,
\* over the size limit, refused because of the active-window lease).
NoSilentLoss ==
    \A i \in DOMAIN log : i \in queue \cup pruned \/ Accounted(i)

\* ingestHandler: retries of an upload whose answer was lost, also while the
\* first request is still being worked on, store a payload at most once.
StoredOnce ==
    \A j, k \in DOMAIN telemetry : telemetry[j] = telemetry[k] => j = k

\* Why the two hold.  The event_id of a payload lies behind the counters of
\* the process that made it, so no two payloads share one and a lookup by
\* event_id finds the payload itself; and a row is collected in sentIDs, or
\* answered with 200, only when the payload is accounted for.
Fresh ==
    \A i \in DOMAIN log :
        LET e == log[i].event
        IN  \/ e[2] < session[e[1]]
            \/ e[2] = session[e[1]] /\ e[3] < sequence[e[1]]

Distinct == \A i, j \in DOMAIN log : log[i].event = log[j].event => i = j

Acked == \A i \in sentIDs : Accounted(i)

Answered ==
    \A s \in Slots :
        /\ stage[s] = "upsert" => item[s] \in StoredIds
        /\ stage[s] = "reply" /\ code[s] = 200 => Accounted(item[s])

\* The inductive invariant of the proofs: an acknowledgement, in the answer
\* of ingestHandler or in sentIDs of syncEngine, is never premature, whatever
\* was restarted, retried or answered by a second handler in between.
DeliveryInv ==
    TypeOK /\ Fresh /\ Distinct /\ Acked /\ Answered /\ NoSilentLoss /\ StoredOnce

\* pruneTo: the size cap sacrifices the oldest rows.  A row it deletes while
\* it keeps an older one of the queue was deleted for nothing.
PruneKeepsNewest ==
    [][\A i \in queue \ queue' :
          i \in pruned' \ pruned => \A j \in queue' : j > i]_<<queue, pruned>>

\* syncEngine: when failures stop, every payload leaves the queue, also from
\* behind newer ones that the API answers with an error for ever.  Those hold
\* their places in the batch: when they fill it, nothing moves any more.
Stuck == {i \in queue : Refused(i)}

EveryRowLeaves ==
    \A i \in 1..MaxRows : i \in queue ~>
        \/ i \notin queue \/ revoked
        \/ i \in Stuck \/ Cardinality(Stuck) >= BatchLimit

\* The device row shows, for each collector, a payload of that collector that
\* is in the telemetry collection: a request that fails, dies or loses the
\* race against its own retry has not touched the row.
ShownIsStored ==
    \A c \in Collectors : latest[c] # 0 =>
        latest[c] \in StoredIds /\ log[latest[c]].src = c

\* The answer collector_rejected says that "another active-window collector
\* is live": a step that refuses a payload finds the lease with another one.
RejectedOnlyForAnother ==
    [][\A i \in rejected' \ rejected :
          /\ lease.until > now
          /\ lease.id # <<log[i].event[1], log[i].event[2]>>]_rejected

\* The payloads that may still be stored: a row of the queue or of the batch,
\* or a request the API is working on.
OnTheWay == queue \cup batch \cup {item[s] : s \in {t \in Slots : stage[t] # "free"}}

Promise == INSTANCE Ledger
    WITH Payloads <- 1..MaxRows, stored <- telemetry,
         pending <- OnTheWay \ StoredIds,
         lost <- DOMAIN log \ (OnTheWay \cup StoredIds)

\* The queue, the sync engine and ingestHandler together implement the
\* ledger: no payload is stored twice or after it was given up.
ImplementsLedger == Promise!Spec
=============================================================================
