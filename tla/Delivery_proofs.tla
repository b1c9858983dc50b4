--------------------------- MODULE Delivery_proofs ---------------------------
(***************************************************************************)
(* Proofs about telemetry delivery, for any number of processes, request   *)
(* slots, rows and failures.                                               *)
(***************************************************************************)
EXTENDS Delivery, FiniteSetTheorems, WellFoundedInduction, TLAPS

\* PruneTo only takes rows out of the queue, whatever their sizes.
LEMMA PruneToSubset == \A q, l : PruneTo(q, l) \subseteq q
BY DEF PruneTo

\* Appending to the log keeps the payloads that are there.
LEMMA AppendLog ==
    ASSUME NEW l \in Seq(Payload), NEW x \in Payload
    PROVE  /\ Append(l, x) \in Seq(Payload)
           /\ DOMAIN l = 1..Len(l)
           /\ DOMAIN Append(l, x) = 1..(Len(l) + 1)
           /\ Len(Append(l, x)) = Len(l) + 1
           /\ Append(l, x)[Len(l) + 1] = x
           /\ \A i \in DOMAIN l : Append(l, x)[i] = l[i]
OBVIOUS

\* Counting up, or setting, one value of a function to the naturals.
LEMMA Counting ==
    ASSUME NEW S, NEW f \in [S -> Nat], NEW c \in S, NEW n \in Nat
    PROVE  /\ [f EXCEPT ![c] = @ + 1] \in [S -> Nat]
           /\ [f EXCEPT ![c] = n] \in [S -> Nat]
           /\ f[c] + 1 \in Nat
OBVIOUS

LEMMA TypeInit == Init => TypeOK
<1> SUFFICES ASSUME Init PROVE TypeOK
  OBVIOUS
<1>1. AgentTypes
  BY DEF Init, AgentTypes
<1>2. SyncTypes
  BY DEF Init, SyncTypes
<1>3. RequestTypes
  BY DEF Init, RequestTypes, Stages, Codes
<1>4. ServerTypes
  <2>1. lease.until \in Nat /\ revoked \in BOOLEAN
    BY DEF Init, NoLease
  <2>2. telemetry \in Seq(Nat) /\ DOMAIN telemetry = {}
    BY DEF Init
  <2> QED
    BY <2>1, <2>2 DEF Init, ServerTypes
<1> QED
  BY <1>1, <1>2, <1>3, <1>4 DEF TypeOK

\* A push appends one well-formed payload, and the row of that payload is
\* the only one it may add to the queue.
LEMMA PushFacts ==
    ASSUME TypeOK, NEW c \in Collectors, Push(c)
    PROVE  /\ log' \in Seq(Payload)
           /\ DOMAIN log = 1..Len(log)
           /\ DOMAIN log' = 1..(Len(log) + 1)
           /\ DOMAIN log \subseteq DOMAIN log'
           /\ log'[Len(log) + 1].event = EventId(c)
           /\ \A i \in DOMAIN log : log'[i] = log[i]
           /\ queue' \subseteq queue \cup {Len(log) + 1}
           /\ pruned' = pruned \cup ((queue \cup {Len(log) + 1}) \ queue')
           /\ pushes' = [pushes EXCEPT ![c] = @ + 1]
<1> USE DeliveryAssumption DEF TypeOK, AgentTypes
<1> DEFINE x(b) == [src |-> c, event |-> EventId(c), bytes |-> b, at |-> now]
<1>1. PICK b \in Sizes :
        LET l == Append(log, x(b))
            q == queue \cup {Len(l)}
        IN  /\ log' = l
            /\ pushes' = [pushes EXCEPT ![c] = @ + 1]
            /\ queue' = IF pushes'[c] % PruneEveryNPushes = 0
                        THEN PruneTo(q, l) ELSE q
            /\ pruned' = pruned \cup (q \ queue')
  BY DEF Push
<1>2. x(b) \in Payload
  BY DEF Payload, Events, EventId
<1>3. log \in Seq(Payload)
  OBVIOUS
<1>4. x(b).event = EventId(c)
  OBVIOUS
<1> HIDE DEF x, TypeOK
<1>5. Len(log') = Len(log) + 1
  BY <1>1, <1>2, <1>3, AppendLog
<1>6. queue' \subseteq queue \cup {Len(log')} /\ pruned' = pruned \cup ((queue \cup {Len(log')}) \ queue')
  BY <1>1, PruneToSubset
<1>7. /\ log' \in Seq(Payload)
      /\ DOMAIN log = 1..Len(log)
      /\ DOMAIN log' = 1..(Len(log) + 1)
      /\ log'[Len(log) + 1] = x(b)
      /\ \A i \in DOMAIN log : log'[i] = log[i]
  BY <1>1, <1>2, <1>3, AppendLog
<1>8. DOMAIN log \subseteq DOMAIN log'
  BY <1>7, <1>3
<1> QED
  BY <1>1, <1>4, <1>5, <1>6, <1>7, <1>8

\* What the steps other than a push do to the state of the agent's queue.
AgentFrame ==
    /\ now' \in Nat /\ now' >= now /\ faults' \in Nat
    /\ UNCHANGED agentVars
    /\ queue' = queue \/ queue' = queue \ sentIDs

LEMMA AgentFrameTypes == TypeOK /\ AgentFrame => AgentTypes'
BY DEF AgentFrame, agentVars, TypeOK, AgentTypes

LEMMA SyncAgentFrame == TypeOK /\ Sync => AgentFrame
<1> SUFFICES ASSUME TypeOK, Sync PROVE AgentFrame
  OBVIOUS
<1>0. now \in Nat /\ faults \in Nat
  BY DEF TypeOK, AgentTypes
<1>1. CASE Poll
  BY <1>0, <1>1 DEF Poll, AgentFrame
<1>2. CASE DropOversized
  BY <1>0, <1>2 DEF DropOversized, AgentFrame
<1>3. CASE Reregister \/ ReregisterRefused
  BY <1>0, <1>3 DEF Reregister, ReregisterRefused, AgentFrame
<1>4. CASE EndBatch
  BY <1>0, <1>4 DEF EndBatch, AgentFrame
<1>5. CASE MarkSent
  BY <1>0, <1>5 DEF MarkSent, AgentFrame
<1>6. ASSUME NEW s \in Slots, Upload(s) PROVE AgentFrame
  BY <1>0, <1>6 DEF Upload, AgentFrame
<1>7. ASSUME NEW s \in Slots, Receive(s) PROVE AgentFrame
  BY <1>0, <1>7 DEF Receive, AgentFrame
<1> QED
  BY <1>1, <1>2, <1>3, <1>4, <1>5, <1>6, <1>7 DEF Sync

LEMMA IngestAgentFrame == ASSUME TypeOK, NEW s \in Slots, Ingest(s) PROVE AgentFrame
<1>0. now \in Nat /\ faults \in Nat
  BY DEF TypeOK, AgentTypes
<1>1. CASE Auth(s)
  BY <1>0, <1>1 DEF Auth, handlerUnchanged, AgentFrame
<1>2. CASE Preflight(s)
  BY <1>0, <1>2 DEF Preflight, handlerUnchanged, AgentFrame
<1>3. CASE ClaimLease(s)
  BY <1>0, <1>3 DEF ClaimLease, handlerUnchanged, AgentFrame
<1>4. CASE Archive(s)
  BY <1>0, <1>4 DEF Archive, handlerUnchanged, AgentFrame
<1>5. CASE Insert(s)
  BY <1>0, <1>5 DEF Insert, handlerUnchanged, AgentFrame
<1>6. CASE Upsert(s)
  BY <1>0, <1>6 DEF Upsert, handlerUnchanged, AgentFrame
<1>7. CASE Discard(s)
  BY <1>0, <1>7 DEF Discard, AgentFrame
<1> QED
  BY <1>1, <1>2, <1>3, <1>4, <1>5, <1>6, <1>7 DEF Ingest

\* The failures that do not happen in a collection loop.
RemoteFailure ==
    \/ UploadFails \/ ReregisterFails \/ MarkSentFails
    \/ KeyRotated \/ DeleteFails \/ ApiRestart
    \/ \E s \in Slots : LoseReply(s) \/ ClaimLeaseFails(s) \/ HandlerFails(s)
                        \/ InsertUnsure(s)

LEMMA FailureAgentFrame == TypeOK /\ RemoteFailure => AgentFrame
<1> SUFFICES ASSUME TypeOK, RemoteFailure PROVE AgentFrame
  OBVIOUS
<1>0. now \in Nat /\ faults \in Nat
  BY DEF TypeOK, AgentTypes
<1> USE DEF Fault
<1>1. CASE UploadFails
  BY <1>0, <1>1 DEF UploadFails, AgentFrame
<1>2. CASE ReregisterFails
  BY <1>0, <1>2 DEF ReregisterFails, AgentFrame
<1>3. CASE MarkSentFails
  BY <1>0, <1>3 DEF MarkSentFails, AgentFrame
<1>4. CASE KeyRotated \/ DeleteFails
  BY <1>0, <1>4 DEF KeyRotated, DeleteFails, AgentFrame
<1>5. CASE ApiRestart
  BY <1>0, <1>5 DEF ApiRestart, AgentFrame
<1>6. ASSUME NEW s \in Slots, LoseReply(s) PROVE AgentFrame
  BY <1>0, <1>6 DEF LoseReply, AgentFrame
<1>7. ASSUME NEW s \in Slots, ClaimLeaseFails(s) PROVE AgentFrame
  BY <1>0, <1>7 DEF ClaimLeaseFails, handlerUnchanged, AgentFrame
<1>8. ASSUME NEW s \in Slots, HandlerFails(s) PROVE AgentFrame
  BY <1>0, <1>8 DEF HandlerFails, handlerUnchanged, AgentFrame
<1>9. ASSUME NEW s \in Slots, InsertUnsure(s) PROVE AgentFrame
  BY <1>0, <1>9 DEF InsertUnsure, handlerUnchanged, AgentFrame
<1> QED
  BY <1>1, <1>2, <1>3, <1>4, <1>5, <1>6, <1>7, <1>8, <1>9 DEF RemoteFailure

\* The steps, as the proofs about the agent's counters split them.
LEMMA StepFrames ==
    ASSUME TypeOK, [Next]_vars
    PROVE  \/ AgentFrame
           \/ \E c \in Collectors : Push(c) \/ PushFails(c) \/ Restart(c)
<1>0. now \in Nat /\ faults \in Nat
  BY DEF TypeOK, AgentTypes
<1>1. CASE Tick
  BY <1>0, <1>1 DEF Tick, AgentFrame
<1>2. CASE Sync
  BY <1>2, SyncAgentFrame
<1>3. CASE \E s \in Slots : Ingest(s)
  BY <1>3, IngestAgentFrame
<1>4. CASE RemoteFailure
  BY <1>4, FailureAgentFrame
<1>5. CASE Reinstate \/ UNCHANGED vars
  BY <1>0, <1>5 DEF vars, Reinstate, AgentFrame
<1> QED
  BY <1>1, <1>2, <1>3, <1>4, <1>5 DEF Next, Failure, RemoteFailure

LEMMA AgentTypesStep == TypeOK /\ [Next]_vars => AgentTypes'
<1> SUFFICES ASSUME TypeOK, [Next]_vars PROVE AgentTypes'
  OBVIOUS
<1> USE DeliveryAssumption DEF agentVars
<1>0. now \in Nat /\ faults \in Nat
  BY DEF TypeOK, AgentTypes
<1>a. /\ session \in [Collectors -> Nat]
      /\ sequence \in [Collectors -> Nat]
      /\ pushes \in [Collectors -> Nat]
  BY DEF TypeOK, AgentTypes
<1>1. CASE AgentFrame
  BY <1>1, AgentFrameTypes
<1>2. ASSUME NEW c \in Collectors, Push(c) PROVE AgentTypes'
  <2>1. sequence' \in [Collectors -> Nat]
    <3>1. sequence' = [sequence EXCEPT ![c] = @ + 1]
      BY <1>2 DEF Push
    <3> QED
      BY <1>a, <3>1, Counting
  <2>2. pushes' \in [Collectors -> Nat]
    <3>1. pushes' = [pushes EXCEPT ![c] = @ + 1]
      BY <1>2, PushFacts
    <3> QED
      BY <1>a, <3>1, Counting
  <2>3. /\ queue \subseteq DOMAIN log' /\ pruned \subseteq DOMAIN log'
        /\ Len(log) + 1 \in DOMAIN log'
    <3>1. log \in Seq(Payload) /\ queue \subseteq DOMAIN log /\ pruned \subseteq DOMAIN log
      BY DEF TypeOK, AgentTypes
    <3>2. Len(log) + 1 \in 1..(Len(log) + 1)
      BY <3>1
    <3> QED
      BY <1>2, <3>1, <3>2, PushFacts
  <2>4. queue' \subseteq DOMAIN log' /\ pruned' \subseteq DOMAIN log'
    BY <1>2, <2>3, PushFacts
  <2>5. now' = now /\ faults' = faults /\ session' = session
    BY <1>2 DEF Push
  <2>6. log' \in Seq(Payload)
    BY <1>2, PushFacts
  <2> QED
    BY <1>0, <2>1, <2>2, <2>4, <2>5, <2>6 DEF TypeOK, AgentTypes
<1>3. ASSUME NEW c \in Collectors, PushFails(c) PROVE AgentTypes'
  <2>1. sequence' = [sequence EXCEPT ![c] = @ + 1]
    BY <1>3 DEF PushFails
  <2>2. sequence' \in [Collectors -> Nat]
    BY <1>a, <2>1, Counting
  <2>3. UNCHANGED <<now, session, pushes, log, queue, pruned>>
    BY <1>3 DEF PushFails
  <2>4. faults' \in Nat
    BY <1>0, <1>3 DEF PushFails, Fault
  <2> QED
    BY <2>2, <2>3, <2>4 DEF TypeOK, AgentTypes
<1>4. ASSUME NEW c \in Collectors, Restart(c) PROVE AgentTypes'
  <2>1. queue' \subseteq queue /\ pruned' = pruned \cup (queue \ queue') /\ log' = log
    BY <1>4, PruneToSubset DEF Restart
  <2>2. /\ session' \in [Collectors -> Nat]
        /\ sequence' \in [Collectors -> Nat]
        /\ pushes' \in [Collectors -> Nat]
    <3>1. /\ session' = [session EXCEPT ![c] = session[c] + 1]
          /\ sequence' = [sequence EXCEPT ![c] = 0]
          /\ pushes' = [pushes EXCEPT ![c] = 0]
      BY <1>4 DEF Restart, NewAgentSessionID
    <3> QED
      BY <1>a, <3>1, Counting
  <2>3. now' \in Nat /\ faults' \in Nat
    BY <1>0, <1>4 DEF Restart, Fault
  <2>4. queue' \subseteq DOMAIN log' /\ pruned' \subseteq DOMAIN log'
    BY <2>1 DEF TypeOK, AgentTypes
  <2> QED
    BY <2>1, <2>2, <2>3, <2>4 DEF TypeOK, AgentTypes
<1> QED
  BY <1>1, <1>2, <1>3, <1>4, StepFrames

LEMMA SyncTypesStep == TypeOK /\ [Next]_vars => SyncTypes'
<1> SUFFICES ASSUME TypeOK, [Next]_vars PROVE SyncTypes'
  OBVIOUS
<1> USE DeliveryAssumption DEF agentVars, syncVars
<1>1. CASE Tick
  BY <1>1 DEF Tick, TypeOK, SyncTypes
<1>2. ASSUME NEW c \in Collectors, Push(c) PROVE SyncTypes'
  BY <1>2, PushFacts DEF Push, TypeOK, SyncTypes
<1>3. CASE Sync
  <2>1. CASE Poll
    <3>1. batch' \subseteq queue /\ log' = log
      BY <2>1 DEF Poll, PopBatch
    <3> QED
      BY <2>1, <3>1 DEF Poll, TypeOK, AgentTypes, SyncTypes
  <2>4. CASE DropOversized
    BY <2>4 DEF DropOversized, SkipItem, NextItem, TypeOK, SyncTypes
  <2>5. CASE Reregister \/ ReregisterRefused
    BY <2>5 DEF Reregister, ReregisterRefused, SkipItem, NextItem, TypeOK, SyncTypes
  <2>6. CASE EndBatch
    BY <2>6 DEF EndBatch, TypeOK, SyncTypes
  <2>7. CASE MarkSent
    BY <2>7 DEF MarkSent, TypeOK, SyncTypes
  <2>2. ASSUME NEW s \in Slots, Upload(s) PROVE SyncTypes'
    BY <2>2 DEF Upload, TypeOK, SyncTypes
  <2>3. ASSUME NEW s \in Slots, Receive(s) PROVE SyncTypes'
    BY <2>3 DEF Receive, SkipItem, NextItem, TypeOK, SyncTypes, RequestTypes
  <2> QED
    BY <1>3, <2>1, <2>2, <2>3, <2>4, <2>5, <2>6, <2>7 DEF Sync
<1>4. ASSUME NEW s \in Slots, Ingest(s) PROVE SyncTypes'
  BY <1>4 DEF Ingest, Auth, Preflight, ClaimLease, Archive, Insert, Upsert,
              Discard, handlerUnchanged, TypeOK, SyncTypes
<1>5. CASE Failure
  <2>1. ASSUME NEW c \in Collectors, PushFails(c) \/ Restart(c) PROVE SyncTypes'
    BY <2>1 DEF PushFails, Restart, TypeOK, SyncTypes
  <2>2. CASE UploadFails \/ ReregisterFails \/ MarkSentFails \/ KeyRotated
             \/ DeleteFails \/ ApiRestart
    BY <2>2 DEF UploadFails, ReregisterFails, MarkSentFails, KeyRotated, DeleteFails,
                ApiRestart, SkipItem, NextItem, TypeOK, SyncTypes
  <2>3. ASSUME NEW s \in Slots, LoseReply(s) \/ ClaimLeaseFails(s) \/ HandlerFails(s)
        PROVE SyncTypes'
    BY <2>3 DEF LoseReply, ClaimLeaseFails, HandlerFails, handlerUnchanged,
                SkipItem, NextItem, TypeOK, SyncTypes
  <2>4. ASSUME NEW s \in Slots, InsertUnsure(s) PROVE SyncTypes'
    BY <2>4 DEF InsertUnsure, handlerUnchanged, TypeOK, SyncTypes
  <2> QED
    BY <1>5, <2>1, <2>2, <2>3, <2>4 DEF Failure
<1>6. CASE Reinstate \/ UNCHANGED vars
  BY <1>6 DEF Reinstate, vars, TypeOK, SyncTypes
<1> QED
  BY <1>1, <1>2, <1>3, <1>4, <1>5, <1>6 DEF Next

\* A handler that answers, or goes on to its next call.
LEMMA HandlerTypes ==
    ASSUME TypeOK, NEW s \in Slots, stage[s] # "free",
           UNCHANGED <<log, item, reqKey, client>>,
           \/ \E status \in {200, 401, 403, 500} : Reply(s, status)
           \/ \E next \in Stages \ {"free"} : Go(s, next)
    PROVE  RequestTypes'
<1>1. CASE \E status \in {200, 401, 403, 500} : Reply(s, status)
  BY <1>1 DEF Reply, TypeOK, RequestTypes, Stages, Codes
<1>2. CASE \E next \in Stages \ {"free"} : Go(s, next)
  BY <1>2 DEF Go, TypeOK, RequestTypes, Stages
<1> QED
  BY <1>1, <1>2

LEMMA ReleaseTypes ==
    ASSUME TypeOK, NEW s \in Slots, log' = log, Release(s)
    PROVE  RequestTypes'
BY DEF Release, TypeOK, RequestTypes, Stages, Codes

LEMMA RequestTypesStep == TypeOK /\ [Next]_vars => RequestTypes'
<1> SUFFICES ASSUME TypeOK, [Next]_vars PROVE RequestTypes'
  OBVIOUS
<1> USE DeliveryAssumption DEF agentVars, requests, Stages, Codes
<1>1. CASE Tick
  BY <1>1 DEF Tick, TypeOK, RequestTypes
<1>2. ASSUME NEW c \in Collectors, Push(c) PROVE RequestTypes'
  BY <1>2, PushFacts DEF Push, TypeOK, RequestTypes
<1>3. CASE Sync
  <2>1. CASE Poll \/ DropOversized \/ Reregister \/ ReregisterRefused
              \/ EndBatch \/ MarkSent
    BY <2>1 DEF Poll, DropOversized, Reregister, ReregisterRefused,
                EndBatch, MarkSent,
                TypeOK, RequestTypes
  <2>2. ASSUME NEW s \in Slots, Upload(s) PROVE RequestTypes'
    <3>1. PICK i \in batch : item' = [item EXCEPT ![s] = i]
      BY <2>2 DEF Upload
    <3>2. i \in DOMAIN log /\ i \in Nat /\ log' = log /\ agentKey \in Nat
      BY <2>2 DEF Upload, TypeOK, AgentTypes, SyncTypes
    <3>3. /\ stage' = [stage EXCEPT ![s] = "auth"]
          /\ reqKey' = [reqKey EXCEPT ![s] = agentKey]
          /\ client' = [client EXCEPT ![s] = TRUE]
          /\ code' = code
      BY <2>2 DEF Upload
    <3> QED
      BY <3>1, <3>2, <3>3 DEF TypeOK, RequestTypes
  <2>3. ASSUME NEW s \in Slots, Receive(s) PROVE RequestTypes'
    BY <2>3, ReleaseTypes DEF Receive
  <2> QED
    BY <1>3, <2>1, <2>2, <2>3 DEF Sync
<1>4. ASSUME NEW s \in Slots, Ingest(s) PROVE RequestTypes'
  <2> USE DEF handlerUnchanged
  <2>1. CASE Auth(s)
    BY <2>1, HandlerTypes DEF Auth
  <2>2. CASE Preflight(s)
    BY <2>2, HandlerTypes DEF Preflight
  <2>3. CASE ClaimLease(s)
    BY <2>3, HandlerTypes DEF ClaimLease
  <2>4. CASE Archive(s)
    BY <2>4, HandlerTypes DEF Archive
  <2>5. CASE Insert(s)
    BY <2>5, HandlerTypes DEF Insert
  <2>6. CASE Upsert(s)
    BY <2>6, HandlerTypes DEF Upsert
  <2>7. CASE Discard(s)
    BY <2>7, ReleaseTypes DEF Discard
  <2> QED
    BY <1>4, <2>1, <2>2, <2>3, <2>4, <2>5, <2>6, <2>7 DEF Ingest
<1>5. CASE Failure
  <2>1. ASSUME NEW c \in Collectors, PushFails(c) PROVE RequestTypes'
    BY <2>1 DEF PushFails, TypeOK, RequestTypes
  <2>2. ASSUME NEW c \in Collectors, Restart(c) PROVE RequestTypes'
    <3>1. client' = client \/ client' = [s \in Slots |-> FALSE]
      BY <2>2 DEF Restart
    <3>2. UNCHANGED <<log, stage, item, reqKey, code>>
      BY <2>2 DEF Restart
    <3>3. CASE client' = client
      BY <3>2, <3>3 DEF TypeOK, RequestTypes
    <3>4. CASE client' = [s \in Slots |-> FALSE]
      BY <3>2, <3>4 DEF TypeOK, RequestTypes
    <3> QED
      BY <3>1, <3>3, <3>4
  <2>3. CASE UploadFails \/ ReregisterFails \/ MarkSentFails \/ KeyRotated \/ DeleteFails
    BY <2>3 DEF UploadFails, ReregisterFails, MarkSentFails, KeyRotated, DeleteFails,
                TypeOK, RequestTypes
  <2>4. CASE ApiRestart
    BY <2>4 DEF ApiRestart, TypeOK, RequestTypes
  <2>5. ASSUME NEW s \in Slots, LoseReply(s) PROVE RequestTypes'
    BY <2>5 DEF LoseReply, TypeOK, RequestTypes
  <2>6. ASSUME NEW s \in Slots, ClaimLeaseFails(s) PROVE RequestTypes'
    BY <2>6, HandlerTypes DEF ClaimLeaseFails, handlerUnchanged
  <2>7. ASSUME NEW s \in Slots, HandlerFails(s) PROVE RequestTypes'
    BY <2>7, HandlerTypes DEF HandlerFails, handlerUnchanged
  <2>8. ASSUME NEW s \in Slots, InsertUnsure(s) PROVE RequestTypes'
    BY <2>8, HandlerTypes DEF InsertUnsure, handlerUnchanged
  <2> QED
    BY <1>5, <2>1, <2>2, <2>3, <2>4, <2>5, <2>6, <2>7, <2>8 DEF Failure
<1>6. CASE Reinstate \/ UNCHANGED vars
  BY <1>6 DEF Reinstate, vars, TypeOK, RequestTypes
<1> QED
  BY <1>1, <1>2, <1>3, <1>4, <1>5, <1>6 DEF Next

LEMMA InsertServerTypes ==
    ASSUME TypeOK, NEW s \in Slots, Insert(s) \/ InsertUnsure(s)
    PROVE  ServerTypes'
<1>1. item[s] \in DOMAIN log /\ item[s] \in Nat
  BY DEF Insert, InsertUnsure, TypeOK, RequestTypes
<1>2. /\ UNCHANGED <<log, rejected, lease, latest, revoked>>
      /\ telemetry' \in {telemetry, Append(telemetry, item[s])}
  BY DEF Insert, InsertUnsure, handlerUnchanged, agentVars
<1>3. /\ telemetry' \in Seq(Nat)
      /\ \A k \in DOMAIN telemetry' : telemetry'[k] \in DOMAIN log
  <2>1. /\ telemetry \in Seq(Nat)
        /\ \A k \in DOMAIN telemetry : telemetry[k] \in DOMAIN log
    BY DEF TypeOK, ServerTypes
  <2>2. /\ Append(telemetry, item[s]) \in Seq(Nat)
        /\ \A k \in DOMAIN Append(telemetry, item[s]) :
              Append(telemetry, item[s])[k] \in DOMAIN log
    BY <1>1, <2>1
  <2> QED
    BY <1>2, <2>1, <2>2
<1> QED
  BY <1>2, <1>3 DEF TypeOK, ServerTypes

LEMMA ServerTypesStep == TypeOK /\ [Next]_vars => ServerTypes'
<1> SUFFICES ASSUME TypeOK, [Next]_vars PROVE ServerTypes'
  OBVIOUS
<1> USE DeliveryAssumption DEF agentVars, serverVars
<1>1. CASE Tick
  BY <1>1 DEF Tick, TypeOK, ServerTypes
<1>2. ASSUME NEW c \in Collectors, Push(c) PROVE ServerTypes'
  BY <1>2, PushFacts DEF Push, TypeOK, ServerTypes
<1>3. CASE Sync
  BY <1>3 DEF Sync, Poll, DropOversized, Reregister, ReregisterRefused,
                EndBatch, MarkSent,
              Upload, Receive, TypeOK, ServerTypes
<1>4. ASSUME NEW s \in Slots, Ingest(s) PROVE ServerTypes'
  <2> USE DEF handlerUnchanged
  <2>1. CASE Auth(s) \/ Preflight(s) \/ Archive(s) \/ Discard(s)
    BY <2>1 DEF Auth, Preflight, Archive, Discard, TypeOK, ServerTypes
  <2>2. CASE ClaimLease(s)
    <3>1. item[s] \in DOMAIN log /\ now + LeaseTime \in Nat /\ lease.until \in Nat
      <4>1. stage[s] = "lease"
        BY <2>2 DEF ClaimLease
      <4>2. now \in Nat /\ LeaseTime \in Nat
        BY DEF TypeOK, AgentTypes
      <4> QED
        BY <4>1, <4>2 DEF TypeOK, RequestTypes, ServerTypes
    <3>2. /\ UNCHANGED <<log, telemetry, latest, revoked>>
          /\ rejected' \in {rejected, rejected \cup {item[s]}}
      BY <2>2 DEF ClaimLease
    <3>3. lease'.until \in Nat
      BY <2>2, <3>1 DEF ClaimLease
    <3> QED
      BY <3>1, <3>2, <3>3 DEF TypeOK, ServerTypes
  <2>3. CASE Insert(s)
    BY <2>3, InsertServerTypes
  <2>4. CASE Upsert(s)
    BY <2>4 DEF Upsert, TypeOK, RequestTypes, ServerTypes
  <2> QED
    BY <1>4, <2>1, <2>2, <2>3, <2>4 DEF Ingest
<1>5. CASE Failure
  <2>1. ASSUME NEW c \in Collectors, PushFails(c) \/ Restart(c) PROVE ServerTypes'
    BY <2>1 DEF PushFails, Restart, TypeOK, ServerTypes
  <2>2. CASE UploadFails \/ ReregisterFails \/ MarkSentFails \/ KeyRotated
             \/ DeleteFails \/ ApiRestart
    BY <2>2 DEF UploadFails, ReregisterFails, MarkSentFails, KeyRotated, DeleteFails,
                ApiRestart, TypeOK, ServerTypes
  <2>3. ASSUME NEW s \in Slots, LoseReply(s) \/ ClaimLeaseFails(s) \/ HandlerFails(s)
        PROVE ServerTypes'
    BY <2>3 DEF LoseReply, ClaimLeaseFails, HandlerFails, handlerUnchanged,
                TypeOK, RequestTypes, ServerTypes
  <2>4. ASSUME NEW s \in Slots, InsertUnsure(s) PROVE ServerTypes'
    BY <2>4, InsertServerTypes
  <2> QED
    BY <1>5, <2>1, <2>2, <2>3, <2>4 DEF Failure
<1>6. CASE Reinstate \/ UNCHANGED vars
  BY <1>6 DEF Reinstate, vars, TypeOK, ServerTypes
<1> QED
  BY <1>1, <1>2, <1>3, <1>4, <1>5, <1>6 DEF Next

LEMMA TypeStep == TypeOK /\ [Next]_vars => TypeOK'
BY AgentTypesStep, SyncTypesStep, RequestTypesStep, ServerTypesStep DEF TypeOK

\* Every variable of the delivery model keeps its type.
THEOREM TypeCorrect == Spec => []TypeOK
BY TypeInit, TypeStep, PTL DEF Spec

-----------------------------------------------------------------------------
(* The inductive invariant.                                                *)

LEMMA InvInit == Init => DeliveryInv
<1> SUFFICES ASSUME Init PROVE DeliveryInv
  OBVIOUS
<1>1. TypeOK
  BY TypeInit
<1>2. DOMAIN log = {} /\ DOMAIN telemetry = {} /\ sentIDs = {}
  BY DEF Init
<1>3. \A s \in Slots : stage[s] = "free"
  BY DEF Init
<1>4. Fresh /\ Distinct /\ Acked /\ NoSilentLoss /\ StoredOnce
  BY <1>2 DEF Fresh, Distinct, Acked, NoSilentLoss, StoredOnce
<1>5. Answered
  BY <1>3 DEF Answered
<1> QED
  BY <1>1, <1>4, <1>5 DEF DeliveryInv

\* The shape of the log, as the proofs below use it.
LEMMA LogFacts ==
    ASSUME TypeOK
    PROVE  /\ DOMAIN log = 1..Len(log)
           /\ Len(log) \in Nat
           /\ \A i \in DOMAIN log : /\ log[i].event[1] \in Collectors
                                    /\ log[i].event[2] \in Nat
                                    /\ log[i].event[3] \in Nat
<1>1. log \in Seq(Payload)
  BY DEF TypeOK, AgentTypes
<1>2. DOMAIN log = 1..Len(log) /\ Len(log) \in Nat /\ \A i \in DOMAIN log : log[i] \in Payload
  BY <1>1
<1>3. \A i \in DOMAIN log : log[i].event \in Collectors \X Nat \X Nat
  BY <1>2 DEF Payload, Events
<1> QED
  BY <1>2, <1>3

\* An event_id that was given out stays behind the counters.
LEMMA FreshStep == DeliveryInv /\ [Next]_vars => Fresh'
<1> SUFFICES ASSUME DeliveryInv, [Next]_vars PROVE Fresh'
  OBVIOUS
<1>1. /\ TypeOK /\ Fresh
      /\ session \in [Collectors -> Nat] /\ sequence \in [Collectors -> Nat]
      /\ now \in Nat /\ faults \in Nat
  BY DEF DeliveryInv, TypeOK, AgentTypes
<1>2. CASE AgentFrame
  BY <1>1, <1>2 DEF AgentFrame, agentVars, Fresh
<1>3. ASSUME NEW c \in Collectors, Push(c) PROVE Fresh'
  <2>1. session' = session /\ sequence' = [sequence EXCEPT ![c] = @ + 1]
    BY <1>3 DEF Push
  <2>2. /\ DOMAIN log' = 1..(Len(log) + 1)
        /\ \A i \in DOMAIN log : log'[i] = log[i]
        /\ log'[Len(log) + 1].event = <<c, session[c], sequence[c]>>
    BY <1>1, <1>3, PushFacts DEF EventId
  <2>3. ASSUME NEW i \in DOMAIN log
        PROVE  LET e == log'[i].event
               IN  \/ e[2] < session'[e[1]]
                   \/ e[2] = session'[e[1]] /\ e[3] < sequence'[e[1]]
    BY <1>1, <2>1, <2>2, LogFacts DEF Fresh
  <2>4. LET e == log'[Len(log) + 1].event
        IN  e[2] = session'[e[1]] /\ e[3] < sequence'[e[1]]
    BY <1>1, <2>1, <2>2
  <2>5. \A i \in DOMAIN log' : i \in DOMAIN log \/ i = Len(log) + 1
    BY <1>1, <2>2, LogFacts
  <2> QED
    BY <2>3, <2>4, <2>5 DEF Fresh
<1>4. ASSUME NEW c \in Collectors, PushFails(c) PROVE Fresh'
  <2>1. UNCHANGED <<session, log>> /\ sequence' = [sequence EXCEPT ![c] = @ + 1]
    BY <1>4 DEF PushFails
  <2> QED
    BY <1>1, <2>1, LogFacts DEF Fresh
<1>5. ASSUME NEW c \in Collectors, Restart(c) PROVE Fresh'
  <2>1. /\ log' = log
        /\ session' = [session EXCEPT ![c] = session[c] + 1]
        /\ sequence' = [sequence EXCEPT ![c] = 0]
    BY <1>5 DEF Restart, NewAgentSessionID
  <2> QED
    BY <1>1, <2>1, LogFacts DEF Fresh
<1> QED
  BY <1>1, <1>2, <1>3, <1>4, <1>5, StepFrames

\* No two payloads share an event_id.
LEMMA DistinctStep == DeliveryInv /\ [Next]_vars => Distinct'
<1> SUFFICES ASSUME DeliveryInv, [Next]_vars PROVE Distinct'
  OBVIOUS
<1>1. /\ TypeOK /\ Fresh /\ Distinct
      /\ session \in [Collectors -> Nat] /\ sequence \in [Collectors -> Nat]
  BY DEF DeliveryInv, TypeOK, AgentTypes
<1>2. CASE log' = log
  BY <1>1, <1>2 DEF Distinct
<1>3. ASSUME NEW c \in Collectors, Push(c) PROVE Distinct'
  <2>1. /\ DOMAIN log' = 1..(Len(log) + 1)
        /\ \A i \in DOMAIN log : log'[i] = log[i]
        /\ log'[Len(log) + 1].event = <<c, session[c], sequence[c]>>
    BY <1>1, <1>3, PushFacts DEF EventId
  <2>2. ASSUME NEW i \in DOMAIN log PROVE log[i].event # <<c, session[c], sequence[c]>>
    BY <1>1, LogFacts DEF Fresh
  <2>3. \A i \in DOMAIN log' : i \in DOMAIN log \/ i = Len(log) + 1
    BY <1>1, <2>1, LogFacts
  <2> QED
    BY <1>1, <2>1, <2>2, <2>3 DEF Distinct
<1> QED
  BY <1>1, <1>2, <1>3, StepFrames DEF AgentFrame, agentVars, PushFails, Restart

\* A step stores at most one payload, and the collection and the refused
\* payloads only grow.
LEMMA ServerStep ==
    ASSUME TypeOK, [Next]_vars
    PROVE  \/ telemetry' = telemetry /\ rejected \subseteq rejected'
           \/ \E s \in Slots : Insert(s) \/ InsertUnsure(s)
<1> DEFINE G == telemetry' = telemetry /\ rejected \subseteq rejected'
<1> USE DEF serverVars, handlerUnchanged
<1>1. CASE Tick
  BY <1>1 DEF Tick
<1>2. ASSUME NEW c \in Collectors, Push(c) PROVE G
  BY <1>2 DEF Push
<1>3. CASE Sync
  <2>1. CASE Poll
    BY <2>1 DEF Poll
  <2>2. CASE DropOversized
    BY <2>2 DEF DropOversized
  <2>3. CASE Reregister \/ ReregisterRefused
    BY <2>3 DEF Reregister, ReregisterRefused
  <2>4. CASE EndBatch
    BY <2>4 DEF EndBatch
  <2>5. CASE MarkSent
    BY <2>5 DEF MarkSent
  <2>6. ASSUME NEW s \in Slots, Upload(s) PROVE G
    BY <2>6 DEF Upload
  <2>7. ASSUME NEW s \in Slots, Receive(s) PROVE G
    BY <2>7 DEF Receive
  <2> QED
    BY <1>3, <2>1, <2>2, <2>3, <2>4, <2>5, <2>6, <2>7 DEF Sync
<1>4. ASSUME NEW s \in Slots, Ingest(s), ~Insert(s) PROVE G
  <2>1. CASE Auth(s)
    BY <2>1 DEF Auth
  <2>2. CASE Preflight(s)
    BY <2>2 DEF Preflight
  <2>3. CASE ClaimLease(s)
    BY <2>3 DEF ClaimLease
  <2>4. CASE Archive(s)
    BY <2>4 DEF Archive
  <2>5. CASE Upsert(s)
    BY <2>5 DEF Upsert
  <2>6. CASE Discard(s)
    BY <2>6 DEF Discard
  <2> QED
    BY <1>4, <2>1, <2>2, <2>3, <2>4, <2>5, <2>6 DEF Ingest
<1>5. ASSUME NEW c \in Collectors, PushFails(c) \/ Restart(c) PROVE G
  BY <1>5 DEF PushFails, Restart
<1>6. CASE RemoteFailure
  <2>1. CASE UploadFails \/ ReregisterFails
    BY <2>1 DEF UploadFails, ReregisterFails
  <2>2. CASE MarkSentFails \/ KeyRotated
             \/ DeleteFails \/ ApiRestart
    BY <2>2 DEF MarkSentFails, KeyRotated, DeleteFails, ApiRestart
  <2>3. ASSUME NEW s \in Slots, LoseReply(s) PROVE G
    BY <2>3 DEF LoseReply
  <2>4. ASSUME NEW s \in Slots, ClaimLeaseFails(s) PROVE G
    BY <2>4 DEF ClaimLeaseFails
  <2>5. ASSUME NEW s \in Slots, HandlerFails(s) PROVE G
    BY <2>5 DEF HandlerFails
  <2> QED
    BY <1>6, <2>1, <2>2, <2>3, <2>4, <2>5 DEF RemoteFailure
<1>7. CASE Reinstate \/ UNCHANGED vars
  BY <1>7 DEF Reinstate, vars
<1> QED
  BY <1>1, <1>2, <1>3, <1>4, <1>5, <1>6, <1>7 DEF Next, Failure, RemoteFailure

\* A payload is found by its event_id exactly when it is stored itself.
LEMMA StoredIsStored ==
    ASSUME DeliveryInv, NEW i \in DOMAIN log
    PROVE  Stored(i) <=> i \in StoredIds
<1>1. Distinct /\ \A k \in DOMAIN telemetry : telemetry[k] \in DOMAIN log
  BY DEF DeliveryInv, TypeOK, ServerTypes
<1> QED
  BY <1>1 DEF Distinct, Stored, StoredIds

\* What InsertOne does to the collection, and what the handler does next.
LEMMA InsertFacts ==
    ASSUME DeliveryInv, NEW s \in Slots, Insert(s) \/ InsertUnsure(s)
    PROVE  /\ \/ item[s] \in StoredIds' /\ (Go(s, "upsert") \/ Reply(s, 200))
              \/ Reply(s, 500)
           /\ StoredIds \subseteq StoredIds'
           /\ StoredOnce'
           /\ UNCHANGED <<log, rejected>>
<1>1. /\ TypeOK /\ StoredOnce /\ telemetry \in Seq(Nat)
      /\ item[s] \in DOMAIN log /\ item[s] \in Nat
  BY DEF DeliveryInv, TypeOK, RequestTypes, ServerTypes, Insert, InsertUnsure
<1>2. UNCHANGED <<log, rejected>>
  BY DEF Insert, InsertUnsure, handlerUnchanged, agentVars
<1>3. CASE telemetry' = telemetry
  <2>1. (Stored(item[s]) /\ Reply(s, 200)) \/ Reply(s, 500) \/ telemetry' = Append(telemetry, item[s])
    BY DEF Insert, InsertUnsure
  <2>2. telemetry # Append(telemetry, item[s])
    <3>1. Len(Append(telemetry, item[s])) = Len(telemetry) + 1 /\ Len(telemetry) \in Nat
      BY <1>1
    <3> QED BY <3>1
  <2>3. StoredIds' = StoredIds
    BY <1>3 DEF StoredIds
  <2>4. StoredOnce'
    BY <1>1, <1>3 DEF StoredOnce
  <2> QED
    BY <1>1, <1>2, <1>3, <2>1, <2>2, <2>3, <2>4, StoredIsStored
<1>4. CASE telemetry' # telemetry
  <2>1. /\ ~Stored(item[s]) /\ telemetry' = Append(telemetry, item[s])
        /\ Go(s, "upsert") \/ Reply(s, 500)
    BY <1>4 DEF Insert, InsertUnsure
  <2>2. /\ DOMAIN telemetry = 1..Len(telemetry) /\ Len(telemetry) \in Nat
        /\ DOMAIN telemetry' = 1..(Len(telemetry) + 1)
        /\ telemetry'[Len(telemetry) + 1] = item[s]
        /\ \A k \in DOMAIN telemetry : telemetry'[k] = telemetry[k]
    BY <1>1, <2>1
  <2>3. \A k \in DOMAIN telemetry : k \in DOMAIN telemetry' /\ telemetry[k] # item[s]
    BY <1>1, <2>1, <2>2, StoredIsStored DEF StoredIds
  <2>4. \A k \in DOMAIN telemetry' : k \in DOMAIN telemetry \/ k = Len(telemetry) + 1
    BY <2>2
  <2>5. StoredOnce'
    BY <1>1, <2>2, <2>3, <2>4 DEF StoredOnce
  <2>6. item[s] \in StoredIds' /\ StoredIds \subseteq StoredIds'
    BY <2>2, <2>3 DEF StoredIds
  <2> QED
    BY <1>2, <2>1, <2>5, <2>6
<1> QED
  BY <1>3, <1>4

\* A payload, once accounted for, stays accounted for.
LEMMA AccountedStays ==
    ASSUME DeliveryInv, [Next]_vars
    PROVE  /\ StoredIds \subseteq StoredIds'
           /\ \A i \in DOMAIN log : /\ i \in DOMAIN log'
                                    /\ log'[i] = log[i]
                                    /\ Accounted(i) => Accounted(i)'
<1>1. TypeOK
  BY DEF DeliveryInv
<1>2. \A i \in DOMAIN log : i \in DOMAIN log' /\ log'[i] = log[i]
  <2>1. CASE log' = log
    BY <2>1
  <2>2. ASSUME NEW c \in Collectors, Push(c)
        PROVE  \A i \in DOMAIN log : i \in DOMAIN log' /\ log'[i] = log[i]
    BY <1>1, <2>2, PushFacts
  <2> QED
    BY <1>1, <2>1, <2>2, StepFrames DEF AgentFrame, agentVars, PushFails, Restart
<1>3. rejected \subseteq rejected' /\ StoredIds \subseteq StoredIds'
  <2>1. CASE telemetry' = telemetry /\ rejected \subseteq rejected'
    BY <2>1 DEF StoredIds
  <2>2. CASE \E s \in Slots : Insert(s) \/ InsertUnsure(s)
    BY <2>2, InsertFacts
  <2> QED
    BY <1>1, <2>1, <2>2, ServerStep
<1> QED
  BY <1>2, <1>3 DEF Accounted, Oversized

LEMMA StoredOnceStep == DeliveryInv /\ [Next]_vars => StoredOnce'
<1> SUFFICES ASSUME DeliveryInv, [Next]_vars PROVE StoredOnce'
  OBVIOUS
<1>1. TypeOK /\ StoredOnce
  BY DEF DeliveryInv
<1>2. CASE telemetry' = telemetry
  BY <1>1, <1>2 DEF StoredOnce
<1>3. CASE \E s \in Slots : Insert(s) \/ InsertUnsure(s)
  BY <1>3, InsertFacts
<1> QED
  BY <1>1, <1>2, <1>3, ServerStep

LEMMA NoSilentLossStep == DeliveryInv /\ [Next]_vars => NoSilentLoss'
<1> SUFFICES ASSUME DeliveryInv, [Next]_vars, NEW i \in DOMAIN log'
             PROVE  i \in queue' \cup pruned' \/ Accounted(i)'
  BY DEF NoSilentLoss
<1>1. TypeOK /\ NoSilentLoss /\ Acked
  BY DEF DeliveryInv
<1>2. CASE i \in DOMAIN log /\ Accounted(i)
  BY <1>2, AccountedStays
<1>3. CASE i \notin DOMAIN log \/ i \in queue \cup pruned
  <2>1. CASE AgentFrame
    <3>1. i \in DOMAIN log /\ i \in queue \cup pruned /\ pruned' = pruned
      BY <1>3, <2>1 DEF AgentFrame, agentVars
    <3>2. CASE i \in sentIDs
      BY <1>1, <3>1, <3>2, AccountedStays DEF Acked
    <3>3. CASE i \notin sentIDs
      BY <2>1, <3>1, <3>3 DEF AgentFrame
    <3> QED
      BY <3>2, <3>3
  <2>2. ASSUME NEW c \in Collectors, Push(c) PROVE i \in queue' \cup pruned'
    <3>1. i \in DOMAIN log \/ i = Len(log) + 1
      BY <1>1, <2>2, PushFacts, LogFacts
    <3> QED
      BY <1>1, <1>3, <2>2, <3>1, PushFacts
  <2>3. ASSUME NEW c \in Collectors, PushFails(c) PROVE i \in queue' \cup pruned'
    BY <1>3, <2>3 DEF PushFails
  <2>4. ASSUME NEW c \in Collectors, Restart(c) PROVE i \in queue' \cup pruned'
    BY <1>3, <2>4 DEF Restart
  <2> QED
    BY <1>1, <2>1, <2>2, <2>3, <2>4, StepFrames
<1> QED
  BY <1>1, <1>2, <1>3 DEF NoSilentLoss

\* The steps that collect an id, or leave sentIDs as it is or empty it.
LEMMA SentIDsStep ==
    ASSUME TypeOK, [Next]_vars
    PROVE  \/ sentIDs' \subseteq sentIDs
           \/ DropOversized
           \/ \E s \in Slots : Receive(s)
<1> DEFINE G == sentIDs' \subseteq sentIDs
<1> USE DEF syncVars, handlerUnchanged
<1>1. CASE Tick
  BY <1>1 DEF Tick
<1>2. ASSUME NEW c \in Collectors, Push(c) PROVE G
  BY <1>2 DEF Push
<1>3. CASE Poll \/ Reregister \/ ReregisterRefused \/ EndBatch \/ MarkSent
  BY <1>3 DEF Poll, Reregister, ReregisterRefused, EndBatch, MarkSent
<1>4. ASSUME NEW s \in Slots, Upload(s) PROVE G
  BY <1>4 DEF Upload
<1>5. ASSUME NEW s \in Slots, Ingest(s) PROVE G
  <2>1. CASE Auth(s) \/ Preflight(s) \/ Archive(s)
    BY <2>1 DEF Auth, Preflight, Archive
  <2>2. CASE ClaimLease(s)
    BY <2>2 DEF ClaimLease
  <2>3. CASE Insert(s)
    BY <2>3 DEF Insert
  <2>4. CASE Upsert(s)
    BY <2>4 DEF Upsert
  <2>5. CASE Discard(s)
    BY <2>5 DEF Discard
  <2> QED
    BY <1>5, <2>1, <2>2, <2>3, <2>4, <2>5 DEF Ingest
<1>6. ASSUME NEW c \in Collectors, PushFails(c) \/ Restart(c) PROVE G
  BY <1>6 DEF PushFails, Restart
<1>7. CASE RemoteFailure
  <2>1. CASE UploadFails \/ ReregisterFails
    BY <2>1 DEF UploadFails, ReregisterFails
  <2>2. CASE MarkSentFails \/ KeyRotated
             \/ DeleteFails \/ ApiRestart
    BY <2>2 DEF MarkSentFails, KeyRotated, DeleteFails, ApiRestart
  <2>3. ASSUME NEW s \in Slots, LoseReply(s) PROVE G
    BY <2>3 DEF LoseReply
  <2>4. ASSUME NEW s \in Slots, ClaimLeaseFails(s) PROVE G
    BY <2>4 DEF ClaimLeaseFails
  <2>5. ASSUME NEW s \in Slots, HandlerFails(s) PROVE G
    BY <2>5 DEF HandlerFails
  <2>6. ASSUME NEW s \in Slots, InsertUnsure(s) PROVE G
    BY <2>6 DEF InsertUnsure
  <2> QED
    BY <1>7, <2>1, <2>2, <2>3, <2>4, <2>5, <2>6 DEF RemoteFailure
<1>8. CASE Reinstate \/ UNCHANGED vars
  BY <1>8 DEF Reinstate, vars
<1> QED
  BY <1>1, <1>2, <1>3, <1>4, <1>5, <1>6, <1>7, <1>8
     DEF Next, Sync, Failure, RemoteFailure

LEMMA AckedStep == DeliveryInv /\ [Next]_vars => Acked'
<1> SUFFICES ASSUME DeliveryInv, [Next]_vars, NEW i \in sentIDs' PROVE Accounted(i)'
  BY DEF Acked
<1>1. TypeOK /\ Acked /\ Answered /\ sentIDs \subseteq DOMAIN log /\ batch \subseteq DOMAIN log
  BY DEF DeliveryInv, TypeOK, SyncTypes
<1>2. CASE i \in sentIDs
  BY <1>1, <1>2, AccountedStays DEF Acked
<1>3. CASE DropOversized /\ i \notin sentIDs
  <2>1. i \in batch /\ Oversized(i)
    BY <1>3 DEF DropOversized
  <2> QED
    BY <1>1, <2>1, AccountedStays DEF Accounted
<1>4. ASSUME NEW s \in Slots, Receive(s), i \notin sentIDs PROVE Accounted(i)'
  <2>1. /\ stage[s] = "reply"
        /\ code[s] = 200 /\ i = item[s]
    BY <1>4 DEF Receive, Sent
  <2>2. Accounted(i) /\ i \in DOMAIN log
    BY <1>1, <2>1 DEF Answered, TypeOK, RequestTypes
  <2> QED
    BY <2>2, AccountedStays
<1> QED
  BY <1>1, <1>2, <1>3, <1>4, SentIDsStep


\* What Answered says of one request.
Promised(s) ==
    /\ stage[s] = "upsert" => item[s] \in StoredIds
    /\ stage[s] = "reply" /\ code[s] = 200 => Accounted(item[s])

\* A request that promises nothing, or is left alone, keeps its promise.
LEMMA PromisedFrame ==
    ASSUME DeliveryInv, [Next]_vars, NEW t \in Slots,
           \/ stage'[t] \notin {"upsert", "reply"}
           \/ stage'[t] = "reply" /\ code'[t] # 200
           \/ stage'[t] = stage[t] /\ code'[t] = code[t] /\ item'[t] = item[t]
    PROVE  Promised(t)'
<1>1. CASE \/ stage'[t] \notin {"upsert", "reply"}
           \/ stage'[t] = "reply" /\ code'[t] # 200
  BY <1>1 DEF Promised
<1>2. CASE /\ stage[t] \in {"upsert", "reply"}
           /\ stage'[t] = stage[t] /\ code'[t] = code[t] /\ item'[t] = item[t]
  <2>1. item[t] \in DOMAIN log /\ Promised(t)
    BY <1>2 DEF DeliveryInv, TypeOK, RequestTypes, Answered, Promised
  <2>2. PICK i \in DOMAIN log : i = item[t] /\ i = item'[t]
    BY <1>2, <2>1
  <2>3. Accounted(i) => Accounted(i)'
    BY AccountedStays
  <2>4. i \in StoredIds => i \in StoredIds'
    BY AccountedStays
  <2> QED
    BY <1>2, <2>1, <2>2, <2>3, <2>4 DEF Promised, Accounted, Oversized
<1> QED
  BY <1>1, <1>2

\* A handler's step touches no request but its own.
LEMMA Elsewhere ==
    ASSUME TypeOK, NEW s \in Slots, NEW t \in Slots, t # s, item' = item,
           \/ \E status : Reply(s, status)
           \/ \E next : Go(s, next)
    PROVE  stage'[t] = stage[t] /\ code'[t] = code[t] /\ item'[t] = item[t]
BY DEF Reply, Go, TypeOK, RequestTypes

\* A handler that answers 200 does so for an accounted payload, and one that
\* goes on to the upsert has stored its payload.
LEMMA HandlerPromise ==
    ASSUME DeliveryInv, [Next]_vars, NEW s \in Slots, item' = item,
           \/ \E status : Reply(s, status) /\ (status = 200 => Accounted(item[s])')
           \/ \E next : Go(s, next) /\ next # "reply"
                        /\ (next = "upsert" => (item[s] \in StoredIds)')
    PROVE  Answered'
<1> SUFFICES ASSUME NEW t \in Slots PROVE Promised(t)'
  BY DEF Answered, Promised
<1>0. TypeOK /\ stage \in [Slots -> Stages] /\ code \in [Slots -> Codes]
  BY DEF DeliveryInv, TypeOK, RequestTypes
<1>1. CASE t # s
  BY <1>0, <1>1, Elsewhere, PromisedFrame
<1>2. CASE t = s /\ \E status : Reply(s, status) /\ (status = 200 => Accounted(item[s])')
  BY <1>0, <1>2 DEF Reply, Promised
<1>3. CASE t = s /\ \E next : Go(s, next) /\ next # "reply"
                              /\ (next = "upsert" => (item[s] \in StoredIds)')
  BY <1>0, <1>3 DEF Go, Promised
<1> QED
  BY <1>1, <1>2, <1>3

\* An emptied slot promises nothing.
LEMMA ReleasePromise ==
    ASSUME DeliveryInv, [Next]_vars, NEW s \in Slots, Release(s)
    PROVE  Answered'
<1> SUFFICES ASSUME NEW t \in Slots PROVE Promised(t)'
  BY DEF Answered, Promised
<1>0. /\ stage \in [Slots -> Stages] /\ code \in [Slots -> Codes]
      /\ item \in [Slots -> Nat]
  BY DEF DeliveryInv, TypeOK, RequestTypes
<1>1. CASE t = s
  <2>1. stage'[t] = "free"
    BY <1>0, <1>1 DEF Release
  <2> QED
    BY <2>1, PromisedFrame
<1>2. CASE t # s
  <2>1. stage'[t] = stage[t] /\ code'[t] = code[t] /\ item'[t] = item[t]
    BY <1>0, <1>2 DEF Release
  <2> QED
    BY <2>1, PromisedFrame
<1> QED
  BY <1>1, <1>2

\* Steps that leave all requests alone.
LEMMA UntouchedPromise ==
    ASSUME DeliveryInv, [Next]_vars, UNCHANGED <<stage, item, code>>
    PROVE  Answered'
BY PromisedFrame DEF Answered, Promised

LEMMA InsertPromise ==
    ASSUME DeliveryInv, [Next]_vars, NEW s \in Slots, Insert(s) \/ InsertUnsure(s)
    PROVE  Answered'
<1>1. item' = item
  BY DEF Insert, InsertUnsure, handlerUnchanged
<1>2. CASE Reply(s, 500)
  BY <1>1, <1>2, HandlerPromise
<1>3. CASE item[s] \in StoredIds' /\ (Go(s, "upsert") \/ Reply(s, 200))
  <2>1. (item[s] \in StoredIds)' /\ Accounted(item[s])'
    BY <1>1, <1>3 DEF Accounted
  <2> QED
    BY <1>1, <1>3, <2>1, HandlerPromise
<1> QED
  BY <1>2, <1>3, InsertFacts

LEMMA AnsweredStep == DeliveryInv /\ [Next]_vars => Answered'
<1> SUFFICES ASSUME DeliveryInv, [Next]_vars PROVE Answered'
  OBVIOUS
<1>0. /\ TypeOK /\ Answered /\ stage \in [Slots -> Stages] /\ code \in [Slots -> Codes]
      /\ item \in [Slots -> Nat]
  BY DEF DeliveryInv, TypeOK, RequestTypes
<1>1. CASE Tick
  BY <1>1, UntouchedPromise DEF Tick, requests
<1>2. ASSUME NEW c \in Collectors, Push(c) PROVE Answered'
  BY <1>2, UntouchedPromise DEF Push, requests
<1>3. CASE Sync
  <2>1. CASE Poll \/ DropOversized \/ Reregister \/ ReregisterRefused
              \/ EndBatch \/ MarkSent
    <3>1. UNCHANGED <<stage, item, code>>
      BY <2>1 DEF Poll, DropOversized, Reregister, ReregisterRefused,
                EndBatch, MarkSent, requests
    <3> QED
      BY <3>1, UntouchedPromise
  <2>2. ASSUME NEW s \in Slots, Upload(s) PROVE Answered'
    <3>1. PICK i : item' = [item EXCEPT ![s] = i]
      BY <2>2 DEF Upload
    <3>2. stage' = [stage EXCEPT ![s] = "auth"] /\ code' = code
      BY <2>2 DEF Upload
    <3>3. ASSUME NEW t \in Slots PROVE Promised(t)'
      <4>1. \/ stage'[t] \notin {"upsert", "reply"}
            \/ stage'[t] = stage[t] /\ code'[t] = code[t] /\ item'[t] = item[t]
        BY <1>0, <3>1, <3>2
      <4> QED
        BY <4>1, PromisedFrame
    <3> QED
      BY <3>3 DEF Answered, Promised
  <2>3. ASSUME NEW s \in Slots, Receive(s) PROVE Answered'
    BY <2>3, ReleasePromise DEF Receive
  <2> QED
    BY <1>3, <2>1, <2>2, <2>3 DEF Sync
<1>4. ASSUME NEW s \in Slots, Ingest(s) PROVE Answered'
  <2> USE DEF handlerUnchanged
  <2>1. CASE Auth(s)
    BY <2>1, HandlerPromise DEF Auth
  <2>2. CASE Preflight(s)
    <3>1. item[s] \in DOMAIN log /\ item' = item
      BY <1>0, <2>2 DEF Preflight, TypeOK, RequestTypes
    <3>2. CASE Stored(item[s])
      <4>1. item[s] \in StoredIds
        BY <3>1, <3>2, StoredIsStored
      <4>2. (item[s] \in StoredIds)'
        BY <3>1, <4>1, AccountedStays
      <4> QED
        BY <2>2, <3>1, <3>2, <4>2, HandlerPromise DEF Preflight, Accounted
    <3>3. CASE ~Stored(item[s])
      BY <2>2, <3>1, <3>3, HandlerPromise DEF Preflight
    <3> QED
      BY <3>2, <3>3
  <2>3. CASE ClaimLease(s)
    <3>0. item' = item
      BY <2>3 DEF ClaimLease
    <3>1. \/ Go(s, "archive")
          \/ rejected' = rejected \cup {item[s]} /\ Reply(s, 200)
      BY <2>3, Zenon DEF ClaimLease
    <3>2. CASE Go(s, "archive")
      BY <3>0, <3>2, HandlerPromise
    <3>3. CASE rejected' = rejected \cup {item[s]} /\ Reply(s, 200)
      <4>1. Accounted(item[s])'
        BY <3>0, <3>3 DEF Accounted
      <4> QED
        BY <3>0, <3>3, <4>1, HandlerPromise
    <3> QED
      BY <3>1, <3>2, <3>3
  <2>4. CASE Archive(s)
    BY <2>4, HandlerPromise DEF Archive
  <2>5. CASE Insert(s)
    BY <2>5, InsertPromise
  <2>6. CASE Upsert(s)
    <3>1. item' = item /\ Reply(s, 200) /\ telemetry' = telemetry /\ stage[s] = "upsert"
      BY <2>6 DEF Upsert
    <3>2. Accounted(item[s])'
      BY <1>0, <3>1 DEF Answered, Accounted, StoredIds
    <3> QED
      BY <3>1, <3>2, HandlerPromise
  <2>7. CASE Discard(s)
    BY <2>7, ReleasePromise DEF Discard
  <2> QED
    BY <1>4, <2>1, <2>2, <2>3, <2>4, <2>5, <2>6, <2>7 DEF Ingest
<1>5. CASE Failure
  <2>1. ASSUME NEW c \in Collectors, PushFails(c) \/ Restart(c) PROVE Answered'
    BY <2>1, UntouchedPromise DEF PushFails, Restart, requests
  <2>2. CASE UploadFails \/ ReregisterFails \/ MarkSentFails \/ KeyRotated \/ DeleteFails
    <3>1. UNCHANGED <<stage, item, code>>
      BY <2>2 DEF UploadFails, ReregisterFails, MarkSentFails, KeyRotated, DeleteFails, requests
    <3> QED
      BY <3>1, UntouchedPromise
  <2>3. CASE ApiRestart
    <3>1. \A t \in Slots : stage'[t] = "free"
      BY <2>3 DEF ApiRestart
    <3> QED
      BY <3>1 DEF Answered
  <2>4. ASSUME NEW s \in Slots, LoseReply(s) PROVE Answered'
    BY <2>4, UntouchedPromise DEF LoseReply
  <2>5. ASSUME NEW s \in Slots, ClaimLeaseFails(s) PROVE Answered'
    <3>1. item' = item /\ Reply(s, 200) /\ item[s] \in rejected'
      BY <2>5 DEF ClaimLeaseFails, handlerUnchanged
    <3>2. Accounted(item[s])'
      BY <3>1 DEF Accounted
    <3> QED
      BY <3>1, <3>2, HandlerPromise
  <2>6. ASSUME NEW s \in Slots, HandlerFails(s) PROVE Answered'
    <3>1. /\ item' = item /\ telemetry' = telemetry
          /\ \/ Reply(s, 401) \/ Reply(s, 500) \/ Go(s, "preflight")
             \/ stage[s] = "upsert" /\ Reply(s, 200)
      BY <2>6 DEF HandlerFails, handlerUnchanged, serverVars
    <3>2. CASE Reply(s, 401) \/ Reply(s, 500) \/ Go(s, "preflight")
      BY <3>1, <3>2, HandlerPromise
    <3>3. CASE stage[s] = "upsert" /\ Reply(s, 200)
      <4>1. Accounted(item[s])'
        BY <1>0, <3>1, <3>3 DEF Answered, Accounted, StoredIds
      <4> QED
        BY <3>1, <3>3, <4>1, HandlerPromise
    <3> QED
      BY <3>1, <3>2, <3>3
  <2>7. ASSUME NEW s \in Slots, InsertUnsure(s) PROVE Answered'
    BY <2>7, InsertPromise
  <2> QED
    BY <1>5, <2>1, <2>2, <2>3, <2>4, <2>5, <2>6, <2>7 DEF Failure
<1>6. CASE Reinstate \/ UNCHANGED vars
  BY <1>6, UntouchedPromise DEF Reinstate, vars, requests
<1> QED
  BY <1>1, <1>2, <1>3, <1>4, <1>5, <1>6 DEF Next

LEMMA InvStep == DeliveryInv /\ [Next]_vars => DeliveryInv'
<1> SUFFICES ASSUME DeliveryInv, [Next]_vars PROVE DeliveryInv'
  OBVIOUS
<1>1. TypeOK
  BY DEF DeliveryInv
<1>2. TypeOK'
  BY <1>1, TypeStep
<1> QED
  BY <1>2, FreshStep, DistinctStep, AckedStep, AnsweredStep, NoSilentLossStep,
     StoredOnceStep DEF DeliveryInv

\* An acknowledgement is never premature: in every state of every behaviour
\* the answers ingestHandler gives and the ids syncEngine has collected are
\* about payloads that are accounted for.
THEOREM DeliveryInvariant == Spec => []DeliveryInv
BY InvInit, InvStep, PTL DEF Spec

\* syncEngine and ingestHandler lose no payload silently, for any number of
\* processes, rows, concurrent requests and failures.
THEOREM NothingLostSilently == Spec => []NoSilentLoss
<1>1. DeliveryInv => NoSilentLoss
  BY DEF DeliveryInv
<1> QED
  BY <1>1, DeliveryInvariant, PTL

\* Retries store a payload at most once, whatever the interleaving of the
\* handlers that work on it.
THEOREM NothingStoredTwice == Spec => []StoredOnce
<1>1. DeliveryInv => StoredOnce
  BY DEF DeliveryInv
<1> QED
  BY <1>1, DeliveryInvariant, PTL

-----------------------------------------------------------------------------
(* The device row.                                                         *)

\* Only the upsert touches what the device row shows.
LEMMA LatestStep ==
    ASSUME TypeOK, [Next]_vars
    PROVE  latest' = latest \/ \E s \in Slots : Upsert(s)
<1> USE DEF serverVars, handlerUnchanged
<1>1. CASE Tick
  BY <1>1 DEF Tick
<1>2. ASSUME NEW c \in Collectors, Push(c) PROVE latest' = latest
  BY <1>2 DEF Push
<1>3. CASE Sync
  <2>1. CASE Poll
    BY <2>1 DEF Poll
  <2>2. CASE DropOversized
    BY <2>2 DEF DropOversized
  <2>3. CASE Reregister \/ ReregisterRefused
    BY <2>3 DEF Reregister, ReregisterRefused
  <2>4. CASE EndBatch
    BY <2>4 DEF EndBatch
  <2>5. CASE MarkSent
    BY <2>5 DEF MarkSent
  <2>6. ASSUME NEW s \in Slots, Upload(s) PROVE latest' = latest
    BY <2>6 DEF Upload
  <2>7. ASSUME NEW s \in Slots, Receive(s) PROVE latest' = latest
    BY <2>7 DEF Receive
  <2> QED
    BY <1>3, <2>1, <2>2, <2>3, <2>4, <2>5, <2>6, <2>7 DEF Sync
<1>4. ASSUME NEW s \in Slots, Ingest(s), ~Upsert(s) PROVE latest' = latest
  <2>1. CASE Auth(s)
    BY <2>1 DEF Auth
  <2>2. CASE Preflight(s)
    BY <2>2 DEF Preflight
  <2>3. CASE ClaimLease(s)
    BY <2>3 DEF ClaimLease
  <2>4. CASE Archive(s)
    BY <2>4 DEF Archive
  <2>5. CASE Insert(s)
    BY <2>5 DEF Insert
  <2>6. CASE Discard(s)
    BY <2>6 DEF Discard
  <2> QED
    BY <1>4, <2>1, <2>2, <2>3, <2>4, <2>5, <2>6 DEF Ingest
<1>5. ASSUME NEW c \in Collectors, PushFails(c) \/ Restart(c) PROVE latest' = latest
  BY <1>5 DEF PushFails, Restart
<1>6. CASE RemoteFailure
  <2>1. CASE UploadFails \/ ReregisterFails
    BY <2>1 DEF UploadFails, ReregisterFails
  <2>2. CASE MarkSentFails \/ KeyRotated
             \/ DeleteFails \/ ApiRestart
    BY <2>2 DEF MarkSentFails, KeyRotated, DeleteFails, ApiRestart
  <2>3. ASSUME NEW s \in Slots, LoseReply(s) PROVE latest' = latest
    BY <2>3 DEF LoseReply
  <2>4. ASSUME NEW s \in Slots, ClaimLeaseFails(s) PROVE latest' = latest
    BY <2>4 DEF ClaimLeaseFails
  <2>5. ASSUME NEW s \in Slots, HandlerFails(s) PROVE latest' = latest
    BY <2>5 DEF HandlerFails
  <2>6. ASSUME NEW s \in Slots, InsertUnsure(s) PROVE latest' = latest
    BY <2>6 DEF InsertUnsure
  <2> QED
    BY <1>6, <2>1, <2>2, <2>3, <2>4, <2>5, <2>6 DEF RemoteFailure
<1>7. CASE Reinstate \/ UNCHANGED vars
  BY <1>7 DEF Reinstate, vars
<1> QED
  BY <1>1, <1>2, <1>3, <1>4, <1>5, <1>6, <1>7 DEF Next, Failure, RemoteFailure

\* A payload that is stored stays stored, and stays the payload it is.
LEMMA StoredStays ==
    ASSUME DeliveryInv, [Next]_vars, NEW i \in DOMAIN log, i \in StoredIds
    PROVE  i \in StoredIds' /\ log'[i] = log[i]
<1>1. i \in StoredIds'
  BY AccountedStays
<1>2. TypeOK
  BY DEF DeliveryInv
<1>3. CASE log' = log
  BY <1>1, <1>3
<1>4. ASSUME NEW c \in Collectors, Push(c) PROVE log'[i] = log[i]
  BY <1>2, <1>4, PushFacts
<1> QED
  BY <1>1, <1>2, <1>3, <1>4, StepFrames DEF AgentFrame, agentVars, PushFails, Restart

LEMMA ShownStep == DeliveryInv /\ ShownIsStored /\ [Next]_vars => ShownIsStored'
<1> SUFFICES ASSUME DeliveryInv, ShownIsStored, [Next]_vars,
                    NEW c \in Collectors, latest'[c] # 0
             PROVE  latest'[c] \in StoredIds' /\ log'[latest'[c]].src = c
  BY DEF ShownIsStored
<1>1. /\ TypeOK /\ Answered /\ latest \in [Collectors -> Nat]
      /\ \A k \in DOMAIN telemetry : telemetry[k] \in DOMAIN log
  BY DEF DeliveryInv, TypeOK, ServerTypes
<1>2. StoredIds \subseteq DOMAIN log
  BY <1>1 DEF StoredIds
<1>3. CASE latest'[c] = latest[c]
  <2>1. PICK i \in DOMAIN log : i = latest[c] /\ i \in StoredIds /\ log[i].src = c
    BY <1>2, <1>3 DEF ShownIsStored
  <2>2. i \in StoredIds' /\ log'[i] = log[i]
    BY <2>1, StoredStays
  <2> QED
    BY <1>3, <2>1, <2>2
<1>4. ASSUME NEW s \in Slots, Upsert(s), latest'[c] # latest[c]
      PROVE  latest'[c] \in StoredIds' /\ log'[latest'[c]].src = c
  <2>1. PICK i \in DOMAIN log : i = item[s] /\ i \in StoredIds
    BY <1>1, <1>2, <1>4 DEF Upsert, Answered
  <2>2. latest' = [latest EXCEPT ![log[i].src] = i]
    BY <1>4, <2>1 DEF Upsert
  <2>3. latest'[c] = i /\ log[i].src = c
    BY <1>1, <1>4, <2>2
  <2>4. i \in StoredIds' /\ log'[i] = log[i]
    BY <2>1, StoredStays
  <2> QED
    BY <2>3, <2>4
<1> QED
  BY <1>1, <1>3, <1>4, LatestStep

\* ingestHandler: what the device row shows for a collector is a payload of
\* that collector that the telemetry collection holds, whatever a handler
\* that died, failed or lost the race against its own retry left undone.
THEOREM DeviceRowIsBacked == Spec => []ShownIsStored
<1>1. Init => ShownIsStored
  BY DEF Init, ShownIsStored
<1> QED
  BY <1>1, ShownStep, DeliveryInvariant, PTL DEF Spec

-----------------------------------------------------------------------------
(* The refinement.                                                         *)

\* The bound of the model on the rows is kept.
RowsBounded == Len(log) <= MaxRows

LEMMA RowsStep == TypeOK /\ RowsBounded /\ [Next]_vars => RowsBounded'
<1> SUFFICES ASSUME TypeOK, RowsBounded, [Next]_vars PROVE RowsBounded'
  OBVIOUS
<1>1. log \in Seq(Payload) /\ MaxRows \in Nat
  BY DeliveryAssumption DEF TypeOK, AgentTypes
<1>2. CASE log' = log
  BY <1>2 DEF RowsBounded
<1>3. ASSUME NEW c \in Collectors, Push(c) PROVE RowsBounded'
  <2>1. Len(log) < MaxRows
    BY <1>3 DEF Push
  <2>2. log' \in Seq(Payload) /\ DOMAIN log' = 1..(Len(log) + 1)
    BY <1>3, PushFacts
  <2>3. Len(log') = Len(log) + 1
    BY <1>1, <2>2
  <2> QED
    BY <1>1, <2>1, <2>3 DEF RowsBounded
<1> QED
  BY <1>2, <1>3, StepFrames DEF AgentFrame, agentVars, PushFails, Restart

\* The rows a step finds on the way are the rows that were there.
LEMMA OnTheWayFacts ==
    ASSUME TypeOK
    PROVE  /\ queue \subseteq OnTheWay /\ batch \subseteq OnTheWay
           /\ \A s \in Slots : stage[s] # "free" => item[s] \in OnTheWay
           /\ OnTheWay \subseteq DOMAIN log
BY DEF OnTheWay, TypeOK, AgentTypes, SyncTypes, RequestTypes

\* A step that takes rows from the queue into the batch, and from there into
\* a request, puts nothing on the way.
Carries ==
    /\ queue' \subseteq queue
    /\ batch' \subseteq queue \cup batch
    /\ \A s \in Slots : stage'[s] # "free" =>
          \/ stage[s] # "free" /\ item'[s] = item[s]
          \/ item'[s] \in batch

LEMMA CarriesShrinks == TypeOK /\ Carries => OnTheWay' \subseteq OnTheWay
BY OnTheWayFacts DEF Carries, OnTheWay

\* A handler's step, or the end of a request, leaves the queue and the batch
\* to the agent.
LEMMA HandlerCarries ==
    ASSUME TypeOK, NEW s \in Slots, stage[s] # "free",
           UNCHANGED <<queue, batch, item>>,
           \/ \E status : Reply(s, status)
           \/ \E next : Go(s, next)
    PROVE  Carries
<1>1. \A t \in Slots : stage'[t] # "free" => stage[t] # "free"
  BY DEF Reply, Go, TypeOK, RequestTypes
<1> QED
  BY <1>1 DEF Carries

LEMMA ReleaseCarries ==
    ASSUME TypeOK, NEW s \in Slots, Release(s), queue' = queue, batch' \subseteq batch
    PROVE  Carries
<1>1. \A t \in Slots : stage'[t] # "free" => stage[t] # "free" /\ item'[t] = item[t]
  BY DEF Release, TypeOK, RequestTypes
<1> QED
  BY <1>1 DEF Carries

\* Every step but a push carries rows on, or drops them.
LEMMA StepCarries ==
    ASSUME TypeOK, [Next]_vars
    PROVE  Carries \/ \E c \in Collectors : Push(c)
<1>a. /\ stage \in [Slots -> Stages] /\ item \in [Slots -> Nat]
  BY DEF TypeOK, RequestTypes
<1> USE DEF handlerUnchanged, syncVars, requests, SkipItem, NextItem
<1>1. CASE Tick
  BY <1>1 DEF Tick, Carries
<1>2. CASE Sync
  <2>1. CASE Poll
    <3>1. PopBatch(queue) \subseteq queue
      BY DEF PopBatch
    <3>2. batch' \subseteq queue /\ UNCHANGED <<queue, stage, item>>
      BY <2>1, <3>1 DEF Poll
    <3> QED
      BY <3>2 DEF Carries
  <2>2. CASE DropOversized
    BY <2>2 DEF DropOversized, Carries
  <2>3. CASE Reregister \/ ReregisterRefused
    BY <2>3 DEF Reregister, ReregisterRefused, Carries
  <2>4. CASE EndBatch
    BY <2>4 DEF EndBatch, Carries
  <2>5. CASE MarkSent
    BY <2>5 DEF MarkSent, Carries
  <2>6. ASSUME NEW s \in Slots, Upload(s) PROVE Carries
    <3>1. PICK i \in batch : item' = [item EXCEPT ![s] = i]
      BY <2>6 DEF Upload
    <3>2. stage' = [stage EXCEPT ![s] = "auth"] /\ UNCHANGED <<queue, batch>>
      BY <2>6 DEF Upload
    <3> QED
      BY <1>a, <3>1, <3>2 DEF Carries
  <2>7. ASSUME NEW s \in Slots, Receive(s) PROVE Carries
    <3>1. Release(s) /\ queue' = queue /\ batch' \subseteq batch
      BY <2>7 DEF Receive
    <3> QED
      BY <3>1, ReleaseCarries
  <2> QED
    BY <1>2, <2>1, <2>2, <2>3, <2>4, <2>5, <2>6, <2>7 DEF Sync
<1>3. ASSUME NEW s \in Slots, Ingest(s) PROVE Carries
  <2>1. CASE Auth(s)
    BY <2>1, HandlerCarries DEF Auth
  <2>2. CASE Preflight(s)
    BY <2>2, HandlerCarries DEF Preflight
  <2>3. CASE ClaimLease(s)
    <3>1. (\E status : Reply(s, status)) \/ (\E next : Go(s, next))
      BY <2>3, Zenon DEF ClaimLease
    <3> QED
      BY <2>3, <3>1, HandlerCarries DEF ClaimLease
  <2>4. CASE Archive(s)
    BY <2>4, HandlerCarries DEF Archive
  <2>5. CASE Insert(s)
    BY <2>5, HandlerCarries DEF Insert
  <2>6. CASE Upsert(s)
    BY <2>6, HandlerCarries DEF Upsert
  <2>7. CASE Discard(s)
    BY <2>7, ReleaseCarries DEF Discard
  <2> QED
    BY <1>3, <2>1, <2>2, <2>3, <2>4, <2>5, <2>6, <2>7 DEF Ingest
<1>4. ASSUME NEW c \in Collectors, PushFails(c) PROVE Carries
  BY <1>4 DEF PushFails, Carries
<1>5. ASSUME NEW c \in Collectors, Restart(c) PROVE Carries
  <2>1. queue' \subseteq queue
    BY <1>5, PruneToSubset DEF Restart
  <2>2. batch' \subseteq batch /\ UNCHANGED <<stage, item>>
    BY <1>5 DEF Restart
  <2> QED
    BY <2>1, <2>2 DEF Carries
<1>6. CASE RemoteFailure
  <2>1. CASE UploadFails \/ ReregisterFails \/ MarkSentFails
    BY <2>1 DEF UploadFails, ReregisterFails, MarkSentFails, Carries
  <2>2. CASE KeyRotated \/ DeleteFails
    BY <2>2 DEF KeyRotated, DeleteFails, Carries
  <2>3. CASE ApiRestart
    <3>1. \A s \in Slots : stage'[s] = "free"
      BY <2>3 DEF ApiRestart
    <3>2. queue' = queue /\ batch' \subseteq batch
      BY <2>3 DEF ApiRestart
    <3> QED
      BY <3>1, <3>2 DEF Carries
  <2>4. ASSUME NEW s \in Slots, LoseReply(s) PROVE Carries
    BY <2>4 DEF LoseReply, Carries
  <2>5. ASSUME NEW s \in Slots, ClaimLeaseFails(s) PROVE Carries
    BY <2>5, HandlerCarries DEF ClaimLeaseFails
  <2>6. ASSUME NEW s \in Slots, HandlerFails(s) PROVE Carries
    BY <2>6, HandlerCarries DEF HandlerFails
  <2>7. ASSUME NEW s \in Slots, InsertUnsure(s) PROVE Carries
    BY <2>7, HandlerCarries DEF InsertUnsure
  <2> QED
    BY <1>6, <2>1, <2>2, <2>3, <2>4, <2>5, <2>6, <2>7 DEF RemoteFailure
<1>7. CASE Reinstate \/ UNCHANGED vars
  BY <1>7 DEF Reinstate, vars, Carries
<1> QED
  BY <1>1, <1>2, <1>3, <1>4, <1>5, <1>6, <1>7 DEF Next, Failure, RemoteFailure

LEMMA PromiseInit == Init => Promise!Init
<1> SUFFICES ASSUME Init PROVE Promise!Init
  OBVIOUS
<1>1. telemetry = <<>> /\ log = <<>> /\ queue = {} /\ batch = {}
  BY DEF Init
<1>2. DOMAIN log = {} /\ DOMAIN telemetry = {}
  BY <1>1
<1>3. \A s \in Slots : stage[s] = "free"
  BY DEF Init
<1>4. OnTheWay = {}
  BY <1>1, <1>3 DEF OnTheWay
<1>5. OnTheWay \ StoredIds = {} /\ DOMAIN log \ (OnTheWay \cup StoredIds) = {}
  BY <1>2, <1>4
<1> QED
  BY <1>1, <1>5 DEF Promise!Init

\* A push collects a new payload, at the price of the rows it prunes.
LEMMA PushCollects ==
    ASSUME DeliveryInv, RowsBounded, RowsBounded', NEW c \in Collectors, Push(c)
    PROVE  Promise!Next
<1>1. TypeOK /\ log \in Seq(Payload)
  BY DEF DeliveryInv, TypeOK, AgentTypes
<1>2. /\ OnTheWay \subseteq DOMAIN log /\ StoredIds \subseteq DOMAIN log
      /\ DOMAIN log = 1..Len(log) /\ Len(log) \in Nat
  BY <1>1, OnTheWayFacts DEF DeliveryInv, TypeOK, ServerTypes, StoredIds
<1> DEFINE p == Len(log) + 1
           evicted == ((OnTheWay \ StoredIds) \cup {p}) \ (OnTheWay' \ StoredIds')
<1>3. p \notin DOMAIN log /\ DOMAIN log' = DOMAIN log \cup {p}
  <2>1. DOMAIN log' = 1..(Len(log) + 1)
    BY <1>1, PushFacts
  <2>2. 1..(Len(log) + 1) = (1..Len(log)) \cup {Len(log) + 1}
    BY <1>2
  <2>3. Len(log) + 1 \notin 1..Len(log)
    BY <1>2
  <2> QED
    BY <1>2, <2>1, <2>2, <2>3
<1>4. telemetry' = telemetry /\ StoredIds' = StoredIds
  BY DEF Push, serverVars, StoredIds
<1>5. OnTheWay' \subseteq OnTheWay \cup {p}
  <2>1. queue' \subseteq queue \cup {p}
    BY <1>1, PushFacts
  <2>2. UNCHANGED <<batch, stage, item>>
    BY DEF Push, syncVars, requests
  <2> QED
    BY <2>1, <2>2 DEF OnTheWay
<1>6. DOMAIN log \subseteq 1..MaxRows /\ p \in 1..MaxRows
  <2>1. Len(log) < MaxRows /\ MaxRows \in Nat
    BY DeliveryAssumption DEF Push
  <2> QED
    BY <1>2, <2>1
<1>7. p \in 1..MaxRows /\ evicted \in SUBSET (1..MaxRows)
  BY <1>2, <1>6
<1> HIDE DEF p
<1>8. /\ p \notin (OnTheWay \ StoredIds) \cup StoredIds
                 \cup (DOMAIN log \ (OnTheWay \cup StoredIds))
      /\ evicted \subseteq (OnTheWay \ StoredIds) \cup {p}
      /\ OnTheWay' \ StoredIds' = ((OnTheWay \ StoredIds) \cup {p}) \ evicted
      /\ DOMAIN log' \ (OnTheWay' \cup StoredIds')
           = (DOMAIN log \ (OnTheWay \cup StoredIds)) \cup evicted
  BY <1>2, <1>3, <1>4, <1>5
<1> HIDE DEF evicted
<1>9. Promise!Collect(p, evicted)
  BY <1>4, <1>8 DEF Promise!Collect, Promise!Known, StoredIds
<1> QED
  BY <1>7, <1>9 DEF Promise!Next

\* InsertOne stores a payload that is on the way, or none.
LEMMA InsertStores ==
    ASSUME DeliveryInv, RowsBounded, NEW s \in Slots, Insert(s) \/ InsertUnsure(s)
    PROVE  [Promise!Next]_(Promise!ledger)
<1>1. /\ TypeOK /\ item[s] \in DOMAIN log /\ item[s] \in OnTheWay
      /\ log \in Seq(Payload) /\ telemetry \in Seq(Nat) /\ item[s] \in Nat
  BY OnTheWayFacts DEF DeliveryInv, TypeOK, AgentTypes, RequestTypes, ServerTypes,
                        Insert, InsertUnsure
<1>2. OnTheWay' = OnTheWay /\ log' = log
  <2>1. UNCHANGED <<queue, batch, item, log>>
    BY DEF Insert, InsertUnsure, handlerUnchanged, syncVars, agentVars
  <2>2. \A t \in Slots : stage'[t] # "free" <=> stage[t] # "free"
    BY <1>1 DEF Insert, InsertUnsure, Go, Reply, TypeOK, RequestTypes
  <2> QED
    BY <2>1, <2>2 DEF OnTheWay
<1>3. CASE telemetry' = telemetry
  <2>1. StoredIds' = StoredIds
    BY <1>3 DEF StoredIds
  <2> QED
    BY <1>2, <1>3, <2>1 DEF Promise!ledger
<1>4. CASE telemetry' # telemetry
  <2>2. ~Stored(item[s]) /\ telemetry' = Append(telemetry, item[s])
    BY <1>4 DEF Insert, InsertUnsure
  <2>1. item[s] \notin StoredIds
    BY <1>1, <2>2, StoredIsStored
  <2>3. StoredIds' = StoredIds \cup {item[s]}
    <3>1. /\ DOMAIN telemetry = 1..Len(telemetry) /\ Len(telemetry) \in Nat
          /\ DOMAIN telemetry' = 1..(Len(telemetry) + 1)
          /\ telemetry'[Len(telemetry) + 1] = item[s]
          /\ \A k \in DOMAIN telemetry : telemetry'[k] = telemetry[k]
      BY <1>1, <2>2
    <3>2. \A k \in DOMAIN telemetry' : k \in DOMAIN telemetry \/ k = Len(telemetry) + 1
      BY <3>1
    <3>3. Len(telemetry) + 1 \in DOMAIN telemetry' /\ DOMAIN telemetry \subseteq DOMAIN telemetry'
      BY <3>1
    <3> QED
      BY <3>1, <3>2, <3>3 DEF StoredIds
  <2>4. /\ item[s] \in OnTheWay \ StoredIds
        /\ OnTheWay' \ StoredIds' = (OnTheWay \ StoredIds) \ {item[s]}
        /\ DOMAIN log' \ (OnTheWay' \cup StoredIds')
             = DOMAIN log \ (OnTheWay \cup StoredIds)
    BY <1>1, <1>2, <2>1, <2>3
  <2>5. Promise!Store(item[s])
    BY <2>2, <2>4 DEF Promise!Store
  <2>6. item[s] \in 1..MaxRows
    BY <1>1, DeliveryAssumption DEF RowsBounded
  <2> QED
    BY <2>5, <2>6 DEF Promise!Next
<1> QED
  BY <1>3, <1>4

\* Any other step leaves the ledger alone, or gives up rows it dropped.
LEMMA OthersGiveUp ==
    ASSUME DeliveryInv, RowsBounded, Carries, UNCHANGED <<log, telemetry>>
    PROVE  [Promise!Next]_(Promise!ledger)
<1> DEFINE gone == (OnTheWay \ StoredIds) \ (OnTheWay' \ StoredIds')
<1>1. /\ TypeOK /\ log \in Seq(Payload)
      /\ OnTheWay \subseteq DOMAIN log /\ OnTheWay' \subseteq OnTheWay
  BY OnTheWayFacts, CarriesShrinks DEF DeliveryInv, TypeOK, AgentTypes
<1>2. StoredIds' = StoredIds
  BY DEF StoredIds
<1>3. /\ OnTheWay' \ StoredIds' = (OnTheWay \ StoredIds) \ gone
      /\ DOMAIN log' \ (OnTheWay' \cup StoredIds')
           = (DOMAIN log \ (OnTheWay \cup StoredIds)) \cup gone
      /\ gone \subseteq OnTheWay \ StoredIds
  BY <1>1, <1>2
<1>4. gone \in SUBSET (1..MaxRows)
  BY <1>1, DeliveryAssumption DEF RowsBounded
<1> HIDE DEF gone
<1>5. CASE gone = {}
  <2>1. /\ OnTheWay' \ StoredIds' = OnTheWay \ StoredIds
        /\ DOMAIN log' \ (OnTheWay' \cup StoredIds')
             = DOMAIN log \ (OnTheWay \cup StoredIds)
    BY <1>3, <1>5
  <2> QED
    BY <2>1 DEF Promise!ledger
<1>6. CASE gone # {}
  <2>1. Promise!GiveUp(gone)
    BY <1>3, <1>6 DEF Promise!GiveUp
  <2> QED
    BY <1>4, <2>1 DEF Promise!Next
<1> QED
  BY <1>5, <1>6

LEMMA PromiseStep ==
    ASSUME DeliveryInv, RowsBounded, [Next]_vars
    PROVE  [Promise!Next]_(Promise!ledger)
<1>1. TypeOK /\ RowsBounded'
  BY RowsStep DEF DeliveryInv
<1>2. ASSUME NEW c \in Collectors, Push(c) PROVE Promise!Next
  BY <1>1, <1>2, PushCollects
<1>3. ASSUME NEW s \in Slots, Insert(s) \/ InsertUnsure(s) PROVE [Promise!Next]_(Promise!ledger)
  BY <1>3, InsertStores
<1>4. CASE Carries /\ UNCHANGED <<log, telemetry>>
  BY <1>4, OthersGiveUp
<1>5. CASE Carries /\ ~UNCHANGED <<log, telemetry>>
  <2>1. log' = log \/ \E c \in Collectors : Push(c)
    BY <1>1, StepFrames DEF AgentFrame, agentVars, PushFails, Restart
  <2> QED
    BY <1>1, <1>2, <1>3, <1>5, <2>1, ServerStep
<1> QED
  BY <1>1, <1>2, <1>4, <1>5, StepCarries

\* The queue, syncEngine and ingestHandler together implement the ledger, for
\* any number of processes, rows, concurrent requests and failures: a payload
\* is stored once at most, never after it was given up, and never taken back.
THEOREM DeliveryImplementsLedger == Spec => ImplementsLedger
<1>1. Init => RowsBounded
  <2>1. Init => log = <<>>
    BY DEF Init
  <2>2. Len(<<>>) <= MaxRows
    BY DeliveryAssumption
  <2> QED
    BY <2>1, <2>2 DEF RowsBounded
<1>2. DeliveryInv => TypeOK
  BY DEF DeliveryInv
<1>3. Spec => []RowsBounded
  BY <1>1, <1>2, RowsStep, DeliveryInvariant, PTL DEF Spec
<1> QED
  BY <1>3, PromiseInit, PromiseStep, DeliveryInvariant, PTL
     DEF Spec, ImplementsLedger, Promise!Spec

-----------------------------------------------------------------------------
(* Sums.  The sum over a set is defined by a recursive function on its     *)
(* subsets; what holds of it is proved by a smallest counterexample.       *)

Total(S, l) == MapThenSumSet(LAMBDA j : l[j].bytes, S)
One(s) == CHOOSE x \in s : TRUE

\* g sums up the subsets of S, one element at a time.
Sums(g, S, l) ==
    g = [s \in SUBSET S |-> IF s = {} THEN 0 ELSE l[One(s)].bytes + g[s \ {One(s)}]]

LEMMA TotalIsSum ==
    ASSUME NEW S, NEW l
    PROVE  Total(S, l) = (CHOOSE g : Sums(g, S, l))[S]
BY DEF Total, MapThenSumSet, MapThenFoldSet, One, Sums

LEMMA OneIn == ASSUME NEW s, s # {} PROVE One(s) \in s
BY DEF One

\* Of some sets of elements of a finite set one is minimal.
LEMMA Smallest ==
    ASSUME NEW S, IsFiniteSet(S), NEW D, D \subseteq SUBSET S, D # {}
    PROVE  \E m \in D : \A t \in SUBSET m : t # m => t \notin D
<1>1. IsWellFoundedOn(StrictSubsetOrdering(S), SUBSET S)
  BY FS_StrictSubsetOrderingWellFounded, FS_FiniteSubsetsOfFinite
<1>2. PICK m \in D : \A t \in D : <<t, m>> \notin StrictSubsetOrdering(S)
  BY <1>1, WFMin, Zenon
<1>3. \A t \in SUBSET m : t # m => t \notin D
  <2> SUFFICES ASSUME NEW t \in SUBSET m, t # m, t \in D
               PROVE  FALSE
    OBVIOUS
  <2>1. <<t, m>> \in StrictSubsetOrdering(S)
    BY DEF StrictSubsetOrdering
  <2> QED BY <1>2, <2>1
<1> QED
  BY <1>3

LEMMA SumsValue ==
    ASSUME NEW g, NEW S, NEW l, Sums(g, S, l), NEW s \in SUBSET S
    PROVE  g[s] = IF s = {} THEN 0 ELSE l[One(s)].bytes + g[s \ {One(s)}]
BY DEF Sums

LEMMA SumsAgree ==
    ASSUME NEW S, NEW T, IsFiniteSet(S), NEW l, NEW g, NEW h, Sums(g, S, l), Sums(h, T, l), S \subseteq T
    PROVE  \A s \in SUBSET S : g[s] = h[s]
<1> DEFINE D == {s \in SUBSET S : g[s] # h[s]}
<1> SUFFICES ASSUME D # {} PROVE FALSE
  OBVIOUS
<1>1. PICK m \in D : \A t \in SUBSET m : t # m => t \notin D
  <2>1. D \subseteq SUBSET S
    OBVIOUS
  <2> HIDE DEF D
  <2> QED BY <2>1, Smallest
<1>2. m \in SUBSET S /\ m \in SUBSET T
  BY <1>1
<1>3. CASE m = {}
  BY <1>1, <1>2, <1>3, SumsValue
<1>4. CASE m # {}
  <2> DEFINE t == m \ {One(m)}
  <2>1. t \in SUBSET m /\ t # m
    BY <1>4, OneIn
  <2>2. g[t] = h[t]
    BY <1>1, <1>2, <2>1
  <2>3. g[m] = l[One(m)].bytes + g[t] /\ h[m] = l[One(m)].bytes + h[t]
    BY <1>2, <1>4, SumsValue
  <2> QED BY <1>1, <2>2, <2>3
<1> QED
  BY <1>3, <1>4

LEMMA SumsRestricted ==
    ASSUME NEW g, NEW S, NEW T, NEW l, Sums(g, T, l), S \subseteq T
    PROVE  Sums([s \in SUBSET S |-> g[s]], S, l)
<1> DEFINE h == [s \in SUBSET S |-> g[s]]
<1>1. \A s \in SUBSET S : h[s] = IF s = {} THEN 0 ELSE l[One(s)].bytes + h[s \ {One(s)}]
  <2> SUFFICES ASSUME NEW s \in SUBSET S
               PROVE  h[s] = IF s = {} THEN 0 ELSE l[One(s)].bytes + h[s \ {One(s)}]
    OBVIOUS
  <2>1. g[s] = IF s = {} THEN 0 ELSE l[One(s)].bytes + g[s \ {One(s)}]
    BY SumsValue
  <2>2. s \ {One(s)} \in SUBSET S
    OBVIOUS
  <2> QED BY <2>1, <2>2
<1> QED
  BY <1>1 DEF Sums

LEMMA SumsExist ==
    ASSUME NEW S, IsFiniteSet(S), NEW l
    PROVE  \E g : Sums(g, S, l)
<1> DEFINE D == {U \in SUBSET S : ~\E g : Sums(g, U, l)}
<1> SUFFICES ASSUME D # {} PROVE FALSE
  OBVIOUS
<1>1. PICK U \in D : \A V \in SUBSET U : V # U => V \notin D
  <2>1. D \subseteq SUBSET S
    OBVIOUS
  <2> HIDE DEF D
  <2> QED BY <2>1, Smallest
<1> DEFINE G(V) == CHOOSE g : Sums(g, V, l)
           h == [s \in SUBSET U |-> IF s = {} THEN 0 ELSE l[One(s)].bytes + G(s \ {One(s)})[s \ {One(s)}]]
<1>2. ASSUME NEW V \in SUBSET U, V # U
      PROVE  Sums(G(V), V, l) /\ IsFiniteSet(V)
  <2>1. \E g : Sums(g, V, l)
    BY <1>1, <1>2
  <2>2. IsFiniteSet(V)
    BY <1>1, <1>2, FS_Subset
  <2> QED BY <2>1, <2>2
<1>3. ASSUME NEW V \in SUBSET U, V # U
      PROVE  h[V] = G(V)[V]
  <2> DEFINE W == V \ {One(V)}
  <2>1. G(V)[V] = IF V = {} THEN 0 ELSE l[One(V)].bytes + G(V)[W]
    <3>1. Sums(G(V), V, l)
      BY <1>2, <1>3
    <3> HIDE DEF G
    <3> QED BY <3>1, SumsValue
  <2>2. G(V)[W] = G(W)[W]
    <3>1. W \in SUBSET U /\ W # U /\ W \subseteq V
      BY <1>3
    <3>2. Sums(G(V), V, l) /\ Sums(G(W), W, l) /\ IsFiniteSet(W)
      BY <1>2, <1>3, <3>1
    <3> HIDE DEF G, W
    <3> QED BY <3>1, <3>2, SumsAgree
  <2>3. h[V] = IF V = {} THEN 0 ELSE l[One(V)].bytes + G(W)[W]
    <3> HIDE DEF G
    <3> QED OBVIOUS
  <2> QED BY <2>1, <2>2, <2>3
<1>4. \A s \in SUBSET U : h[s] = IF s = {} THEN 0 ELSE l[One(s)].bytes + h[s \ {One(s)}]
  <2> SUFFICES ASSUME NEW s \in SUBSET U, s # {}
               PROVE  h[s] = l[One(s)].bytes + h[s \ {One(s)}]
    <3> HIDE DEF G
    <3> QED OBVIOUS
  <2>1. s \ {One(s)} \in SUBSET U /\ s \ {One(s)} # U
    BY OneIn
  <2>2. h[s \ {One(s)}] = G(s \ {One(s)})[s \ {One(s)}]
    <3> HIDE DEF G, h
    <3> QED BY <1>3, <2>1
  <2>3. h[s] = l[One(s)].bytes + G(s \ {One(s)})[s \ {One(s)}]
    <3> HIDE DEF G
    <3> QED OBVIOUS
  <2> QED BY <2>2, <2>3
<1>5. h = [s \in SUBSET U |-> h[s]]
  <2> HIDE DEF G
  <2> QED OBVIOUS
<1> HIDE DEF h
<1>6. Sums(h, U, l)
  BY <1>4, <1>5 DEF Sums
<1> QED
  BY <1>1, <1>6

\* A set can be summed up one element at a time ...
LEMMA TotalStep ==
    ASSUME NEW S, IsFiniteSet(S), NEW l
    PROVE  Total(S, l) = IF S = {} THEN 0 ELSE l[One(S)].bytes + Total(S \ {One(S)}, l)
<1> DEFINE T == S \ {One(S)}
           g == CHOOSE f : Sums(f, S, l)
           h == CHOOSE f : Sums(f, T, l)
<1>1. IsFiniteSet(T)
  BY FS_Subset
<1>2. Sums(g, S, l) /\ Sums(h, T, l)
  BY <1>1, SumsExist
<1>3. Total(S, l) = g[S] /\ Total(T, l) = h[T]
  BY TotalIsSum
<1> HIDE DEF g, h
<1>4. h[T] = g[T]
  <2>1. T \subseteq S
    OBVIOUS
  <2> HIDE DEF T
  <2>2. ASSUME NEW k, NEW m, Sums(k, S, l), Sums(m, T, l)
        PROVE  m[T] = k[T]
    BY <1>1, <2>1, <2>2, SumsAgree
  <2> QED BY <1>2, <2>2
<1>5. g[S] = IF S = {} THEN 0 ELSE l[One(S)].bytes + g[T]
  BY <1>2, SumsValue
<1> QED
  BY <1>3, <1>4, <1>5

LEMMA TotalNat ==
    ASSUME NEW S, IsFiniteSet(S), NEW l, \A x \in S : l[x].bytes \in Nat
    PROVE  Total(S, l) \in Nat
<1> DEFINE D == {U \in SUBSET S : Total(U, l) \notin Nat}
<1> SUFFICES ASSUME D # {} PROVE FALSE
  OBVIOUS
<1>1. PICK U \in D : \A V \in SUBSET U : V # U => V \notin D
  <2>1. D \subseteq SUBSET S
    OBVIOUS
  <2> HIDE DEF D
  <2> QED BY <2>1, Smallest
<1>2. U \subseteq S /\ Total(U, l) \notin Nat /\ IsFiniteSet(U)
  BY <1>1, FS_Subset
<1>3. CASE U = {}
  BY <1>2, <1>3, TotalStep
<1>4. CASE U # {}
  <2> DEFINE V == U \ {One(U)}
  <2>1. One(U) \in U /\ V \in SUBSET U /\ V # U
    BY <1>4, OneIn
  <2>2. Total(V, l) \in Nat
    BY <1>1, <1>2, <2>1
  <2>3. Total(U, l) = l[One(U)].bytes + Total(V, l)
    BY <1>2, <1>4, TotalStep
  <2> HIDE DEF V
  <2> QED BY <1>2, <2>1, <2>2, <2>3
<1> QED
  BY <1>3, <1>4

\* ... starting with any of them ...
LEMMA TotalRemove ==
    ASSUME NEW S, IsFiniteSet(S), NEW l, \A x \in S : l[x].bytes \in Nat, NEW x \in S
    PROVE  Total(S, l) = l[x].bytes + Total(S \ {x}, l)
<1> DEFINE Bad(U) == \E y \in U : Total(U, l) # l[y].bytes + Total(U \ {y}, l)
           D == {U \in SUBSET S : Bad(U)}
<1> SUFFICES ASSUME D # {} PROVE FALSE
  OBVIOUS
<1>1. PICK U \in D : \A V \in SUBSET U : V # U => V \notin D
  <2>1. D \subseteq SUBSET S
    OBVIOUS
  <2> HIDE DEF D
  <2> QED BY <2>1, Smallest
<1>2. PICK y \in U : Total(U, l) # l[y].bytes + Total(U \ {y}, l)
  BY <1>1
<1> DEFINE c == One(U)
<1>3. U \subseteq S /\ IsFiniteSet(U) /\ c \in U
  BY <1>1, <1>2, OneIn, FS_Subset
<1>4. Total(U, l) = l[c].bytes + Total(U \ {c}, l)
  BY <1>2, <1>3, TotalStep
<1> HIDE DEF c
<1>5. c # y
  BY <1>2, <1>4
<1>6. ~Bad(U \ {c}) /\ ~Bad(U \ {y})
  <2>1. U \ {c} \in SUBSET U /\ U \ {c} # U /\ U \ {y} \in SUBSET U /\ U \ {y} # U
    BY <1>2, <1>3
  <2> QED BY <1>1, <1>3, <2>1
<1> DEFINE rest == U \ {c, y}
<1>7. Total(U \ {c}, l) = l[y].bytes + Total(rest, l)
  <2>1. y \in U \ {c} /\ (U \ {c}) \ {y} = rest
    BY <1>2, <1>5
  <2> HIDE DEF rest
  <2> QED BY <1>6, <2>1
<1>8. Total(U \ {y}, l) = l[c].bytes + Total(rest, l)
  <2>1. c \in U \ {y} /\ (U \ {y}) \ {c} = rest
    BY <1>3, <1>5
  <2> HIDE DEF rest
  <2> QED BY <1>6, <2>1
<1>9. l[c].bytes \in Nat /\ l[y].bytes \in Nat /\ Total(rest, l) \in Nat
  <2>1. IsFiniteSet(rest)
    BY <1>3, FS_Subset
  <2>2. \A z \in rest : l[z].bytes \in Nat
    BY <1>3
  <2> QED BY <1>2, <1>3, <2>1, <2>2, TotalNat
<1> HIDE DEF rest
<1> QED
  BY <1>2, <1>4, <1>7, <1>8, <1>9

\* ... so that a part sums up to no more than the whole.
LEMMA TotalPart ==
    ASSUME NEW S, IsFiniteSet(S), NEW l, \A x \in S : l[x].bytes \in Nat, NEW T \in SUBSET S
    PROVE  Total(T, l) <= Total(S, l)
<1> DEFINE D == {U \in SUBSET S : T \subseteq U /\ ~(Total(T, l) <= Total(U, l))}
<1> SUFFICES ASSUME D # {} PROVE FALSE
  OBVIOUS
<1>1. PICK U \in D : \A V \in SUBSET U : V # U => V \notin D
  <2>1. D \subseteq SUBSET S
    OBVIOUS
  <2> HIDE DEF D
  <2> QED BY <2>1, Smallest
<1>2. U \subseteq S /\ T \subseteq U /\ ~(Total(T, l) <= Total(U, l)) /\ IsFiniteSet(U) /\ IsFiniteSet(T)
  BY <1>1, FS_Subset
<1>3. Total(T, l) \in Nat
  BY <1>2, TotalNat
<1>4. PICK x \in U : x \notin T
  <2>1. Total(T, l) <= Total(T, l)
    BY <1>3
  <2>2. T # U
    BY <1>2, <2>1
  <2> QED BY <1>2, <2>2
<1>5. Total(T, l) <= Total(U \ {x}, l)
  <2>1. U \ {x} \in SUBSET U /\ U \ {x} # U /\ T \subseteq U \ {x} /\ U \ {x} \in SUBSET S
    BY <1>2, <1>4
  <2> QED BY <1>1, <2>1
<1>6. Total(U, l) = l[x].bytes + Total(U \ {x}, l)
  BY <1>2, <1>4, TotalRemove
<1>7. l[x].bytes \in Nat /\ Total(U \ {x}, l) \in Nat
  <2>1. IsFiniteSet(U \ {x})
    BY <1>2, FS_Subset
  <2> QED BY <1>2, <1>4, <2>1, TotalNat
<1> QED
  BY <1>2, <1>3, <1>5, <1>6, <1>7

-----------------------------------------------------------------------------
(* The prune.                                                              *)

\* The rows are in the order of their times.
LogOrdered ==
    /\ \A i \in DOMAIN log : log[i].at <= now
    /\ \A i, j \in DOMAIN log : i <= j => log[i].at <= log[j].at

LEMMA OrderedStep == TypeOK /\ LogOrdered /\ [Next]_vars => LogOrdered'
<1> SUFFICES ASSUME TypeOK, LogOrdered, [Next]_vars PROVE LogOrdered'
  OBVIOUS
<1>1. now \in Nat /\ \A i \in DOMAIN log : log[i].at \in Nat
  <2>1. now \in Nat /\ log \in Seq(Payload)
    BY DEF TypeOK, AgentTypes
  <2>2. \A i \in DOMAIN log : log[i] \in Payload
    BY <2>1
  <2> QED BY <2>1, <2>2 DEF Payload
<1>2. ASSUME log' = log, now' \in Nat, now' >= now PROVE LogOrdered'
  BY <1>1, <1>2 DEF LogOrdered
<1>3. ASSUME NEW c \in Collectors, Push(c) PROVE LogOrdered'
  <2>1. PICK b \in Sizes : log' = Append(log, [src |-> c, event |-> EventId(c), bytes |-> b, at |-> now])
    BY <1>3 DEF Push
  <2>2. log \in Seq(Payload)
    BY DEF TypeOK, AgentTypes
  <2>3. /\ DOMAIN log = 1..Len(log) /\ DOMAIN log' = 1..(Len(log) + 1) /\ Len(log) \in Nat
        /\ log'[Len(log) + 1].at = now
        /\ \A i \in DOMAIN log : log'[i] = log[i]
    BY <2>1, <2>2
  <2>4. now' = now
    BY <1>3 DEF Push
  <2>5. \A i \in DOMAIN log' : log'[i].at <= now
    BY <1>1, <2>3 DEF LogOrdered
  <2>6. \A i, j \in DOMAIN log' : i <= j => log'[i].at <= log'[j].at
    <3> SUFFICES ASSUME NEW i \in DOMAIN log', NEW j \in DOMAIN log', i <= j
                 PROVE  log'[i].at <= log'[j].at
      OBVIOUS
    <3>1. CASE j = Len(log) + 1
      BY <2>3, <2>5, <3>1
    <3>2. CASE j # Len(log) + 1
      BY <2>3, <3>2 DEF LogOrdered
    <3> QED BY <3>1, <3>2
  <2> QED BY <2>4, <2>5, <2>6 DEF LogOrdered
<1>4. CASE AgentFrame
  BY <1>2, <1>4 DEF AgentFrame, agentVars
<1>5. ASSUME NEW c \in Collectors, PushFails(c) \/ Restart(c) PROVE LogOrdered'
  <2>1. log' = log /\ now' = now
    BY <1>5 DEF PushFails, Restart
  <2> QED BY <1>1, <1>2, <2>1
<1> QED
  BY <1>3, <1>4, <1>5, StepFrames

\* Of rows in the order of their times PruneTo deletes only those that are
\* older than all it keeps.
LEMMA PruneOldest ==
    ASSUME NEW l \in Seq(Payload), now \in Nat,
           \A i, j \in DOMAIN l : i <= j => l[i].at <= l[j].at,
           NEW q \in SUBSET DOMAIN l,
           NEW i \in q, i \notin PruneTo(q, l), NEW j \in PruneTo(q, l)
    PROVE  j > i
<1> SUFFICES ASSUME j <= i PROVE FALSE
  BY PruneToSubset
<1> DEFINE young == {k \in q : l[k].at >= now - QueueMaxAge}
           from(k) == {m \in young : m >= k}
<1>1. /\ j \in young /\ BytesFrom(young, j, l) <= QueueMaxBytes
      /\ i \in young => ~(BytesFrom(young, i, l) <= QueueMaxBytes)
  BY DEF PruneTo
<1>2. DOMAIN l = 1..Len(l) /\ Len(l) \in Nat /\ i \in DOMAIN l /\ j \in DOMAIN l
  BY <1>1
<1>3. \A k \in DOMAIN l : l[k].at \in Nat /\ l[k].bytes \in Nat
  <2>1. \A k \in DOMAIN l : l[k] \in Payload
    OBVIOUS
  <2> QED BY <2>1, DeliveryAssumption DEF Payload
<1>4. i \in young
  <2>1. l[j].at >= now - QueueMaxAge /\ l[j].at <= l[i].at /\ QueueMaxAge \in Nat
    BY <1>1, <1>2, DeliveryAssumption
  <2>2. l[i].at \in Nat /\ l[j].at \in Nat
    BY <1>2, <1>3
  <2>3. l[i].at >= now - QueueMaxAge
    BY <2>1, <2>2
  <2> QED BY <2>3
<1>5. BytesFrom(young, i, l) = Total(from(i), l) /\ BytesFrom(young, j, l) = Total(from(j), l)
  BY DEF BytesFrom, Total
<1>6. /\ from(i) \in SUBSET from(j) /\ IsFiniteSet(from(i)) /\ IsFiniteSet(from(j))
      /\ \A k \in from(j) : l[k].bytes \in Nat
  <2>1. young \subseteq 1..Len(l)
    BY <1>2
  <2> HIDE DEF young
  <2>2. from(i) \subseteq from(j)
    <3> SUFFICES ASSUME NEW k \in young, k >= i
                 PROVE  k >= j
      OBVIOUS
    <3>1. k \in Nat /\ i \in Nat /\ j \in Nat
      BY <1>2, <2>1
    <3> QED BY <3>1
  <2>3. from(i) \subseteq 1..Len(l) /\ from(j) \subseteq 1..Len(l)
    BY <2>1
  <2>4. IsFiniteSet(1..Len(l))
    BY <1>2, FS_Interval
  <2> HIDE DEF from
  <2> QED BY <1>2, <1>3, <2>2, <2>3, <2>4, FS_Subset
<1> HIDE DEF from, young
<1>7. Total(from(i), l) <= Total(from(j), l)
  BY <1>6, TotalPart
<1>8. Total(from(i), l) \in Nat /\ Total(from(j), l) \in Nat
  BY <1>6, TotalNat
<1> QED
  BY <1>1, <1>4, <1>5, <1>7, <1>8, DeliveryAssumption

LEMMA PruneStep ==
    ASSUME TypeOK, LogOrdered, LogOrdered', [Next]_vars,
           NEW i \in queue \ queue', i \in pruned' \ pruned, NEW j \in queue'
    PROVE  j > i
<1>1. /\ now \in Nat /\ log \in Seq(Payload) /\ queue \subseteq DOMAIN log
  BY DEF TypeOK, AgentTypes
<1>2. CASE AgentFrame
  BY <1>2 DEF AgentFrame, agentVars
<1>3. ASSUME NEW c \in Collectors, PushFails(c) PROVE FALSE
  BY <1>3 DEF PushFails
<1>4. ASSUME NEW c \in Collectors, Restart(c) PROVE j > i
  <2>1. queue' = PruneTo(queue, log)
    BY <1>4 DEF Restart
  <2> QED BY <1>1, <2>1, PruneOldest DEF LogOrdered
<1>5. ASSUME NEW c \in Collectors, Push(c) PROVE j > i
  <2> DEFINE q == queue \cup {Len(log')}
  <2>1. queue' = q \/ queue' = PruneTo(q, log')
    BY <1>5 DEF Push
  <2>2. log' \in Seq(Payload) /\ DOMAIN log \subseteq DOMAIN log' /\ DOMAIN log' = 1..(Len(log) + 1)
    BY <1>5, PushFacts
  <2>3. q \in SUBSET DOMAIN log' /\ i \in q
    <3>1. Len(log') = Len(log) + 1 /\ Len(log) \in Nat
      BY <1>1, <2>2
    <3> QED BY <1>1, <2>2, <3>1
  <2>4. queue' = PruneTo(q, log')
    BY <2>1, <2>3
  <2>5. \A m, n \in DOMAIN log' : m <= n => log'[m].at <= log'[n].at
    BY DEF LogOrdered
  <2> HIDE DEF q
  <2> QED BY <1>1, <2>2, <2>3, <2>4, <2>5, PruneOldest
<1> QED
  BY <1>2, <1>3, <1>4, <1>5, StepFrames

\* pruneTo sacrifices the oldest rows: no row is deleted by it while an older
\* one of the queue is kept, whatever the sizes, the ages and the cap.
THEOREM PruneSparesTheNewest == Spec => PruneKeepsNewest
<1>1. Init => LogOrdered
  BY DEF Init, LogOrdered
<1>2. DeliveryInv => TypeOK
  BY DEF DeliveryInv
<1>3. TypeOK /\ LogOrdered /\ LogOrdered' /\ [Next]_vars
        => [\A i \in queue \ queue' :
              i \in pruned' \ pruned => \A j \in queue' : j > i]_<<queue, pruned>>
  BY PruneStep
<1>4. Spec => []LogOrdered
  BY <1>1, <1>2, OrderedStep, DeliveryInvariant, PTL DEF Spec
<1> QED
  BY <1>2, <1>3, <1>4, DeliveryInvariant, PTL DEF Spec, PruneKeepsNewest
=============================================================================
