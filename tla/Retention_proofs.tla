-------------------------- MODULE Retention_proofs --------------------------
(***************************************************************************)
(* Proofs about the retention of telemetry, for any number of events,      *)
(* changes of the policy, sweeps, failures and restarts, and any bounds of *)
(* the retention: when a history can be read, that an accepted policy      *)
(* survives a restart, and how far apart the full snapshots are.           *)
(***************************************************************************)
EXTENDS Retention, TLAPS

LEMMA Constants ==
    /\ MinDays \in Nat /\ MaxDays \in Nat /\ DefaultDays \in Nat
    /\ SafetyFloor \in Nat /\ Every \in Nat
    /\ MaxTime \in Nat /\ MaxRequests \in Nat /\ MaxFaults \in Nat
    /\ 0 < MinDays /\ MinDays <= DefaultDays /\ DefaultDays <= MaxDays
    /\ NaN \notin Nat /\ Never \notin Nat
BY RetentionAssumption

(* The policy. *)

\* Whatever is posted is clamped to a retention that is admitted.
LEMMA ClampBounds ==
    ASSUME NEW v \in Int \cup {NaN}
    PROVE  clampNumber(v) \in MinDays .. MaxDays
BY Constants DEF clampNumber

LEMMA NormalizeTyped ==
    ASSUME NEW p, p.days \in Int \cup {NaN}
    PROVE  normalizePolicy(p) \in Policies
BY ClampBounds DEF normalizePolicy, Policies, Modes

\* A policy that was saved is read back as it was.
LEMMA NormalizeKeeps ==
    ASSUME NEW p \in Policies
    PROVE  normalizePolicy(p) = p
<1>1. p.days \in MinDays .. MaxDays /\ p.mode \in Modes /\ p = [days |-> p.days, mode |-> p.mode]
  BY DEF Policies
<1>2. clampNumber(p.days) = p.days
  BY <1>1, Constants DEF clampNumber
<1> QED
  BY <1>1, <1>2 DEF normalizePolicy

LEMMA DefaultTyped == defaultPolicy \in Policies
BY Constants DEF defaultPolicy, Policies, Modes

LEMMA MergeTyped ==
    ASSUME config \in Policies, NEW new \in Requests
    PROVE  normalizePolicy(Merge(new)) \in Policies
<1>1. DOMAIN config = {"days", "mode"} /\ config.days \in MinDays .. MaxDays
  BY DEF Policies
<1>2. Merge(new).days \in Int \cup {NaN}
  <2>1. Merge(new).days = IF "days" \in DOMAIN new THEN new.days ELSE config.days
    BY <1>1 DEF Merge
  <2>2. config.days \in Int
    BY <1>1, Constants
  <2> QED
    BY <2>1, <2>2, RetentionAssumption
<1> QED
  BY <1>2, NormalizeTyped

(* Types. *)

Ingests ==
    [pc : {"archive", "store", "insert"}, event : Events, at : 0 .. MaxTime,
     days : MinDays .. MaxDays, n : 0 .. MaxRequests,
     kind : {"none", "archived", "snapshot", "slim"}]
Docs ==
    [event : Events, at : 0 .. MaxTime, days : MinDays .. MaxDays,
     kind : {"archived", "snapshot", "slim"}, object : 0 .. MaxRequests \cup {None}]
Objects == [id : 0 .. MaxRequests, modified : 0 .. MaxTime]
Fulls == [key : Keys, at : 0 .. MaxTime]
Sweeps == [cutoff : Int, days : SafetyFloor .. MaxDays]
Removals == [id : 0 .. MaxRequests, days : SafetyFloor .. MaxDays]

PolicyTyped ==
    /\ config \in Policies /\ accepted \in Policies /\ stored \in Policies \cup {None}
    /\ saves \subseteq [n : 0 .. MaxRequests, policy : Policies] /\ doubt \in BOOLEAN
CountsTyped ==
    /\ now \in 0 .. MaxTime /\ faults \in 0 .. MaxFaults /\ archiving \in BOOLEAN
    /\ attempts \in Nat /\ changes \in Nat /\ attempts + changes <= MaxRequests
ReqTyped ==
    /\ req \in [Slots -> Ingests \cup {Free}]
    /\ \A s \in Slots : req[s] # Free =>
        /\ req[s].at <= now
        /\ req[s].pc = "insert" <=> req[s].kind # "none"
StoresTyped ==
    /\ objects \subseteq Objects
    /\ docs \subseteq Docs /\ \A doc \in docs : doc.at <= now
SnapshotsTyped ==
    /\ last \in [Keys -> 0 .. MaxTime \cup {Never}]
    /\ taken \cup wasted \subseteq Fulls
SweepTyped ==
    /\ sweep # None => sweep \in Sweeps
    /\ removed \subseteq Removals

TypeInv ==
    PolicyTyped /\ CountsTyped /\ ReqTyped /\ StoresTyped /\ SnapshotsTyped /\ SweepTyped

LEMMA TypeInvOK == TypeInv => TypeOK
<1> SUFFICES ASSUME TypeInv PROVE TypeOK
  OBVIOUS
<1>1. /\ now \in 0 .. MaxTime /\ faults \in 0 .. MaxFaults /\ archiving \in BOOLEAN
      /\ config \in Policies /\ accepted \in Policies /\ stored \in Policies \cup {None}
      /\ saves \subseteq [n : 0 .. MaxRequests, policy : Policies] /\ doubt \in BOOLEAN
  BY DEF TypeInv, PolicyTyped, CountsTyped
<1>2. \A s \in Slots :
        req[s] = Free \/ (req[s].event \in Events /\ req[s].days \in MinDays .. MaxDays)
  BY DEF TypeInv, ReqTyped, Ingests
<1>3. /\ last \in [Keys -> 0 .. MaxTime \cup {Never}]
      /\ taken \cup wasted \subseteq [key : Keys, at : 0 .. MaxTime]
  BY DEF TypeInv, SnapshotsTyped, Fulls
<1>4. /\ objects \subseteq [id : 0 .. MaxRequests, modified : 0 .. MaxTime]
      /\ docs \subseteq [event : Events, at : 0 .. MaxTime, days : MinDays .. MaxDays,
                         kind : {"archived", "snapshot", "slim"},
                         object : 0 .. MaxRequests \cup {None}]
  BY DEF TypeInv, StoresTyped, Objects, Docs
<1>5. /\ sweep = None \/ sweep.days \in SafetyFloor .. MaxDays
      /\ removed \subseteq [id : 0 .. MaxRequests, days : SafetyFloor .. MaxDays]
  BY DEF TypeInv, SweepTyped, Sweeps, Removals
<1> QED
  BY <1>1, <1>2, <1>3, <1>4, <1>5 DEF TypeOK

\* The request in slot s goes on, or a slot is emptied.
LEMMA SlotTyped ==
    ASSUME ReqTyped, NEW s \in Slots, NEW x \in Ingests \cup {Free},
           x # Free => x.at <= now /\ (x.pc = "insert" <=> x.kind # "none"),
           req' = [req EXCEPT ![s] = x], now' = now
    PROVE  ReqTyped' /\ req'[s] = x /\ \A o \in Slots : o # s => req'[o] = req[o]
BY DEF ReqTyped

LEMMA FreeApart == \A r \in Ingests : r # Free /\ r.pc # "idle"
BY DEF Ingests, Free

\* The slot that a handler empties.
LEMMA SlotFreed ==
    ASSUME ReqTyped, NEW s \in Slots, req' = [req EXCEPT ![s] = Free], now' = now
    PROVE  ReqTyped' /\ req'[s] = Free /\ \A o \in Slots : o # s => req'[o] = req[o]
<1> HIDE DEF Free
<1> QED
  BY SlotTyped

\* A slot with a step to take holds an ingest.
LEMMA AtWork ==
    ASSUME TypeInv, NEW s \in Slots, NEW pc \in {"archive", "store", "insert"},
           req[s].pc = pc
    PROVE  req[s] \in Ingests /\ req[s] # Free
BY DEF TypeInv, ReqTyped, Free

(* The types, action by action. *)

LEMMA TypeInit == Init => TypeInv
<1> SUFFICES ASSUME Init PROVE TypeInv
  OBVIOUS
<1>1. PolicyTyped
  BY DefaultTyped DEF Init, PolicyTyped
<1>2. CountsTyped
  BY Constants DEF Init, CountsTyped
<1>3. ReqTyped /\ StoresTyped /\ SnapshotsTyped /\ SweepTyped
  BY DEF Init, ReqTyped, StoresTyped, SnapshotsTyped, SweepTyped
<1> QED
  BY <1>1, <1>2, <1>3 DEF TypeInv

LEMMA PolicyStep == TypeInv /\ [Next]_vars => PolicyTyped'
<1> SUFFICES ASSUME TypeInv, [Next]_vars PROVE PolicyTyped'
  OBVIOUS
<1>0. PolicyTyped /\ CountsTyped
  BY DEF TypeInv
<1>1. CASE UNCHANGED <<config, stored, saves, accepted, doubt>>
  BY <1>0, <1>1 DEF PolicyTyped
<1>2. ASSUME NEW new \in Requests, policyHandler(new) PROVE PolicyTyped'
  <2>1. normalizePolicy(Merge(new)) \in Policies
    BY <1>0, MergeTyped DEF PolicyTyped
  <2>2. changes \in 0 .. MaxRequests
    BY <1>0, Constants DEF CountsTyped
  <2>3. PICK p \in Policies : /\ config' = p /\ accepted' = p /\ stored' = stored
                              /\ saves' = saves \cup {[n |-> changes, policy |-> p]}
    BY <1>2, <2>1 DEF policyHandler, Saved
  <2>4. doubt' \in BOOLEAN
    BY <1>2 DEF policyHandler
  <2> QED
    BY <1>0, <2>2, <2>3, <2>4 DEF PolicyTyped
<1>3. ASSUME NEW g \in saves, savePolicyToMongo(g) \/ SaveFails(g) PROVE PolicyTyped'
  BY <1>0, <1>3 DEF savePolicyToMongo, SaveFails, PolicyTyped
<1>4. ASSUME NEW found \in BOOLEAN, Restart(found) PROVE PolicyTyped'
  <2>1. config' \in Policies
    <3>1. CASE found /\ stored # None
      BY <1>0, <1>4, <3>1, NormalizeKeeps DEF Restart, loadPolicyFromMongo, PolicyTyped
    <3>2. CASE ~(found /\ stored # None)
      BY <1>4, <3>2, DefaultTyped DEF Restart, loadPolicyFromMongo
    <3> QED
      BY <3>1, <3>2
  <2>2. saves' = {} /\ stored' = stored /\ accepted' = accepted /\ doubt' \in BOOLEAN
    BY <1>0, <1>4 DEF Restart, PolicyTyped
  <2> QED
    BY <1>0, <2>1, <2>2 DEF PolicyTyped
<1>5. ASSUME NEW s \in Slots,
             (\E e \in Events : BeginIngest(s, e))
             \/ Archive(s) \/ telemetryDocForStorage(s) \/ InsertOne(s) \/ IngestFails(s)
      PROVE  UNCHANGED policyVars
  BY <1>5 DEF BeginIngest, Archive, telemetryDocForStorage, InsertOne, IngestFails
<1>6. ASSUME (\E doc \in docs : ExpireDoc(doc)) \/ startRetentionSweep
             \/ (\E o \in objects : sweepS3Prefix(o)) \/ SweepDone \/ SweepFails \/ Tick
      PROVE  UNCHANGED policyVars
  BY <1>6 DEF ExpireDoc, startRetentionSweep, sweepS3Prefix, SweepDone, SweepFails, Tick
<1>7. CASE UNCHANGED policyVars
  BY <1>1, <1>7 DEF policyVars
<1>8. CASE UNCHANGED vars
  BY <1>7, <1>8 DEF vars
<1> QED
  BY <1>2, <1>3, <1>4, <1>5, <1>6, <1>7, <1>8 DEF Next

LEMMA CountsStep == TypeInv /\ [Next]_vars => CountsTyped' /\ now <= now'
<1> SUFFICES ASSUME TypeInv, [Next]_vars PROVE CountsTyped' /\ now <= now'
  OBVIOUS
<1>0. CountsTyped
  BY DEF TypeInv
<1>1. /\ now' = now \/ (now < MaxTime /\ now' = now + 1)
      /\ faults' = faults \/ (faults < MaxFaults /\ faults' = faults + 1)
      /\ archiving' = archiving
      /\ \/ attempts' = attempts /\ changes' = changes
         \/ attempts + changes < MaxRequests /\ attempts' = attempts + 1 /\ changes' = changes
         \/ attempts + changes < MaxRequests /\ attempts' = attempts /\ changes' = changes + 1
  BY DEF Next, policyHandler, savePolicyToMongo, SaveFails, BeginIngest, Archive,
         telemetryDocForStorage, InsertOne, IngestFails, ExpireDoc, startRetentionSweep,
         sweepS3Prefix, SweepDone, SweepFails, Restart, Tick, Budget, Fault, vars,
         policyVars, ingestVars, sweepVars
<1> QED
  BY <1>0, <1>1, Constants DEF CountsTyped

LEMMA ReqStep == TypeInv /\ [Next]_vars => ReqTyped'
<1> SUFFICES ASSUME TypeInv, [Next]_vars PROVE ReqTyped'
  OBVIOUS
<1>0. ReqTyped /\ CountsTyped /\ config \in Policies
  BY DEF TypeInv, PolicyTyped
<1>1. CASE req' = req
  <2>1. now \in Int /\ now' \in Int /\ now <= now'
    BY CountsStep DEF CountsTyped, TypeInv
  <2>2. \A s \in Slots : req[s] # Free => req[s].at \in Int
    BY <1>0 DEF ReqTyped, Ingests
  <2> QED
    BY <1>0, <1>1, <2>1, <2>2 DEF ReqTyped
<1>2. ASSUME NEW s \in Slots, NEW e \in Events, BeginIngest(s, e) PROVE ReqTyped'
  <2>1. PICK x : x = [pc |-> IF archiving THEN "archive" ELSE "store",
                      event |-> e, at |-> now, days |-> currentRetentionDays,
                      n |-> attempts, kind |-> "none"]
    OBVIOUS
  <2>2. req' = [req EXCEPT ![s] = x] /\ now' = now /\ attempts < MaxRequests
    BY <1>0, <1>2, <2>1, Constants DEF BeginIngest, Budget, CountsTyped
  <2>3. currentRetentionDays \in MinDays .. MaxDays
    BY <1>0 DEF currentRetentionDays, Policies
  <2>4. now \in 0 .. MaxTime /\ attempts \in 0 .. MaxRequests
    BY <1>0, <2>2, Constants DEF CountsTyped
  <2>5. x \in Ingests /\ x.at <= now /\ x.pc # "insert" /\ x.kind = "none"
    BY <2>1, <2>3, <2>4 DEF Ingests
  <2> QED
    BY <1>0, <2>2, <2>5, SlotTyped
<1>3. ASSUME NEW s \in Slots, Archive(s) \/ telemetryDocForStorage(s) PROVE ReqTyped'
  <2>1. PICK r \in Ingests : r = req[s] /\ r # Free
    BY <1>3, AtWork DEF Archive, telemetryDocForStorage
  <2>2. PICK k \in {"archived", "snapshot", "slim"} :
          req' = [req EXCEPT ![s].pc = "insert", ![s].kind = k] /\ now' = now
    BY <1>3 DEF Archive, telemetryDocForStorage
  <2>3. PICK x : x = [r EXCEPT !.pc = "insert", !.kind = k]
    OBVIOUS
  <2>4. x \in Ingests /\ x.at = r.at /\ x.pc = "insert" /\ x.kind # "none"
    BY <2>3 DEF Ingests
  <2>5. req' = [req EXCEPT ![s] = x]
    BY <1>0, <2>1, <2>2, <2>3 DEF ReqTyped
  <2>6. x.at <= now
    BY <1>0, <2>1, <2>4 DEF ReqTyped
  <2> QED
    BY <1>0, <2>2, <2>4, <2>5, <2>6, SlotTyped
<1>4. ASSUME NEW s \in Slots, InsertOne(s) \/ IngestFails(s) PROVE ReqTyped'
  BY <1>0, <1>4, SlotFreed DEF InsertOne, IngestFails
<1>5. ASSUME NEW found \in BOOLEAN, Restart(found) PROVE ReqTyped'
  BY <1>5 DEF Restart, ReqTyped
<1>6. ASSUME (\E new \in Requests : policyHandler(new))
             \/ (\E g \in saves : savePolicyToMongo(g) \/ SaveFails(g))
             \/ (\E doc \in docs : ExpireDoc(doc)) \/ startRetentionSweep
             \/ (\E o \in objects : sweepS3Prefix(o)) \/ SweepDone \/ SweepFails \/ Tick
      PROVE  req' = req
  BY <1>6 DEF policyHandler, savePolicyToMongo, SaveFails, ExpireDoc, startRetentionSweep,
              sweepS3Prefix, SweepDone, SweepFails, Tick, ingestVars
<1>7. CASE UNCHANGED vars
  BY <1>1, <1>7 DEF vars, ingestVars
<1> QED
  BY <1>1, <1>2, <1>3, <1>4, <1>5, <1>6, <1>7 DEF Next

\* What is inserted describes the request.
LEMMA DocumentOf ==
    ASSUME TypeInv, NEW s \in Slots, req[s].pc = "insert"
    PROVE  /\ req[s] \in Ingests /\ req[s].at <= now
           /\ Document(req[s]) \in Docs
           /\ Document(req[s]).event = req[s].event /\ Document(req[s]).at = req[s].at
           /\ Document(req[s]).days = req[s].days /\ Document(req[s]).kind = req[s].kind
           /\ req[s].kind = "archived" => Document(req[s]).object = req[s].n
<1>1. PICK r \in Ingests : r = req[s] /\ r.kind \in {"archived", "snapshot", "slim"}
                           /\ r.at <= now
  <2>1. req[s] \in Ingests /\ req[s] # Free
    BY AtWork
  <2>2. req[s].kind # "none" /\ req[s].at <= now
    BY <2>1 DEF TypeInv, ReqTyped
  <2> QED
    BY <2>1, <2>2 DEF Ingests
<1>2. PICK d : d = Document(r)
  OBVIOUS
<1>3. /\ r.kind = "archived" => d = telemetryMetadata(r)
      /\ r.kind = "slim" => d = slimTelemetryDoc(r)
      /\ r.kind = "snapshot" => d = [slimTelemetryDoc(r) EXCEPT !.kind = "snapshot"]
  BY <1>2 DEF Document
<1>4. d \in Docs /\ d.event = r.event /\ d.at = r.at /\ d.days = r.days /\ d.kind = r.kind
      /\ (r.kind = "archived" => d.object = r.n)
  BY <1>1, <1>3 DEF telemetryMetadata, slimTelemetryDoc, Docs, Ingests
<1> QED
  BY <1>1, <1>2, <1>4

LEMMA StoresStep == TypeInv /\ [Next]_vars => StoresTyped'
<1> SUFFICES ASSUME TypeInv, [Next]_vars PROVE StoresTyped'
  OBVIOUS
<1>0. /\ StoresTyped /\ now \in 0 .. MaxTime /\ now' \in 0 .. MaxTime /\ now <= now'
      /\ MaxTime \in Nat
  BY CountsStep, Constants DEF TypeInv, CountsTyped
<1>1. CASE objects' \subseteq objects /\ docs' \subseteq docs
  <2>1. \A doc \in docs : doc.at \in Int
    BY <1>0 DEF StoresTyped, Docs
  <2> QED
    BY <1>0, <1>1, <2>1 DEF StoresTyped
<1>2. ASSUME NEW s \in Slots, Archive(s) PROVE StoresTyped'
  <2>1. req[s] \in Ingests
    BY <1>2, AtWork DEF Archive
  <2>2. [id |-> req[s].n, modified |-> now] \in Objects
    BY <1>0, <2>1 DEF Ingests, Objects
  <2>3. objects' = objects \cup {[id |-> req[s].n, modified |-> now]} /\ docs' = docs /\ now' = now
    BY <1>2 DEF Archive
  <2> QED
    BY <1>0, <2>2, <2>3 DEF StoresTyped
<1>3. ASSUME NEW s \in Slots, InsertOne(s) PROVE StoresTyped'
  <2>1. PICK d \in Docs : d = Document(req[s]) /\ d.at <= now
    BY <1>3, DocumentOf DEF InsertOne
  <2>2. docs' \subseteq docs \cup {d} /\ objects' = objects /\ now' = now
    BY <1>3, <2>1 DEF InsertOne
  <2> QED
    BY <1>0, <2>1, <2>2 DEF StoresTyped
<1>4. ASSUME NEW s \in Slots, (\E e \in Events : BeginIngest(s, e))
                              \/ telemetryDocForStorage(s) \/ IngestFails(s)
      PROVE  objects' = objects /\ docs' = docs
  BY <1>4 DEF BeginIngest, telemetryDocForStorage, IngestFails
<1>5. ASSUME (\E new \in Requests : policyHandler(new))
             \/ (\E g \in saves : savePolicyToMongo(g) \/ SaveFails(g))
             \/ startRetentionSweep \/ SweepDone \/ SweepFails \/ Tick
             \/ (\E found \in BOOLEAN : Restart(found))
      PROVE  objects' = objects /\ docs' = docs
  BY <1>5 DEF policyHandler, savePolicyToMongo, SaveFails, startRetentionSweep,
              SweepDone, SweepFails, Tick, Restart
<1>6. ASSUME (\E doc \in docs : ExpireDoc(doc)) \/ (\E o \in objects : sweepS3Prefix(o))
      PROVE  objects' \subseteq objects /\ docs' \subseteq docs
  BY <1>6 DEF ExpireDoc, sweepS3Prefix
<1>7. CASE UNCHANGED vars
  BY <1>1, <1>7 DEF vars
<1> QED
  BY <1>1, <1>2, <1>3, <1>4, <1>5, <1>6, <1>7 DEF Next

LEMMA SnapshotTyped ==
    ASSUME NEW r \in Ingests \cup {Free}
    PROVE  Snapshot(r) \subseteq Fulls
BY DEF Snapshot, Fulls, Ingests, Keys

LEMMA SnapshotsStep == TypeInv /\ [Next]_vars => SnapshotsTyped'
<1> SUFFICES ASSUME TypeInv, [Next]_vars PROVE SnapshotsTyped'
  OBVIOUS
<1>0. SnapshotsTyped /\ req \in [Slots -> Ingests \cup {Free}]
  BY DEF TypeInv, ReqTyped
<1>1. CASE UNCHANGED <<last, taken, wasted>>
  BY <1>0, <1>1 DEF SnapshotsTyped
<1>2. ASSUME NEW s \in Slots, telemetryDocForStorage(s) PROVE SnapshotsTyped'
  <2>1. PICK r \in Ingests : r = req[s]
    BY <1>2, AtWork DEF telemetryDocForStorage
  <2>2. Key[r.event] \in Keys /\ r.at \in 0 .. MaxTime
    BY DEF Ingests, Keys
  <2>3. last' = last \/ last' = [last EXCEPT ![Key[r.event]] = r.at]
    BY <1>2, <2>1 DEF telemetryDocForStorage
  <2>4. taken' = taken /\ wasted' = wasted
    BY <1>2 DEF telemetryDocForStorage
  <2> QED
    BY <1>0, <2>2, <2>3, <2>4 DEF SnapshotsTyped
<1>3. ASSUME NEW s \in Slots, InsertOne(s) \/ IngestFails(s) PROVE SnapshotsTyped'
  <2>1. Snapshot(req[s]) \subseteq Fulls
    BY <1>0, SnapshotTyped
  <2>2. /\ taken' \subseteq taken \cup Snapshot(req[s])
        /\ wasted' \subseteq wasted \cup Snapshot(req[s]) /\ last' = last
    BY <1>3 DEF InsertOne, IngestFails
  <2> QED
    BY <1>0, <2>1, <2>2 DEF SnapshotsTyped
<1>4. ASSUME NEW found \in BOOLEAN, Restart(found) PROVE SnapshotsTyped'
  <2>1. UNION {Snapshot(req[s]) : s \in Slots} \subseteq Fulls
    BY <1>0, SnapshotTyped
  <2>2. /\ taken' = taken /\ last' = [k \in Keys |-> Never]
        /\ wasted' = wasted \cup UNION {Snapshot(req[s]) : s \in Slots}
    BY <1>4 DEF Restart
  <2> QED
    BY <1>0, <2>1, <2>2 DEF SnapshotsTyped
<1>5. ASSUME NEW s \in Slots, (\E e \in Events : BeginIngest(s, e)) \/ Archive(s)
      PROVE  UNCHANGED <<last, taken, wasted>>
  BY <1>5 DEF BeginIngest, Archive
<1>6. ASSUME (\E new \in Requests : policyHandler(new))
             \/ (\E g \in saves : savePolicyToMongo(g) \/ SaveFails(g))
             \/ (\E doc \in docs : ExpireDoc(doc)) \/ startRetentionSweep
             \/ (\E o \in objects : sweepS3Prefix(o)) \/ SweepDone \/ SweepFails \/ Tick
      PROVE  UNCHANGED <<last, taken, wasted>>
  BY <1>6 DEF policyHandler, savePolicyToMongo, SaveFails, ExpireDoc, startRetentionSweep,
              sweepS3Prefix, SweepDone, SweepFails, Tick, ingestVars
<1>7. CASE UNCHANGED vars
  BY <1>1, <1>7 DEF vars, ingestVars
<1> QED
  BY <1>1, <1>2, <1>3, <1>4, <1>5, <1>6, <1>7 DEF Next

\* A sweep takes what is older than its retention, and no retention below the
\* floor is swept.
LEMMA StartsSweep ==
    ASSUME TypeInv, startRetentionSweep
    PROVE  /\ sweep' \in Sweeps /\ sweep'.cutoff = now - sweep'.days
           /\ UNCHANGED <<now, objects, docs, removed, req>>
<1>1. config.days \in MinDays .. MaxDays /\ now \in Int
  BY DEF TypeInv, PolicyTyped, CountsTyped, Policies
<1>2. sweep' = [cutoff |-> now - config.days, days |-> config.days] /\ config.days >= SafetyFloor
  BY DEF startRetentionSweep, Sweepable, Cutoff, currentRetentionDays
<1>3. UNCHANGED <<now, objects, docs, removed, req>>
  BY DEF startRetentionSweep, ingestVars
<1> QED
  BY <1>1, <1>2, <1>3, Constants DEF Sweeps

LEMMA SweepStep == TypeInv /\ [Next]_vars => SweepTyped'
<1> SUFFICES ASSUME TypeInv, [Next]_vars PROVE SweepTyped'
  OBVIOUS
<1>0. SweepTyped /\ StoresTyped
  BY DEF TypeInv
<1>1. CASE sweep' \in {sweep, None} /\ removed' = removed
  BY <1>0, <1>1 DEF SweepTyped
<1>2. CASE startRetentionSweep
  BY <1>0, <1>2, StartsSweep DEF SweepTyped
<1>3. ASSUME NEW o \in objects, sweepS3Prefix(o) PROVE SweepTyped'
  <2>1. o.id \in 0 .. MaxRequests /\ sweep \in Sweeps
    BY <1>0, <1>3 DEF StoresTyped, Objects, SweepTyped, sweepS3Prefix
  <2>2. [id |-> o.id, days |-> sweep.days] \in Removals
    BY <2>1 DEF Removals, Sweeps
  <2>3. sweep' = sweep /\ removed' = removed \cup {[id |-> o.id, days |-> sweep.days]}
    BY <1>3 DEF sweepS3Prefix
  <2> QED
    BY <1>0, <2>2, <2>3 DEF SweepTyped
<1>4. ASSUME NEW s \in Slots,
             (\E e \in Events : BeginIngest(s, e))
             \/ Archive(s) \/ telemetryDocForStorage(s) \/ InsertOne(s) \/ IngestFails(s)
      PROVE  sweep' = sweep /\ removed' = removed
  BY <1>4 DEF BeginIngest, Archive, telemetryDocForStorage, InsertOne, IngestFails, sweepVars
<1>5. ASSUME (\E new \in Requests : policyHandler(new))
             \/ (\E g \in saves : savePolicyToMongo(g) \/ SaveFails(g))
             \/ (\E doc \in docs : ExpireDoc(doc)) \/ SweepDone \/ SweepFails \/ Tick
             \/ (\E found \in BOOLEAN : Restart(found))
      PROVE  sweep' \in {sweep, None} /\ removed' = removed
  BY <1>5 DEF policyHandler, savePolicyToMongo, SaveFails, ExpireDoc, SweepDone,
              SweepFails, Tick, Restart, sweepVars
<1>6. CASE UNCHANGED vars
  BY <1>1, <1>6 DEF vars, sweepVars
<1> QED
  BY <1>1, <1>2, <1>3, <1>4, <1>5, <1>6 DEF Next

LEMMA TypeStep == TypeInv /\ [Next]_vars => TypeInv'
BY PolicyStep, CountsStep, ReqStep, StoresStep, SnapshotsStep, SweepStep DEF TypeInv

\* Whatever is posted, saved, loaded or lost, the retention in force is one
\* that normalizePolicy admits, and no shorter retention is ever swept.
THEOREM TypeCorrect == Spec => []TypeOK
<1>1. Spec => []TypeInv
  BY TypeInit, TypeStep, PTL DEF Spec
<1> QED
  BY <1>1, TypeInvOK, PTL

-----------------------------------------------------------------------------
(* The policy.                                                             *)

\* Without overlapping or failing saves, the one save under way is that of
\* the policy last accepted, and none under way means that it is stored.
SavedInv ==
    ~doubt =>
        /\ config = accepted
        /\ \/ /\ saves = {}
              /\ stored = accepted \/ (stored = None /\ accepted = defaultPolicy)
           \/ \E g \in saves : saves = {g} /\ g.policy = accepted

LEMMA SavedStep == TypeInv /\ SavedInv /\ [Next]_vars => SavedInv'
<1> SUFFICES ASSUME TypeInv, SavedInv, [Next]_vars, ~doubt'
             PROVE  /\ config' = accepted'
                    /\ \/ /\ saves' = {}
                          /\ \/ stored' = accepted'
                             \/ stored' = None /\ accepted' = defaultPolicy
                       \/ \E g \in saves' : saves' = {g} /\ g.policy = accepted'
  BY DEF SavedInv
<1>1. CASE UNCHANGED policyVars
  BY <1>1 DEF policyVars, SavedInv
<1>2. ASSUME NEW new \in Requests, policyHandler(new)
      PROVE  /\ config' = accepted'
             /\ \E g \in saves' : saves' = {g} /\ g.policy = accepted'
  <2>1. /\ config' = Saved(new) /\ accepted' = Saved(new) /\ saves = {}
        /\ saves' = saves \cup {[n |-> changes, policy |-> Saved(new)]}
    BY <1>2 DEF policyHandler, Saved
  <2>2. PICK g : g = [n |-> changes, policy |-> Saved(new)]
    OBVIOUS
  <2>3. g.policy = Saved(new)
    BY <2>2
  <2> QED
    BY <2>1, <2>2, <2>3
<1>3. ASSUME NEW g \in saves, savePolicyToMongo(g)
      PROVE  config' = accepted' /\ saves' = {} /\ stored' = accepted'
  BY <1>3 DEF savePolicyToMongo, SavedInv
<1>4. ASSUME NEW g \in saves, SaveFails(g) PROVE FALSE
  BY <1>4 DEF SaveFails
<1>5. ASSUME NEW found \in BOOLEAN, Restart(found)
      PROVE  /\ config' = accepted' /\ saves' = {}
             /\ stored' = accepted' \/ (stored' = None /\ accepted' = defaultPolicy)
  <2>1. /\ ~doubt /\ saves = {} /\ (found \/ stored = None)
        /\ saves' = {} /\ stored' = stored /\ accepted' = accepted
        /\ config' = IF found /\ stored # None THEN normalizePolicy(stored) ELSE defaultPolicy
    BY <1>5 DEF Restart, loadPolicyFromMongo
  <2>2. stored = accepted \/ (stored = None /\ accepted = defaultPolicy)
    BY <2>1 DEF SavedInv
  <2>3. accepted \in Policies
    BY DEF TypeInv, PolicyTyped
  <2>4. CASE stored = None /\ accepted = defaultPolicy
    BY <2>1, <2>4
  <2>5. CASE stored = accepted /\ stored # None
    BY <2>1, <2>3, <2>5, NormalizeKeeps
  <2>6. None \notin Policies
    BY RetentionAssumption DEF Policies
  <2> QED
    BY <2>1, <2>2, <2>3, <2>4, <2>5, <2>6
<1>6. ASSUME NEW s \in Slots,
             (\E e \in Events : BeginIngest(s, e))
             \/ Archive(s) \/ telemetryDocForStorage(s) \/ InsertOne(s) \/ IngestFails(s)
      PROVE  UNCHANGED policyVars
  BY <1>6 DEF BeginIngest, Archive, telemetryDocForStorage, InsertOne, IngestFails
<1>7. ASSUME (\E doc \in docs : ExpireDoc(doc)) \/ startRetentionSweep
             \/ (\E o \in objects : sweepS3Prefix(o)) \/ SweepDone \/ SweepFails \/ Tick
      PROVE  UNCHANGED policyVars
  BY <1>7 DEF ExpireDoc, startRetentionSweep, sweepS3Prefix, SweepDone, SweepFails, Tick
<1>8. CASE UNCHANGED vars
  BY <1>1, <1>8 DEF vars
<1> QED
  BY <1>1, <1>2, <1>3, <1>4, <1>5, <1>6, <1>7, <1>8 DEF Next

\* A policy that was answered with 200 is the one in force and, once saved,
\* the one that the next start reads, unless saves overlapped, failed or were
\* cut off, or the load failed.
THEOREM AcceptedPolicySurvives == Spec => []PolicySurvives
<1>1. Init => SavedInv
  BY DEF Init, SavedInv
<1>2. TypeInv /\ SavedInv /\ [Next]_vars => (TypeInv /\ SavedInv)'
  BY SavedStep, TypeStep
<1>3. SavedInv => PolicySurvives
  BY DEF SavedInv, PolicySurvives
<1>4. Spec => [](TypeInv /\ SavedInv)
  BY <1>1, <1>2, TypeInit, PTL DEF Spec
<1> QED
  BY <1>3, <1>4, PTL

-----------------------------------------------------------------------------
(* The history of a device.                                                *)

\* Object n can be read, or it is no longer owed to a document that was
\* stamped at time t with a retention of so many days.
Excused(n, t, days) ==
    \/ \E o \in objects : o.id = n
    \/ t + days <= now
    \/ \E r \in removed : r.id = n /\ r.days < days

\* An object is not older than the document or request that points to it.
NotOlder(n, t) == \A o \in objects : o.id = n => t <= o.modified

\* Attempts are numbered, and the objects bear their numbers.
ObjectInv ==
    /\ \A doc \in docs : doc.kind = "archived" =>
        Excused(doc.object, doc.at, doc.days) /\ NotOlder(doc.object, doc.at)
    /\ \A s \in Slots : req[s] # Free =>
        /\ NotOlder(req[s].n, req[s].at) /\ req[s].n < attempts
        /\ req[s].kind = "archived" => Excused(req[s].n, req[s].at, req[s].days)
    /\ \A o \in objects : o.id < attempts
    /\ sweep # None => sweep.cutoff <= now - sweep.days

\* Time passes, objects are added and removals noted: what is excused stays so.
LEMMA ExcusedStays ==
    ASSUME NEW n, NEW t \in Int, NEW days \in Int, Excused(n, t, days),
           now \in Int, now' \in Int, now <= now', objects \subseteq objects',
           removed \subseteq removed'
    PROVE  Excused(n, t, days)'
BY DEF Excused

\* An object that a sweep takes is older than the retention of the sweep; the
\* document that points to it has expired, or was to be kept for longer.
LEMMA ExcusedSwept ==
    ASSUME TypeInv, ObjectInv, NEW o \in objects, sweepS3Prefix(o),
           NEW n, NEW t \in Int, NEW days \in Int, Excused(n, t, days), NotOlder(n, t)
    PROVE  Excused(n, t, days)'
<1>1. /\ o.modified < sweep.cutoff /\ sweep.cutoff <= now - sweep.days /\ now' = now
      /\ objects' = objects \ {o} /\ removed' = removed \cup {[id |-> o.id, days |-> sweep.days]}
  BY DEF sweepS3Prefix, ObjectInv
<1>2. /\ o.modified \in Int /\ sweep.cutoff \in Int /\ sweep.days \in Int /\ now \in Int
  BY Constants DEF TypeInv, StoresTyped, Objects, SweepTyped, Sweeps, CountsTyped, sweepS3Prefix
<1>3. CASE n # o.id
  BY <1>1, <1>3 DEF Excused
<1>4. CASE n = o.id /\ sweep.days < days
  <2>1. PICK r : r = [id |-> o.id, days |-> sweep.days]
    OBVIOUS
  <2>2. r \in removed' /\ r.id = n /\ r.days < days
    BY <1>1, <1>4, <2>1
  <2> QED
    BY <2>2 DEF Excused
<1>5. CASE n = o.id /\ ~(sweep.days < days)
  <2>1. t <= o.modified
    BY <1>5 DEF NotOlder
  <2> QED
    BY <1>1, <1>2, <1>5, <2>1 DEF Excused
<1> QED
  BY <1>3, <1>4, <1>5

\* Objects are written now, under the number of an ingest.
LEMMA ObjectsFrom ==
    ASSUME TypeInv, [Next]_vars
    PROVE  \A o \in objects' : \/ o \in objects
                               \/ /\ o.modified = now
                                  /\ \E s \in Slots : req[s] # Free /\ o.id = req[s].n
<1>1. ASSUME NEW s \in Slots, Archive(s)
      PROVE  /\ req[s] # Free
             /\ \A o \in objects' : o \in objects \/ (o.modified = now /\ o.id = req[s].n)
  BY <1>1, AtWork DEF Archive
<1>2. ASSUME NEW s \in Slots,
             (\E e \in Events : BeginIngest(s, e))
             \/ telemetryDocForStorage(s) \/ InsertOne(s) \/ IngestFails(s)
      PROVE  objects' = objects
  BY <1>2 DEF BeginIngest, telemetryDocForStorage, InsertOne, IngestFails
<1>3. ASSUME (\E new \in Requests : policyHandler(new))
             \/ (\E g \in saves : savePolicyToMongo(g) \/ SaveFails(g))
             \/ (\E doc \in docs : ExpireDoc(doc)) \/ startRetentionSweep
             \/ SweepDone \/ SweepFails \/ Tick \/ (\E found \in BOOLEAN : Restart(found))
             \/ (\E o \in objects : sweepS3Prefix(o))
      PROVE  objects' \subseteq objects
  BY <1>3 DEF policyHandler, savePolicyToMongo, SaveFails, ExpireDoc, startRetentionSweep,
              SweepDone, SweepFails, Tick, Restart, sweepS3Prefix
<1>4. CASE UNCHANGED vars
  BY <1>4 DEF vars
<1> QED
  BY <1>1, <1>2, <1>3, <1>4 DEF Next

\* No step but a sweep removes an object, and what a document or a request
\* points to stays readable or excused.
LEMMA ExcusedStep ==
    ASSUME TypeInv, ObjectInv, [Next]_vars, NEW n, NEW t \in 0 .. MaxTime,
           NEW days \in MinDays .. MaxDays, Excused(n, t, days), NotOlder(n, t), t <= now
    PROVE  Excused(n, t, days)' /\ NotOlder(n, t)'
<1>0. t \in Int /\ days \in Int /\ now \in Int /\ now' \in Int /\ now <= now'
  BY CountsStep, Constants DEF TypeInv, CountsTyped
<1>1. CASE objects' = objects /\ removed' = removed
  <2>1. NotOlder(n, t)'
    BY <1>1 DEF NotOlder
  <2> QED
    BY <1>0, <1>1, <2>1, ExcusedStays
<1>2. ASSUME NEW s \in Slots, Archive(s) PROVE Excused(n, t, days)' /\ NotOlder(n, t)'
  <2>1. /\ objects' = objects \cup {[id |-> req[s].n, modified |-> now]}
        /\ removed' = removed
    BY <1>2 DEF Archive, sweepVars
  <2>2. NotOlder(n, t)'
    BY <2>1 DEF NotOlder
  <2> QED
    BY <1>0, <2>1, <2>2, ExcusedStays
<1>3. ASSUME NEW o \in objects, sweepS3Prefix(o)
      PROVE  Excused(n, t, days)' /\ NotOlder(n, t)'
  <2>1. objects' \subseteq objects
    BY <1>3 DEF sweepS3Prefix
  <2>2. NotOlder(n, t)'
    BY <2>1 DEF NotOlder
  <2> QED
    BY <1>0, <1>3, <2>2, ExcusedSwept
<1>4. ASSUME NEW s \in Slots,
             (\E e \in Events : BeginIngest(s, e))
             \/ telemetryDocForStorage(s) \/ InsertOne(s) \/ IngestFails(s)
      PROVE  objects' = objects /\ removed' = removed
  BY <1>4 DEF BeginIngest, telemetryDocForStorage, InsertOne, IngestFails, sweepVars
<1>5. ASSUME (\E new \in Requests : policyHandler(new))
             \/ (\E g \in saves : savePolicyToMongo(g) \/ SaveFails(g))
             \/ (\E doc \in docs : ExpireDoc(doc)) \/ startRetentionSweep
             \/ SweepDone \/ SweepFails \/ Tick \/ (\E found \in BOOLEAN : Restart(found))
      PROVE  objects' = objects /\ removed' = removed
  BY <1>5 DEF policyHandler, savePolicyToMongo, SaveFails, ExpireDoc, startRetentionSweep,
              SweepDone, SweepFails, Tick, Restart, sweepVars
<1>6. CASE UNCHANGED vars
  BY <1>1, <1>6 DEF vars, sweepVars
<1> QED
  BY <1>1, <1>2, <1>3, <1>4, <1>5, <1>6 DEF Next

\* What ObjectInv says of one request.
Held(x) ==
    x # Free => /\ NotOlder(x.n, x.at) /\ x.n < attempts
                /\ x.kind = "archived" => Excused(x.n, x.at, x.days)

LEMMA NumbersGrow ==
    ASSUME TypeInv, [Next]_vars
    PROVE  attempts \in Nat /\ attempts' \in Nat /\ attempts <= attempts'
<1>1. attempts \in Nat /\ attempts' \in Nat
  BY CountsStep DEF TypeInv, CountsTyped
<1>2. attempts' = attempts \/ attempts' = attempts + 1
  BY DEF Next, policyHandler, savePolicyToMongo, SaveFails, BeginIngest, Archive,
         telemetryDocForStorage, InsertOne, IngestFails, ExpireDoc, startRetentionSweep,
         sweepS3Prefix, SweepDone, SweepFails, Restart, Tick, vars, ingestVars
<1> QED
  BY <1>1, <1>2

\* A request that is left alone keeps what it has.
LEMMA HeldStays ==
    ASSUME TypeInv, ObjectInv, [Next]_vars, NEW s \in Slots, NEW r, r = req[s]
    PROVE  Held(r)'
<1> SUFFICES ASSUME r # Free
             PROVE  /\ NotOlder(r.n, r.at)' /\ r.n < attempts'
                    /\ r.kind = "archived" => Excused(r.n, r.at, r.days)'
  BY DEF Held
<1>1. r \in Ingests /\ r.at <= now
  BY DEF TypeInv, ReqTyped
<1>2. /\ NotOlder(r.n, r.at) /\ r.n < attempts
      /\ r.kind = "archived" => Excused(r.n, r.at, r.days)
  BY DEF ObjectInv
<1>3. r.at \in 0 .. MaxTime /\ r.days \in MinDays .. MaxDays /\ r.n \in 0 .. MaxRequests
  BY <1>1 DEF Ingests
<1>4. r.kind = "archived" => Excused(r.n, r.at, r.days)'
  BY <1>1, <1>2, <1>3, ExcusedStep
<1>5. NotOlder(r.n, r.at)'
  <2>1. \A o \in objects' : o \in objects \/ o.modified = now
    BY ObjectsFrom
  <2>2. now \in Int /\ r.at \in Int
    BY <1>3 DEF TypeInv, CountsTyped
  <2> QED
    BY <1>1, <1>2, <2>1, <2>2 DEF NotOlder
<1>6. r.n < attempts'
  BY <1>2, <1>3, NumbersGrow, Constants
<1> QED
  BY <1>4, <1>5, <1>6

\* A request that begins has a number that no object bears.
LEMMA BeginHeld ==
    ASSUME TypeInv, ObjectInv, NEW s \in Slots, NEW e \in Events, BeginIngest(s, e),
           NEW x, x = req'[s]
    PROVE  Held(x)'
<1>1. /\ attempts' = attempts + 1 /\ objects' = objects /\ DOMAIN req = Slots
      /\ attempts \in Nat
  BY DEF BeginIngest, TypeInv, ReqTyped, CountsTyped
<1>2. x = [pc |-> IF archiving THEN "archive" ELSE "store", event |-> e, at |-> now,
           days |-> currentRetentionDays, n |-> attempts, kind |-> "none"]
  BY <1>1 DEF BeginIngest
<1>3. x.n = attempts /\ x.kind = "none"
  BY <1>2
<1>4. \A o \in objects : o.id # x.n
  BY <1>1, <1>3 DEF ObjectInv, TypeInv, StoresTyped, Objects
<1> QED
  BY <1>1, <1>3, <1>4 DEF Held, NotOlder

\* The object that a request has written, and the document that it stores.
LEMMA ArchiveHeld ==
    ASSUME TypeInv, ObjectInv, [Next]_vars, NEW s \in Slots, Archive(s), NEW x, x = req'[s]
    PROVE  Held(x)'
<1>1. PICK r : r = req[s] /\ r \in Ingests /\ r # Free
  BY AtWork DEF Archive
<1>2. x = [r EXCEPT !.pc = "insert", !.kind = "archived"]
  BY <1>1 DEF Archive, TypeInv, ReqTyped
<1>3. x.n = r.n /\ x.at = r.at /\ x.days = r.days
  BY <1>1, <1>2 DEF Ingests
<1>4. NotOlder(r.n, r.at)' /\ r.n < attempts'
  BY <1>1, HeldStays DEF Held
<1>5. Excused(r.n, r.at, r.days)'
  <2>1. PICK p : p = [id |-> r.n, modified |-> now]
    OBVIOUS
  <2>2. p \in objects' /\ p.id = r.n
    BY <1>1, <2>1 DEF Archive
  <2> QED
    BY <2>2 DEF Excused
<1> QED
  BY <1>3, <1>4, <1>5 DEF Held

LEMMA MarkHeld ==
    ASSUME TypeInv, ObjectInv, [Next]_vars, NEW s \in Slots, telemetryDocForStorage(s),
           NEW x, x = req'[s]
    PROVE  Held(x)'
<1>1. PICK r : r = req[s] /\ r \in Ingests /\ r # Free
  BY AtWork DEF telemetryDocForStorage
<1>2. PICK k \in {"snapshot", "slim"} : x = [r EXCEPT !.pc = "insert", !.kind = k]
  BY <1>1 DEF telemetryDocForStorage, TypeInv, ReqTyped
<1>3. x.n = r.n /\ x.at = r.at /\ x.kind = k
  BY <1>1, <1>2 DEF Ingests
<1>4. NotOlder(r.n, r.at)' /\ r.n < attempts'
  BY <1>1, HeldStays DEF Held
<1> QED
  BY <1>3, <1>4 DEF Held

\* Requests change only in these ways.
LEMMA RequestsFrom ==
    ASSUME TypeInv, [Next]_vars, NEW s \in Slots
    PROVE  \/ req'[s] = req[s] \/ req'[s] = Free
           \/ (\E e \in Events : BeginIngest(s, e)) \/ Archive(s) \/ telemetryDocForStorage(s)
<1>0. DOMAIN req = Slots
  BY DEF TypeInv, ReqTyped
<1>1. ASSUME NEW o \in Slots,
             (\E e \in Events : BeginIngest(o, e)) \/ Archive(o) \/ telemetryDocForStorage(o)
      PROVE  o = s \/ req'[s] = req[s]
  BY <1>0, <1>1 DEF BeginIngest, Archive, telemetryDocForStorage
<1>2. ASSUME NEW o \in Slots, InsertOne(o) \/ IngestFails(o)
      PROVE  req'[s] = req[s] \/ req'[s] = Free
  BY <1>0, <1>2 DEF InsertOne, IngestFails
<1>3. ASSUME (\E new \in Requests : policyHandler(new))
             \/ (\E g \in saves : savePolicyToMongo(g) \/ SaveFails(g))
             \/ (\E doc \in docs : ExpireDoc(doc)) \/ startRetentionSweep
             \/ (\E o \in objects : sweepS3Prefix(o)) \/ SweepDone \/ SweepFails \/ Tick
      PROVE  req' = req
  BY <1>3 DEF policyHandler, savePolicyToMongo, SaveFails, ExpireDoc, startRetentionSweep,
              sweepS3Prefix, SweepDone, SweepFails, Tick, ingestVars
<1>4. ASSUME NEW found \in BOOLEAN, Restart(found) PROVE req'[s] = Free
  BY <1>4 DEF Restart
<1>5. CASE UNCHANGED vars
  BY <1>5 DEF vars, ingestVars
<1> QED
  BY <1>1, <1>2, <1>3, <1>4, <1>5 DEF Next

LEMMA HeldStep ==
    ASSUME TypeInv, ObjectInv, [Next]_vars, NEW s \in Slots, NEW x, x = req'[s]
    PROVE  Held(x)'
<1>1. CASE x = Free
  BY <1>1 DEF Held
<1> QED
  BY <1>1, RequestsFrom, HeldStays, BeginHeld, ArchiveHeld, MarkHeld

\* A new document points to what its request holds.
LEMMA DocsFrom ==
    ASSUME TypeInv, [Next]_vars, NEW doc \in docs'
    PROVE  \/ doc \in docs
           \/ \E s \in Slots : /\ req[s].pc = "insert" /\ doc = Document(req[s])
                               /\ ~Known(req[s].event) /\ InsertOne(s)
<1>1. ASSUME NEW s \in Slots, InsertOne(s)
      PROVE  doc \in docs \/ (req[s].pc = "insert" /\ doc = Document(req[s])
                              /\ ~Known(req[s].event))
  BY <1>1 DEF InsertOne
<1>2. ASSUME NEW s \in Slots,
             (\E e \in Events : BeginIngest(s, e))
             \/ telemetryDocForStorage(s) \/ Archive(s) \/ IngestFails(s)
      PROVE  docs' = docs
  BY <1>2 DEF BeginIngest, telemetryDocForStorage, Archive, IngestFails
<1>3. ASSUME (\E new \in Requests : policyHandler(new))
             \/ (\E g \in saves : savePolicyToMongo(g) \/ SaveFails(g))
             \/ (\E d \in docs : ExpireDoc(d)) \/ startRetentionSweep
             \/ SweepDone \/ SweepFails \/ Tick \/ (\E found \in BOOLEAN : Restart(found))
             \/ (\E o \in objects : sweepS3Prefix(o))
      PROVE  docs' \subseteq docs
  BY <1>3 DEF policyHandler, savePolicyToMongo, SaveFails, ExpireDoc, startRetentionSweep,
              SweepDone, SweepFails, Tick, Restart, sweepS3Prefix
<1>4. CASE UNCHANGED vars
  BY <1>4 DEF vars
<1> QED
  BY <1>1, <1>2, <1>3, <1>4 DEF Next

LEMMA SweepFrom ==
    ASSUME TypeInv, [Next]_vars
    PROVE  sweep' = sweep \/ sweep' = None \/ startRetentionSweep
<1>1. ASSUME NEW s \in Slots,
             (\E e \in Events : BeginIngest(s, e))
             \/ telemetryDocForStorage(s) \/ Archive(s) \/ InsertOne(s) \/ IngestFails(s)
      PROVE  sweep' = sweep
  BY <1>1 DEF BeginIngest, telemetryDocForStorage, Archive, InsertOne, IngestFails, sweepVars
<1>2. ASSUME (\E new \in Requests : policyHandler(new))
             \/ (\E g \in saves : savePolicyToMongo(g) \/ SaveFails(g))
             \/ (\E doc \in docs : ExpireDoc(doc)) \/ Tick
             \/ (\E o \in objects : sweepS3Prefix(o))
      PROVE  sweep' = sweep
  BY <1>2 DEF policyHandler, savePolicyToMongo, SaveFails, ExpireDoc, Tick, sweepS3Prefix,
              sweepVars
<1>3. ASSUME SweepDone \/ SweepFails \/ (\E found \in BOOLEAN : Restart(found))
      PROVE  sweep' = None
  BY <1>3 DEF SweepDone, SweepFails, Restart
<1>4. CASE UNCHANGED vars
  BY <1>4 DEF vars, sweepVars
<1> QED
  BY <1>1, <1>2, <1>3, <1>4 DEF Next

LEMMA ObjectStep == TypeInv /\ ObjectInv /\ [Next]_vars => ObjectInv'
<1> SUFFICES ASSUME TypeInv, ObjectInv, [Next]_vars PROVE ObjectInv'
  OBVIOUS
<1>1. ASSUME NEW doc \in docs', doc.kind = "archived"
      PROVE  Excused(doc.object, doc.at, doc.days)' /\ NotOlder(doc.object, doc.at)'
  <2>1. CASE doc \in docs
    <3>1. doc.at \in 0 .. MaxTime /\ doc.days \in MinDays .. MaxDays /\ doc.at <= now
      BY <2>1 DEF TypeInv, StoresTyped, Docs
    <3>2. Excused(doc.object, doc.at, doc.days) /\ NotOlder(doc.object, doc.at)
      BY <1>1, <2>1 DEF ObjectInv
    <3> QED
      BY <3>1, <3>2, ExcusedStep
  <2>2. ASSUME NEW s \in Slots, req[s].pc = "insert", doc = Document(req[s])
        PROVE  Excused(doc.object, doc.at, doc.days)' /\ NotOlder(doc.object, doc.at)'
    <3>1. PICK r \in Ingests : r = req[s]
      BY <2>2, DocumentOf
    <3>2. doc.at = r.at /\ doc.days = r.days /\ doc.object = r.n /\ r.kind = "archived"
      BY <1>1, <2>2, <3>1, DocumentOf
    <3>3. Held(r)' /\ r # Free
      BY <3>1, HeldStays, FreeApart
    <3> QED
      BY <3>2, <3>3 DEF Held
  <2> QED
    BY <2>1, <2>2, DocsFrom
<1>2. ASSUME NEW s \in Slots, NEW x, x = req'[s], x # Free
      PROVE  /\ NotOlder(x.n, x.at)' /\ x.n < attempts'
             /\ x.kind = "archived" => Excused(x.n, x.at, x.days)'
  BY <1>2, HeldStep DEF Held
<1>3. ASSUME NEW o \in objects' PROVE o.id < attempts'
  <2>1. CASE o \in objects
    BY <2>1, NumbersGrow DEF ObjectInv, TypeInv, StoresTyped, Objects
  <2>2. ASSUME NEW s \in Slots, req[s] # Free, o.id = req[s].n PROVE o.id < attempts'
    <3>1. req[s].n \in Nat /\ req[s].n < attempts
      BY <2>2, Constants DEF ObjectInv, TypeInv, ReqTyped, Ingests
    <3> QED
      BY <2>2, <3>1, NumbersGrow
  <2> QED
    BY <2>1, <2>2, ObjectsFrom
<1>4. sweep' # None => sweep'.cutoff <= now' - sweep'.days
  <2>1. now \in Int /\ now' \in Int /\ now <= now'
    BY CountsStep DEF TypeInv, CountsTyped
  <2>2. CASE sweep' = sweep /\ sweep # None
    <3>1. sweep.cutoff \in Int /\ sweep.days \in Int /\ sweep.cutoff <= now - sweep.days
      BY <2>2, Constants DEF TypeInv, SweepTyped, Sweeps, ObjectInv
    <3> QED
      BY <2>1, <2>2, <3>1
  <2>3. CASE startRetentionSweep
    BY <2>1, <2>3, StartsSweep, Constants DEF Sweeps
  <2> QED
    BY <2>2, <2>3, SweepFrom
<1> QED
  BY <1>1, <1>2, <1>3, <1>4 DEF ObjectInv

\* A history fails for want of an object only when the document has expired,
\* or the object was swept under a shorter retention than the document has.
LEMMA ObjectsReadable == ObjectInv => HistoryReadable
<1> SUFFICES ASSUME ObjectInv, NEW k \in Keys, NEW doc \in docs, doc.kind = "archived",
                    ~Read(doc)
             PROVE  \/ doc.at + doc.days <= now
                    \/ \E r \in removed : r.id = doc.object /\ r.days < doc.days
  BY DEF HistoryReadable, historyHandler
<1> QED
  BY DEF ObjectInv, Excused, Read

\* In every reachable state the history of a device can be read, but for the
\* documents whose time is over and the objects that a sweep under a shorter
\* retention removed.
THEOREM HistoriesStayReadable == Spec => []HistoryInv
<1>1. Init => ObjectInv
  BY DEF Init, ObjectInv
<1>2. TypeInv /\ ObjectInv /\ [Next]_vars => (TypeInv /\ ObjectInv)'
  BY ObjectStep, TypeStep
<1>3. TypeInv /\ ObjectInv => HistoryInv
  BY TypeInvOK, ObjectsReadable DEF HistoryInv
<1>4. Spec => [](TypeInv /\ ObjectInv)
  BY <1>1, <1>2, TypeInit, PTL DEF Spec
<1> QED
  BY <1>3, <1>4, PTL

-----------------------------------------------------------------------------
(* Snapshots. *)

\* The snapshots that were marked: stored, given up, or on the way.
Marked == taken \cup wasted \cup (UNION {Snapshot(req[s]) : s \in Slots})

Near(k, at) == Every > 0 => \E full \in Marked : full.key = k /\ at - full.at < Every

\* What was marked last is a snapshot, and a slim document, stored or on the
\* way, has one near it.
MarkInv ==
    /\ \A k \in Keys : last[k] # Never => [key |-> k, at |-> last[k]] \in Marked
    /\ \A doc \in docs : doc.kind = "slim" => Near(Key[doc.event], doc.at)
    /\ \A s \in Slots :
        req[s] # Free /\ req[s].kind = "slim" => Near(Key[req[s].event], req[s].at)

\* A request that leaves its slot leaves its snapshot in the history.
LEMMA SnapshotLeft ==
    ASSUME TypeInv, [Next]_vars, NEW s \in Slots, NEW x, x = req'[s]
    PROVE  Snapshot(req[s]) \subseteq Snapshot(x) \cup taken' \cup wasted'
<1>0. DOMAIN req = Slots
  BY DEF TypeInv, ReqTyped
<1>1. CASE x = req[s]
  BY <1>1
<1>2. CASE req[s] = Free
  BY <1>2 DEF Snapshot
<1>3. ASSUME NEW o \in Slots, Archive(o) \/ telemetryDocForStorage(o)
      PROVE  x = req[s] \/ Snapshot(req[s]) = {}
  <2>1. CASE o = s
    <3>1. req[s] \in Ingests /\ req[s] # Free /\ req[s].pc # "insert"
      BY <1>3, <2>1, AtWork DEF Archive, telemetryDocForStorage
    <3>2. req[s].kind = "none"
      BY <3>1 DEF TypeInv, ReqTyped
    <3> QED
      BY <3>2 DEF Snapshot
  <2>2. CASE o # s
    BY <1>0, <1>3, <2>2 DEF Archive, telemetryDocForStorage
  <2> QED
    BY <2>1, <2>2
<1>4. ASSUME NEW o \in Slots, NEW e \in Events, BeginIngest(o, e)
      PROVE  x = req[s] \/ req[s] = Free
  <2> HIDE DEF Free
  <2> QED
    BY <1>0, <1>4 DEF BeginIngest
<1>5. ASSUME NEW o \in Slots, InsertOne(o) \/ IngestFails(o)
      PROVE  x = req[s] \/ Snapshot(req[s]) \subseteq taken' \cup wasted'
  BY <1>0, <1>5 DEF InsertOne, IngestFails
<1>6. ASSUME NEW found \in BOOLEAN, Restart(found) PROVE Snapshot(req[s]) \subseteq wasted'
  BY <1>6 DEF Restart
<1>7. ASSUME (\E new \in Requests : policyHandler(new))
             \/ (\E g \in saves : savePolicyToMongo(g) \/ SaveFails(g))
             \/ (\E doc \in docs : ExpireDoc(doc)) \/ startRetentionSweep
             \/ (\E o \in objects : sweepS3Prefix(o)) \/ SweepDone \/ SweepFails \/ Tick
      PROVE  x = req[s]
  BY <1>7 DEF policyHandler, savePolicyToMongo, SaveFails, ExpireDoc, startRetentionSweep,
              sweepS3Prefix, SweepDone, SweepFails, Tick, ingestVars
<1>8. CASE UNCHANGED vars
  BY <1>1, <1>8 DEF vars, ingestVars
<1> QED
  BY <1>1, <1>2, <1>3, <1>4, <1>5, <1>6, <1>7, <1>8 DEF Next

LEMMA HistoryGrows ==
    ASSUME TypeInv, [Next]_vars
    PROVE  taken \cup wasted \subseteq taken' \cup wasted'
<1>1. ASSUME NEW s \in Slots,
             (\E e \in Events : BeginIngest(s, e))
             \/ telemetryDocForStorage(s) \/ Archive(s) \/ InsertOne(s) \/ IngestFails(s)
      PROVE  taken \cup wasted \subseteq taken' \cup wasted'
  BY <1>1 DEF BeginIngest, telemetryDocForStorage, Archive, InsertOne, IngestFails
<1>2. ASSUME (\E new \in Requests : policyHandler(new))
             \/ (\E g \in saves : savePolicyToMongo(g) \/ SaveFails(g))
             \/ (\E d \in docs : ExpireDoc(d)) \/ startRetentionSweep
             \/ SweepDone \/ SweepFails \/ Tick \/ (\E found \in BOOLEAN : Restart(found))
             \/ (\E o \in objects : sweepS3Prefix(o))
      PROVE  taken \cup wasted \subseteq taken' \cup wasted'
  BY <1>2 DEF policyHandler, savePolicyToMongo, SaveFails, ExpireDoc, startRetentionSweep,
              SweepDone, SweepFails, Tick, Restart, sweepS3Prefix, ingestVars
<1>3. CASE UNCHANGED vars
  BY <1>3 DEF vars, ingestVars
<1> QED
  BY <1>1, <1>2, <1>3 DEF Next

\* No snapshot that was marked is lost from sight.
LEMMA MarkedGrows ==
    ASSUME TypeInv, [Next]_vars
    PROVE  Marked \subseteq Marked'
<1> SUFFICES ASSUME NEW p \in Marked PROVE p \in Marked'
  OBVIOUS
<1>1. CASE p \in taken \cup wasted
  BY <1>1, HistoryGrows DEF Marked
<1>2. ASSUME NEW s \in Slots, p \in Snapshot(req[s]) PROVE p \in Marked'
  <2>1. PICK x : x = req'[s]
    OBVIOUS
  <2>2. p \in Snapshot(x) \cup taken' \cup wasted'
    BY <1>2, <2>1, SnapshotLeft
  <2>3. Snapshot(x) = Snapshot(req[s])'
    BY <2>1 DEF Snapshot
  <2> QED
    BY <2>2, <2>3 DEF Marked
<1> QED
  BY <1>1, <1>2 DEF Marked

LEMMA NearStays ==
    ASSUME TypeInv, [Next]_vars, NEW k, NEW at, Near(k, at)
    PROVE  Near(k, at)'
BY MarkedGrows DEF Near

\* The step that marks: a full snapshot is on the way, or one was marked not
\* long ago.
LEMMA Marks ==
    ASSUME TypeInv, MarkInv, [Next]_vars, NEW s \in Slots, telemetryDocForStorage(s),
           NEW x, x = req'[s]
    PROVE  /\ \A k \in Keys : last'[k] # last[k] => [key |-> k, at |-> last'[k]] \in Marked'
           /\ x.kind = "slim" => Near(Key[x.event], x.at)'
<1>1. PICK r : r = req[s] /\ r \in Ingests /\ r # Free
  BY AtWork DEF telemetryDocForStorage
<1>2. PICK k : k = Key[r.event]
  OBVIOUS
<1>3. k \in Keys /\ r.at \in 0 .. MaxTime
  BY <1>1, <1>2 DEF Keys, Ingests
<1>4. DOMAIN req = Slots /\ DOMAIN last = Keys
  BY DEF TypeInv, ReqTyped, SnapshotsTyped
<1>5. CASE due(k, r.at)
  <2>1. x = [r EXCEPT !.pc = "insert", !.kind = "snapshot"] /\ last' = [last EXCEPT ![k] = r.at]
    BY <1>1, <1>2, <1>4, <1>5 DEF telemetryDocForStorage
  <2>2. x.kind = "snapshot" /\ x.event = r.event /\ x.at = r.at /\ x.pc = "insert"
    BY <1>1, <2>1 DEF Ingests
  <2>3. x # Free
    BY <2>2 DEF Free
  <2>4. PICK p : p = [key |-> k, at |-> r.at]
    OBVIOUS
  <2>5. p \in Snapshot(x)
    BY <1>2, <2>2, <2>3, <2>4 DEF Snapshot
  <2>6. Snapshot(x) = Snapshot(req[s])'
    BY DEF Snapshot
  <2>7. p \in Marked'
    BY <2>5, <2>6 DEF Marked
  <2>8. \A j \in Keys : j # k => last'[j] = last[j]
    BY <1>4, <2>1
  <2>9. last'[k] = r.at
    BY <1>3, <1>4, <2>1
  <2> QED
    BY <2>2, <2>4, <2>7, <2>8, <2>9
<1>6. CASE ~due(k, r.at)
  <2>1. x = [r EXCEPT !.pc = "insert", !.kind = "slim"] /\ last' = last
    BY <1>1, <1>2, <1>4, <1>6 DEF telemetryDocForStorage
  <2>2. x.event = r.event /\ x.at = r.at
    BY <1>1, <2>1 DEF Ingests
  <2>3. Every > 0 => last[k] # Never /\ r.at - last[k] < Every
    BY <1>6 DEF due
  <2>4. PICK p : p = [key |-> k, at |-> last[k]]
    OBVIOUS
  <2>5. Every > 0 => p \in Marked
    BY <1>3, <2>3, <2>4 DEF MarkInv
  <2>6. p.key = k /\ p.at = last[k]
    BY <2>4
  <2>7. Near(k, r.at)
    BY <2>3, <2>5, <2>6 DEF Near
  <2>8. Near(k, r.at)'
    BY <2>7, NearStays
  <2> QED
    BY <1>2, <2>1, <2>2, <2>8
<1> QED
  BY <1>5, <1>6

LEMMA LastFrom ==
    ASSUME TypeInv, [Next]_vars, NEW k \in Keys
    PROVE  last'[k] = last[k] \/ last'[k] = Never \/ \E s \in Slots : telemetryDocForStorage(s)
<1>1. ASSUME NEW s \in Slots,
             (\E e \in Events : BeginIngest(s, e))
             \/ Archive(s) \/ InsertOne(s) \/ IngestFails(s)
      PROVE  last' = last
  BY <1>1 DEF BeginIngest, Archive, InsertOne, IngestFails
<1>2. ASSUME (\E new \in Requests : policyHandler(new))
             \/ (\E g \in saves : savePolicyToMongo(g) \/ SaveFails(g))
             \/ (\E doc \in docs : ExpireDoc(doc)) \/ startRetentionSweep
             \/ (\E o \in objects : sweepS3Prefix(o)) \/ SweepDone \/ SweepFails \/ Tick
      PROVE  last' = last
  BY <1>2 DEF policyHandler, savePolicyToMongo, SaveFails, ExpireDoc, startRetentionSweep,
              sweepS3Prefix, SweepDone, SweepFails, Tick, ingestVars
<1>3. ASSUME NEW found \in BOOLEAN, Restart(found) PROVE last'[k] = Never
  BY <1>3 DEF Restart
<1>4. CASE UNCHANGED vars
  BY <1>4 DEF vars, ingestVars
<1> QED
  BY <1>1, <1>2, <1>3, <1>4 DEF Next

LEMMA MarkStep == TypeInv /\ MarkInv /\ [Next]_vars => MarkInv'
<1> SUFFICES ASSUME TypeInv, MarkInv, [Next]_vars PROVE MarkInv'
  OBVIOUS
<1>1. ASSUME NEW k \in Keys, last'[k] # Never PROVE [key |-> k, at |-> last'[k]] \in Marked'
  <2>1. CASE last'[k] = last[k]
    BY <1>1, <2>1, MarkedGrows DEF MarkInv
  <2>2. ASSUME last'[k] # last[k], NEW s \in Slots, telemetryDocForStorage(s)
        PROVE  [key |-> k, at |-> last'[k]] \in Marked'
    BY <2>2, Marks
  <2> QED
    BY <1>1, <2>1, <2>2, LastFrom
<1>2. ASSUME NEW s \in Slots, NEW x, x = req'[s], x # Free, x.kind = "slim"
      PROVE  Near(Key[x.event], x.at)'
  <2>1. CASE x = req[s]
    BY <1>2, <2>1, NearStays DEF MarkInv
  <2>2. CASE telemetryDocForStorage(s)
    BY <1>2, <2>2, Marks
  <2>3. ASSUME NEW e \in Events, BeginIngest(s, e) PROVE FALSE
    <3>1. DOMAIN req = Slots
      BY DEF TypeInv, ReqTyped
    <3>2. x = [pc |-> IF archiving THEN "archive" ELSE "store", event |-> e, at |-> now,
               days |-> currentRetentionDays, n |-> attempts, kind |-> "none"]
      BY <1>2, <2>3, <3>1 DEF BeginIngest
    <3> QED
      BY <1>2, <3>2
  <2>4. ASSUME Archive(s) PROVE FALSE
    <3>1. PICK r : r = req[s] /\ r \in Ingests /\ DOMAIN req = Slots
      BY <2>4, AtWork DEF Archive, TypeInv, ReqTyped
    <3>2. x = [r EXCEPT !.pc = "insert", !.kind = "archived"]
      BY <1>2, <2>4, <3>1 DEF Archive
    <3> QED
      BY <1>2, <3>1, <3>2 DEF Ingests
  <2> QED
    BY <1>2, <2>1, <2>2, <2>3, <2>4, RequestsFrom
<1>3. ASSUME NEW doc \in docs', doc.kind = "slim" PROVE Near(Key[doc.event], doc.at)'
  <2>1. CASE doc \in docs
    BY <1>3, <2>1, NearStays DEF MarkInv
  <2>2. ASSUME NEW s \in Slots, req[s].pc = "insert", doc = Document(req[s])
        PROVE  Near(Key[doc.event], doc.at)'
    <3>1. PICK r \in Ingests : r = req[s] /\ r # Free
      BY <2>2, AtWork
    <3>2. doc.event = r.event /\ doc.at = r.at /\ r.kind = "slim"
      BY <1>3, <2>2, <3>1, DocumentOf
    <3>3. Near(Key[r.event], r.at)
      BY <3>1, <3>2 DEF MarkInv
    <3> QED
      BY <3>2, <3>3, NearStays
  <2> QED
    BY <2>1, <2>2, DocsFrom
<1> QED
  BY <1>1, <1>2, <1>3 DEF MarkInv

\* Whatever the order in which concurrent ingests mark and insert, and however
\* many fail or are cut off, a slim document has a full snapshot of its device
\* and role, marked less than the interval before it.
THEOREM SnapshotsAreRegular == Spec => []SnapshotRegular
<1>1. Init => MarkInv
  BY DEF Init, MarkInv
<1>2. TypeInv /\ MarkInv /\ [Next]_vars => (TypeInv /\ MarkInv)'
  BY MarkStep, TypeStep
<1>3. MarkInv => SnapshotRegular
  BY DEF MarkInv, Near, Marked, SnapshotRegular
<1>4. Spec => [](TypeInv /\ MarkInv)
  BY <1>1, <1>2, TypeInit, PTL DEF Spec
<1> QED
  BY <1>3, <1>4, PTL
=============================================================================
