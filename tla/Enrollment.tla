----------------------------- MODULE Enrollment -----------------------------
(***************************************************************************)
(* The identity of devices: registration by hardware fingerprint, rotation *)
(* of API keys, the credential cache of the agent, uploads as far as they  *)
(* authenticate and store, deletion of a device with its data, the block   *)
(* that a deletion leaves behind, and the wipe of an agent.  Every handler *)
(* of the API is a sequence of database calls that others interleave with; *)
(* an agent works on one request at a time, and may give up waiting for it *)
(* while the handler goes on.                                              *)
(***************************************************************************)
EXTENDS Naturals, Sequences, FiniteSets

CONSTANTS
    Machines,
    Agents,      \* the machines that are switched on
    HW, MAC,     \* fingerprint of a machine: hardware UUID ("" if it has none)
                 \* and address of its network card, which machines may share
    Slots,       \* requests at work at the same time
    MaxOps,      \* bound: deletions, clearances, wipes and re-installations
    MaxFaults    \* bound: failing calls, lost answers and crashes

ASSUME EnrollmentAssumption ==
    /\ Agents \subseteq Machines
    /\ HW \in [Machines -> STRING] /\ MAC \in [Machines -> STRING]
    /\ \A m \in Machines : HW[m] # "" \/ MAC[m] # ""
    /\ IsFiniteSet(Machines) /\ IsFiniteSet(Slots)
    /\ MaxOps \in Nat /\ MaxFaults \in Nat

VARIABLES
    ops, faults,
    dev,      \* dev[d]: the row of the collection devices
    revs,     \* documents of device_revocations
    left,     \* left[d]: the stores that hold data of d
    cred,     \* cred[m]: the credentials the agent has in memory
    cache,    \* cache[m]: registration.json
    agent,    \* agent[m]: what the agent is doing
    req,      \* req[s]: the request in slot s
    banned,   \* devices that were deleted and whose block was not cleared
    open,     \* devices whose block was read while the database failed
    mess      \* devices with data that a deletion was not able to remove

agentVars == <<cred, cache, agent>>
histVars == <<banned, open, mess>>
storeVars == <<dev, revs, left>>
vars == <<ops, faults, storeVars, agentVars, req, histVars>>

DeviceId(m) == IF HW[m] # "" THEN <<"uuid", HW[m]>> ELSE <<"mac", MAC[m]>>
Devices == {DeviceId(m) : m \in Machines}
NoDevice == <<"", "">>

\* A key is a number; a new one differs from every key that is in use.
NoCred == [dev |-> NoDevice, key |-> 0]
NoRow == [here |-> FALSE, key |-> 0, old |-> 0, hw |-> "", mac |-> "", wiped |-> FALSE]
Free == [op |-> "free", m |-> "", key |-> 0, dev |-> NoDevice, pc |-> "", n |-> 0,
         client |-> FALSE, blocked |-> FALSE, hw |-> "", mac |-> ""]
KeysInUse ==
    {dev[d].key : d \in Devices} \cup {dev[d].old : d \in Devices}
    \cup {cred[m].key : m \in Machines} \cup {cache[m].key : m \in Machines}
    \cup {req[s].key : s \in Slots}
generateAPIKey ==
    CHOOSE k \in 1 .. Cardinality(KeysInUse) + 1 :
        k \notin KeysInUse /\ \A j \in 1 .. k - 1 : j \in KeysInUse

(* Revocations match by any identifier; empty ones match nothing. *)

revokedDeviceFilter(r, id, hw, mac) ==
    \/ id # NoDevice /\ r.dev = id
    \/ hw # "" /\ r.hw = hw
    \/ mac # "" /\ r.mac = mac
isDeviceRevoked(id, hw, mac) == \E r \in revs : revokedDeviceFilter(r, id, hw, mac)
MachineBlocked(m) == isDeviceRevoked(NoDevice, HW[m], MAC[m])

Fault == faults < MaxFaults /\ faults' = faults + 1

Go(s, pc) == req' = [req EXCEPT ![s].pc = pc]

\* An answer reaches the agent if it still waits for one; its next step.
Tell(s, pc, c) ==
    /\ agent' = IF req[s].client THEN [agent EXCEPT ![req[s].m] = pc] ELSE agent
    /\ cred' = IF req[s].client THEN [cred EXCEPT ![req[s].m] = c] ELSE cred
    /\ req' = [req EXCEPT ![s] = Free]
Refuse(s) == Tell(s, "ready", cred[req[s].m])

(* The agent. *)

\* Start of the process: the cache is used if it fits the hardware.
Boot(m) ==
    /\ agent[m] = "boot"
    /\ cred' = [cred EXCEPT ![m] = cache[m]]
    /\ agent' = [agent EXCEPT ![m] = IF cache[m] = NoCred THEN "register" ELSE "ready"]
    /\ UNCHANGED <<ops, faults, storeVars, cache, req, histVars>>

\* Mutant: the registration after a 401 is answered from the cache.
SendRegisterCached(m, s) ==
    /\ agent[m] = "register" /\ req[s].op = "free"
    /\ IF cache[m] # NoCred
       THEN /\ cred' = [cred EXCEPT ![m] = cache[m]]
            /\ agent' = [agent EXCEPT ![m] = "ready"]
            /\ req' = req
       ELSE /\ agent' = [agent EXCEPT ![m] = "wait"]
            /\ req' = [req EXCEPT ![s] = [Free EXCEPT !.op = "register", !.m = m,
                                                      !.pc = "check", !.client = TRUE]]
            /\ cred' = cred
    /\ UNCHANGED <<ops, faults, storeVars, cache, histVars>>

\* registerDeviceWithCache: at the start without a cache, or after a 401.
SendRegister(m, s) ==
    /\ agent[m] = "register" /\ req[s].op = "free"
    /\ agent' = [agent EXCEPT ![m] = "wait"]
    /\ req' = [req EXCEPT ![s] = [Free EXCEPT !.op = "register", !.m = m, !.pc = "check",
                                     !.client = TRUE, !.blocked = DeviceId(m) \in banned]]
    /\ UNCHANGED <<ops, faults, storeVars, cred, cache, histVars>>

SendUpload(m, s) ==
    /\ agent[m] = "ready" /\ req[s].op = "free"
    /\ agent' = [agent EXCEPT ![m] = "wait"]
    /\ req' = [req EXCEPT ![s] = [Free EXCEPT !.op = "ingest", !.m = m, !.pc = "auth",
                                     !.key = cred[m].key, !.client = TRUE]]
    /\ UNCHANGED <<ops, faults, storeVars, cred, cache, histVars>>

\* The new key is in memory; it is written through a temporary file.
Persist(m) ==
    /\ agent[m] = "persist"
    /\ cache' = [cache EXCEPT ![m] = cred[m]]
    /\ agent' = [agent EXCEPT ![m] = "ready"]
    /\ UNCHANGED <<ops, faults, storeVars, cred, req, histVars>>

PersistFails(m) ==
    /\ agent[m] = "persist" /\ Fault
    /\ agent' = [agent EXCEPT ![m] = "ready"]
    /\ UNCHANGED <<ops, storeVars, cred, cache, req, histVars>>

\* The agent stops waiting: its timeout, a broken connection or its death.
GiveUp(m, crash) ==
    /\ agent[m] \in IF crash THEN {"ready", "register", "wait", "persist"} ELSE {"wait"}
    /\ Fault
    /\ agent' = [agent EXCEPT ![m] = IF crash THEN "boot" ELSE "ready"]
    /\ cred' = IF crash THEN [cred EXCEPT ![m] = NoCred] ELSE cred
    /\ req' = [s \in Slots |-> IF req[s].op # "free" /\ req[s].m = m
                               THEN [req[s] EXCEPT !.client = FALSE] ELSE req[s]]
    /\ UNCHANGED <<ops, storeVars, cache, histVars>>

\* The agent is installed again: memory and data directory are empty.
Reinstall(m) ==
    /\ ops < MaxOps /\ agent[m] = "ready"
    /\ ops' = ops + 1
    /\ cred' = [cred EXCEPT ![m] = NoCred] /\ cache' = [cache EXCEPT ![m] = NoCred]
    /\ agent' = [agent EXCEPT ![m] = "boot"]
    /\ UNCHANGED <<faults, storeVars, req, histVars>>

(* POST /devices/register *)

CheckRegister(s) ==
    /\ req[s].op = "register" /\ req[s].pc = "check"
    /\ IF MachineBlocked(req[s].m)
       THEN Refuse(s) ELSE Go(s, "find") /\ UNCHANGED <<cred, agent>>
    /\ UNCHANGED <<ops, faults, storeVars, cache, histVars>>

\* Mutant: the address of the network card counts beside the hardware UUID.
RecoveryByAny(m) ==
    {d \in Devices : /\ dev[d].here
                     /\ \/ HW[m] # "" /\ dev[d].hw = HW[m]
                        \/ MAC[m] # "" /\ dev[d].mac = MAC[m]}

\* The rows that the recovery filter matches: the hardware UUID, and the
\* address of the network card only for a machine without one.
Recovery(m) ==
    {d \in Devices : /\ dev[d].here
                     /\ IF HW[m] # "" THEN dev[d].hw = HW[m]
                        ELSE MAC[m] # "" /\ dev[d].mac = MAC[m]}

FindRegister(s) ==
    /\ req[s].op = "register" /\ req[s].pc = "find"
    /\ \/ Recovery(req[s].m) = {} /\ Go(s, "insert")
       \/ \E d \in Recovery(req[s].m) :
            req' = [req EXCEPT ![s].pc = "recheck", ![s].dev = d]
    /\ UNCHANGED <<ops, faults, storeVars, agentVars, histVars>>

RecheckRegister(s) ==
    /\ req[s].op = "register" /\ req[s].pc = "recheck"
    /\ IF isDeviceRevoked(req[s].dev, HW[req[s].m], MAC[req[s].m])
       THEN Refuse(s) ELSE Go(s, "rotate") /\ UNCHANGED <<cred, agent>>
    /\ UNCHANGED <<ops, faults, storeVars, cache, histVars>>

\* rotateDeviceKey with the recovery filter: whatever row matches now gets
\* the key and the fingerprint, and the answer names the row found before.
\* The legacy field api_key stays.
rotateDeviceKey(s) ==
    LET m == req[s].m IN
    /\ req[s].op = "register" /\ req[s].pc = "rotate"
    /\ \/ /\ Recovery(m) = {} /\ Refuse(s) /\ dev' = dev
       \/ \E d \in Recovery(m) :
            /\ dev' = [dev EXCEPT ![d].key = generateAPIKey, ![d].hw = HW[m], ![d].mac = MAC[m]]
            /\ Tell(s, "persist", [dev |-> req[s].dev, key |-> generateAPIKey])
    /\ UNCHANGED <<ops, faults, revs, left, cache, histVars>>

\* A new row; the unique index on device_id may already know the device.
InsertDevice(s) ==
    LET m == req[s].m
        d == DeviceId(m)
    IN  /\ req[s].op = "register" /\ req[s].pc = "insert"
        /\ IF dev[d].here
           THEN Go(s, "resolve") /\ UNCHANGED <<dev, cred, agent>>
           ELSE /\ dev' = [dev EXCEPT ![d] = [NoRow EXCEPT !.here = TRUE, !.hw = HW[m],
                                                 !.mac = MAC[m], !.key = generateAPIKey]]
                /\ Tell(s, "persist", [dev |-> d, key |-> generateAPIKey])
        /\ UNCHANGED <<ops, faults, revs, left, cache, histVars>>

\* The stored record wins: its key is rotated, found by device_id.
ResolveRace(s) ==
    LET d == DeviceId(req[s].m) IN
    /\ req[s].op = "register" /\ req[s].pc = "resolve"
    /\ IF dev[d].here
       THEN /\ dev' = [dev EXCEPT ![d].key = generateAPIKey]
            /\ Tell(s, "persist", [dev |-> d, key |-> generateAPIKey])
       ELSE Refuse(s) /\ dev' = dev
    /\ UNCHANGED <<ops, faults, revs, left, cache, histVars>>

(* POST /ingest *)

\* resolveAPIKey: by hash; a legacy row by its plaintext key, which is then
\* replaced by its hash, whatever the hash was.
resolveAPIKey(k) == {d \in Devices : dev[d].here /\ ~dev[d].wiped /\ k # 0
                                     /\ (dev[d].key = k \/ dev[d].old = k)}

AuthIngest(s) ==
    LET found == resolveAPIKey(req[s].key) IN
    /\ req[s].op = "ingest" /\ req[s].pc = "auth"
    /\ \/ /\ found = {} /\ Tell(s, "register", cred[req[s].m]) /\ dev' = dev
       \/ \E d \in found :
            /\ req' = [req EXCEPT ![s].dev = d, ![s].pc = "check",
                                  ![s].blocked = d \in banned]
            /\ dev' = IF dev[d].key = req[s].key THEN dev
                      ELSE [dev EXCEPT ![d].key = req[s].key, ![d].old = 0]
            /\ UNCHANGED <<cred, agent>>
    /\ UNCHANGED <<ops, faults, revs, left, cache, histVars>>

\* Mutant: the block is looked up for new devices only.
CheckIngestSkipped(s) ==
    /\ req[s].op = "ingest" /\ req[s].pc = "check"
    /\ req' = [req EXCEPT ![s].pc = "store", ![s].n = 1]
    /\ UNCHANGED <<ops, faults, storeVars, agentVars, histVars>>

CheckIngest(s) ==
    /\ req[s].op = "ingest" /\ req[s].pc = "check"
    /\ IF isDeviceRevoked(req[s].dev, "", "")
       THEN Refuse(s)
       ELSE req' = [req EXCEPT ![s].pc = "store", ![s].n = 1] /\ UNCHANGED <<cred, agent>>
    /\ UNCHANGED <<ops, faults, storeVars, cache, histVars>>

\* The three archives count as one store, so do the daily rows and the focus cache.
IngestOrder == <<"archives", "telemetry", "devices", "usage">>

\* One store after the other; the upsert of the device row recreates it,
\* without key and fingerprint, if it was deleted meanwhile.
StoreIngest(s) ==
    LET d == req[s].dev
        n == req[s].n
        store == IngestOrder[n]
    IN  /\ req[s].op = "ingest" /\ req[s].pc = "store"
        /\ IF store = "devices"
           THEN dev' = [dev EXCEPT ![d].here = TRUE] /\ left' = left
           ELSE left' = [left EXCEPT ![d] = @ \cup {store}] /\ dev' = dev
        /\ IF n < Len(IngestOrder)
           THEN req' = [req EXCEPT ![s].n = n + 1] /\ UNCHANGED <<cred, agent>>
           ELSE Refuse(s)
        /\ UNCHANGED <<ops, faults, revs, cache, histVars>>

(* DELETE /devices/{id} and DELETE /devices/revocations/{id} *)

BeginDelete(d, s) ==
    /\ ops < MaxOps /\ req[s].op = "free" /\ dev[d].here
    /\ ops' = ops + 1
    /\ req' = [req EXCEPT ![s] = [Free EXCEPT !.op = "delete", !.dev = d, !.pc = "revoke",
                                     !.hw = dev[d].hw, !.mac = dev[d].mac]]
    /\ UNCHANGED <<faults, storeVars, agentVars, histVars>>

\* The identifiers of the row that was loaded; a document that any of them
\* matches is overwritten.
createDeviceRevocation(s) ==
    LET d == req[s].dev
        doc == [dev |-> d, hw |-> req[s].hw, mac |-> req[s].mac]
        same == {r \in revs : revokedDeviceFilter(r, d, doc.hw, doc.mac)}
    IN  /\ req[s].op = "delete" /\ req[s].pc = "revoke"
        /\ \/ same = {} /\ revs' = revs \cup {doc}
           \/ \E r \in same : revs' = (revs \ {r}) \cup {doc}
        /\ Go(s, "remove")
        /\ banned' = banned \cup {d}
        /\ UNCHANGED <<ops, faults, dev, left, agentVars, open, mess>>

RemoveDevice(s) ==
    LET d == req[s].dev IN
    /\ req[s].op = "delete" /\ req[s].pc = "remove"
    /\ dev' = [dev EXCEPT ![d] = NoRow]
    /\ req' = IF dev[d].here THEN [req EXCEPT ![s].pc = "purge", ![s].n = 1]
              ELSE [req EXCEPT ![s] = Free]
    /\ UNCHANGED <<ops, faults, revs, left, agentVars, histVars>>

DeleteOrder == <<"telemetry", "archives", "usage">>

InFlight(d) == \E s \in Slots : req[s].op = "ingest" /\ req[s].dev = d

\* An upload that is under way may store again what is being removed.
PurgeDevice(s) ==
    LET d == req[s].dev
        n == req[s].n
    IN  /\ req[s].op = "delete" /\ req[s].pc = "purge"
        /\ left' = [left EXCEPT ![d] = @ \ {DeleteOrder[n]}]
        /\ mess' = IF InFlight(d) THEN mess \cup {d} ELSE mess
        /\ req' = IF n < Len(DeleteOrder) THEN [req EXCEPT ![s].n = n + 1]
                  ELSE [req EXCEPT ![s] = Free]
        /\ UNCHANGED <<ops, faults, dev, revs, agentVars, banned, open>>

ClearRevocation(d) ==
    /\ ops < MaxOps /\ \E r \in revs : r.dev = d
    /\ ops' = ops + 1
    /\ revs' = {r \in revs : r.dev # d}
    /\ banned' = banned \ {d}
    /\ req' = [s \in Slots |-> [req[s] EXCEPT !.blocked = FALSE]]
    /\ UNCHANGED <<faults, dev, left, agentVars, open, mess>>

\* The result of a wipe is recorded: the row is marked as revoked.
WipeRecorded(d) ==
    /\ ops < MaxOps /\ dev[d].here
    /\ ops' = ops + 1
    /\ dev' = [dev EXCEPT ![d].wiped = TRUE]
    /\ UNCHANGED <<faults, revs, left, agentVars, req, histVars>>

(* Failing calls of the API. *)

\* isDeviceRevoked takes every error for "not revoked".
CheckFails(s) ==
    /\ req[s].pc \in {"check", "recheck"} /\ Fault
    /\ open' = open \cup {IF req[s].op = "ingest" THEN req[s].dev ELSE DeviceId(req[s].m)}
    /\ req' = [req EXCEPT ![s].pc = IF req[s].op = "ingest" THEN "store"
                                    ELSE IF req[s].pc = "check" THEN "find" ELSE "rotate",
                          ![s].n = IF req[s].op = "ingest" THEN 1 ELSE 0]
    /\ UNCHANGED <<ops, storeVars, agentVars, banned, mess>>

\* Every other error ends the request (a failing lookup in "find" counts as
\* an unknown device; one in "auth" as an unknown key).
HandlerFails(s) ==
    /\ req[s].op # "free" /\ req[s].pc \notin {"check", "recheck", "find"} /\ Fault
    /\ mess' = IF req[s].pc \in {"remove", "purge"} THEN mess \cup {req[s].dev} ELSE mess
    /\ IF req[s].op = "delete" THEN req' = [req EXCEPT ![s] = Free] /\ UNCHANGED <<cred, agent>>
       ELSE Tell(s, IF req[s].pc = "auth" THEN "register" ELSE "ready", cred[req[s].m])
    /\ UNCHANGED <<ops, storeVars, cache, banned, open>>

FindFails(s) ==
    /\ req[s].op = "register" /\ req[s].pc = "find" /\ Fault
    /\ Go(s, "insert")
    /\ UNCHANGED <<ops, storeVars, agentVars, histVars>>

\* The row of machine m, under its plaintext key if a migration has failed.
Row(m, k, old) == [NoRow EXCEPT !.here = TRUE, !.hw = HW[m], !.mac = MAC[m],
                                !.key = k, !.old = old]

\* Machines that are switched off were registered before; of those that are
\* on, one may be known from before the keys were hashed.
Init ==
    /\ ops = 0 /\ faults = 0
    /\ revs = {} /\ left = [d \in Devices |-> {}]
    /\ cred = [m \in Machines |-> NoCred]
    /\ req = [s \in Slots |-> Free] /\ banned = {} /\ open = {} /\ mess = {}
    /\ agent = [m \in Machines |-> IF m \in Agents THEN "boot" ELSE "off"]
    /\ \E legacy \in SUBSET Agents :
        /\ Cardinality(legacy) <= 1
        /\ dev = [d \in Devices |->
                    LET m == CHOOSE x \in Machines : DeviceId(x) = d
                    IN  IF m \in legacy THEN Row(m, 0, 1)
                        ELSE IF m \in Agents THEN NoRow ELSE Row(m, 2, 0)]
        /\ cache = [m \in Machines |-> IF m \in legacy THEN [dev |-> DeviceId(m), key |-> 1]
                                       ELSE NoCred]

Register(s) ==
    CheckRegister(s) \/ FindRegister(s) \/ RecheckRegister(s) \/ rotateDeviceKey(s)
    \/ InsertDevice(s) \/ ResolveRace(s)
Ingest(s) == AuthIngest(s) \/ CheckIngest(s) \/ StoreIngest(s)
Delete(s) == createDeviceRevocation(s) \/ RemoveDevice(s) \/ PurgeDevice(s)

AgentStep(m) == Boot(m) \/ Persist(m) \/ \E s \in Slots : SendRegister(m, s) \/ SendUpload(m, s)

Next ==
    \/ \E s \in Slots : \/ Register(s) \/ Ingest(s) \/ Delete(s)
                        \/ CheckFails(s) \/ HandlerFails(s) \/ FindFails(s)
                        \/ \E d \in Devices : BeginDelete(d, s)
    \/ \E m \in Agents : \/ AgentStep(m) \/ PersistFails(m) \/ Reinstall(m)
                         \/ \E crash \in BOOLEAN : GiveUp(m, crash)
    \/ \E d \in Devices : ClearRevocation(d) \/ WipeRecorded(d)

\* Handlers run, and the loops of the agents go on.
Fairness ==
    /\ \A s \in Slots : WF_vars(Register(s) \/ Ingest(s) \/ Delete(s))
    /\ \A m \in Agents : WF_vars(AgentStep(m))

Spec == Init /\ [][Next]_vars
FairSpec == Spec /\ Fairness

(* Properties. *)

Keys == 0 .. 2 * Cardinality(Devices) + 2 * Cardinality(Machines) + Cardinality(Slots) + 1
\* The type of every variable; a device without a row has neither key nor mark.
TypeOK ==
    /\ ops \in 0 .. MaxOps /\ faults \in 0 .. MaxFaults
    /\ banned \subseteq Devices /\ open \subseteq Devices /\ mess \subseteq Devices
    /\ \A d \in Devices :
        /\ left[d] \subseteq {"archives", "telemetry", "usage"}
        /\ dev[d].key \in Keys /\ dev[d].old \in Keys
        /\ ~dev[d].here => dev[d] = NoRow
    /\ \A r \in revs : r.dev \in Devices
    /\ \A m \in Machines :
        /\ agent[m] \in {"off", "boot", "register", "ready", "wait", "persist"}
        /\ cred[m].key \in Keys /\ cache[m].key \in Keys
    /\ \A s \in Slots : req[s].op \in {"free", "register", "ingest", "delete"}

\* Two machines never answer for one device, and a machine keeps its device
\* id through re-installation, lost answers and concurrent registrations,
\* even when it shares the address of its network card with another: recovery
\* by fingerprint (registerHandler) finds the machine's own row or none.  It
\* would fail for a machine without UUID whose address is also that of one
\* with a UUID: the code takes an address for a "stable hardware identity".
IdentityStable == \A m \in Machines : cred[m].dev \in {NoDevice, DeviceId(m)}

\* Every state is well formed, and no registration changes who a machine is.
IdentityInv == TypeOK /\ IdentityStable

\* When a deletion of d is over and its block stands, no data of d is left
\* or comes back, unless an upload was under way while the data was removed,
\* a step of the deletion failed, or the block could not be read.
DeletedIsGone ==
    \A d \in Devices :
        \/ d \in mess \cup open
        \/ ~ \E r \in revs : r.dev = d
        \/ \E s \in Slots : req[s].op = "delete" /\ req[s].dev = d
        \/ left[d] = {}

\* README: "A still-running agent on that machine cannot re-register [...]
\* unless the revocation is removed": a registration that began after the
\* deletion gets as far as a key only when the block was cleared.
BlockHolds ==
    \A s \in Slots : req[s].op = "register" /\ req[s].blocked
                     => req[s].pc \notin {"rotate", "insert", "resolve"}

\* A machine that is neither blocked nor wiped gets back, again and again, to
\* a key that the API accepts: lost answers, crashes between the new key and
\* the cache, stale caches and concurrent rotations do not lock it out.
Accepted(m) == cred[m].key # 0 /\ resolveAPIKey(cred[m].key) = {cred[m].dev}
ShutOut(m) == isDeviceRevoked(DeviceId(m), HW[m], MAC[m]) \/ dev[DeviceId(m)].wiped
MachineRecovers == \A m \in Agents : []<>(Accepted(m) \/ ShutOut(m))
=============================================================================
