------------------------------ MODULE Updates -------------------------------
(***************************************************************************)
(* Releases of the agent for one target (OS and architecture): the jobs    *)
(* that build them, the rows an administrator publishes, signs, activates  *)
(* and rolls out, the update check of the API and the updater in the agent *)
(* that downloads, verifies, swaps the binary and restarts.                *)
(*                                                                         *)
(* A binary is a version and the number of its build; the number stands    *)
(* for the checksum.  Build 0 came from a package and has no release.      *)
(***************************************************************************)
EXTENDS Integers, Sequences, FiniteSets

CONSTANTS
    Versions,      \* records: numeric parts and rank of the prerelease, 0 for none
    Devices,
    Keyed,         \* devices whose agent has a public key embedded
    FirstVersion,  \* FirstVersion[d]: what d runs at first
    requireActivation, requireSignature, serverSigns,   \* settings of the API
    None,
    MaxBuilds, MaxOps, MaxFaults   \* bounds

Binary == [version : Versions, build : 0..MaxBuilds]
AgentRelease == [version : Versions, build : 0..MaxBuilds, at : Nat, pending : BOOLEAN, sig : 0..MaxBuilds]

ASSUME UpdatesAssumption ==
    /\ Versions \subseteq [parts : Seq(Nat), pre : Nat]
    /\ FirstVersion \in [Devices -> Versions]
    /\ Keyed \subseteq Devices
    /\ {requireActivation, requireSignature, serverSigns} \subseteq BOOLEAN
    /\ {MaxBuilds, MaxOps, MaxFaults} \subseteq Nat
    /\ None \notin Binary /\ None \notin AgentRelease

VARIABLES
    rows,      \* agent_releases
    objects,   \* objects[v]: build of the binary in S3 under the key of v, 0 for none
    clock,     \* published_at of the next row
    jobs,      \* jobs[b]: the build job with number b
    ops, faults,
    windows,   \* devices where a running binary cannot be overwritten
    device,    \* device[d]: the fields of the row that the update check uses
    exe, old,  \* files of d: the binary, and on Windows the one moved aside
    aside,     \* the image that runs on d is the file moved aside
    running,   \* the binary that runs on d
    check,     \* check[d][t]: the update check of thread t
    released,  \* history: binaries that were part of a release not held back
    asked,     \* history: versions d was marked with, by a rollout or an offer
    downgrades,\* history: older versions the updater took a device to
    lost       \* history: d died between the two renames, or both of them failed

releaseVars == <<rows, objects, clock, jobs>>
machineVars == <<windows, exe, old, aside, running, lost>>
ghosts == <<released, asked, downgrades>>
vars == <<releaseVars, ops, faults, device, machineVars, check, ghosts>>

Threads == {"poller", "immediate"}
Statuses == {"none", "checking", "up_to_date", "update_available", "update_requested"}
AgentBuildJob == [version : Versions,
                  status : {"queued", "building", "publishing", "published", "failed", "abandoned"}]
BinaryOf(r) == [version |-> r.version, build |-> r.build]
NoCheck == [pc |-> "idle", rel |-> None]

(* Versions. *)

PartAt(v, i) == IF i <= Len(v.parts) THEN v.parts[i] ELSE 0
Sign(n) == IF n > 0 THEN 1 ELSE IF n < 0 THEN -1 ELSE 0

\* Missing parts count as zero; a release outranks its prereleases.
compareAgentVersions(a, b) ==
    LET differ == {i \in 1..(Len(a.parts) + Len(b.parts)) : PartAt(a, i) # PartAt(b, i)}
    IN  IF differ # {}
        THEN LET i == CHOOSE i \in differ : \A j \in differ : i <= j
             IN  Sign(PartAt(a, i) - PartAt(b, i))
        ELSE IF a.pre = b.pre THEN 0
        ELSE IF a.pre = 0 THEN 1
        ELSE IF b.pre = 0 THEN -1
        ELSE Sign(a.pre - b.pre)

Newer(v, w) == compareAgentVersions(v, w) > 0

(* Build jobs: one goroutine each, one at a time under agentBuildMu. *)

agentBuildMu == \A b \in DOMAIN jobs : jobs[b].status \notin {"building", "publishing"}

setAgentBuildJob(b, status) == jobs' = [jobs EXCEPT ![b].status = status]

createAgentBuildJob(v) ==
    /\ Len(jobs) < MaxBuilds
    /\ jobs' = Append(jobs, [version |-> v, status |-> "queued"])
    /\ UNCHANGED <<rows, objects, clock, ops, faults, device, machineVars, check, ghosts>>

StartBuild(b) ==
    /\ jobs[b].status = "queued" /\ agentBuildMu
    /\ setAgentBuildJob(b, "building")
    /\ UNCHANGED <<rows, objects, clock, ops, faults, device, machineVars, check, ghosts>>

\* The script has run and the binary is uploaded.  The key holds the version
\* and not the build: a second build of a version replaces the first.
uploadAgentBuildArtifacts(b) ==
    /\ jobs[b].status = "building"
    /\ objects' = [objects EXCEPT ![jobs[b].version] = b]
    /\ setAgentBuildJob(b, "publishing")
    /\ UNCHANGED <<rows, clock, ops, faults, device, machineVars, check, ghosts>>

\* A new row; it is held back if releases have to be activated.
Insert(v, build, sig) ==
    LET r == [version |-> v, build |-> build, at |-> clock,
              pending |-> requireActivation, sig |-> sig]
    IN  /\ rows' = rows \cup {r}
        /\ clock' = clock + 1
        /\ released' = IF r.pending THEN released ELSE released \cup {BinaryOf(r)}

publishAgentArtifacts(b) ==
    /\ jobs[b].status = "publishing"
    /\ Insert(jobs[b].version, b, IF serverSigns THEN b ELSE 0)
    /\ setAgentBuildJob(b, "published")
    /\ UNCHANGED <<objects, ops, faults, device, machineVars, check, asked, downgrades>>

failAgentBuildJob(b) ==
    /\ jobs[b].status \in {"building", "publishing"} /\ faults < MaxFaults
    /\ faults' = faults + 1
    /\ setAgentBuildJob(b, "failed")
    /\ UNCHANGED <<rows, objects, clock, ops, device, machineVars, check, ghosts>>

(* The administrator. *)

Operation == ops < MaxOps /\ ops' = ops + 1
OfVersion(v) == {r \in rows : r.version = v}

\* A row written by hand for the binary that is stored under the version.
releasePublishHandler(v) ==
    /\ Operation /\ objects[v] # 0
    /\ Insert(v, objects[v], 0)
    /\ UNCHANGED <<objects, jobs, faults, device, machineVars, check, asked, downgrades>>

\* Every row of the version is published again at the same moment.
releaseActivateHandler(v) ==
    /\ Operation /\ OfVersion(v) # {}
    /\ rows' = {IF r.version = v THEN [r EXCEPT !.at = clock, !.pending = FALSE] ELSE r : r \in rows}
    /\ clock' = clock + 1
    /\ released' = released \cup {BinaryOf(r) : r \in OfVersion(v)}
    /\ UNCHANGED <<objects, jobs, faults, device, machineVars, check, asked, downgrades>>

\* The operator has configured the public key: a signature fits one build.
verifyReleaseSignature(r, sig) == sig = r.build

\* A signature made offline is checked against one row of the version and
\* stored in all of them.
releaseSignatureHandler(v) ==
    /\ Operation
    /\ \E r \in OfVersion(v), sig \in 1..MaxBuilds :
          /\ verifyReleaseSignature(r, sig)
          /\ rows' = {IF s.version = v THEN [s EXCEPT !.sig = sig] ELSE s : s \in rows}
    /\ UNCHANGED <<objects, clock, jobs, faults, device, machineVars, check, ghosts>>

Live == {r \in rows : ~r.pending}

\* The release of a rollout: the active one, or one of the highest version.
RolledOut(useActive, r) ==
    \A s \in Live : IF useActive THEN s.at <= r.at
                    ELSE ~Newer(s.version, r.version)
                         /\ (Newer(r.version, s.version) \/ s.at <= r.at)

\* Every device that reports another version is marked, older or newer.
releaseRolloutLatestHandler(useActive) ==
    /\ Operation
    /\ \E r \in Live :
          /\ RolledOut(useActive, r)
          /\ rows' = IF useActive THEN rows
                     ELSE {IF s.version = r.version THEN [s EXCEPT !.at = clock] ELSE s : s \in rows}
          /\ LET marked == {d \in Devices : device[d].version # r.version} IN
             /\ device' = [d \in Devices |-> IF d \notin marked THEN device[d]
                              ELSE [device[d] EXCEPT !.status = "update_requested",
                                                     !.requested = TRUE, !.target = r.version]]
             /\ asked' = [d \in Devices |-> asked[d] \cup
                            (IF d \in marked THEN {[version |-> r.version,
                                                    by |-> IF useActive THEN "active" ELSE "latest"]}
                             ELSE {})]
    /\ clock' = clock + 1
    /\ UNCHANGED <<objects, jobs, faults, machineVars, check, released, downgrades>>

(* The update check. *)

\* The newest row that is not held back; rows of the same moment come in any order.
Offerable == {r \in Live : requireSignature => r.sig # 0}
Latest == {r \in Offerable : \A s \in Offerable : s.at <= r.at}

deviceTargetsRelease(d, v) == device[d].requested /\ device[d].target = v

\* Mutant: any other version is an update.
OfferOther(d, v) == v # running[d].version

\* Mutant: only a rollout leads to an update.
OfferRequested(d, v) == deviceTargetsRelease(d, v)

\* An older version is offered only to a device that a rollout asked for it.
Offer(d, v) ==
    \/ Newer(v, running[d].version)
    \/ Newer(running[d].version, v) /\ deviceTargetsRelease(d, v)

\* The poller asks every five minutes; an upload that is answered with
\* check_update_now starts a check of its own.  The API notes the version of
\* the device and looks for a release.
updateCheckHandler(d, t) ==
    /\ check[d][t].pc = "idle" /\ running[d] # None
    /\ t = "immediate" => device[d].status = "update_requested"
    /\ device' = [device EXCEPT ![d].version = running[d].version, ![d].status = "checking"]
    /\ \/ \E r \in Latest :
             check' = [check EXCEPT ![d][t] = [pc |-> "mark",
                          rel |-> IF Offer(d, r.version) THEN r ELSE None]]
       \/ Latest = {} /\ check' = [check EXCEPT ![d][t].pc = "mark"]
    /\ UNCHANGED <<releaseVars, ops, faults, machineVars, ghosts>>

\* verifyRelease in the agent.
verifyRelease(d, r) == d \in Keyed => r.sig = r.build

\* The API writes the outcome to the row and answers; nothing to install also
\* ends a rollout that was requested meanwhile, and an offer replaces the
\* version that was requested.
markAgentUpdateStatus(d, t) ==
    /\ check[d][t].pc = "mark"
    /\ LET rel == check[d][t].rel IN
       IF rel = None
       THEN /\ device' = [device EXCEPT ![d].status = "up_to_date", ![d].target = None,
                                        ![d].requested = FALSE]
            /\ check' = [check EXCEPT ![d][t] = NoCheck]
            /\ UNCHANGED asked
       ELSE /\ device' = [device EXCEPT ![d].status = "update_available", ![d].target = rel.version]
            /\ asked' = [asked EXCEPT ![d] = @ \cup
                            (IF device[d].requested THEN {[version |-> rel.version, by |-> "offer"]} ELSE {})]
            /\ check' = [check EXCEPT ![d][t] =
                            IF verifyRelease(d, rel) THEN [@ EXCEPT !.pc = "download"] ELSE NoCheck]
    /\ UNCHANGED <<releaseVars, ops, faults, machineVars, released, downgrades>>

\* Where the release is stored; the address that the API signs names the key.
agentReleaseS3Key(r) == r.version
agentReleaseDownloadURL(r) == objects[agentReleaseS3Key(r)]

\* Mutant: the checksum is not compared.
MatchesUnchecked(r) == TRUE

Matches(r) == agentReleaseDownloadURL(r) = r.build

\* What arrives is the binary that is stored now.
Download(d, t) ==
    /\ check[d][t].pc = "download"
    /\ LET rel == check[d][t].rel IN
       check' = [check EXCEPT ![d][t] = IF ~Matches(rel) THEN NoCheck
                   ELSE [pc |-> "swap", rel |-> [rel EXCEPT !.build = agentReleaseDownloadURL(rel)]]]
    /\ UNCHANGED <<releaseVars, ops, faults, device, machineVars, ghosts>>

\* A lost answer, a download that breaks off, a full disk.
CheckFails(d, t) ==
    /\ check[d][t].pc \in {"mark", "download", "swap"} /\ faults < MaxFaults
    /\ faults' = faults + 1
    /\ check' = [check EXCEPT ![d][t] = NoCheck]
    /\ UNCHANGED <<releaseVars, ops, device, machineVars, ghosts>>

(* The binary is replaced. *)

SwapUnix(d, t) ==
    /\ check[d][t].pc = "swap" /\ d \notin windows
    /\ exe' = [exe EXCEPT ![d] = BinaryOf(check[d][t].rel)]
    /\ check' = [check EXCEPT ![d][t].pc = "relaunch"]
    /\ UNCHANGED <<releaseVars, ops, faults, device, windows, old, aside, running, lost, ghosts>>

\* Windows: the running image can be renamed but neither removed nor replaced,
\* so a second swap of the same process stops at the first rename.
MoveAside(d, t) ==
    /\ check[d][t].pc = "swap" /\ d \in windows
    /\ IF aside[d] \/ exe[d] = None
       THEN /\ check' = [check EXCEPT ![d][t] = NoCheck]
            /\ UNCHANGED <<exe, old, aside>>
       ELSE /\ old' = [old EXCEPT ![d] = exe[d]] /\ exe' = [exe EXCEPT ![d] = None]
            /\ aside' = [aside EXCEPT ![d] = TRUE]
            /\ check' = [check EXCEPT ![d][t].pc = "install"]
    /\ UNCHANGED <<releaseVars, ops, faults, device, windows, running, lost, ghosts>>

InstallNew(d, t) ==
    /\ check[d][t].pc = "install"
    /\ exe' = [exe EXCEPT ![d] = BinaryOf(check[d][t].rel)]
    /\ check' = [check EXCEPT ![d][t].pc = "relaunch"]
    /\ UNCHANGED <<releaseVars, ops, faults, device, windows, old, aside, running, lost, ghosts>>

\* Mutant: an install that fails leaves the old binary aside.
NoRollback(d) == UNCHANGED <<exe, old, aside>>

Rollback(d) ==
    /\ exe' = [exe EXCEPT ![d] = old[d]]
    /\ old' = [old EXCEPT ![d] = None] /\ aside' = [aside EXCEPT ![d] = FALSE]

\* The second rename fails and the first is undone, unless that fails as well.
InstallFails(d, t) ==
    /\ check[d][t].pc = "install" /\ faults < MaxFaults
    /\ faults' = faults + 1
    /\ \/ Rollback(d) /\ lost' = lost
       \/ lost' = lost \cup {d} /\ UNCHANGED <<exe, old, aside>>
    /\ check' = [check EXCEPT ![d][t] = NoCheck]
    /\ UNCHANGED <<releaseVars, ops, device, windows, running, ghosts>>

\* The process starts again from the file, all threads of the old one end; on
\* Windows the poller of the new process removes what was moved aside.
Started(d) ==
    /\ running' = [running EXCEPT ![d] = exe[d]]
    /\ check' = [check EXCEPT ![d] = [t \in Threads |-> NoCheck]]
    /\ old' = [old EXCEPT ![d] = None] /\ aside' = [aside EXCEPT ![d] = FALSE]

Relaunch(d, t) ==
    /\ check[d][t].pc = "relaunch"
    /\ Started(d)
    /\ downgrades' = IF Newer(running[d].version, exe[d].version)
                     THEN downgrades \cup {[device |-> d, version |-> exe[d].version]} ELSE downgrades
    /\ UNCHANGED <<releaseVars, ops, faults, device, windows, exe, lost, released, asked>>

\* The machine is switched off and on.  Without a binary nothing starts.
Reboot(d) ==
    /\ faults < MaxFaults /\ running[d] # None
    /\ faults' = faults + 1
    /\ Started(d)
    /\ lost' = IF exe[d] = None THEN lost \cup {d} ELSE lost
    /\ UNCHANGED <<releaseVars, ops, device, windows, exe, ghosts>>

\* Somebody installs a package, which stops the service and starts it again.
InstallPackage(d, v) ==
    /\ Operation /\ running[d] # None /\ exe[d] # None /\ v # exe[d].version
    /\ exe' = [exe EXCEPT ![d] = [version |-> v, build |-> 0]]
    /\ running' = [running EXCEPT ![d] = exe'[d]]
    /\ check' = [check EXCEPT ![d] = [t \in Threads |-> NoCheck]]
    /\ old' = [old EXCEPT ![d] = None] /\ aside' = [aside EXCEPT ![d] = FALSE]
    /\ UNCHANGED <<releaseVars, faults, device, windows, lost, ghosts>>

\* The API restarts: checks fail, and nothing takes up the jobs again.
RestartApi ==
    /\ faults < MaxFaults
    /\ faults' = faults + 1
    /\ jobs' = [b \in DOMAIN jobs |-> IF jobs[b].status \in {"published", "failed"} THEN jobs[b]
                                      ELSE [jobs[b] EXCEPT !.status = "abandoned"]]
    /\ check' = [d \in Devices |-> [t \in Threads |->
                   IF check[d][t].pc = "mark" THEN NoCheck ELSE check[d][t]]]
    /\ UNCHANGED <<rows, objects, clock, ops, device, machineVars, ghosts>>

-----------------------------------------------------------------------------
Init ==
    /\ rows = {} /\ objects = [v \in Versions |-> 0] /\ clock = 1 /\ jobs = <<>>
    /\ ops = 0 /\ faults = 0 /\ windows \in SUBSET Devices
    /\ device = [d \in Devices |-> [version |-> FirstVersion[d], status |-> "none",
                                    target |-> None, requested |-> FALSE]]
    /\ running = [d \in Devices |-> [version |-> FirstVersion[d], build |-> 0]]
    /\ exe = running /\ old = [d \in Devices |-> None] /\ aside = [d \in Devices |-> FALSE]
    /\ check = [d \in Devices |-> [t \in Threads |-> NoCheck]]
    /\ released = {} /\ asked = [d \in Devices |-> {}] /\ downgrades = {} /\ lost = {}

BuildStep(b) ==
    StartBuild(b) \/ uploadAgentBuildArtifacts(b) \/ publishAgentArtifacts(b)

CheckStep(d, t) ==
    \/ markAgentUpdateStatus(d, t) \/ Download(d, t)
    \/ SwapUnix(d, t) \/ MoveAside(d, t) \/ InstallNew(d, t) \/ Relaunch(d, t)

Next ==
    \/ \E v \in Versions :
          \/ createAgentBuildJob(v) \/ releasePublishHandler(v) \/ releaseActivateHandler(v)
          \/ releaseSignatureHandler(v) \/ \E d \in Devices : InstallPackage(d, v)
    \/ \E useActive \in BOOLEAN : releaseRolloutLatestHandler(useActive)
    \/ \E b \in DOMAIN jobs : BuildStep(b) \/ failAgentBuildJob(b)
    \/ \E d \in Devices, t \in Threads :
          updateCheckHandler(d, t) \/ CheckStep(d, t) \/ CheckFails(d, t) \/ InstallFails(d, t)
    \/ \E d \in Devices : Reboot(d)
    \/ RestartApi

Spec == Init /\ [][Next]_vars

\* A job that was started is worked off, the poller never stops, and a check
\* that has begun goes on.
Fairness ==
    /\ WF_vars(\E b \in DOMAIN jobs : BuildStep(b))
    /\ \A d \in Devices :
          /\ WF_vars(updateCheckHandler(d, "poller"))
          /\ \A t \in Threads : WF_vars(CheckStep(d, t))
FairSpec == Spec /\ Fairness

-----------------------------------------------------------------------------
\* The type of the state; on Windows an image moved aside is still the file
\* that was renamed, and at most one check of a device is between two renames.
TypeOK ==
    /\ rows \subseteq AgentRelease /\ \A r \in rows : r.at < clock
    /\ objects \in [Versions -> 0..MaxBuilds]
    /\ \A b \in DOMAIN jobs : jobs[b] \in AgentBuildJob
    /\ device \in [Devices -> [version : Versions, status : Statuses,
                               target : Versions \cup {None}, requested : BOOLEAN]]
    /\ {exe[d] : d \in Devices} \cup {running[d] : d \in Devices} \cup {old[d] : d \in Devices}
          \subseteq Binary \cup {None}
    /\ \A d \in Devices : /\ aside[d] => old[d] # None
                          /\ Cardinality({t \in Threads : check[d][t].pc = "install"}) <= 1

\* Whatever was rebuilt, overwritten, held back or activated in between, a
\* device runs only a binary from a package or one of a release that was not
\* held back at some time before.
OnlyReleased ==
    \A d \in Devices : running[d] # None => running[d].build = 0 \/ running[d] \in released

\* Every state is well formed, and no device runs what nobody released.
ReleaseInv == TypeOK /\ OnlyReleased

\* The updater takes a device to an older version only if the device was
\* marked with that version: by a rollout, or by an offer made while the mark
\* of a rollout stood.
NoSurpriseDowngrade ==
    \A x \in downgrades : x.version \in {a.version : a \in asked[x.device]}

\* One failing rename, two checks at once or a reboot leave a binary to start,
\* except a reboot between the two renames or a rollback that fails as well.
Bootable ==
    \A d \in Devices : exe[d] = None => d \in lost \/ \E t \in Threads : check[d][t].pc = "install"

\* An installable release is newer than what d runs.
Behind(d) ==
    /\ running[d] # None /\ exe[d] # None /\ Latest # {}
    /\ \A r \in Latest : Matches(r) /\ verifyRelease(d, r) /\ Newer(r.version, running[d].version)

\* A device does not stay behind an installable release for ever.
CatchesUp == \A d \in Devices : []<>~Behind(d)

\* What the comment on deviceTargetsRelease says, "a rollout explicitly
\* requested this version": an offer that replaces the requested version and is
\* not installed counts as a request after a package took the device past it.
OnlyRequestedDowngrades ==
    \A x \in downgrades :
        \E a \in asked[x.device] : a.version = x.version /\ a.by \in {"active", "latest"}

\* A device is taken to an older version only by a rollback: the comment on the
\* rollout says that it marks older devices, the README that there are no
\* downgrades.
OnlyRollbackDowngrades ==
    \A x \in downgrades : [version |-> x.version, by |-> "active"] \in asked[x.device]
=============================================================================
