--------------------------- MODULE Updates_proofs ---------------------------
(***************************************************************************)
(* Proofs about releases and the updater, for any versions, devices and    *)
(* numbers of builds, operations and failures: a device runs only what was *)
(* released, it is not taken to a version it was not marked with when that *)
(* is older, and a binary to start remains.                                *)
(***************************************************************************)
EXTENDS Updates, FiniteSetTheorems, SequenceTheorems, WellFoundedInduction, TLAPS

LEMMA Constants ==
    /\ MaxBuilds \in Nat /\ MaxOps \in Nat /\ MaxFaults \in Nat
    /\ None \notin Binary /\ None \notin AgentRelease
    /\ FirstVersion \in [Devices -> Versions]
    /\ \A v \in Versions : v.parts \in Seq(Nat) /\ v.pre \in Nat
    /\ requireActivation \in BOOLEAN
BY UpdatesAssumption

(* The order of versions. *)

LEMMA LeastNat ==
    ASSUME NEW T, T \subseteq Nat, T # {}
    PROVE  \E x \in T : \A y \in T : x <= y
<1> DEFINE R == {ss \in Nat \X Nat : ss[1] < ss[2]}
<1>1. IsWellFoundedOn(R, Nat)
  BY NatLessThanWellFounded DEF OpToRel
<1>2. \A x, y \in Nat : x < y => <<x, y>> \in R
  OBVIOUS
<1> HIDE DEF R
<1>3. PICK x \in T : \A y \in T : ~(<<y, x>> \in R)
  BY <1>1, WFMin
<1>4. \A y \in T : ~(y < x)
  BY <1>2, <1>3
<1> QED
  BY <1>4

LEMMA PartNat ==
    ASSUME NEW v \in Versions, NEW i \in Nat \ {0}
    PROVE  PartAt(v, i) \in Nat
<1>1. v.parts \in Seq(Nat)
  BY Constants
<1>2. CASE i <= Len(v.parts)
  BY <1>1, <1>2 DEF PartAt
<1>3. CASE ~(i <= Len(v.parts))
  BY <1>3 DEF PartAt
<1> QED
  BY <1>2, <1>3

\* Two comparisons of the same versions look at the same part.
LEMMA CompareParts ==
    ASSUME NEW a \in Versions, NEW b \in Versions
    PROVE  \/ /\ compareAgentVersions(a, b) =
                    (IF a.pre = b.pre THEN 0 ELSE IF a.pre = 0 THEN 1
                     ELSE IF b.pre = 0 THEN -1 ELSE Sign(a.pre - b.pre))
              /\ compareAgentVersions(b, a) =
                    (IF b.pre = a.pre THEN 0 ELSE IF b.pre = 0 THEN 1
                     ELSE IF a.pre = 0 THEN -1 ELSE Sign(b.pre - a.pre))
           \/ \E x \in Nat, y \in Nat : /\ x # y
                                        /\ compareAgentVersions(a, b) = Sign(x - y)
                                        /\ compareAgentVersions(b, a) = Sign(y - x)
<1> DEFINE Differ == {i \in 1 .. (Len(a.parts) + Len(b.parts)) : PartAt(a, i) # PartAt(b, i)}
           Mirror == {i \in 1 .. (Len(b.parts) + Len(a.parts)) : PartAt(b, i) # PartAt(a, i)}
<1>1. PICK m \in Nat, n \in Nat : m = Len(a.parts) /\ n = Len(b.parts)
  BY Constants
<1>2. Differ = Mirror
  <2>1. 1 .. (m + n) = 1 .. (n + m)
    OBVIOUS
  <2> QED
    BY <1>1, <2>1, Zenon
<1>3. Differ \subseteq Nat \ {0}
  <2>1. 1 .. (m + n) \subseteq Nat \ {0}
    OBVIOUS
  <2> QED
    BY <1>1, <2>1
<1>4. CASE Differ = {}
  BY <1>2, <1>4 DEF compareAgentVersions
<1>5. CASE Differ # {}
  <2> DEFINE i == CHOOSE i \in Differ : \A j \in Differ : i <= j
  <2>1. i \in Differ
    <3>1. \E k \in Differ : \A j \in Differ : k <= j
      BY <1>3, <1>5, LeastNat
    <3> QED
      BY <3>1
  <2>2. PICK x \in Nat, y \in Nat : x = PartAt(a, i) /\ y = PartAt(b, i)
    BY <1>3, <2>1, PartNat
  <2>3. x # y
    BY <2>1, <2>2
  <2>4. compareAgentVersions(a, b) = Sign(PartAt(a, i) - PartAt(b, i))
    BY <1>5 DEF compareAgentVersions
  <2>5. compareAgentVersions(b, a) = Sign(PartAt(b, i) - PartAt(a, i))
    <3>1. Mirror # {} /\ i = (CHOOSE k \in Mirror : \A j \in Mirror : k <= j)
      BY <1>2, <1>5
    <3> QED
      BY <3>1 DEF compareAgentVersions
  <2> HIDE DEF i
  <2> QED
    BY <2>2, <2>3, <2>4, <2>5
<1> QED
  BY <1>4, <1>5

\* No version is newer than itself, and of two at most one is the newer: the
\* test for an update and the test for a rollback never both succeed.
THEOREM NewerIsStrict ==
    ASSUME NEW a \in Versions, NEW b \in Versions
    PROVE  ~Newer(a, a) /\ (Newer(a, b) => ~Newer(b, a))
<1>1. a.pre \in Nat /\ b.pre \in Nat
  BY Constants
<1>2. ~Newer(a, a)
  BY CompareParts, <1>1 DEF Newer, Sign
<1>3. Newer(a, b) => ~Newer(b, a)
  BY CompareParts, <1>1 DEF Newer, Sign
<1> QED
  BY <1>2, <1>3

-----------------------------------------------------------------------------
(* Types. *)

Later == {"download", "swap", "install", "relaunch"}
Checks == [pc : {"idle", "mark"} \cup Later, rel : AgentRelease \cup {None}]
DeviceRows == [version : Versions, status : Statuses,
               target : Versions \cup {None}, requested : BOOLEAN]
Marks == [version : Versions, by : {"active", "latest", "offer"}]

RowsTyped ==
    /\ rows \subseteq AgentRelease /\ (\A r \in rows : r.at < clock) /\ clock \in Nat
    /\ objects \in [Versions -> 0 .. MaxBuilds]
JobsTyped == jobs \in Seq(AgentBuildJob) /\ Len(jobs) <= MaxBuilds
DeviceTyped ==
    /\ device \in [Devices -> DeviceRows]
    /\ asked \in [Devices -> SUBSET Marks]
MachineTyped ==
    /\ exe \in [Devices -> Binary \cup {None}] /\ old \in [Devices -> Binary \cup {None}]
    /\ running \in [Devices -> Binary \cup {None}] /\ aside \in [Devices -> BOOLEAN]
CheckTyped ==
    /\ check \in [Devices -> [Threads -> Checks]]
    /\ \A d \in Devices, t \in Threads :
        /\ check[d][t].pc = "idle" => check[d][t] = NoCheck
        /\ check[d][t].pc \in Later => check[d][t].rel # None
        /\ check[d][t].pc # "idle" => running[d] # None

TypeInv == RowsTyped /\ JobsTyped /\ DeviceTyped /\ MachineTyped /\ CheckTyped

\* Thread t of device d goes on to x, or all threads of d end.
Sets(d, t, x) ==
    /\ x \in Checks
    /\ check' \in [Devices -> [Threads -> Checks]] /\ check'[d][t] = x
    /\ \A e \in Devices, u \in Threads : e # d \/ u # t => check'[e][u] = check[e][u]
Resets(d) ==
    /\ check' \in [Devices -> [Threads -> Checks]]
    /\ \A u \in Threads : check'[d][u] = NoCheck
    /\ \A e \in Devices, u \in Threads : e # d => check'[e][u] = check[e][u]

LEMMA NoCheckTyped == NoCheck \in Checks /\ NoCheck.pc = "idle" /\ NoCheck.rel = None
BY DEF NoCheck, Checks

LEMMA SetsCheck ==
    ASSUME CheckTyped, NEW d \in Devices, NEW t \in Threads, NEW x \in Checks,
           check' = [check EXCEPT ![d][t] = x]
    PROVE  Sets(d, t, x)
<1>1. PICK f : f = [check[d] EXCEPT ![t] = x]
  OBVIOUS
<1>2. check' = [check EXCEPT ![d] = f]
  BY <1>1
<1>3. check[d] \in [Threads -> Checks]
  BY DEF CheckTyped
<1>4. f \in [Threads -> Checks] /\ f[t] = x /\ \A u \in Threads : u # t => f[u] = check[d][u]
  BY <1>1, <1>3
<1>5. check' \in [Devices -> [Threads -> Checks]] /\ check'[d] = f
      /\ \A e \in Devices : e # d => check'[e] = check[e]
  BY <1>2, <1>4 DEF CheckTyped
<1> QED
  BY <1>4, <1>5 DEF Sets

LEMMA ResetsCheck ==
    ASSUME CheckTyped, NEW d \in Devices,
           check' = [check EXCEPT ![d] = [t \in Threads |-> NoCheck]]
    PROVE  Resets(d)
<1>1. PICK f : f = [t \in Threads |-> NoCheck]
  OBVIOUS
<1>2. f \in [Threads -> Checks] /\ \A u \in Threads : f[u] = NoCheck
  BY <1>1, NoCheckTyped
<1>3. check' \in [Devices -> [Threads -> Checks]] /\ check'[d] = f
      /\ \A e \in Devices : e # d => check'[e] = check[e]
  BY <1>1, <1>2 DEF CheckTyped
<1> QED
  BY <1>2, <1>3 DEF Resets

\* The check of thread t, and what becomes of it when only pc changes.
LEMMA Moves ==
    ASSUME CheckTyped, NEW d \in Devices, NEW t \in Threads,
           NEW pc \in {"idle", "mark"} \cup Later,
           check' = [check EXCEPT ![d][t].pc = pc]
    PROVE  \E x \in Checks : Sets(d, t, x) /\ x.pc = pc /\ x.rel = check[d][t].rel
<1>1. PICK c \in Checks : c = check[d][t]
  BY DEF CheckTyped
<1>2. PICK x : x = [c EXCEPT !.pc = pc]
  OBVIOUS
<1>3. x \in Checks /\ x.pc = pc /\ x.rel = c.rel
  BY <1>2 DEF Checks
<1>4. check' = [check EXCEPT ![d][t] = x]
  BY <1>1, <1>2
<1> QED
  BY <1>1, <1>3, <1>4, SetsCheck

(* What each step does to the checks. *)

LEMMA BeginSets ==
    ASSUME TypeInv, NEW d \in Devices, NEW t \in Threads, updateCheckHandler(d, t)
    PROVE  /\ check[d][t] = NoCheck
           /\ \E x \in Checks : /\ Sets(d, t, x) /\ x.pc = "mark"
                                /\ x.rel = None \/ (x.rel \in Latest /\ Offer(d, x.rel.version))
<1>1. check[d][t] = NoCheck /\ CheckTyped
  BY DEF updateCheckHandler, TypeInv, CheckTyped
<1>2. ASSUME NEW r \in Latest,
             check' = [check EXCEPT ![d][t] = [pc |-> "mark",
                          rel |-> IF Offer(d, r.version) THEN r ELSE None]]
      PROVE  \E x \in Checks : /\ Sets(d, t, x) /\ x.pc = "mark"
                               /\ x.rel = None \/ (x.rel \in Latest /\ Offer(d, x.rel.version))
  <2>1. PICK x : x = [pc |-> "mark", rel |-> IF Offer(d, r.version) THEN r ELSE None]
    OBVIOUS
  <2>2. r \in AgentRelease
    BY DEF Latest, Offerable, Live, TypeInv, RowsTyped
  <2>3. x \in Checks /\ x.pc = "mark"
        /\ (x.rel = None \/ (x.rel \in Latest /\ Offer(d, x.rel.version)))
    BY <2>1, <2>2 DEF Checks
  <2> QED
    BY <1>1, <1>2, <2>1, <2>3, SetsCheck
<1>3. ASSUME check' = [check EXCEPT ![d][t].pc = "mark"]
      PROVE  \E x \in Checks : Sets(d, t, x) /\ x.pc = "mark" /\ x.rel = None
  <2>0. "mark" \in {"idle", "mark"} \cup Later
    OBVIOUS
  <2>1. PICK x \in Checks : Sets(d, t, x) /\ x.pc = "mark" /\ x.rel = check[d][t].rel
    BY <1>1, <1>3, <2>0, Moves, Zenon
  <2> QED
    BY <1>1, <2>1, NoCheckTyped
<1> QED
  BY <1>1, <1>2, <1>3 DEF updateCheckHandler

LEMMA MarkSets ==
    ASSUME TypeInv, NEW d \in Devices, NEW t \in Threads, markAgentUpdateStatus(d, t)
    PROVE  \E x \in Checks :
               /\ Sets(d, t, x)
               /\ \/ x = NoCheck
                  \/ /\ check[d][t].rel # None
                     /\ x.pc = "download" /\ x.rel = check[d][t].rel
<1>1. PICK c \in Checks : c = check[d][t]
  BY DEF TypeInv, CheckTyped
<1>2. CheckTyped
  BY DEF TypeInv
<1>3. CASE check' = [check EXCEPT ![d][t] = NoCheck]
  BY <1>2, <1>3, NoCheckTyped, SetsCheck
<1>4. ASSUME c.rel # None, verifyRelease(d, c.rel),
             check' = [check EXCEPT ![d][t] = [c EXCEPT !.pc = "download"]]
      PROVE  \E x \in Checks : Sets(d, t, x) /\ x.pc = "download" /\ x.rel = c.rel
  <2>1. PICK x : x = [c EXCEPT !.pc = "download"]
    OBVIOUS
  <2>2. x \in Checks /\ x.pc = "download" /\ x.rel = c.rel
    BY <2>1 DEF Checks, Later
  <2> QED
    BY <1>2, <1>4, <2>1, <2>2, SetsCheck
<1> QED
  BY <1>1, <1>3, <1>4 DEF markAgentUpdateStatus

\* A download that passes the checksum leaves the release as it was offered.
LEMMA DownloadSets ==
    ASSUME TypeInv, NEW d \in Devices, NEW t \in Threads, Download(d, t)
    PROVE  \E x \in Checks :
               /\ Sets(d, t, x)
               /\ x = NoCheck \/ (x.pc = "swap" /\ x.rel = check[d][t].rel)
<1>1. PICK c \in Checks : c = check[d][t] /\ c.rel \in AgentRelease
  BY DEF TypeInv, CheckTyped, Download, Later, Checks
<1>2. CheckTyped
  BY DEF TypeInv
<1>3. CASE check' = [check EXCEPT ![d][t] = NoCheck]
  BY <1>2, <1>3, NoCheckTyped, SetsCheck
<1>4. ASSUME Matches(c.rel),
             check' = [check EXCEPT ![d][t] =
                [pc |-> "swap", rel |-> [c.rel EXCEPT !.build = agentReleaseDownloadURL(c.rel)]]]
      PROVE  \E x \in Checks : Sets(d, t, x) /\ x.pc = "swap" /\ x.rel = c.rel
  <2>1. [c.rel EXCEPT !.build = agentReleaseDownloadURL(c.rel)] = c.rel
    <3>1. agentReleaseDownloadURL(c.rel) = c.rel.build
      BY <1>4 DEF Matches
    <3> QED
      BY <1>1, <3>1 DEF AgentRelease
  <2>2. PICK x : x = [pc |-> "swap", rel |-> c.rel]
    OBVIOUS
  <2>3. x \in Checks /\ x.pc = "swap" /\ x.rel = c.rel
    BY <1>1, <2>2 DEF Checks, Later
  <2> QED
    BY <1>2, <1>4, <2>1, <2>2, <2>3, SetsCheck
<1> QED
  BY <1>1, <1>3, <1>4 DEF Download

LEMMA StepSets ==
    ASSUME TypeInv, NEW d \in Devices, NEW t \in Threads
    PROVE  /\ CheckFails(d, t) \/ InstallFails(d, t) => Sets(d, t, NoCheck)
           /\ SwapUnix(d, t) \/ InstallNew(d, t) =>
                \E x \in Checks : Sets(d, t, x) /\ x.pc = "relaunch" /\ x.rel = check[d][t].rel
           /\ MoveAside(d, t) =>
                \/ (aside[d] \/ exe[d] = None) /\ Sets(d, t, NoCheck)
                \/ /\ ~aside[d] /\ exe[d] # None
                   /\ \E x \in Checks : /\ Sets(d, t, x) /\ x.pc = "install"
                                        /\ x.rel = check[d][t].rel
<1>1. CheckTyped
  BY DEF TypeInv
<1>2. ASSUME check' = [check EXCEPT ![d][t] = NoCheck] PROVE Sets(d, t, NoCheck)
  BY <1>1, <1>2, NoCheckTyped, SetsCheck
<1>3. ASSUME NEW pc \in Later, check' = [check EXCEPT ![d][t].pc = pc]
      PROVE  \E x \in Checks : Sets(d, t, x) /\ x.pc = pc /\ x.rel = check[d][t].rel
  <2>1. pc \in {"idle", "mark"} \cup Later
    OBVIOUS
  <2> QED
    BY <1>1, <1>3, <2>1, Moves, Zenon
<1>4. CheckFails(d, t) \/ InstallFails(d, t) => Sets(d, t, NoCheck)
  BY <1>2 DEF CheckFails, InstallFails
<1>5. SwapUnix(d, t) \/ InstallNew(d, t) =>
        \E x \in Checks : Sets(d, t, x) /\ x.pc = "relaunch" /\ x.rel = check[d][t].rel
  BY <1>3 DEF SwapUnix, InstallNew, Later
<1>6. MoveAside(d, t) =>
        \/ (aside[d] \/ exe[d] = None) /\ Sets(d, t, NoCheck)
        \/ /\ ~aside[d] /\ exe[d] # None
           /\ \E x \in Checks : Sets(d, t, x) /\ x.pc = "install" /\ x.rel = check[d][t].rel
  BY <1>2, <1>3 DEF MoveAside, Later
<1> QED
  BY <1>4, <1>5, <1>6

LEMMA StartResets ==
    ASSUME TypeInv, NEW d \in Devices,
           (\E t \in Threads : Relaunch(d, t)) \/ Reboot(d)
           \/ (\E v \in Versions : InstallPackage(d, v))
    PROVE  Resets(d)
BY ResetsCheck DEF Relaunch, Reboot, InstallPackage, Started, TypeInv

LEMMA RestartSets ==
    ASSUME TypeInv, RestartApi
    PROVE  /\ check' \in [Devices -> [Threads -> Checks]]
           /\ \A e \in Devices, u \in Threads :
                check'[e][u] = check[e][u] \/ (check'[e][u] = NoCheck /\ check[e][u].pc = "mark")
BY NoCheckTyped DEF RestartApi, TypeInv, CheckTyped

-----------------------------------------------------------------------------
(* The steps by what they touch: the catalogue of releases, one device, or *)
(* the jobs and checks that a restart of the API cuts off.                 *)

CatalogueStep ==
    \/ \E v \in Versions :
          \/ createAgentBuildJob(v) \/ releasePublishHandler(v) \/ releaseActivateHandler(v)
          \/ releaseSignatureHandler(v)
    \/ \E useActive \in BOOLEAN : releaseRolloutLatestHandler(useActive)
    \/ \E b \in DOMAIN jobs : BuildStep(b) \/ failAgentBuildJob(b)

UpdaterStep(d) ==
    \/ \E t \in Threads :
          \/ updateCheckHandler(d, t) \/ markAgentUpdateStatus(d, t) \/ Download(d, t)
          \/ CheckFails(d, t) \/ SwapUnix(d, t) \/ MoveAside(d, t) \/ InstallNew(d, t)
          \/ InstallFails(d, t) \/ Relaunch(d, t)
    \/ Reboot(d) \/ \E v \in Versions : InstallPackage(d, v)

LEMMA Steps ==
    ASSUME [Next]_vars
    PROVE  CatalogueStep \/ (\E d \in Devices : UpdaterStep(d)) \/ RestartApi \/ UNCHANGED vars
BY DEF Next, CatalogueStep, UpdaterStep, CheckStep

LEMMA CatalogueFrame ==
    ASSUME CatalogueStep
    PROVE  UNCHANGED <<exe, old, aside, running, lost, windows, check, downgrades>>
BY DEF CatalogueStep, BuildStep, createAgentBuildJob, releasePublishHandler,
       releaseActivateHandler, releaseSignatureHandler, releaseRolloutLatestHandler,
       StartBuild, uploadAgentBuildArtifacts, publishAgentArtifacts, failAgentBuildJob,
       machineVars, ghosts

LEMMA UpdaterFrame ==
    ASSUME NEW d \in Devices, UpdaterStep(d)
    PROVE  UNCHANGED <<rows, objects, clock, jobs, released, windows>>
BY DEF UpdaterStep, updateCheckHandler, markAgentUpdateStatus, Download, CheckFails,
       SwapUnix, MoveAside, InstallNew, InstallFails, Relaunch, Reboot, InstallPackage,
       releaseVars, machineVars, ghosts

LEMMA RestartFrame ==
    ASSUME RestartApi
    PROVE  UNCHANGED <<rows, objects, clock, released, device, asked, downgrades,
                       exe, old, aside, running, lost, windows>>
BY DEF RestartApi, machineVars, ghosts

LEMMA StutterFrame ==
    ASSUME UNCHANGED vars
    PROVE  UNCHANGED <<rows, objects, clock, jobs, released, device, asked, downgrades,
                       exe, old, aside, running, lost, windows, check>>
BY DEF vars, releaseVars, machineVars, ghosts

(* The catalogue. *)

LEMMA JobTyped ==
    ASSUME TypeInv, NEW b \in DOMAIN jobs
    PROVE  b \in 1 .. MaxBuilds /\ jobs[b] \in AgentBuildJob
<1>1. jobs \in Seq(AgentBuildJob) /\ Len(jobs) <= MaxBuilds /\ MaxBuilds \in Nat
  BY Constants DEF TypeInv, JobsTyped
<1>2. b \in 1 .. Len(jobs) /\ Len(jobs) \in Nat
  BY <1>1
<1> QED
  BY <1>1, <1>2

\* A row that is written, and one that is changed, keep their binary, and are
\* held back unless the binary is released.
LEMMA InsertFrom ==
    ASSUME TypeInv, NEW v \in Versions, NEW build \in 0 .. MaxBuilds,
           NEW sig \in 0 .. MaxBuilds, Insert(v, build, sig)
    PROVE  /\ clock' = clock + 1 /\ released \subseteq released'
           /\ \E r \in AgentRelease : /\ rows' = rows \cup {r} /\ r.at = clock
                                      /\ ~r.pending => BinaryOf(r) \in released'
<1>1. clock \in Nat
  BY DEF TypeInv, RowsTyped
<1>2. PICK r : r = [version |-> v, build |-> build, at |-> clock,
                    pending |-> requireActivation, sig |-> sig]
  OBVIOUS
<1>3. r \in AgentRelease /\ r.at = clock
  BY <1>1, <1>2, Constants DEF AgentRelease
<1>4. rows' = rows \cup {r} /\ clock' = clock + 1
      /\ released' = IF r.pending THEN released ELSE released \cup {BinaryOf(r)}
  BY <1>2 DEF Insert
<1> QED
  BY <1>3, <1>4

LEMMA RowChanged ==
    ASSUME NEW r \in AgentRelease, NEW n \in Nat, NEW sig \in 0 .. MaxBuilds
    PROVE  /\ [r EXCEPT !.at = n, !.pending = FALSE] \in AgentRelease
           /\ [r EXCEPT !.at = n, !.pending = FALSE].at = n
           /\ BinaryOf([r EXCEPT !.at = n, !.pending = FALSE]) = BinaryOf(r)
           /\ [r EXCEPT !.at = n] \in AgentRelease /\ [r EXCEPT !.at = n].at = n
           /\ [r EXCEPT !.at = n].pending = r.pending
           /\ BinaryOf([r EXCEPT !.at = n]) = BinaryOf(r)
           /\ [r EXCEPT !.sig = sig] \in AgentRelease /\ [r EXCEPT !.sig = sig].at = r.at
           /\ [r EXCEPT !.sig = sig].pending = r.pending
           /\ BinaryOf([r EXCEPT !.sig = sig]) = BinaryOf(r)
BY DEF AgentRelease, BinaryOf

\* Where a row of the next state comes from.
LEMMA RowsFrom ==
    ASSUME TypeInv, [Next]_vars
    PROVE  /\ clock' \in Nat /\ clock <= clock' /\ released \subseteq released'
           /\ \A r \in rows' :
                /\ r \in AgentRelease /\ r.at < clock'
                /\ ~r.pending => \/ BinaryOf(r) \in released'
                                 \/ \E s \in rows : ~s.pending /\ BinaryOf(s) = BinaryOf(r)
<1> DEFINE Goal ==
        /\ clock' \in Nat /\ clock <= clock' /\ released \subseteq released'
        /\ \A r \in rows' :
             /\ r \in AgentRelease /\ r.at < clock'
             /\ ~r.pending => \/ BinaryOf(r) \in released'
                              \/ \E s \in rows : ~s.pending /\ BinaryOf(s) = BinaryOf(r)
<1>0. /\ rows \subseteq AgentRelease /\ clock \in Nat /\ (\A r \in rows : r.at < clock)
      /\ \A r \in rows : r.at \in Nat
  BY DEF TypeInv, RowsTyped, AgentRelease
<1>1. CASE UNCHANGED <<rows, clock, released>>
  BY <1>0, <1>1
<1>2. ASSUME NEW v \in Versions, NEW build \in 0 .. MaxBuilds, NEW sig \in 0 .. MaxBuilds,
             Insert(v, build, sig)
      PROVE  Goal
  BY <1>0, <1>2, InsertFrom
<1>3. ASSUME NEW b \in DOMAIN jobs, publishAgentArtifacts(b) PROVE Goal
  <2>1. b \in 0 .. MaxBuilds /\ 0 \in 0 .. MaxBuilds /\ jobs[b].version \in Versions
    BY JobTyped, Constants DEF AgentBuildJob
  <2>2. PICK sig \in 0 .. MaxBuilds : Insert(jobs[b].version, b, sig)
    BY <1>3, <2>1 DEF publishAgentArtifacts
  <2> QED
    BY <1>2, <2>1, <2>2
<1>4. ASSUME NEW v \in Versions, releasePublishHandler(v) PROVE Goal
  <2>1. objects[v] \in 0 .. MaxBuilds /\ 0 \in 0 .. MaxBuilds
    BY Constants DEF TypeInv, RowsTyped
  <2>2. Insert(v, objects[v], 0)
    BY <1>4 DEF releasePublishHandler
  <2> QED
    BY <1>2, <2>1, <2>2
<1>5. ASSUME NEW v \in Versions, releaseActivateHandler(v) PROVE Goal
  <2>1. clock' = clock + 1 /\ released' = released \cup {BinaryOf(r) : r \in OfVersion(v)}
    BY <1>5 DEF releaseActivateHandler
  <2>2. ASSUME NEW r \in rows'
        PROVE  /\ r \in AgentRelease /\ r.at < clock'
               /\ ~r.pending => \/ BinaryOf(r) \in released'
                                \/ \E s \in rows : ~s.pending /\ BinaryOf(s) = BinaryOf(r)
    <3>1. PICK s \in rows :
            r = IF s.version = v THEN [s EXCEPT !.at = clock, !.pending = FALSE] ELSE s
      BY <1>5, <2>2 DEF releaseActivateHandler
    <3>2. CASE s.version = v
      <4>1. r \in AgentRelease /\ r.at = clock /\ BinaryOf(r) = BinaryOf(s)
        <5>1. s \in AgentRelease /\ 0 \in 0 .. MaxBuilds
          BY <1>0, Constants
        <5>2. r = [s EXCEPT !.at = clock, !.pending = FALSE]
          BY <3>1, <3>2
        <5> QED
          BY <1>0, <5>1, <5>2, RowChanged
      <4>2. BinaryOf(s) \in released'
        BY <2>1, <3>2 DEF OfVersion
      <4> QED
        BY <1>0, <2>1, <4>1, <4>2
    <3>3. CASE s.version # v
      BY <1>0, <2>1, <3>1, <3>3
    <3> QED
      BY <3>2, <3>3
  <2> QED
    BY <1>0, <2>1, <2>2
<1>6. ASSUME NEW v \in Versions, releaseSignatureHandler(v) PROVE Goal
  <2>1. clock' = clock /\ released' = released
    BY <1>6 DEF releaseSignatureHandler, ghosts
  <2>2. PICK sig \in 1 .. MaxBuilds :
          rows' = {IF s.version = v THEN [s EXCEPT !.sig = sig] ELSE s : s \in rows}
    BY <1>6 DEF releaseSignatureHandler
  <2>3. ASSUME NEW r \in rows'
        PROVE  /\ r \in AgentRelease /\ r.at < clock'
               /\ ~r.pending => \E s \in rows : ~s.pending /\ BinaryOf(s) = BinaryOf(r)
    <3>1. PICK s \in rows : r = IF s.version = v THEN [s EXCEPT !.sig = sig] ELSE s
      BY <2>2, <2>3
    <3>2. sig \in 0 .. MaxBuilds /\ s \in AgentRelease
      BY <1>0, Constants
    <3>3. r \in AgentRelease /\ r.at = s.at /\ r.pending = s.pending /\ BinaryOf(r) = BinaryOf(s)
      BY <1>0, <3>1, <3>2, RowChanged
    <3> QED
      BY <1>0, <2>1, <3>3
  <2> QED
    BY <1>0, <2>1, <2>3
<1>7. ASSUME NEW useActive \in BOOLEAN, releaseRolloutLatestHandler(useActive) PROVE Goal
  <2>1. clock' = clock + 1 /\ released' = released
    BY <1>7 DEF releaseRolloutLatestHandler
  <2>2. PICK q \in Live :
          rows' = IF useActive THEN rows
                  ELSE {IF s.version = q.version THEN [s EXCEPT !.at = clock] ELSE s : s \in rows}
    BY <1>7 DEF releaseRolloutLatestHandler
  <2>3. ASSUME NEW r \in rows'
        PROVE  /\ r \in AgentRelease /\ r.at < clock'
               /\ ~r.pending => \E s \in rows : ~s.pending /\ BinaryOf(s) = BinaryOf(r)
    <3>1. PICK s \in rows : r = s \/ r = [s EXCEPT !.at = clock]
      BY <2>2, <2>3
    <3>2. 0 \in 0 .. MaxBuilds /\ s \in AgentRelease
      BY <1>0, Constants
    <3>3. /\ r \in AgentRelease /\ (r.at = s.at \/ r.at = clock)
          /\ r.pending = s.pending /\ BinaryOf(r) = BinaryOf(s)
      <4>1. PICK x : x = [s EXCEPT !.at = clock]
        OBVIOUS
      <4>2. /\ x \in AgentRelease /\ x.at = clock /\ x.pending = s.pending
            /\ BinaryOf(x) = BinaryOf(s)
        BY <1>0, <3>2, <4>1, RowChanged
      <4> QED
        BY <3>1, <3>2, <4>1, <4>2
    <3> QED
      BY <1>0, <2>1, <3>3
  <2> QED
    BY <1>0, <2>1, <2>3
<1>8. ASSUME NEW b \in DOMAIN jobs,
             StartBuild(b) \/ uploadAgentBuildArtifacts(b) \/ failAgentBuildJob(b)
      PROVE  UNCHANGED <<rows, clock, released>>
  BY <1>8 DEF StartBuild, uploadAgentBuildArtifacts, failAgentBuildJob, ghosts
<1>9. ASSUME NEW v \in Versions, createAgentBuildJob(v)
      PROVE  UNCHANGED <<rows, clock, released>>
  BY <1>9 DEF createAgentBuildJob, ghosts
<1>10. CASE CatalogueStep
  <2> HIDE DEF Goal
  <2>1. CASE UNCHANGED <<rows, clock, released>>
    BY <1>1, <2>1 DEF Goal
  <2>2. Goal \/ UNCHANGED <<rows, clock, released>>
    BY <1>3, <1>4, <1>5, <1>6, <1>7, <1>8, <1>9, <1>10 DEF CatalogueStep, BuildStep
  <2> QED
    BY <2>1, <2>2 DEF Goal
<1> QED
  BY <1>1, <1>10, Steps, UpdaterFrame, RestartFrame, StutterFrame

(* The types, step by step. *)

LEMMA TypeInit == Init => TypeInv
<1> SUFFICES ASSUME Init PROVE TypeInv
  OBVIOUS
<1>1. RowsTyped
  BY Constants DEF Init, RowsTyped
<1>2. JobsTyped
  BY Constants DEF Init, JobsTyped
<1>3. DeviceTyped
  BY Constants DEF Init, DeviceTyped, DeviceRows, Statuses
<1>4. MachineTyped /\ \A d \in Devices : running[d] # None
  <2>1. \A d \in Devices : [version |-> FirstVersion[d], build |-> 0] \in Binary
    BY Constants DEF Binary
  <2> QED
    BY <2>1, Constants DEF Init, MachineTyped
<1>5. CheckTyped
  BY NoCheckTyped DEF Init, CheckTyped, Later
<1> QED
  BY <1>1, <1>2, <1>3, <1>4, <1>5 DEF TypeInv

LEMMA RowsStep == TypeInv /\ [Next]_vars => RowsTyped'
<1> SUFFICES ASSUME TypeInv, [Next]_vars PROVE RowsTyped'
  OBVIOUS
<1>1. objects' \in [Versions -> 0 .. MaxBuilds]
  <2>0. objects \in [Versions -> 0 .. MaxBuilds]
    BY DEF TypeInv, RowsTyped
  <2>1. ASSUME NEW b \in DOMAIN jobs, uploadAgentBuildArtifacts(b)
        PROVE  objects' \in [Versions -> 0 .. MaxBuilds]
    <3>1. b \in 0 .. MaxBuilds /\ jobs[b].version \in Versions
      BY JobTyped, Constants DEF AgentBuildJob
    <3> QED
      BY <2>0, <2>1, <3>1 DEF uploadAgentBuildArtifacts
  <2>2. ASSUME CatalogueStep, ~\E b \in DOMAIN jobs : uploadAgentBuildArtifacts(b)
        PROVE  objects' = objects
    BY <2>2 DEF CatalogueStep, BuildStep, createAgentBuildJob, releasePublishHandler,
       releaseActivateHandler, releaseSignatureHandler, releaseRolloutLatestHandler,
       StartBuild, publishAgentArtifacts, failAgentBuildJob
  <2> QED
    BY <2>0, <2>1, <2>2, Steps, UpdaterFrame, RestartFrame, StutterFrame
<1> QED
  BY <1>1, RowsFrom DEF RowsTyped

LEMMA JobsStep == TypeInv /\ [Next]_vars => JobsTyped'
<1> SUFFICES ASSUME TypeInv, [Next]_vars PROVE JobsTyped'
  OBVIOUS
<1>0. jobs \in Seq(AgentBuildJob) /\ Len(jobs) <= MaxBuilds /\ MaxBuilds \in Nat
  BY Constants DEF TypeInv, JobsTyped
<1>1. ASSUME NEW v \in Versions, createAgentBuildJob(v) PROVE JobsTyped'
  <2>1. PICK j : j = [version |-> v, status |-> "queued"]
    OBVIOUS
  <2>2. j \in AgentBuildJob
    BY <2>1 DEF AgentBuildJob
  <2>3. jobs' = Append(jobs, j) /\ Len(jobs) < MaxBuilds
    BY <1>1, <2>1 DEF createAgentBuildJob
  <2>4. jobs' \in Seq(AgentBuildJob) /\ Len(jobs') = Len(jobs) + 1
    BY <1>0, <2>2, <2>3
  <2> QED
    BY <1>0, <2>3, <2>4 DEF JobsTyped
<1>2. ASSUME NEW b \in DOMAIN jobs,
             NEW status \in {"queued", "building", "publishing", "published", "failed", "abandoned"},
             setAgentBuildJob(b, status)
      PROVE  JobsTyped'
  <2>1. PICK j : j = [jobs[b] EXCEPT !.status = status]
    OBVIOUS
  <2>2. j \in AgentBuildJob
    BY <2>1, JobTyped DEF AgentBuildJob
  <2>3. jobs' = [jobs EXCEPT ![b] = j] /\ b \in 1 .. Len(jobs)
    BY <1>0, <1>2, <2>1 DEF setAgentBuildJob
  <2>4. jobs' \in Seq(AgentBuildJob) /\ Len(jobs') = Len(jobs)
    BY <1>0, <2>2, <2>3, ExceptSeq
  <2> QED
    BY <1>0, <2>4 DEF JobsTyped
<1>3. ASSUME NEW b \in DOMAIN jobs, BuildStep(b) \/ failAgentBuildJob(b) PROVE JobsTyped'
  BY <1>2, <1>3 DEF BuildStep, StartBuild, uploadAgentBuildArtifacts, publishAgentArtifacts,
                    failAgentBuildJob
<1>4. CASE RestartApi
  <2>1. PICK n \in Nat : n = Len(jobs) /\ n <= MaxBuilds /\ DOMAIN jobs = 1 .. n
    BY <1>0
  <2>2. \A b \in 1 .. n : /\ jobs[b] \in AgentBuildJob
                          /\ [jobs[b] EXCEPT !.status = "abandoned"] \in AgentBuildJob
    BY <2>1, JobTyped DEF AgentBuildJob
  <2>3. jobs' \in [1 .. n -> AgentBuildJob]
    BY <1>4, <2>1, <2>2 DEF RestartApi
  <2>4. jobs' \in Seq(AgentBuildJob) /\ Len(jobs') = n
    BY <2>1, <2>3
  <2> QED
    BY <2>1, <2>4 DEF JobsTyped
<1>5. CASE jobs' = jobs
  BY <1>0, <1>5 DEF JobsTyped
<1>6. ASSUME NEW v \in Versions,
             releasePublishHandler(v) \/ releaseActivateHandler(v) \/ releaseSignatureHandler(v)
      PROVE  jobs' = jobs
  BY <1>6 DEF releasePublishHandler, releaseActivateHandler, releaseSignatureHandler
<1>7. ASSUME NEW useActive \in BOOLEAN, releaseRolloutLatestHandler(useActive)
      PROVE  jobs' = jobs
  BY <1>7 DEF releaseRolloutLatestHandler
<1>8. CASE CatalogueStep
  BY <1>1, <1>3, <1>5, <1>6, <1>7, <1>8 DEF CatalogueStep
<1> QED
  BY <1>4, <1>5, <1>8, Steps, UpdaterFrame, StutterFrame

\* What the updater steps do to the files and the process of a device.
LEMMA MachineStep == TypeInv /\ [Next]_vars => MachineTyped'
<1> SUFFICES ASSUME TypeInv, [Next]_vars PROVE MachineTyped'
  OBVIOUS
<1>0. MachineTyped
  BY DEF TypeInv
<1>1. CASE UNCHANGED <<exe, old, aside, running>>
  BY <1>0, <1>1 DEF MachineTyped
<1>2. ASSUME NEW d \in Devices, NEW t \in Threads, SwapUnix(d, t) \/ InstallNew(d, t)
      PROVE  MachineTyped'
  <2>1. check[d][t].rel \in AgentRelease
    BY <1>2 DEF SwapUnix, InstallNew, TypeInv, CheckTyped, Checks, Later
  <2>2. BinaryOf(check[d][t].rel) \in Binary
    BY <2>1 DEF AgentRelease, BinaryOf, Binary
  <2>3. exe' = [exe EXCEPT ![d] = BinaryOf(check[d][t].rel)] /\ UNCHANGED <<old, aside, running>>
    BY <1>2 DEF SwapUnix, InstallNew
  <2> QED
    BY <1>0, <2>2, <2>3 DEF MachineTyped
<1>3. ASSUME NEW d \in Devices, NEW t \in Threads, MoveAside(d, t) \/ InstallFails(d, t)
      PROVE  MachineTyped'
  <2>1. \/ UNCHANGED <<exe, old, aside>>
        \/ /\ exe' = [exe EXCEPT ![d] = None] /\ old' = [old EXCEPT ![d] = exe[d]]
           /\ aside' = [aside EXCEPT ![d] = TRUE]
        \/ /\ exe' = [exe EXCEPT ![d] = old[d]] /\ old' = [old EXCEPT ![d] = None]
           /\ aside' = [aside EXCEPT ![d] = FALSE]
    BY <1>3 DEF MoveAside, InstallFails, Rollback
  <2>2. running' = running
    BY <1>3 DEF MoveAside, InstallFails
  <2> QED
    BY <1>0, <2>1, <2>2 DEF MachineTyped
<1>4. ASSUME NEW d \in Devices, (\E t \in Threads : Relaunch(d, t)) \/ Reboot(d)
      PROVE  MachineTyped'
  <2>1. /\ exe' = exe /\ running' = [running EXCEPT ![d] = exe[d]]
        /\ old' = [old EXCEPT ![d] = None] /\ aside' = [aside EXCEPT ![d] = FALSE]
    BY <1>4 DEF Relaunch, Reboot, Started
  <2> QED
    BY <1>0, <2>1 DEF MachineTyped
<1>5. ASSUME NEW d \in Devices, NEW v \in Versions, InstallPackage(d, v) PROVE MachineTyped'
  <2>1. PICK b : b = [version |-> v, build |-> 0]
    OBVIOUS
  <2>2. b \in Binary
    BY <2>1, Constants DEF Binary
  <2>3. /\ exe' = [exe EXCEPT ![d] = b] /\ running' = [running EXCEPT ![d] = b]
        /\ old' = [old EXCEPT ![d] = None] /\ aside' = [aside EXCEPT ![d] = FALSE]
    BY <1>0, <1>5, <2>1 DEF InstallPackage, MachineTyped
  <2> QED
    BY <1>0, <2>2, <2>3 DEF MachineTyped
<1>6. ASSUME NEW d \in Devices, NEW t \in Threads,
             updateCheckHandler(d, t) \/ markAgentUpdateStatus(d, t)
             \/ Download(d, t) \/ CheckFails(d, t)
      PROVE  UNCHANGED <<exe, old, aside, running>>
  BY <1>6 DEF updateCheckHandler, markAgentUpdateStatus, Download, CheckFails, machineVars
<1>7. ASSUME NEW d \in Devices, UpdaterStep(d) PROVE MachineTyped'
  BY <1>1, <1>2, <1>3, <1>4, <1>5, <1>6, <1>7 DEF UpdaterStep
<1> QED
  BY <1>1, <1>7, Steps, CatalogueFrame, RestartFrame, StutterFrame

\* Where the check of a thread comes from.
CheckComes(d, u, y) ==
    \/ y = check[d][u]
    \/ y = NoCheck
    \/ /\ y.pc = "mark" /\ running[d] # None
       /\ y.rel = None \/ (y.rel \in Latest /\ Offer(d, y.rel.version))
    \/ /\ y.pc \in Later /\ check[d][u].pc # "idle"
       /\ y.rel = check[d][u].rel /\ check[d][u].rel # None

LEMMA ChecksFrom ==
    ASSUME TypeInv, [Next]_vars, NEW d \in Devices, NEW u \in Threads
    PROVE  /\ check' \in [Devices -> [Threads -> Checks]]
           /\ CheckComes(d, u, check'[d][u])
<1> DEFINE Goal == /\ check' \in [Devices -> [Threads -> Checks]]
                   /\ CheckComes(d, u, check'[d][u])
<1>0. CheckTyped
  BY DEF TypeInv
<1>1. CASE check' = check
  BY <1>0, <1>1 DEF CheckTyped, CheckComes
<1>2. ASSUME NEW e \in Devices, NEW t \in Threads, NEW x \in Checks, Sets(e, t, x),
             e = d /\ t = u => CheckComes(d, u, x)
      PROVE  Goal
  BY <1>2 DEF Sets, CheckComes
<1>3. ASSUME NEW e \in Devices, NEW t \in Threads, updateCheckHandler(e, t) PROVE Goal
  <2>1. PICK x \in Checks : /\ Sets(e, t, x) /\ x.pc = "mark"
                            /\ x.rel = None \/ (x.rel \in Latest /\ Offer(e, x.rel.version))
    BY <1>3, BeginSets
  <2>2. running[e] # None
    BY <1>3 DEF updateCheckHandler
  <2> QED
    BY <1>2, <2>1, <2>2 DEF CheckComes
<1>4. ASSUME NEW e \in Devices, NEW t \in Threads,
             markAgentUpdateStatus(e, t) \/ Download(e, t) \/ CheckFails(e, t)
             \/ SwapUnix(e, t) \/ MoveAside(e, t) \/ InstallNew(e, t) \/ InstallFails(e, t)
      PROVE  Goal
  <2>1. check[e][t].pc # "idle"
    BY <1>4 DEF markAgentUpdateStatus, Download, CheckFails, SwapUnix, MoveAside, InstallNew,
                InstallFails
  <2>2. markAgentUpdateStatus(e, t) \/ check[e][t].pc \in Later \/ CheckFails(e, t)
    BY <1>4 DEF Download, SwapUnix, MoveAside, InstallNew, InstallFails, Later
  <2>3. check[e][t].pc \in Later => check[e][t].rel # None
    BY <1>0 DEF CheckTyped
  <2>4. PICK x \in Checks :
          /\ Sets(e, t, x)
          /\ \/ x = NoCheck
             \/ /\ check[e][t].rel # None
                /\ x.pc \in Later /\ x.rel = check[e][t].rel
    <3>1. CASE markAgentUpdateStatus(e, t)
      BY <3>1, MarkSets DEF Later
    <3>2. CASE CheckFails(e, t) \/ InstallFails(e, t)
      BY <3>2, StepSets, NoCheckTyped
    <3>3. CASE Download(e, t)
      BY <2>3, <3>3, DownloadSets DEF Download, Later
    <3>4. CASE SwapUnix(e, t) \/ InstallNew(e, t)
      <4>1. check[e][t].rel # None
        BY <2>3, <3>4 DEF SwapUnix, InstallNew, Later
      <4>2. PICK x \in Checks : Sets(e, t, x) /\ x.pc = "relaunch" /\ x.rel = check[e][t].rel
        BY <3>4, StepSets
      <4> QED
        BY <4>1, <4>2 DEF Later
    <3>5. CASE MoveAside(e, t)
      <4>1. check[e][t].rel # None
        BY <2>3, <3>5 DEF MoveAside, Later
      <4>2. CASE Sets(e, t, NoCheck)
        BY <4>2, NoCheckTyped
      <4>3. CASE \E x \in Checks : /\ Sets(e, t, x) /\ x.pc = "install"
                                   /\ x.rel = check[e][t].rel
        BY <4>1, <4>3 DEF Later
      <4> QED
        BY <3>5, <4>2, <4>3, StepSets
    <3> QED
      BY <1>4, <3>1, <3>2, <3>3, <3>4, <3>5
  <2>5. e = d /\ t = u => CheckComes(d, u, x)
    BY <2>1, <2>4 DEF CheckComes
  <2> HIDE DEF Goal
  <2> QED
    BY <1>2, <2>4, <2>5
<1>5. ASSUME NEW e \in Devices,
             (\E t \in Threads : Relaunch(e, t)) \/ Reboot(e)
             \/ (\E v \in Versions : InstallPackage(e, v))
      PROVE  Goal
  BY <1>5, StartResets DEF Resets, CheckComes
<1>6. ASSUME RestartApi PROVE Goal
  BY <1>6, RestartSets DEF CheckComes
<1> HIDE DEF Goal
<1>7. ASSUME NEW e \in Devices, UpdaterStep(e) PROVE Goal
  BY <1>3, <1>4, <1>5, <1>7 DEF UpdaterStep
<1>8. Goal
  <2>1. CASE check' = check
    BY <1>1, <2>1 DEF Goal
  <2> QED
    BY <1>6, <1>7, <2>1, Steps, CatalogueFrame, StutterFrame
<1> QED
  BY <1>8 DEF Goal

\* A process changes only when it starts again from the file.
LEMMA RunningFrom ==
    ASSUME TypeInv, [Next]_vars, NEW d \in Devices
    PROVE  \/ running'[d] = running[d]
           \/ /\ running'[d] = exe'[d] /\ old'[d] = None /\ ~aside'[d]
              /\ \A u \in Threads : check'[d][u] = NoCheck
              /\ exe'[d] = exe[d] \/ (exe'[d] # None /\ exe'[d].build = 0)
<1> DEFINE Goal ==
           \/ running'[d] = running[d]
           \/ /\ running'[d] = exe'[d] /\ old'[d] = None /\ ~aside'[d]
              /\ \A u \in Threads : check'[d][u] = NoCheck
              /\ exe'[d] = exe[d] \/ (exe'[d] # None /\ exe'[d].build = 0)
<1>0. MachineTyped
  BY DEF TypeInv
<1>1. ASSUME NEW e \in Devices, (\E t \in Threads : Relaunch(e, t)) \/ Reboot(e) PROVE Goal
  <2>1. /\ exe' = exe /\ running' = [running EXCEPT ![e] = exe[e]]
        /\ old' = [old EXCEPT ![e] = None] /\ aside' = [aside EXCEPT ![e] = FALSE]
    BY <1>1 DEF Relaunch, Reboot, Started
  <2>2. Resets(e)
    BY <1>1, StartResets
  <2> QED
    BY <1>0, <2>1, <2>2 DEF MachineTyped, Resets
<1>2. ASSUME NEW e \in Devices, NEW v \in Versions, InstallPackage(e, v) PROVE Goal
  <2>1. PICK b : b = [version |-> v, build |-> 0]
    OBVIOUS
  <2>2. b \in Binary /\ b.build = 0 /\ b # None
    BY <2>1, Constants DEF Binary
  <2>3. /\ exe' = [exe EXCEPT ![e] = b] /\ running' = [running EXCEPT ![e] = b]
        /\ old' = [old EXCEPT ![e] = None] /\ aside' = [aside EXCEPT ![e] = FALSE]
    BY <1>0, <1>2, <2>1 DEF InstallPackage, MachineTyped
  <2>4. Resets(e)
    BY <1>2, StartResets
  <2> QED
    BY <1>0, <2>2, <2>3, <2>4 DEF MachineTyped, Resets
<1>3. ASSUME NEW e \in Devices, NEW t \in Threads,
             updateCheckHandler(e, t) \/ markAgentUpdateStatus(e, t) \/ Download(e, t)
             \/ CheckFails(e, t) \/ SwapUnix(e, t) \/ MoveAside(e, t) \/ InstallNew(e, t)
             \/ InstallFails(e, t)
      PROVE  running' = running
  BY <1>3 DEF updateCheckHandler, markAgentUpdateStatus, Download, CheckFails, SwapUnix,
              MoveAside, InstallNew, InstallFails, machineVars
<1>4. ASSUME NEW e \in Devices, UpdaterStep(e) PROVE Goal
  BY <1>1, <1>2, <1>3, <1>4 DEF UpdaterStep
<1> QED
  BY <1>4, Steps, CatalogueFrame, RestartFrame, StutterFrame

LEMMA CheckTypeStep == TypeInv /\ [Next]_vars => CheckTyped'
<1> SUFFICES ASSUME TypeInv, [Next]_vars PROVE CheckTyped'
  OBVIOUS
<1>1. check' \in [Devices -> [Threads -> Checks]]
  <2>1. CASE Devices = {}
    <3>1. ~\E d \in Devices : UpdaterStep(d)
      BY <2>1
    <3> QED
      BY <3>1, Steps, CatalogueFrame, RestartSets, StutterFrame DEF TypeInv, CheckTyped
  <2>2. CASE Devices # {}
    BY <2>2, ChecksFrom DEF Threads
  <2> QED
    BY <2>1, <2>2
<1>2. ASSUME NEW d \in Devices, NEW u \in Threads, NEW y, y = check'[d][u]
      PROVE  /\ y.pc = "idle" => y = NoCheck
             /\ y.pc \in Later => y.rel # None
             /\ y.pc # "idle" => running'[d] # None
  <2>1. CheckComes(d, u, y) /\ NoCheck.pc = "idle"
    BY <1>2, ChecksFrom, NoCheckTyped
  <2>2. running'[d] = running[d] \/ y = NoCheck
    BY <1>2, RunningFrom
  <2> QED
    BY <2>1, <2>2 DEF CheckComes, TypeInv, CheckTyped, Later
<1> QED
  BY <1>1, <1>2 DEF CheckTyped

(* The marks of the devices. *)

\* The versions that d was marked with.
AskedFor(d) == {a.version : a \in asked[d]}

\* A mark stays what it was, or the version it names was asked for.
LEMMA DevicesFrom ==
    ASSUME TypeInv, [Next]_vars
    PROVE  /\ DeviceTyped'
           /\ \A d \in Devices :
                /\ asked[d] \subseteq asked'[d]
                /\ device'[d].requested =>
                     \/ device[d].requested /\ device'[d].target = device[d].target
                     \/ \E a \in asked'[d] : a.version = device'[d].target
<1> DEFINE Goal ==
        /\ DeviceTyped'
        /\ \A d \in Devices :
             /\ asked[d] \subseteq asked'[d]
             /\ device'[d].requested =>
                  \/ device[d].requested /\ device'[d].target = device[d].target
                  \/ \E a \in asked'[d] : a.version = device'[d].target
<1>0. DeviceTyped
  BY DEF TypeInv
<1>1. ASSUME UNCHANGED <<device, asked>> PROVE Goal
  BY <1>0, <1>1 DEF DeviceTyped
<1>2. ASSUME NEW e \in Devices, NEW x \in DeviceRows, NEW A \in SUBSET Marks,
             device' = [device EXCEPT ![e] = x], asked' = [asked EXCEPT ![e] = @ \cup A],
             x.requested => \/ device[e].requested /\ x.target = device[e].target
                            \/ \E a \in A : a.version = x.target
      PROVE  Goal
  <2>1. DeviceTyped'
    BY <1>0, <1>2 DEF DeviceTyped
  <2>2. device'[e] = x /\ asked'[e] = asked[e] \cup A
    BY <1>0, <1>2 DEF DeviceTyped
  <2>3. \A d \in Devices : d # e => device'[d] = device[d] /\ asked'[d] = asked[d]
    BY <1>0, <1>2 DEF DeviceTyped
  <2> QED
    BY <1>2, <2>1, <2>2, <2>3
<1>2a. asked' = asked => \A e \in Devices : \A A : A = {} => asked' = [asked EXCEPT ![e] = @ \cup A]
  BY <1>0 DEF DeviceTyped
<1>2b. PICK A \in SUBSET Marks : A = {}
  <2>1. {} \in SUBSET Marks
    OBVIOUS
  <2> QED
    BY <2>1
<1>3. ASSUME NEW e \in Devices, NEW t \in Threads, updateCheckHandler(e, t) PROVE Goal
  <2>1. running[e] \in Binary /\ device[e] \in DeviceRows
    BY <1>0, <1>3 DEF updateCheckHandler, TypeInv, MachineTyped, DeviceTyped
  <2>2. PICK x : x = [device[e] EXCEPT !.version = running[e].version, !.status = "checking"]
    OBVIOUS
  <2>3. x \in DeviceRows /\ x.requested = device[e].requested /\ x.target = device[e].target
    BY <2>1, <2>2 DEF DeviceRows, Binary, Statuses
  <2>4. device' = [device EXCEPT ![e] = x]
    BY <1>3, <2>2 DEF updateCheckHandler
  <2>5. asked' = [asked EXCEPT ![e] = @ \cup A]
    BY <1>2a, <1>2b, <1>3 DEF updateCheckHandler, ghosts
  <2> HIDE DEF Goal
  <2> QED
    BY <1>2, <1>2b, <2>3, <2>4, <2>5
<1>4. ASSUME NEW e \in Devices, NEW t \in Threads, markAgentUpdateStatus(e, t) PROVE Goal
  <2>0. device[e] \in DeviceRows
    BY <1>0 DEF DeviceTyped
  <2>1. PICK rel : rel = check[e][t].rel /\ rel \in AgentRelease \cup {None}
    BY DEF TypeInv, CheckTyped, Checks
  <2>2. CASE rel = None
    <3>1. PICK x : x = [device[e] EXCEPT !.status = "up_to_date", !.target = None,
                                         !.requested = FALSE]
      OBVIOUS
    <3>2. x \in DeviceRows /\ x.requested = FALSE
      BY <2>0, <3>1 DEF DeviceRows, Statuses
    <3>3. device' = [device EXCEPT ![e] = x]
      BY <1>4, <2>1, <2>2, <3>1 DEF markAgentUpdateStatus
    <3>4. asked' = [asked EXCEPT ![e] = @ \cup A]
      BY <1>2a, <1>2b, <1>4, <2>1, <2>2 DEF markAgentUpdateStatus
    <3> HIDE DEF Goal
    <3> QED
      BY <1>2, <1>2b, <3>2, <3>3, <3>4
  <2>3. CASE rel # None
    <3>1. rel.version \in Versions
      BY <2>1, <2>3 DEF AgentRelease
    <3>2. PICK x : x = [device[e] EXCEPT !.status = "update_available", !.target = rel.version]
      OBVIOUS
    <3>3. x \in DeviceRows /\ x.requested = device[e].requested /\ x.target = rel.version
      BY <2>0, <3>1, <3>2 DEF DeviceRows, Statuses
    <3>4. PICK a : a = [version |-> rel.version, by |-> "offer"]
      OBVIOUS
    <3>5. a \in Marks /\ a.version = rel.version
      BY <3>1, <3>4 DEF Marks
    <3>6. PICK B : B = IF device[e].requested THEN {a} ELSE {}
      OBVIOUS
    <3>7. device' = [device EXCEPT ![e] = x] /\ asked' = [asked EXCEPT ![e] = @ \cup B]
      BY <1>4, <2>1, <2>3, <3>2, <3>4, <3>6 DEF markAgentUpdateStatus
    <3>8. B \in SUBSET Marks /\ (x.requested => \E b \in B : b.version = x.target)
      BY <3>3, <3>5, <3>6
    <3> HIDE DEF Goal
    <3> QED
      BY <1>2, <3>3, <3>7, <3>8
  <2> QED
    BY <2>2, <2>3
<1>5. ASSUME NEW useActive \in BOOLEAN, releaseRolloutLatestHandler(useActive) PROVE Goal
  <2>1. PICK r \in Live, by \in {"active", "latest"} :
          /\ device' = [d \in Devices |-> IF d \notin {e \in Devices : device[e].version # r.version}
                           THEN device[d]
                           ELSE [device[d] EXCEPT !.status = "update_requested",
                                                  !.requested = TRUE, !.target = r.version]]
          /\ asked' = [d \in Devices |-> asked[d] \cup
                         (IF d \in {e \in Devices : device[e].version # r.version}
                          THEN {[version |-> r.version, by |-> by]} ELSE {})]
    <3>1. PICK by \in {"active", "latest"} : by = IF useActive THEN "active" ELSE "latest"
      OBVIOUS
    <3> QED
      BY <1>5, <3>1 DEF releaseRolloutLatestHandler
  <2>2. r.version \in Versions
    BY DEF Live, TypeInv, RowsTyped, AgentRelease
  <2>3. PICK a : a = [version |-> r.version, by |-> by]
    OBVIOUS
  <2>4. a \in Marks /\ a.version = r.version
    BY <2>2, <2>3 DEF Marks
  <2>5. ASSUME NEW d \in Devices
        PROVE  /\ device'[d] \in DeviceRows /\ asked'[d] \subseteq Marks
               /\ asked[d] \subseteq asked'[d]
               /\ \/ device'[d] = device[d]
                  \/ device'[d].target = r.version /\ a \in asked'[d]
    <3>1. CASE device[d].version = r.version
      <4>1. device'[d] = device[d] /\ asked'[d] = asked[d]
        BY <2>1, <3>1
      <4> QED
        BY <1>0, <4>1 DEF DeviceTyped
    <3>2. CASE device[d].version # r.version
      <4>1. PICK x : x = [device[d] EXCEPT !.status = "update_requested",
                                           !.requested = TRUE, !.target = r.version]
        OBVIOUS
      <4>2. x \in DeviceRows /\ x.target = r.version
        BY <1>0, <2>2, <4>1 DEF DeviceRows, Statuses, DeviceTyped
      <4>3. device'[d] = x /\ asked'[d] = asked[d] \cup {a}
        BY <2>1, <2>3, <3>2, <4>1
      <4> QED
        BY <1>0, <2>4, <4>2, <4>3 DEF DeviceTyped
    <3> QED
      BY <3>1, <3>2
  <2>6. DOMAIN device' = Devices /\ DOMAIN asked' = Devices
        /\ device' = [d \in Devices |-> device'[d]] /\ asked' = [d \in Devices |-> asked'[d]]
    BY <2>1
  <2>7. DeviceTyped'
    BY <2>5, <2>6 DEF DeviceTyped
  <2> QED
    BY <2>4, <2>5, <2>7
<1>6. ASSUME NEW e \in Devices, NEW t \in Threads,
             Download(e, t) \/ CheckFails(e, t) \/ SwapUnix(e, t) \/ MoveAside(e, t)
             \/ InstallNew(e, t) \/ InstallFails(e, t) \/ Relaunch(e, t)
      PROVE  UNCHANGED <<device, asked>>
  BY <1>6 DEF Download, CheckFails, SwapUnix, MoveAside, InstallNew, InstallFails, Relaunch, ghosts
<1>7. ASSUME NEW e \in Devices, Reboot(e) \/ (\E v \in Versions : InstallPackage(e, v))
      PROVE  UNCHANGED <<device, asked>>
  BY <1>7 DEF Reboot, InstallPackage, ghosts
<1>8. ASSUME NEW b \in DOMAIN jobs, BuildStep(b) \/ failAgentBuildJob(b)
      PROVE  UNCHANGED <<device, asked>>
  BY <1>8 DEF BuildStep, StartBuild, uploadAgentBuildArtifacts, publishAgentArtifacts,
              failAgentBuildJob, ghosts
<1>9. ASSUME NEW v \in Versions,
             createAgentBuildJob(v) \/ releasePublishHandler(v) \/ releaseActivateHandler(v)
             \/ releaseSignatureHandler(v)
      PROVE  UNCHANGED <<device, asked>>
  BY <1>9 DEF createAgentBuildJob, releasePublishHandler, releaseActivateHandler,
              releaseSignatureHandler, ghosts
<1> HIDE DEF Goal
<1>10. ASSUME CatalogueStep PROVE Goal
  BY <1>1, <1>5, <1>8, <1>9, <1>10 DEF CatalogueStep
<1>11. ASSUME NEW e \in Devices, UpdaterStep(e) PROVE Goal
  BY <1>1, <1>3, <1>4, <1>6, <1>7, <1>11 DEF UpdaterStep
<1>12. Goal
  BY <1>1, <1>10, <1>11, Steps, RestartFrame, StutterFrame
<1> QED
  BY <1>12 DEF Goal

LEMMA TypeStep == TypeInv /\ [Next]_vars => TypeInv'
BY RowsStep, JobsStep, DevicesFrom, MachineStep, CheckTypeStep DEF TypeInv

-----------------------------------------------------------------------------
(* The swap of the binary.                                                 *)

Swapping == {"install", "relaunch"}

\* Of the threads of a Windows device at most one is past the first rename,
\* the file it moved is aside until the process starts again, and the device
\* has a binary unless one is between the renames or it is lost.
SwapOf(d) ==
    /\ aside[d] => old[d] # None /\ d \in windows
    /\ \A t \in Threads :
        /\ check[d][t].pc = "install" => d \in windows /\ aside[d]
        /\ check[d][t].pc = "relaunch" => exe[d] # None /\ (d \in windows => aside[d])
    /\ \A t, u \in Threads :
        d \in windows /\ check[d][t].pc \in Swapping /\ check[d][u].pc \in Swapping => t = u
    /\ exe[d] = None => d \in lost \/ \E t \in Threads : check[d][t].pc = "install"

SwapInv == \A d \in Devices : SwapOf(d)

LEMMA SwapInit == Init => SwapInv
<1> SUFFICES ASSUME Init, NEW d \in Devices PROVE SwapOf(d)
  BY DEF SwapInv
<1>1. [version |-> FirstVersion[d], build |-> 0] \in Binary
  BY Constants DEF Binary
<1>2. ~aside[d] /\ exe[d] # None /\ \A t \in Threads : check[d][t] = NoCheck
  BY <1>1, Constants DEF Init
<1> QED
  BY <1>2, NoCheckTyped DEF SwapOf, Swapping

\* Steps that leave the files of d and its swaps alone.
LEMMA SwapQuiet ==
    ASSUME NEW d \in Devices, SwapOf(d),
           exe'[d] = exe[d] /\ old'[d] = old[d] /\ aside'[d] = aside[d] /\ windows' = windows,
           d \in lost => d \in lost',
           \A u \in Threads : \/ check'[d][u] = check[d][u]
                              \/ check'[d][u].pc \notin Swapping /\ check[d][u].pc \notin Swapping
    PROVE  SwapOf(d)'
BY DEF SwapOf, Swapping

LEMMA OtherDevice ==
    ASSUME TypeInv, NEW e \in Devices, UpdaterStep(e), NEW d \in Devices, d # e
    PROVE  /\ exe'[d] = exe[d] /\ old'[d] = old[d] /\ aside'[d] = aside[d]
           /\ d \in lost => d \in lost'
           /\ \A u \in Threads : check'[d][u] = check[d][u]
<1>0. MachineTyped
  BY DEF TypeInv
<1>1. /\ exe'[d] = exe[d] /\ old'[d] = old[d] /\ aside'[d] = aside[d]
      /\ d \in lost => d \in lost'
  <2>1. ASSUME NEW t \in Threads,
               updateCheckHandler(e, t) \/ markAgentUpdateStatus(e, t) \/ Download(e, t)
               \/ CheckFails(e, t)
        PROVE  UNCHANGED <<exe, old, aside, lost>>
    BY <2>1 DEF updateCheckHandler, markAgentUpdateStatus, Download, CheckFails, machineVars
  <2>2. ASSUME NEW t \in Threads,
               SwapUnix(e, t) \/ MoveAside(e, t) \/ InstallNew(e, t) \/ InstallFails(e, t)
        PROVE  /\ exe'[d] = exe[d] /\ old'[d] = old[d] /\ aside'[d] = aside[d]
               /\ d \in lost => d \in lost'
    BY <1>0, <2>2 DEF SwapUnix, MoveAside, InstallNew, InstallFails, Rollback, MachineTyped
  <2>3. ASSUME Reboot(e) \/ (\E t \in Threads : Relaunch(e, t))
               \/ (\E v \in Versions : InstallPackage(e, v))
        PROVE  /\ exe'[d] = exe[d] /\ old'[d] = old[d] /\ aside'[d] = aside[d]
               /\ d \in lost => d \in lost'
    BY <1>0, <2>3 DEF Reboot, Relaunch, InstallPackage, Started, MachineTyped
  <2> QED
    BY <2>1, <2>2, <2>3 DEF UpdaterStep
<1>2. \A u \in Threads : check'[d][u] = check[d][u]
  <2>1. ASSUME NEW t \in Threads, NEW x \in Checks, Sets(e, t, x)
        PROVE  \A u \in Threads : check'[d][u] = check[d][u]
    BY <2>1 DEF Sets
  <2>2. ASSUME NEW t \in Threads,
               updateCheckHandler(e, t) \/ markAgentUpdateStatus(e, t) \/ Download(e, t)
               \/ CheckFails(e, t) \/ SwapUnix(e, t) \/ MoveAside(e, t) \/ InstallNew(e, t)
               \/ InstallFails(e, t)
        PROVE  \E x \in Checks : Sets(e, t, x)
    <3>1. updateCheckHandler(e, t) => \E x \in Checks : Sets(e, t, x)
      BY BeginSets
    <3>2. markAgentUpdateStatus(e, t) => \E x \in Checks : Sets(e, t, x)
      BY MarkSets
    <3>3. Download(e, t) => \E x \in Checks : Sets(e, t, x)
      BY DownloadSets
    <3>4. CheckFails(e, t) \/ InstallFails(e, t) \/ SwapUnix(e, t) \/ InstallNew(e, t)
          \/ MoveAside(e, t) => \E x \in Checks : Sets(e, t, x)
      BY StepSets, NoCheckTyped
    <3> QED
      BY <2>2, <3>1, <3>2, <3>3, <3>4
  <2>3. ASSUME Resets(e) PROVE \A u \in Threads : check'[d][u] = check[d][u]
    BY <2>3 DEF Resets
  <2> QED
    BY <2>1, <2>2, <2>3, StartResets DEF UpdaterStep
<1> QED
  BY <1>1, <1>2

\* The steps of a check up to the swap, and those that fail before it.
LEMMA SwapBefore ==
    ASSUME TypeInv, NEW d \in Devices, SwapOf(d), NEW t \in Threads,
           updateCheckHandler(d, t) \/ markAgentUpdateStatus(d, t) \/ Download(d, t)
           \/ CheckFails(d, t)
    PROVE  SwapOf(d)'
<1>1. UNCHANGED <<exe, old, aside, lost, windows>>
  BY DEF updateCheckHandler, markAgentUpdateStatus, Download, CheckFails, machineVars
<1>2. check[d][t].pc \notin Swapping
  BY DEF updateCheckHandler, markAgentUpdateStatus, Download, CheckFails, Swapping
<1>3. PICK x \in Checks : Sets(d, t, x) /\ x.pc \notin Swapping
  <2>1. updateCheckHandler(d, t) => \E x \in Checks : Sets(d, t, x) /\ x.pc \notin Swapping
    BY BeginSets DEF Swapping
  <2>2. markAgentUpdateStatus(d, t) => \E x \in Checks : Sets(d, t, x) /\ x.pc \notin Swapping
    BY MarkSets, NoCheckTyped DEF Swapping
  <2>3. Download(d, t) => \E x \in Checks : Sets(d, t, x) /\ x.pc \notin Swapping
    BY DownloadSets, NoCheckTyped DEF Swapping
  <2>4. CheckFails(d, t) => \E x \in Checks : Sets(d, t, x) /\ x.pc \notin Swapping
    BY StepSets, NoCheckTyped DEF Swapping
  <2> QED
    BY <2>1, <2>2, <2>3, <2>4
<1>4. \A u \in Threads : \/ check'[d][u] = check[d][u]
                         \/ check'[d][u].pc \notin Swapping /\ check[d][u].pc \notin Swapping
  BY <1>2, <1>3 DEF Sets
<1> QED
  BY <1>1, <1>4, SwapQuiet

LEMMA SwapUnixStep ==
    ASSUME TypeInv, NEW d \in Devices, SwapOf(d), NEW t \in Threads, SwapUnix(d, t)
    PROVE  SwapOf(d)'
<1>1. PICK x \in Checks : Sets(d, t, x) /\ x.pc = "relaunch"
  BY StepSets
<1>2. exe'[d] # None
  <2>1. BinaryOf(check[d][t].rel) # None
    <3>1. check[d][t].rel \in AgentRelease
      BY DEF SwapUnix, TypeInv, CheckTyped, Checks, Later
    <3> QED
      BY <3>1, Constants DEF AgentRelease, BinaryOf, Binary
  <2> QED
    BY <2>1 DEF SwapUnix, TypeInv, MachineTyped
<1>3. d \notin windows /\ UNCHANGED <<old, aside, windows>>
  BY DEF SwapUnix
<1> QED
  BY <1>1, <1>2, <1>3 DEF SwapOf, Sets

LEMMA MoveAsideStep ==
    ASSUME TypeInv, NEW d \in Devices, SwapOf(d), NEW t \in Threads, MoveAside(d, t)
    PROVE  SwapOf(d)'
<1>1. CASE (aside[d] \/ exe[d] = None) /\ Sets(d, t, NoCheck)
  <2>1. UNCHANGED <<exe, old, aside, windows, lost>>
    BY <1>1 DEF MoveAside
  <2>2. check[d][t].pc \notin Swapping
    BY DEF MoveAside, Swapping
  <2>3. \A u \in Threads : \/ check'[d][u] = check[d][u]
                           \/ check'[d][u].pc \notin Swapping /\ check[d][u].pc \notin Swapping
    BY <1>1, <2>2, NoCheckTyped DEF Sets, Swapping
  <2> QED
    BY <2>1, <2>3, SwapQuiet
<1>2. ASSUME ~aside[d], exe[d] # None, NEW x \in Checks, Sets(d, t, x), x.pc = "install"
      PROVE  SwapOf(d)'
  <2>1. d \in windows /\ windows' = windows /\ lost' = lost
    BY DEF MoveAside
  <2>2. exe'[d] = None /\ old'[d] = exe[d] /\ aside'[d]
    BY <1>2 DEF MoveAside, TypeInv, MachineTyped
  <2>3. \A u \in Threads : check[d][u].pc \notin Swapping
    BY <1>2, <2>1 DEF SwapOf, Swapping
  <2>4. \A u \in Threads : u # t => check'[d][u].pc \notin Swapping
    BY <1>2, <2>3 DEF Sets
  <2>5. check'[d][t].pc = "install"
    BY <1>2 DEF Sets
  <2> QED
    BY <1>2, <2>1, <2>2, <2>4, <2>5 DEF SwapOf, Swapping
<1> QED
  BY <1>1, <1>2, StepSets

LEMMA InstallNewStep ==
    ASSUME TypeInv, NEW d \in Devices, SwapOf(d), NEW t \in Threads, InstallNew(d, t)
    PROVE  SwapOf(d)'
<1>1. PICK x \in Checks : Sets(d, t, x) /\ x.pc = "relaunch"
  BY StepSets
<1>2. exe'[d] # None
  <2>1. BinaryOf(check[d][t].rel) # None
    <3>1. check[d][t].rel \in AgentRelease
      BY DEF InstallNew, TypeInv, CheckTyped, Checks, Later
    <3> QED
      BY <3>1, Constants DEF AgentRelease, BinaryOf, Binary
  <2> QED
    BY <2>1 DEF InstallNew, TypeInv, MachineTyped
<1>3. check[d][t].pc = "install" /\ UNCHANGED <<old, aside, windows>>
  BY DEF InstallNew
<1>4. \A u \in Threads : u # t => check'[d][u] = check[d][u]
  BY <1>1 DEF Sets
<1>5. check'[d][t].pc = "relaunch"
  BY <1>1 DEF Sets
<1> QED
  BY <1>2, <1>3, <1>4, <1>5 DEF SwapOf, Swapping

LEMMA InstallFailsStep ==
    ASSUME TypeInv, NEW d \in Devices, SwapOf(d), NEW t \in Threads, InstallFails(d, t)
    PROVE  SwapOf(d)'
<1>1. Sets(d, t, NoCheck)
  BY StepSets
<1>2. check[d][t].pc = "install" /\ windows' = windows
  BY DEF InstallFails
<1>3. \A u \in Threads : u # t => check'[d][u] = check[d][u] /\ check[d][u].pc \notin Swapping
  BY <1>1, <1>2 DEF Sets, SwapOf, Swapping
<1>4. check'[d][t].pc = "idle"
  BY <1>1, NoCheckTyped DEF Sets
<1>5. \A u \in Threads : check'[d][u].pc \notin Swapping
  BY <1>3, <1>4 DEF Swapping
<1>6. CASE Rollback(d) /\ lost' = lost
  <2>1. exe'[d] = old[d] /\ ~aside'[d]
    BY <1>6 DEF Rollback, TypeInv, MachineTyped
  <2>2. old[d] # None
    BY <1>2 DEF SwapOf
  <2> QED
    BY <1>2, <1>5, <2>1, <2>2 DEF SwapOf, Swapping
<1>7. CASE lost' = lost \cup {d} /\ UNCHANGED <<exe, old, aside>>
  BY <1>2, <1>5, <1>7 DEF SwapOf, Swapping
<1> QED
  BY <1>6, <1>7 DEF InstallFails

\* A start ends every swap; it finds a binary, or the device is lost.
LEMMA SwapStart ==
    ASSUME TypeInv, NEW d \in Devices, SwapOf(d),
           (\E t \in Threads : Relaunch(d, t)) \/ Reboot(d)
           \/ (\E v \in Versions : InstallPackage(d, v))
    PROVE  SwapOf(d)'
<1>1. \A u \in Threads : check'[d][u] = NoCheck
  BY StartResets DEF Resets
<1>2. ~aside'[d] /\ windows' = windows
  BY DEF Relaunch, Reboot, InstallPackage, Started, TypeInv, MachineTyped
<1>3. exe'[d] # None \/ d \in lost'
  <2>1. ASSUME NEW t \in Threads, Relaunch(d, t) PROVE exe'[d] # None
    BY <2>1 DEF Relaunch, SwapOf
  <2>2. ASSUME Reboot(d) PROVE exe'[d] # None \/ d \in lost'
    BY <2>2 DEF Reboot
  <2>3. ASSUME NEW v \in Versions, InstallPackage(d, v) PROVE exe'[d] # None
    <3>1. [version |-> v, build |-> 0] \in Binary
      BY Constants DEF Binary
    <3> QED
      BY <2>3, <3>1, Constants DEF InstallPackage, TypeInv, MachineTyped
  <2> QED
    BY <2>1, <2>2, <2>3
<1> QED
  BY <1>1, <1>2, <1>3, NoCheckTyped DEF SwapOf, Swapping

LEMMA SwapStep == TypeInv /\ SwapInv /\ [Next]_vars => SwapInv'
<1> SUFFICES ASSUME TypeInv, SwapInv, [Next]_vars, NEW d \in Devices PROVE SwapOf(d)'
  BY DEF SwapInv
<1>0. SwapOf(d)
  BY DEF SwapInv
<1>1. CASE UNCHANGED <<exe, old, aside, lost, windows, check>>
  BY <1>0, <1>1, SwapQuiet
<1>2. CASE RestartApi
  <2>1. \A u \in Threads : \/ check'[d][u] = check[d][u]
                           \/ check'[d][u].pc \notin Swapping /\ check[d][u].pc \notin Swapping
    BY <1>2, RestartSets, NoCheckTyped DEF Swapping
  <2> QED
    BY <1>0, <1>2, <2>1, RestartFrame, SwapQuiet
<1>3. ASSUME UpdaterStep(d) PROVE SwapOf(d)'
  BY <1>0, <1>3, SwapBefore, SwapUnixStep, MoveAsideStep, InstallNewStep, InstallFailsStep,
     SwapStart DEF UpdaterStep
<1>4. ASSUME NEW e \in Devices, e # d, UpdaterStep(e) PROVE SwapOf(d)'
  BY <1>0, <1>4, OtherDevice, UpdaterFrame, SwapQuiet
<1> QED
  BY <1>1, <1>2, <1>3, <1>4, Steps, CatalogueFrame, StutterFrame

-----------------------------------------------------------------------------
(* Where the binaries of a device come from.                               *)

LEMMA FilesFrom ==
    ASSUME TypeInv, [Next]_vars, NEW d \in Devices
    PROVE  /\ \/ exe'[d] = exe[d] \/ exe'[d] = None \/ exe'[d] = old[d]
              \/ exe'[d].build = 0 /\ running'[d] = exe'[d]
              \/ \E t \in Threads : /\ check[d][t].rel # None
                                    /\ exe'[d] = BinaryOf(check[d][t].rel)
           /\ old'[d] = old[d] \/ old'[d] = exe[d] \/ old'[d] = None
<1> DEFINE Goal ==
           /\ \/ exe'[d] = exe[d] \/ exe'[d] = None \/ exe'[d] = old[d]
              \/ exe'[d].build = 0 /\ running'[d] = exe'[d]
              \/ \E t \in Threads : /\ check[d][t].rel # None
                                    /\ exe'[d] = BinaryOf(check[d][t].rel)
           /\ old'[d] = old[d] \/ old'[d] = exe[d] \/ old'[d] = None
<1>0. MachineTyped
  BY DEF TypeInv
<1>1. ASSUME exe'[d] = exe[d] /\ old'[d] = old[d] PROVE Goal
  BY <1>1
<1>2. ASSUME NEW t \in Threads, SwapUnix(d, t) \/ InstallNew(d, t) PROVE Goal
  <2>1. check[d][t].rel # None
    BY <1>2 DEF SwapUnix, InstallNew, TypeInv, CheckTyped, Later
  <2>2. exe'[d] = BinaryOf(check[d][t].rel) /\ old' = old
    BY <1>0, <1>2 DEF SwapUnix, InstallNew, MachineTyped
  <2> QED
    BY <2>1, <2>2
<1>3. ASSUME NEW t \in Threads, MoveAside(d, t) \/ InstallFails(d, t) PROVE Goal
  BY <1>0, <1>3 DEF MoveAside, InstallFails, Rollback, MachineTyped
<1>4. ASSUME (\E t \in Threads : Relaunch(d, t)) \/ Reboot(d) PROVE Goal
  BY <1>0, <1>4 DEF Relaunch, Reboot, Started, MachineTyped
<1>5. ASSUME NEW v \in Versions, InstallPackage(d, v) PROVE Goal
  <2>1. PICK b : b = [version |-> v, build |-> 0]
    OBVIOUS
  <2>2. exe'[d] = b /\ running'[d] = b /\ old'[d] = None /\ b.build = 0
    BY <1>0, <1>5, <2>1 DEF InstallPackage, MachineTyped
  <2> QED
    BY <2>2
<1>6. ASSUME NEW t \in Threads,
             updateCheckHandler(d, t) \/ markAgentUpdateStatus(d, t) \/ Download(d, t)
             \/ CheckFails(d, t)
      PROVE  Goal
  BY <1>6 DEF updateCheckHandler, markAgentUpdateStatus, Download, CheckFails, machineVars
<1> HIDE DEF Goal
<1>7. ASSUME UpdaterStep(d) PROVE Goal
  BY <1>2, <1>3, <1>4, <1>5, <1>6, <1>7 DEF UpdaterStep
<1>8. ASSUME NEW e \in Devices, e # d, UpdaterStep(e) PROVE Goal
  BY <1>1, <1>8, OtherDevice
<1>9. Goal
  BY <1>1, <1>7, <1>8, Steps, CatalogueFrame, RestartFrame, StutterFrame
<1> QED
  BY <1>9 DEF Goal

\* A binary comes from a package or from a release.
Known(b) == b # None => b.build = 0 \/ b \in released

\* Nothing but released binaries is offered, on disk or running.
SourceInv ==
    /\ \A r \in rows : ~r.pending => BinaryOf(r) \in released
    /\ \A d \in Devices : Known(exe[d]) /\ Known(old[d]) /\ Known(running[d])
    /\ \A d \in Devices, t \in Threads :
        check[d][t].rel # None => BinaryOf(check[d][t].rel) \in released

LEMMA SourceInit == Init => SourceInv
<1> SUFFICES ASSUME Init PROVE SourceInv
  OBVIOUS
<1>1. \A d \in Devices : /\ exe[d].build = 0 /\ running[d].build = 0 /\ old[d] = None
                         /\ \A t \in Threads : check[d][t] = NoCheck
  BY DEF Init
<1>2. rows = {}
  BY DEF Init
<1> QED
  BY <1>1, <1>2, NoCheckTyped DEF SourceInv, Known

LEMMA KnownStays ==
    ASSUME released \subseteq released', NEW b, Known(b)
    PROVE  Known(b)'
BY DEF Known

LEMMA SourceStep == TypeInv /\ SourceInv /\ [Next]_vars => SourceInv'
<1> SUFFICES ASSUME TypeInv, SourceInv, [Next]_vars PROVE SourceInv'
  OBVIOUS
<1>0. released \subseteq released'
  BY RowsFrom
<1>1. \A r \in rows' : ~r.pending => BinaryOf(r) \in released'
  BY <1>0, RowsFrom DEF SourceInv
<1>2. ASSUME NEW d \in Devices, NEW b, b = exe'[d] PROVE Known(b)'
  <2>1. ASSUME NEW t \in Threads, check[d][t].rel # None, b = BinaryOf(check[d][t].rel)
        PROVE  Known(b)'
    BY <1>0, <2>1 DEF SourceInv, Known
  <2>2. CASE b = exe[d] \/ b = old[d]
    BY <1>0, <2>2, KnownStays DEF SourceInv
  <2>3. CASE b = None \/ b.build = 0
    BY <2>3 DEF Known
  <2> QED
    BY <1>2, <2>1, <2>2, <2>3, FilesFrom
<1>3. ASSUME NEW d \in Devices, NEW b, b = old'[d] PROVE Known(b)'
  <2>1. CASE b = exe[d] \/ b = old[d]
    BY <1>0, <2>1, KnownStays DEF SourceInv
  <2>2. CASE b = None
    BY <2>2 DEF Known
  <2> QED
    BY <1>3, <2>1, <2>2, FilesFrom
<1>4. ASSUME NEW d \in Devices, NEW b, b = running'[d] PROVE Known(b)'
  <2>1. CASE b = running[d]
    BY <1>0, <2>1, KnownStays DEF SourceInv
  <2>2. CASE b = exe'[d]
    BY <1>2, <2>2
  <2> QED
    BY <1>4, <2>1, <2>2, RunningFrom
<1>5. ASSUME NEW d \in Devices, NEW t \in Threads, NEW y, y = check'[d][t], y.rel # None
      PROVE  BinaryOf(y.rel) \in released'
  <2>1. CASE y.rel = check[d][t].rel
    BY <1>0, <1>5, <2>1 DEF SourceInv
  <2>2. CASE y.rel \in Latest
    BY <1>0, <2>2 DEF SourceInv, Latest, Offerable, Live
  <2>3. CheckComes(d, t, y)
    BY <1>5, ChecksFrom
  <2> QED
    BY <1>5, <2>1, <2>2, <2>3, NoCheckTyped DEF CheckComes
<1> QED
  BY <1>1, <1>2, <1>3, <1>4, <1>5 DEF SourceInv

-----------------------------------------------------------------------------
(* Downgrades.                                                             *)

\* If version v is older than what runs on d, then d was marked with it.
Owed(d, v) == Newer(running[d].version, v) => \E a \in asked[d] : a.version = v

\* The versions on disk and in checks, the mark and the downgrades were owed.
OweInv ==
    /\ \A d \in Devices :
        /\ running[d] # None /\ exe[d] # None => Owed(d, exe[d].version)
        /\ running[d] # None /\ old[d] # None => Owed(d, old[d].version)
        /\ device[d].requested => \E a \in asked[d] : a.version = device[d].target
    /\ \A d \in Devices, t \in Threads :
        check[d][t].rel # None => Owed(d, check[d][t].rel.version)
    /\ \A x \in downgrades : x.device \in Devices /\ \E a \in asked[x.device] : a.version = x.version

LEMMA OweInit == Init => OweInv
<1> SUFFICES ASSUME Init PROVE OweInv
  OBVIOUS
<1>1. ASSUME NEW d \in Devices
      PROVE  /\ exe[d] = running[d] /\ running[d].version \in Versions
             /\ old[d] = None /\ ~device[d].requested
             /\ \A t \in Threads : check[d][t] = NoCheck
  BY Constants DEF Init
<1>2. \A d \in Devices : Owed(d, exe[d].version)
  BY <1>1, NewerIsStrict DEF Owed
<1>3. downgrades = {}
  BY DEF Init
<1> QED
  BY <1>1, <1>2, <1>3, NoCheckTyped DEF OweInv

LEMMA OwedStays ==
    ASSUME TypeInv, [Next]_vars, NEW d \in Devices, NEW v, Owed(d, v),
           running'[d] = running[d]
    PROVE  Owed(d, v)'
BY DevicesFrom DEF Owed

\* What an offer takes a device to is newer, or the device is marked with it.
LEMMA OfferOwed ==
    ASSUME TypeInv, OweInv, NEW d \in Devices, running[d] # None,
           NEW v \in Versions, Offer(d, v)
    PROVE  Owed(d, v)
<1>1. running[d].version \in Versions
  BY DEF TypeInv, MachineTyped, Binary
<1>2. CASE Newer(v, running[d].version)
  BY <1>1, <1>2, NewerIsStrict DEF Owed
<1>3. CASE deviceTargetsRelease(d, v)
  BY <1>3 DEF deviceTargetsRelease, Owed, OweInv
<1> QED
  BY <1>2, <1>3 DEF Offer

LEMMA DowngradesFrom ==
    ASSUME TypeInv, [Next]_vars, NEW x \in downgrades'
    PROVE  \/ x \in downgrades
           \/ \E d \in Devices, t \in Threads :
                /\ check[d][t].pc = "relaunch"
                /\ Newer(running[d].version, exe[d].version)
                /\ x = [device |-> d, version |-> exe[d].version]
<1>1. ASSUME NEW d \in Devices, NEW t \in Threads, Relaunch(d, t)
      PROVE  \/ x \in downgrades
             \/ /\ check[d][t].pc = "relaunch"
                /\ Newer(running[d].version, exe[d].version)
                /\ x = [device |-> d, version |-> exe[d].version]
  BY <1>1 DEF Relaunch
<1>2. ASSUME NEW d \in Devices, NEW t \in Threads,
             updateCheckHandler(d, t) \/ markAgentUpdateStatus(d, t) \/ Download(d, t)
             \/ CheckFails(d, t) \/ SwapUnix(d, t) \/ MoveAside(d, t) \/ InstallNew(d, t)
             \/ InstallFails(d, t)
      PROVE  downgrades' = downgrades
  BY <1>2 DEF updateCheckHandler, markAgentUpdateStatus, Download, CheckFails, SwapUnix,
              MoveAside, InstallNew, InstallFails, ghosts
<1>3. ASSUME NEW d \in Devices, Reboot(d) \/ (\E v \in Versions : InstallPackage(d, v))
      PROVE  downgrades' = downgrades
  BY <1>3 DEF Reboot, InstallPackage, ghosts
<1>4. ASSUME NEW d \in Devices, UpdaterStep(d)
      PROVE  downgrades' = downgrades \/ \E t \in Threads : Relaunch(d, t)
  BY <1>2, <1>3, <1>4 DEF UpdaterStep
<1> QED
  BY <1>1, <1>4, Steps, CatalogueFrame, RestartFrame, StutterFrame

LEMMA OweStep == TypeInv /\ SwapInv /\ OweInv /\ [Next]_vars => OweInv'
<1> SUFFICES ASSUME TypeInv, SwapInv, OweInv, [Next]_vars PROVE OweInv'
  OBVIOUS
<1>1. ASSUME NEW d \in Devices, NEW b, b = exe'[d], b # None, running'[d] # None
      PROVE  Owed(d, b.version)'
  <2>1. CASE running'[d] = exe'[d]
    <3>1. b.version \in Versions
      BY <1>1, MachineStep DEF MachineTyped, Binary
    <3> QED
      BY <1>1, <2>1, <3>1, NewerIsStrict DEF Owed
  <2>2. CASE running'[d] = running[d]
    <3>1. ASSUME NEW t \in Threads, check[d][t].rel # None, b = BinaryOf(check[d][t].rel)
          PROVE  Owed(d, b.version)
      BY <3>1 DEF OweInv, BinaryOf
    <3>2. CASE b = exe[d] \/ b = old[d]
      BY <1>1, <2>2, <3>2, OwedStays DEF OweInv
    <3> QED
      BY <1>1, <2>1, <2>2, <3>1, <3>2, FilesFrom, OwedStays
  <2> QED
    BY <2>1, <2>2, RunningFrom
<1>2. ASSUME NEW d \in Devices, NEW b, b = old'[d], b # None, running'[d] # None
      PROVE  Owed(d, b.version)'
  <2>1. running'[d] = running[d] /\ (b = exe[d] \/ b = old[d])
    BY <1>2, RunningFrom, FilesFrom
  <2> QED
    BY <1>2, <2>1, OwedStays DEF OweInv
<1>3. ASSUME NEW d \in Devices, device'[d].requested
      PROVE  \E a \in asked'[d] : a.version = device'[d].target
  BY <1>3, DevicesFrom DEF OweInv
<1>4. ASSUME NEW d \in Devices, NEW t \in Threads, NEW y, y = check'[d][t], y.rel # None
      PROVE  Owed(d, y.rel.version)'
  <2>1. running'[d] = running[d]
    BY <1>4, RunningFrom, NoCheckTyped
  <2>2. CASE y.rel = check[d][t].rel
    BY <1>4, <2>1, <2>2, OwedStays DEF OweInv
  <2>3. CASE y.rel \in Latest /\ Offer(d, y.rel.version) /\ running[d] # None
    <3>1. y.rel.version \in Versions
      BY <2>3 DEF Latest, Offerable, Live, TypeInv, RowsTyped, AgentRelease
    <3> QED
      BY <2>1, <2>3, <3>1, OfferOwed, OwedStays
  <2>4. CheckComes(d, t, y)
    BY <1>4, ChecksFrom
  <2> QED
    BY <1>4, <2>2, <2>3, <2>4, NoCheckTyped DEF CheckComes
<1>5. ASSUME NEW x \in downgrades'
      PROVE  x.device \in Devices /\ \E a \in asked'[x.device] : a.version = x.version
  <2>1. CASE x \in downgrades
    BY <2>1, DevicesFrom DEF OweInv
  <2>2. ASSUME NEW d \in Devices, NEW t \in Threads, check[d][t].pc = "relaunch",
               Newer(running[d].version, exe[d].version),
               x = [device |-> d, version |-> exe[d].version]
        PROVE  x.device \in Devices /\ \E a \in asked'[x.device] : a.version = x.version
    <3>1. exe[d] # None /\ running[d] # None
      BY <2>2 DEF SwapInv, SwapOf, TypeInv, CheckTyped
    <3>2. \E a \in asked[d] : a.version = exe[d].version
      BY <2>2, <3>1 DEF OweInv, Owed
    <3>3. x.device = d /\ x.version = exe[d].version
      BY <2>2
    <3> QED
      BY <3>2, <3>3, DevicesFrom
  <2> QED
    BY <2>1, <2>2, DowngradesFrom
<1> QED
  BY <1>1, <1>2, <1>3, <1>4, <1>5 DEF OweInv

-----------------------------------------------------------------------------
(* The theorems.                                                           *)

LEMMA TypeInvOK == TypeInv /\ SwapInv => TypeOK
<1> SUFFICES ASSUME TypeInv, SwapInv PROVE TypeOK
  OBVIOUS
<1>1. /\ rows \subseteq AgentRelease /\ (\A r \in rows : r.at < clock)
      /\ objects \in [Versions -> 0 .. MaxBuilds]
  BY DEF TypeInv, RowsTyped
<1>2. \A b \in DOMAIN jobs : jobs[b] \in AgentBuildJob
  BY JobTyped
<1>3. device \in [Devices -> [version : Versions, status : Statuses,
                              target : Versions \cup {None}, requested : BOOLEAN]]
  BY DEF TypeInv, DeviceTyped, DeviceRows
<1>4. {exe[d] : d \in Devices} \cup {running[d] : d \in Devices} \cup {old[d] : d \in Devices}
        \subseteq Binary \cup {None}
  BY DEF TypeInv, MachineTyped
<1>5. ASSUME NEW d \in Devices
      PROVE  /\ aside[d] => old[d] # None
             /\ Cardinality({t \in Threads : check[d][t].pc = "install"}) <= 1
  <2>0. SwapOf(d)
    BY DEF SwapInv
  <2>1. PICK T : T = {t \in Threads : check[d][t].pc = "install"}
    OBVIOUS
  <2>2. \A t, u \in T : t = u
    BY <2>0, <2>1 DEF SwapOf, Swapping
  <2>3. CASE T = {}
    <3>1. Cardinality(T) = 0
      BY <2>3, FS_EmptySet
    <3> QED
      BY <2>0, <2>1, <3>1 DEF SwapOf
  <2>4. CASE T # {}
    <3>1. PICK t : T = {t}
      BY <2>2, <2>4
    <3>2. Cardinality(T) = 1
      BY <3>1, FS_Singleton
    <3> QED
      BY <2>0, <2>1, <3>2 DEF SwapOf
  <2> QED
    BY <2>3, <2>4
<1> QED
  BY <1>1, <1>2, <1>3, <1>4, <1>5 DEF TypeOK

IInv == TypeInv /\ SwapInv /\ SourceInv /\ OweInv

LEMMA Invariance == Spec => []IInv
<1>1. Init => IInv
  BY TypeInit, SwapInit, SourceInit, OweInit DEF IInv
<1>2. IInv /\ [Next]_vars => IInv'
  BY TypeStep, SwapStep, SourceStep, OweStep DEF IInv
<1> QED
  BY <1>1, <1>2, PTL DEF Spec

\* Every state is well formed: on Windows an image moved aside is the file that
\* was renamed, and never two checks are between the renames.
THEOREM TypeCorrect == Spec => []TypeOK
<1>1. IInv => TypeOK
  BY TypeInvOK DEF IInv
<1> QED
  BY <1>1, Invariance, PTL

\* However versions are rebuilt, objects overwritten, rows published, signed,
\* activated and rolled out, and whenever machines restart: a device runs what
\* a package installed or what was once part of a release not held back.
THEOREM OnlyReleasedRuns == Spec => []ReleaseInv
<1>1. IInv => OnlyReleased
  BY DEF IInv, SourceInv, Known, OnlyReleased
<1> QED
  BY <1>1, Invariance, TypeCorrect, PTL DEF ReleaseInv

\* Two checks of one process, an offer that is not installed, packages that take
\* a device past it: an older version comes only to a device marked with it.
THEOREM DowngradesAreMarked == Spec => []NoSurpriseDowngrade
<1>1. IInv => NoSurpriseDowngrade
  BY DEF IInv, OweInv, NoSurpriseDowngrade
<1> QED
  BY <1>1, Invariance, PTL

\* A swap by the poller and one by an immediate check, each rename of which may
\* fail, leave a binary to start: only a reboot between the renames, or a
\* rollback that fails too, loses it.
THEOREM BinaryRemains == Spec => []Bootable
<1>1. IInv => Bootable
  BY DEF IInv, SwapInv, SwapOf, Bootable
<1> QED
  BY <1>1, Invariance, PTL
=============================================================================
