----------------------------- MODULE Quarantine -----------------------------
(***************************************************************************)
(* Network quarantine on a Linux host.  The command poller of the root     *)
(* service applies and removes the firewall rules with one iptables call   *)
(* after the other; the timer of the quarantine deadline removes them in   *)
(* goroutines of its own.  The rules outlive the agent process, the        *)
(* deadline outlives it only as a file.  Deadlines are not timed: an armed *)
(* timer may fire at any moment.                                           *)
(***************************************************************************)
EXTENDS Naturals

CONSTANTS
    Autos,        \* goroutines that can run autoReleaseQuarantine
    HasIp6tables, \* whether ip6tables works on the host
    MaxEnables,   \* bound: quarantine_enable commands
    MaxReleases,  \* bound: quarantine_release commands
    MaxFaults,    \* bound: calls that fail to change the rules or the file
    MaxProbes,    \* bound: iptables calls that fail to look at them
    MaxCrashes    \* bound: crashes of the agent and reboots

ASSUME QuarantineAssumption ==
    /\ "poller" \notin Autos
    /\ HasIp6tables \in BOOLEAN
    /\ {MaxEnables, MaxReleases, MaxFaults, MaxProbes, MaxCrashes} \subseteq Nat

Threads  == {"poller"} \cup Autos
Families == IF HasIp6tables THEN {"v4", "v6"} ELSE {"v4"}
Hooks    == {"INPUT", "OUTPUT"}

VARIABLES
    chain,     \* chain[f]: "absent", "open" without its DROP rule, or "drop"
    hook,      \* hook[f]: the builtin chains that jump to it
    timer,     \* quarantineTimer is armed
    file,      \* the file quarantine_until: "none", "torn" or "ok"
    stale,     \* goroutines whose deadline has been replaced by a newer one
    lapsed,    \* a quarantine was left without its deadline: a stale goroutine
               \* has cleared it, or the agent has crashed before it was written
    pc,        \* pc[t]: the call thread t makes next
    op,        \* op[t]: "enable", "release" or "rollback"
    fam,       \* fam[t]: the address family it works on
    clean,     \* clean[t]: no step has left a note
    enables, releases, faults, probes, crashes

fwVars    == <<chain, hook>>
planVars  == <<timer, file, stale, lapsed>>
runVars   == <<pc, op, fam, clean>>
boundVars == <<enables, releases, faults, probes, crashes>>
vars == <<fwVars, planVars, runVars, boundVars>>

\* The type of every variable; a goroutine never moves on to an address family
\* that this host does not have.
TypeOK ==
    /\ chain \in [Families -> {"absent", "open", "drop"}]
    /\ hook \in [Families -> SUBSET Hooks]
    /\ timer \in BOOLEAN /\ file \in {"none", "torn", "ok"}
    /\ stale \subseteq Autos /\ lapsed \in BOOLEAN
    /\ pc \in [Threads -> {"idle", "create", "append", "hookIn", "hookOut", "write",
                           "arm", "unhookIn", "unhookOut", "flush", "remove", "clear"}]
    /\ op \in [Threads -> {"enable", "release", "rollback"}]
    /\ fam \in [Threads -> Families]
    /\ clean \in [Threads -> BOOLEAN]
    /\ enables \in 0..MaxEnables /\ releases \in 0..MaxReleases
    /\ faults \in 0..MaxFaults /\ probes \in 0..MaxProbes /\ crashes \in 0..MaxCrashes

Init ==
    /\ chain = [f \in Families |-> "absent"]
    /\ hook = [f \in Families |-> {}]
    /\ timer = FALSE /\ file = "none" /\ stale = {} /\ lapsed = FALSE
    /\ pc = [t \in Threads |-> "idle"]
    /\ op = [t \in Threads |-> "release"]
    /\ fam = [t \in Threads |-> "v4"]
    /\ clean = [t \in Threads |-> TRUE]
    /\ enables = 0 /\ releases = 0 /\ faults = 0 /\ probes = 0 /\ crashes = 0

Fault == /\ faults < MaxFaults
         /\ faults' = faults + 1
         /\ UNCHANGED <<enables, releases, probes, crashes>>

ProbeFault == /\ probes < MaxProbes
              /\ probes' = probes + 1
              /\ UNCHANGED <<enables, releases, faults, crashes>>

Start(t, operation, first) ==
    /\ pc[t] = "idle"
    /\ pc' = [pc EXCEPT ![t] = first]
    /\ op' = [op EXCEPT ![t] = operation]
    /\ fam' = [fam EXCEPT ![t] = "v4"]
    /\ clean' = [clean EXCEPT ![t] = TRUE]

Goto(t, step) == pc' = [pc EXCEPT ![t] = step]
Note(t, ok)   == clean' = [clean EXCEPT ![t] = @ /\ ok]

\* The families are handled one after the other: IPv6 follows IPv4.
MoreFamilies(t) == fam[t] = "v4" /\ HasIp6tables

\* (Only the last step counts.)
SucceededLast(t, ok) == ok

\* Whether the operation has succeeded: no step has left a note.
Succeeded(t, ok) == clean[t] /\ ok

-----------------------------------------------------------------------------
(* quarantineEnable.                                                       *)

EnableCommand ==
    /\ enables < MaxEnables
    /\ enables' = enables + 1
    /\ Start("poller", "enable", "create")
    /\ UNCHANGED <<fwVars, planVars, releases, faults, probes, crashes>>

\* A family that cannot be isolated: IPv4 gives up where it is, IPv6 rolls
\* everything back.
EnableFailed(t) ==
    IF fam[t] = "v4"
    THEN Goto(t, "idle") /\ UNCHANGED <<op, fam, clean>>
    ELSE /\ Goto(t, "unhookIn")
         /\ op' = [op EXCEPT ![t] = "rollback"]
         /\ fam' = [fam EXCEPT ![t] = "v4"]
         /\ clean' = [clean EXCEPT ![t] = TRUE]

\* applyQuarantineChain: create the chain and flush it.
Create(t) ==
    /\ pc[t] = "create"
    /\ chain' = [chain EXCEPT ![fam[t]] = "open"]
    /\ Goto(t, "append")
    /\ UNCHANGED <<hook, planVars, op, fam, clean, boundVars>>

CreateFails(t) ==
    /\ pc[t] = "create"
    /\ Fault
    /\ \/ UNCHANGED chain
       \/ /\ chain[fam[t]] = "absent"
          /\ chain' = [chain EXCEPT ![fam[t]] = "open"]
    /\ EnableFailed(t)
    /\ UNCHANGED <<hook, planVars>>

\* The rules are appended; the DROP rule is the last one.
AppendRules(t) ==
    /\ pc[t] = "append" /\ chain[fam[t]] # "absent"
    /\ chain' = [chain EXCEPT ![fam[t]] = "drop"]
    /\ Goto(t, "hookIn")
    /\ UNCHANGED <<hook, planVars, op, fam, clean, boundVars>>

\* A rule is not accepted, or the chain is gone.
AppendFails(t) ==
    /\ pc[t] = "append"
    /\ \/ chain[fam[t]] = "absent" /\ UNCHANGED boundVars
       \/ chain[fam[t]] # "absent" /\ Fault
    /\ EnableFailed(t)
    /\ UNCHANGED <<fwVars, planVars>>

HookAt == [INPUT |-> "hookIn", OUTPUT |-> "hookOut"]

\* One hook is tried, then the other.  When both families are isolated the
\* deadline follows.
Hooked(t, h, ok) ==
    IF h = "INPUT"
    THEN Goto(t, "hookOut") /\ Note(t, ok) /\ UNCHANGED <<op, fam>>
    ELSE IF ~Succeeded(t, ok)
    THEN EnableFailed(t)
    ELSE /\ IF MoreFamilies(t)
            THEN Goto(t, "create") /\ fam' = [fam EXCEPT ![t] = "v6"]
            ELSE Goto(t, "write") /\ UNCHANGED fam
         /\ UNCHANGED <<op, clean>>

Hook(t, h) ==
    /\ pc[t] = HookAt[h] /\ chain[fam[t]] # "absent"
    /\ hook' = [hook EXCEPT ![fam[t]] = @ \cup {h}]
    /\ Hooked(t, h, TRUE)
    /\ UNCHANGED <<chain, planVars, boundVars>>

\* The jump is not accepted, or the chain is gone.
HookFails(t, h) ==
    /\ pc[t] = HookAt[h]
    /\ \/ chain[fam[t]] = "absent" /\ UNCHANGED boundVars
       \/ chain[fam[t]] # "absent" /\ h \notin hook[fam[t]] /\ Fault
    /\ Hooked(t, h, FALSE)
    /\ UNCHANGED <<fwVars, planVars>>

\* armQuarantineDeadline, under quarantineMu: stop the old timer, write the
\* file (WriteFile truncates it first) and arm the new timer.
WriteDeadline(t) ==
    /\ pc[t] = "write"
    /\ timer' = FALSE /\ file' = "torn"
    /\ stale' = {a \in Autos : pc[a] # "idle"}
    /\ Goto(t, "arm")
    /\ UNCHANGED <<fwVars, lapsed, op, fam, clean, boundVars>>

ArmDeadline(t) ==
    /\ pc[t] = "arm"
    /\ timer' = TRUE /\ file' = "ok"
    /\ Goto(t, "idle")
    /\ UNCHANGED <<fwVars, stale, lapsed, op, fam, clean, boundVars>>

\* The file cannot be opened or written: the error is ignored.
DeadlineUnsaved(t) ==
    /\ pc[t] \in {"write", "arm"}
    /\ Fault
    /\ timer' = TRUE
    /\ stale' = {a \in Autos : pc[a] # "idle"}
    /\ Goto(t, "idle")
    /\ UNCHANGED <<fwVars, file, lapsed, op, fam, clean>>

-----------------------------------------------------------------------------
(* quarantineRelease, for a command, for the deadline or for a rollback.   *)

ReleaseCommand ==
    /\ releases < MaxReleases
    /\ releases' = releases + 1
    /\ Start("poller", "release", "unhookIn")
    /\ UNCHANGED <<fwVars, planVars, enables, faults, probes, crashes>>

\* The timer fires and runs autoReleaseQuarantine.
Fire(a) ==
    /\ timer
    /\ timer' = FALSE
    /\ stale' = stale \ {a}
    /\ Start(a, "release", "unhookIn")
    /\ UNCHANGED <<fwVars, file, lapsed, boundVars>>

UnhookAt == [INPUT |-> "unhookIn", OUTPUT |-> "unhookOut"]

Unhooked(t, h) == Goto(t, IF h = "INPUT" THEN "unhookOut" ELSE "flush")

Unhook(t, h) ==
    /\ pc[t] = UnhookAt[h]
    /\ hook' = [hook EXCEPT ![fam[t]] = @ \ {h}]
    /\ Unhooked(t, h)
    /\ UNCHANGED <<chain, planVars, op, fam, clean, boundVars>>

\* A hook that cannot be removed leaves a note, one that cannot be seen counts
\* as absent.
UnhookFails(t, h) ==
    /\ pc[t] = UnhookAt[h] /\ h \in hook[fam[t]]
    /\ \/ Fault /\ Note(t, FALSE)
       \/ ProbeFault /\ UNCHANGED clean
    /\ Unhooked(t, h)
    /\ UNCHANGED <<fwVars, planVars, op, fam>>

\* The next family; after the last one, a release that succeeded clears the
\* deadline and any other one ends here.
Released(t, ok) ==
    /\ Note(t, ok)
    /\ IF MoreFamilies(t)
       THEN Goto(t, "unhookIn") /\ fam' = [fam EXCEPT ![t] = "v6"]
       ELSE /\ Goto(t, IF op[t] = "release" /\ Succeeded(t, ok)
                       THEN "clear" ELSE "idle")
            /\ UNCHANGED fam
    /\ UNCHANGED op

\* Flush the chain, if there is one.
Flush(t) ==
    /\ pc[t] = "flush"
    /\ IF chain[fam[t]] = "absent"
       THEN Released(t, TRUE) /\ UNCHANGED chain
       ELSE /\ chain' = [chain EXCEPT ![fam[t]] = "open"]
            /\ Goto(t, "remove")
            /\ UNCHANGED <<op, fam, clean>>
    /\ UNCHANGED <<hook, planVars, boundVars>>

\* A chain that cannot be flushed leaves a note, one that cannot be seen
\* counts as absent.
FlushFails(t) ==
    /\ pc[t] = "flush" /\ chain[fam[t]] # "absent"
    /\ \/ Fault /\ Note(t, FALSE) /\ Goto(t, "remove") /\ UNCHANGED <<op, fam>>
       \/ ProbeFault /\ Released(t, TRUE)
    /\ UNCHANGED <<fwVars, planVars>>

\* Delete the chain.  One that is still referenced stays, one that another
\* thread has deleted is an error too.
Remove(t) ==
    /\ pc[t] = "remove"
    /\ LET f == fam[t]
           ok == chain[f] # "absent" /\ hook[f] = {}
       IN  /\ chain' = IF ok THEN [chain EXCEPT ![f] = "absent"] ELSE chain
           /\ Released(t, ok)
    /\ UNCHANGED <<hook, planVars, boundVars>>

RemoveFails(t) ==
    /\ pc[t] = "remove" /\ chain[fam[t]] # "absent"
    /\ Fault
    /\ Released(t, FALSE)
    /\ UNCHANGED <<fwVars, planVars>>

\* The call that asks for the version fails: the family counts as not
\* available.  To enable, IPv4 is needed; IPv6 and a release go on without.
Unavailable(t) ==
    /\ ProbeFault
    /\ \/ /\ pc[t] = "create"
          /\ Goto(t, IF fam[t] = "v4" THEN "idle" ELSE "write")
          /\ UNCHANGED <<op, fam, clean>>
       \/ /\ pc[t] = "unhookIn"
          /\ Released(t, TRUE)
    /\ UNCHANGED <<fwVars, planVars>>

\* (The caller holds quarantineMu already.)
ClearDeadlineLocked(t) ==
    /\ pc[t] = "clear"
    /\ \A u \in Threads : pc[u] \notin {"arm", "clear"}
    /\ timer' = FALSE /\ file' = "none"
    /\ lapsed' = (lapsed \/ t \in stale)
    /\ Goto(t, "idle")
    /\ UNCHANGED <<fwVars, stale, op, fam, clean, boundVars>>

\* clearQuarantineDeadline, under quarantineMu.  (It does not look whose
\* deadline it clears.)
ClearDeadline(t) ==
    /\ pc[t] = "clear"
    /\ \A u \in Threads : pc[u] # "arm"
    /\ timer' = FALSE /\ file' = "none"
    /\ lapsed' = (lapsed \/ t \in stale)
    /\ Goto(t, "idle")
    /\ UNCHANGED <<fwVars, stale, op, fam, clean, boundVars>>

-----------------------------------------------------------------------------
(* ResumeQuarantineDeadline at the start of the agent.                     *)

\* (The deadline is resumed and its file removed.)
ResumeConsuming == timer' = (file = "ok") /\ file' = "none"

\* (The deadline is left on disk and nothing is armed.)
ResumeForgotten == timer' = FALSE /\ UNCHANGED file

\* A deadline on disk is armed again, an unreadable one is removed.
Resume ==
    /\ timer' = (file = "ok")
    /\ file' = IF file = "ok" THEN "ok" ELSE "none"

\* The poller is carrying out a quarantine_enable, or taking it back.
Isolating == op["poller"] # "release" /\ pc["poller"] # "idle"

\* The agent dies and is started again; a reboot clears the rules as well.
Crash ==
    /\ crashes < MaxCrashes
    /\ crashes' = crashes + 1
    /\ \/ UNCHANGED fwVars
       \/ /\ chain' = [f \in Families |-> "absent"]
          /\ hook' = [f \in Families |-> {}]
    /\ pc' = [t \in Threads |-> "idle"]
    /\ Resume
    /\ stale' = {}
    /\ lapsed' = (lapsed \/ (Isolating /\ file # "ok"))
    /\ UNCHANGED <<op, fam, clean, enables, releases, faults, probes>>

-----------------------------------------------------------------------------
Call(t) ==
    \/ Create(t) \/ AppendRules(t) \/ WriteDeadline(t) \/ ArmDeadline(t)
    \/ Flush(t) \/ Remove(t) \/ ClearDeadline(t)
    \/ \E h \in Hooks : Hook(t, h) \/ Unhook(t, h)

CallFails(t) ==
    \/ CreateFails(t) \/ AppendFails(t) \/ FlushFails(t) \/ RemoveFails(t)
    \/ \E h \in Hooks : HookFails(t, h) \/ UnhookFails(t, h)
    \/ Unavailable(t) \/ DeadlineUnsaved(t)

\* Nothing is going on, and nothing is armed to happen.
Idle == /\ \A t \in Threads : pc[t] = "idle"
        /\ ~timer
        /\ UNCHANGED vars

Next ==
    \/ EnableCommand \/ ReleaseCommand
    \/ \E t \in Threads : Call(t) \/ CallFails(t)
    \/ \E a \in Autos : Fire(a)
    \/ Crash
    \/ Idle

\* A thread that has begun goes on, and an armed timer fires.
Fairness == /\ \A t \in Threads : WF_vars(Call(t) \/ CallFails(t))
            /\ WF_vars(\E a \in Autos : Fire(a))

Spec     == Init /\ [][Next]_vars
FairSpec == Spec /\ Fairness

-----------------------------------------------------------------------------
(* Properties.                                                             *)

NoFailure == faults = 0 /\ probes = 0
Quiet == \A t \in Threads : pc[t] = "idle"

\* Traffic of family f is dropped in at least one direction.
Blocked(f) == chain[f] = "drop" /\ hook[f] # {}

\* quarantineRelease reports to the API that full connectivity is restored
\* only when it is, also while a deadline of the same quarantine expires and
\* while iptables calls fail.  (Calls that change the rules: a query that fails
\* is taken for "not there", and the report is then wrong.)
ReleaseRestores ==
    pc["poller"] = "clear" /\ probes = 0 => \A f \in Families : ~Blocked(f)

\* The armed timer and the file agree, over crashes and expiring deadlines
\* that meet new commands: an armed deadline would survive a crash, and once
\* nobody works on a blocked host, a deadline on disk is watched by a timer.
\* (As long as no call fails: a failed release is not retried, and a file that
\* could not be written is not noticed.)
DeadlineKept ==
    NoFailure =>
        /\ timer => file = "ok"
        /\ file = "ok" /\ Quiet /\ (\E f \in Families : Blocked(f)) => timer

\* Every state is well formed, and the timer and the file agree.
DeadlineInv == TypeOK /\ DeadlineKept

\* "The agent releases itself when it passes, including after a restart": a
\* deadline on disk ends the quarantine, whatever crashes and whatever commands
\* meet its expiry, unless a call fails, the goroutine of an older deadline
\* clears this one, or a crash comes between new rules and their deadline (or
\* their rollback).
DeadlineHonoured ==
    file = "ok" ~> (~NoFailure \/ lapsed \/ \A f \in Families : ~Blocked(f))

\* The command poller comes back from every quarantine command to ask for the
\* next one, also while the deadline of an earlier quarantine expires and
\* competes for the rules and for quarantineMu: no failing call, and no order
\* of the calls, leaves it waiting.
PollerReturns == pc["poller"] # "idle" ~> pc["poller"] = "idle"

\* "Every quarantine carries a deadline": a host whose traffic is blocked
\* and that nothing is working on will be released.
QuarantineHasDeadline == Quiet /\ (\E f \in Families : Blocked(f)) => timer
=============================================================================
