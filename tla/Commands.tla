------------------------------ MODULE Commands ------------------------------
(***************************************************************************)
(* Remote actions on one device: the dashboard issues commands, the        *)
(* command pollers of the agent processes claim and execute them and       *)
(* report the outcome, once, over a network that loses requests and        *)
(* answers.  Commands are numbered in the order of created_at; they may    *)
(* reach the database in another order.                                    *)
(***************************************************************************)
EXTENDS Integers, FiniteSets

CONSTANTS
    Processes,    \* agent processes that run a command poller
    Root,         \* the root service
    Types,        \* the command types the dashboard issues
    ClaimLimit,   \* commands one poll may claim
    TTL,          \* lifetime of a command: 24 hours
    MaxCommands,  \* bound: commands issued
    MaxTime,      \* bound: clock
    MaxFailures     \* bound: lost messages, crashes and key rotations

QuarantineTypes == {"quarantine_enable", "quarantine_release"}
CommandTypes == {"collect_now", "restart_agent", "lock_screen", "wipe_agent"}
                    \cup QuarantineTypes

ASSUME CommandsAssumption ==
    /\ Root \in Processes
    /\ Types \subseteq CommandTypes
    /\ ClaimLimit \in Nat /\ TTL \in Nat
    /\ MaxCommands \in Nat /\ MaxTime \in Nat /\ MaxFailures \in Nat

Ids == 1..MaxCommands
NoKey == 0

VARIABLES
    now, failures,
    issued,     \* number of commands issued so far
    type,       \* type[i]
    status,     \* status[i]: "none" before command i exists, "stamped" until
                \* it is inserted, "refused" if it is not, "gone" after the
                \* TTL index has removed its document
    expires,    \* expires[i]: expires_at
    missed,     \* missed[i]: older commands not yet inserted when i was claimed
    badging,    \* commands whose create handler has yet to update the device
    flag,       \* devices.quarantined
    revoked,    \* devices.status is "revoked"
    serverKey,  \* the key the device row holds (keys are numbered as minted)
    cacheKey,   \* the key in registration.json, or NoKey
    creds,      \* creds[p]: the key process p holds, or NoKey
    answer,     \* the key in the answer to the registration under way, or NoKey
    orphans,    \* claim requests whose poller has given up on them
    stage,      \* stage[p]: where the poller of p is
    key,        \* key[p]: the key fetchAndExecute read at its start
    held,       \* held[p]: commands claimed for p and not executed yet
    current,    \* current[p]: the command p reports on
    outcome,    \* outcome[i]: what Execute returned
    executed,   \* executed[i]: how often Execute ran for command i
    effects,    \* results recorded whose device update is still to come
    deferred,   \* deferred[p]: scheduled restart and wipe commands of p
    wakeup,     \* wakeup[p]: a token is in the collectNowCh of p
    collected,  \* collect_now commands whose collection cycle ran or will run
    isolated,   \* the quarantine rules are in place on the host
    applied,    \* quarantine commands the root service has carried out
    wiped       \* the wipe has run

cmdVars    == <<issued, type, status, expires, missed>>
deviceVars == <<badging, flag, revoked, effects>>
keyVars    == <<serverKey, cacheKey, creds, answer>>
pollVars   == <<orphans, stage, key, held, current>>
hostVars   == <<outcome, executed, deferred, wakeup, collected, isolated, applied,
                wiped>>
commandsVars == <<now, failures, cmdVars, deviceVars, keyVars, pollVars, hostVars>>

Outcomes == {"success", "failed", "unsupported"}
Statuses == {"none", "stamped", "refused", "pending", "delivered", "gone"} \cup Outcomes

\* Nobody has claimed these, and those that can still be claimed.
Waiting == {"stamped", "pending"}

ClaimTypes ==
    /\ issued \in 0..MaxCommands
    /\ status \in [Ids -> Statuses]
    /\ \A i \in Ids : status[i] = "none" <=> i > issued
    /\ stage \in [Processes -> {"idle", "claiming", "exec", "report"}]
    /\ held \in [Processes -> SUBSET Ids]
    /\ current \in [Processes -> 0..MaxCommands]
    /\ \A p \in Processes : stage[p] = "report" => current[p] \in Ids
    /\ outcome \in [Ids -> Outcomes \cup {"none"}]
    /\ executed \in [Ids -> Nat]

HostTypes ==
    /\ now \in Nat /\ failures \in Nat
    /\ type \in [Ids -> CommandTypes \cup {"none"}]
    /\ expires \in [Ids -> Nat] /\ missed \in [Ids -> SUBSET Ids]
    /\ badging \subseteq Ids /\ flag \in BOOLEAN /\ revoked \in BOOLEAN
    /\ effects \subseteq Ids
    /\ serverKey \in Nat /\ cacheKey \in Nat /\ creds \in [Processes -> Nat]
    /\ answer \in Nat /\ orphans \in Nat
    /\ key \in [Processes -> Nat]
    /\ deferred \in [Processes -> SUBSET Ids]
    /\ wakeup \in [Processes -> BOOLEAN] /\ collected \subseteq Ids
    /\ isolated \in BOOLEAN /\ applied \subseteq Ids /\ wiped \in BOOLEAN

\* The type of every variable; ids are given out in order, and a process that
\* reports has a command to report.
CommandsTypeOK == ClaimTypes /\ HostTypes

CommandsInit ==
    /\ now = 0 /\ failures = 0 /\ issued = 0
    /\ type = [i \in Ids |-> "none"]
    /\ status = [i \in Ids |-> "none"]
    /\ expires = [i \in Ids |-> 0]
    /\ missed = [i \in Ids |-> {}]
    /\ badging = {} /\ flag = FALSE /\ revoked = FALSE /\ effects = {}
    /\ serverKey = 1 /\ cacheKey = 1 /\ creds = [p \in Processes |-> 1]
    /\ answer = NoKey
    /\ orphans = 0
    /\ stage = [p \in Processes |-> "idle"]
    /\ key = [p \in Processes |-> 0]
    /\ held = [p \in Processes |-> {}]
    /\ current = [p \in Processes |-> 0]
    /\ outcome = [i \in Ids |-> "none"]
    /\ executed = [i \in Ids |-> 0]
    /\ deferred = [p \in Processes |-> {}]
    /\ wakeup = [p \in Processes |-> FALSE] /\ collected = {}
    /\ isolated = FALSE /\ applied = {} /\ wiped = FALSE

Fails == failures < MaxFailures /\ failures' = failures + 1

Tick ==
    /\ now < MaxTime
    /\ now' = now + 1
    /\ UNCHANGED <<failures, cmdVars, deviceVars, keyVars, pollVars, hostVars>>

-----------------------------------------------------------------------------
(* The dashboard side.                                                     *)

\* deviceCommandCreateHandler stamps the command with its times ...
Stamp(t) ==
    /\ issued < MaxCommands
    /\ issued' = issued + 1
    /\ type' = [type EXCEPT ![issued'] = t]
    /\ status' = [status EXCEPT ![issued'] = "stamped"]
    /\ expires' = [expires EXCEPT ![issued'] = now + TTL]
    /\ UNCHANGED <<now, failures, missed, deviceVars, keyVars, pollVars, hostVars>>

\* ... inserts it, which a handler that stamped a later one may do first ...
Insert(i) ==
    /\ status[i] = "stamped"
    /\ status' = [status EXCEPT ![i] = "pending"]
    /\ badging' = IF type[i] \in QuarantineTypes THEN badging \cup {i} ELSE badging
    /\ UNCHANGED <<now, failures, issued, type, expires, missed, flag, revoked,
                   effects, keyVars, pollVars, hostVars>>

\* (the insert is refused, or its answer is lost, and the handler ends)
InsertFails(i) ==
    /\ status[i] = "stamped"
    /\ Fails
    /\ \E s \in {"refused", "pending"} : status' = [status EXCEPT ![i] = s]
    /\ UNCHANGED <<now, issued, type, expires, missed, deviceVars, keyVars,
                   pollVars, hostVars>>

\* ... and then badges the device.
Badge(i) ==
    /\ i \in badging
    /\ badging' = badging \ {i}
    /\ flag' = (type[i] = "quarantine_enable")
    /\ UNCHANGED <<now, failures, cmdVars, revoked, effects, keyVars, pollVars, hostVars>>

\* The TTL index removes a document past its expiry, whatever its status.
TTLRemove(i) ==
    /\ status[i] \notin {"none", "stamped", "refused", "gone"} /\ expires[i] <= now
    /\ status' = [status EXCEPT ![i] = "gone"]
    /\ UNCHANGED <<now, failures, issued, type, expires, missed, deviceVars,
                   keyVars, pollVars, hostVars>>

\* The wipe stops the root service.  The window service is a unit of the
\* user's session manager, which the wipe does not reach.
Running(p) == p = Root => ~wiped

\* resolveAPIKey.
Authorized(k) == k = serverKey /\ ~revoked

-----------------------------------------------------------------------------
(* The key of the device, registerDeviceWithCache.                         *)

\* Another installation on the same hardware registers and takes the row over.
RotatedElsewhere ==
    /\ Fails
    /\ serverKey' = serverKey + 1
    /\ UNCHANGED <<now, cacheKey, creds, answer, cmdVars, deviceVars, pollVars, hostVars>>

\* The root service has no key, or its uploads are answered with a 401: it
\* registers, and the device row gets a new key.  (A revoked row keeps its
\* status, so that no new key helps.)
Register ==
    /\ ~wiped /\ ~revoked
    /\ answer = NoKey /\ ~Authorized(creds[Root])
    /\ serverKey' = serverKey + 1
    /\ answer' = serverKey'
    /\ UNCHANGED <<now, failures, cacheKey, creds, cmdVars, deviceVars, pollVars,
                   hostVars>>

\* The answer arrives: setCredentials, also for the poller ...
Adopt ==
    /\ answer # NoKey /\ creds[Root] # answer
    /\ creds' = [creds EXCEPT ![Root] = answer]
    /\ UNCHANGED <<now, failures, serverKey, cacheKey, answer, cmdVars, deviceVars,
                   pollVars, hostVars>>

\* ... or it is lost.
LoseRegistration ==
    /\ answer # NoKey /\ creds[Root] # answer
    /\ Fails
    /\ answer' = NoKey
    /\ UNCHANGED <<now, serverKey, cacheKey, creds, cmdVars, deviceVars, pollVars,
                   hostVars>>

\* writeRegistrationCache ...
Save ==
    /\ answer # NoKey /\ creds[Root] = answer
    /\ cacheKey' = answer
    /\ answer' = NoKey
    /\ UNCHANGED <<now, failures, serverKey, creds, cmdVars, deviceVars, pollVars,
                   hostVars>>

\* ... which may fail after the key has been adopted.
SaveFails ==
    /\ answer # NoKey /\ creds[Root] = answer
    /\ Fails
    /\ answer' = NoKey
    /\ UNCHANGED <<now, serverKey, cacheKey, creds, cmdVars, deviceVars, pollVars,
                   hostVars>>

Enroll == Register \/ Adopt \/ Save

-----------------------------------------------------------------------------
(* fetchAndExecute and the handlers it calls.                              *)

\* (The window service has no ReauthHook either.)
KeepKey(p) == creds[p]

\* What a poller holds after a 401: the ReauthHook of the window service,
\* reloadCredentialsFromCache, reads registration.json.
ReloadKey(p) == IF p = Root \/ cacheKey = NoKey THEN creds[p] ELSE cacheKey

\* The poll reaches the API.
Poll(p) ==
    /\ stage[p] = "idle" /\ creds[p] # NoKey /\ Running(p)
    /\ IF Authorized(creds[p])
       THEN /\ stage' = [stage EXCEPT ![p] = "claiming"]
            /\ key' = [key EXCEPT ![p] = creds[p]]
            /\ UNCHANGED creds
       ELSE /\ creds' = [creds EXCEPT ![p] = ReloadKey(p)]
            /\ UNCHANGED <<stage, key>>
    /\ UNCHANGED <<now, failures, cmdVars, deviceVars, serverKey, cacheKey, answer,
                   orphans, held, current, hostVars>>

\* (Commands that were delivered and not acknowledged are handed out again.)
ClaimableAgain(i) == status[i] \in {"pending", "delivered"} /\ expires[i] > now

\* The filter of the claim.
Claimable(i) == status[i] = "pending" /\ expires[i] > now

\* (The sort by created_at the other way round.)
Newest(i) == Claimable(i) /\ \A j \in Ids : Claimable(j) => j <= i

\* FindOneAndUpdate takes the oldest claimable command.
Oldest(i) == Claimable(i) /\ \A j \in Ids : Claimable(j) => i <= j

Deliver(i) ==
    /\ Oldest(i)
    /\ status' = [status EXCEPT ![i] = "delivered"]
    /\ missed' = [missed EXCEPT ![i] = {j \in Ids : j < i /\ status[j] = "stamped"}]

Claim(p, i) ==
    /\ stage[p] = "claiming" /\ Cardinality(held[p]) < ClaimLimit
    /\ Deliver(i)
    /\ held' = [held EXCEPT ![p] = @ \cup {i}]
    /\ UNCHANGED <<now, failures, issued, type, expires, deviceVars, keyVars,
                   orphans, stage, key, current, hostVars>>

\* The answer with the claimed commands arrives.
Answer(p) ==
    /\ stage[p] = "claiming"
    /\ Cardinality(held[p]) = ClaimLimit \/ ~\E i \in Ids : Claimable(i)
    /\ stage' = [stage EXCEPT ![p] = "exec"]
    /\ UNCHANGED <<now, failures, cmdVars, deviceVars, keyVars, orphans, key,
                   held, current, hostVars>>

\* A database error ends the claims early, and may hide one that was made.
ClaimFails(p) ==
    /\ stage[p] = "claiming"
    /\ Fails
    /\ stage' = [stage EXCEPT ![p] = "exec"]
    /\ \/ UNCHANGED <<status, missed>>
       \/ Cardinality(held[p]) < ClaimLimit /\ \E i \in Ids : Deliver(i)
    /\ UNCHANGED <<now, issued, type, expires, deviceVars, keyVars, orphans,
                   key, held, current, hostVars>>

\* The poller gives up on the request: what was claimed is lost, and the
\* handler may go on claiming.
LoseAnswer(p) ==
    /\ stage[p] = "claiming"
    /\ Fails
    /\ stage' = [stage EXCEPT ![p] = "idle"]
    /\ held' = [held EXCEPT ![p] = {}]
    /\ orphans' \in {orphans, orphans + 1}
    /\ UNCHANGED <<now, cmdVars, deviceVars, keyVars, key, current, hostVars>>

OrphanClaim(i) ==
    /\ orphans > 0 /\ Deliver(i)
    /\ UNCHANGED <<now, failures, issued, type, expires, deviceVars, keyVars,
                   pollVars, hostVars>>

OrphanEnds ==
    /\ orphans > 0
    /\ orphans' = orphans - 1
    /\ UNCHANGED <<now, failures, cmdVars, deviceVars, keyVars, stage, key, held,
                   current, hostVars>>

-----------------------------------------------------------------------------
(* Execute and postResult.                                                 *)

\* What Execute may return for command i in process p.  collect_now, restart
\* and wipe always report success.  Only root may see and change the firewall:
\* elsewhere an enable fails, while a release finds nothing to remove and
\* reports a success.
Returns(p, i) ==
    CASE type[i] \in {"collect_now", "restart_agent", "wipe_agent"} -> {"success"}
      [] type[i] = "lock_screen" -> Outcomes
      [] type[i] = "quarantine_enable" ->
            IF p = Root THEN Outcomes ELSE Outcomes \ {"success"}
      [] OTHER ->  \* quarantine_release
            IF p = Root THEN {"success", "failed"} ELSE {"success"}

\* (The claimed commands are taken from the end of the answer.)
LastHeld(p, i) == i \in held[p] /\ \A j \in held[p] : j <= i

\* The claimed commands are executed in the order of their creation.
First(p, i) == i \in held[p] /\ \A j \in held[p] : i <= j

Execute(p, i) ==
    /\ stage[p] = "exec" /\ First(p, i)
    /\ held' = [held EXCEPT ![p] = @ \ {i}]
    /\ current' = [current EXCEPT ![p] = i]
    /\ stage' = [stage EXCEPT ![p] = "report"]
    /\ executed' = [executed EXCEPT ![i] = @ + 1]
    /\ \E r \in Returns(p, i) :
         /\ outcome' = [outcome EXCEPT ![i] = r]
         /\ IF p = Root /\ r = "success" /\ type[i] \in QuarantineTypes
            THEN /\ isolated' = (type[i] = "quarantine_enable")
                 /\ applied' = applied \cup {i}
            ELSE UNCHANGED <<isolated, applied>>
    /\ deferred' = IF type[i] \in {"restart_agent", "wipe_agent"}
                   THEN [deferred EXCEPT ![p] = @ \cup {i}] ELSE deferred
    /\ IF type[i] = "collect_now"
       THEN /\ wakeup' = [wakeup EXCEPT ![p] = TRUE]
            /\ collected' = IF p = Root THEN collected \cup {i} ELSE collected
       ELSE UNCHANGED <<wakeup, collected>>
    /\ UNCHANGED <<now, failures, cmdVars, deviceVars, keyVars, orphans, key, wiped>>

\* (The report names the last command of the claim instead of the current.)
ReportedLast(p) == CHOOSE i \in held[p] \cup {current[p]} :
                      \A j \in held[p] \cup {current[p]} : j <= i

\* The command a report is about.
Reported(p) == current[p]

\* postResult has been answered or has failed: on to the next command.
Reporting(p) ==
    /\ stage[p] = "report"
    /\ stage' = [stage EXCEPT ![p] = "exec"]

\* commandsResultHandler records the first result of a command; its effect
\* on the device row follows.  The key is the one of the poll.
Report(p) ==
    /\ Reporting(p)
    /\ LET i == Reported(p)
       IN IF Authorized(key[p]) /\ status[i] \in {"pending", "delivered"}
          THEN /\ status' = [status EXCEPT ![i] = outcome[current[p]]]
               /\ effects' = IF outcome[current[p]] = "success"
                             THEN effects \cup {i} ELSE effects
          ELSE UNCHANGED <<status, effects>>
    /\ UNCHANGED <<now, failures, issued, type, expires, missed, badging, flag, revoked,
                   keyVars, orphans, key, held, current, hostVars>>

\* There is no retry.
ReportFails(p) ==
    /\ Reporting(p)
    /\ Fails
    /\ UNCHANGED <<now, cmdVars, deviceVars, keyVars, orphans, key, held,
                   current, hostVars>>

\* The side effect of a recorded success.
Effect(i) ==
    /\ i \in effects
    /\ effects' = effects \ {i}
    /\ revoked' = (revoked \/ type[i] = "wipe_agent")
    /\ flag' = CASE type[i] = "quarantine_release" -> FALSE
                 [] type[i] = "quarantine_enable" -> TRUE
                 [] OTHER -> flag
    /\ UNCHANGED <<now, failures, cmdVars, badging, keyVars, pollVars, hostVars>>

\* The claimed commands are done; the poller sleeps until the next poll.
Done(p) ==
    /\ stage[p] = "exec" /\ held[p] = {}
    /\ stage' = [stage EXCEPT ![p] = "idle"]
    /\ UNCHANGED <<now, failures, cmdVars, deviceVars, keyVars, orphans, key,
                   held, current, hostVars>>

\* Process p ends and forgets what it had claimed and scheduled, and a
\* registration under way; the API may go on with its request.
Stop(p) ==
    /\ stage' = [stage EXCEPT ![p] = "idle"]
    /\ held' = [held EXCEPT ![p] = {}]
    /\ deferred' = [deferred EXCEPT ![p] = {}]
    /\ wakeup' = [wakeup EXCEPT ![p] = FALSE]
    /\ answer' = IF p = Root THEN NoKey ELSE answer
    /\ orphans' \in IF stage[p] = "claiming" THEN {orphans, orphans + 1} ELSE {orphans}

\* Process p starts over with the key in registration.json.
Reset(p) ==
    /\ Stop(p)
    /\ creds' = [creds EXCEPT ![p] = cacheKey]
    /\ UNCHANGED <<now, cmdVars, deviceVars, serverKey, cacheKey, key, current,
                   outcome, executed, collected, isolated, applied, wiped>>

ProcessCrash(p) == Fails /\ Running(p) /\ Reset(p)

\* The goroutine of restart_agent, two seconds after Execute.
RestartProcess(p, i) ==
    /\ i \in deferred[p] /\ type[i] = "restart_agent"
    /\ Reset(p)
    /\ UNCHANGED failures

\* The goroutine of wipe_agent: it purges the local state and stops the root
\* service, which takes root; the other process only purges the files.
RunWipe(p, i) ==
    /\ i \in deferred[p] /\ type[i] = "wipe_agent"
    /\ cacheKey' = NoKey
    /\ IF p = Root
       THEN wiped' = TRUE /\ Stop(p)
       ELSE /\ deferred' = [deferred EXCEPT ![p] = @ \ {i}]
            /\ UNCHANGED <<wiped, stage, held, orphans, wakeup, answer>>
    /\ UNCHANGED <<now, failures, cmdVars, deviceVars, serverKey, creds, key,
                   current, outcome, executed, collected, isolated, applied>>

\* The collection loop of the root service takes the token.
CollectNow ==
    /\ wakeup[Root] /\ ~wiped
    /\ wakeup' = [wakeup EXCEPT ![Root] = FALSE]
    /\ UNCHANGED <<now, failures, cmdVars, deviceVars, keyVars, pollVars,
                   outcome, executed, deferred, collected, isolated, applied, wiped>>

-----------------------------------------------------------------------------
Server == \/ \E i \in Ids : \/ Insert(i) \/ Badge(i) \/ Effect(i)
                             \/ TTLRemove(i) \/ OrphanClaim(i)
          \/ OrphanEnds

Poller(p) ==
    \/ Poll(p) \/ Answer(p) \/ Report(p) \/ Done(p)
    \/ \E i \in Ids : Claim(p, i) \/ Execute(p, i)

Deferred(p) == \E i \in Ids : RestartProcess(p, i) \/ RunWipe(p, i)

Failure == \/ RotatedElsewhere \/ LoseRegistration \/ SaveFails
           \/ \E i \in Ids : InsertFails(i)
           \/ \E p \in Processes : ClaimFails(p) \/ LoseAnswer(p)
                                   \/ ReportFails(p) \/ ProcessCrash(p)

CommandsNext ==
    \/ Tick
    \/ \E t \in Types : Stamp(t)
    \/ Server \/ Enroll
    \/ \E p \in Processes : Poller(p) \/ Deferred(p)
    \/ CollectNow
    \/ Failure

CommandsSpec == CommandsInit /\ [][CommandsNext]_commandsVars

\* A poller never stops polling, and the root service, which always has
\* something to upload, never stops trying to register.
CommandsFairSpec ==
    /\ CommandsSpec
    /\ WF_commandsVars(Enroll)
    /\ \A p \in Processes : WF_commandsVars(Poller(p))

-----------------------------------------------------------------------------
(* Properties.                                                             *)

\* commandsPendingHandler claims so that "concurrent root/window services
\* never execute the same command twice"; nor do lost answers, abandoned
\* requests, crashes or restarts make a command run again.
ExecutedOnce == \A i \in Ids : executed[i] <= 1

\* commandsResultHandler: a result on record is the one Execute returned for
\* this very command.
ResultTruthful ==
    \A i \in Ids : status[i] \in Outcomes =>
        executed[i] > 0 /\ outcome[i] = status[i]

\* Why the two hold: the claim moves a command out of "pending" for good, so
\* that it is in the hands of one process at most, which has not executed it
\* yet; and a report is about a command that has been executed.  This is the
\* inductive invariant of the proofs.
Unclaimed ==
    \A i \in Ids : status[i] \in {"none", "refused"} \cup Waiting =>
        executed[i] = 0 /\ \A p \in Processes : i \notin held[p]

Exclusive == \A p, q \in Processes : p # q => held[p] \cap held[q] = {}

Unexecuted == \A p \in Processes : \A i \in held[p] : executed[i] = 0

Executing ==
    \A p \in Processes : stage[p] = "report" =>
        executed[current[p]] > 0 /\ outcome[current[p]] \in Outcomes

ClaimInv ==
    /\ ClaimTypes /\ Unclaimed /\ Exclusive /\ Unexecuted /\ Executing
    /\ ExecutedOnce /\ ResultTruthful

\* Commands are claimed in the order of creation: whoever executes a command,
\* no older one still waits to be claimed, also when claims are lost or go on
\* without their poller.  (Unless the older one was inserted too late, by a
\* handler that runs beside that of the newer one.)
ClaimedInOrder ==
    \A i \in Ids : executed'[i] # executed[i] =>
        \A j \in Ids : j < i /\ status[j] = "pending" /\ expires[j] > now =>
            j \in missed[i]

\* They are carried out in that order as well: the root service never isolates
\* the host for a quarantine, nor ends one, after it has carried out a newer
\* command, whichever process claimed what.  (With the same exception.)
AppliedInOrder ==
    \A i \in applied' \ applied :
        \A j \in applied : i < j => i \in missed[j]

NoOvertaking == [][ClaimedInOrder /\ AppliedInOrder]_<<executed, applied>>

\* A poller whose key is rotated away finds the new one, over lost answers of
\* registrations, crashes and purged caches: the root service registers, the
\* window service reloads what the root service has saved.  (Unless saving
\* failed, or the window service was started while there was no cache.)
PollersRecover ==
    \A p \in Processes :
        []<>(\/ Authorized(creds[p]) \/ wiped \/ revoked
             \/ /\ p # Root
                /\ \/ creds[p] = NoKey
                   \/ answer = NoKey /\ cacheKey # creds[Root])

Quiescent ==
    /\ badging = {} /\ effects = {}
    /\ \A p \in Processes : stage[p] = "idle"
    /\ \A i \in Ids : status[i] \notin Waiting

\* "Track quarantine state on the device doc so the dashboard can badge it":
\* when all commands have run their course, the badge is what the host is.
BadgeTracksHost == Quiescent => flag = isolated

\* "quarantine rules removed, full connectivity restored": when the last
\* quarantine command of all is a release on record as a success, the host is
\* not isolated.
ReleaseFrees ==
    \A i \in Ids : type[i] = "quarantine_release" /\ status[i] = "success"
        /\ (\A j \in Ids : type[j] \in QuarantineTypes => j <= i)
        /\ (\A j \in Ids, p \in Processes : j \notin held[p]) => ~isolated

\* The root and the window service "can poll concurrently without
\* conflicts": a collect_now reported as a success starts a collection cycle.
CollectNowCollects ==
    \A i \in Ids : type[i] = "collect_now" /\ status[i] = "success" => i \in collected
=============================================================================
