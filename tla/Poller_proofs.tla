---------------------------- MODULE Poller_proofs ----------------------------
(***************************************************************************)
(* Proofs about what the command poller of the agent does: the commands it *)
(* fetches and executes, Commands, and the network quarantine on Linux,    *)
(* Quarantine.                                                             *)
(***************************************************************************)
EXTENDS Commands, Quarantine, TLAPS

-----------------------------------------------------------------------------
(* Commands, for any number of processes, commands and failures: a command *)
(* is executed at most once and the result on record is the one of its     *)
(* execution.                                                              *)

LEMMA InvInit == CommandsInit => ClaimInv
BY CommandsAssumption
   DEF CommandsInit, Ids, Statuses, Waiting, Outcomes, ClaimInv, ClaimTypes, Unclaimed,
       Exclusive, Unexecuted, Executing, ExecutedOnce, ResultTruthful

\* A process that makes no progress on its commands, or forgets them.
Idles ==
    /\ UNCHANGED <<issued, current, outcome, executed>>
    /\ stage' \in [Processes -> {"idle", "claiming", "exec", "report"}]
    /\ held' \in [Processes -> SUBSET Ids]
    /\ \A p \in Processes : /\ held'[p] \subseteq held[p]
                            /\ stage'[p] = "report" => stage[p] = "report"

\* The server inserts a command or refuses to, or it gives up or hides one,
\* whoever holds it.
Retires ==
    \/ UNCHANGED status
    \/ \E i \in Ids, v \in {"pending", "refused"} :
          status[i] = "stamped" /\ status' = [status EXCEPT ![i] = v]
    \/ \E i \in Ids, v \in {"delivered", "gone"} :
          status[i] # "none" /\ status' = [status EXCEPT ![i] = v]

LEMMA IdleStep == ClaimInv /\ Idles /\ Retires => ClaimInv'
<1> SUFFICES ASSUME ClaimInv, Idles, Retires PROVE ClaimInv'
  OBVIOUS
<1>1. /\ status' \in [Ids -> Statuses]
      /\ \A i \in Ids : \/ status'[i] = status[i] \/ status'[i] \in {"delivered", "gone"}
                        \/ status[i] = "stamped" /\ status'[i] \in {"pending", "refused"}
      /\ \A i \in Ids : status'[i] = "none" <=> status[i] = "none"
  BY DEF Retires, ClaimInv, ClaimTypes, Statuses
<1>2. ClaimTypes'
  BY <1>1 DEF ClaimInv, ClaimTypes, Idles
<1>3. Unclaimed'
  BY <1>1 DEF ClaimInv, Unclaimed, Waiting, Idles
<1>4. Exclusive' /\ Unexecuted' /\ Executing' /\ ExecutedOnce'
  BY DEF ClaimInv, Exclusive, Unexecuted, Executing, ExecutedOnce, Idles
<1>5. ResultTruthful'
  BY <1>1 DEF ClaimInv, ResultTruthful, Idles, Outcomes
<1> QED
  BY <1>2, <1>3, <1>4, <1>5 DEF ClaimInv

\* A new command has an id that nobody has seen.
LEMMA StampStep == ASSUME ClaimInv, NEW t \in Types, Stamp(t) PROVE ClaimInv'
<1> USE DEF pollVars, hostVars, ClaimInv
<1>0. /\ issued + 1 \in Ids /\ issued' = issued + 1
      /\ status \in [Ids -> Statuses]
      /\ status' = [status EXCEPT ![issued + 1] = "stamped"]
      /\ UNCHANGED <<stage, held, current, outcome, executed>>
  BY CommandsAssumption DEF Stamp, ClaimTypes, Ids
<1>1. status[issued + 1] = "none"
  BY <1>0 DEF ClaimTypes, Ids
<1>2. ClaimTypes'
  BY <1>0 DEF ClaimTypes, Ids, Statuses
<1>3. Unclaimed' /\ ResultTruthful'
  BY <1>0, <1>1 DEF Unclaimed, Waiting, ResultTruthful, Outcomes
<1>4. Exclusive' /\ Unexecuted' /\ Executing' /\ ExecutedOnce'
  BY <1>0 DEF Exclusive, Unexecuted, Executing, ExecutedOnce
<1> QED
  BY <1>2, <1>3, <1>4

\* The claim hands a pending command to one process.
LEMMA ClaimStep ==
    ASSUME ClaimInv, NEW p \in Processes, NEW i \in Ids, Claim(p, i)
    PROVE  ClaimInv'
<1> USE DEF hostVars, ClaimInv
<1>0. /\ status[i] = "pending"
      /\ status \in [Ids -> Statuses] /\ held \in [Processes -> SUBSET Ids]
      /\ status' = [status EXCEPT ![i] = "delivered"]
      /\ held' = [held EXCEPT ![p] = @ \cup {i}]
      /\ UNCHANGED <<issued, stage, current, outcome, executed>>
  BY DEF Claim, Deliver, Oldest, Claimable, ClaimTypes
<1>1. executed[i] = 0 /\ \A q \in Processes : i \notin held[q]
  BY <1>0 DEF Unclaimed, Waiting
<1>2. /\ held' \in [Processes -> SUBSET Ids]
      /\ \A q \in Processes : held'[q] = IF q = p THEN held[q] \cup {i} ELSE held[q]
  BY <1>0
<1>3. /\ status' \in [Ids -> Statuses]
      /\ \A j \in Ids : status'[j] = IF j = i THEN "delivered" ELSE status[j]
  BY <1>0 DEF Statuses
<1>4. ClaimTypes'
  BY <1>0, <1>2, <1>3 DEF ClaimTypes
<1>5. Unclaimed'
  BY <1>0, <1>2, <1>3 DEF Unclaimed, Waiting
<1>6. Exclusive'
  BY <1>1, <1>2 DEF Exclusive
<1>7. Unexecuted'
  BY <1>0, <1>1, <1>2 DEF Unexecuted
<1>8. Executing' /\ ExecutedOnce'
  BY <1>0 DEF Executing, ExecutedOnce
<1>9. ResultTruthful'
  BY <1>0, <1>3 DEF ResultTruthful, Outcomes
<1> QED
  BY <1>4, <1>5, <1>6, <1>7, <1>8, <1>9

\* Executing a claimed command: nobody else holds it, and it was not executed
\* before, so its outcome is not on record yet.
LEMMA ExecuteStep ==
    ASSUME ClaimInv, NEW p \in Processes, NEW i \in Ids, Execute(p, i)
    PROVE  ClaimInv'
<1> USE DEF cmdVars, ClaimInv
<1>0. /\ held \in [Processes -> SUBSET Ids] /\ executed \in [Ids -> Nat]
      /\ current \in [Processes -> 0..MaxCommands] /\ outcome \in [Ids -> Outcomes \cup {"none"}]
      /\ stage \in [Processes -> {"idle", "claiming", "exec", "report"}]
  BY DEF ClaimTypes
<1>1. /\ i \in held[p]
      /\ held' = [held EXCEPT ![p] = @ \ {i}]
      /\ current' = [current EXCEPT ![p] = i]
      /\ stage' = [stage EXCEPT ![p] = "report"]
      /\ executed' = [executed EXCEPT ![i] = @ + 1]
      /\ UNCHANGED <<issued, status>>
  BY DEF Execute, First
<1>2. PICK r \in Outcomes : outcome' = [outcome EXCEPT ![i] = r]
  BY DEF Execute, Returns, Outcomes
<1>3. /\ executed[i] = 0 /\ status[i] \notin {"none", "refused"} \cup Waiting
      /\ status[i] \notin Outcomes
  BY <1>0, <1>1 DEF Unexecuted, Unclaimed, ResultTruthful
<1>4. /\ held' \in [Processes -> SUBSET Ids]
      /\ \A q \in Processes : held'[q] = IF q = p THEN held[q] \ {i} ELSE held[q]
  BY <1>0, <1>1
<1>5. /\ executed' \in [Ids -> Nat]
      /\ \A j \in Ids : executed'[j] = IF j = i THEN 1 ELSE executed[j]
  BY <1>0, <1>1, <1>3
<1>6. /\ outcome' \in [Ids -> Outcomes \cup {"none"}]
      /\ \A j \in Ids : outcome'[j] = IF j = i THEN r ELSE outcome[j]
  BY <1>0, <1>2
<1>7. /\ current' \in [Processes -> 0..MaxCommands]
      /\ \A q \in Processes : current'[q] = IF q = p THEN i ELSE current[q]
  BY <1>0, <1>1 DEF Ids
<1>8. /\ stage' \in [Processes -> {"idle", "claiming", "exec", "report"}]
      /\ \A q \in Processes : stage'[q] = IF q = p THEN "report" ELSE stage[q]
  BY <1>0, <1>1
<1>9. ClaimTypes'
  BY <1>1, <1>4, <1>5, <1>6, <1>7, <1>8 DEF ClaimTypes
<1>10. Unclaimed'
  BY <1>1, <1>3, <1>4, <1>5 DEF Unclaimed
<1>11. Exclusive'
  BY <1>4 DEF Exclusive
<1>12. Unexecuted'
  BY <1>0, <1>1, <1>4, <1>5 DEF Unexecuted, Exclusive
<1>13. Executing'
  BY <1>5, <1>6, <1>7, <1>8 DEF Executing, ClaimTypes
<1>14. ExecutedOnce'
  BY <1>5 DEF ExecutedOnce
<1>15. ResultTruthful'
  BY <1>1, <1>3, <1>5, <1>6 DEF ResultTruthful
<1> QED
  BY <1>9, <1>10, <1>11, <1>12, <1>13, <1>14, <1>15

\* A report is about a command that was executed.
LEMMA ReportStep ==
    ASSUME ClaimInv, NEW p \in Processes, Report(p)
    PROVE  ClaimInv'
<1> USE DEF ClaimInv
<1> DEFINE i == current[p]
<1>0. /\ status \in [Ids -> Statuses] /\ stage[p] = "report" /\ i \in Ids
      /\ stage \in [Processes -> {"idle", "claiming", "exec", "report"}]
      /\ executed[i] > 0 /\ outcome[i] \in Outcomes
  BY DEF ClaimTypes, Report, Reporting, Executing
<1>1. stage' = [stage EXCEPT ![p] = "exec"] /\ UNCHANGED <<issued, held, current, outcome, executed>>
  BY DEF Report, Reporting, hostVars
<1>2. Idles
  BY <1>0, <1>1 DEF Idles, ClaimTypes
<1>3. CASE UNCHANGED status
  BY <1>2, <1>3, IdleStep DEF Retires
<1>4. CASE /\ status[i] \in {"pending", "delivered"}
           /\ status' = [status EXCEPT ![i] = outcome[i]]
  <2>1. /\ status' \in [Ids -> Statuses]
        /\ \A j \in Ids : status'[j] = IF j = i THEN outcome[i] ELSE status[j]
    BY <1>0, <1>4 DEF Statuses
  <2>2. ClaimTypes'
    BY <1>0, <1>1, <1>2, <1>4, <2>1 DEF ClaimTypes, Idles, Outcomes
  <2>3. Unclaimed' /\ ResultTruthful'
    BY <1>0, <1>1, <2>1 DEF Unclaimed, Waiting, ResultTruthful, Outcomes
  <2>4. Exclusive' /\ Unexecuted' /\ ExecutedOnce'
    BY <1>1 DEF Exclusive, Unexecuted, ExecutedOnce
  <2>5. Executing'
    BY <1>1, <1>2 DEF Executing, Idles
  <2> QED
    BY <2>2, <2>3, <2>4, <2>5
<1> QED
  BY <1>3, <1>4 DEF Report, Reported

\* Process p ends: what it had claimed is forgotten.
LEMMA StopStep ==
    ASSUME ClaimInv, NEW p \in Processes, Stop(p),
           UNCHANGED <<issued, status, current, outcome, executed>>
    PROVE  ClaimInv'
<1>1. /\ stage' = [stage EXCEPT ![p] = "idle"]
      /\ held' = [held EXCEPT ![p] = {}]
  BY DEF Stop
<1>2. Idles
  BY <1>1 DEF Idles, ClaimInv, ClaimTypes
<1> QED
  BY <1>1, <1>2, IdleStep DEF Retires

\* Process p starts over.
LEMMA ResetStep == ASSUME ClaimInv, NEW p \in Processes, Reset(p) PROVE ClaimInv'
  BY StopStep DEF Reset, cmdVars

\* The steps that leave the commands in the hands of the processes alone.
LEMMA QuietStep ==
    ASSUME ClaimInv, UNCHANGED <<issued, stage, held, current, outcome, executed>>, Retires
    PROVE  ClaimInv'
<1>1. Idles
  BY DEF Idles, ClaimInv, ClaimTypes
<1> QED
  BY <1>1, IdleStep

\* A poller moves on without a report.
LEMMA MoveStep ==
    ASSUME ClaimInv, NEW p \in Processes, NEW next \in {"idle", "claiming", "exec"},
           stage' = [stage EXCEPT ![p] = next],
           held' = held \/ held' = [held EXCEPT ![p] = {}],
           UNCHANGED <<issued, current, outcome, executed>>, Retires
    PROVE  ClaimInv'
<1>1. /\ stage' \in [Processes -> {"idle", "claiming", "exec", "report"}]
      /\ \A q \in Processes : stage'[q] = "report" => stage[q] = "report"
  BY DEF ClaimInv, ClaimTypes
<1>2. /\ held' \in [Processes -> SUBSET Ids]
      /\ \A q \in Processes : held'[q] \subseteq held[q]
  BY DEF ClaimInv, ClaimTypes
<1>3. Idles
  BY <1>1, <1>2 DEF Idles
<1> QED
  BY <1>3, IdleStep

LEMMA InvStep == ClaimInv /\ [CommandsNext]_commandsVars => ClaimInv'
<1> SUFFICES ASSUME ClaimInv, [CommandsNext]_commandsVars PROVE ClaimInv'
  OBVIOUS
<1> USE DEF cmdVars, pollVars, hostVars
<1>1. CASE Tick
  BY <1>1, QuietStep DEF Tick, Retires
<1>2. ASSUME NEW t \in Types, Stamp(t) PROVE ClaimInv'
  BY <1>2, StampStep
<1>3. CASE Server
  <2>0. ASSUME NEW i \in Ids, Insert(i) PROVE ClaimInv'
    <3>1. Retires
      BY <2>0 DEF Insert, Retires
    <3> QED
      BY <2>0, <3>1, QuietStep DEF Insert
  <2>1. ASSUME NEW i \in Ids, Badge(i) PROVE ClaimInv'
    BY <2>1, QuietStep DEF Badge, Retires
  <2>2. ASSUME NEW i \in Ids, Effect(i) PROVE ClaimInv'
    BY <2>2, QuietStep DEF Effect, Retires
  <2>3. ASSUME NEW i \in Ids, TTLRemove(i) PROVE ClaimInv'
    <3>1. Retires
      BY <2>3 DEF TTLRemove, Retires
    <3> QED
      BY <2>3, <3>1, QuietStep DEF TTLRemove
  <2>4. ASSUME NEW i \in Ids, OrphanClaim(i) PROVE ClaimInv'
    <3>1. Retires
      BY <2>4 DEF OrphanClaim, Deliver, Oldest, Claimable, Retires
    <3> QED
      BY <2>4, <3>1, QuietStep DEF OrphanClaim
  <2>5. CASE OrphanEnds
    BY <2>5, QuietStep DEF OrphanEnds, Retires
  <2> QED
    BY <1>3, <2>0, <2>1, <2>2, <2>3, <2>4, <2>5 DEF Server
<1>10. CASE Enroll
  BY <1>10, QuietStep DEF Enroll, Register, Adopt, Save, Retires
<1>4. ASSUME NEW p \in Processes, Poller(p) PROVE ClaimInv'
  <2>1. CASE Poll(p)
    <3>1. UNCHANGED <<issued, status, held, current, outcome, executed>>
      BY <2>1 DEF Poll
    <3>2. stage' = stage \/ stage' = [stage EXCEPT ![p] = "claiming"]
      BY <2>1 DEF Poll
    <3> QED
      BY <3>1, <3>2, QuietStep, MoveStep DEF Retires
  <2>2. CASE Answer(p)
    BY <2>2, MoveStep DEF Answer, Retires
  <2>3. CASE Report(p)
    BY <2>3, ReportStep
  <2>4. CASE Done(p)
    BY <2>4, MoveStep DEF Done, Retires
  <2>5. ASSUME NEW i \in Ids, Claim(p, i) PROVE ClaimInv'
    BY <2>5, ClaimStep
  <2>6. ASSUME NEW i \in Ids, Execute(p, i) PROVE ClaimInv'
    BY <2>6, ExecuteStep
  <2> QED
    BY <1>4, <2>1, <2>2, <2>3, <2>4, <2>5, <2>6 DEF Poller
<1>5. ASSUME NEW p \in Processes, NEW i \in Ids, RestartProcess(p, i) PROVE ClaimInv'
  BY <1>5, ResetStep DEF RestartProcess
<1>6. ASSUME NEW p \in Processes, NEW i \in Ids, RunWipe(p, i) PROVE ClaimInv'
  <2>1. UNCHANGED <<issued, status, current, outcome, executed>>
    BY <1>6 DEF RunWipe
  <2>2. CASE p = Root
    BY <1>6, <2>1, <2>2, StopStep DEF RunWipe
  <2>3. CASE p # Root
    <3>1. UNCHANGED <<stage, held>>
      BY <1>6, <2>3 DEF RunWipe
    <3> QED
      BY <2>1, <3>1, QuietStep DEF Retires
  <2> QED
    BY <2>2, <2>3
<1>7. CASE CollectNow
  BY <1>7, QuietStep DEF CollectNow, Retires
<1>8. CASE Failure
  <2>0. ASSUME NEW i \in Ids, InsertFails(i) PROVE ClaimInv'
    <3>1. Retires
      BY <2>0 DEF InsertFails, Retires
    <3> QED
      BY <2>0, <3>1, QuietStep DEF InsertFails
  <2>1. CASE RotatedElsewhere \/ LoseRegistration \/ SaveFails
    BY <2>1, QuietStep DEF RotatedElsewhere, LoseRegistration, SaveFails, Retires
  <2>2. ASSUME NEW p \in Processes, ClaimFails(p) PROVE ClaimInv'
    <3>1. Retires
      BY <2>2 DEF ClaimFails, Deliver, Oldest, Claimable, Retires
    <3> QED
      BY <2>2, <3>1, MoveStep DEF ClaimFails
  <2>3. ASSUME NEW p \in Processes, LoseAnswer(p) PROVE ClaimInv'
    BY <2>3, MoveStep DEF LoseAnswer, Retires
  <2>4. ASSUME NEW p \in Processes, ReportFails(p) PROVE ClaimInv'
    BY <2>4, MoveStep DEF ReportFails, Reporting, Retires
  <2>5. ASSUME NEW p \in Processes, ProcessCrash(p) PROVE ClaimInv'
    BY <2>5, ResetStep DEF ProcessCrash
  <2> QED
    BY <1>8, <2>0, <2>1, <2>2, <2>3, <2>4, <2>5 DEF Failure
<1>9. CASE UNCHANGED commandsVars
  BY <1>9, QuietStep DEF commandsVars, Retires
<1> QED
  BY <1>1, <1>2, <1>3, <1>4, <1>5, <1>6, <1>7, <1>8, <1>9, <1>10 DEF CommandsNext, Deferred

\* A command in the hands of a process is in no other hands and has not been
\* executed, whatever is lost, abandoned or restarted.
THEOREM ClaimInvariant == CommandsSpec => []ClaimInv
BY InvInit, InvStep, PTL DEF CommandsSpec

\* The variables that the claim does not depend on keep their types as well:
\* keys stay keys, and what is badged, recorded, scheduled or collected is a
\* command that exists.
LEMMA HostTypesStep == ClaimInv /\ HostTypes /\ [CommandsNext]_commandsVars => HostTypes'
<1> SUFFICES ASSUME ClaimTypes, HostTypes, [CommandsNext]_commandsVars PROVE HostTypes'
  BY DEF ClaimInv
<1> USE CommandsAssumption
        DEF HostTypes, Ids, cmdVars, deviceVars, keyVars, pollVars, hostVars
<1>1. CASE Tick
  BY <1>1 DEF Tick
<1>2. ASSUME NEW t \in Types, Stamp(t) PROVE HostTypes'
  <2>1. issued' \in Ids /\ t \in CommandTypes /\ now + TTL \in Nat
    BY <1>2 DEF Stamp, ClaimTypes
  <2>2. /\ type' \in [Ids -> CommandTypes \cup {"none"}]
        /\ expires' \in [Ids -> Nat]
    BY <1>2, <2>1 DEF Stamp
  <2> QED
    BY <1>2, <2>2 DEF Stamp
<1>10. ASSUME NEW i \in Ids, Deliver(i) PROVE missed' \in [Ids -> SUBSET Ids]
  BY <1>10 DEF Deliver
<1>11. CASE Enroll
  <2>1. CASE Register
    BY <2>1 DEF Register
  <2>2. CASE Adopt
    BY <2>2 DEF Adopt
  <2>3. CASE Save
    BY <2>3 DEF Save, NoKey
  <2> QED
    BY <1>11, <2>1, <2>2, <2>3 DEF Enroll
<1>3. CASE Server
  <2>0. ASSUME NEW i \in Ids, Insert(i) PROVE HostTypes'
    <3>1. badging' \subseteq Ids
      BY <2>0 DEF Insert
    <3> QED
      BY <2>0, <3>1 DEF Insert
  <2>1. ASSUME NEW i \in Ids, Badge(i) PROVE HostTypes'
    BY <2>1 DEF Badge
  <2>2. ASSUME NEW i \in Ids, Effect(i) PROVE HostTypes'
    <3>1. flag' \in BOOLEAN /\ revoked' \in BOOLEAN /\ effects' \subseteq Ids
      BY <2>2 DEF Effect
    <3> QED
      BY <2>2, <3>1 DEF Effect
  <2>3. ASSUME NEW i \in Ids, TTLRemove(i) \/ OrphanClaim(i) PROVE HostTypes'
    BY <2>3, <1>10 DEF TTLRemove, OrphanClaim
  <2>4. CASE OrphanEnds
    BY <2>4 DEF OrphanEnds
  <2> QED
    BY <1>3, <2>0, <2>1, <2>2, <2>3, <2>4 DEF Server
<1>4. ASSUME NEW p \in Processes, Poller(p) PROVE HostTypes'
  <2>1. CASE Poll(p)
    <3>1. ReloadKey(p) \in Nat
      BY DEF ReloadKey
    <3>2. creds' \in [Processes -> Nat] /\ key' \in [Processes -> Nat]
      BY <2>1, <3>1 DEF Poll
    <3> QED
      BY <2>1, <3>2 DEF Poll
  <2>2. CASE Answer(p) \/ Done(p)
    BY <2>2 DEF Answer, Done
  <2>3. CASE Report(p)
    <3>1. Reported(p) \in Ids
      BY <2>3 DEF Report, Reporting, Reported, ClaimTypes
    <3>2. effects' = effects \/ effects' = effects \cup {Reported(p)}
      BY <2>3 DEF Report
    <3> QED
      BY <2>3, <3>1, <3>2 DEF Report
  <2>4. ASSUME NEW i \in Ids, Claim(p, i) PROVE HostTypes'
    BY <2>4, <1>10 DEF Claim
  <2>5. ASSUME NEW i \in Ids, Execute(p, i) PROVE HostTypes'
    <3>1. isolated' \in BOOLEAN /\ applied' \subseteq Ids
      BY <2>5 DEF Execute
    <3>2. deferred' \in [Processes -> SUBSET Ids]
      BY <2>5 DEF Execute
    <3>3. wakeup' \in [Processes -> BOOLEAN] /\ collected' \subseteq Ids
      BY <2>5 DEF Execute
    <3> QED
      BY <2>5, <3>1, <3>2, <3>3 DEF Execute
  <2> QED
    BY <1>4, <2>1, <2>2, <2>3, <2>4, <2>5 DEF Poller
<1>5. ASSUME NEW p \in Processes, Reset(p), failures' \in Nat PROVE HostTypes'
  <2>1. /\ deferred' \in [Processes -> SUBSET Ids]
        /\ wakeup' \in [Processes -> BOOLEAN] /\ orphans' \in Nat /\ answer' \in Nat
    BY <1>5 DEF Reset, Stop, NoKey
  <2>2. creds' \in [Processes -> Nat]
    BY <1>5 DEF Reset
  <2> QED
    BY <1>5, <2>1, <2>2 DEF Reset
<1>6. ASSUME NEW p \in Processes, Deferred(p) PROVE HostTypes'
  <2>1. ASSUME NEW i \in Ids, RestartProcess(p, i) PROVE HostTypes'
    BY <1>5, <2>1 DEF RestartProcess
  <2>2. ASSUME NEW i \in Ids, RunWipe(p, i) PROVE HostTypes'
    <3>1. /\ deferred' \in [Processes -> SUBSET Ids] /\ wiped' \in BOOLEAN
          /\ wakeup' \in [Processes -> BOOLEAN] /\ orphans' \in Nat /\ answer' \in Nat
      <4>1. CASE p = Root
        <5>1. Stop(p) /\ wiped' = TRUE
          BY <2>2, <4>1 DEF RunWipe
        <5>2. orphans' \in Nat /\ answer' \in Nat
          BY <5>1 DEF Stop, NoKey
        <5> QED
          BY <5>1, <5>2 DEF Stop
      <4>2. CASE p # Root
        BY <2>2, <4>2 DEF RunWipe
      <4> QED
        BY <4>1, <4>2
    <3> QED
      BY <2>2, <3>1 DEF RunWipe, NoKey
  <2> QED
    BY <1>6, <2>1, <2>2 DEF Deferred
<1>7. CASE CollectNow
  BY <1>7 DEF CollectNow
<1>8. CASE Failure
  <2>0. ASSUME NEW i \in Ids, InsertFails(i) PROVE HostTypes'
    BY <2>0 DEF InsertFails, Fails
  <2>1. CASE RotatedElsewhere \/ LoseRegistration \/ SaveFails
    <3>1. CASE RotatedElsewhere
      BY <3>1 DEF RotatedElsewhere, Fails
    <3>2. CASE LoseRegistration
      BY <3>2 DEF LoseRegistration, Fails, NoKey
    <3>3. CASE SaveFails
      BY <3>3 DEF SaveFails, Fails, NoKey
    <3> QED
      BY <2>1, <3>1, <3>2, <3>3
  <2>2. ASSUME NEW p \in Processes, ClaimFails(p) PROVE HostTypes'
    <3>1. missed' \in [Ids -> SUBSET Ids] /\ failures' \in Nat
      BY <2>2, <1>10 DEF ClaimFails, Fails
    <3> QED
      BY <2>2, <3>1 DEF ClaimFails
  <2>3. ASSUME NEW p \in Processes, ReportFails(p) PROVE HostTypes'
    BY <2>3 DEF ReportFails, Fails
  <2>4. ASSUME NEW p \in Processes, LoseAnswer(p) PROVE HostTypes'
    <3>1. orphans' \in Nat
      BY <2>4 DEF LoseAnswer
    <3> QED
      BY <2>4, <3>1 DEF LoseAnswer, Fails
  <2>5. ASSUME NEW p \in Processes, ProcessCrash(p) PROVE HostTypes'
    <3>1. failures' \in Nat
      BY <2>5 DEF ProcessCrash, Fails
    <3>2. Reset(p)
      BY <2>5 DEF ProcessCrash
    <3> QED
      BY <1>5, <3>1, <3>2
  <2> QED
    BY <1>8, <2>0, <2>1, <2>2, <2>3, <2>4, <2>5 DEF Failure
<1>9. CASE UNCHANGED commandsVars
  BY <1>9 DEF commandsVars
<1> QED
  BY <1>1, <1>2, <1>3, <1>4, <1>6, <1>7, <1>8, <1>9, <1>11 DEF CommandsNext

LEMMA HostTypesInit == CommandsInit => HostTypes
<1> SUFFICES ASSUME CommandsInit PROVE HostTypes
  OBVIOUS
<1>1. /\ type \in [Ids -> CommandTypes \cup {"none"}]
      /\ expires \in [Ids -> Nat]
      /\ creds \in [Processes -> Nat] /\ key \in [Processes -> Nat]
      /\ missed \in [Ids -> SUBSET Ids]
  BY DEF CommandsInit
<1>2. /\ deferred \in [Processes -> SUBSET Ids]
      /\ wakeup \in [Processes -> BOOLEAN]
  BY DEF CommandsInit
<1> QED
  BY <1>1, <1>2 DEF CommandsInit, HostTypes, NoKey

\* Commands, claims, results and keys keep their types; a process that reports
\* names a command that was issued.
THEOREM CommandTypesCorrect == CommandsSpec => []CommandsTypeOK
<1>1. ClaimInv /\ HostTypes => CommandsTypeOK
  BY DEF CommandsTypeOK, ClaimInv
<1> QED
  BY <1>1, HostTypesInit, InvInit, InvStep, HostTypesStep, PTL DEF CommandsSpec

\* commandsPendingHandler and fetchAndExecute run a command at most once, for
\* any number of processes, commands and failures.
THEOREM NothingExecutedTwice == CommandsSpec => []ExecutedOnce
<1>1. ClaimInv => ExecutedOnce
  BY DEF ClaimInv
<1> QED
  BY <1>1, ClaimInvariant, PTL

\* A result commandsResultHandler has on record is the outcome of the one
\* execution of that command.
THEOREM ResultsAreTruthful == CommandsSpec => []ResultTruthful
<1>1. ClaimInv => ResultTruthful
  BY DEF ClaimInv
<1> QED
  BY <1>1, ClaimInvariant, PTL

-----------------------------------------------------------------------------
(* The order of the claims and of what they do.                            *)

\* What is in nobody's hands because it was not claimed.
Fresh == {"none", "refused"} \cup Waiting

\* Expiry follows the order of creation: an older command expires no later.
Aging ==
    \A i \in Ids : i <= issued =>
        expires[i] <= now + TTL /\ \A j \in Ids : j < i => expires[j] <= expires[i]

\* When a command has been claimed, or has expired, no older one is left behind
\* that could still be claimed, except one inserted too late.
NoneLeftBehind ==
    \A i \in Ids : status[i] \notin Fresh =>
        \A j \in Ids : j < i /\ status[j] \in Waiting /\ expires[j] > now =>
            j \in missed[i]

\* What the root service has carried out was executed; what it holds is newer
\* than that, with the same exception.
HeldInOrder ==
    /\ \A j \in applied : executed[j] > 0
    /\ \A i \in held[Root], j \in applied : i < j => i \in missed[j]

OrderInv == ClaimInv /\ HostTypes /\ Aging /\ NoneLeftBehind /\ HeldInOrder

\* A command is claimed because it is the oldest that can be, which records
\* those it could not wait for, or it expires; nothing is claimed twice.
Leaves(i) ==
    \/ status'[i] = status[i] /\ missed'[i] = missed[i]
    \/ /\ status[i] \notin Fresh /\ status'[i] \notin Fresh
       /\ missed'[i] = missed[i]
    \/ /\ status[i] = "stamped" /\ status'[i] \in {"pending", "refused"}
       /\ missed'[i] = missed[i]
    \/ /\ status[i] = "pending" /\ status'[i] \notin Fresh
       /\ \/ expires[i] <= now
          \/ /\ Oldest(i)
             /\ \A j \in Ids : j < i /\ status[j] = "stamped" => j \in missed'[i]

\* What the steps other than Stamp do to the commands.
Passes ==
    /\ UNCHANGED <<issued, expires>>
    /\ now <= now'
    /\ \A i \in Ids : Leaves(i)

LEMMA OnlyOneLeaves ==
    ASSUME ClaimTypes, HostTypes, NEW i \in Ids, NEW v \in Statuses,
           status' = [status EXCEPT ![i] = v], missed' = missed,
           \/ status[i] \notin Fresh /\ v \notin Fresh
           \/ status[i] = "stamped" /\ v \in {"pending", "refused"}
           \/ status[i] = "pending" /\ v \notin Fresh /\ expires[i] <= now
    PROVE  \A j \in Ids : Leaves(j)
BY DEF ClaimTypes, Leaves

LEMMA DeliverLeaves ==
    ASSUME ClaimTypes, HostTypes, NEW i \in Ids, Deliver(i)
    PROVE  \A j \in Ids : Leaves(j)
<1>1. /\ status \in [Ids -> Statuses] /\ missed \in [Ids -> SUBSET Ids]
      /\ status[i] = "pending" /\ Oldest(i)
  BY DEF ClaimTypes, HostTypes, Deliver, Oldest, Claimable
<1>2. /\ \A j \in Ids : status'[j] = IF j = i THEN "delivered" ELSE status[j]
      /\ \A j \in Ids : j # i => missed'[j] = missed[j]
      /\ missed'[i] = {j \in Ids : j < i /\ status[j] = "stamped"}
  BY <1>1 DEF Deliver
<1> QED
  BY <1>1, <1>2 DEF Leaves, Fresh, Waiting

LEMMA StepPasses ==
    ASSUME ClaimInv, HostTypes, [CommandsNext]_commandsVars
    PROVE  Passes \/ \E t \in Types : Stamp(t)
<1>0. ClaimTypes /\ now \in Nat /\ status \in [Ids -> Statuses]
  BY DEF ClaimInv, ClaimTypes, HostTypes
<1> USE DEF cmdVars, pollVars, hostVars
<1> DEFINE Still == UNCHANGED <<now, issued, status, expires, missed>>
<1>1. Still => Passes
  BY <1>0 DEF Passes, Leaves
<1>a. ASSUME UNCHANGED <<now, issued, expires>>, NEW i \in Ids, Deliver(i) PROVE Passes
  BY <1>0, <1>a, DeliverLeaves DEF Passes
<1>b. ASSUME UNCHANGED <<now, issued, expires>>, \A i \in Ids : Leaves(i) PROVE Passes
  BY <1>0, <1>b DEF Passes
<1>2. CASE Tick
  <2>1. \A i \in Ids : Leaves(i)
    BY <1>2 DEF Tick, Leaves
  <2> QED
    BY <1>0, <1>2, <2>1 DEF Tick, Passes
<1>3. CASE Server
  <2>0. ASSUME NEW i \in Ids, Insert(i) PROVE Passes
    <3>1. \A j \in Ids : Leaves(j)
      BY <1>0, <2>0, OnlyOneLeaves DEF Insert, Statuses
    <3> QED
      BY <1>b, <2>0, <3>1 DEF Insert
  <2>1. ASSUME NEW i \in Ids, Badge(i) \/ Effect(i) PROVE Still
    BY <2>1 DEF Badge, Effect
  <2>2. ASSUME NEW i \in Ids, TTLRemove(i) PROVE Passes
    <3>1. /\ status[i] \notin Fresh \/ (status[i] = "pending" /\ expires[i] <= now)
          /\ "gone" \in Statuses /\ "gone" \notin Fresh
      BY <2>2 DEF TTLRemove, Fresh, Waiting, Statuses
    <3>2. \A j \in Ids : Leaves(j)
      BY <1>0, <2>2, <3>1, OnlyOneLeaves DEF TTLRemove
    <3> QED
      BY <1>b, <2>2, <3>2 DEF TTLRemove
  <2>3. ASSUME NEW i \in Ids, OrphanClaim(i) PROVE Passes
    BY <1>a, <2>3 DEF OrphanClaim
  <2>4. CASE OrphanEnds
    <3>1. Still
      BY <2>4 DEF OrphanEnds
    <3> QED
      BY <1>1, <3>1
  <2> QED
    BY <1>1, <1>3, <2>0, <2>1, <2>2, <2>3, <2>4 DEF Server
<1>9. CASE Enroll
  BY <1>1, <1>9 DEF Enroll, Register, Adopt, Save
<1>4. ASSUME NEW p \in Processes, Poller(p) PROVE Passes
  <2>1. CASE Poll(p) \/ Answer(p) \/ Done(p)
    <3>1. Still
      BY <2>1 DEF Poll, Answer, Done
    <3> QED
      BY <1>1, <3>1
  <2>2. CASE Report(p)
    <3>1. CASE status' = status
      <4>1. Still
        BY <2>2, <3>1 DEF Report
      <4> QED
        BY <1>1, <4>1
    <3>2. CASE /\ status[current[p]] \in {"pending", "delivered"}
               /\ status' = [status EXCEPT ![current[p]] = outcome[current[p]]]
      <4>1. /\ current[p] \in Ids /\ outcome[current[p]] \in Outcomes
            /\ executed[current[p]] > 0
        BY <2>2 DEF Report, Reporting, ClaimInv, ClaimTypes, Executing
      <4>2. PICK i \in Ids, v \in Outcomes : i = current[p] /\ v = outcome[current[p]]
        BY <4>1
      <4>3. status[i] \notin Fresh
        BY <3>2, <4>1, <4>2 DEF ClaimInv, Unclaimed, ClaimTypes, Fresh
      <4>4. v \in Statuses /\ v \notin Fresh
        BY DEF Statuses, Outcomes, Fresh, Waiting
      <4>5. \A j \in Ids : Leaves(j)
        BY <1>0, <2>2, <3>2, <4>2, <4>3, <4>4, OnlyOneLeaves DEF Report
      <4> QED
        BY <1>b, <2>2, <4>5 DEF Report
    <3> QED
      BY <2>2, <3>1, <3>2 DEF Report, Reported
  <2>3. ASSUME NEW i \in Ids, Claim(p, i) PROVE Passes
    BY <1>a, <2>3 DEF Claim
  <2>4. ASSUME NEW i \in Ids, Execute(p, i) PROVE Still
    BY <2>4 DEF Execute
  <2> QED
    BY <1>1, <1>4, <2>1, <2>2, <2>3, <2>4 DEF Poller
<1>5. ASSUME NEW p \in Processes, Deferred(p) PROVE Still
  BY <1>5 DEF Deferred, RestartProcess, Reset, RunWipe
<1>6. CASE CollectNow
  BY <1>1, <1>6 DEF CollectNow
<1>7. CASE Failure
  <2>0. ASSUME NEW i \in Ids, InsertFails(i) PROVE Passes
    <3>1. PICK v \in {"refused", "pending"} : status' = [status EXCEPT ![i] = v]
      BY <2>0 DEF InsertFails
    <3>2. \A j \in Ids : Leaves(j)
      BY <1>0, <2>0, <3>1, OnlyOneLeaves DEF InsertFails, Statuses
    <3> QED
      BY <1>b, <2>0, <3>2 DEF InsertFails
  <2>1. CASE RotatedElsewhere \/ LoseRegistration \/ SaveFails
    BY <1>1, <2>1 DEF RotatedElsewhere, LoseRegistration, SaveFails
  <2>2. ASSUME NEW p \in Processes, ClaimFails(p) PROVE Passes
    <3>1. UNCHANGED <<now, issued, expires>>
      BY <2>2 DEF ClaimFails
    <3>2. UNCHANGED <<status, missed>> \/ \E i \in Ids : Deliver(i)
      BY <2>2 DEF ClaimFails
    <3> QED
      BY <1>1, <1>a, <3>1, <3>2
  <2>3. ASSUME NEW p \in Processes, LoseAnswer(p) \/ ReportFails(p) PROVE Still
    BY <2>3 DEF LoseAnswer, ReportFails
  <2>4. ASSUME NEW p \in Processes, ProcessCrash(p) PROVE Still
    BY <2>4 DEF ProcessCrash, Reset
  <2> QED
    BY <1>1, <1>7, <2>0, <2>1, <2>2, <2>3, <2>4 DEF Failure
<1>8. CASE UNCHANGED commandsVars
  BY <1>1, <1>8 DEF commandsVars
<1> HIDE DEF Still
<1> QED
  BY <1>1, <1>2, <1>3, <1>4, <1>5, <1>6, <1>7, <1>8, <1>9 DEF CommandsNext

\* What a step does to the commands the root service holds and has carried out:
\* nothing but forget what it holds, or it claims or executes.
Drops == held'[Root] \subseteq held[Root] /\ UNCHANGED <<executed, applied>>

LEMMA StepHolds ==
    ASSUME ClaimInv, HostTypes, [CommandsNext]_commandsVars
    PROVE  Drops \/ \E p \in Processes, i \in Ids : Claim(p, i) \/ Execute(p, i)
<1>0. Root \in Processes /\ held \in [Processes -> SUBSET Ids]
  BY CommandsAssumption DEF ClaimInv, ClaimTypes
<1> USE DEF pollVars, hostVars
<1> DEFINE Same == UNCHANGED <<held, executed, applied>>
<1>1. Same => Drops
  BY DEF Drops
<1>2. ASSUME NEW p \in Processes, held' = [held EXCEPT ![p] = {}],
             UNCHANGED <<executed, applied>>
      PROVE  Drops
  BY <1>0, <1>2 DEF Drops
<1>3. ASSUME NEW p \in Processes, Reset(p) PROVE Drops
  BY <1>2, <1>3 DEF Reset, Stop
<1>4. CASE Tick \/ CollectNow
  BY <1>1, <1>4 DEF Tick, CollectNow
<1>5. ASSUME NEW t \in Types, Stamp(t) PROVE Same
  BY <1>5 DEF Stamp
<1>6. CASE Server \/ Enroll
  <2>1. ASSUME NEW i \in Ids,
               \/ Insert(i) \/ Badge(i) \/ Effect(i) \/ TTLRemove(i) \/ OrphanClaim(i)
        PROVE  Same
    BY <2>1 DEF Insert, Badge, Effect, TTLRemove, OrphanClaim
  <2>2. CASE OrphanEnds \/ Enroll
    BY <1>1, <2>2 DEF OrphanEnds, Enroll, Register, Adopt, Save
  <2> QED
    BY <1>1, <1>6, <2>1, <2>2 DEF Server
<1>7. ASSUME NEW p \in Processes, Poller(p), ~\E i \in Ids : Claim(p, i) \/ Execute(p, i)
      PROVE  Same
  BY <1>7 DEF Poller, Poll, Answer, Done, Report, Reporting
<1>8. ASSUME NEW p \in Processes, NEW i \in Ids, RestartProcess(p, i) \/ RunWipe(p, i)
      PROVE  Drops
  <2>1. CASE RestartProcess(p, i)
    BY <1>3, <2>1 DEF RestartProcess
  <2>2. CASE RunWipe(p, i) /\ p = Root
    BY <1>2, <2>2 DEF RunWipe, Stop
  <2>3. CASE RunWipe(p, i) /\ p # Root
    BY <1>1, <2>3 DEF RunWipe
  <2> QED
    BY <1>8, <2>1, <2>2, <2>3
<1>9. CASE Failure
  <2>1. CASE RotatedElsewhere \/ LoseRegistration \/ SaveFails
    BY <1>1, <2>1 DEF RotatedElsewhere, LoseRegistration, SaveFails
  <2>2. ASSUME NEW i \in Ids, InsertFails(i) PROVE Same
    BY <2>2 DEF InsertFails
  <2>3. ASSUME NEW p \in Processes, ClaimFails(p) \/ ReportFails(p) PROVE Same
    BY <2>3 DEF ClaimFails, ReportFails
  <2>4. ASSUME NEW p \in Processes, LoseAnswer(p) PROVE Drops
    BY <1>2, <2>4 DEF LoseAnswer
  <2>5. ASSUME NEW p \in Processes, ProcessCrash(p) PROVE Drops
    BY <1>3, <2>5 DEF ProcessCrash
  <2> QED
    BY <1>1, <1>9, <2>1, <2>2, <2>3, <2>4, <2>5 DEF Failure
<1>10. CASE UNCHANGED commandsVars
  BY <1>1, <1>10 DEF commandsVars
<1> HIDE DEF Same
<1> QED
  BY <1>1, <1>4, <1>5, <1>6, <1>7, <1>8, <1>9, <1>10 DEF CommandsNext, Deferred

LEMMA LineStep ==
    ASSUME ClaimInv, HostTypes, Aging, NoneLeftBehind, Passes, now' \in Nat
    PROVE  Aging' /\ NoneLeftBehind'
<1>0. /\ now \in Nat /\ expires \in [Ids -> Nat] /\ issued \in Nat /\ TTL \in Nat
      /\ \A i \in Ids : status[i] = "none" <=> i > issued
  BY CommandsAssumption DEF ClaimInv, ClaimTypes, HostTypes
<1>1. /\ now <= now' /\ issued' = issued /\ expires' = expires
      /\ \A i \in Ids : Leaves(i)
  BY DEF Passes
<1>2. Aging'
  BY <1>0, <1>1 DEF Aging, Ids
<1>3. NoneLeftBehind'
  <2> SUFFICES ASSUME NEW i \in Ids, NEW j \in Ids, j < i, status'[i] \notin Fresh,
                      status'[j] \in Waiting, expires[j] > now'
               PROVE  j \in missed'[i]
    BY <1>1 DEF NoneLeftBehind
  <2>1. /\ expires[j] \in Nat /\ expires[i] \in Nat /\ i \in Nat /\ j \in Nat
        /\ expires[j] > now
    BY <1>0, <1>1 DEF Ids
  <2>2. status[j] \in Waiting
    BY <1>1 DEF Leaves, Fresh, Waiting
  <2>3. CASE status[i] \notin Fresh
    <3>1. missed'[i] = missed[i]
      BY <1>1, <2>3 DEF Leaves, Fresh, Waiting
    <3> QED
      BY <2>1, <2>2, <2>3, <3>1 DEF NoneLeftBehind
  <2>4. CASE status[i] \in Fresh
    <3>1. status[i] = "pending"
      BY <1>1, <2>4 DEF Leaves, Fresh, Waiting
    <3>2. CASE expires[i] <= now
      <4>1. i <= issued
        BY <1>0, <2>1, <3>1
      <4>2. expires[j] <= expires[i]
        BY <4>1 DEF Aging
      <4> QED
        BY <1>0, <2>1, <3>2, <4>2
    <3>3. CASE /\ Oldest(i)
               /\ \A k \in Ids : k < i /\ status[k] = "stamped" => k \in missed'[i]
      <4>1. ~Claimable(j)
        BY <2>1, <3>3 DEF Oldest
      <4>2. status[j] = "stamped"
        BY <2>1, <2>2, <4>1 DEF Claimable, Waiting
      <4> QED
        BY <3>3, <4>2
    <3> QED
      BY <1>1, <2>4, <3>1, <3>2, <3>3 DEF Leaves, Fresh, Waiting
  <2> QED
    BY <2>3, <2>4
<1> QED
  BY <1>2, <1>3

\* A new command is the newest, and it is stamped only.
LEMMA StampLine ==
    ASSUME ClaimInv, HostTypes, Aging, NoneLeftBehind, NEW t \in Types, Stamp(t)
    PROVE  Aging' /\ NoneLeftBehind'
<1>0. /\ ClaimTypes /\ now \in Nat /\ expires \in [Ids -> Nat]
      /\ status \in [Ids -> Statuses] /\ issued \in Nat /\ TTL \in Nat
      /\ \A i \in Ids : status[i] = "none" <=> i > issued
  BY CommandsAssumption DEF ClaimInv, ClaimTypes, HostTypes
<1>1. /\ issued' = issued + 1 /\ issued + 1 \in Ids /\ UNCHANGED <<now, missed>>
      /\ status' = [status EXCEPT ![issued + 1] = "stamped"]
      /\ expires' = [expires EXCEPT ![issued + 1] = now + TTL]
  BY <1>0, CommandsAssumption DEF Stamp, Ids
<1>2. PICK n \in Ids : n = issued + 1
  BY <1>1
<1>3. /\ status[n] = "none"
      /\ \A i \in Ids : status'[i] = IF i = n THEN "stamped" ELSE status[i]
      /\ \A i \in Ids : expires'[i] = IF i = n THEN now + TTL ELSE expires[i]
  BY <1>0, <1>1, <1>2 DEF Ids
<1>4. \A i \in Ids : expires[i] \in Nat /\ i \in Nat
  BY <1>0 DEF Ids
<1>5. \A i \in Ids : i <= issued' => i <= issued \/ i = n
  BY <1>0, <1>1, <1>2, <1>4
<1>6. Aging'
  <2> SUFFICES ASSUME NEW i \in Ids, i <= issued'
               PROVE  /\ expires'[i] <= now' + TTL
                      /\ \A j \in Ids : j < i => expires'[j] <= expires'[i]
    BY DEF Aging
  <2>1. CASE i = n
    <3>1. \A j \in Ids : j < i => j <= issued /\ j # n
      BY <1>0, <1>2, <1>4, <2>1
    <3> QED
      BY <1>0, <1>1, <1>3, <1>4, <2>1, <3>1 DEF Aging
  <2>2. CASE i <= issued /\ i # n
    <3>1. \A j \in Ids : j < i => j # n
      BY <1>0, <1>2, <1>4, <2>2
    <3> QED
      BY <1>0, <1>1, <1>3, <2>2, <3>1 DEF Aging
  <2> QED
    BY <1>5, <2>1, <2>2
<1>7. NoneLeftBehind'
  <2> SUFFICES ASSUME NEW i \in Ids, NEW j \in Ids, j < i, status'[i] \notin Fresh,
                      status'[j] \in Waiting, expires'[j] > now'
               PROVE  j \in missed[i]
    BY <1>1 DEF NoneLeftBehind
  <2>1. i # n /\ status[i] \notin Fresh
    BY <1>3 DEF Fresh, Waiting
  <2>2. i <= issued
    BY <1>0, <1>4, <2>1 DEF Fresh
  <2>3. j # n
    BY <1>0, <1>2, <1>4, <2>2
  <2> QED
    BY <1>1, <1>3, <2>1, <2>3 DEF NoneLeftBehind
<1> QED
  BY <1>6, <1>7

\* What the root service holds stays newer than what it has carried out.
LEMMA HeldStep ==
    ASSUME OrderInv, [CommandsNext]_commandsVars
    PROVE  HeldInOrder'
<1>0. /\ ClaimInv /\ HostTypes /\ NoneLeftBehind /\ HeldInOrder /\ Root \in Processes
      /\ held \in [Processes -> SUBSET Ids] /\ applied \subseteq Ids
      /\ executed \in [Ids -> Nat] /\ missed \in [Ids -> SUBSET Ids]
  BY CommandsAssumption DEF OrderInv, ClaimInv, ClaimTypes, HostTypes
<1>1. \A j \in applied : status[j] \notin Fresh
  BY <1>0 DEF HeldInOrder, ClaimInv, Unclaimed, Fresh
<1>2. \A j \in applied : missed'[j] = missed[j]
  <2>1. CASE Passes
    BY <1>0, <1>1, <2>1 DEF Passes, Leaves, Fresh, Waiting
  <2>2. ASSUME NEW t \in Types, Stamp(t) PROVE missed' = missed
    BY <2>2 DEF Stamp
  <2> QED
    BY <1>0, <2>1, <2>2, StepPasses
<1>3. CASE Drops
  BY <1>0, <1>2, <1>3 DEF Drops, HeldInOrder
<1>4. ASSUME NEW p \in Processes, NEW i \in Ids, Claim(p, i) PROVE HeldInOrder'
  <2>1. UNCHANGED <<executed, applied>> /\ held' = [held EXCEPT ![p] = @ \cup {i}]
    BY <1>4 DEF Claim, hostVars
  <2>2. status[i] = "pending" /\ expires[i] > now
    BY <1>4 DEF Claim, Deliver, Oldest, Claimable
  <2>3. \A j \in applied : i < j => i \in missed[j]
    BY <1>0, <1>1, <2>2 DEF NoneLeftBehind, Waiting
  <2>4. held'[Root] \subseteq held[Root] \cup {i}
    BY <1>0, <2>1
  <2> QED
    BY <1>0, <1>2, <2>1, <2>3, <2>4 DEF HeldInOrder
<1>5. ASSUME NEW p \in Processes, NEW i \in Ids, Execute(p, i) PROVE HeldInOrder'
  <2>1. /\ First(p, i) /\ held' = [held EXCEPT ![p] = @ \ {i}]
        /\ executed' = [executed EXCEPT ![i] = @ + 1]
    BY <1>5 DEF Execute
  <2>5. applied' = applied \/ (p = Root /\ applied' = applied \cup {i})
    BY <1>5 DEF Execute
  <2>2. /\ executed'[i] > 0 /\ held'[Root] \subseteq held[Root]
        /\ \A j \in Ids : executed[j] > 0 => executed'[j] > 0
    BY <1>0, <2>1
  <2>3. CASE applied' = applied
    BY <1>0, <1>2, <2>2, <2>3 DEF HeldInOrder
  <2>4. CASE p = Root /\ applied' = applied \cup {i}
    <3>1. \A k \in held'[Root] : ~(k < i)
      BY <1>0, <2>1, <2>2, <2>4 DEF First, Ids
    <3>2. \A j \in applied' : executed'[j] > 0
      BY <1>0, <2>2, <2>4 DEF HeldInOrder
    <3>3. ASSUME NEW k \in held'[Root], NEW j \in applied', k < j PROVE k \in missed'[j]
      <4>1. j \in applied /\ k \in held[Root]
        BY <2>2, <2>4, <3>1, <3>3
      <4> QED
        BY <1>2, <3>3, <4>1, <1>0 DEF HeldInOrder
    <3> QED
      BY <3>2, <3>3 DEF HeldInOrder
  <2> QED
    BY <2>3, <2>4, <2>5
<1> QED
  BY <1>0, <1>3, <1>4, <1>5, StepHolds

LEMMA OrderStep == OrderInv /\ [CommandsNext]_commandsVars => OrderInv'
<1> SUFFICES ASSUME OrderInv, [CommandsNext]_commandsVars PROVE OrderInv'
  OBVIOUS
<1>0. ClaimInv /\ HostTypes /\ Aging /\ NoneLeftBehind
  BY DEF OrderInv
<1>1. ClaimInv' /\ HostTypes' /\ now' \in Nat
  <2>1. ClaimInv' /\ HostTypes'
    BY <1>0, InvStep, HostTypesStep
  <2> QED
    BY <2>1 DEF HostTypes
<1>2. Aging' /\ NoneLeftBehind'
  BY <1>0, <1>1, StepPasses, LineStep, StampLine
<1>3. HeldInOrder'
  BY HeldStep
<1> QED
  BY <1>1, <1>2, <1>3 DEF OrderInv

LEMMA OrderInit == CommandsInit => OrderInv
<1> SUFFICES ASSUME CommandsInit PROVE OrderInv
  OBVIOUS
<1>1. ClaimInv /\ HostTypes
  BY InvInit, HostTypesInit
<1>2. Aging /\ NoneLeftBehind
  BY DEF CommandsInit, Aging, NoneLeftBehind, Fresh, Ids
<1>3. HeldInOrder
  BY CommandsAssumption DEF CommandsInit, HeldInOrder
<1> QED
  BY <1>1, <1>2, <1>3 DEF OrderInv

\* A command that is executed was claimed, and nothing older still waits.
LEMMA ExecutedInOrder ==
    ASSUME OrderInv, [CommandsNext]_commandsVars
    PROVE  ClaimedInOrder
<1>1. /\ ClaimInv /\ HostTypes /\ NoneLeftBehind
      /\ held \in [Processes -> SUBSET Ids] /\ executed \in [Ids -> Nat]
  BY DEF OrderInv, ClaimInv, ClaimTypes
<1> SUFFICES ASSUME NEW i \in Ids, executed'[i] # executed[i], NEW j \in Ids, j < i,
                    status[j] = "pending", expires[j] > now
             PROVE  j \in missed[i]
  BY DEF ClaimedInOrder
<1>2. PICK p \in Processes : i \in held[p]
  <2>1. CASE Drops
    BY <2>1 DEF Drops
  <2>2. ASSUME NEW p \in Processes, NEW k \in Ids, Claim(p, k) PROVE FALSE
    BY <2>2 DEF Claim, hostVars
  <2>3. ASSUME NEW p \in Processes, NEW k \in Ids, Execute(p, k) PROVE i \in held[p]
    BY <1>1, <2>3 DEF Execute, First
  <2> QED
    BY <1>1, <2>1, <2>2, <2>3, StepHolds
<1>3. status[i] \notin Fresh
  BY <1>1, <1>2 DEF ClaimInv, Unclaimed, Fresh
<1> QED
  BY <1>1, <1>3 DEF NoneLeftBehind, Waiting

\* What is carried out was in the hands of the root service.
LEMMA CarriedOutInOrder ==
    ASSUME OrderInv, [CommandsNext]_commandsVars
    PROVE  AppliedInOrder
<1>1. ClaimInv /\ HostTypes /\ HeldInOrder
  BY DEF OrderInv
<1>2. ASSUME NEW i \in applied' \ applied PROVE i \in held[Root]
  <2>1. CASE Drops
    BY <1>2, <2>1 DEF Drops
  <2>2. ASSUME NEW p \in Processes, NEW k \in Ids, Claim(p, k) PROVE FALSE
    BY <1>2, <2>2 DEF Claim, hostVars
  <2>3. ASSUME NEW p \in Processes, NEW k \in Ids, Execute(p, k) PROVE i \in held[Root]
    BY <1>2, <2>3 DEF Execute, First
  <2> QED
    BY <1>1, <2>1, <2>2, <2>3, StepHolds
<1> QED
  BY <1>1, <1>2 DEF AppliedInOrder, HeldInOrder

\* commandsPendingHandler hands commands out in the order of creation, and the
\* root service applies quarantines and releases in it: whoever executes a
\* command, no older one that could be claimed still waits, and the root
\* service does not go back to one older than what it has carried out, whatever
\* was lost, abandoned or crashed, unless the older command was inserted after
\* the newer one had been claimed.
THEOREM NothingOvertaken == CommandsSpec => NoOvertaking
<1>1. OrderInv /\ [CommandsNext]_commandsVars
        => [ClaimedInOrder /\ AppliedInOrder]_<<executed, applied>>
  BY ExecutedInOrder, CarriedOutInOrder
<1> QED
  BY <1>1, OrderInit, OrderStep, PTL DEF CommandsSpec, NoOvertaking

-----------------------------------------------------------------------------
(* The quarantine, for any number of commands, expiring deadlines, failing *)
(* calls and crashes, on hosts with and without ip6tables.                 *)

P == "poller"
Enabling  == {"create", "append", "hookIn", "hookOut", "write", "arm"}
Releasing == {"unhookIn", "unhookOut", "flush", "remove"}
Stages    == {"idle", "clear"} \cup Enabling \cup Releasing

\* Only the command poller isolates the host.
TypeInv == TypeOK /\ \A a \in Autos : pc[a] \notin Enabling

LEMMA FamilyFacts ==
    /\ "v4" \in Families /\ P \in Threads /\ Autos \subseteq Threads
    /\ \A t \in Threads : t # P => t \in Autos
    /\ P \notin Autos
    /\ \A f \in Families : f = "v4" \/ (f = "v6" /\ HasIp6tables)
    /\ HasIp6tables => "v6" \in Families
BY QuarantineAssumption DEF Families, Threads, P

LEMMA HookSteps ==
    /\ Hooks = {"INPUT", "OUTPUT"}
    /\ HookAt["INPUT"] = "hookIn" /\ HookAt["OUTPUT"] = "hookOut"
    /\ UnhookAt["INPUT"] = "unhookIn" /\ UnhookAt["OUTPUT"] = "unhookOut"
BY DEF Hooks, HookAt, UnhookAt

LEMMA TypeInit == Init => TypeInv
<1>1. 0 \in 0..MaxEnables /\ 0 \in 0..MaxReleases /\ 0 \in 0..MaxFaults
      /\ 0 \in 0..MaxProbes /\ 0 \in 0..MaxCrashes
  BY QuarantineAssumption
<1>2. Init => TypeOK
  <2> SUFFICES ASSUME Init PROVE TypeOK
    OBVIOUS
  <2>1. /\ chain \in [Families -> {"absent", "open", "drop"}]
        /\ hook \in [Families -> SUBSET Hooks]
    BY DEF Init
  <2>2. fam \in [Threads -> Families]
    BY FamilyFacts DEF Init
  <2>3. /\ pc \in [Threads -> {"idle", "create", "append", "hookIn", "hookOut", "write",
                               "arm", "unhookIn", "unhookOut", "flush", "remove", "clear"}]
        /\ op \in [Threads -> {"enable", "release", "rollback"}]
        /\ clean \in [Threads -> BOOLEAN]
    BY DEF Init
  <2> QED
    BY <1>1, <2>1, <2>2, <2>3 DEF Init, TypeOK
<1>3. Init => \A a \in Autos : pc[a] \notin Enabling
  BY FamilyFacts DEF Init, Enabling
<1> QED
  BY <1>2, <1>3 DEF TypeInv

\* What a step of thread t does to the threads: the others stay where they
\* are, and only the poller isolates.
Moves(t) ==
    /\ pc' \in [Threads -> Stages] /\ op' \in [Threads -> {"enable", "release", "rollback"}]
    /\ fam' \in [Threads -> Families] /\ clean' \in [Threads -> BOOLEAN]
    /\ t \in Autos => pc'[t] \notin Enabling
    /\ \A u \in Threads \ {t} : /\ pc'[u] = pc[u] /\ op'[u] = op[u]
                                /\ fam'[u] = fam[u] /\ clean'[u] = clean[u]

RunTypes ==
    /\ pc \in [Threads -> Stages] /\ op \in [Threads -> {"enable", "release", "rollback"}]
    /\ fam \in [Threads -> Families] /\ clean \in [Threads -> BOOLEAN]
    /\ \A a \in Autos : pc[a] \notin Enabling

LEMMA RunFacts == TypeInv => RunTypes
BY DEF TypeInv, TypeOK, RunTypes, Stages, Enabling, Releasing

\* A thread begins, and goes to its next step.
LEMMA StartFacts ==
    ASSUME RunTypes, NEW t \in Threads, NEW o \in {"enable", "release", "rollback"},
           NEW x \in Stages, Start(t, o, x), t \in Autos => x \notin Enabling
    PROVE  /\ Moves(t)
           /\ pc[t] = "idle" /\ pc'[t] = x /\ op'[t] = o /\ fam'[t] = "v4" /\ clean'[t]
BY FamilyFacts DEF RunTypes, Start, Moves

LEMMA GotoFacts ==
    ASSUME RunTypes, NEW t \in Threads, NEW x \in Stages, Goto(t, x),
           t \in Autos => x \notin Enabling,
           UNCHANGED <<op, fam>>, UNCHANGED clean \/ \E ok \in BOOLEAN : Note(t, ok)
    PROVE  /\ Moves(t)
           /\ pc'[t] = x /\ op'[t] = op[t] /\ fam'[t] = fam[t]
           /\ UNCHANGED clean => clean'[t] = clean[t]
           /\ \A ok \in BOOLEAN : Note(t, ok) => clean'[t] = (clean[t] /\ ok)
BY DEF RunTypes, Goto, Note, Moves

\* A family that cannot be isolated.
LEMMA EnableFailedFacts ==
    ASSUME RunTypes, NEW t \in Threads, EnableFailed(t)
    PROVE  /\ Moves(t)
           /\ fam[t] = "v4" => pc'[t] = "idle" /\ UNCHANGED <<op, fam, clean>>
           /\ fam[t] # "v4" => pc'[t] = "unhookIn" /\ fam'[t] = "v4" /\ clean'[t]
<1>1. CASE fam[t] = "v4"
  BY <1>1 DEF EnableFailed, RunTypes, Goto, Moves, Stages, Enabling
<1>2. CASE fam[t] # "v4"
  <2>1. /\ pc' = [pc EXCEPT ![t] = "unhookIn"]
        /\ op' = [op EXCEPT ![t] = "rollback"]
        /\ fam' = [fam EXCEPT ![t] = "v4"]
        /\ clean' = [clean EXCEPT ![t] = TRUE]
    BY <1>2 DEF EnableFailed, Goto
  <2> QED
    BY <1>2, <2>1, FamilyFacts DEF RunTypes, Moves, Stages, Enabling, Releasing
<1> QED
  BY <1>1, <1>2

\* One hook has been tried.
LEMMA HookedFacts ==
    ASSUME RunTypes, NEW t \in Threads \ Autos, NEW h \in Hooks, NEW ok \in BOOLEAN,
           Hooked(t, h, ok)
    PROVE  /\ Moves(t)
           /\ h = "INPUT" => /\ pc'[t] = "hookOut" /\ fam'[t] = fam[t]
                             /\ clean'[t] = (clean[t] /\ ok)
           /\ h = "OUTPUT" /\ clean[t] /\ ok =>
                /\ clean'[t]
                /\ \/ pc'[t] = "create" /\ fam[t] = "v4" /\ fam'[t] = "v6"
                   \/ pc'[t] = "write" /\ fam'[t] = fam[t]
           /\ h = "OUTPUT" /\ ~(clean[t] /\ ok) => EnableFailed(t)
<1> USE DEF Stages, Enabling, Releasing
<1>1. CASE h = "INPUT"
  BY <1>1, GotoFacts DEF Hooked
<1>2. CASE h = "OUTPUT" /\ ~(clean[t] /\ ok)
  BY <1>2, EnableFailedFacts DEF Hooked, Succeeded
<1>3. CASE h = "OUTPUT" /\ clean[t] /\ ok
  <2>1. /\ UNCHANGED <<op, clean>>
        /\ \/ Goto(t, "create") /\ fam' = [fam EXCEPT ![t] = "v6"] /\ MoreFamilies(t)
           \/ Goto(t, "write") /\ UNCHANGED fam
    BY <1>3 DEF Hooked, Succeeded
  <2>2. CASE Goto(t, "write") /\ UNCHANGED fam
    BY <1>3, <2>1, <2>2, GotoFacts
  <2>3. CASE Goto(t, "create") /\ fam' = [fam EXCEPT ![t] = "v6"] /\ MoreFamilies(t)
    BY <1>3, <2>1, <2>3, FamilyFacts DEF Goto, MoreFamilies, RunTypes, Moves
  <2> QED
    BY <2>1, <2>2, <2>3
<1> QED
  BY <1>1, <1>2, <1>3 DEF Hooks

\* A family is done with; the next one follows, or the end.
LEMMA ReleasedFacts ==
    ASSUME RunTypes, NEW t \in Threads, NEW ok \in BOOLEAN, Released(t, ok)
    PROVE  /\ Moves(t)
           /\ clean'[t] = (clean[t] /\ ok)
           /\ MoreFamilies(t) => pc'[t] = "unhookIn" /\ fam'[t] = "v6"
           /\ ~MoreFamilies(t) =>
                /\ fam'[t] = fam[t] /\ pc'[t] \in {"clear", "idle"}
                /\ pc'[t] = "clear" => clean'[t]
<1> USE DEF Stages, Enabling, Releasing
<1>0. clean' = [clean EXCEPT ![t] = clean[t] /\ ok] /\ UNCHANGED op
  BY DEF Released, Note
<1>1. CASE MoreFamilies(t)
  BY <1>0, <1>1, FamilyFacts DEF Released, Goto, MoreFamilies, RunTypes, Moves
<1>2. CASE ~MoreFamilies(t)
  <2>1. /\ UNCHANGED fam
        /\ (Goto(t, "clear") /\ Succeeded(t, ok)) \/ Goto(t, "idle")
    BY <1>2 DEF Released
  <2> QED
    BY <1>0, <1>2, <2>1 DEF Goto, RunTypes, Moves, Succeeded
<1> QED
  BY <1>1, <1>2

\* The firewall, the deadline and the bounds after a step.
FwTyped ==
    /\ chain' \in [Families -> {"absent", "open", "drop"}]
    /\ hook' \in [Families -> SUBSET Hooks]

PlanTyped ==
    /\ timer' \in BOOLEAN /\ file' \in {"none", "torn", "ok"}
    /\ stale' \subseteq Autos /\ lapsed' \in BOOLEAN

BoundsTyped ==
    /\ enables' \in 0..MaxEnables /\ releases' \in 0..MaxReleases
    /\ faults' \in 0..MaxFaults /\ probes' \in 0..MaxProbes /\ crashes' \in 0..MaxCrashes

LEMMA TypeFrame ==
    ASSUME TypeInv, FwTyped, PlanTyped, BoundsTyped, NEW t \in Threads, Moves(t)
    PROVE  TypeInv'
<1>1. TypeOK'
  BY DEF FwTyped, PlanTyped, BoundsTyped, Moves, TypeOK, Stages, Enabling, Releasing
<1>2. ASSUME NEW a \in Autos PROVE pc'[a] \notin Enabling
  BY FamilyFacts DEF TypeInv, Moves
<1> QED
  BY <1>1, <1>2 DEF TypeInv

LEMMA FwSame == TypeInv /\ UNCHANGED fwVars => FwTyped
BY DEF TypeInv, TypeOK, FwTyped, fwVars

LEMMA PlanSame == TypeInv /\ UNCHANGED planVars => PlanTyped
BY DEF TypeInv, TypeOK, PlanTyped, planVars

LEMMA BoundsSame == TypeInv /\ UNCHANGED boundVars => BoundsTyped
BY DEF TypeInv, TypeOK, BoundsTyped, boundVars

\* A failing call is counted.
LEMMA FaultFacts ==
    ASSUME TypeInv
    PROVE  /\ Fault => BoundsTyped /\ faults' # 0 /\ probes' = probes
           /\ ProbeFault => BoundsTyped /\ probes' # 0 /\ faults' = faults
<1>1. /\ MaxFaults \in Nat /\ MaxProbes \in Nat
      /\ faults \in 0..MaxFaults /\ probes \in 0..MaxProbes
  BY QuarantineAssumption DEF TypeInv, TypeOK
<1>2. Fault => faults' \in 0..MaxFaults /\ faults' # 0
  BY <1>1 DEF Fault
<1>3. ProbeFault => probes' \in 0..MaxProbes /\ probes' # 0
  BY <1>1 DEF ProbeFault
<1> QED
  BY <1>2, <1>3 DEF Fault, ProbeFault, BoundsTyped, TypeInv, TypeOK

\* What every call, whether it succeeds or fails, does to its thread.
LEMMA CallMoves ==
    ASSUME TypeInv, NEW t \in Threads, Call(t) \/ CallFails(t)
    PROVE  Moves(t)
<1> USE DEF Stages, Enabling, Releasing
<1>0. RunTypes
  BY RunFacts
<1>1. pc[t] \in Enabling => t \notin Autos
  BY DEF TypeInv
<1>2. CASE Create(t) \/ AppendRules(t) \/ WriteDeadline(t) \/ ArmDeadline(t) \/ DeadlineUnsaved(t)
  <2>1. /\ UNCHANGED <<op, fam, clean>> /\ t \notin Autos
        /\ Goto(t, "append") \/ Goto(t, "hookIn") \/ Goto(t, "arm") \/ Goto(t, "idle")
    BY <1>1, <1>2 DEF Create, AppendRules, WriteDeadline, ArmDeadline, DeadlineUnsaved
  <2> QED
    BY <1>0, <2>1, GotoFacts
<1>3. CASE CreateFails(t) \/ AppendFails(t)
  BY <1>0, <1>3, EnableFailedFacts DEF CreateFails, AppendFails
<1>4. ASSUME NEW h \in Hooks, Hook(t, h) \/ HookFails(t, h) PROVE Moves(t)
  <2>1. t \notin Autos
    BY <1>1, <1>4, HookSteps DEF Hook, HookFails
  <2> QED
    BY <1>0, <1>4, <2>1, HookedFacts DEF Hook, HookFails
<1>5. ASSUME NEW h \in Hooks, Unhook(t, h) \/ UnhookFails(t, h) PROVE Moves(t)
  <2>1. /\ Goto(t, "unhookOut") \/ Goto(t, "flush")
        /\ UNCHANGED <<op, fam>> /\ (UNCHANGED clean \/ Note(t, FALSE))
    BY <1>5 DEF Unhook, UnhookFails, Unhooked
  <2> QED
    BY <1>0, <2>1, GotoFacts
<1>6. CASE Flush(t) \/ FlushFails(t)
  <2>1. CASE Released(t, TRUE)
    BY <1>0, <2>1, ReleasedFacts
  <2>2. CASE /\ Goto(t, "remove") /\ UNCHANGED <<op, fam>>
             /\ UNCHANGED clean \/ Note(t, FALSE)
    BY <1>0, <2>2, GotoFacts
  <2> QED
    BY <1>6, <2>1, <2>2 DEF Flush, FlushFails
<1>7. CASE Remove(t) \/ RemoveFails(t)
  BY <1>0, <1>7, ReleasedFacts DEF Remove, RemoveFails
<1>8. CASE Unavailable(t)
  <2>1. CASE Released(t, TRUE)
    BY <1>0, <2>1, ReleasedFacts
  <2>2. CASE /\ pc[t] = "create" /\ UNCHANGED <<op, fam, clean>>
             /\ Goto(t, "idle") \/ Goto(t, "write")
    BY <1>0, <1>1, <2>2, GotoFacts
  <2> QED
    BY <1>8, <2>1, <2>2 DEF Unavailable
<1>9. CASE ClearDeadline(t)
  BY <1>0, <1>9, GotoFacts DEF ClearDeadline
<1> QED
  BY <1>2, <1>3, <1>4, <1>5, <1>6, <1>7, <1>8, <1>9 DEF Call, CallFails

LEMMA CallTypes ==
    ASSUME TypeInv, NEW t \in Threads, Call(t) \/ CallFails(t)
    PROVE  TypeInv'
<1>1. Moves(t)
  BY CallMoves
<1>2. fam[t] \in Families /\ chain \in [Families -> {"absent", "open", "drop"}]
      /\ hook \in [Families -> SUBSET Hooks]
  BY DEF TypeInv, TypeOK
<1>3. FwTyped
  <2>1. CASE UNCHANGED fwVars
    BY <2>1, FwSame
  <2>2. CASE UNCHANGED hook /\ \/ chain' = [chain EXCEPT ![fam[t]] = "open"]
                               \/ chain' = [chain EXCEPT ![fam[t]] = "drop"]
                               \/ chain' = [chain EXCEPT ![fam[t]] = "absent"]
                               \/ chain' = chain
    BY <1>2, <2>2 DEF FwTyped
  <2>3. ASSUME NEW h \in Hooks, Hook(t, h) \/ Unhook(t, h) PROVE FwTyped
    <3>1. /\ chain' = chain
          /\ \/ hook' = [hook EXCEPT ![fam[t]] = hook[fam[t]] \cup {h}]
             \/ hook' = [hook EXCEPT ![fam[t]] = hook[fam[t]] \ {h}]
      BY <2>3 DEF Hook, Unhook
    <3>2. hook[fam[t]] \cup {h} \in SUBSET Hooks /\ hook[fam[t]] \ {h} \in SUBSET Hooks
      BY <1>2
    <3> QED
      BY <1>2, <3>1, <3>2 DEF FwTyped
  <2> QED
    BY <2>1, <2>2, <2>3
       DEF Call, CallFails, Create, AppendRules, WriteDeadline, ArmDeadline, Flush, Remove,
           ClearDeadline, CreateFails, AppendFails, FlushFails, RemoveFails, HookFails,
           UnhookFails, Unavailable, DeadlineUnsaved, fwVars
<1>4. PlanTyped
  <2>1. CASE UNCHANGED planVars
    BY <2>1, PlanSame
  <2>2. CASE WriteDeadline(t) \/ ArmDeadline(t) \/ ClearDeadline(t) \/ DeadlineUnsaved(t)
    BY <2>2 DEF WriteDeadline, ArmDeadline, ClearDeadline, DeadlineUnsaved, PlanTyped,
                TypeInv, TypeOK
  <2> QED
    BY <2>1, <2>2
       DEF Call, CallFails, Create, AppendRules, Flush, Remove, Hook, Unhook,
           CreateFails, AppendFails, FlushFails, RemoveFails, HookFails,
           UnhookFails, Unavailable
<1>5. BoundsTyped
  <2>1. UNCHANGED boundVars \/ Fault \/ ProbeFault
    BY DEF Call, CallFails, Create, AppendRules, WriteDeadline, ArmDeadline, Flush, Remove,
           ClearDeadline, Hook, Unhook, CreateFails, AppendFails, FlushFails, RemoveFails,
           HookFails, UnhookFails, Unavailable, DeadlineUnsaved
  <2> QED
    BY <2>1, BoundsSame, FaultFacts
<1> QED
  BY <1>1, <1>3, <1>4, <1>5, TypeFrame

\* The poller takes a command, or the timer fires.
LEMMA StartTypes ==
    ASSUME TypeInv, EnableCommand \/ ReleaseCommand \/ \E a \in Autos : Fire(a)
    PROVE  /\ TypeInv' /\ UNCHANGED <<chain, hook, file, faults, probes>>
           /\ \E t \in Threads :
                /\ Moves(t) /\ pc[t] = "idle" /\ fam'[t] = "v4" /\ clean'[t]
                /\ \/ t = P /\ pc'[t] \in {"create", "unhookIn"} /\ UNCHANGED timer
                   \/ t # P /\ pc'[t] = "unhookIn" /\ ~timer'
<1> USE DEF Stages, Enabling, Releasing, fwVars, planVars, boundVars
<1>0. /\ RunTypes
      /\ enables \in 0..MaxEnables /\ releases \in 0..MaxReleases
      /\ MaxEnables \in Nat /\ MaxReleases \in Nat
  BY RunFacts, QuarantineAssumption DEF TypeInv, TypeOK
<1>1. CASE EnableCommand
  <2>1. Start(P, "enable", "create")
    BY <1>1 DEF EnableCommand, P
  <2>2. /\ Moves(P) /\ pc[P] = "idle" /\ pc'[P] = "create" /\ fam'[P] = "v4" /\ clean'[P]
    BY <1>0, <2>1, StartFacts, FamilyFacts
  <2>3. enables' \in 0..MaxEnables
    BY <1>0, <1>1 DEF EnableCommand
  <2>4. BoundsTyped
    BY <1>1, <2>3 DEF EnableCommand, BoundsTyped, TypeInv, TypeOK
  <2>5. UNCHANGED <<fwVars, planVars>>
    BY <1>1 DEF EnableCommand
  <2> QED
    BY <1>1, <2>2, <2>4, <2>5, FwSame, PlanSame, TypeFrame, FamilyFacts DEF EnableCommand
<1>2. CASE ReleaseCommand
  <2>1. Start(P, "release", "unhookIn")
    BY <1>2 DEF ReleaseCommand, P
  <2>2. /\ Moves(P) /\ pc[P] = "idle" /\ pc'[P] = "unhookIn" /\ fam'[P] = "v4" /\ clean'[P]
    BY <1>0, <2>1, StartFacts, FamilyFacts
  <2>3. releases' \in 0..MaxReleases
    BY <1>0, <1>2 DEF ReleaseCommand
  <2>4. BoundsTyped
    BY <1>2, <2>3 DEF ReleaseCommand, BoundsTyped, TypeInv, TypeOK
  <2>5. UNCHANGED <<fwVars, planVars>>
    BY <1>2 DEF ReleaseCommand
  <2> QED
    BY <1>2, <2>2, <2>4, <2>5, FwSame, PlanSame, TypeFrame, FamilyFacts DEF ReleaseCommand
<1>3. ASSUME NEW a \in Autos, Fire(a)
      PROVE  /\ TypeInv' /\ UNCHANGED <<chain, hook, file, faults, probes>>
             /\ \E t \in Threads :
                  /\ Moves(t) /\ pc[t] = "idle" /\ fam'[t] = "v4" /\ clean'[t]
                  /\ t # P /\ pc'[t] = "unhookIn" /\ ~timer'
  <2>1. Start(a, "release", "unhookIn")
    BY <1>3 DEF Fire
  <2>2. /\ Moves(a) /\ pc[a] = "idle" /\ pc'[a] = "unhookIn" /\ fam'[a] = "v4" /\ clean'[a]
    BY <1>0, <2>1, StartFacts, FamilyFacts
  <2>3. PlanTyped
    BY <1>3 DEF Fire, PlanTyped, TypeInv, TypeOK
  <2>4. UNCHANGED <<fwVars, boundVars, file>> /\ ~timer'
    BY <1>3 DEF Fire
  <2> QED
    BY <2>2, <2>3, <2>4, FwSame, BoundsSame, TypeFrame, FamilyFacts
<1> QED
  BY <1>1, <1>2, <1>3

LEMMA CrashTypes == ASSUME TypeInv, Crash PROVE TypeInv'
<1>1. FwTyped
  <2>1. CASE UNCHANGED fwVars
    BY <2>1, FwSame
  <2>2. CASE chain' = [f \in Families |-> "absent"] /\ hook' = [f \in Families |-> {}]
    BY <2>2 DEF FwTyped
  <2> QED
    BY <2>1, <2>2 DEF Crash
<1>2. PlanTyped
  BY DEF Crash, Resume, PlanTyped, TypeInv, TypeOK
<1>3. BoundsTyped
  <2>1. crashes' \in 0..MaxCrashes
    BY QuarantineAssumption DEF Crash, TypeInv, TypeOK
  <2> QED
    BY <2>1 DEF Crash, BoundsTyped, TypeInv, TypeOK
<1>4. /\ pc' = [t \in Threads |-> "idle"] /\ UNCHANGED <<op, fam, clean>>
  BY DEF Crash
<1>5. TypeOK'
  BY <1>1, <1>2, <1>3, <1>4 DEF FwTyped, PlanTyped, BoundsTyped, TypeInv, TypeOK
<1> QED
  BY <1>4, <1>5, FamilyFacts DEF TypeInv, Enabling

LEMMA TypeStep == TypeInv /\ [Next]_vars => TypeInv'
<1> SUFFICES ASSUME TypeInv, [Next]_vars PROVE TypeInv'
  OBVIOUS
<1>1. CASE UNCHANGED vars
  BY <1>1 DEF vars, fwVars, planVars, runVars, boundVars, TypeInv, TypeOK
<1> QED
  BY <1>1, CallTypes, StartTypes, CrashTypes DEF Next, Idle

\* Every variable of the quarantine keeps its type, no goroutine works on an
\* address family that the host does not have, and only the command poller
\* isolates the host (autoReleaseQuarantine only releases).
THEOREM TypeCorrect == Spec => []TypeInv
<1> QED
  BY TypeInit, TypeStep, PTL DEF Spec

-----------------------------------------------------------------------------
(* A reported release is one.                                              *)

\* While no query fails and no step leaves a note, the hooks that the poller
\* has been to are gone: nobody else sets one.
UnhookedSoFar ==
    probes = 0 /\ clean[P] =>
        /\ pc[P] \in Releasing /\ fam[P] = "v6" => hook["v4"] = {}
        /\ pc[P] = "unhookOut" => "INPUT" \notin hook[fam[P]]
        /\ pc[P] \in {"flush", "remove"} => hook[fam[P]] = {}
        /\ pc[P] = "clear" => \A f \in Families : hook[f] = {}

RestoreInv ==
    /\ TypeInv
    /\ pc[P] = "clear" => clean[P]
    /\ UnhookedSoFar

\* Steps of the other threads: hooks only go.
LEMMA RestoreStays ==
    ASSUME RestoreInv, TypeInv', \A f \in Families : hook'[f] \subseteq hook[f],
           pc'[P] = pc[P] /\ fam'[P] = fam[P] /\ clean'[P] = clean[P],
           probes' = 0 => probes = 0
    PROVE  RestoreInv'
<1>1. fam[P] \in Families
  BY FamilyFacts DEF RestoreInv, TypeInv, TypeOK
<1>2. UnhookedSoFar'
  BY <1>1, FamilyFacts DEF RestoreInv, UnhookedSoFar
<1> QED
  BY <1>2 DEF RestoreInv

\* The poller does nothing.
LEMMA RestoreIdle ==
    ASSUME TypeInv', pc'[P] \in {"idle", "unhookIn"} \cup Enabling, fam'[P] = "v4" \/ pc'[P] # "unhookIn"
    PROVE  RestoreInv'
BY DEF RestoreInv, UnhookedSoFar, Releasing, Enabling

\* A release that has done with a family.
LEMMA ReleasedRestores ==
    ASSUME RestoreInv, TypeInv', NEW ok \in BOOLEAN, Released(P, ok), pc[P] \in {"flush", "remove"},
           UNCHANGED hook, probes' = 0 => probes = 0
    PROVE  RestoreInv'
<1>1. /\ fam[P] \in Families /\ clean[P] \in BOOLEAN
      /\ clean'[P] = (clean[P] /\ ok)
      /\ MoreFamilies(P) => pc'[P] = "unhookIn" /\ fam'[P] = "v6"
      /\ ~MoreFamilies(P) =>
           /\ fam'[P] = fam[P] /\ pc'[P] \in {"clear", "idle"}
           /\ pc'[P] = "clear" => clean'[P]
  BY FamilyFacts, RunFacts, ReleasedFacts DEF RestoreInv, RunTypes
<1>2. pc'[P] = "clear" => clean'[P]
  BY <1>1
<1>3. ASSUME probes' = 0, clean'[P] PROVE UnhookedSoFar'
  <2>1. hook[fam[P]] = {} /\ (fam[P] = "v6" => hook["v4"] = {})
    BY <1>1, <1>3 DEF RestoreInv, UnhookedSoFar, Releasing
  <2>2. CASE MoreFamilies(P)
    BY <1>1, <2>1, <2>2 DEF MoreFamilies, UnhookedSoFar
  <2>3. CASE ~MoreFamilies(P)
    <3>1. \A f \in Families : hook[f] = {}
      BY <1>1, <2>1, <2>3, FamilyFacts DEF MoreFamilies
    <3> QED
      BY <1>1, <2>3, <3>1 DEF UnhookedSoFar, Releasing
  <2> QED
    BY <2>2, <2>3
<1> QED
  BY <1>2, <1>3 DEF RestoreInv, UnhookedSoFar

\* A query that fails ends what can be said of this release.
LEMMA ProbedRestores ==
    ASSUME TypeInv', probes' # 0, pc'[P] = "clear" => clean'[P]
    PROVE  RestoreInv'
BY DEF RestoreInv, UnhookedSoFar

\* A step that leaves a note.
LEMMA NotedRestores ==
    ASSUME TypeInv', ~clean'[P], pc'[P] # "clear"
    PROVE  RestoreInv'
BY DEF RestoreInv, UnhookedSoFar

LEMMA PollerRestores ==
    ASSUME RestoreInv, Call(P) \/ CallFails(P)
    PROVE  RestoreInv'
<1> USE DEF Stages, Enabling, Releasing
<1>0. /\ TypeInv /\ TypeInv' /\ RunTypes /\ P \in Threads /\ P \notin Autos
      /\ fam[P] \in Families /\ clean[P] \in BOOLEAN
      /\ hook \in [Families -> SUBSET Hooks]
  BY CallTypes, RunFacts, FamilyFacts DEF RestoreInv, TypeInv, TypeOK
<1>1. CASE Create(P) \/ AppendRules(P) \/ WriteDeadline(P) \/ ArmDeadline(P)
           \/ DeadlineUnsaved(P) \/ ClearDeadline(P)
  <2>1. /\ UNCHANGED <<op, fam, clean>>
        /\ Goto(P, "append") \/ Goto(P, "hookIn") \/ Goto(P, "arm") \/ Goto(P, "idle")
    BY <1>1 DEF Create, AppendRules, WriteDeadline, ArmDeadline, DeadlineUnsaved, ClearDeadline
  <2>2. pc'[P] \in {"append", "hookIn", "arm", "idle"}
    BY <1>0, <2>1, GotoFacts
  <2> QED
    BY <1>0, <2>2, RestoreIdle
<1>2. ASSUME EnableFailed(P) PROVE RestoreInv'
  BY <1>0, <1>2, EnableFailedFacts, RestoreIdle
<1>3. CASE CreateFails(P) \/ AppendFails(P)
  BY <1>2, <1>3 DEF CreateFails, AppendFails
<1>4. ASSUME NEW h \in Hooks, Hook(P, h) \/ HookFails(P, h) PROVE RestoreInv'
  <2>1. PICK ok \in BOOLEAN : Hooked(P, h, ok)
    BY <1>4 DEF Hook, HookFails
  <2>2. CASE h = "INPUT"
    BY <1>0, <2>1, <2>2, HookedFacts, RestoreIdle
  <2>3. CASE h = "OUTPUT" /\ clean[P] /\ ok
    BY <1>0, <2>1, <2>3, HookedFacts, RestoreIdle
  <2>4. CASE h = "OUTPUT" /\ ~(clean[P] /\ ok)
    BY <1>0, <1>2, <2>1, <2>4, HookedFacts
  <2> QED
    BY <2>2, <2>3, <2>4, HookSteps
<1>5. ASSUME NEW h \in Hooks, Unhook(P, h) PROVE RestoreInv'
  <2>1. /\ pc[P] = UnhookAt[h]
        /\ hook' = [hook EXCEPT ![fam[P]] = hook[fam[P]] \ {h}]
        /\ Goto(P, IF h = "INPUT" THEN "unhookOut" ELSE "flush")
        /\ UNCHANGED <<op, fam, clean, probes>>
    BY <1>5 DEF Unhook, Unhooked, boundVars
  <2>2. /\ pc'[P] = IF h = "INPUT" THEN "unhookOut" ELSE "flush"
        /\ fam'[P] = fam[P] /\ clean'[P] = clean[P]
    BY <1>0, <2>1, GotoFacts
  <2>3. /\ hook'[fam[P]] = hook[fam[P]] \ {h}
        /\ \A f \in Families : hook'[f] \subseteq hook[f]
    BY <1>0, <2>1
  <2>4. h = "OUTPUT" /\ probes = 0 /\ clean[P] => hook'[fam[P]] = {}
    <3> SUFFICES ASSUME h = "OUTPUT", probes = 0, clean[P] PROVE hook'[fam[P]] = {}
      OBVIOUS
    <3>1. pc[P] = "unhookOut"
      BY <2>1, HookSteps
    <3>2. "INPUT" \notin hook[fam[P]]
      BY <3>1 DEF RestoreInv, UnhookedSoFar
    <3> QED
      BY <1>0, <2>3, <3>2, HookSteps
  <2>5. probes = 0 /\ clean[P] /\ fam[P] = "v6" => hook'["v4"] = {}
    <3>1. pc[P] \in Releasing
      BY <2>1, HookSteps
    <3> QED
      BY <2>3, <3>1, FamilyFacts DEF RestoreInv, UnhookedSoFar
  <2>6. probes' = probes /\ "INPUT" \notin hook[fam[P]] \ {"INPUT"}
    BY <2>1
  <2>7. UnhookedSoFar'
    BY <2>2, <2>3, <2>4, <2>5, <2>6, HookSteps DEF UnhookedSoFar
  <2> QED
    BY <1>0, <2>2, <2>7 DEF RestoreInv
<1>6. ASSUME NEW h \in Hooks, UnhookFails(P, h) PROVE RestoreInv'
  <2>1. /\ Goto(P, "unhookOut") \/ Goto(P, "flush")
        /\ UNCHANGED <<op, fam>>
        /\ (ProbeFault /\ UNCHANGED clean) \/ Note(P, FALSE)
    BY <1>6 DEF UnhookFails, Unhooked
  <2>2. pc'[P] \in {"unhookOut", "flush"}
    BY <1>0, <2>1, GotoFacts
  <2>3. CASE Note(P, FALSE)
    BY <1>0, <2>1, <2>2, <2>3, GotoFacts, NotedRestores
  <2>4. CASE ProbeFault
    BY <1>0, <2>2, <2>4, FaultFacts, ProbedRestores
  <2> QED
    BY <2>1, <2>3, <2>4
<1>7. CASE Flush(P)
  <2>1. pc[P] = "flush" /\ UNCHANGED <<hook, boundVars>>
    BY <1>7 DEF Flush
  <2>2. CASE Released(P, TRUE)
    BY <1>0, <2>1, <2>2, ReleasedRestores DEF boundVars
  <2>3. CASE Goto(P, "remove") /\ UNCHANGED <<op, fam, clean>>
    <3>1. pc'[P] = "remove" /\ fam'[P] = fam[P] /\ clean'[P] = clean[P]
      BY <1>0, <2>3, GotoFacts
    <3>2. UnhookedSoFar'
      BY <2>1, <3>1 DEF RestoreInv, UnhookedSoFar, boundVars
    <3> QED
      BY <1>0, <3>1, <3>2 DEF RestoreInv
  <2> QED
    BY <1>7, <2>2, <2>3 DEF Flush
<1>8. CASE FlushFails(P)
  <2>1. CASE Note(P, FALSE) /\ Goto(P, "remove") /\ UNCHANGED <<op, fam>>
    <3>1. pc'[P] = "remove" /\ clean'[P] = (clean[P] /\ FALSE)
      BY <1>0, <2>1, GotoFacts
    <3> QED
      BY <1>0, <3>1, NotedRestores
  <2>2. CASE ProbeFault /\ Released(P, TRUE)
    BY <1>0, <2>2, FaultFacts, ReleasedFacts, ProbedRestores
  <2> QED
    BY <1>8, <2>1, <2>2 DEF FlushFails
<1>9. CASE Remove(P) \/ RemoveFails(P)
  <2>1. /\ pc[P] = "remove" /\ UNCHANGED hook /\ probes' = probes
        /\ \E ok \in BOOLEAN : Released(P, ok)
    BY <1>9 DEF Remove, RemoveFails, boundVars, fwVars, Fault
  <2> QED
    BY <1>0, <2>1, ReleasedRestores
<1>10. CASE Unavailable(P)
  <2>1. probes' # 0
    BY <1>0, <1>10, FaultFacts DEF Unavailable
  <2>2. CASE Released(P, TRUE)
    BY <1>0, <2>1, <2>2, ReleasedFacts, ProbedRestores
  <2>3. CASE (Goto(P, "idle") \/ Goto(P, "write")) /\ UNCHANGED <<op, fam, clean>>
    BY <1>0, <2>1, <2>3, GotoFacts, ProbedRestores
  <2> QED
    BY <1>10, <2>2, <2>3 DEF Unavailable
<1> QED
  BY <1>1, <1>3, <1>4, <1>5, <1>6, <1>7, <1>8, <1>9, <1>10 DEF Call, CallFails

\* Only the poller sets hooks.
LEMMA HooksShrink ==
    ASSUME TypeInv, NEW t \in Autos, Call(t) \/ CallFails(t)
    PROVE  \A f \in Families : hook'[f] \subseteq hook[f]
<1>0. /\ pc[t] \notin Enabling /\ hook \in [Families -> SUBSET Hooks]
  BY DEF TypeInv, TypeOK
<1>1. ASSUME NEW h \in Hooks PROVE ~Hook(t, h)
  BY <1>0, HookSteps DEF Hook, Enabling
<1>2. ASSUME NEW h \in Hooks, Unhook(t, h) PROVE \A f \in Families : hook'[f] \subseteq hook[f]
  BY <1>0, <1>2 DEF Unhook
<1>3. CASE UNCHANGED hook
  BY <1>3
<1> QED
  BY <1>1, <1>2, <1>3
     DEF Call, CallFails, Create, AppendRules, WriteDeadline, ArmDeadline, Flush, Remove,
         ClearDeadline, CreateFails, AppendFails, FlushFails, RemoveFails, HookFails,
         UnhookFails, Unavailable, DeadlineUnsaved, fwVars

LEMMA RestoreStep == RestoreInv /\ [Next]_vars => RestoreInv'
<1> SUFFICES ASSUME RestoreInv, [Next]_vars PROVE RestoreInv'
  OBVIOUS
<1>0. TypeInv /\ TypeInv' /\ RunTypes
  BY TypeStep, RunFacts DEF RestoreInv
<1>1. ASSUME NEW a \in Autos, Call(a) \/ CallFails(a) PROVE RestoreInv'
  <2>1. Moves(a) /\ a \in Threads /\ a # P /\ P \in Threads
    BY <1>0, <1>1, CallMoves, FamilyFacts
  <2>2. probes' = 0 => probes = 0
    <3>1. UNCHANGED probes \/ ProbeFault
      BY <1>1
         DEF Call, CallFails, Create, AppendRules, WriteDeadline, ArmDeadline, Flush, Remove,
             ClearDeadline, Hook, Unhook, CreateFails, AppendFails, FlushFails, RemoveFails,
             HookFails, UnhookFails, Unavailable, DeadlineUnsaved, Fault, boundVars
    <3> QED
      BY <1>0, <3>1, FaultFacts
  <2> QED
    BY <1>0, <1>1, <2>1, <2>2, HooksShrink, RestoreStays DEF Moves
<1>2. CASE Call(P) \/ CallFails(P)
  BY <1>2, PollerRestores
<1>3. CASE EnableCommand \/ ReleaseCommand \/ \E a \in Autos : Fire(a)
  <2>1. PICK t \in Threads :
          /\ Moves(t) /\ fam'[t] = "v4" /\ UNCHANGED <<hook, probes>>
          /\ t = P => pc'[P] \in {"create", "unhookIn"}
    BY <1>0, <1>3, StartTypes
  <2>2. CASE t = P
    BY <1>0, <2>1, <2>2, RestoreIdle DEF Enabling
  <2>3. CASE t # P
    BY <1>0, <2>1, <2>3, RestoreStays, FamilyFacts DEF Moves
  <2> QED
    BY <2>2, <2>3
<1>4. CASE Crash
  <2>1. pc'[P] = "idle"
    BY <1>4, FamilyFacts DEF Crash
  <2> QED
    BY <1>0, <2>1, RestoreIdle
<1>5. CASE UNCHANGED vars
  BY <1>0, <1>5, RestoreStays DEF vars, fwVars, runVars, boundVars
<1> QED
  BY <1>1, <1>2, <1>3, <1>4, <1>5, FamilyFacts DEF Next, Idle

\* quarantineRelease reports full connectivity only when no family is blocked
\* any more, while deadlines expire and calls fail, unless a query failed.
THEOREM ReportedReleaseIsReal == Spec => []ReleaseRestores
<1>1. Init => RestoreInv
  <2> SUFFICES ASSUME Init PROVE RestoreInv
    OBVIOUS
  <2>1. pc[P] = "idle"
    BY FamilyFacts DEF Init
  <2> QED
    BY <2>1, TypeInit DEF RestoreInv, UnhookedSoFar, Releasing
<1>2. RestoreInv => ReleaseRestores
  BY DEF RestoreInv, UnhookedSoFar, ReleaseRestores, Blocked, P
<1> QED
  BY <1>1, <1>2, RestoreStep, PTL DEF Spec

-----------------------------------------------------------------------------
(* The timer and the file.                                                 *)

\* The poller is at work on the quarantine of family f.
Quarantining(f) ==
    /\ pc[P] \in {"create", "append", "hookIn", "hookOut", "write"}
    /\ fam[P] = f \/ f = "v4" \/ pc[P] = "write"

\* Thread t will still end the quarantine of family f: it comes to that family
\* or is at its hooks.
Ending(t, f) ==
    /\ pc[t] \in Releasing
    /\ \/ fam[t] = "v4" /\ f = "v6"
       \/ fam[t] = f /\ pc[t] = "unhookIn"
       \/ fam[t] = f /\ pc[t] = "unhookOut" /\ "INPUT" \notin hook[f]

Covered(f) == Quarantining(f) \/ \E t \in Threads : Ending(t, f)

\* A deadline on disk is watched by the timer, or somebody is at work on every
\* family that is blocked.
Watched == file = "ok" /\ ~timer => \A f \in Families : Blocked(f) => Covered(f)

\* The file while it is written, and what the poller knows of its chain.
PollerKnows ==
    /\ pc[P] = "arm" => file = "torn"
    /\ pc[P] \in {"create", "append", "hookIn"} => clean[P]
    /\ pc[P] = "hookOut" /\ ~clean[P] => chain[fam[P]] = "absent"

Kept == (timer => file = "ok") /\ PollerKnows /\ Watched

KeptInv == TypeInv /\ (NoFailure => Kept)

\* A step that removes rules keeps what it, or another thread, will end.
LEMMA EndingStays ==
    ASSUME TypeInv, NEW t \in Threads, NEW u \in Threads \ {t}, Moves(t),
           NEW f \in Families, Ending(u, f), hook'[f] \subseteq hook[f]
    PROVE  Ending(u, f)'
BY DEF Moves, Ending

LEMMA EndingGoes ==
    ASSUME TypeInv, NEW t \in Threads, NEW f \in Families,
           \/ \E h \in Hooks : Unhook(t, h)
           \/ Flush(t) \/ Remove(t),
           Ending(t, f), Blocked(f)'
    PROVE  Ending(t, f)'
<1> USE DEF Stages, Enabling, Releasing
<1>0. /\ RunTypes /\ hook \in [Families -> SUBSET Hooks] /\ fam[t] \in Families
      /\ pc[t] \in Releasing => t \in Threads
  BY RunFacts DEF TypeInv, TypeOK
<1>1. ASSUME NEW h \in Hooks, Unhook(t, h) PROVE Ending(t, f)'
  <2>1. /\ pc[t] = UnhookAt[h]
        /\ hook' = [hook EXCEPT ![fam[t]] = hook[fam[t]] \ {h}]
        /\ Goto(t, IF h = "INPUT" THEN "unhookOut" ELSE "flush")
        /\ UNCHANGED <<op, fam, clean>>
    BY <1>1 DEF Unhook, Unhooked
  <2>2. pc'[t] = (IF h = "INPUT" THEN "unhookOut" ELSE "flush") /\ fam'[t] = fam[t]
    BY <1>0, <2>1, GotoFacts
  <2>3. fam[t] = f => hook'[f] = hook[f] \ {h}
    BY <1>0, <2>1
  <2>4. CASE fam[t] = "v4" /\ f = "v6"
    BY <2>2, <2>4 DEF Ending
  <2>5. CASE fam[t] = f /\ h = "INPUT"
    BY <2>2, <2>3, <2>5 DEF Ending
  <2>6. CASE fam[t] = f /\ h = "OUTPUT"
    <3>1. pc[t] = "unhookOut" /\ "INPUT" \notin hook[f]
      BY <2>1, <2>6, HookSteps DEF Ending
    <3>2. hook'[f] = {}
      BY <1>0, <2>3, <2>6, <3>1, HookSteps
    <3> QED
      BY <3>2 DEF Blocked
  <2> QED
    BY <2>4, <2>5, <2>6, HookSteps DEF Ending
<1>2. CASE Flush(t) \/ Remove(t)
  <2>1. fam[t] = "v4" /\ f = "v6" /\ HasIp6tables
    BY <1>2, FamilyFacts DEF Flush, Remove, Ending
  <2>2. CASE \E ok \in BOOLEAN : Released(t, ok)
    <3>1. pc'[t] = "unhookIn" /\ fam'[t] = "v6"
      BY <1>0, <2>1, <2>2, ReleasedFacts DEF MoreFamilies
    <3> QED
      BY <2>1, <3>1 DEF Ending
  <2>3. CASE Goto(t, "remove") /\ UNCHANGED <<op, fam, clean>>
    <3>1. pc'[t] = "remove" /\ fam'[t] = "v4"
      BY <1>0, <2>1, <2>3, GotoFacts
    <3> QED
      BY <2>1, <3>1 DEF Ending
  <2> QED
    BY <1>2, <2>2, <2>3 DEF Flush, Remove
<1> QED
  BY <1>1, <1>2

\* What removing a rule does to the firewall: nothing becomes blocked.
LEMMA RemovalFacts ==
    ASSUME TypeInv, NEW t \in Threads,
           \/ \E h \in Hooks : Unhook(t, h)
           \/ Flush(t) \/ Remove(t)
    PROVE  /\ Moves(t) /\ UNCHANGED planVars
           /\ pc'[t] \in Releasing \cup {"clear", "idle"}
           /\ \A f \in Families : hook'[f] \subseteq hook[f] /\ (Blocked(f)' => Blocked(f))
           /\ \A f \in Families : chain[f] = "absent" => chain'[f] = "absent"
<1> USE DEF Stages, Enabling, Releasing
<1>0. /\ RunTypes /\ hook \in [Families -> SUBSET Hooks] /\ fam[t] \in Families
      /\ chain \in [Families -> {"absent", "open", "drop"}]
  BY RunFacts DEF TypeInv, TypeOK
<1>1. Moves(t) /\ UNCHANGED planVars
  BY CallMoves DEF Call, Unhook, Flush, Remove
<1>2. ASSUME NEW h \in Hooks, Unhook(t, h)
      PROVE  /\ pc'[t] \in Releasing
             /\ \A f \in Families : hook'[f] \subseteq hook[f] /\ chain'[f] = chain[f]
  <2>1. /\ hook' = [hook EXCEPT ![fam[t]] = hook[fam[t]] \ {h}] /\ chain' = chain
        /\ Goto(t, "unhookOut") \/ Goto(t, "flush")
    BY <1>2 DEF Unhook, Unhooked
  <2> QED
    BY <1>0, <2>1 DEF Goto, RunTypes
<1>3. CASE Flush(t) \/ Remove(t)
  <2>1. /\ hook' = hook
        /\ \/ chain' = chain
           \/ chain[fam[t]] # "absent" /\ chain' = [chain EXCEPT ![fam[t]] = "open"]
           \/ chain' = [chain EXCEPT ![fam[t]] = "absent"]
        /\ (\E ok \in BOOLEAN : Released(t, ok)) \/ Goto(t, "remove")
    BY <1>3 DEF Flush, Remove
  <2>2. pc'[t] \in Releasing \cup {"clear", "idle"}
    <3>1. CASE \E ok \in BOOLEAN : Released(t, ok)
      BY <1>0, <3>1, ReleasedFacts
    <3>2. CASE Goto(t, "remove")
      BY <1>0, <3>2 DEF Goto, RunTypes
    <3> QED
      BY <2>1, <3>1, <3>2
  <2>3. \A f \in Families : /\ chain'[f] = chain[f] \/ chain'[f] \in {"open", "absent"}
                            /\ chain[f] = "absent" => chain'[f] = "absent"
    BY <1>0, <2>1
  <2> QED
    BY <1>1, <2>1, <2>2, <2>3 DEF Blocked
<1> QED
  BY <1>1, <1>2, <1>3 DEF Blocked

\* Removing a rule keeps timer and file agreed: the rest is still covered.
LEMMA RemovalKeeps ==
    ASSUME TypeInv, Kept, NEW t \in Threads,
           \/ \E h \in Hooks : Unhook(t, h)
           \/ Flush(t) \/ Remove(t)
    PROVE  Kept'
<1>0. /\ Moves(t) /\ timer' = timer /\ file' = file
      /\ pc'[t] \in Releasing \cup {"clear", "idle"}
      /\ \A f \in Families : hook'[f] \subseteq hook[f] /\ (Blocked(f)' => Blocked(f))
      /\ \A f \in Families : chain[f] = "absent" => chain'[f] = "absent"
      /\ fam[P] \in Families
  BY RemovalFacts, FamilyFacts DEF planVars, TypeInv, TypeOK
<1>1. pc[t] \in Releasing
  BY HookSteps DEF Unhook, Flush, Remove, Releasing
<1>2. t = P \/ (pc'[P] = pc[P] /\ fam'[P] = fam[P] /\ clean'[P] = clean[P])
  BY <1>0, FamilyFacts DEF Moves
<1>3. PollerKnows'
  BY <1>0, <1>2 DEF Kept, PollerKnows, Releasing
<1>4. ASSUME NEW f \in Families, Covered(f), Blocked(f)' PROVE Covered(f)'
  <2>1. CASE Quarantining(f)
    BY <1>1, <1>2, <2>1 DEF Quarantining, Releasing, Covered
  <2>2. ASSUME NEW u \in Threads, Ending(u, f) PROVE Ending(u, f)'
    BY <1>0, <1>4, <2>2, EndingStays, EndingGoes
  <2> QED
    BY <1>4, <2>1, <2>2 DEF Covered
<1>5. Watched'
  <2> SUFFICES ASSUME file = "ok", ~timer, NEW f \in Families, Blocked(f)'
               PROVE  Covered(f)'
    BY <1>0 DEF Watched
  <2> QED
    BY <1>0, <1>4 DEF Kept, Watched
<1> QED
  BY <1>0, <1>3, <1>5 DEF Kept

\* The others keep what they cover while the poller works on another family.
LEMMA OthersEnd ==
    ASSUME TypeInv, Moves(P), pc[P] \notin Releasing, NEW f \in Families, hook'[f] = hook[f],
           \E t \in Threads : Ending(t, f)
    PROVE  \E t \in Threads : Ending(t, f)'
<1>1. PICK t \in Threads : Ending(t, f)
  OBVIOUS
<1>2. t # P
  BY <1>1 DEF Ending
<1> QED
  BY <1>1, <1>2, FamilyFacts, EndingStays

\* The poller gives up a family whose chain is gone.
LEMMA GivingUpKeeps ==
    ASSUME TypeInv, Kept, EnableFailed(P), UNCHANGED <<fwVars, planVars>>,
           chain[fam[P]] = "absent", pc[P] \in {"append", "hookOut"}
    PROVE  Kept'
<1>0. /\ RunTypes /\ P \in Threads /\ fam[P] \in Families
      /\ UNCHANGED <<chain, hook, timer, file>>
  BY RunFacts, FamilyFacts DEF RunTypes, fwVars, planVars
<1>1. /\ Moves(P)
      /\ fam[P] = "v4" => pc'[P] = "idle"
      /\ fam[P] # "v4" => pc'[P] = "unhookIn" /\ fam'[P] = "v4"
  BY <1>0, EnableFailedFacts
<1>2. PollerKnows'
  BY <1>1 DEF PollerKnows
<1>3. ASSUME NEW f \in Families, Blocked(f), Covered(f) PROVE Covered(f)'
  <2>1. CASE fam[P] # "v4"
    <3>1. Ending(P, f)'
      BY <1>1, <2>1, FamilyFacts DEF Ending, Releasing
    <3> QED
      BY <1>0, <3>1 DEF Covered
  <2>2. CASE fam[P] = "v4"
    <3>1. ~Quarantining(f)
      BY <1>3, <2>2 DEF Quarantining, Blocked
    <3> QED
      BY <1>0, <1>1, <1>3, <3>1, OthersEnd DEF Covered, Releasing
  <2> QED
    BY <2>1, <2>2
<1>4. Watched'
  BY <1>0, <1>3 DEF Kept, Watched, Blocked
<1> QED
  BY <1>0, <1>2, <1>4 DEF Kept

\* The poller builds the chain or its hooks.
LEMMA BuildingKeeps ==
    ASSUME TypeInv, Kept, Moves(P), UNCHANGED planVars, pc[P] \in Enabling,
           \A f \in Families : f # fam[P] => chain'[f] = chain[f] /\ hook'[f] = hook[f],
           pc'[P] \in {"append", "hookIn", "hookOut", "create", "write"},
           pc[P] # "arm" /\ pc[P] # "write",
           fam'[P] = fam[P] \/ (fam[P] = "v4" /\ fam'[P] = "v6"),
           \/ clean'[P]
           \/ pc'[P] = "hookOut" /\ fam'[P] = fam[P] /\ chain'[fam[P]] = "absent"
    PROVE  Kept'
<1>0. timer' = timer /\ file' = file /\ fam[P] \in Families
  BY FamilyFacts DEF planVars, TypeInv, TypeOK
<1>1. PollerKnows'
  BY <1>0 DEF PollerKnows
<1>2. ASSUME NEW f \in Families, Blocked(f)', file = "ok", ~timer PROVE Covered(f)'
  <2>1. CASE f = fam[P] \/ f = "v4"
    BY <2>1, FamilyFacts DEF Covered, Quarantining
  <2>2. CASE f # fam[P] /\ f # "v4"
    <3>1. Blocked(f)
      BY <1>2, <2>2 DEF Blocked
    <3>2. ~Quarantining(f)
      BY <2>2 DEF Quarantining
    <3>3. \E t \in Threads : Ending(t, f)
      BY <1>2, <3>1, <3>2 DEF Kept, Watched, Covered
    <3> QED
      BY <2>2, <3>3, OthersEnd DEF Covered, Releasing, Enabling
  <2> QED
    BY <2>1, <2>2
<1> QED
  BY <1>0, <1>1, <1>2 DEF Kept, Watched

\* The steps of quarantineEnable, as long as no call fails.
LEMMA EnableKeeps ==
    ASSUME TypeInv, Kept, NoFailure',
           \/ Create(P) \/ AppendRules(P) \/ CreateFails(P) \/ AppendFails(P)
           \/ \E h \in Hooks : Hook(P, h) \/ HookFails(P, h)
    PROVE  Kept'
<1> USE DEF Stages, Enabling
<1>0. /\ RunTypes /\ P \in Threads /\ P \notin Autos /\ fam[P] \in Families
      /\ chain \in [Families -> {"absent", "open", "drop"}]
      /\ hook \in [Families -> SUBSET Hooks]
      /\ ~Fault
  BY RunFacts, FamilyFacts, FaultFacts DEF TypeInv, TypeOK, NoFailure
<1>1. CASE Create(P) \/ AppendRules(P)
  <2>1. /\ \E x \in {"open", "drop"} : chain' = [chain EXCEPT ![fam[P]] = x]
        /\ UNCHANGED <<hook, planVars, op, fam, clean>>
        /\ pc[P] \in {"create", "append"}
        /\ Goto(P, "append") \/ Goto(P, "hookIn")
    BY <1>1 DEF Create, AppendRules
  <2>2. /\ Moves(P) /\ pc'[P] \in {"append", "hookIn"}
        /\ fam'[P] = fam[P] /\ clean'[P] = clean[P]
    BY <1>0, <2>1, GotoFacts
  <2>3. clean[P] /\ \A f \in Families : f # fam[P] => chain'[f] = chain[f]
    BY <1>0, <2>1 DEF Kept, PollerKnows
  <2> QED
    BY <2>1, <2>2, <2>3, BuildingKeeps
<1>2. CASE CreateFails(P) \/ AppendFails(P)
  <2>1. /\ EnableFailed(P) /\ UNCHANGED <<fwVars, planVars>>
        /\ pc[P] = "append" /\ chain[fam[P]] = "absent"
    BY <1>0, <1>2 DEF CreateFails, AppendFails, fwVars
  <2> QED
    BY <2>1, GivingUpKeeps
<1>3. ASSUME NEW h \in Hooks, Hook(P, h) PROVE Kept'
  <2>1. /\ pc[P] = HookAt[h] /\ chain[fam[P]] # "absent"
        /\ hook' = [hook EXCEPT ![fam[P]] = hook[fam[P]] \cup {h}]
        /\ Hooked(P, h, TRUE)
        /\ UNCHANGED <<chain, planVars>>
    BY <1>3 DEF Hook
  <2>2. clean[P] /\ pc[P] \in {"hookIn", "hookOut"}
    BY <2>1, HookSteps DEF Kept, PollerKnows
  <2>3. /\ Moves(P) /\ clean'[P]
        /\ pc'[P] \in {"hookOut", "create", "write"}
        /\ fam'[P] = fam[P] \/ (fam[P] = "v4" /\ fam'[P] = "v6")
    BY <1>0, <2>1, <2>2, HookSteps, HookedFacts
  <2>4. \A f \in Families : f # fam[P] => hook'[f] = hook[f]
    BY <1>0, <2>1
  <2> QED
    BY <2>1, <2>2, <2>3, <2>4, BuildingKeeps
<1>4. ASSUME NEW h \in Hooks, HookFails(P, h) PROVE Kept'
  <2>1. /\ pc[P] = HookAt[h] /\ chain[fam[P]] = "absent"
        /\ Hooked(P, h, FALSE)
        /\ UNCHANGED <<fwVars, planVars>>
    BY <1>0, <1>4 DEF HookFails
  <2>2. CASE h = "OUTPUT"
    <3>1. EnableFailed(P) /\ pc[P] = "hookOut"
      BY <1>0, <2>1, <2>2, HookSteps, HookedFacts
    <3> QED
      BY <2>1, <3>1, GivingUpKeeps
  <2>3. CASE h = "INPUT"
    <3>1. /\ Moves(P) /\ pc'[P] = "hookOut" /\ fam'[P] = fam[P] /\ pc[P] = "hookIn"
      BY <1>0, <2>1, <2>3, HookSteps, HookedFacts
    <3>2. UNCHANGED <<chain, hook>>
      BY <2>1 DEF fwVars
    <3> QED
      BY <2>1, <3>1, <3>2, BuildingKeeps
  <2> QED
    BY <2>2, <2>3, HookSteps
<1> QED
  BY <1>1, <1>2, <1>3, <1>4

\* The deadline is written, armed or cleared.
LEMMA DeadlineKeeps ==
    ASSUME TypeInv, Kept, NEW t \in Threads,
           WriteDeadline(t) \/ ArmDeadline(t) \/ ClearDeadline(t)
    PROVE  Kept'
<1> USE DEF Stages, Enabling
<1>0. RunTypes /\ P \in Threads /\ (pc[t] \in Enabling => t = P)
  BY RunFacts, FamilyFacts DEF TypeInv
<1>1. CASE WriteDeadline(t)
  <2>1. t = P /\ Goto(P, "arm") /\ ~timer' /\ file' = "torn"
    BY <1>0, <1>1 DEF WriteDeadline
  <2>2. pc'[P] = "arm"
    BY <1>0, <2>1 DEF Goto, RunTypes
  <2> QED
    BY <2>1, <2>2 DEF Kept, PollerKnows, Watched
<1>2. CASE ArmDeadline(t)
  <2>1. t = P /\ Goto(P, "idle") /\ timer' /\ file' = "ok"
    BY <1>0, <1>2 DEF ArmDeadline
  <2>2. pc'[P] = "idle"
    BY <1>0, <2>1 DEF Goto, RunTypes
  <2> QED
    BY <2>1, <2>2 DEF Kept, PollerKnows, Watched
<1>3. CASE ClearDeadline(t)
  <2>1. /\ Goto(t, "idle") /\ ~timer' /\ file' = "none" /\ pc[P] # "arm"
        /\ UNCHANGED <<chain, fam, clean>>
    BY <1>0, <1>3 DEF ClearDeadline, fwVars
  <2>2. pc'[P] = pc[P] \/ pc'[P] = "idle"
    BY <1>0, <2>1 DEF Goto, RunTypes
  <2> QED
    BY <2>1, <2>2 DEF Kept, PollerKnows, Watched
<1> QED
  BY <1>1, <1>2, <1>3

\* A command begins, or the timer fires: the goroutine it starts will end the
\* quarantine of every family.
LEMMA StartKeeps ==
    ASSUME TypeInv, Kept, EnableCommand \/ ReleaseCommand \/ \E a \in Autos : Fire(a)
    PROVE  Kept'
<1>1. UNCHANGED <<chain, hook, file>>
  BY StartTypes
<1>2. PICK t \in Threads :
        /\ Moves(t) /\ pc[t] = "idle" /\ fam'[t] = "v4" /\ clean'[t]
        /\ \/ t = P /\ pc'[t] \in {"create", "unhookIn"} /\ UNCHANGED timer
           \/ t # P /\ pc'[t] = "unhookIn" /\ ~timer'
  BY StartTypes
<1>3. CASE t = P
  <2>1. PollerKnows' /\ UNCHANGED timer
    BY <1>2, <1>3 DEF PollerKnows
  <2>2. ASSUME NEW f \in Families, Covered(f) PROVE Covered(f)'
    <3>1. ~Quarantining(f)
      BY <1>2, <1>3 DEF Quarantining
    <3>2. \E u \in Threads : Ending(u, f)
      BY <2>2, <3>1 DEF Covered
    <3> QED
      BY <1>1, <1>2, <1>3, <3>2, OthersEnd DEF Covered, Releasing
  <2> QED
    BY <1>1, <2>1, <2>2 DEF Kept, Watched, Blocked
<1>4. CASE t # P
  <2>1. \A f \in Families : Ending(t, f)'
    BY <1>2, <1>4, FamilyFacts DEF Ending, Releasing
  <2>2. pc'[P] = pc[P] /\ fam'[P] = fam[P] /\ clean'[P] = clean[P]
    BY <1>2, <1>4, FamilyFacts DEF Moves
  <2> QED
    BY <1>1, <1>2, <1>4, <2>1, <2>2 DEF Kept, PollerKnows, Watched, Covered
<1> QED
  BY <1>3, <1>4

LEMMA KeptStep == KeptInv /\ [Next]_vars => KeptInv'
<1> SUFFICES ASSUME KeptInv, [Next]_vars, NoFailure' PROVE Kept'
  BY TypeStep DEF KeptInv
<1>0. TypeInv /\ RunTypes /\ P \in Threads
  BY RunFacts, FamilyFacts DEF KeptInv
<1>1. ~Fault /\ ~ProbeFault
  BY <1>0, FaultFacts DEF NoFailure
<1>2. NoFailure
  <2>1. CASE Crash
    BY <2>1 DEF Crash, NoFailure
  <2>2. CASE EnableCommand \/ ReleaseCommand \/ \E a \in Autos : Fire(a)
    BY <1>0, <2>2, StartTypes DEF NoFailure
  <2>3. CASE UNCHANGED vars
    BY <2>3 DEF vars, boundVars, NoFailure
  <2>4. ASSUME NEW t \in Threads, Call(t) \/ CallFails(t) PROVE NoFailure
    <3>1. UNCHANGED boundVars
      BY <1>1, <2>4
         DEF Call, CallFails, Create, AppendRules, WriteDeadline, ArmDeadline, Flush, Remove,
             ClearDeadline, Hook, Unhook, CreateFails, AppendFails, FlushFails, RemoveFails,
             HookFails, UnhookFails, Unavailable, DeadlineUnsaved
    <3> QED
      BY <3>1 DEF boundVars, NoFailure
  <2> QED
    BY <2>1, <2>2, <2>3, <2>4 DEF Next, Idle
<1>3. Kept
  BY <1>2 DEF KeptInv
<1>4. ASSUME NEW t \in Threads, Call(t) \/ CallFails(t) PROVE Kept'
  <2>1. CASE (\E h \in Hooks : Unhook(t, h)) \/ Flush(t) \/ Remove(t)
    BY <1>0, <1>3, <2>1, RemovalKeeps
  <2>2. CASE WriteDeadline(t) \/ ArmDeadline(t) \/ ClearDeadline(t)
    BY <1>0, <1>3, <2>2, DeadlineKeeps
  <2>3. CASE \/ Create(t) \/ AppendRules(t) \/ CreateFails(t) \/ AppendFails(t)
             \/ \E h \in Hooks : Hook(t, h) \/ HookFails(t, h)
    <3>1. t = P
      BY <1>0, <2>3, FamilyFacts, HookSteps
         DEF Create, AppendRules, CreateFails, AppendFails, Hook, HookFails, TypeInv, Enabling
    <3> QED
      BY <1>0, <1>3, <2>3, <3>1, EnableKeeps
  <2> QED
    BY <1>1, <1>4, <2>1, <2>2, <2>3
       DEF Call, CallFails, FlushFails, RemoveFails, UnhookFails, Unavailable, DeadlineUnsaved
<1>5. CASE EnableCommand \/ ReleaseCommand \/ \E a \in Autos : Fire(a)
  BY <1>0, <1>3, <1>5, StartKeeps
<1>6. CASE Crash
  <2>1. pc'[P] = "idle" /\ timer' = (file = "ok") /\ (file' = "ok" => file = "ok")
        /\ (file = "ok" => file' = "ok")
    BY <1>0, <1>6 DEF Crash, Resume
  <2> QED
    BY <2>1 DEF Kept, PollerKnows, Watched
<1>7. CASE UNCHANGED vars
  BY <1>3, <1>7 DEF vars, fwVars, planVars, runVars, Kept, PollerKnows, Watched, Blocked,
     Covered, Quarantining, Ending
<1> QED
  BY <1>4, <1>5, <1>6, <1>7 DEF Next, Idle

\* armQuarantineDeadline, clearQuarantineDeadline and ResumeQuarantineDeadline
\* keep the timer and the file agreed over crashes, commands and expiring
\* deadlines, as long as no call fails: an armed timer has its file, and a
\* deadline on disk whose quarantine nobody works on has its timer.
THEOREM DeadlinesAreKept == Spec => []DeadlineInv
<1>1. Init => KeptInv
  <2> SUFFICES ASSUME Init PROVE KeptInv
    OBVIOUS
  <2>1. pc[P] = "idle" /\ ~timer /\ file = "none"
    BY FamilyFacts DEF Init
  <2> QED
    BY <2>1, TypeInit DEF KeptInv, Kept, PollerKnows, Watched
<1>2. KeptInv => DeadlineInv
  <2> SUFFICES ASSUME KeptInv, NoFailure PROVE DeadlineKept
    BY DEF KeptInv, TypeInv, DeadlineInv, DeadlineKept
  <2>1. Quiet => \A f \in Families : ~Covered(f)
    BY FamilyFacts DEF Quiet, Covered, Quarantining, Ending, Releasing
  <2> QED
    BY <2>1 DEF KeptInv, Kept, Watched, DeadlineKept
<1> QED
  BY <1>1, <1>2, KeptStep, PTL DEF Spec
=============================================================================
