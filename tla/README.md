# Verification of DevicePulse

TLA+ models of the protocols of DevicePulse, with the TLC configurations that
check them on small instances and proofs that TLAPS checks for every instance.
Paths are relative to the root of the repository (`src/` here).

## The system

| Part | State | Operations | Talks to |
|---|---|---|---|
| Agent, root service (`agent/main.go`) | session id, sequence, credentials, policy | collection loop, sync engine, command poller, policy poller, update checks | queue, API |
| Agent, window service (`runWindowOnlyMode`) | the same, in a process of the logged-in user | collection loop for the active window, command poller when it can read the credentials | queue, API |
| Queue (`agent/queue`) | SQLite table of payloads, shared by both processes | Push, Prune, PopBatch, MarkSent | - |
| Commander (`agent/commander`) | key, wake-up channel, quarantine timer and file, firewall rules | poll, execute, report; restart, lock, quarantine, wipe | API, host |
| Active window tracker (`agent/collector/active_window*.go`) | open session, closed sessions, totals | sample, observe, Collect | desktop, collection loop |
| Browser history (`agent/collector/browser_history.go`) | scan cache, sent entries, pending entries, state file | Collect under a guard, Commit | browser databases, collection loop |
| Registration (`registerDeviceWithCache`, `registerHandler`) | registration.json; the device row with the hash of the key | register, recover, rotate, revoke, delete, reinstate | - |
| Ingest (`ingestHandler`) | telemetry collection, device row, lease, S3 archives, usage rows, focus cache | authenticate, deduplicate, archive, insert, upsert | MongoDB, S3 |
| Commands, API side | device_commands, badge on the device row | create, claim, record the result, expire | MongoDB |
| Policy and retention | policy in memory and in MongoDB; expiry of documents, age of objects | merge, normalise, save, load, sweep | MongoDB, S3 |
| Accounts | users, token epochs, bootstrap lock, failed logins | bootstrap, login, roles, deactivation, revocation of sessions | MongoDB |
| Releases and updates | build jobs, release rows, objects, rollout marks; the binary | build, publish, activate, sign, roll out, check, download, swap | MongoDB, S3 |
| Dashboard | - | issues commands, shows state | API |

What is hard here: two agent processes share a queue and a device identity; the
API goes on with a request after its client has given up, so two handlers work
on one payload; acknowledgements decide when data is deleted; keys rotate while
requests are under way; commands are claimed by whoever comes first and are
reported once, without a retry; restart and wipe end the process that is
reporting; the quarantine rules outlive the process, the timer does not; a
handler counts, checks or reads in one database call and writes in another;
objects in S3 are merged under an ETag; a collector that timed out goes on in
the background; a binary is replaced while it runs. The `hazards` in
PROJECT.json name the most important of these at their lines; the others are
under "Disagreements" and "What is abstracted" below.

What makes the parts correct:

- delivery: no payload vanishes without a reason the code names, none is stored
  twice, the device row shows only what is stored, the queue drains, the caps
  cost the oldest rows;
- commands: executed at most once, results are true, none overtakes an older
  one, neither in being claimed nor in its effect on the host, and a poller
  whose key was rotated away finds the new one;
- quarantine: a release that is reported is one, a deadline survives crashes
  and is honoured, the poller never hangs;
- focus and activity: an application gets exactly the time it was seen, once,
  from the sampler to the report;
- browser history: no visit is taken for sent that was not, none is sent twice
  without need, every one is shown;
- identity: one machine, one device; what was deleted stays deleted; a machine
  is not locked out by a crash;
- accounts: no session outlives what it was given for, an administrator remains;
- updates: only released binaries run, a machine stays bootable, nobody is
  left behind or taken back unasked;
- retention: what is listed can be read, what is too old goes, an accepted
  policy survives.

## The modules

**`Delivery`** models the queue, the collection loops as far as they push, the
sync engine and `ingestHandler`. A payload is its row id (AUTOINCREMENT does
not reuse one); `log[i]` keeps its process, its event id, its size and its
time. The collection loops are `Push`, `PushFails` and `Restart`; the sync
engine is `Poll`, `DropOversized`, `Upload`, `Receive`, `Reregister...`,
`EndBatch`, `MarkSent`, with `pc` as its place in the loop. The API works on
requests in `Slots`, one action per database call (`Auth`, `Preflight`,
`ClaimLease`, `Archive`, `Insert`, `Upsert`), so that handlers interleave at
the calls; `client[s]` says whether the sync engine still waits. A payload of a
size in `Unstorable` stands for a document that the database refuses at every
attempt (`Refused`); an item that fails stays queued and the engine goes on with
the next (`SkipItem`). Failures are `UploadFails`, `LoseReply`, `HandlerFails`,
`InsertUnsure` (the insert commits and reports an error), `ClaimLeaseFails`,
`ReregisterFails`, `MarkSentFails`, `ApiRestart`, the key rotated by another
installation (`KeyRotated`) and a deletion of the device that fails after its
revocation (`DeleteFails`). `pruned` and `rejected` are history variables for
the payloads given up on purpose.

**`Ledger`** is what `Delivery` promises: a payload is pending until it is
stored, once, or lost for good. `Delivery` implements it (`ImplementsLedger`)
with the queue, the batch and the requests under way as what is pending.

**`Commands`** models the commands of one device. A create handler stamps the
command (`Stamp`), inserts it and updates the device row (`Insert`, `Badge`), so
that of two handlers at once the later stamp may be inserted first; commands are
numbered by their stamps. A registration of the root service is `Register` at
the API, `Adopt` when the answer arrives and `Save` when registration.json is
written, with `LoseRegistration` and `SaveFails` where it can break off;
`RotatedElsewhere` is another installation that takes the row over. A poller
that is refused looks for a key in the cache (`ReloadKey`), which in the root
service does not happen: there the sync engine registers. `Poll`, `Claim`,
`Answer`, `Execute`, `Report` and `Done` are one turn of `fetchAndExecute` with
the claim loop of `commandsPendingHandler` inside, `Effect` what the result
handler does to the device row after it has recorded the result, `TTLRemove` the
TTL index. A claim whose poller is gone goes on as an orphan. `RestartProcess`
and `RunWipe` are the goroutines that `Execute` starts. The processes are those
of the Linux packages: the wipe, which runs as a system service, does not reach
the window service, a user unit. Only the root service can change the firewall;
in the window service an enable fails and a release finds nothing to remove.
`executed`, `outcome`, `collected`, `applied` (the quarantine commands that the
root service has carried out) and `missed` (the older commands that were stamped
and not yet inserted when a command was claimed) are history variables.

**`Quarantine`** models the quarantine of a Linux host, each iptables call on
its own: `Create`, `AppendRules`, `Hook` per builtin chain and address family,
then `WriteDeadline` and `ArmDeadline`; `Unhook`, `Flush`, `Remove` and
`ClearDeadline` for a release; `Fire` for the timer and `Crash` with `Resume`
for a restart or a reboot. Calls that change something (`MaxFaults`) and calls
that only look (`MaxProbes`) fail separately, because the code treats them
differently. Deadlines are not timed: an armed timer may fire at any moment,
which includes the moment the code chooses. `stale` (goroutines whose deadline
was replaced while they were at work) and `lapsed` (a quarantine has been left
without its deadline) are history variables.

**`Enrollment`** models identity. A machine has a hardware id and a network
address (`HW`, `MAC`), an agent with its credentials in memory and in
registration.json, and API requests in `Slots`: a registration is
`CheckRegister`, `FindRegister` (recovery by fingerprint), `RecheckRegister`,
then a rotation or `InsertDevice` with `ResolveRace` for the duplicate key; an
upload is `AuthIngest`, `CheckIngest` and `StoreIngest`, which writes store by
store; a deletion is `BeginDelete`, `RemoveDevice` and `PurgeDevice`, store by
store in the order of the handler. Each database call can fail
(`FindFails`, `CheckFails`, `HandlerFails`), the agent can die, be reinstalled
or fail to write its cache.

**`Sessions`** holds the pure operators on focus sessions (normalising,
merging, summing, presence windows, clipping, capping), written as definitions
over sequences and checked through **`Activity`**: two ingests that read, merge
and write the daily object under an ETag condition (`Archive` and its lost,
echoed and refused forms), the insert of the document (`InsertTelemetry`, and
`InsertUnsure` when it commits and reports an error), the usage row, the
goroutine that feeds the focus cache and the rebuild of the cache at a start.

**`BrowserHistory`** models one profile from the visit to the archive: the scan
with its cache, `Collect` under the guard of `collectGuarded` (which may give
up on it while it goes on), the policy on both sides, push, `Commit` with the
limited memory of sent entries, the archive by day and its reader.

**`Accounts`** models the users collection with two requests at once, one
action per database call: bootstrap with its lock document, login with the
throttle of failed attempts, and the administrative handlers as load, count,
write. A token carries the epoch of its account; `pw` and `cut` in it are
history: the password it was earned with and the number of events that should
have ended it.

**`Updates`** models releases and updates: build jobs under `agentBuildMu`,
release rows, the S3 object that all builds of a version share, activation,
signatures, rollout and rollback; on the device two checks at once (poller and
one started by an upload), download, checksum, signature, and the swap: one
rename on Unix, two with a rollback on Windows. Versions are compared by
`compareAgentVersions` on their parsed parts.

**`Retention`** models the policy (merge, normalise, save by a goroutine per
change, load at the start), the ingest as far as it stamps, archives, slims or
snapshots a document, the expiry of documents, the sweep of objects, and the
history handler as the reader that needs both.

**`ActiveWindow`** models the tracker: ticks in a channel of one, a sampler
that asks the desktop under a timeout, `observe` and `endSession` on a record of
the tracker, `Collect` at any moment. A time has two readings, as in Go: the
monotonic clock, of which differences are taken and which stands still while a
Linux host sleeps, and the wall clock, which is uploaded.

`MC...` modules are instantiated by the runs; they hold model values and the
inputs of an instance. The theorems about `Delivery`, `Accounts`, `Enrollment`,
`BrowserHistory`, `Updates` and `Retention` are in the module's `..._proofs`;
`Poller_proofs` has those about `Commands` and `Quarantine`, which one loop of
the agent works on, and `Activity_proofs` those about `Activity` and
`ActiveWindow`, the two ends of focus time. Each of these two extends both of
its modules, which is why `Commands` and `ActiveWindow` have names of their own
for what every module has (`CommandsSpec`, `WindowSpec`, `WindowTypeOK`, ...).
Operators whose comment starts with "Mutant" (or says the same in parentheses)
are wrong on purpose: each is a plausible mistake in one definition, and shows
that the property it belongs to would notice.

## The runs

Passing:

| Run | Checks | Bounds | What it shows |
|---|---|---|---|
| delivery_retries | NoSilentLoss, StoredOnce, ShownIsStored, ImplementsLedger, PruneKeepsNewest, EveryRowLeaves | 2 collectors, 2 requests at once, batches of 2, 3 sizes, one of them refused and one oversized; 2 rows with 1 failure, or 3 rows of which 1 is refused for ever | retries beside a request still at work, crashes at every point, pruning during uploads; the queue drains, also behind a row that always fails |
| commands_claim | ClaimInv, ExecutedOnce, ResultTruthful, NoOvertaking, PollersRecover | 2 processes, 2 commands of 5 types, 1 failure; after a key rotation a second failure and 1 command | concurrent and abandoned claims, overlapping creations, expiry, commands claimed and carried out in order; a poller finds the new key over lost answers and failed cache writes |
| quarantine_overlap | ReleaseRestores, DeadlineInv | both address families, 2 enables, 2 releases, 2 failing changes, 1 crash, 2 timers under way | a reported release is one, timer and file agree |
| quarantine_progress | DeadlineHonoured, PollerReturns | IPv4 only, 2 enables, 1 release, 2 timers under way, one failure of each kind, 2 crashes | a deadline on disk ends the quarantine, the poller never hangs |
| enrollment_identity | IdentityInv, DeletedIsGone, MachineRecovers | 2 machines with one network address, 1 of them with an agent, 2 requests, 2 operations, 1 failure | identity, deletion and recovery under interleaved handlers and crashes |
| activity_archive | ArchiveInv, DayInv, ReportInv, FocusInv | 3 payloads chosen to overlap, repeat, cross midnight, belong to several applications and wait in the queue; 4 uploads, 2 at once, 2 attempts, 1 failure | no session lost, none invented for any application, totals and reports within what was sent |
| browser_sync | SentInv, AgainOnlyIfForgotten, ArchiveCovers, VisitsShown | 1 page, 3 visits over 2 days, 3 policies with 1 change, batches of 2, 1 failure | the cursor of the collector and the archive agree |
| accounts_access | SessionInv, AdminRemains, GuessesBounded, BootstrapExclusive | 2 users, 2 passwords, 2 roles, 2 requests at once, 3 operations, 1 failure | sessions, the last administrator, the throttle, the bootstrap |
| updates_rollout | ReleaseInv, NoSurpriseDowngrade, Bootable, CatchesUp | 3 versions with a prerelease, 1 device with a key, on Windows or Unix, 2 builds, 2 operations, 1 failure | releases, downgrades, the swap, progress |
| retention_sweep | HistoryInv, PolicySurvives, SnapshotRegular, SweptEventually | 2 events of one device, 3 requests, retention 1 to 4 around a floor of 2, 4 points of time, 1 failure | stamp, expiry, cutoff and history agree; a policy survives |
| active_window | CreditInv, TotalsAgree | 2 applications, 5 ticks, gaps over 1 tick, staleness at 2, 1 suspension, 1 failure | the accounting of focus time |

An invariant called `...Inv` is a conjunction of named parts: the first one of
each module is its type invariant `TypeOK` with its first safety property
(`IdentityInv`: `IdentityStable`; `ArchiveInv`: `SessionsKept`; `SentInv`:
`NothingSkipped`; `SessionInv`: `SessionsEarned`; `ReleaseInv`: `OnlyReleased`;
`HistoryInv`: `HistoryReadable`; `DeadlineInv`: `DeadlineKept`; `CreditInv`:
`CreditedIsSeen`, `SeenIsCredited` and `QualityOfSample`). In `Activity`,
`DayInv` is `DayIsOrdered` and `NoPhantomTime`, `ReportInv` is
`RowsWithinArchive` and `ReportWithinOnline`, `FocusInv` is `FocusCountedOnce`
and `FocusComplete`. The type invariants of `Delivery` and `Commands` and the
inductive invariant of `Delivery` are proved, so the runs do not repeat them.

Two of everything is enough for the conflicts at issue: two handlers on one
payload or object, two processes at one claim, a command beside an expiring
deadline, two checks of one device. One failure is placed at every call in
turn; `quarantine_overlap` has two, so that one can hit the recovery of the
other. All the safety properties are proved for every bound as well (see "The
proofs"): for them the run is the check that the property says something about
an instance; the liveness properties rest on the runs. The action constraints
restrict what the administrator issues, when the clock ticks and which failures
occur together, never a step that fairness speaks of: in `commands_claim` `Menu`
names the stories (isolate and release, restart and wipe, collect), `Expiry` lets
time pass only in the first of them and without another failure, and `Rekeyed`
lets a second failure follow a change of the key when there is one command at
most; in `delivery_retries` `Scenarios` gives the third row, and the refused one,
to a history without failures. In the latter the batch is smaller than the queue
and a refused row at the head of it, which is what could starve the others.
`quarantine_progress` was also checked once with both address families, two
enables, one crash and no failing call. In `retention_sweep` uploads and
policy changes share one bound. In `browser_sync` the memory of sent entries is
as large as the number of visits (see `OnlyNewEntries` below for a smaller one).

Slots are symmetric in `accounts_access` and `activity_archive`, which check no
liveness. Deadlock is not checked where the system really may stop: a wiped
host (`commands_claim`), or a bounded number of uploads, visits or operations
after which nothing is left to do.

`ReleaseRestores` speaks of releases in which no query failed, `DeadlineKept`
and `DeadlineHonoured` of histories in which no iptables call and no write of
the deadline failed. `DeadlineHonoured` ends with `lapsed`, which is set in two
moments: a release by the goroutine of an older deadline clears the deadline
that has replaced it (`quarantine_timer.go:68-74`, the race of
`quarantine_race`), and a crash comes between new rules, or the rollback of half
of them, and the deadline on disk. `EveryRowLeaves` exempts a row that is
refused for ever, and everything when such rows fill a batch (`Stuck`):
`PopBatch` (`main.go:652`) returns the newest 50, and if all of them fail at
every attempt nothing else is uploaded until they are pruned. Other properties
carry an exemption too, each through a history variable that is set at exactly
the moment the code gives up: `raced` (two overlapping counts of administrators;
in `Activity`, a payload stored while the rebuild began), `plain` (a write
without its ETag condition), `mess` and `open` (a deletion that failed, that met
an upload under way, or whose block could not be read), `stray` and `forgotten`
(entries of an abandoned Collect; entries no longer remembered), `lost` (a
reboot between two renames), `doubt` (saves of the policy that overlapped,
failed or were cut off), `wasted` (a snapshot marked and not stored), `missed`
(a command inserted after a newer one had been claimed, by a handler that runs
beside that of the newer one), `unsure` (an upload whose insert was committed
and answered with an error: its retry is a duplicate, so no goroutine adds its
focus time; the next rebuild does). `PollersRecover` exempts a wiped or revoked
device, and for the window service a key that the root service adopted and could
not save, and a start while there was no cache (it does not poll then).

Violated: `quarantine_race` checks `QuarantineHasDeadline`. An expiring
deadline clears the deadline of the next quarantine; `findings` quotes the
comment.

### Disagreements the models show

Each of these properties states a sentence of the repository and is violated.
To see the counterexample, put the property in the place of the others in the
configuration named here.

| Property | Configuration | The sentence, and what happens |
|---|---|---|
| Delivery `RejectedOnlyForAnother` (PROPERTY) | Delivery_retries | "another active-window collector is live" (`api/main.go:4340`): a database error in the lease claim drops the payload with the same answer |
| Commands `BadgeTracksHost` | Commands_claim | "Track quarantine state on the device doc so the dashboard can badge it" (`api/main.go:3239`): a quarantine the host could not apply stays on the badge |
| Commands `ReleaseFrees` | Commands_claim | "quarantine rules removed, full connectivity restored" (`quarantine_linux.go:148`): the window service may claim the release; it is not root, takes a chain it cannot list for one that is not there, and reports the success. It also removes the file of the deadline (the directory is world-writable, `packaging/linux/build_deb.sh:103`), so a restart of the agent no longer knows of one |
| Commands `CollectNowCollects` | Commands_claim | the window service takes a collect_now, reports success and collects nothing |
| Enrollment `BlockHolds` | Enrollment_identity | "A still-running agent on that machine cannot re-register" (`README.md:109`): the revocation of a device that shares an identifier is overwritten, or cannot be read |
| Activity `SessionsAlwaysKept` | Activity_archive | "IfMatch/IfNoneMatch turns that into a retry" (`api/main.go:611`): an error without a code is followed by an unconditional write |
| BrowserHistory `OnlyNewEntries` | BrowserHistory_sync, also with SentLimit = 2 and MaxFaults = 0 | "Only entries the agent has not sent before are archived" (`api/main.go:2041`): entries beyond the limit of the memory are sent again every cycle |
| Accounts `BootstrapOnce` | Accounts_access | "Once any dashboard user exists, only an existing admin can create users" (`api/main.go:3633`): the users are counted before the lock is taken, so a second request founds a second account |
| Updates `OnlyRollbackDowngrades` | Updates_rollout | "marks older matching devices" (`api/main.go:6094`), "No agent downgrades" (`README.md:423`): the filter is "another version", so a rollout takes newer devices back |
| Updates `OnlyRequestedDowngrades` | Updates_rollout with SPECIFICATION Spec, a `FirstVersion` in the middle, requireActivation = FALSE, MaxBuilds = 2, MaxOps = 2, MaxFaults = 0 | "reports whether a rollout explicitly requested this version for the device" (`api/main.go:5822`): `markAgentUpdateStatus` (5840) overwrites the target with the version it offers and leaves the mark of the rollout, so after an offer that was not installed and a newer package installed by hand the device is taken down to a version no rollout requested |
| Retention `SnapshotStored` | Retention_sweep | "plus one full snapshot per device and collector role" (`api/telemetry_slim.go:20`): a snapshot that is marked and fails to be inserted is not made up for |
| ActiveWindow `SleepNotCredited` | ActiveWindow_focus | "that time must not be credited to an app" (`active_window.go:36`): there is no gap on the monotonic clock, and the wall-clock end of the session, which the API uses, lies after the sleep |
| ActiveWindow `QualityOfSample` | ActiveWindow_focus with Display = "bare" | "NOT the focused window" (`active_window.go:43`): a guess made for the session of another user is reported as accurate |

The models also reach these states, which other comments of the repository
exclude:

- A backlog is uploaded newest first and every payload overwrites the device
  row, so the row ends with the oldest (`api/main.go:4404`, "Upsert latest
  device state").
- The goroutine of a wipe or a restart starts before the result is posted and
  may overtake it (`commander.go:166`, "AFTER their result has been posted").
- A command claimed in time runs after its expiry when the answer or an earlier
  command takes long (`api/main.go:7159`, "stale instructions never execute
  late").
- An agent that dies between the rules of a quarantine and the file of their
  deadline leaves the host isolated with no deadline
  (`quarantine_timer.go:14`, "every quarantine carries a deadline").
- Fifty of the newest rows that the API refuses at every attempt keep all the
  others in the queue (`main.go:648`, "drains the local SQLite queue").
- An expiring deadline interleaved with an enable leaves one address family
  isolated and the other open (`quarantine_linux.go:31`, "never left
  half-isolated").
- A `--version`, `-C` or `-L` that fails makes a release skip what it should
  remove and still report "full connectivity restored"
  (`quarantine_linux.go:121` and `:148`).
- Two administrators who demote each other at the same moment leave none
  (`api/main.go:4002`, "at least one active admin must remain").
- A retention that is lowered sweeps objects of documents that were stored
  under the longer one; the history of the device is then an error as a whole
  until they expire. The sweep itself is at odds with `README.md:96`, "S3
  retention is intentionally left to bucket lifecycle rules".
- An update check under way clears the request of a rollback made meanwhile
  (`api/main.go:5840`).

**Fairness.** The sync engine is an endless loop and a handler has a deadline of
its own, so `Delivery` assumes weak fairness of the engine's steps and of each
handler; nothing is assumed of pushes, of the clock or of failures, which the
bound ends. `Commands` assumes weak fairness of each poller, an endless loop
too, and of `Enroll`: the root service has something to upload in every cycle,
and every 401 makes the sync engine register again. `Quarantine` assumes that a
goroutine that has started goes on, whether its calls succeed or fail, and that
an armed timer fires. `Enrollment` assumes that handlers end and that a running
agent goes on trying (`registerUntilSuccess`); `BrowserHistory` that the
collection loop, the sync engine and the handler go on; `Updates` that a build
that was started is worked off, that the poller asks and that a check goes on;
`Retention` that the goroutine of the sweep runs. Restarts, administrators and
failures are never fair. `EveryRowLeaves` exempts revoked devices, whose
payloads the API refuses, `PollersRecover` hosts that are wiped or revoked,
`MachineRecovers` machines that are blocked or wiped.

## The proofs

Each theorem `Spec => []P` holds for every value of the constants that the
`ASSUME` of the module admits: any number of devices, requests, rows, commands,
operations and failures. The assumptions say little more than the type of each
constant; what they say beyond it is given below. Each proof module has an
inductive invariant in named parts, one lemma per part and group of actions
that can disturb it, and theorems that combine them.

**`Delivery_proofs`**: `TypeCorrect`; `NothingLostSilently` (`NoSilentLoss`) and
`NothingStoredTwice` (`StoredOnce`), from `DeliveryInvariant`;
`DeviceRowIsBacked` (`ShownIsStored`); `DeliveryImplementsLedger`;
`PruneSparesTheNewest` (`PruneKeepsNewest`).
`NoSilentLoss` is not inductive: `MarkSent` deletes what is in `sentIDs`, so
one has to know that every id in there is accounted for (`Acked`); it got there
by a 200, so a 200 must mean the same (`Answered`); a 200 for a duplicate rests
on a lookup by event id, so two payloads must not share one (`Distinct`); and
that holds because every event id lies behind the counters of the process that
made it (`Fresh`), over restarts thanks to the new session id. `DeliveryInv` is
the conjunction. With it every step of `Delivery` maps to a step of `Ledger` or
a stutter: what is on the way only shrinks except by a push (`Carries`), and
what leaves the way without being stored is what the ledger lets go.
`PruneKeepsNewest` compares two prefixes of the queue by the sum of their
sizes. It needs that rows lie in the order of their times (`LogOrdered`), and
that a part of a set of rows has no larger sum than the whole (`TotalPart`).
The sum is a recursive function; its lemmas are proved by taking a smallest
counterexample under the strict subset ordering, which is well-founded on
finite sets.

**`Poller_proofs`**, on the commands: `CommandTypesCorrect`; `ClaimInvariant`
(`ClaimInv`), `NothingExecutedTwice` (`ExecutedOnce`) and `ResultsAreTruthful`
(`ResultTruthful`); `NothingOvertaken` (`NoOvertaking`). The inductive invariant
`ClaimInv` says that a command which is pending is in nobody's hands and not
executed (`Unclaimed`), that no two processes hold the same one (`Exclusive`),
that what a process holds it has not executed (`Unexecuted`) and that a report
is about an executed command (`Executing`). The remaining variables
(`HostTypes`) keep their types because of it: what is reported is a command that
exists. For the order, older commands expire no later (`Aging`), and behind one
that has left "pending" no older one waits that could still be claimed, unless
it was inserted too late (`NoneLeftBehind`). That what was claimed in order is
also carried out in order needs `HeldInOrder`: the root service holds nothing
older than what it has carried out, with the same exception. Together they are
`OrderInv`.

On the quarantine: `TypeCorrect`; `ReportedReleaseIsReal`
(`ReleaseRestores`), because while no query fails the hooks that a release has
passed stay away (`UnhookedSoFar`): only the poller sets one, and it is busy
releasing; `DeadlinesAreKept` (`DeadlineInv`), because a deadline on disk
without a timer means that every blocked family is one the poller is still
isolating or some thread is still ending (`Watched`, in `KeptInv`). That needs
what a thread knows of the chain it works on (`PollerKnows`): a release by
another thread can take any rule away between two of its calls.

**`Accounts_proofs`**: `TypeCorrect`; `SessionsAreEarned` (`SessionInv`): a token
of the epoch in force was made with the password and the cut in force
(`TokensCurrent`), which holds only because the sign-in that made it knew so
from the load onwards (`RequestCurrent`) although the account may change
in between; `BootstrapIsExclusive`
(`BootstrapExclusive`), by `LockInv`; `GuessesAreBounded` (`GuessesBounded`): a
window has room for every sign-in that has passed the check (`Throttled`);
`AnAdminRemains` (`AdminRemains`): a change past its check knows of another
administrator than its target (`Guarded`), until two changes overlap
(`raced`). Assumed: there are users and passwords, and finitely many requests
at a time.

**`Enrollment_proofs`**: `TypeCorrect`, with the lemma that there is always a key
that is not in use (`FreshKey`); `NoRegistrationChangesIdentity`
(`IdentityInv`): the row that a registration finds by fingerprint is that of
its own machine (`FoundOwn`), because every row with a fingerprint is
(`OwnRow`); `DeletionIsFinal` (`DeletedIsGone`): by `GoneInv` a device
without a row is about to be purged of everything, or is clean or being purged
with no upload under way that could recreate it. Assumed: finitely
many machines and requests, and every machine has a UUID or a network address
(one with neither is a new device at every registration, `api/main.go:3510`).
`NoRegistrationChangesIdentity` has a hypothesis, which the code takes for
granted when it falls back on the address (`api/main.go:3457`): an address that
stands for a machine without UUID is not that of a machine with one
(`AddressIdentifies`). Without it a registration recovers another machine's
row. In the run two machines share an address and both have a UUID.

**`BrowserHistory_proofs`**: `TypeCorrect`; `NoVisitSkipped` (`SentInv`): what is
pending was queued, given up, or is in the payload about to be (`SkipInv`);
`RepeatsAreForgotten` (`AgainOnlyIfForgotten`): what was queued is in the
record, about to be committed to it, or forgotten (`AgainInv`), which needs that
times identify visits and all that the collector holds was read from a
database (`RowInv`), and that the guard is held exactly while a Collect works,
beyond its timeout too (`GuardInv`); `StoredIsShown` (`ArchiveCovers`), by
`ArchiveInv`: a request under way has put what it kept for the days that are
done. Assumed beyond types: names of sites are not names of pages, and the
limits are positive.

**`Updates_proofs`**: `NewerIsStrict` (of two versions with any number of parts
at most one is newer); `TypeCorrect`; `OnlyReleasedRuns` (`ReleaseInv`): whatever
is on disk, running or held by a check was released once (`SourceInv`);
`DowngradesAreMarked` (`NoSurpriseDowngrade`): an older version on disk, in a
check or marked was asked for (`OweInv`). The mark may be that of an offer made
while the mark of an earlier rollout stood: the proof failed for the
stronger `OnlyRequestedDowngrades`, and TLC found the counterexample listed
above. `BinaryRemains` (`Bootable`): of the threads of a Windows device at most
one is past the first rename, and then the old binary is aside (`SwapInv`).

**`Retention_proofs`**: `TypeCorrect`, with the lemmas that `normalizePolicy`
bounds what it is given and keeps what is bounded; `AcceptedPolicySurvives`
(`PolicySurvives`): the one save under way is that of the policy last accepted
(`SavedInv`); `HistoriesStayReadable` (`HistoryInv`): the object of a document
is there, or the time of the document is over, or a sweep under a shorter
retention took it (`ObjectInv`, which needs that an object is never older than
the document that points to it); `SnapshotsAreRegular` (`SnapshotRegular`): a
snapshot marked, stored or given up lies near every slim document, whether it is
stored or on the way (`MarkInv`).

**`Activity_proofs`**, on the API's side of focus time:

- `ArchivedDaysAreHonest` (`DayInv`), even after an unconditional write. The
  invariant `Days` says of every object, and of every object a request has read
  and is going to merge into, that it is `Honest`: in order and disjoint, within
  the day, each session ending with a tick that was reported for its application
  and starting with one or where its predecessor ends (`Linked`), each tick
  reported for its application or `Near` ticks that were. `Linked` is what makes
  it inductive: a pause that is bridged today must not become the edge of one
  that is bridged tomorrow, or gaps could grow upload by upload.
- `StoredTimeIsArchived` (`ArchiveInv`), by `Kept`: what a request has read is
  the object as it stands, or as it was under an older ETag; and a request that
  is past its write is covered although its document is not stored yet.
- `ReportsAreBacked` (`ReportInv`), by `Reported`: a row, stored or about to be,
  sums up some possible day within the archive. Because a possible day is
  disjoint, its sum is the number of its ticks (`DaySize`), so a part of it has
  no larger sum. That the capped report fits the time online is arithmetic on
  the cap (`CapFits`).
- `FocusTotalsAreRight` (`FocusInv`), by `Counting`: the times an upload is in
  the cache, on its way there, in a request past its insert or still ahead of
  the rebuild are one at most together, two if it was being stored when the
  rebuild began. It is there or on its way, or `unsure`.

The lemmas they rest on say what the operators of `Sessions` do with any
sequence of sessions: sorting lists each once and in order (`InOrder` is written
as a definition by ranks, of which this can be proved), trimming keeps the ticks
and makes sessions disjoint (`TrimFacts`), merging adds short pauses only
(`MergeFacts`), and together, for an archive and an upload, `NormalizeFacts` and
`MergedFacts`. Sums over sets and folds over sequences are recursive functions;
what holds of them is proved by a smallest counterexample. Assumed beyond types:
there are finitely many users and events, and at least one attempt to write.

On the tracker: `TrackInvariant`; `CreditIsExact`
(`CreditedIsSeen` and `SeenIsCredited`); `FocusTimeIsSeen` (`CreditInv`);
`TotalsAreExact` (`TotalsAgree`). Fragments lie apart and before the open
session, those collected before those that wait (`Pieces`), so that the totals
can be counted by their sizes; a fragment that is not a continuation begins with
the sample that opened its period of focus and no other sample opens one in it
(`Openings`), so that periods are counted once. `FocusTimeIsSeen` has the
hypothesis `Named`: the session has a display of its own, or guesses are
disabled. Without it a guess is named like the session of another user, and
`QualityOfSample` fails, as listed above.

Only model-checked: the liveness properties (`EveryRowLeaves`,
`PollersRecover`, `DeadlineHonoured`, `PollerReturns`, `MachineRecovers`,
`VisitsShown`, `CatchesUp`, `SweptEventually`), because TLAPS does not do
fairness or ENABLED. Every invariant and action property of a passing run has a
theorem.

## What is abstracted or left out

- `Delivery`: the content of payloads and of the three archives (an archive
  that fails ends the request with a 500; what it stores is in `Activity`,
  `BrowserHistory` and `Retention`), and the retention of telemetry: a payload
  whose document expired could be stored again by a retry as old as the
  retention time. The handler takes the time once at its start; the model takes
  it at the claim of the lease, at most the 30 seconds of the handler's context
  later. A deletion that succeeds is in `Enrollment`. A prune is one step, of
  three SQL statements, and a prune that fails is left out; a re-registration
  that fails leaves the agent with its old key, although only the write of the
  cache may have failed.
- `Commands`: parameters and details of commands, roles, audit. A revoked row is
  not registered again, because it would stay revoked; the registration at a
  start is in `Enrollment`; the window service starts at once with what the cache
  holds, without its wait of a minute for the file. Errors of the
  updates behind `Badge` and `Effect` are not modelled. Whether a lock of the
  screen succeeds is any of its outcomes.
- `Quarantine`: the rules that let traffic pass. `Create` is `-N` and `-F`, and
  `Remove` deletes a chain that is not empty, too. A check for a hook that fails
  while the hook is there would add a second jump; `hook` is a set and does not
  show it. Windows and macOS use other commands under the same deadline.
- `Enrollment`: the enrolment token, host names (never used to recover an
  identity), machines with neither UUID nor address, and the migration of
  plaintext keys at the start, except that a row may still have one.
- `Activity`: one device and one day; the limit of ten applications of a
  summary is never reached; the fallback write is taken as whole although the
  code sends a reader that was already read; the hourly prune of the cache.
- `BrowserHistory`: one profile; rows are read in full up to the limit; the
  count of entries, the limit of a reading, and the reader's use of the server's
  time zone against days in UTC.
- `Accounts`: expiry of tokens, the audit log, the limiters in front of login
  and registration (the same code), CORS.
- `Updates`: one platform; administrative handlers and the update check are
  single steps, so a rollout whose bump of the release fails is left out, and so
  is an exec that fails at the restart; a status
  between building and publishing; the names of objects are their versions;
  the watcher of the window service.
- `Retention`: the settings other than the retention and one mode; prefixes
  are swept alike, so there is one; dry-run; an
  insert that commits and reports an error (the history shows the document, as it
  should); the 500 documents a history is limited to.
- `ActiveWindow`: how a backend finds the window is the set of its answers;
  hung calls are not counted, and their environment variables do not leak into
  the next call; shutting down (the open session is lost then).

Not modelled: the collectors that only read the operating system (hardware,
processes, services, ports, USB, installed applications, updates), which have
no state that another step depends on; fleet lists, filters and exports, which
format stored rows; response encryption and security configuration; the
backfill commands, which an operator runs once; packaging; the dashboard.

## Plan

1. `Quarantine` for Windows and macOS under the same deadline protocol.
2. Second profiles in `BrowserHistory`, second devices in `Updates`.
