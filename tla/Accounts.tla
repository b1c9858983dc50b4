------------------------------ MODULE Accounts ------------------------------
(***************************************************************************)
(* Dashboard accounts: the bootstrap of the first administrator, sign-in   *)
(* with the throttle of failed attempts, signed session tokens, and the    *)
(* access changes of administrators.  Handlers run concurrently, one       *)
(* action per database call.  An account is named by its e-mail address,   *)
(* which a unique index protects; accounts are never deleted.              *)
(***************************************************************************)
EXTENDS Integers, FiniteSets

CONSTANTS
    Users,      \* e-mail addresses
    Passwords,
    Roles,      \* the roles that administrators hand out
    Slots,      \* requests at work at the same time
    FailLimit,  \* LOGIN_FAIL_LIMIT
    Window,     \* window of the throttle
    LockTTL,    \* age at which a bootstrap lock counts as stale
    MaxOps,     \* bound: requests and resets at the console
    MaxTime,    \* bound: clock
    MaxFaults   \* bound: database errors and restarts of the API

AllRoles == {"admin", "manager", "viewer"}

ASSUME AccountsAssumption ==
    /\ Users # {} /\ Passwords # {} /\ IsFiniteSet(Slots)
    /\ Roles \subseteq AllRoles
    /\ FailLimit \in Nat \ {0} /\ Window \in Nat \ {0} /\ LockTTL \in Nat
    /\ MaxOps \in Nat /\ MaxTime \in Nat /\ MaxFaults \in Nat

VARIABLES
    now, ops, faults,
    users,     \* users[u]: the document, status "none" before it exists
    lock,      \* created_at of the document dashboard_bootstrap, or Free
    tokens,    \* session tokens that were signed (expiry is left out: it
               \* only takes sessions away)
    hits,      \* hits[u]: window of loginFailLimiter (one client address)
    req,       \* req[s]: the request in slot s
    founders,  \* accounts that the bootstrap created
    raced,     \* two changes of role or status have overlapped
    tally      \* tally[u]: wrong passwords since the window opened

storeVars == <<users, lock>>
histVars  == <<founders, raced, tally>>
vars == <<now, ops, faults, storeVars, tokens, hits, req, histVars>>

Free == -1

\* cut counts the events that must end the sessions of an account; it is a
\* history field beside token_epoch.
Absent == [role |-> "viewer", status |-> "none", epoch |-> 0, pw |-> "", cut |-> 0]
Account(r, p) == [role |-> r, status |-> "active", epoch |-> 0, pw |-> p, cut |-> 0]
Documents == [role : AllRoles, status : {"none", "active", "disabled"},
              epoch : Nat, pw : Passwords \cup {""}, cut : Nat]
Tokens == [user : Users, epoch : Nat, pw : Passwords, cut : Nat]
Windows == [start : Nat, count : Nat]
NoWindow == [start |-> 0, count |-> 0]

Ops == {"bootstrap", "login", "create", "password", "role", "status", "revoke"}
Stages == {"idle", "users", "lock", "insert", "unlock", "rollback",
           "load", "verify", "target", "admins", "write"}
Args == Passwords \cup AllRoles \cup {"active", "disabled", ""}
Requests == [stage : Stages, op : Ops, actor : Users, target : Users,
             arg : Args, doc : Documents]

FirstPassword == CHOOSE p \in Passwords : TRUE
Nobody == CHOOSE u \in Users : TRUE
Idle == [stage |-> "idle", op |-> "login", actor |-> Nobody, target |-> Nobody,
         arg |-> "", doc |-> Absent]

\* The type of every variable; an update never creates an account that is
\* absent.
TypeOK ==
    /\ now \in Nat /\ ops \in Nat /\ faults \in Nat
    /\ users \in [Users -> Documents]
    /\ \A u \in Users : users[u].status = "none" => users[u] = Absent
    /\ lock \in Nat \cup {Free}
    /\ tokens \subseteq Tokens
    /\ hits \in [Users -> Windows]
    /\ req \in [Slots -> Requests]
    /\ founders \subseteq Users /\ raced \in BOOLEAN
    /\ tally \in [Users -> Windows]

Exists(u) == users[u].status # "none"
Token(u, doc) == [user |-> u, epoch |-> doc.epoch, pw |-> doc.pw, cut |-> doc.cut]

\* A new installation, or one whose administrators are signed in.
Init ==
    /\ now = 0 /\ ops = 0 /\ faults = 0
    /\ \E A \in SUBSET Users :
          /\ users = [u \in Users |-> IF u \in A THEN Account("admin", FirstPassword)
                                               ELSE Absent]
          /\ tokens = {Token(u, Account("admin", FirstPassword)) : u \in A}
    /\ lock = Free
    /\ hits = [u \in Users |-> NoWindow]
    /\ req = [s \in Slots |-> Idle]
    /\ founders = {} /\ raced = FALSE
    /\ tally = [u \in Users |-> NoWindow]

Fault == faults < MaxFaults /\ faults' = faults + 1

Start(s, op, a, u, x, st) ==
    /\ req[s].stage = "idle"
    /\ ops < MaxOps /\ ops' = ops + 1
    /\ req' = [req EXCEPT ![s] = [stage |-> st, op |-> op, actor |-> a,
                                  target |-> u, arg |-> x, doc |-> Absent]]

At(s, st) == req[s].stage = st

\* A finished request leaves nothing behind in its slot.
Goto(s, st) ==
    req' = [req EXCEPT ![s] = IF st = "idle" THEN Idle ELSE [@ EXCEPT !.stage = st]]

-----------------------------------------------------------------------------
(* authRegisterHandler.                                                    *)

Bootstrap(s, u, p) ==
    /\ Start(s, "bootstrap", u, u, p, "users")
    /\ UNCHANGED <<now, faults, storeVars, tokens, hits, histVars>>

CountUsers(s) ==
    /\ At(s, "users")
    /\ Goto(s, IF \E u \in Users : Exists(u) THEN "idle" ELSE "lock")
    /\ UNCHANGED <<now, ops, faults, storeVars, tokens, hits, histVars>>

\* (The lock is an upsert instead of an insert.)
TakeLockUpserting(s) ==
    /\ At(s, "lock")
    /\ lock' = now /\ Goto(s, "insert")
    /\ UNCHANGED <<now, ops, faults, users, tokens, hits, histVars>>

\* The insert of dashboard_bootstrap, which succeeds for one request only.
TakeLock(s) ==
    /\ At(s, "lock")
    /\ IF lock = Free
       THEN lock' = now /\ Goto(s, "insert")
       ELSE UNCHANGED lock /\ Goto(s, "idle")
    /\ UNCHANGED <<now, ops, faults, users, tokens, hits, histVars>>

InsertFounder(s) ==
    /\ At(s, "insert")
    /\ LET u == req[s].target IN
       IF Exists(u)
       THEN Goto(s, "rollback") /\ UNCHANGED <<users, founders>>
       ELSE /\ users' = [users EXCEPT ![u] = Account("admin", req[s].arg)]
            /\ founders' = founders \cup {u}
            /\ Goto(s, "unlock")
    /\ UNCHANGED <<now, ops, faults, lock, tokens, hits, raced, tally>>

\* The lock goes, and after a successful insert the founder is signed in.
Unlocked(s) ==
    /\ req[s].stage \in {"unlock", "rollback"}
    /\ tokens' = IF At(s, "unlock")
                 THEN tokens \cup {Token(req[s].target, Account("admin", req[s].arg))}
                 ELSE tokens
    /\ Goto(s, "idle")
    /\ UNCHANGED <<now, ops, users, hits, histVars>>

ReleaseLock(s) == Unlocked(s) /\ lock' = Free /\ UNCHANGED faults
ReleaseLockFails(s) == Unlocked(s) /\ Fault /\ UNCHANGED lock

-----------------------------------------------------------------------------
(* authLoginHandler and loginFailLimiter.                                  *)

Blocked(u) ==
    hits[u].count > 0 /\ now - hits[u].start < Window /\ hits[u].count >= FailLimit

\* rateLimiter.Allow as Hit uses it: a new window, or one more in this one.
Allow(w) ==
    IF w.count = 0 \/ now - w.start >= Window
    THEN [start |-> now, count |-> 1]
    ELSE [w EXCEPT !.count = @ + 1]

\* A blocked request ends here, with a 429.
Login(s, u, p) ==
    /\ ~Blocked(u)
    /\ Start(s, "login", u, u, p, "load")
    /\ UNCHANGED <<now, faults, storeVars, tokens, hits, histVars>>

LoadAccount(s) ==
    /\ At(s, "load")
    /\ LET d == users[req[s].target] IN
       req' = [req EXCEPT ![s].stage = "verify",
                          ![s].doc = IF d.status = "active" THEN d ELSE Absent]
    /\ UNCHANGED <<now, ops, faults, storeVars, tokens, hits, histVars>>

\* The password is compared with the document read before; the token carries
\* the epoch of that document.
Verify(s) ==
    /\ At(s, "verify")
    /\ LET u == req[s].target
           d == req[s].doc
       IN  IF d.status = "active" /\ d.pw = req[s].arg
           THEN /\ tokens' = tokens \cup {Token(u, d)}
                /\ hits' = [hits EXCEPT ![u] = NoWindow]
                /\ tally' = [tally EXCEPT ![u] = NoWindow]
           ELSE /\ hits' = [hits EXCEPT ![u] = Allow(@)]
                /\ tally' = [tally EXCEPT ![u] = Allow(@)]
                /\ UNCHANGED tokens
    /\ Goto(s, "idle")
    /\ UNCHANGED <<now, ops, faults, storeVars, founders, raced>>

\* (Every window that did not start just now is dropped.)
JanitorEager ==
    /\ hits' = [u \in Users |-> IF hits[u].start < now THEN NoWindow ELSE hits[u]]
    /\ UNCHANGED <<now, ops, faults, storeVars, tokens, req, histVars>>

\* The goroutine of newRateLimiter.
Janitor ==
    /\ hits' = [u \in Users |->
                  IF hits[u].start < now - Window THEN NoWindow ELSE hits[u]]
    /\ UNCHANGED <<now, ops, faults, storeVars, tokens, req, histVars>>

-----------------------------------------------------------------------------
(* requireRole(RoleAdmin, ...) and the access changes behind it.           *)

RoleRank(r) == CASE r = "admin" -> 3 [] r = "manager" -> 2 [] r = "viewer" -> 1
CanAccessRole(r, required) == RoleRank(r) >= RoleRank(required)

\* requireAuth: the account is active and its epoch is that of the token.
Admits(t) ==
    /\ users[t.user].status = "active"
    /\ users[t.user].epoch = t.epoch

Request(s, t, op, u, x) ==
    /\ t \in tokens /\ Admits(t) /\ CanAccessRole(users[t.user].role, "admin")
    /\ Start(s, op, t.user, u, x, IF op \in {"role", "status"} THEN "target" ELSE "write")
    /\ UNCHANGED <<now, faults, storeVars, tokens, hits, histVars>>

Changing(s) == req[s].stage \in {"admins", "write"} /\ req[s].op \in {"role", "status"}

LoadTarget(s) ==
    /\ At(s, "target")
    /\ LET d == users[req[s].target]
           next == IF req[s].arg = "active" THEN "write" ELSE "admins"
       IN  IF d.status = "none"
           THEN Goto(s, "idle") /\ UNCHANGED raced
           ELSE /\ req' = [req EXCEPT ![s].stage = next, ![s].doc = d]
                /\ raced' = (raced \/ \E o \in Slots \ {s} : Changing(o))
    /\ UNCHANGED <<now, ops, faults, storeVars, tokens, hits, founders, tally>>

ActiveAdmins == {u \in Users : users[u].role = "admin" /\ users[u].status = "active"}

\* (The last administrator is counted out.)
ForbiddenOffByOne(r, n) ==
    \/ r.actor = r.target
    \/ r.doc.role = "admin" /\ r.doc.status = "active" /\ r.arg # "admin" /\ n < 1

\* checkRoleChange and checkDeactivate: nobody changes the own account, and
\* the last active administrator stays one.
Forbidden(r, n) ==
    \/ r.actor = r.target
    \/ r.doc.role = "admin" /\ r.doc.status = "active" /\ r.arg # "admin" /\ n <= 1

CountAdmins(s) ==
    /\ At(s, "admins")
    /\ Goto(s, IF Forbidden(req[s], Cardinality(ActiveAdmins)) THEN "idle" ELSE "write")
    /\ UNCHANGED <<now, ops, faults, storeVars, tokens, hits, histVars>>

\* (The sessions survive a new password.)
PasswordSetOnly(d, p) == [d EXCEPT !.pw = p, !.cut = @ + 1]

PasswordSet(d, p) == [d EXCEPT !.pw = p, !.epoch = @ + 1, !.cut = @ + 1]

\* usersHandler: the unique index refuses an address that is taken.
UserCreated(d, r) == IF d.status = "none" THEN Account(r, FirstPassword) ELSE d

SessionsRevoked(d) == [d EXCEPT !.epoch = @ + 1, !.cut = @ + 1]

RoleSet(d, r) == [d EXCEPT !.role = r]

StatusSet(d, x) ==
    IF x = "active" THEN [d EXCEPT !.status = x]
                    ELSE [SessionsRevoked(d) EXCEPT !.status = x]

\* What the update (or the insert) of a request makes of the target.
Updated(r, d) ==
    CASE r.op = "create"   -> UserCreated(d, r.arg)
      [] r.op = "password" -> PasswordSet(d, r.arg)
      [] r.op = "revoke"   -> SessionsRevoked(d)
      [] r.op = "role"     -> RoleSet(d, r.arg)
      [] r.op = "status"   -> StatusSet(d, r.arg)

Write(s) ==
    /\ At(s, "write")
    /\ LET u == req[s].target IN
       users' = IF Exists(u) \/ req[s].op = "create"
                THEN [users EXCEPT ![u] = Updated(req[s], @)] ELSE users
    /\ Goto(s, "idle")
    /\ UNCHANGED <<now, ops, faults, lock, tokens, hits, histVars>>

\* A database call fails.  A sign-in takes it for an unknown account, the
\* count of administrators for zero; a founder's failed insert is rolled back;
\* any other request ends.
DatabaseError(s) ==
    /\ req[s].stage \in {"users", "lock", "insert", "load", "target", "admins", "write"}
    /\ Fault
    /\ \/ At(s, "load") /\ Goto(s, "verify")
       \/ At(s, "insert") /\ Goto(s, "rollback")
       \/ At(s, "admins") /\ Goto(s, IF Forbidden(req[s], 0) THEN "idle" ELSE "write")
       \/ req[s].stage \in {"users", "lock", "target", "write"} /\ Goto(s, "idle")
    /\ UNCHANGED <<now, ops, storeVars, tokens, hits, histVars>>

-----------------------------------------------------------------------------

\* The command reset-password, run at the console.
ResetPassword(u, p) ==
    /\ ops < MaxOps /\ ops' = ops + 1
    /\ Exists(u)
    /\ users' = [users EXCEPT ![u] = [PasswordSet(@, p) EXCEPT !.status = "active"]]
    /\ UNCHANGED <<now, faults, lock, tokens, hits, req, histVars>>

\* The API dies and starts again: cleanupBootstrapLocks removes a lock that is
\* stale or no longer needed, unless a call of it fails.
Restart ==
    /\ Fault
    /\ req' = [s \in Slots |-> Idle]
    /\ hits' = [u \in Users |-> NoWindow]
    /\ tally' = [u \in Users |-> NoWindow]
    /\ \/ /\ (\E u \in Users : Exists(u)) \/ lock < now - LockTTL
          /\ lock' = Free
       \/ UNCHANGED lock
    /\ UNCHANGED <<now, ops, users, tokens, founders, raced>>

Tick ==
    /\ now < MaxTime /\ now' = now + 1
    /\ UNCHANGED <<ops, faults, storeVars, tokens, hits, req, histVars>>

Handle(s) ==
    \/ CountUsers(s) \/ TakeLock(s) \/ InsertFounder(s)
    \/ ReleaseLock(s) \/ ReleaseLockFails(s)
    \/ LoadAccount(s) \/ Verify(s)
    \/ LoadTarget(s) \/ CountAdmins(s) \/ Write(s) \/ DatabaseError(s)

Next ==
    \/ \E s \in Slots :
          \/ Handle(s)
          \/ \E u \in Users :
                \/ \E p \in Passwords : Bootstrap(s, u, p) \/ Login(s, u, p)
                \/ \E t \in tokens :
                      \/ \E p \in Passwords : Request(s, t, "password", u, p)
                      \/ \E r \in Roles, op \in {"create", "role"} : Request(s, t, op, u, r)
                      \/ \E x \in {"active", "disabled"} : Request(s, t, "status", u, x)
                      \/ Request(s, t, "revoke", u, "")
    \/ \E u \in Users, p \in Passwords : ResetPassword(u, p)
    \/ Restart \/ Janitor \/ Tick

Spec == Init /\ [][Next]_vars

-----------------------------------------------------------------------------
(* Properties.                                                             *)

\* A token that requireAuth lets in was earned with the password in force and
\* since the last event that ends the sessions of its account (new password,
\* deactivation, revocation), also when that event falls between the lookup
\* of a sign-in and its answer, and when the account is reactivated later.
SessionsEarned ==
    \A t \in tokens : Admits(t) =>
        t.pw = users[t.user].pw /\ t.cut = users[t.user].cut

\* Every state is well formed, and requireAuth admits no session that has ended.
SessionInv == TypeOK /\ SessionsEarned

\* "At least one active admin must remain": once there are accounts there is an
\* administrator to manage them, whatever fails, as long as two changes of
\* role or status do not overlap (the count and the update are two calls).
AdminRemains ==
    (\E u \in Users : Exists(u)) /\ ~raced => ActiveAdmins # {}

\* The throttle of wrong passwords lets through at most the requests that had
\* passed the check when the limit was reached, whenever the janitor runs.
GuessesBounded ==
    \A u \in Users : tally[u].count < FailLimit + Cardinality(Slots)

\* dashboard_bootstrap is a lock: at most one request is past it, and nobody
\* else removes it under that request.
Bootstrapping == {s \in Slots : req[s].stage \in {"insert", "unlock", "rollback"}}
BootstrapExclusive ==
    Cardinality(Bootstrapping) <= 1 /\ (Bootstrapping # {} => lock # Free)

\* "Bootstraps the first dashboard admin.  Once any dashboard user exists, only
\* an existing admin can create users": the bootstrap creates one account.
BootstrapOnce == Cardinality(founders) <= 1
=============================================================================
