--------------------------- MODULE Accounts_proofs ---------------------------
(***************************************************************************)
(* Proofs about dashboard accounts, for any number of accounts, requests   *)
(* at work at once, database errors and restarts.                          *)
(***************************************************************************)
EXTENDS Accounts, FiniteSetTheorems, TLAPS

\* What a request does fits the handler that runs it: each stage belongs to
\* some operations, and each operation has arguments of its kind.
Fits(r) ==
    /\ r.stage \in {"users", "lock", "insert", "unlock", "rollback"} => r.op = "bootstrap"
    /\ r.stage \in {"load", "verify"} => r.op = "login"
    /\ r.stage \in {"target", "admins"} => r.op \in {"role", "status"}
    /\ r.stage = "write" => r.op \in {"create", "password", "role", "status", "revoke"}
    /\ r.stage # "idle" =>
        /\ r.op \in {"bootstrap", "login", "password"} => r.arg \in Passwords
        /\ r.op \in {"create", "role"} => r.arg \in AllRoles
        /\ r.op = "status" => r.arg \in {"active", "disabled"}

TypeInv == TypeOK /\ \A s \in Slots : Fits(req[s])

LEMMA SomeoneSomePassword == Nobody \in Users /\ FirstPassword \in Passwords
BY AccountsAssumption DEF Nobody, FirstPassword

\* A slot without a request, and a request at its start.
LEMMA IdleFits == Idle \in Requests /\ Fits(Idle)
BY SomeoneSomePassword
   DEF Idle, Absent, Requests, Stages, Ops, Args, Documents, AllRoles, Fits

LEMMA AccountTypes ==
    ASSUME NEW r \in AllRoles, NEW p \in Passwords
    PROVE  Account(r, p) \in Documents /\ Absent \in Documents
BY DEF Account, Absent, Documents, AllRoles

LEMMA TypeInit == Init => TypeInv
<1> SUFFICES ASSUME Init PROVE TypeInv
  OBVIOUS
<1>1. PICK A \in SUBSET Users :
        /\ users = [u \in Users |-> IF u \in A THEN Account("admin", FirstPassword)
                                                ELSE Absent]
        /\ tokens = {Token(u, Account("admin", FirstPassword)) : u \in A}
  BY DEF Init
<1>2. Account("admin", FirstPassword) \in Documents /\ Absent \in Documents
  BY AccountTypes, SomeoneSomePassword DEF AllRoles
<1>3. /\ users \in [Users -> Documents]
      /\ \A u \in Users : users[u].status = "none" => users[u] = Absent
  BY <1>1, <1>2 DEF Account
<1>4. tokens \subseteq Tokens
  BY <1>1, SomeoneSomePassword DEF Token, Account, Tokens
<1>5. req \in [Slots -> Requests] /\ \A s \in Slots : Fits(req[s])
  BY IdleFits DEF Init
<1>6. hits \in [Users -> Windows] /\ tally \in [Users -> Windows]
  BY DEF Init, NoWindow, Windows
<1> QED
  BY <1>3, <1>4, <1>5, <1>6 DEF Init, TypeInv, TypeOK

\* A request that a handler starts, moves on or ends.
LEMMA StartFacts ==
    ASSUME TypeInv, NEW s \in Slots, NEW op \in Ops, NEW a \in Users, NEW u \in Users,
           NEW x \in Args, NEW st \in Stages, Start(s, op, a, u, x, st),
           Fits([stage |-> st, op |-> op, actor |-> a, target |-> u, arg |-> x, doc |-> Absent])
    PROVE  /\ req[s].stage = "idle"
           /\ req' \in [Slots -> Requests] /\ \A o \in Slots : Fits(req'[o])
           /\ \A o \in Slots \ {s} : req'[o] = req[o]
           /\ req'[s] = [stage |-> st, op |-> op, actor |-> a, target |-> u,
                         arg |-> x, doc |-> Absent]
           /\ ops' \in Nat
<1> DEFINE r == [stage |-> st, op |-> op, actor |-> a, target |-> u, arg |-> x, doc |-> Absent]
<1>1. Absent \in Documents
  BY DEF Absent, Documents, AllRoles
<1>2. r \in Requests
  BY <1>1 DEF Requests
<1>3. req \in [Slots -> Requests] /\ ops \in Nat /\ \A o \in Slots : Fits(req[o])
  BY DEF TypeInv, TypeOK
<1>4. req[s].stage = "idle" /\ req' = [req EXCEPT ![s] = r] /\ ops' = ops + 1
  BY DEF Start
<1> HIDE DEF r
<1>5. /\ req' \in [Slots -> Requests]
      /\ \A o \in Slots \ {s} : req'[o] = req[o]
      /\ req'[s] = r
  BY <1>2, <1>3, <1>4
<1>6. \A o \in Slots : Fits(req'[o])
  BY <1>3, <1>5 DEF r
<1> QED
  BY <1>3, <1>4, <1>5, <1>6 DEF r

LEMMA GotoFacts ==
    ASSUME TypeInv, NEW s \in Slots, NEW st \in Stages, Goto(s, st),
           \/ st = "idle"
           \/ st \in {"users", "lock", "insert", "unlock", "rollback"} /\ req[s].op = "bootstrap"
           \/ st \in {"load", "verify"} /\ req[s].op = "login"
           \/ st \in {"admins", "write"} /\ req[s].op \in {"role", "status"},
           req[s].stage # "idle"
    PROVE  /\ req' \in [Slots -> Requests] /\ \A o \in Slots : Fits(req'[o])
           /\ \A o \in Slots \ {s} : req'[o] = req[o]
           /\ st = "idle" => req'[s] = Idle
           /\ st # "idle" => /\ req'[s].stage = st
                             /\ req'[s].op = req[s].op /\ req'[s].actor = req[s].actor
                             /\ req'[s].target = req[s].target /\ req'[s].arg = req[s].arg
                             /\ req'[s].doc = req[s].doc
<1> DEFINE r == IF st = "idle" THEN Idle ELSE [req[s] EXCEPT !.stage = st]
<1>1. req \in [Slots -> Requests] /\ \A o \in Slots : Fits(req[o])
  BY DEF TypeInv, TypeOK
<1>2. req' = [req EXCEPT ![s] = r]
  BY DEF Goto
<1>3. req[s] \in Requests /\ Fits(req[s])
  BY <1>1
<1>4. st # "idle" => /\ r.stage = st /\ r.op = req[s].op /\ r.actor = req[s].actor
                     /\ r.target = req[s].target /\ r.arg = req[s].arg
                     /\ r.doc = req[s].doc
  BY <1>3 DEF Requests
<1>5. r \in Requests
  BY <1>3, IdleFits DEF Requests
<1>6. Fits(r)
  <2>1. CASE st = "idle"
    BY <2>1, IdleFits
  <2>2. CASE st # "idle"
    <3> HIDE DEF r
    <3> QED
      BY <1>3, <1>4, <2>2 DEF Fits
  <2> QED
    BY <2>1, <2>2
<1>7. st = "idle" => r = Idle
  OBVIOUS
<1> HIDE DEF r
<1>8. /\ req' \in [Slots -> Requests]
      /\ \A o \in Slots \ {s} : req'[o] = req[o]
      /\ req'[s] = r
  BY <1>1, <1>2, <1>5
<1>9. \A o \in Slots : Fits(req'[o])
  BY <1>1, <1>6, <1>8
<1> QED
  BY <1>4, <1>7, <1>8, <1>9

\* What an update makes of a document: it stays a document of an existing
\* account, its sessions end when the password or the cut changes, and role
\* and status change only in a change of role or status.
Kept(r, d, e) ==
    /\ e \in Documents
    /\ e.status # "none"
    /\ d.status # "none" =>
         /\ d.epoch <= e.epoch
         /\ e.epoch = d.epoch => e.pw = d.pw /\ e.cut = d.cut
         /\ r.op \notin {"role", "status"} => e.role = d.role /\ e.status = d.status
         /\ r.op = "role" /\ r.arg = "admin" => e.role = "admin" /\ e.status = d.status
         /\ r.op = "status" /\ r.arg = "active" => e.role = d.role /\ e.status = "active"

\* The three updates that end the sessions of an account.
LEMMA CutFacts ==
    ASSUME NEW d \in Documents, NEW p \in Passwords
    PROVE  /\ SessionsRevoked(d) \in Documents
           /\ SessionsRevoked(d).epoch = d.epoch + 1
           /\ SessionsRevoked(d).role = d.role /\ SessionsRevoked(d).status = d.status
           /\ PasswordSet(d, p) \in Documents
           /\ PasswordSet(d, p).epoch = d.epoch + 1
           /\ PasswordSet(d, p).role = d.role /\ PasswordSet(d, p).status = d.status
<1>0. d.epoch \in Nat /\ d.cut \in Nat
  BY DEF Documents
<1>1. PICK n \in Nat, m \in Nat : n = d.epoch + 1 /\ m = d.cut + 1
  BY <1>0
<1>2. /\ SessionsRevoked(d) = [d EXCEPT !.epoch = n, !.cut = m]
      /\ PasswordSet(d, p) = [d EXCEPT !.pw = p, !.epoch = n, !.cut = m]
  BY <1>1 DEF SessionsRevoked, PasswordSet
<1>3. /\ [d EXCEPT !.epoch = n, !.cut = m] \in Documents
      /\ [d EXCEPT !.epoch = n, !.cut = m].epoch = n
      /\ [d EXCEPT !.epoch = n, !.cut = m].role = d.role
      /\ [d EXCEPT !.epoch = n, !.cut = m].status = d.status
  BY DEF Documents
<1>4. /\ [d EXCEPT !.pw = p, !.epoch = n, !.cut = m] \in Documents
      /\ [d EXCEPT !.pw = p, !.epoch = n, !.cut = m].epoch = n
      /\ [d EXCEPT !.pw = p, !.epoch = n, !.cut = m].role = d.role
      /\ [d EXCEPT !.pw = p, !.epoch = n, !.cut = m].status = d.status
  BY DEF Documents
<1> QED
  BY <1>1, <1>2, <1>3, <1>4

\* The status of a document is set.
LEMMA StatusFacts ==
    ASSUME NEW d \in Documents, NEW x \in {"active", "disabled"},
           NEW e, e = [d EXCEPT !.status = x]
    PROVE  /\ e \in Documents /\ e.status = x /\ e.role = d.role
           /\ e.epoch = d.epoch /\ e.pw = d.pw /\ e.cut = d.cut
BY DEF Documents

LEMMA UpdatedFacts ==
    ASSUME NEW r \in Requests, Fits(r), r.stage = "write", NEW d \in Documents,
           d.status # "none" \/ r.op = "create"
    PROVE  Kept(r, d, Updated(r, d))
<1> SUFFICES ASSUME NEW e, e = Updated(r, d) PROVE Kept(r, d, e)
  OBVIOUS
<1>0. d.epoch \in Nat /\ d.epoch <= d.epoch /\ d.epoch <= d.epoch + 1 /\ d.epoch + 1 # d.epoch
  <2>1. d.epoch \in Nat
    BY DEF Documents
  <2> QED
    BY <2>1
<1>1. CASE r.op = "create"
  <2>1. r.arg \in AllRoles
    BY <1>1 DEF Fits
  <2>2. Account(r.arg, FirstPassword) \in Documents
    BY <2>1, AccountTypes, SomeoneSomePassword
  <2>3. e = IF d.status = "none" THEN Account(r.arg, FirstPassword) ELSE d
    BY <1>1 DEF Updated, UserCreated
  <2>4. Account(r.arg, FirstPassword).status = "active"
    BY DEF Account
  <2> QED
    BY <1>0, <1>1, <2>2, <2>3, <2>4 DEF Kept
<1>2. CASE r.op = "password"
  <2>1. r.arg \in Passwords
    BY <1>2 DEF Fits
  <2>2. e = PasswordSet(d, r.arg)
    BY <1>2 DEF Updated
  <2> QED
    BY <1>0, <1>2, <2>1, <2>2, CutFacts DEF Kept
<1>3. CASE r.op = "revoke"
  <2>1. e = SessionsRevoked(d)
    BY <1>3 DEF Updated
  <2>2. PICK p \in Passwords : TRUE
    BY SomeoneSomePassword
  <2> QED
    BY <1>0, <1>3, <2>1, <2>2, CutFacts DEF Kept
<1>4. CASE r.op = "role"
  <2>1. r.arg \in AllRoles
    BY <1>4 DEF Fits
  <2>2. e = [d EXCEPT !.role = r.arg]
    BY <1>4 DEF Updated, RoleSet
  <2>3. /\ e \in Documents /\ e.role = r.arg
        /\ e.epoch = d.epoch /\ e.pw = d.pw /\ e.cut = d.cut /\ e.status = d.status
    BY <2>1, <2>2 DEF Documents
  <2> QED
    BY <1>0, <1>4, <2>3 DEF Kept
<1>5. CASE r.op = "status"
  <2>1. r.arg \in {"active", "disabled"} /\ r.arg # "none"
    BY <1>5 DEF Fits
  <2>2. CASE r.arg = "active"
    <3>1. e = [d EXCEPT !.status = "active"]
      BY <1>5, <2>2 DEF Updated, StatusSet
    <3> QED
      BY <1>0, <1>5, <2>1, <2>2, <3>1, StatusFacts DEF Kept
  <2>3. CASE r.arg = "disabled"
    <3>1. e = [SessionsRevoked(d) EXCEPT !.status = "disabled"]
      BY <1>5, <2>3 DEF Updated, StatusSet
    <3>2. SessionsRevoked(d) \in Documents /\ SessionsRevoked(d).epoch = d.epoch + 1
      BY SomeoneSomePassword, CutFacts
    <3>3. e \in Documents /\ e.status = "disabled" /\ e.epoch = d.epoch + 1
      BY <3>1, <3>2, StatusFacts
    <3> QED
      BY <1>0, <1>5, <2>3, <3>3 DEF Kept
  <2> QED
    BY <2>1, <2>2, <2>3
<1> QED
  BY <1>1, <1>2, <1>3, <1>4, <1>5 DEF Fits

\* The accounts after a step.  An account that exists stays, and whatever
\* changes its password or its cut also ends its sessions.
Grows(u) ==
    Exists(u) =>
        /\ users'[u].status # "none"
        /\ users[u].epoch <= users'[u].epoch
        /\ users'[u].epoch = users[u].epoch =>
             users'[u].pw = users[u].pw /\ users'[u].cut = users[u].cut

UsersTyped ==
    /\ users' \in [Users -> Documents]
    /\ \A u \in Users : users'[u].status = "none" => users'[u] = Absent
    /\ \A u \in Users : Grows(u)

LEMMA UsersUnchanged == TypeInv /\ UNCHANGED users => UsersTyped
<1> SUFFICES ASSUME TypeInv, UNCHANGED users PROVE UsersTyped
  OBVIOUS
<1>1. users \in [Users -> Documents]
  BY DEF TypeInv, TypeOK
<1>2. ASSUME NEW u \in Users PROVE Grows(u)
  <2>1. users[u].epoch \in Nat
    BY <1>1 DEF Documents
  <2> QED
    BY <2>1 DEF Grows, Exists
<1> QED
  BY <1>2 DEF TypeInv, TypeOK, UsersTyped

\* An update of one account.
LEMMA UsersChanged ==
    ASSUME TypeInv, NEW u \in Users, NEW d \in Documents, d.status # "none",
           users' = [users EXCEPT ![u] = d],
           Exists(u) => /\ users[u].epoch <= d.epoch
                        /\ d.epoch = users[u].epoch =>
                             d.pw = users[u].pw /\ d.cut = users[u].cut
    PROVE  UsersTyped
<1>1. /\ users \in [Users -> Documents]
      /\ \A v \in Users : users[v].status = "none" => users[v] = Absent
  BY DEF TypeInv, TypeOK
<1>2. /\ users' \in [Users -> Documents]
      /\ \A v \in Users : users'[v] = IF v = u THEN d ELSE users[v]
  BY <1>1
<1>3. ASSUME NEW v \in Users PROVE Grows(v)
  <2>1. users[v].epoch \in Nat
    BY <1>1 DEF Documents
  <2> QED
    BY <1>2, <2>1 DEF Grows, Exists
<1> QED
  BY <1>1, <1>2, <1>3 DEF UsersTyped

LEMMA WriteUsers == ASSUME TypeInv, NEW s \in Slots, Write(s) PROVE UsersTyped
<1> DEFINE u == req[s].target
           d == Updated(req[s], users[u])
<1>1. /\ req[s] \in Requests /\ Fits(req[s]) /\ users \in [Users -> Documents]
      /\ u \in Users
  BY DEF TypeInv, TypeOK, Requests
<1>2. req[s].stage = "write"
  BY DEF Write, At
<1>3. users[u] \in Documents
  BY <1>1
<1>4. CASE Exists(u) \/ req[s].op = "create"
  <2>1. users' = [users EXCEPT ![u] = d]
    BY <1>4 DEF Write
  <2>2. /\ d \in Documents /\ d.status # "none"
        /\ Exists(u) => /\ users[u].epoch <= d.epoch
                        /\ d.epoch = users[u].epoch =>
                             d.pw = users[u].pw /\ d.cut = users[u].cut
    BY <1>1, <1>2, <1>3, <1>4, UpdatedFacts DEF Exists, Kept
  <2> HIDE DEF d, u
  <2>3. u \in Users
    BY <1>1 DEF u
  <2> QED
    BY <2>1, <2>2, <2>3, UsersChanged
<1>5. CASE ~(Exists(u) \/ req[s].op = "create")
  BY <1>5, UsersUnchanged DEF Write
<1> QED
  BY <1>4, <1>5

LEMMA FounderUsers == ASSUME TypeInv, NEW s \in Slots, InsertFounder(s) PROVE UsersTyped
<1> DEFINE u == req[s].target
<1>1. req[s] \in Requests /\ Fits(req[s]) /\ req[s].stage = "insert" /\ u \in Users
  BY DEF TypeInv, TypeOK, Requests, InsertFounder, At
<1>2. CASE Exists(u)
  BY <1>2, UsersUnchanged DEF InsertFounder
<1>3. CASE ~Exists(u)
  <2>1. users' = [users EXCEPT ![u] = Account("admin", req[s].arg)]
    BY <1>3 DEF InsertFounder
  <2>2. Account("admin", req[s].arg) \in Documents
    BY <1>1, AccountTypes DEF Fits, AllRoles
  <2>3. Account("admin", req[s].arg).status # "none"
    BY DEF Account
  <2> QED
    BY <1>1, <1>3, <2>1, <2>2, <2>3, UsersChanged
<1> QED
  BY <1>2, <1>3

LEMMA ResetUsers ==
    ASSUME TypeInv, NEW u \in Users, NEW p \in Passwords, ResetPassword(u, p)
    PROVE  UsersTyped
<1> DEFINE d == [PasswordSet(users[u], p) EXCEPT !.status = "active"]
<1>1. users[u] \in Documents /\ users[u].epoch \in Nat
  BY DEF TypeInv, TypeOK, Documents
<1>2. users' = [users EXCEPT ![u] = d]
  BY DEF ResetPassword
<1>3. d \in Documents /\ d.status = "active" /\ d.epoch = users[u].epoch + 1
  <2>1. /\ PasswordSet(users[u], p) \in Documents
        /\ PasswordSet(users[u], p).epoch = users[u].epoch + 1
    BY <1>1, CutFacts
  <2> QED
    BY <2>1, StatusFacts
<1>4. users[u].epoch <= users[u].epoch + 1 /\ users[u].epoch + 1 # users[u].epoch
  BY <1>1
<1> HIDE DEF d
<1>5. /\ users[u].epoch <= d.epoch /\ d.epoch # users[u].epoch /\ d.status # "none"
      /\ d \in Documents
  BY <1>3, <1>4
<1> QED
  BY <1>2, <1>5, UsersChanged

ReqTyped == req' \in [Slots -> Requests] /\ \A s \in Slots : Fits(req'[s])

\* The counters and histories after a step.
RestTyped ==
    /\ now' \in Nat /\ ops' \in Nat /\ faults' \in Nat
    /\ lock' \in Nat \cup {Free} /\ tokens' \subseteq Tokens
    /\ hits' \in [Users -> Windows] /\ tally' \in [Users -> Windows]
    /\ founders' \subseteq Users /\ raced' \in BOOLEAN

LEMMA TypeFrame == UsersTyped /\ ReqTyped /\ RestTyped => TypeInv'
BY DEF UsersTyped, ReqTyped, RestTyped, TypeInv, TypeOK

LEMMA AllowTypes ==
    ASSUME NEW w \in Windows, now \in Nat
    PROVE  Allow(w) \in Windows
<1>1. w.count \in Nat /\ w.start \in Nat
  BY DEF Windows
<1>2. PICK n \in Nat : n = w.count + 1
  BY <1>1
<1>3. [w EXCEPT !.count = n] \in Windows /\ [start |-> now, count |-> 1] \in Windows
  BY DEF Windows
<1> QED
  BY <1>2, <1>3 DEF Allow

\* The steps of a request after it has begun.
LEMMA HandleReq == ASSUME TypeInv, NEW s \in Slots, Handle(s) PROVE ReqTyped
<1> USE DEF Stages, ReqTyped
<1>0. req \in [Slots -> Requests] /\ Fits(req[s])
  BY DEF TypeInv, TypeOK
<1>1. CASE CountUsers(s)
  <2>1. req[s].stage = "users" /\ (Goto(s, "idle") \/ Goto(s, "lock"))
    BY <1>1 DEF CountUsers, At
  <2> QED
    BY <1>0, <2>1, GotoFacts DEF Fits
<1>2. CASE TakeLock(s)
  <2>1. req[s].stage = "lock" /\ (Goto(s, "idle") \/ Goto(s, "insert"))
    BY <1>2 DEF TakeLock, At
  <2> QED
    BY <1>0, <2>1, GotoFacts DEF Fits
<1>3. CASE InsertFounder(s)
  <2>1. req[s].stage = "insert" /\ (Goto(s, "rollback") \/ Goto(s, "unlock"))
    BY <1>3 DEF InsertFounder, At
  <2> QED
    BY <1>0, <2>1, GotoFacts DEF Fits
<1>4. CASE ReleaseLock(s) \/ ReleaseLockFails(s)
  <2>1. req[s].stage \in {"unlock", "rollback"} /\ Goto(s, "idle")
    BY <1>4 DEF ReleaseLock, ReleaseLockFails, Unlocked
  <2> QED
    BY <1>0, <2>1, GotoFacts
<1>5. CASE LoadAccount(s)
  <2> DEFINE d == IF users[req[s].target].status = "active"
                  THEN users[req[s].target] ELSE Absent
             r == [req[s] EXCEPT !.stage = "verify", !.doc = d]
  <2>1. req[s] \in Requests /\ req[s].stage = "load" /\ users \in [Users -> Documents]
    BY <1>0, <1>5 DEF LoadAccount, At, TypeInv, TypeOK
  <2>2. d \in Documents
    BY <2>1 DEF Requests, Absent, Documents, AllRoles
  <2>3. req' = [req EXCEPT ![s] = r]
    BY <1>5 DEF LoadAccount
  <2> HIDE DEF d
  <2>4. /\ r \in Requests /\ r.stage = "verify" /\ r.op = req[s].op /\ r.arg = req[s].arg
    BY <2>1, <2>2 DEF Requests
  <2> HIDE DEF r
  <2>5. Fits(r)
    BY <1>0, <2>1, <2>4 DEF Fits
  <2> QED
    BY <1>0, <2>3, <2>4, <2>5 DEF TypeInv
<1>6. CASE Verify(s)
  <2>1. req[s].stage = "verify" /\ Goto(s, "idle")
    BY <1>6 DEF Verify, At
  <2> QED
    BY <1>0, <2>1, GotoFacts
<1>7. CASE LoadTarget(s)
  <2>1. /\ req[s] \in Requests /\ req[s].stage = "target"
        /\ users \in [Users -> Documents]
    BY <1>0, <1>7 DEF LoadTarget, At, TypeInv, TypeOK
  <2>2. CASE Goto(s, "idle")
    BY <1>0, <2>1, <2>2, GotoFacts
  <2>3. ASSUME NEW st \in {"admins", "write"}, NEW d \in Documents,
               req' = [req EXCEPT ![s] = [req[s] EXCEPT !.stage = st, !.doc = d]]
        PROVE  ReqTyped
    <3> DEFINE r == [req[s] EXCEPT !.stage = st, !.doc = d]
    <3>1. /\ r \in Requests /\ r.stage = st /\ r.op = req[s].op /\ r.arg = req[s].arg
      BY <2>1 DEF Requests
    <3>2. req' = [req EXCEPT ![s] = r]
      BY <2>3
    <3> HIDE DEF r
    <3>3. Fits(r)
      BY <1>0, <2>1, <3>1 DEF Fits
    <3> QED
      BY <1>0, <3>1, <3>2, <3>3 DEF TypeInv
  <2>4. users[req[s].target] \in Documents
    BY <2>1 DEF Requests
  <2> QED
    BY <1>7, <2>2, <2>3, <2>4 DEF LoadTarget
<1>8. CASE CountAdmins(s)
  <2>1. req[s].stage = "admins" /\ (Goto(s, "idle") \/ Goto(s, "write"))
    BY <1>8 DEF CountAdmins, At
  <2> QED
    BY <1>0, <2>1, GotoFacts DEF Fits
<1>9. CASE Write(s)
  <2>1. req[s].stage = "write" /\ Goto(s, "idle")
    BY <1>9 DEF Write, At
  <2> QED
    BY <1>0, <2>1, GotoFacts
<1>10. CASE DatabaseError(s)
  <2>1. req[s].stage \in {"users", "lock", "insert", "load", "target", "admins", "write"}
    BY <1>10 DEF DatabaseError
  <2>2. CASE Goto(s, "idle")
    BY <1>0, <2>1, <2>2, GotoFacts
  <2>3. CASE req[s].stage = "load" /\ Goto(s, "verify")
    BY <1>0, <2>3, GotoFacts DEF Fits
  <2>4. CASE req[s].stage = "insert" /\ Goto(s, "rollback")
    BY <1>0, <2>4, GotoFacts DEF Fits
  <2>5. CASE req[s].stage = "admins" /\ Goto(s, "write")
    BY <1>0, <2>5, GotoFacts DEF Fits
  <2> QED
    BY <1>10, <2>2, <2>3, <2>4, <2>5 DEF DatabaseError, At
<1> QED
  BY <1>1, <1>2, <1>3, <1>4, <1>5, <1>6, <1>7, <1>8, <1>9, <1>10 DEF Handle

\* How a request begins, whatever it is for.
Begins(s) ==
    \E op \in Ops, a \in Users, u \in Users, x \in Args, st \in {"users", "load", "target", "write"} :
        /\ Start(s, op, a, u, x, st)
        /\ Fits([stage |-> st, op |-> op, actor |-> a, target |-> u, arg |-> x, doc |-> Absent])
        /\ op \in {"bootstrap", "login"} \/ Exists(a)
        /\ st = "load" => ~Blocked(u)
        /\ st = "write" => op \notin {"role", "status"}
        /\ UNCHANGED <<now, faults, storeVars, tokens, hits, histVars>>

LEMMA BeginCases ==
    ASSUME TypeInv, NEW s \in Slots, NEW u \in Users
    PROVE  /\ \A p \in Passwords : Bootstrap(s, u, p) \/ Login(s, u, p) => Begins(s)
           /\ \A t \in tokens :
                /\ \A p \in Passwords : Request(s, t, "password", u, p) => Begins(s)
                /\ \A r \in Roles, op \in {"create", "role"} : Request(s, t, op, u, r) => Begins(s)
                /\ \A x \in {"active", "disabled"} : Request(s, t, "status", u, x) => Begins(s)
                /\ Request(s, t, "revoke", u, "") => Begins(s)
<1>0. /\ Passwords \subseteq Args /\ Roles \subseteq Args /\ Roles \subseteq AllRoles
      /\ {"active", "disabled", ""} \subseteq Args
  BY AccountsAssumption DEF Args
<1>1. ASSUME NEW p \in Passwords, Bootstrap(s, u, p) PROVE Begins(s)
  BY <1>0, <1>1 DEF Bootstrap, Begins, Fits, Ops
<1>2. ASSUME NEW p \in Passwords, Login(s, u, p) PROVE Begins(s)
  BY <1>0, <1>2 DEF Login, Begins, Fits, Ops
<1>3. ASSUME NEW t \in tokens, NEW op \in {"create", "password", "role", "status", "revoke"},
             NEW x \in Args, Request(s, t, op, u, x),
             op = "password" => x \in Passwords,
             op \in {"create", "role"} => x \in AllRoles,
             op = "status" => x \in {"active", "disabled"}
      PROVE  Begins(s)
  <2> DEFINE st == IF op \in {"role", "status"} THEN "target" ELSE "write"
             a == t.user
  <2>1. a \in Users
    BY DEF TypeInv, TypeOK, Tokens
  <2>2. Exists(a)
    BY <1>3 DEF Request, Admits, Exists
  <2>3. /\ Start(s, op, a, u, x, st)
        /\ UNCHANGED <<now, faults, storeVars, tokens, hits, histVars>>
    BY <1>3 DEF Request
  <2>4. /\ op \in Ops /\ st \in {"users", "load", "target", "write"} /\ st # "load"
        /\ st = "write" => op \notin {"role", "status"}
    BY DEF Ops
  <2>5. Fits([stage |-> st, op |-> op, actor |-> a, target |-> u, arg |-> x, doc |-> Absent])
    BY <1>3 DEF Fits
  <2> HIDE DEF st, a
  <2> QED
    BY <2>1, <2>2, <2>3, <2>4, <2>5 DEF Begins
<1> QED
  BY <1>0, <1>1, <1>2, <1>3

\* The steps of the system.
LEMMA StepCases ==
    ASSUME TypeInv, Next
    PROVE  \/ \E s \in Slots : Handle(s) \/ Begins(s)
           \/ \E u \in Users, p \in Passwords : ResetPassword(u, p)
           \/ Restart \/ Janitor \/ Tick
BY BeginCases DEF Next

LEMMA BeginFacts ==
    ASSUME TypeInv, NEW s \in Slots, Begins(s)
    PROVE  /\ req[s].stage = "idle"
           /\ \A o \in Slots \ {s} : req'[o] = req[o]
           /\ req'[s].stage \in {"users", "load", "target", "write"}
           /\ req'[s].op \in {"bootstrap", "login"} \/ Exists(req'[s].actor)
           /\ req'[s].stage = "load" => ~Blocked(req'[s].target)
           /\ req'[s].stage = "write" => req'[s].op \notin {"role", "status"}
           /\ req'[s].doc = Absent
           /\ UNCHANGED <<now, faults, users, lock, tokens, hits, founders, raced, tally>>
<1>1. PICK op \in Ops, a \in Users, u \in Users, x \in Args,
           st \in {"users", "load", "target", "write"} :
        /\ Start(s, op, a, u, x, st)
        /\ Fits([stage |-> st, op |-> op, actor |-> a, target |-> u, arg |-> x, doc |-> Absent])
        /\ op \in {"bootstrap", "login"} \/ Exists(a)
        /\ st = "load" => ~Blocked(u)
        /\ st = "write" => op \notin {"role", "status"}
        /\ UNCHANGED <<now, faults, storeVars, tokens, hits, histVars>>
  BY DEF Begins
<1>2. st \in Stages
  BY DEF Stages
<1>3. /\ req[s].stage = "idle"
      /\ \A o \in Slots \ {s} : req'[o] = req[o]
      /\ req'[s] = [stage |-> st, op |-> op, actor |-> a, target |-> u,
                    arg |-> x, doc |-> Absent]
  BY <1>1, <1>2, StartFacts
<1> QED
  BY <1>1, <1>3 DEF storeVars, histVars

LEMMA BeginTypes == ASSUME TypeInv, NEW s \in Slots, Begins(s) PROVE TypeInv'
<1>1. {"users", "load", "target", "write"} \subseteq Stages
  BY DEF Stages
<1>2. ReqTyped /\ ops' \in Nat
  BY <1>1, StartFacts DEF Begins, ReqTyped
<1>3. UNCHANGED <<now, faults, storeVars, tokens, hits, histVars>>
  BY DEF Begins
<1>4. UsersTyped
  BY <1>3, UsersUnchanged DEF storeVars
<1>5. RestTyped
  BY <1>2, <1>3 DEF RestTyped, TypeInv, TypeOK, storeVars, histVars
<1> QED
  BY <1>2, <1>4, <1>5, TypeFrame

\* The accounts after a step of a request.
LEMMA HandleUsers == ASSUME TypeInv, NEW s \in Slots, Handle(s) PROVE UsersTyped
<1>1. CASE Write(s)
  BY <1>1, WriteUsers
<1>2. CASE InsertFounder(s)
  BY <1>2, FounderUsers
<1>3. CASE UNCHANGED users
  BY <1>3, UsersUnchanged
<1> QED
  BY <1>1, <1>2, <1>3
     DEF Handle, CountUsers, TakeLock, ReleaseLock, ReleaseLockFails, Unlocked, LoadAccount,
         Verify, LoadTarget, CountAdmins, DatabaseError, storeVars

LEMMA HandleRest == ASSUME TypeInv, NEW s \in Slots, Handle(s) PROVE RestTyped
<1>0. /\ now \in Nat /\ ops \in Nat /\ faults \in Nat /\ lock \in Nat \cup {Free}
      /\ tokens \subseteq Tokens /\ founders \subseteq Users /\ raced \in BOOLEAN
      /\ hits \in [Users -> Windows] /\ tally \in [Users -> Windows]
      /\ req[s] \in Requests /\ Fits(req[s]) /\ req[s].target \in Users
  BY DEF TypeInv, TypeOK, Requests
<1>1. CASE CountUsers(s) \/ LoadAccount(s) \/ CountAdmins(s) \/ Write(s)
  BY <1>0, <1>1 DEF CountUsers, LoadAccount, CountAdmins, Write, storeVars, histVars, RestTyped
<1>2. CASE TakeLock(s)
  BY <1>0, <1>2 DEF TakeLock, histVars, RestTyped
<1>3. CASE InsertFounder(s)
  <2>1. founders' = founders \/ founders' = founders \cup {req[s].target}
    BY <1>3 DEF InsertFounder
  <2> QED
    BY <1>0, <1>3, <2>1 DEF InsertFounder, RestTyped
<1>4. CASE ReleaseLock(s) \/ ReleaseLockFails(s)
  <2>1. req[s].stage = "unlock" =>
          Token(req[s].target, Account("admin", req[s].arg)) \in Tokens
    BY <1>0 DEF Fits, Token, Account, Tokens
  <2>2. Unlocked(s) /\ (UNCHANGED faults \/ Fault) /\ (lock' = Free \/ UNCHANGED lock)
    BY <1>4 DEF ReleaseLock, ReleaseLockFails
  <2>3. tokens' \subseteq Tokens
    BY <1>0, <2>1, <2>2 DEF Unlocked, At
  <2> QED
    BY <1>0, <2>2, <2>3 DEF Unlocked, Fault, histVars, RestTyped
<1>5. CASE Verify(s)
  <2> DEFINE u == req[s].target
             d == req[s].doc
  <2>1. d \in Documents /\ req[s].arg \in Passwords
    BY <1>0, <1>5 DEF Verify, At, Fits, Requests
  <2>2. d.pw = req[s].arg => Token(u, d) \in Tokens
    BY <1>0, <2>1 DEF Token, Tokens, Documents
  <2>3. tokens' \subseteq Tokens
    BY <1>0, <1>5, <2>2 DEF Verify
  <2>4. NoWindow \in Windows /\ Allow(hits[u]) \in Windows /\ Allow(tally[u]) \in Windows
    BY <1>0, AllowTypes DEF NoWindow, Windows
  <2>5. /\ hits' = [hits EXCEPT ![u] = NoWindow] \/ hits' = [hits EXCEPT ![u] = Allow(hits[u])]
        /\ tally' = [tally EXCEPT ![u] = NoWindow] \/ tally' = [tally EXCEPT ![u] = Allow(tally[u])]
    BY <1>5 DEF Verify
  <2>6. hits' \in [Users -> Windows] /\ tally' \in [Users -> Windows]
    BY <1>0, <2>4, <2>5
  <2> QED
    BY <1>0, <1>5, <2>3, <2>6 DEF Verify, storeVars, RestTyped
<1>6. CASE LoadTarget(s)
  <2>1. raced' \in BOOLEAN
    BY <1>0, <1>6 DEF LoadTarget
  <2> QED
    BY <1>0, <1>6, <2>1 DEF LoadTarget, storeVars, RestTyped
<1>7. CASE DatabaseError(s)
  BY <1>0, <1>7 DEF DatabaseError, Fault, storeVars, histVars, RestTyped
<1> QED
  BY <1>1, <1>2, <1>3, <1>4, <1>5, <1>6, <1>7 DEF Handle

\* The console, a restart of the API, the janitor and the clock.
LEMMA OtherTypes ==
    ASSUME TypeInv,
           \/ \E u \in Users, p \in Passwords : ResetPassword(u, p)
           \/ Restart \/ Janitor \/ Tick
    PROVE  TypeInv'
<1>0. /\ now \in Nat /\ ops \in Nat /\ faults \in Nat /\ lock \in Nat \cup {Free}
      /\ tokens \subseteq Tokens /\ founders \subseteq Users /\ raced \in BOOLEAN
      /\ hits \in [Users -> Windows] /\ tally \in [Users -> Windows]
      /\ NoWindow \in Windows
  BY DEF TypeInv, TypeOK, NoWindow, Windows
<1>1. UNCHANGED req => ReqTyped
  BY DEF TypeInv, TypeOK, ReqTyped
<1>2. CASE \E u \in Users, p \in Passwords : ResetPassword(u, p)
  <2>1. UsersTyped
    BY <1>2, ResetUsers
  <2>2. ReqTyped /\ RestTyped
    BY <1>0, <1>1, <1>2 DEF ResetPassword, RestTyped, histVars
  <2> QED
    BY <2>1, <2>2, TypeFrame
<1>3. CASE Restart
  <2>1. UsersTyped
    BY <1>3, UsersUnchanged DEF Restart
  <2>2. ReqTyped
    BY <1>3, IdleFits DEF Restart, ReqTyped
  <2>3. hits' \in [Users -> Windows] /\ tally' \in [Users -> Windows]
    BY <1>0, <1>3 DEF Restart
  <2>4. RestTyped
    BY <1>0, <1>3, <2>3 DEF Restart, Fault, RestTyped
  <2> QED
    BY <2>1, <2>2, <2>4, TypeFrame
<1>4. CASE Janitor
  <2>1. UsersTyped
    BY <1>4, UsersUnchanged DEF Janitor, storeVars
  <2>2. hits' \in [Users -> Windows]
    BY <1>0, <1>4 DEF Janitor
  <2>3. ReqTyped /\ RestTyped
    BY <1>0, <1>1, <1>4, <2>2 DEF Janitor, RestTyped, storeVars, histVars
  <2> QED
    BY <2>1, <2>3, TypeFrame
<1>5. CASE Tick
  <2>1. UsersTyped
    BY <1>5, UsersUnchanged DEF Tick, storeVars
  <2>2. ReqTyped /\ RestTyped
    BY <1>0, <1>1, <1>5 DEF Tick, RestTyped, storeVars, histVars
  <2> QED
    BY <2>1, <2>2, TypeFrame
<1> QED
  BY <1>2, <1>3, <1>4, <1>5

LEMMA TypeStep == TypeInv /\ [Next]_vars => TypeInv'
<1> SUFFICES ASSUME TypeInv, [Next]_vars PROVE TypeInv'
  OBVIOUS
<1>1. CASE Next
  <2>1. ASSUME NEW s \in Slots, Handle(s) PROVE TypeInv'
    BY <2>1, HandleReq, HandleUsers, HandleRest, TypeFrame
  <2> QED
    BY <1>1, <2>1, StepCases, BeginTypes, OtherTypes
<1>2. CASE UNCHANGED vars
  <2>1. UsersTyped
    BY <1>2, UsersUnchanged DEF vars, storeVars
  <2>2. ReqTyped /\ RestTyped
    BY <1>2 DEF vars, storeVars, histVars, ReqTyped, RestTyped, TypeInv, TypeOK
  <2> QED
    BY <2>1, <2>2, TypeFrame
<1> QED
  BY <1>1, <1>2

\* Every variable of the accounts keeps its type, and every request in work
\* fits the handler that runs it (authRegisterHandler, authLoginHandler,
\* usersHandler and the access changes).
THEOREM TypeCorrect == Spec => []TypeInv
<1> QED
  BY TypeInit, TypeStep, PTL DEF Spec

-----------------------------------------------------------------------------
(* Sessions.                                                               *)

\* The request in slot s moves on to stage st and keeps the rest.
Advances(s, st) ==
    /\ req'[s].stage = st
    /\ req'[s].op = req[s].op /\ req'[s].actor = req[s].actor
    /\ req'[s].target = req[s].target /\ req'[s].arg = req[s].arg
    /\ req'[s].doc = req[s].doc

Loads(s, st, d) ==
    /\ req'[s].stage = st
    /\ req'[s].op = req[s].op /\ req'[s].actor = req[s].actor
    /\ req'[s].target = req[s].target /\ req'[s].arg = req[s].arg
    /\ req'[s].doc = d

LEMMA IdleStage == Idle.stage = "idle"
BY DEF Idle

\* Where each step takes its request; the other requests stay where they are.
LEMMA MoveFacts ==
    ASSUME TypeInv, NEW s \in Slots, Handle(s)
    PROVE  /\ \A o \in Slots \ {s} : req'[o] = req[o]
           /\ CountUsers(s) => req'[s] = Idle \/ Advances(s, "lock")
           /\ TakeLock(s) => IF lock = Free THEN Advances(s, "insert") ELSE req'[s] = Idle
           /\ InsertFounder(s) =>
                IF Exists(req[s].target) THEN Advances(s, "rollback") ELSE Advances(s, "unlock")
           /\ Unlocked(s) \/ Verify(s) \/ Write(s) => req'[s] = Idle
           /\ LoadAccount(s) => Loads(s, "verify", IF users[req[s].target].status = "active"
                                                  THEN users[req[s].target] ELSE Absent)
           /\ LoadTarget(s) =>
                \/ req'[s] = Idle
                \/ /\ Exists(req[s].target)
                   /\ Loads(s, IF req[s].arg = "active" THEN "write" ELSE "admins",
                            users[req[s].target])
           /\ CountAdmins(s) =>
                IF Forbidden(req[s], Cardinality(ActiveAdmins))
                THEN req'[s] = Idle ELSE Advances(s, "write")
           /\ DatabaseError(s) =>
                \/ req'[s] = Idle
                \/ req[s].stage = "load" /\ Advances(s, "verify")
                \/ req[s].stage = "insert" /\ Advances(s, "rollback")
                \/ /\ req[s].stage = "admins" /\ ~Forbidden(req[s], 0)
                   /\ Advances(s, "write")
<1> USE DEF Stages
<1>0. /\ req \in [Slots -> Requests] /\ Fits(req[s]) /\ req[s] \in Requests
      /\ users \in [Users -> Documents] /\ req[s].target \in Users
  BY DEF TypeInv, TypeOK, Requests
<1>1. ASSUME NEW st \in Stages, Goto(s, st),
             \/ st = "idle"
             \/ st \in {"users", "lock", "insert", "unlock", "rollback"} /\ req[s].op = "bootstrap"
             \/ st \in {"load", "verify"} /\ req[s].op = "login"
             \/ st \in {"admins", "write"} /\ req[s].op \in {"role", "status"},
             req[s].stage # "idle"
      PROVE  /\ \A o \in Slots \ {s} : req'[o] = req[o]
             /\ IF st = "idle" THEN req'[s] = Idle ELSE Advances(s, st)
  BY <1>1, GotoFacts DEF Advances
<1>2. ASSUME NEW st \in Stages, NEW d, req' = [req EXCEPT ![s].stage = st, ![s].doc = d]
      PROVE  (\A o \in Slots \ {s} : req'[o] = req[o]) /\ Loads(s, st, d)
  BY <1>0, <1>2 DEF Requests, Loads
<1>3. CountUsers(s) => /\ \A o \in Slots \ {s} : req'[o] = req[o]
                       /\ req'[s] = Idle \/ Advances(s, "lock")
  <2> SUFFICES ASSUME CountUsers(s)
               PROVE  /\ \A o \in Slots \ {s} : req'[o] = req[o]
                      /\ req'[s] = Idle \/ Advances(s, "lock")
    OBVIOUS
  <2>1. req[s].stage = "users" /\ (Goto(s, "idle") \/ Goto(s, "lock"))
    BY DEF CountUsers, At
  <2> QED
    BY <1>0, <1>1, <2>1 DEF Fits
<1>4. TakeLock(s) => /\ \A o \in Slots \ {s} : req'[o] = req[o]
                     /\ IF lock = Free THEN Advances(s, "insert") ELSE req'[s] = Idle
  <2> SUFFICES ASSUME TakeLock(s)
               PROVE  /\ \A o \in Slots \ {s} : req'[o] = req[o]
                      /\ IF lock = Free THEN Advances(s, "insert") ELSE req'[s] = Idle
    OBVIOUS
  <2>1. req[s].stage = "lock" /\ IF lock = Free THEN Goto(s, "insert") ELSE Goto(s, "idle")
    BY DEF TakeLock, At
  <2> QED
    BY <1>0, <1>1, <2>1 DEF Fits
<1>5. InsertFounder(s) =>
        /\ \A o \in Slots \ {s} : req'[o] = req[o]
        /\ IF Exists(req[s].target) THEN Advances(s, "rollback") ELSE Advances(s, "unlock")
  <2> SUFFICES ASSUME InsertFounder(s)
               PROVE  /\ \A o \in Slots \ {s} : req'[o] = req[o]
                      /\ IF Exists(req[s].target) THEN Advances(s, "rollback")
                                                  ELSE Advances(s, "unlock")
    OBVIOUS
  <2>1. /\ req[s].stage = "insert"
        /\ IF Exists(req[s].target) THEN Goto(s, "rollback") ELSE Goto(s, "unlock")
    BY DEF InsertFounder, At
  <2> QED
    BY <1>0, <1>1, <2>1 DEF Fits
<1>6. Unlocked(s) \/ Verify(s) \/ Write(s) =>
        (\A o \in Slots \ {s} : req'[o] = req[o]) /\ req'[s] = Idle
  <2> SUFFICES ASSUME Unlocked(s) \/ Verify(s) \/ Write(s)
               PROVE  (\A o \in Slots \ {s} : req'[o] = req[o]) /\ req'[s] = Idle
    OBVIOUS
  <2>1. req[s].stage # "idle" /\ Goto(s, "idle")
    BY DEF Unlocked, Verify, Write, At
  <2> QED
    BY <1>1, <2>1
<1>7. LoadAccount(s) =>
        /\ \A o \in Slots \ {s} : req'[o] = req[o]
        /\ Loads(s, "verify", IF users[req[s].target].status = "active"
                              THEN users[req[s].target] ELSE Absent)
  BY <1>2 DEF LoadAccount
<1>8. LoadTarget(s) =>
        /\ \A o \in Slots \ {s} : req'[o] = req[o]
        /\ \/ req'[s] = Idle
           \/ /\ Exists(req[s].target)
              /\ Loads(s, IF req[s].arg = "active" THEN "write" ELSE "admins",
                       users[req[s].target])
  <2> SUFFICES ASSUME LoadTarget(s)
               PROVE  /\ \A o \in Slots \ {s} : req'[o] = req[o]
                      /\ \/ req'[s] = Idle
                         \/ /\ Exists(req[s].target)
                            /\ Loads(s, IF req[s].arg = "active" THEN "write" ELSE "admins",
                                     users[req[s].target])
    OBVIOUS
  <2>1. CASE Goto(s, "idle")
    <3>1. req[s].stage # "idle"
      BY DEF LoadTarget, At
    <3> QED
      BY <1>1, <2>1, <3>1
  <2>2. CASE Exists(req[s].target)
    BY <1>2, <2>2 DEF LoadTarget, Exists
  <2> QED
    BY <2>1, <2>2 DEF LoadTarget, Exists
<1>9. CountAdmins(s) =>
        /\ \A o \in Slots \ {s} : req'[o] = req[o]
        /\ IF Forbidden(req[s], Cardinality(ActiveAdmins))
           THEN req'[s] = Idle ELSE Advances(s, "write")
  <2> SUFFICES ASSUME CountAdmins(s)
               PROVE  /\ \A o \in Slots \ {s} : req'[o] = req[o]
                      /\ IF Forbidden(req[s], Cardinality(ActiveAdmins))
                         THEN req'[s] = Idle ELSE Advances(s, "write")
    OBVIOUS
  <2>1. /\ req[s].stage = "admins"
        /\ IF Forbidden(req[s], Cardinality(ActiveAdmins))
           THEN Goto(s, "idle") ELSE Goto(s, "write")
    BY DEF CountAdmins, At
  <2> QED
    BY <1>0, <1>1, <2>1 DEF Fits
<1>10. DatabaseError(s) =>
         /\ \A o \in Slots \ {s} : req'[o] = req[o]
         /\ \/ req'[s] = Idle
            \/ req[s].stage = "load" /\ Advances(s, "verify")
            \/ req[s].stage = "insert" /\ Advances(s, "rollback")
            \/ /\ req[s].stage = "admins" /\ ~Forbidden(req[s], 0)
               /\ Advances(s, "write")
  <2> SUFFICES ASSUME DatabaseError(s)
               PROVE  /\ \A o \in Slots \ {s} : req'[o] = req[o]
                      /\ \/ req'[s] = Idle
                         \/ req[s].stage = "load" /\ Advances(s, "verify")
                         \/ req[s].stage = "insert" /\ Advances(s, "rollback")
                         \/ /\ req[s].stage = "admins" /\ ~Forbidden(req[s], 0)
                            /\ Advances(s, "write")
    OBVIOUS
  <2>1. /\ req[s].stage \in {"users", "lock", "insert", "load", "target", "admins", "write"}
        /\ \/ Goto(s, "idle")
           \/ req[s].stage = "load" /\ Goto(s, "verify")
           \/ req[s].stage = "insert" /\ Goto(s, "rollback")
           \/ req[s].stage = "admins" /\ ~Forbidden(req[s], 0) /\ Goto(s, "write")
    BY DEF DatabaseError, At
  <2> QED
    BY <1>0, <1>1, <2>1 DEF Fits
<1> QED
  BY <1>3, <1>4, <1>5, <1>6, <1>7, <1>8, <1>9, <1>10 DEF Handle, ReleaseLock, ReleaseLockFails

\* What a session or a sign-in knows of its account: the epoch was that of the
\* account once, and while it still is, so are the password and the cut.
Current(u, e, p, c) ==
    /\ Exists(u) /\ e \in Nat /\ e <= users[u].epoch
    /\ e = users[u].epoch => p = users[u].pw /\ c = users[u].cut

TokensCurrent == \A t \in tokens : Current(t.user, t.epoch, t.pw, t.cut)

RequestCurrent(s) ==
    /\ req[s].stage = "unlock" => Current(req[s].target, 0, req[s].arg, 0)
    /\ req[s].stage = "load" => req[s].doc = Absent
    /\ req[s].stage = "verify" /\ req[s].doc.status = "active" =>
         Current(req[s].target, req[s].doc.epoch, req[s].doc.pw, req[s].doc.cut)

SessionsInv == TypeInv /\ TokensCurrent /\ \A s \in Slots : RequestCurrent(s)

LEMMA SessionsInit == Init => SessionsInv
<1> SUFFICES ASSUME Init PROVE SessionsInv
  OBVIOUS
<1>1. TypeInv
  BY TypeInit
<1>2. PICK A \in SUBSET Users :
        /\ users = [u \in Users |-> IF u \in A THEN Account("admin", FirstPassword)
                                                ELSE Absent]
        /\ tokens = {Token(u, Account("admin", FirstPassword)) : u \in A}
  BY DEF Init
<1>3. TokensCurrent
  BY <1>2 DEF TokensCurrent, Current, Exists, Token, Account
<1>4. \A s \in Slots : RequestCurrent(s)
  BY IdleStage DEF Init, RequestCurrent
<1> QED
  BY <1>1, <1>3, <1>4 DEF SessionsInv

\* What is known of an account stays true: whatever changes its password or
\* its cut also moves its epoch.
LEMMA CurrentStays ==
    ASSUME TypeInv, UsersTyped, NEW u \in Users, NEW e, NEW p, NEW c, Current(u, e, p, c)
    PROVE  Current(u, e, p, c)'
<1>1. users[u].epoch \in Nat /\ users'[u].epoch \in Nat
  BY DEF TypeInv, TypeOK, UsersTyped, Documents
<1> QED
  BY <1>1 DEF UsersTyped, Grows, Current, Exists

\* The tokens and the requests that a step leaves alone.
LEMMA TokensStay ==
    ASSUME SessionsInv, UsersTyped
    PROVE  \A t \in tokens : Current(t.user, t.epoch, t.pw, t.cut)'
<1> TAKE t \in tokens
<1>1. t \in Tokens /\ Current(t.user, t.epoch, t.pw, t.cut)
  BY DEF SessionsInv, TypeInv, TypeOK, Tokens, TokensCurrent
<1>2. PICK u \in Users, e \in Nat, p \in Passwords, c \in Nat :
        u = t.user /\ e = t.epoch /\ p = t.pw /\ c = t.cut
  BY <1>1 DEF Tokens
<1>3. Current(u, e, p, c)'
  BY <1>1, <1>2, CurrentStays DEF SessionsInv
<1> QED
  BY <1>2, <1>3

LEMMA RequestStays ==
    ASSUME SessionsInv, UsersTyped, NEW s \in Slots, req'[s] = req[s]
    PROVE  RequestCurrent(s)'
<1> DEFINE r == req[s]
<1>1. r \in Requests /\ r.target \in Users /\ RequestCurrent(s)
  BY DEF SessionsInv, TypeInv, TypeOK, Requests
<1>2. PICK u \in Users, x \in Args, d \in Documents : u = r.target /\ x = r.arg /\ d = r.doc
  BY <1>1 DEF Requests
<1>3. r.stage = "unlock" => Current(u, 0, x, 0)'
  BY <1>1, <1>2, CurrentStays DEF RequestCurrent, SessionsInv
<1>4. r.stage = "verify" /\ d.status = "active" => Current(u, d.epoch, d.pw, d.cut)'
  BY <1>1, <1>2, CurrentStays DEF RequestCurrent, SessionsInv
<1> QED
  BY <1>1, <1>2, <1>3, <1>4 DEF RequestCurrent

LEMMA HandleSessions ==
    ASSUME SessionsInv, NEW s \in Slots, Handle(s), UsersTyped
    PROVE  TokensCurrent' /\ RequestCurrent(s)'
<1>0. /\ TypeInv /\ req \in [Slots -> Requests] /\ Fits(req[s]) /\ req[s].target \in Users
      /\ RequestCurrent(s)
      /\ users \in [Users -> Documents] /\ users' \in [Users -> Documents]
  BY DEF SessionsInv, TypeInv, TypeOK, Requests, UsersTyped
<1>1. req'[s] = Idle => RequestCurrent(s)'
  BY IdleStage DEF RequestCurrent
<1>2. UNCHANGED tokens => TokensCurrent'
  BY TokensStay DEF TokensCurrent
<1>3. ASSUME NEW st \in {"lock", "insert", "rollback", "admins", "write"}, Advances(s, st)
      PROVE  RequestCurrent(s)'
  BY <1>3 DEF Advances, RequestCurrent
<1>12. Absent.status # "active"
  BY DEF Absent
<1>4. CASE CountUsers(s) \/ TakeLock(s) \/ CountAdmins(s)
  BY <1>1, <1>2, <1>3, <1>4, MoveFacts, <1>0 DEF CountUsers, TakeLock, CountAdmins
<1>5. CASE InsertFounder(s)
  <2>1. TokensCurrent'
    BY <1>2, <1>5 DEF InsertFounder
  <2>2. CASE Exists(req[s].target)
    BY <1>0, <1>3, <1>5, <2>1, <2>2, MoveFacts
  <2>3. CASE ~Exists(req[s].target)
    <3>1. /\ users'[req[s].target] = Account("admin", req[s].arg)
          /\ Advances(s, "unlock")
      BY <1>0, <1>5, <2>3, MoveFacts DEF InsertFounder
    <3>2. Current(req[s].target, 0, req[s].arg, 0)'
      BY <3>1 DEF Advances, Current, Exists, Account
    <3> QED
      BY <2>1, <3>1, <3>2 DEF Advances, RequestCurrent
  <2> QED
    BY <2>2, <2>3
<1>6. CASE Unlocked(s)
  <2>1. UNCHANGED users
    BY <1>6 DEF Unlocked
  <2>2. ASSUME NEW t \in tokens', t \notin tokens
        PROVE  Current(t.user, t.epoch, t.pw, t.cut)'
    <3>1. /\ req[s].stage = "unlock"
          /\ t = Token(req[s].target, Account("admin", req[s].arg))
      BY <1>6, <2>2 DEF Unlocked, At
    <3>2. t.user = req[s].target /\ t.epoch = 0 /\ t.pw = req[s].arg /\ t.cut = 0
      BY <3>1 DEF Token, Account
    <3> QED
      BY <1>0, <2>1, <3>1, <3>2 DEF RequestCurrent, Current, Exists
  <2>3. TokensCurrent'
    BY <2>2, TokensStay DEF TokensCurrent
  <2> QED
    BY <1>0, <1>1, <1>6, <2>3, MoveFacts
<1>7. CASE LoadAccount(s)
  <2> DEFINE u == req[s].target
  <2>1. UNCHANGED <<tokens, users>>
    BY <1>7 DEF LoadAccount, storeVars
  <2>2. Loads(s, "verify", IF users[u].status = "active" THEN users[u] ELSE Absent)
    BY <1>0, <1>7, MoveFacts
  <2>3. users[u].epoch \in Nat
    BY <1>0 DEF Documents
  <2>4. CASE users[u].status = "active"
    BY <1>2, <2>1, <2>2, <2>3, <2>4 DEF Loads, RequestCurrent, Current, Exists
  <2>5. CASE users[u].status # "active"
    <3>1. req'[s].stage = "verify" /\ req'[s].doc.status # "active"
      BY <1>12, <2>2, <2>5 DEF Loads
    <3> QED
      BY <1>2, <2>1, <3>1 DEF RequestCurrent
  <2> QED
    BY <2>4, <2>5
<1>8. CASE Verify(s)
  <2>1. UNCHANGED users /\ req[s].stage = "verify"
    BY <1>8 DEF Verify, storeVars, At
  <2>2. ASSUME NEW t \in tokens', t \notin tokens
        PROVE  Current(t.user, t.epoch, t.pw, t.cut)'
    <3>1. /\ req[s].doc.status = "active"
          /\ t = Token(req[s].target, req[s].doc)
      BY <1>8, <2>2 DEF Verify
    <3>2. /\ t.user = req[s].target /\ t.epoch = req[s].doc.epoch /\ t.pw = req[s].doc.pw
          /\ t.cut = req[s].doc.cut
      BY <3>1 DEF Token
    <3> QED
      BY <1>0, <2>1, <3>1, <3>2 DEF RequestCurrent, Current, Exists
  <2>3. TokensCurrent'
    BY <2>2, TokensStay DEF TokensCurrent
  <2> QED
    BY <1>0, <1>1, <1>8, <2>3, MoveFacts
<1>9. CASE LoadTarget(s)
  <2>1. TokensCurrent'
    BY <1>2, <1>9 DEF LoadTarget
  <2>2. ASSUME NEW st \in {"admins", "write"}, NEW d, Loads(s, st, d) PROVE RequestCurrent(s)'
    BY <2>2 DEF Loads, RequestCurrent
  <2> QED
    BY <1>0, <1>1, <1>9, <2>1, <2>2, MoveFacts
<1>10. CASE Write(s)
  BY <1>0, <1>1, <1>2, <1>10, MoveFacts DEF Write
<1>11. CASE DatabaseError(s)
  <2>1. TokensCurrent'
    BY <1>2, <1>11 DEF DatabaseError
  <2>2. req[s].stage = "load" /\ Advances(s, "verify") => RequestCurrent(s)'
    BY <1>0, <1>12 DEF Advances, RequestCurrent
  <2> QED
    BY <1>0, <1>1, <1>3, <1>11, <2>1, <2>2, MoveFacts
<1> QED
  BY <1>4, <1>5, <1>6, <1>7, <1>8, <1>9, <1>10, <1>11
     DEF Handle, ReleaseLock, ReleaseLockFails

LEMMA SessionsStep == SessionsInv /\ [Next]_vars => SessionsInv'
<1> SUFFICES ASSUME SessionsInv, [Next]_vars PROVE SessionsInv'
  OBVIOUS
<1>0. TypeInv /\ TypeInv'
  BY TypeStep DEF SessionsInv
<1>1. CASE Next
  <2>1. ASSUME NEW s \in Slots, Handle(s) PROVE SessionsInv'
    <3>1. UsersTyped
      BY <1>0, <2>1, HandleUsers
    <3>2. TokensCurrent' /\ RequestCurrent(s)'
      BY <2>1, <3>1, HandleSessions
    <3>3. \A o \in Slots \ {s} : RequestCurrent(o)'
      BY <1>0, <2>1, <3>1, MoveFacts, RequestStays
    <3> QED
      BY <1>0, <3>2, <3>3 DEF SessionsInv
  <2>2. ASSUME NEW s \in Slots, Begins(s) PROVE SessionsInv'
    <3>1. UNCHANGED <<users, tokens>>
      BY <2>2 DEF Begins, storeVars
    <3>2. UsersTyped
      BY <1>0, <3>1, UsersUnchanged
    <3>3. /\ \A o \in Slots \ {s} : req'[o] = req[o]
          /\ req'[s].stage \in {"users", "load", "target", "write"} /\ req'[s].doc = Absent
      BY <1>0, <2>2, BeginFacts
    <3>4. \A o \in Slots \ {s} : RequestCurrent(o)'
      BY <3>2, <3>3, RequestStays
    <3>5. RequestCurrent(s)'
      BY <3>3 DEF RequestCurrent
    <3> QED
      BY <1>0, <3>1, <3>2, <3>4, <3>5, TokensStay DEF SessionsInv, TokensCurrent
  <2>3. ASSUME UsersTyped, UNCHANGED tokens,
               UNCHANGED req \/ req' = [s \in Slots |-> Idle]
        PROVE  SessionsInv'
    <3>1. TokensCurrent'
      BY <2>3, TokensStay DEF TokensCurrent
    <3>2. ASSUME NEW s \in Slots PROVE RequestCurrent(s)'
      <4>1. CASE UNCHANGED req
        BY <2>3, <4>1, RequestStays
      <4>2. CASE req'[s] = Idle
        BY <4>2, IdleStage DEF RequestCurrent
      <4> QED
        BY <2>3, <4>1, <4>2
    <3> QED
      BY <1>0, <3>1, <3>2 DEF SessionsInv
  <2>4. CASE \E u \in Users, p \in Passwords : ResetPassword(u, p)
    BY <1>0, <2>3, <2>4, ResetUsers DEF ResetPassword
  <2>5. CASE Restart \/ Janitor \/ Tick
    BY <1>0, <2>3, <2>5, UsersUnchanged DEF Restart, Janitor, Tick, storeVars
  <2> QED
    BY <1>0, <1>1, <2>1, <2>2, <2>4, <2>5, StepCases
<1>2. CASE UNCHANGED vars
  <2>1. UNCHANGED <<users, tokens, req>>
    BY <1>2 DEF vars, storeVars
  <2>2. UsersTyped
    BY <1>0, <2>1, UsersUnchanged
  <2> QED
    BY <1>0, <2>1, <2>2, TokensStay, RequestStays DEF SessionsInv, TokensCurrent
<1> QED
  BY <1>1, <1>2

\* requireAuth admits a session only if it was earned with the password in
\* force and since the last event that ends the sessions of its account: a
\* new password, a deactivation or a revocation, also one between the lookup
\* of a sign-in and its answer (authLoginHandler).
THEOREM SessionsAreEarned == Spec => []SessionInv
<1>1. SessionsInv => SessionInv
  BY DEF SessionsInv, TokensCurrent, Current, SessionInv, SessionsEarned, Admits, TypeInv
<1> QED
  BY <1>1, SessionsInit, SessionsStep, PTL DEF Spec

-----------------------------------------------------------------------------
(* The bootstrap lock.                                                     *)

PastLock(s) == req[s].stage \in {"insert", "unlock", "rollback"}

LockInv ==
    /\ TypeInv
    /\ \A s \in Slots : PastLock(s) => lock # Free
    /\ \A s, o \in Slots : PastLock(s) /\ PastLock(o) => s = o

\* A set whose elements are all equal has at most one.
LEMMA AtMostOne ==
    ASSUME NEW S, \A x, y \in S : x = y
    PROVE  Cardinality(S) <= 1
<1>1. CASE S = {}
  BY <1>1, FS_EmptySet
<1>2. CASE S # {}
  <2>1. PICK x \in S : TRUE
    BY <1>2
  <2>2. S = {x}
    BY <2>1
  <2> QED
    BY <2>2, FS_Singleton
<1> QED
  BY <1>1, <1>2

\* The steps of a request between the lock and its release.
LEMMA HandleLock == ASSUME LockInv, NEW s \in Slots, Handle(s) PROVE LockInv'
<1>0. TypeInv /\ TypeInv' /\ now \in Nat
  <2>1. TypeInv
    BY DEF LockInv
  <2> QED
    BY <2>1, HandleReq, HandleUsers, HandleRest, TypeFrame DEF TypeInv, TypeOK
<1>1. \A o \in Slots \ {s} : PastLock(o)' = PastLock(o)
  BY <1>0, MoveFacts DEF PastLock
<1>2. ASSUME UNCHANGED lock, PastLock(s)' => PastLock(s) PROVE LockInv'
  BY <1>0, <1>1, <1>2 DEF LockInv
<1>3. req'[s] = Idle => ~PastLock(s)'
  BY IdleStage DEF PastLock
<1>4. CASE TakeLock(s)
  <2>1. CASE lock = Free
    <3>1. lock' # Free
      BY <1>0, <1>4, <2>1 DEF TakeLock, Free
    <3>2. \A o \in Slots \ {s} : ~PastLock(o)
      BY <2>1 DEF LockInv
    <3> QED
      BY <1>0, <1>1, <3>1, <3>2 DEF LockInv
  <2>2. CASE lock # Free
    BY <1>0, <1>2, <1>3, <1>4, <2>2, MoveFacts DEF TakeLock
  <2> QED
    BY <2>1, <2>2
<1>5. CASE Unlocked(s)
  <2>1. PastLock(s) /\ ~PastLock(s)'
    BY <1>0, <1>3, <1>5, MoveFacts DEF Unlocked, PastLock
  <2>2. \A o \in Slots : ~PastLock(o)'
    BY <1>1, <2>1 DEF LockInv
  <2> QED
    BY <1>0, <2>2 DEF LockInv
<1>6. CASE InsertFounder(s)
  BY <1>2, <1>6 DEF InsertFounder, PastLock, At
<1>7. CASE CountUsers(s) \/ CountAdmins(s) \/ LoadAccount(s) \/ LoadTarget(s)
  <2>1. ~PastLock(s)'
    BY <1>0, <1>3, <1>7, MoveFacts DEF PastLock, Advances, Loads
  <2> QED
    BY <1>2, <1>7, <2>1 DEF CountUsers, CountAdmins, LoadAccount, LoadTarget, storeVars
<1>8. CASE Verify(s) \/ Write(s)
  <2>1. ~PastLock(s)'
    BY <1>0, <1>3, <1>8, MoveFacts
  <2> QED
    BY <1>2, <1>8, <2>1 DEF Verify, Write, storeVars
<1>9. CASE DatabaseError(s)
  <2>1. PastLock(s)' => PastLock(s)
    BY <1>0, <1>3, <1>9, MoveFacts DEF PastLock, Advances
  <2> QED
    BY <1>2, <1>9, <2>1 DEF DatabaseError, storeVars
<1> QED
  BY <1>4, <1>5, <1>6, <1>7, <1>8, <1>9 DEF Handle, ReleaseLock, ReleaseLockFails

LEMMA LockStep == LockInv /\ [Next]_vars => LockInv'
<1> SUFFICES ASSUME LockInv, [Next]_vars PROVE LockInv'
  OBVIOUS
<1>0. TypeInv /\ TypeInv'
  BY TypeStep DEF LockInv
<1>1. CASE Next
  <2>1. ASSUME NEW s \in Slots, Begins(s) PROVE LockInv'
    BY <1>0, <2>1, BeginFacts DEF LockInv, PastLock
  <2>2. CASE \E u \in Users, p \in Passwords : ResetPassword(u, p)
    BY <1>0, <2>2 DEF ResetPassword, LockInv, PastLock
  <2>3. CASE Restart
    BY <1>0, <2>3, IdleStage DEF Restart, LockInv, PastLock
  <2>4. CASE Janitor \/ Tick
    BY <1>0, <2>4 DEF Janitor, Tick, storeVars, LockInv, PastLock
  <2> QED
    BY <1>0, <1>1, <2>1, <2>2, <2>3, <2>4, HandleLock, StepCases
<1>2. CASE UNCHANGED vars
  BY <1>0, <1>2 DEF vars, storeVars, LockInv, PastLock
<1> QED
  BY <1>1, <1>2

\* dashboard_bootstrap is a lock (acquireBootstrapLock): at most one request
\* is between taking it and releasing it, and nothing removes it meanwhile.
THEOREM BootstrapIsExclusive == Spec => []BootstrapExclusive
<1>1. Init => LockInv
  BY TypeInit, IdleStage DEF Init, LockInv, PastLock
<1>2. LockInv => BootstrapExclusive
  BY AtMostOne DEF LockInv, BootstrapExclusive, Bootstrapping, PastLock
<1> QED
  BY <1>1, <1>2, LockStep, PTL DEF Spec

-----------------------------------------------------------------------------
(* The throttle of failed sign-ins.                                        *)

\* Allow counts the next attempt into this window.
Live(w) == w.count > 0 /\ now - w.start < Window

\* The sign-ins for u that have passed the check.
Trying(u) == {s \in Slots : req[s].stage \in {"load", "verify"} /\ req[s].target = u}

Limit == FailLimit - 1 + Cardinality(Slots)

\* The limiter's window and the tally agree or neither counts; while one does,
\* there is room for every sign-in that has passed the check.
Throttled(u) ==
    /\ hits[u] = tally[u] \/ (~Live(hits[u]) /\ ~Live(tally[u]))
    /\ tally[u].count <= Limit
    /\ Live(tally[u]) => tally[u].count + Cardinality(Trying(u)) <= Limit

ThrottleInv == TypeInv /\ \A u \in Users : Throttled(u)

LEMMA LimitNat == Limit \in Nat /\ Cardinality(Slots) \in Nat /\ FailLimit \in Nat /\ FailLimit >= 1
<1>1. Cardinality(Slots) \in Nat
  BY FS_CardinalityType, AccountsAssumption
<1> QED
  BY <1>1, AccountsAssumption DEF Limit

LEMMA SlotSets ==
    ASSUME NEW S \in SUBSET Slots
    PROVE  /\ IsFiniteSet(S) /\ Cardinality(S) \in Nat
           /\ Cardinality(S) <= Cardinality(Slots)
           /\ \A T \in SUBSET S : Cardinality(T) \in Nat /\ Cardinality(T) <= Cardinality(S)
           /\ \A s \in S : Cardinality(S \ {s}) = Cardinality(S) - 1
<1>1. IsFiniteSet(S) /\ Cardinality(S) <= Cardinality(Slots)
  BY FS_Subset, AccountsAssumption
<1> QED
  BY <1>1, FS_Subset, FS_CardinalityType, FS_RemoveElement

\* A step that neither counts an attempt for u nor starts one.
LEMMA ThrottledStays ==
    ASSUME TypeInv, NEW u \in Users, Throttled(u),
           now' = now, hits'[u] = hits[u], tally'[u] = tally[u], Trying(u)' \subseteq Trying(u)
    PROVE  Throttled(u)'
<1>1. Trying(u) \in SUBSET Slots /\ tally[u].count \in Nat
  BY DEF Trying, TypeInv, TypeOK, Windows
<1>2. /\ Cardinality(Trying(u)) \in Nat /\ Cardinality(Trying(u)') \in Nat
      /\ Cardinality(Trying(u)') <= Cardinality(Trying(u))
  BY <1>1, SlotSets
<1>3. ASSUME NEW n \in Nat, NEW m \in Nat, m <= n, tally[u].count + n <= Limit
      PROVE  tally[u].count + m <= Limit
  BY <1>1, <1>3, LimitNat
<1>4. /\ Cardinality(Trying(u))' = Cardinality(Trying(u)')
      /\ Live(tally[u])' = Live(tally[u]) /\ Live(hits[u])' = Live(hits[u])
  BY DEF Live
<1> QED
  BY <1>2, <1>3, <1>4 DEF Throttled, Limit

LEMMA NoWindowDead == NoWindow.count = 0
BY DEF NoWindow

\* A new pair of windows that agree and do not count.
LEMMA ThrottledAnew ==
    ASSUME NEW u \in Users, hits'[u] = NoWindow, tally'[u] = NoWindow
    PROVE  Throttled(u)'
BY NoWindowDead, LimitNat DEF Throttled, Live, Limit

\* A sign-in passes the check.
LEMMA BeginThrottle ==
    ASSUME ThrottleInv, NEW s \in Slots, Begins(s), NEW u \in Users
    PROVE  Throttled(u)'
<1>0. TypeInv /\ Throttled(u) /\ tally[u] \in Windows /\ now \in Nat
  BY DEF ThrottleInv, TypeInv, TypeOK
<1>1. /\ req[s].stage = "idle" /\ \A o \in Slots \ {s} : req'[o] = req[o]
      /\ req'[s].stage \in {"users", "load", "target", "write"}
      /\ req'[s].stage = "load" => ~Blocked(req'[s].target)
      /\ UNCHANGED <<now, hits, tally>>
  BY <1>0, BeginFacts
<1>2. CASE req'[s].stage = "load" /\ req'[s].target = u
  <2>1. ~Blocked(u)
    BY <1>1, <1>2
  <2>2. tally[u].count \in Nat /\ tally[u].start \in Nat
    BY <1>0 DEF Windows
  <2>3. Trying(u)' \in SUBSET Slots
    BY DEF Trying
  <2>4. /\ Cardinality(Trying(u)') \in Nat
        /\ Cardinality(Trying(u)') <= Cardinality(Slots)
    BY <2>3, SlotSets
  <2>5. Live(tally[u]) => tally[u].count <= FailLimit - 1
    BY <1>0, <2>1, <2>2, LimitNat DEF Throttled, Live, Blocked
  <2>6. Live(tally[u]) => tally[u].count + Cardinality(Trying(u)') <= Limit
    BY <2>2, <2>4, <2>5, LimitNat DEF Limit
  <2>7. Cardinality(Trying(u))' = Cardinality(Trying(u)')
    OBVIOUS
  <2>8. /\ Live(tally[u])' = Live(tally[u]) /\ Live(hits[u])' = Live(hits[u])
        /\ tally'[u] = tally[u] /\ hits'[u] = hits[u]
    BY <1>1 DEF Live
  <2> QED
    BY <1>0, <2>6, <2>7, <2>8 DEF Throttled, Limit
<1>3. CASE ~(req'[s].stage = "load" /\ req'[s].target = u)
  <2>1. Trying(u)' \subseteq Trying(u)
    BY <1>1, <1>3 DEF Trying
  <2> QED
    BY <1>0, <1>1, <2>1, ThrottledStays
<1> QED
  BY <1>2, <1>3

\* One more attempt in a window.
LEMMA AllowFacts ==
    ASSUME NEW w \in Windows, now \in Nat
    PROVE  /\ w.count \in Nat
           /\ Live(w) => Allow(w).count = w.count + 1
           /\ ~Live(w) => Allow(w) = [start |-> now, count |-> 1]
<1>1. w.count \in Nat /\ w.start \in Nat
  BY DEF Windows
<1>2. PICK n \in Nat : n = w.count + 1
  BY <1>1
<1>3. [w EXCEPT !.count = n].count = n
  BY DEF Windows
<1>4. Live(w) <=> ~(w.count = 0 \/ now - w.start >= Window)
  BY <1>1, AccountsAssumption DEF Live
<1> QED
  BY <1>1, <1>2, <1>3, <1>4 DEF Allow

\* A sign-in is answered.
LEMMA VerifyThrottle ==
    ASSUME ThrottleInv, NEW s \in Slots, Verify(s), Handle(s), NEW u \in Users
    PROVE  Throttled(u)'
<1>0. /\ TypeInv /\ Throttled(u) /\ tally[u] \in Windows /\ hits[u] \in Windows /\ now \in Nat
      /\ hits \in [Users -> Windows] /\ tally \in [Users -> Windows]
      /\ now' = now /\ req[s].stage = "verify"
  BY DEF ThrottleInv, TypeInv, TypeOK, Verify, At
<1>1. (\A o \in Slots \ {s} : req'[o] = req[o]) /\ req'[s] = Idle
  BY <1>0, MoveFacts
<1>2. Trying(u)' = Trying(u) \ {s}
  BY <1>1, IdleStage DEF Trying
<1>3. CASE req[s].target # u
  <2>1. hits'[u] = hits[u] /\ tally'[u] = tally[u]
    BY <1>0, <1>3 DEF Verify
  <2> QED
    BY <1>0, <1>2, <2>1, ThrottledStays
<1>4. CASE req[s].target = u /\ hits' = [hits EXCEPT ![u] = NoWindow]
  <2>1. tally' = [tally EXCEPT ![u] = NoWindow] \/ tally' = [tally EXCEPT ![u] = Allow(tally[u])]
    BY <1>4 DEF Verify
  <2>2. NoWindow # Allow(hits[u])
    BY <1>0, AllowFacts, NoWindowDead DEF Windows
  <2>3. tally' = [tally EXCEPT ![u] = NoWindow]
    BY <1>0, <1>4, <2>2 DEF Verify
  <2> QED
    BY <1>0, <1>4, <2>3, ThrottledAnew
<1>5. CASE /\ req[s].target = u
           /\ hits' = [hits EXCEPT ![u] = Allow(hits[u])]
           /\ tally' = [tally EXCEPT ![u] = Allow(tally[u])]
  <2>1. s \in Trying(u) /\ Trying(u) \in SUBSET Slots
    BY <1>0, <1>5 DEF Trying
  <2>2. PICK n \in Nat : n = Cardinality(Trying(u))
    BY <2>1, SlotSets
  <2>3. /\ Cardinality(Trying(u)') = n - 1 /\ n - 1 \in Nat
        /\ n <= Cardinality(Slots)
    BY <1>2, <2>1, <2>2, SlotSets
  <2>4. hits'[u] = Allow(hits[u]) /\ tally'[u] = Allow(tally[u])
    BY <1>0, <1>5
  <2>5. Cardinality(Trying(u))' = n - 1
    BY <2>3
  <2>6. CASE Live(tally[u])
    <3>1. hits[u] = tally[u]
      BY <1>0, <2>6 DEF Throttled
    <3>2. tally[u].count + n <= Limit
      BY <1>0, <2>2, <2>6 DEF Throttled
    <3>3. tally'[u].count = tally[u].count + 1 /\ tally[u].count \in Nat
      BY <1>0, <2>4, <2>6, AllowFacts
    <3>4. tally'[u].count <= Limit /\ tally'[u].count + (n - 1) <= Limit
      BY <2>3, <3>2, <3>3, LimitNat
    <3>5. /\ hits'[u] = tally'[u] /\ Limit' = Limit
          /\ tally'[u].count + Cardinality(Trying(u))' <= Limit
      BY <2>4, <2>5, <3>1, <3>4 DEF Limit
    <3> QED
      BY <3>4, <3>5 DEF Throttled
  <2>7. CASE ~Live(tally[u])
    <3>1. ~Live(hits[u])
      BY <1>0, <2>7 DEF Throttled
    <3>2. /\ tally'[u] = [start |-> now, count |-> 1]
          /\ hits'[u] = [start |-> now, count |-> 1]
      BY <1>0, <2>4, <2>7, <3>1, AllowFacts
    <3>3. tally'[u].count = 1 /\ 1 <= Limit /\ 1 + (n - 1) <= Limit
      BY <2>3, <3>2, LimitNat DEF Limit
    <3>4. /\ hits'[u] = tally'[u] /\ Limit' = Limit /\ tally'[u].count <= Limit
          /\ tally'[u].count + Cardinality(Trying(u))' <= Limit
      BY <2>5, <3>2, <3>3 DEF Limit
    <3> QED
      BY <3>4 DEF Throttled
  <2> QED
    BY <2>6, <2>7
<1> QED
  BY <1>3, <1>4, <1>5 DEF Verify

\* The other steps of requests.
LEMMA HandleThrottle ==
    ASSUME ThrottleInv, NEW s \in Slots, Handle(s), NEW u \in Users
    PROVE  Throttled(u)'
<1>0. TypeInv /\ Throttled(u) /\ req[s] \in Requests
  BY DEF ThrottleInv, TypeInv, TypeOK
<1>1. CASE Verify(s)
  BY <1>1, VerifyThrottle
<1>2. CASE ~Verify(s)
  <2>1. UNCHANGED <<now, hits, tally>>
    BY <1>2 DEF Handle, CountUsers, TakeLock, InsertFounder, ReleaseLock, ReleaseLockFails,
       Unlocked, LoadAccount, LoadTarget, CountAdmins, Write, DatabaseError, histVars
  <2>2. \A o \in Slots \ {s} : req'[o] = req[o]
    BY <1>0, MoveFacts
  <2>3. /\ req'[s].stage = "verify" \/ req'[s].stage = "load" =>
             req[s].stage = "load" /\ req'[s].target = req[s].target
    <3>1. CASE LoadAccount(s)
      BY <1>0, <3>1, MoveFacts DEF LoadAccount, At, Loads
    <3>2. CASE DatabaseError(s)
      BY <1>0, <3>2, MoveFacts, IdleStage DEF Advances
    <3>3. CASE CountUsers(s) \/ TakeLock(s) \/ InsertFounder(s) \/ Unlocked(s)
      BY <1>0, <3>3, MoveFacts, IdleStage DEF Advances
    <3>4. CASE LoadTarget(s) \/ CountAdmins(s) \/ Write(s)
      BY <1>0, <3>4, MoveFacts, IdleStage DEF Advances, Loads
    <3> QED
      BY <1>2, <3>1, <3>2, <3>3, <3>4 DEF Handle, ReleaseLock, ReleaseLockFails
  <2>4. Trying(u)' \subseteq Trying(u)
    BY <2>2, <2>3 DEF Trying
  <2> QED
    BY <1>0, <2>1, <2>4, ThrottledStays
<1> QED
  BY <1>1, <1>2

\* The janitor drops only windows that no longer count, and time only ends them.
LEMMA TimeThrottle ==
    ASSUME ThrottleInv, Janitor \/ Tick, NEW u \in Users
    PROVE  Throttled(u)'
<1>0. /\ Throttled(u) /\ tally[u] \in Windows /\ hits[u] \in Windows /\ now \in Nat
      /\ hits \in [Users -> Windows] /\ Window \in Nat \ {0}
  BY AccountsAssumption DEF ThrottleInv, TypeInv, TypeOK
<1>1. /\ tally[u].start \in Nat /\ tally[u].count \in Nat
      /\ hits[u].start \in Nat /\ hits[u].count \in Nat
  BY <1>0 DEF Windows
<1>2. req' = req /\ tally' = tally
  BY DEF Janitor, Tick, histVars
<1>3. Trying(u)' = Trying(u)
  BY <1>2 DEF Trying
<1>4. CASE Janitor
  <2>1. now' = now
    BY <1>4 DEF Janitor
  <2>2. CASE hits'[u] = hits[u]
    BY <1>0, <1>2, <1>3, <2>1, <2>2, ThrottledStays DEF ThrottleInv
  <2>3. CASE hits'[u] # hits[u]
    <3>1. hits'[u] = NoWindow /\ hits[u].start < now - Window
      BY <1>0, <1>4, <2>3 DEF Janitor
    <3>2. ~Live(hits[u])
      BY <1>0, <1>1, <3>1 DEF Live
    <3>3. ~Live(tally[u])
      BY <1>0, <3>2 DEF Throttled
    <3>4. ~Live(tally[u])' /\ ~Live(hits[u])'
      BY <1>2, <2>1, <3>1, <3>3, NoWindowDead DEF Live
    <3> QED
      BY <1>0, <1>2, <3>4 DEF Throttled, Limit
  <2> QED
    BY <2>2, <2>3
<1>5. CASE Tick
  <2>1. now' = now + 1 /\ hits' = hits
    BY <1>5 DEF Tick
  <2>2. /\ Live(tally[u])' => Live(tally[u])
        /\ Live(hits[u])' => Live(hits[u])
    BY <1>0, <1>1, <1>2, <2>1 DEF Live
  <2>3. Cardinality(Trying(u))' = Cardinality(Trying(u))
    BY <1>3
  <2> QED
    BY <1>0, <1>2, <2>1, <2>2, <2>3 DEF Throttled, Limit
<1> QED
  BY <1>4, <1>5

LEMMA ThrottleStep == ThrottleInv /\ [Next]_vars => ThrottleInv'
<1> SUFFICES ASSUME ThrottleInv, [Next]_vars PROVE ThrottleInv'
  OBVIOUS
<1>0. TypeInv /\ TypeInv'
  BY TypeStep DEF ThrottleInv
<1>1. CASE Next
  <2>1. CASE \E u \in Users, p \in Passwords : ResetPassword(u, p)
    <3>1. UNCHANGED <<now, hits, tally, req>>
      BY <2>1 DEF ResetPassword, histVars
    <3>2. \A u \in Users : Trying(u)' = Trying(u)
      BY <3>1 DEF Trying
    <3> QED
      BY <1>0, <3>1, <3>2, ThrottledStays DEF ThrottleInv
  <2>2. CASE Restart
    BY <1>0, <2>2, ThrottledAnew DEF Restart, ThrottleInv
  <2> QED
    BY <1>0, <1>1, <2>1, <2>2, BeginThrottle, HandleThrottle, TimeThrottle, StepCases
       DEF ThrottleInv
<1>2. CASE UNCHANGED vars
  <2>1. \A u \in Users : Trying(u)' = Trying(u) /\ UNCHANGED <<now, hits, tally>>
    BY <1>2 DEF vars, histVars, Trying
  <2> QED
    BY <1>0, <2>1, ThrottledStays DEF ThrottleInv
<1> QED
  BY <1>1, <1>2

\* loginFailLimiter: the wrong passwords tried against an account within a
\* window (and since the API started) stay below the limit plus the requests
\* that can be at work at once, whenever the janitor runs.
THEOREM GuessesAreBounded == Spec => []GuessesBounded
<1>1. Init => ThrottleInv
  BY TypeInit, NoWindowDead, LimitNat DEF Init, ThrottleInv, Throttled, Live, Limit
<1>2. ThrottleInv => GuessesBounded
  <2> SUFFICES ASSUME ThrottleInv, NEW u \in Users
               PROVE  tally[u].count < FailLimit + Cardinality(Slots)
    BY DEF GuessesBounded
  <2>1. tally[u].count \in Nat /\ tally[u].count <= Limit
    BY DEF ThrottleInv, Throttled, TypeInv, TypeOK, Windows
  <2> QED
    BY <2>1, LimitNat DEF Limit
<1> QED
  BY <1>1, <1>2, ThrottleStep, PTL DEF Spec

-----------------------------------------------------------------------------
(* The last administrator.                                                 *)

Acting(s) == req[s].stage # "idle" /\ req[s].op \notin {"bootstrap", "login"}

\* Another active administrator than the target of the request.
Spared(s) == ActiveAdmins \ {req[s].target} # {}

Demotes(s) == req[s].op \in {"role", "status"} /\ req[s].arg \notin {"admin", "active"}

\* What a change of role or status knows before the check and after it.
Guarded(s) ==
    /\ req[s].stage = "admins" =>
         (req[s].doc.role = "admin" /\ req[s].doc.status = "active") \/ Spared(s)
    /\ req[s].stage = "write" /\ Demotes(s) => Spared(s)

AdminsSafe ==
    /\ (\E u \in Users : Exists(u)) => ActiveAdmins # {}
    /\ \A s, o \in Slots : Changing(s) /\ Changing(o) => s = o
    /\ \A s \in Slots : Guarded(s)

AdminInv ==
    /\ TypeInv
    /\ \A s \in Slots : Acting(s) => Exists(req[s].actor)
    /\ ~raced => AdminsSafe

LEMMA ExistsStays ==
    ASSUME UsersTyped, NEW u \in Users, Exists(u)
    PROVE  Exists(u)'
BY DEF UsersTyped, Grows, Exists

\* An update leaves every active administrator one, the target of a demotion
\* apart, and an account that exists has asked for it.
LEMMA WriteAdmins ==
    ASSUME TypeInv, NEW s \in Slots, Write(s), Acting(s) => Exists(req[s].actor)
    PROVE  /\ ActiveAdmins \ {req[s].target} \subseteq ActiveAdmins'
           /\ ~Demotes(s) => ActiveAdmins \subseteq ActiveAdmins'
           /\ \E v \in Users : Exists(v)
<1> DEFINE u == req[s].target
           d == Updated(req[s], users[u])
<1>1. /\ req[s] \in Requests /\ Fits(req[s]) /\ users \in [Users -> Documents]
      /\ u \in Users /\ req[s].actor \in Users /\ req[s].stage = "write"
  BY DEF TypeInv, TypeOK, Requests, Write, At
<1>2. Exists(req[s].actor)
  BY <1>1 DEF Acting, Fits
<1>3. CASE users' = users
  BY <1>1, <1>2, <1>3 DEF ActiveAdmins
<1>4. CASE users' # users
  <2>1. /\ Exists(u) \/ req[s].op = "create"
        /\ users' = [users EXCEPT ![u] = d]
    BY <1>4 DEF Write
  <2>2. users[u] \in Documents
    BY <1>1
  <2>3. Kept(req[s], users[u], d)
    BY <1>1, <2>1, <2>2, UpdatedFacts DEF Exists
  <2> HIDE DEF d
  <2>4. \A v \in Users : users'[v] = IF v = u THEN d ELSE users[v]
    BY <1>1, <2>1
  <2>5. ActiveAdmins \ {u} \subseteq ActiveAdmins'
    BY <2>4 DEF ActiveAdmins
  <2>6. ASSUME ~Demotes(s), u \in ActiveAdmins PROVE u \in ActiveAdmins'
    <3>1. users[u].role = "admin" /\ users[u].status = "active"
      BY <2>6 DEF ActiveAdmins
    <3>2. \/ req[s].op \notin {"role", "status"}
          \/ req[s].op = "role" /\ req[s].arg = "admin"
          \/ req[s].op = "status" /\ req[s].arg = "active"
      BY <1>1, <2>6 DEF Demotes, Fits, AllRoles
    <3>3. d.role = "admin" /\ d.status = "active"
      BY <2>3, <3>1, <3>2 DEF Kept
    <3> QED
      BY <1>1, <2>4, <3>3 DEF ActiveAdmins
  <2> HIDE DEF u
  <2> QED
    BY <1>1, <1>2, <2>5, <2>6 DEF u
<1> QED
  BY <1>3, <1>4

\* A request that a step leaves alone keeps its guard while administrators
\* only come.
LEMMA GuardStays ==
    ASSUME NEW o \in Slots, Guarded(o), req'[o] = req[o],
           ActiveAdmins \subseteq ActiveAdmins'
    PROVE  Guarded(o)'
BY DEF Guarded, Spared, Demotes

\* Steps that leave the changes of role and status alone, or end one.
LEMMA AdminsStay ==
    ASSUME AdminInv, TypeInv', ~raced, AdminsSafe, NEW s \in Slots,
           \A o \in Slots \ {s} : req'[o] = req[o],
           \/ ~Changing(s)'
           \/ Changing(s) /\ Guarded(s)',
           ~Changing(s)' => Guarded(s)',
           ActiveAdmins \subseteq ActiveAdmins',
           (\E u \in Users : Exists(u))' => ActiveAdmins' # {}
    PROVE  AdminsSafe'
<1>1. \A o \in Slots \ {s} : Guarded(o)' /\ Changing(o)' = Changing(o)
  BY GuardStays DEF AdminsSafe, Changing
<1>2. \A a, b \in Slots : Changing(a)' /\ Changing(b)' => a = b
  BY <1>1 DEF AdminsSafe
<1> QED
  BY <1>1, <1>2 DEF AdminsSafe

\* The check of a change of role or status leaves another administrator.
LEMMA CheckSpares ==
    ASSUME AdminInv, ~raced, NEW s \in Slots, req[s].stage = "admins", Demotes(s),
           NEW n, n = 0 \/ n = Cardinality(ActiveAdmins), ~Forbidden(req[s], n)
    PROVE  Spared(s)
<1>1. Guarded(s)
  BY DEF AdminInv, AdminsSafe
<1>2. CASE ~(req[s].doc.role = "admin" /\ req[s].doc.status = "active")
  BY <1>1, <1>2 DEF Guarded
<1>3. CASE req[s].doc.role = "admin" /\ req[s].doc.status = "active"
  <2>1. ~(n <= 1)
    BY <1>3 DEF Forbidden, Demotes
  <2>2. n = Cardinality(ActiveAdmins)
    BY <2>1
  <2>3. CASE ActiveAdmins \ {req[s].target} = {}
    BY <2>1, <2>2, <2>3, AtMostOne
  <2> QED
    BY <2>3 DEF Spared
<1> QED
  BY <1>2, <1>3

\* The steps of requests that change neither an account nor a role.
LEMMA QuietAdmins ==
    ASSUME AdminInv, NEW s \in Slots, Handle(s), UNCHANGED users, ~LoadTarget(s),
           TypeInv', ~raced, AdminsSafe
    PROVE  AdminsSafe'
<1>0. TypeInv /\ Fits(req[s])
  BY DEF AdminInv, TypeInv
<1>1. \A o \in Slots \ {s} : req'[o] = req[o]
  BY <1>0, MoveFacts
<1>2. ActiveAdmins' = ActiveAdmins /\ \A u \in Users : Exists(u)' = Exists(u)
  BY DEF ActiveAdmins, Exists
<1>3. ASSUME req'[s].stage \notin {"admins", "write"} PROVE AdminsSafe'
  <2>1. ~Changing(s)' /\ Guarded(s)'
    BY <1>3 DEF Changing, Guarded
  <2> QED
    BY <1>1, <1>2, <2>1, AdminsStay DEF AdminsSafe
<1>4. req'[s] = Idle => req'[s].stage \notin {"admins", "write"}
  BY IdleStage
<1>5. ASSUME req[s].stage = "admins", Advances(s, "write"),
             NEW n, n = 0 \/ n = Cardinality(ActiveAdmins), ~Forbidden(req[s], n)
      PROVE  AdminsSafe'
  <2>1. Changing(s)
    BY <1>0, <1>5 DEF Changing, Fits
  <2>2. Demotes(s)' => Spared(s)
    BY <1>5, CheckSpares DEF Advances, Demotes
  <2>3. Guarded(s)'
    BY <1>2, <1>5, <2>2 DEF Advances, Guarded, Spared
  <2> QED
    BY <1>1, <1>2, <2>1, <2>3, AdminsStay DEF AdminsSafe
<1>6. CASE CountAdmins(s)
  <2>1. req[s].stage = "admins"
    BY <1>6 DEF CountAdmins, At
  <2> QED
    BY <1>0, <1>3, <1>4, <1>5, <1>6, <2>1, MoveFacts
<1>7. CASE DatabaseError(s)
  BY <1>0, <1>3, <1>4, <1>5, <1>7, MoveFacts DEF Advances
<1>8. CASE CountUsers(s) \/ TakeLock(s) \/ InsertFounder(s) \/ Unlocked(s)
  BY <1>0, <1>3, <1>4, <1>8, MoveFacts DEF Advances
<1>9. CASE LoadAccount(s) \/ Verify(s) \/ Write(s)
  BY <1>0, <1>3, <1>4, <1>9, MoveFacts DEF Loads
<1> QED
  BY <1>6, <1>7, <1>8, <1>9 DEF Handle, ReleaseLock, ReleaseLockFails

\* The lookup of the target: the first change at work, as none overlap.
LEMMA LoadTargetAdmins ==
    ASSUME AdminInv, NEW s \in Slots, LoadTarget(s), Handle(s), TypeInv', ~raced', AdminsSafe
    PROVE  AdminsSafe'
<1> DEFINE u == req[s].target
<1>0. TypeInv /\ u \in Users /\ UNCHANGED users
  BY DEF AdminInv, TypeInv, TypeOK, Requests, LoadTarget, storeVars
<1>1. \A o \in Slots \ {s} : req'[o] = req[o]
  BY <1>0, MoveFacts
<1>2. ActiveAdmins' = ActiveAdmins /\ \A v \in Users : Exists(v)' = Exists(v)
  BY <1>0 DEF ActiveAdmins, Exists
<1>3. CASE req'[s] = Idle
  <2>1. ~Changing(s)' /\ Guarded(s)'
    BY <1>3, IdleStage DEF Changing, Guarded
  <2>2. ~raced
    BY DEF LoadTarget, AdminInv, TypeInv, TypeOK
  <2> QED
    BY <1>0, <1>1, <1>2, <2>1, <2>2, AdminsStay DEF AdminsSafe
<1>4. CASE /\ req'[s] # Idle /\ Exists(u)
           /\ Loads(s, IF req[s].arg = "active" THEN "write" ELSE "admins", users[u])
  <2>1. \A o \in Slots \ {s} : ~Changing(o)
    <3>1. raced' = (raced \/ \E o \in Slots \ {s} : Changing(o))
      BY <1>4 DEF LoadTarget, Exists
    <3> QED
      BY <3>1
  <2>2. \A o \in Slots \ {s} : ~Changing(o)' /\ Guarded(o)'
    BY <1>1, <1>2, <2>1, GuardStays DEF Changing, AdminsSafe
  <2>3. ActiveAdmins # {}
    BY <1>0, <1>4 DEF AdminsSafe
  <2>6. Guarded(s)'
    <3>1. CASE req[s].arg = "active"
      BY <1>4, <3>1 DEF Loads, Guarded, Demotes
    <3>2. CASE req[s].arg # "active"
      <4>1. ~(users[u].role = "admin" /\ users[u].status = "active") => Spared(s)
        BY <1>0, <2>3 DEF Spared, ActiveAdmins
      <4> QED
        BY <1>2, <1>4, <3>2, <4>1 DEF Loads, Guarded, Spared
    <3> QED
      BY <3>1, <3>2
  <2> QED
    BY <1>2, <2>2, <2>3, <2>6 DEF AdminsSafe
<1> QED
  BY <1>0, <1>3, <1>4, MoveFacts

\* An update of an account, and the account that the bootstrap creates.
LEMMA WriteSafe ==
    ASSUME AdminInv, NEW s \in Slots, Write(s), Handle(s), TypeInv', ~raced, AdminsSafe
    PROVE  AdminsSafe'
<1>0. TypeInv /\ Fits(req[s]) /\ req[s].stage = "write"
  BY DEF AdminInv, TypeInv, Write, At
<1>1. (\A o \in Slots \ {s} : req'[o] = req[o]) /\ req'[s] = Idle
  BY <1>0, MoveFacts
<1>2. ~Changing(s)' /\ Guarded(s)'
  BY <1>1, IdleStage DEF Changing, Guarded
<1>3. /\ ActiveAdmins \ {req[s].target} \subseteq ActiveAdmins'
      /\ ~Demotes(s) => ActiveAdmins \subseteq ActiveAdmins'
      /\ ActiveAdmins # {}
  BY <1>0, WriteAdmins DEF AdminInv, AdminsSafe
<1>4. CASE ~Demotes(s)
  BY <1>0, <1>1, <1>2, <1>3, <1>4, AdminsStay
<1>5. CASE Demotes(s)
  <2>1. Spared(s) /\ Changing(s)
    BY <1>0, <1>5 DEF AdminsSafe, Guarded, Changing, Demotes
  <2>2. ActiveAdmins' # {}
    BY <1>3, <2>1 DEF Spared
  <2>3. \A o \in Slots \ {s} : ~Changing(o)
    BY <2>1 DEF AdminsSafe
  <2>4. \A o \in Slots \ {s} : ~Changing(o)' /\ Guarded(o)'
    <3> TAKE o \in Slots \ {s}
    <3>1. Fits(req[o]) /\ req'[o] = req[o] /\ ~Changing(o)
      BY <1>0, <1>1, <2>3 DEF TypeInv
    <3> QED
      BY <3>1 DEF Changing, Guarded, Demotes, Fits
  <2> QED
    BY <1>2, <2>2, <2>4 DEF AdminsSafe
<1> QED
  BY <1>4, <1>5

LEMMA FounderSafe ==
    ASSUME AdminInv, NEW s \in Slots, InsertFounder(s), Handle(s), TypeInv', ~raced, AdminsSafe,
           users' # users
    PROVE  AdminsSafe'
<1> DEFINE u == req[s].target
<1>0. TypeInv /\ u \in Users /\ users \in [Users -> Documents]
  BY DEF AdminInv, TypeInv, TypeOK, Requests
<1>1. ~Exists(u) /\ users' = [users EXCEPT ![u] = Account("admin", req[s].arg)]
  BY DEF InsertFounder
<1>2. \A v \in Users : users'[v] = IF v = u THEN Account("admin", req[s].arg) ELSE users[v]
  BY <1>0, <1>1
<1>3. u \in ActiveAdmins' /\ ActiveAdmins \subseteq ActiveAdmins'
  BY <1>0, <1>1, <1>2 DEF ActiveAdmins, Exists, Account
<1>4. /\ \A o \in Slots \ {s} : req'[o] = req[o]
      /\ Advances(s, "unlock")
  BY <1>0, <1>1, MoveFacts
<1>5. ~Changing(s)' /\ Guarded(s)'
  BY <1>4 DEF Advances, Changing, Guarded
<1> QED
  BY <1>3, <1>4, <1>5, AdminsStay

\* An account that has asked for a change exists as long as the request is at
\* work.
LEMMA ActorsStay ==
    ASSUME AdminInv, TypeInv', UsersTyped,
           NEW s \in Slots, \/ req'[s] = req[s] \/ req'[s] = Idle
                            \/ req'[s].op = req[s].op /\ req'[s].actor = req[s].actor
                               /\ req[s].stage # "idle",
           Acting(s)'
    PROVE  Exists(req[s].actor)' /\ req'[s].actor = req[s].actor
<1>1. /\ req'[s] # Idle /\ req'[s].actor = req[s].actor
      /\ Acting(s) /\ req[s].actor \in Users
  BY IdleStage DEF Acting, AdminInv, TypeInv, TypeOK, Requests
<1>2. Exists(req[s].actor)
  BY <1>1 DEF AdminInv
<1>3. PICK a \in Users : a = req[s].actor
  BY <1>1
<1>4. Exists(a)'
  BY <1>2, <1>3, ExistsStays
<1> QED
  BY <1>1, <1>3, <1>4

LEMMA HandleAdmins == ASSUME AdminInv, NEW s \in Slots, Handle(s) PROVE AdminInv'
<1>0. TypeInv /\ TypeInv' /\ UsersTyped
  <2>1. TypeInv
    BY DEF AdminInv
  <2> QED
    BY <2>1, HandleReq, HandleUsers, HandleRest, TypeFrame
<1>1. \A o \in Slots \ {s} : req'[o] = req[o]
  BY <1>0, MoveFacts
<1>2. req'[s] = Idle \/ /\ req'[s].op = req[s].op /\ req'[s].actor = req[s].actor
                        /\ req[s].stage # "idle"
  <2>1. req[s].stage # "idle"
    BY DEF Handle, CountUsers, TakeLock, InsertFounder, ReleaseLock, ReleaseLockFails, Unlocked,
           LoadAccount, Verify, LoadTarget, CountAdmins, Write, DatabaseError, At
  <2>2. CASE CountUsers(s) \/ TakeLock(s) \/ InsertFounder(s) \/ Unlocked(s)
    BY <1>0, <2>1, <2>2, MoveFacts DEF Advances
  <2>3. CASE LoadAccount(s) \/ Verify(s) \/ LoadTarget(s)
    BY <1>0, <2>1, <2>3, MoveFacts DEF Loads
  <2>4. CASE CountAdmins(s) \/ Write(s) \/ DatabaseError(s)
    BY <1>0, <2>1, <2>4, MoveFacts DEF Advances
  <2> QED
    BY <2>2, <2>3, <2>4 DEF Handle, ReleaseLock, ReleaseLockFails
<1>3. \A o \in Slots : Acting(o)' => Exists(req[o].actor)' /\ req'[o].actor = req[o].actor
  BY <1>0, <1>1, <1>2, ActorsStay
<1>4. ASSUME ~raced' PROVE AdminsSafe'
  <2>1. ~raced /\ AdminsSafe
    <3>1. CASE LoadTarget(s)
      BY <1>4, <3>1 DEF AdminInv, LoadTarget
    <3>2. CASE raced' = raced
      BY <1>4, <3>2 DEF AdminInv
    <3> QED
      BY <3>1, <3>2 DEF Handle, CountUsers, TakeLock, InsertFounder, ReleaseLock,
         ReleaseLockFails, Unlocked, LoadAccount, Verify, CountAdmins, Write,
         DatabaseError, histVars
  <2>2. CASE LoadTarget(s)
    BY <1>0, <1>4, <2>1, <2>2, LoadTargetAdmins
  <2>3. CASE Write(s)
    BY <1>0, <2>1, <2>3, WriteSafe
  <2>4. CASE InsertFounder(s) /\ users' # users
    BY <1>0, <2>1, <2>4, FounderSafe
  <2>5. CASE users' = users /\ ~LoadTarget(s)
    BY <1>0, <2>1, <2>5, QuietAdmins
  <2> QED
    BY <2>2, <2>3, <2>4, <2>5
       DEF Handle, CountUsers, TakeLock, ReleaseLock, ReleaseLockFails, Unlocked,
           LoadAccount, Verify, CountAdmins, DatabaseError, storeVars
<1>5. \A o \in Slots : Acting(o)' => Exists(req[o].actor)'
  BY <1>3
<1> QED
  BY <1>0, <1>3, <1>4, <1>5 DEF AdminInv, Exists

LEMMA AdminStep == AdminInv /\ [Next]_vars => AdminInv'
<1> SUFFICES ASSUME AdminInv, [Next]_vars PROVE AdminInv'
  OBVIOUS
<1>0. TypeInv /\ TypeInv'
  BY TypeStep DEF AdminInv
<1>1. CASE Next
  <2>1. ASSUME NEW s \in Slots, Begins(s) PROVE AdminInv'
    <3>1. /\ \A o \in Slots \ {s} : req'[o] = req[o]
          /\ req'[s].stage \in {"users", "load", "target", "write"}
          /\ req'[s].op \in {"bootstrap", "login"} \/ Exists(req'[s].actor)
          /\ req'[s].stage = "write" => req'[s].op \notin {"role", "status"}
          /\ users' = users /\ raced' = raced
      BY <1>0, <2>1, BeginFacts
    <3>2. ActiveAdmins' = ActiveAdmins /\ \A u \in Users : Exists(u)' = Exists(u)
      BY <3>1 DEF ActiveAdmins, Exists
    <3>3. ~Changing(s)' /\ Guarded(s)'
      BY <3>1 DEF Changing, Guarded, Demotes
    <3>4. ASSUME ~raced' PROVE AdminsSafe'
      BY <1>0, <3>1, <3>2, <3>3, <3>4, AdminsStay DEF AdminInv, AdminsSafe
    <3>5. \A o \in Slots : Acting(o)' => Exists(req'[o].actor)
      BY <3>1 DEF AdminInv, Acting
    <3>6. \A o \in Slots : Acting(o)' => users'[req'[o].actor].status # "none"
      BY <3>1, <3>5 DEF Exists
    <3> QED
      BY <1>0, <3>4, <3>6 DEF AdminInv, Exists
  <2>2. ASSUME UsersTyped, raced' = raced, ActiveAdmins \subseteq ActiveAdmins',
               (\E u \in Users : Exists(u))' => \E u \in Users : Exists(u),
               UNCHANGED req \/ req' = [s \in Slots |-> Idle]
        PROVE  AdminInv'
    <3>1. \A o \in Slots : req'[o] = req[o] \/ req'[o] = Idle
      BY <2>2
    <3>2. ~raced' => AdminsSafe
      BY <2>2 DEF AdminInv
    <3>3. ASSUME AdminsSafe PROVE AdminsSafe'
      <4>1. \A o \in Slots : Guarded(o)' /\ (Changing(o)' => Changing(o))
        BY <2>2, <3>1, <3>3, GuardStays, IdleStage DEF AdminsSafe, Guarded, Changing
      <4> QED
        BY <2>2, <3>3, <4>1 DEF AdminsSafe
    <3>4. \A o \in Slots : Acting(o)' => Exists(req[o].actor)' /\ req'[o].actor = req[o].actor
      BY <1>0, <2>2, <3>1, ActorsStay
    <3> QED
      BY <1>0, <3>2, <3>3, <3>4 DEF AdminInv, Exists
  <2>3. ASSUME NEW u \in Users, NEW p \in Passwords, ResetPassword(u, p) PROVE AdminInv'
    <3> DEFINE d == [PasswordSet(users[u], p) EXCEPT !.status = "active"]
    <3>1. Exists(u) /\ users' = [users EXCEPT ![u] = d] /\ raced' = raced /\ req' = req
      BY <2>3 DEF ResetPassword, histVars
    <3>2. users[u] \in Documents /\ users \in [Users -> Documents]
      BY <1>0 DEF TypeInv, TypeOK
    <3>3. d.status = "active" /\ d.role = users[u].role
      BY <3>2, CutFacts, StatusFacts
    <3> HIDE DEF d
    <3>4. ActiveAdmins \subseteq ActiveAdmins'
      BY <3>1, <3>2, <3>3 DEF ActiveAdmins
    <3> QED
      BY <1>0, <2>2, <2>3, <3>1, <3>4, ResetUsers
  <2>4. CASE Restart \/ Janitor \/ Tick
    <3>1. UNCHANGED <<users, raced>> /\ (UNCHANGED req \/ req' = [s \in Slots |-> Idle])
      BY <2>4 DEF Restart, Janitor, Tick, storeVars, histVars
    <3>2. UsersTyped
      BY <1>0, <3>1, UsersUnchanged
    <3> QED
      BY <2>2, <3>1, <3>2 DEF ActiveAdmins, Exists
  <2> QED
    BY <1>0, <1>1, <2>1, <2>3, <2>4, HandleAdmins, StepCases
<1>2. CASE UNCHANGED vars
  <2>1. UNCHANGED <<users, req, raced>>
    BY <1>2 DEF vars, storeVars, histVars
  <2> QED
    BY <1>0, <2>1 DEF AdminInv, AdminsSafe, Acting, Exists, ActiveAdmins, Changing, Guarded,
       Spared, Demotes
<1> QED
  BY <1>1, <1>2

LEMMA AdminStart == Init => AdminInv
<1> SUFFICES ASSUME Init PROVE AdminInv
  OBVIOUS
<1>1. PICK A \in SUBSET Users :
        users = [u \in Users |-> IF u \in A THEN Account("admin", FirstPassword) ELSE Absent]
  BY DEF Init
<1>2. (\E u \in Users : Exists(u)) => ActiveAdmins # {}
  BY <1>1 DEF Exists, ActiveAdmins, Account, Absent
<1>3. \A s \in Slots : req[s].stage = "idle"
  BY IdleStage DEF Init
<1> QED
  BY <1>2, <1>3, TypeInit DEF AdminInv, AdminsSafe, Acting, Changing, Guarded

\* "At least one active admin must remain" (checkRoleChange, checkDeactivate):
\* once there are accounts one of them is an active administrator, whatever
\* calls fail, as long as two changes of role or status do not overlap.
THEOREM AnAdminRemains == Spec => []AdminRemains
<1>1. AdminInv => AdminRemains
  BY DEF AdminInv, AdminsSafe, AdminRemains
<1> QED
  BY <1>1, AdminStart, AdminStep, PTL DEF Spec
=============================================================================
