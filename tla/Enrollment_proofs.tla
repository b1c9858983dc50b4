-------------------------- MODULE Enrollment_proofs --------------------------
(***************************************************************************)
(* Proofs about the identity of devices, for any number of machines,       *)
(* requests, deletions and failures: a registration never changes who a    *)
(* machine is, and the data of a deleted device is gone for good.          *)
(***************************************************************************)
EXTENDS Enrollment, FiniteSetTheorems, WellFoundedInduction, TLAPS

(* Keys. *)

\* Every set of numbers has a least element.
LEMMA LeastNat ==
    ASSUME NEW T, T \subseteq Nat, T # {}
    PROVE  \E x \in T : \A y \in T : x <= y
<1> DEFINE R == {ss \in Nat \X Nat : ss[1] < ss[2]}
<1>1. IsWellFoundedOn(R, Nat)
  BY NatLessThanWellFounded DEF OpToRel
<1>2. \A x, y \in Nat : x < y => <<x, y>> \in R
  OBVIOUS
<1> HIDE DEF R
<1>3. PICK x \in T : \A y \in T : ~(<<y, x>> \in R)
  BY <1>1, WFMin
<1>4. \A y \in T : ~(y < x)
  BY <1>2, <1>3
<1> QED
  BY <1>4

\* The values of a function are no more than its arguments.
LEMMA ImageBound ==
    ASSUME NEW S, IsFiniteSet(S), NEW f
    PROVE  /\ IsFiniteSet({f[x] : x \in S})
           /\ Cardinality({f[x] : x \in S}) <= Cardinality(S)
<1> DEFINE T == {f[x] : x \in S}
           g == [x \in S |-> f[x]]
<1>1. g \in Surjection(S, T)
  BY DEF Surjection
<1> QED
  BY <1>1, FS_Surjection

LEMMA UnionBound ==
    ASSUME NEW S, IsFiniteSet(S), NEW T, IsFiniteSet(T)
    PROVE  /\ IsFiniteSet(S \cup T)
           /\ Cardinality(S \cup T) <= Cardinality(S) + Cardinality(T)
<1>1. IsFiniteSet(S \cap T)
  BY FS_Subset
<1>2. /\ Cardinality(S \cap T) \in Nat /\ Cardinality(S) \in Nat
      /\ Cardinality(T) \in Nat
  BY <1>1, FS_CardinalityType
<1>3. /\ IsFiniteSet(S \cup T)
      /\ Cardinality(S \cup T) = Cardinality(S) + Cardinality(T) - Cardinality(S \cap T)
  BY FS_Union
<1> QED
  BY <1>2, <1>3

LEMMA KeysOf ==
    ASSUME NEW S, IsFiniteSet(S), NEW g
    PROVE  /\ IsFiniteSet({g[x].key : x \in S})
           /\ Cardinality({g[x].key : x \in S}) <= Cardinality(S)
<1> DEFINE f == [x \in S |-> g[x].key]
<1>1. {g[x].key : x \in S} = {f[x] : x \in S}
  OBVIOUS
<1> HIDE DEF f
<1>2. /\ IsFiniteSet({f[x] : x \in S})
      /\ Cardinality({f[x] : x \in S}) <= Cardinality(S)
  BY ImageBound
<1> QED
  BY <1>1, <1>2

LEMMA DevicesFinite == IsFiniteSet(Devices) /\ Cardinality(Devices) \in Nat
<1> DEFINE f == [m \in Machines |-> DeviceId(m)]
<1>1. Devices = {f[m] : m \in Machines}
  BY DEF Devices
<1>2. IsFiniteSet(Devices)
  BY <1>1, ImageBound, EnrollmentAssumption
<1> QED
  BY <1>2, FS_CardinalityType

\* Only so many keys can be in use.
LEMMA KeysBound ==
    /\ IsFiniteSet(KeysInUse)
    /\ Cardinality(KeysInUse) <=
         2 * Cardinality(Devices) + 2 * Cardinality(Machines) + Cardinality(Slots)
<1> DEFINE A == {dev[d].key : d \in Devices}
           B == {dev[d].old : d \in Devices}
           C == {cred[m].key : m \in Machines}
           D == {cache[m].key : m \in Machines}
           E == {req[s].key : s \in Slots}
<1>1. KeysInUse = A \cup (B \cup (C \cup (D \cup E)))
  <2>1. KeysInUse = A \cup B \cup C \cup D \cup E
    BY DEF KeysInUse
  <2> HIDE DEF A, B, C, D, E
  <2> QED
    BY <2>1
<1>0. /\ IsFiniteSet(Devices) /\ IsFiniteSet(Machines) /\ IsFiniteSet(Slots)
      /\ Cardinality(Devices) \in Nat
      /\ Cardinality(Machines) \in Nat /\ Cardinality(Slots) \in Nat
  BY DevicesFinite, EnrollmentAssumption, FS_CardinalityType
<1>2. IsFiniteSet(A) /\ Cardinality(A) <= Cardinality(Devices)
  BY <1>0, KeysOf
<1>3. IsFiniteSet(B) /\ Cardinality(B) <= Cardinality(Devices)
  <2> DEFINE f == [d \in Devices |-> dev[d].old]
  <2>1. B = {f[d] : d \in Devices}
    OBVIOUS
  <2> HIDE DEF f
  <2>2. /\ IsFiniteSet({f[d] : d \in Devices})
        /\ Cardinality({f[d] : d \in Devices}) <= Cardinality(Devices)
    BY <1>0, ImageBound
  <2> QED
    BY <2>1, <2>2
<1>4. IsFiniteSet(C) /\ Cardinality(C) <= Cardinality(Machines)
  BY <1>0, KeysOf
<1>5. IsFiniteSet(D) /\ Cardinality(D) <= Cardinality(Machines)
  BY <1>0, KeysOf
<1>6. IsFiniteSet(E) /\ Cardinality(E) <= Cardinality(Slots)
  BY <1>0, KeysOf
<1> HIDE DEF A, B, C, D, E
<1>7. /\ IsFiniteSet(D \cup E)
      /\ Cardinality(D \cup E) <= Cardinality(D) + Cardinality(E)
  BY <1>5, <1>6, UnionBound
<1>8. /\ IsFiniteSet(C \cup (D \cup E))
      /\ Cardinality(C \cup (D \cup E)) <= Cardinality(C) + Cardinality(D \cup E)
  BY <1>4, <1>7, UnionBound
<1>9. /\ IsFiniteSet(B \cup (C \cup (D \cup E)))
      /\ Cardinality(B \cup (C \cup (D \cup E))) <= Cardinality(B) + Cardinality(C \cup (D \cup E))
  BY <1>3, <1>8, UnionBound
<1>10. /\ IsFiniteSet(A \cup (B \cup (C \cup (D \cup E))))
       /\ Cardinality(A \cup (B \cup (C \cup (D \cup E))))
            <= Cardinality(A) + Cardinality(B \cup (C \cup (D \cup E)))
  BY <1>2, <1>9, UnionBound
<1>11. /\ Cardinality(A) \in Nat /\ Cardinality(B) \in Nat /\ Cardinality(C) \in Nat
       /\ Cardinality(D) \in Nat /\ Cardinality(E) \in Nat
       /\ Cardinality(D \cup E) \in Nat /\ Cardinality(C \cup (D \cup E)) \in Nat
       /\ Cardinality(B \cup (C \cup (D \cup E))) \in Nat
       /\ Cardinality(A \cup (B \cup (C \cup (D \cup E)))) \in Nat
  BY <1>2, <1>3, <1>4, <1>5, <1>6, <1>7, <1>8, <1>9, <1>10, FS_CardinalityType
<1> QED
  BY <1>0, <1>1, <1>2, <1>3, <1>4, <1>5, <1>6, <1>7, <1>8, <1>9, <1>10, <1>11

\* generateAPIKey finds a key that nobody holds.
LEMMA FreshKey == generateAPIKey \in Keys \ {0} /\ generateAPIKey \notin KeysInUse
<1> DEFINE n == Cardinality(KeysInUse)
           T == {k \in 1 .. n + 1 : k \notin KeysInUse}
<1>1. IsFiniteSet(KeysInUse) /\ n \in Nat
  BY KeysBound, FS_CardinalityType
<1>2. T # {}
  <2> SUFFICES ASSUME T = {} PROVE FALSE
    OBVIOUS
  <2>1. 1 .. n + 1 \subseteq KeysInUse
    OBVIOUS
  <2>2. Cardinality(1 .. n + 1) <= n
    BY <1>1, <2>1, FS_Subset
  <2>3. n + 1 \in Int /\ 1 \in Int /\ ~(1 > n + 1)
    BY <1>1
  <2>4. Cardinality(1 .. n + 1) = (n + 1) - 1 + 1
    BY <2>3, FS_Interval
  <2> QED
    BY <1>1, <2>2, <2>4
<1>3. PICK k \in T : \A j \in T : k <= j
  <2>1. T \subseteq Nat
    BY <1>1
  <2> QED
    BY <1>2, <2>1, LeastNat
<1>4. k \in 1 .. n + 1 /\ k \notin KeysInUse /\ \A j \in 1 .. k - 1 : j \in KeysInUse
  BY <1>1, <1>3
<1>5. generateAPIKey \in 1 .. n + 1 /\ generateAPIKey \notin KeysInUse
  BY <1>4 DEF generateAPIKey
<1>6. /\ Cardinality(Devices) \in Nat /\ Cardinality(Machines) \in Nat
      /\ Cardinality(Slots) \in Nat
  BY DevicesFinite, EnrollmentAssumption, FS_CardinalityType
<1>7. n <= 2 * Cardinality(Devices) + 2 * Cardinality(Machines) + Cardinality(Slots)
  BY KeysBound
<1> HIDE DEF n
<1> QED
  BY <1>1, <1>5, <1>6, <1>7 DEF Keys

-----------------------------------------------------------------------------
(* Types.                                                                  *)

Names == {""} \cup {HW[m] : m \in Machines} \cup {MAC[m] : m \in Machines}
Steps == {"", "check", "find", "recheck", "rotate", "insert", "resolve",
          "auth", "store", "revoke", "remove", "purge"}
Creds == [dev : Devices \cup {NoDevice}, key : Keys]
Rows  == [here : BOOLEAN, key : Keys, old : Keys, hw : Names, mac : Names,
          wiped : BOOLEAN]
Docs  == [dev : Devices, hw : Names, mac : Names]
Requests ==
    [op : {"free", "register", "ingest", "delete"}, m : Machines \cup {""},
     key : Keys, dev : Devices \cup {NoDevice}, pc : Steps, n : 0 .. 4,
     client : BOOLEAN, blocked : BOOLEAN, hw : Names, mac : Names]
Stores == {"archives", "telemetry", "usage"}
AgentStates == {"off", "boot", "register", "ready", "wait", "persist"}

\* What the fields of a request mean to its handler.
Fits(x) ==
    /\ x.op = "free" => x.pc = ""
    /\ x.op = "register" =>
         /\ x.m \in Machines
         /\ x.pc \in {"check", "find", "recheck", "rotate", "insert", "resolve"}
         /\ x.pc \in {"recheck", "rotate"} => x.dev \in Devices
    /\ x.op = "ingest" =>
         /\ x.m \in Machines
         /\ x.pc \in {"auth", "check", "store"}
         /\ x.pc # "auth" => x.dev \in Devices
         /\ x.pc = "store" => x.n \in 1 .. 4
    /\ x.op = "delete" =>
         /\ x.dev \in Devices
         /\ x.pc \in {"revoke", "remove", "purge"}
         /\ x.pc = "purge" => x.n \in 1 .. 3

RowsTyped ==
    /\ dev \in [Devices -> Rows]
    /\ \A d \in Devices : ~dev[d].here => dev[d] = NoRow
StoresTyped == revs \subseteq Docs /\ left \in [Devices -> SUBSET Stores]
AgentsTyped ==
    /\ cred \in [Machines -> Creds] /\ cache \in [Machines -> Creds]
    /\ agent \in [Machines -> AgentStates]
ReqTyped == req \in [Slots -> Requests] /\ \A s \in Slots : Fits(req[s])
CountsTyped ==
    /\ ops \in 0 .. MaxOps /\ faults \in 0 .. MaxFaults
    /\ banned \subseteq Devices /\ open \subseteq Devices /\ mess \subseteq Devices

TypeInv == RowsTyped /\ StoresTyped /\ AgentsTyped /\ ReqTyped /\ CountsTyped

LEMMA TypeInvOK == TypeInv => TypeOK
BY DEF TypeInv, RowsTyped, StoresTyped, AgentsTyped, ReqTyped, CountsTyped, TypeOK,
       Rows, Docs, Creds, Requests, Stores, AgentStates

LEMMA Constants ==
    /\ Keys \subseteq Nat /\ 0 \in Keys /\ 1 \in Keys
    /\ \A m \in Machines : DeviceId(m) \in Devices
    /\ \A m \in Machines : HW[m] \in Names /\ MAC[m] \in Names
    /\ NoDevice \notin Devices
    /\ NoCred \in Creds /\ NoRow \in Rows
    /\ Free \in Requests /\ Free.op = "free" /\ Fits(Free)
    /\ NoRow.here = FALSE
<1>1. /\ Cardinality(Devices) \in Nat /\ Cardinality(Machines) \in Nat
      /\ Cardinality(Slots) \in Nat
  BY DevicesFinite, EnrollmentAssumption, FS_CardinalityType
<1>2. Keys \subseteq Nat /\ 0 \in Keys /\ 1 \in Keys
  BY <1>1 DEF Keys
<1>3. \A m \in Machines : /\ DeviceId(m) \in Devices
                            /\ HW[m] \in Names /\ MAC[m] \in Names
  BY DEF Devices, Names
<1>4. NoDevice \notin Devices
  BY DEF Devices, DeviceId, NoDevice
<1>5. NoCred \in Creds
  BY <1>2 DEF NoCred, Creds
<1>e. "" \in Names /\ "" \in Steps
  BY DEF Names, Steps
<1>6. NoRow \in Rows /\ NoRow.here = FALSE
  <2>1. NoRow.here = FALSE
    BY DEF NoRow
  <2>2. NoRow \in Rows
    BY <1>2, <1>e DEF NoRow, Rows
  <2> QED
    BY <2>1, <2>2
<1>7. Free \in Requests
  <2>1. /\ "" \in Machines \cup {""} /\ NoDevice \in Devices \cup {NoDevice}
        /\ 0 \in 0 .. 4 /\ "free" \in {"free", "register", "ingest", "delete"}
    OBVIOUS
  <2> QED
    BY <1>2, <1>e, <2>1, Zenon DEF Free, Requests
<1>8. Free.op = "free" /\ Fits(Free)
  BY DEF Free, Fits
<1> QED
  BY <1>2, <1>3, <1>4, <1>5, <1>6, <1>7, <1>8

(* What a step does to the requests. *)

\* The request in slot s moves on: its next step, device, count and mark.
Moves(s, pc, d, n, b) ==
    /\ req' \in [Slots -> Requests]
    /\ \A t \in Slots : t # s => req'[t] = req[t]
    /\ req'[s].op = req[s].op /\ req'[s].m = req[s].m
    /\ req'[s].key = req[s].key /\ req'[s].client = req[s].client
    /\ req'[s].hw = req[s].hw /\ req'[s].mac = req[s].mac
    /\ req'[s].pc = pc /\ req'[s].dev = d /\ req'[s].n = n
    /\ req'[s].blocked = b

\* A record of the same request, and the slot that is set to it.
LEMMA SetMoves ==
    ASSUME ReqTyped, NEW s \in Slots, NEW x \in Requests, NEW r \in Requests, r = req[s],
           req' = [req EXCEPT ![s] = x],
           x.op = r.op, x.m = r.m, x.key = r.key, x.client = r.client, x.hw = r.hw,
           x.mac = r.mac
    PROVE  Moves(s, x.pc, x.dev, x.n, x.blocked)
<1>1. req' \in [Slots -> Requests] /\ req'[s] = x /\ \A t \in Slots : t # s => req'[t] = req[t]
  BY DEF ReqTyped
<1> QED
  BY <1>1 DEF Moves

LEMMA GoMoves ==
    ASSUME ReqTyped, NEW s \in Slots, NEW pc \in Steps, Go(s, pc)
    PROVE  Moves(s, pc, req[s].dev, req[s].n, req[s].blocked)
<1>1. PICK r \in Requests : r = req[s]
  BY DEF ReqTyped
<1>2. PICK x : x = [r EXCEPT !.pc = pc]
  OBVIOUS
<1>3. req' = [req EXCEPT ![s] = x]
  BY <1>1, <1>2 DEF Go
<1>4. /\ x \in Requests /\ x.op = r.op /\ x.m = r.m /\ x.key = r.key
      /\ x.client = r.client /\ x.hw = r.hw /\ x.mac = r.mac
      /\ x.pc = pc /\ x.dev = r.dev /\ x.n = r.n /\ x.blocked = r.blocked
  BY <1>2 DEF Requests
<1>5. Moves(s, x.pc, x.dev, x.n, x.blocked)
  BY <1>1, <1>3, <1>4, SetMoves
<1> QED
  BY <1>1, <1>4, <1>5

LEMMA DevMoves ==
    ASSUME ReqTyped, NEW s \in Slots, NEW pc \in Steps, NEW d \in Devices,
           req' = [req EXCEPT ![s].pc = pc, ![s].dev = d]
    PROVE  Moves(s, pc, d, req[s].n, req[s].blocked)
<1>1. PICK r \in Requests : r = req[s]
  BY DEF ReqTyped
<1>2. PICK x : x = [r EXCEPT !.pc = pc, !.dev = d]
  OBVIOUS
<1>3. req' = [req EXCEPT ![s] = x]
  BY <1>1, <1>2 DEF ReqTyped
<1>4. /\ x \in Requests /\ x.op = r.op /\ x.m = r.m /\ x.key = r.key
      /\ x.client = r.client /\ x.hw = r.hw /\ x.mac = r.mac
      /\ x.pc = pc /\ x.dev = d /\ x.n = r.n /\ x.blocked = r.blocked
  BY <1>2 DEF Requests
<1>5. Moves(s, x.pc, x.dev, x.n, x.blocked)
  BY <1>1, <1>3, <1>4, SetMoves
<1> QED
  BY <1>1, <1>4, <1>5

LEMMA AuthMoves ==
    ASSUME ReqTyped, NEW s \in Slots, NEW pc \in Steps, NEW d \in Devices, NEW b \in BOOLEAN,
           req' = [req EXCEPT ![s].dev = d, ![s].pc = pc, ![s].blocked = b]
    PROVE  Moves(s, pc, d, req[s].n, b)
<1>1. PICK r \in Requests : r = req[s]
  BY DEF ReqTyped
<1>2. PICK x : x = [r EXCEPT !.dev = d, !.pc = pc, !.blocked = b]
  OBVIOUS
<1>3. req' = [req EXCEPT ![s] = x]
  BY <1>1, <1>2 DEF ReqTyped
<1>4. /\ x \in Requests /\ x.op = r.op /\ x.m = r.m /\ x.key = r.key
      /\ x.client = r.client /\ x.hw = r.hw /\ x.mac = r.mac
      /\ x.pc = pc /\ x.dev = d /\ x.n = r.n /\ x.blocked = b
  BY <1>2 DEF Requests
<1>5. Moves(s, x.pc, x.dev, x.n, x.blocked)
  BY <1>1, <1>3, <1>4, SetMoves
<1> QED
  BY <1>1, <1>4, <1>5

LEMMA CountMoves ==
    ASSUME ReqTyped, NEW s \in Slots, NEW pc \in Steps, NEW n \in 0 .. 4,
           \/ req' = [req EXCEPT ![s].pc = pc, ![s].n = n]
           \/ req' = [req EXCEPT ![s].n = n] /\ pc = req[s].pc
    PROVE  Moves(s, pc, req[s].dev, n, req[s].blocked)
<1>1. PICK r \in Requests : r = req[s]
  BY DEF ReqTyped
<1>2. PICK x : /\ req' = [req EXCEPT ![s] = x]
               /\ \/ x = [r EXCEPT !.pc = pc, !.n = n]
                  \/ x = [r EXCEPT !.n = n] /\ pc = r.pc
  <2>1. CASE req' = [req EXCEPT ![s].pc = pc, ![s].n = n]
    <3>1. req' = [req EXCEPT ![s] = [r EXCEPT !.pc = pc, !.n = n]]
      BY <1>1, <2>1 DEF ReqTyped
    <3> QED
      BY <3>1
  <2>2. CASE req' = [req EXCEPT ![s].n = n] /\ pc = req[s].pc
    <3>1. req' = [req EXCEPT ![s] = [r EXCEPT !.n = n]]
      BY <1>1, <2>2 DEF ReqTyped
    <3> QED
      BY <1>1, <2>2, <3>1
  <2> QED
    BY <2>1, <2>2
<1>4. /\ x \in Requests /\ x.op = r.op /\ x.m = r.m /\ x.key = r.key
      /\ x.client = r.client /\ x.hw = r.hw /\ x.mac = r.mac
      /\ x.pc = pc /\ x.dev = r.dev /\ x.n = n /\ x.blocked = r.blocked
  BY <1>2 DEF Requests
<1>5. Moves(s, x.pc, x.dev, x.n, x.blocked)
  BY <1>1, <1>2, <1>4, SetMoves
<1> QED
  BY <1>1, <1>4, <1>5

\* A request that moves on to a step of its handler is well formed.
LEMMA MovesTyped ==
    ASSUME ReqTyped, NEW s \in Slots, NEW pc, NEW d, NEW n, NEW b, Moves(s, pc, d, n, b),
           \/ /\ req[s].op = "register" /\ pc \in {"find", "insert", "resolve"}
           \/ /\ req[s].op = "register" /\ pc \in {"recheck", "rotate"} /\ d \in Devices
           \/ /\ req[s].op = "ingest" /\ pc = "check" /\ d \in Devices
           \/ /\ req[s].op = "ingest" /\ pc = "store" /\ d \in Devices /\ n \in 1 .. 4
           \/ /\ req[s].op = "delete" /\ pc = "remove" /\ d = req[s].dev
           \/ /\ req[s].op = "delete" /\ pc = "purge" /\ d = req[s].dev /\ n \in 1 .. 3
    PROVE  ReqTyped'
<1>1. Fits(req[s])
  BY DEF ReqTyped
<1>2. Fits(req'[s])
  BY <1>1 DEF Moves, Fits
<1> QED
  BY <1>2 DEF Moves, ReqTyped

\* A slot is emptied, or filled with a well-formed request.
LEMMA FillTyped ==
    ASSUME ReqTyped, NEW s \in Slots, NEW x \in Requests, Fits(x),
           req' = [req EXCEPT ![s] = x]
    PROVE  ReqTyped' /\ req'[s] = x /\ \A t \in Slots : t # s => req'[t] = req[t]
BY DEF ReqTyped

\* All requests may lose a mark.
LEMMA MarkTyped ==
    ASSUME ReqTyped,
           \A s \in Slots : \/ req'[s] = req[s]
                            \/ req'[s] = [req[s] EXCEPT !.client = FALSE]
                            \/ req'[s] = [req[s] EXCEPT !.blocked = FALSE],
           DOMAIN req' = Slots, req' = [s \in Slots |-> req'[s]]
    PROVE  /\ ReqTyped'
           /\ \A s \in Slots : /\ req'[s].op = req[s].op /\ req'[s].m = req[s].m
                               /\ req'[s].pc = req[s].pc /\ req'[s].dev = req[s].dev
                               /\ req'[s].n = req[s].n
<1>1. ASSUME NEW s \in Slots
      PROVE  /\ req'[s] \in Requests /\ Fits(req'[s])
             /\ req'[s].op = req[s].op /\ req'[s].m = req[s].m
             /\ req'[s].pc = req[s].pc /\ req'[s].dev = req[s].dev
             /\ req'[s].n = req[s].n
  <2>1. PICK r \in Requests : r = req[s] /\ Fits(r)
    BY DEF ReqTyped
  <2>2. PICK x : x = req'[s]
    OBVIOUS
  <2>3. x = r \/ x = [r EXCEPT !.client = FALSE] \/ x = [r EXCEPT !.blocked = FALSE]
    BY <2>1, <2>2
  <2>4. /\ x \in Requests /\ x.op = r.op /\ x.m = r.m /\ x.pc = r.pc
        /\ x.dev = r.dev /\ x.n = r.n
    BY <2>3 DEF Requests
  <2>5. Fits(x)
    BY <2>1, <2>4 DEF Fits
  <2> QED
    BY <2>1, <2>2, <2>4, <2>5
<1> QED
  BY <1>1 DEF ReqTyped

(* What a step does to the rows of the devices. *)

\* Where the fingerprint of a row that was written comes from: the row as it
\* was, the machine that registered, or nowhere.
Origin(d, x) ==
    \/ dev[d].here /\ x.hw = dev[d].hw /\ x.mac = dev[d].mac
    \/ \E m \in Machines : /\ d \in Recovery(m) \cup {DeviceId(m)}
                           /\ x.hw = HW[m] /\ x.mac = MAC[m]
    \/ x.hw = "" /\ x.mac = ""

RowWritten ==
    \E d \in Devices, x \in Rows :
        dev' = [dev EXCEPT ![d] = x] /\ x.here /\ Origin(d, x)

LEMMA RegisterRows ==
    ASSUME TypeInv, NEW s \in Slots, Register(s)
    PROVE  dev' = dev \/ RowWritten
<1>0. /\ RowsTyped /\ generateAPIKey \in Keys /\ Fits(req[s])
      /\ NoRow \in Rows
  BY FreshKey, Constants DEF TypeInv, ReqTyped
<1>1. CASE CheckRegister(s) \/ FindRegister(s) \/ RecheckRegister(s)
  BY <1>1 DEF CheckRegister, FindRegister, RecheckRegister, storeVars
<1>2. CASE rotateDeviceKey(s)
  <2>1. PICK m \in Machines : m = req[s].m
    BY <1>0, <1>2 DEF rotateDeviceKey, Fits
  <2>2. CASE dev' = dev
    BY <2>2
  <2>3. ASSUME NEW d \in Recovery(m),
               dev' = [dev EXCEPT ![d].key = generateAPIKey, ![d].hw = HW[m], ![d].mac = MAC[m]]
        PROVE  RowWritten
    <3>1. PICK r \in Rows : r = dev[d] /\ d \in Devices /\ r.here
      BY <1>0, <2>3 DEF Recovery, RowsTyped
    <3>2. PICK x : x = [r EXCEPT !.key = generateAPIKey, !.hw = HW[m], !.mac = MAC[m]]
      OBVIOUS
    <3>3. HW[m] \in Names /\ MAC[m] \in Names
      BY Constants
    <3>4. x \in Rows /\ x.here /\ x.hw = HW[m] /\ x.mac = MAC[m]
      BY <1>0, <3>1, <3>2, <3>3 DEF Rows
    <3>5. dev' = [dev EXCEPT ![d] = x]
      BY <1>0, <2>3, <3>1, <3>2 DEF RowsTyped
    <3> QED
      BY <3>1, <3>4, <3>5, <2>3 DEF RowWritten, Origin
  <2> QED
    BY <1>2, <2>1, <2>2, <2>3 DEF rotateDeviceKey
<1>3. CASE InsertDevice(s)
  <2>1. PICK m \in Machines : m = req[s].m
    BY <1>0, <1>3 DEF InsertDevice, Fits
  <2>2. PICK d \in Devices : d = DeviceId(m)
    BY Constants
  <2>3. CASE dev' = dev
    BY <2>3
  <2>4. CASE dev' = [dev EXCEPT ![d] = [NoRow EXCEPT !.here = TRUE, !.hw = HW[m],
                                                 !.mac = MAC[m], !.key = generateAPIKey]]
    <3>1. PICK x : x = [NoRow EXCEPT !.here = TRUE, !.hw = HW[m],
                                     !.mac = MAC[m], !.key = generateAPIKey]
      OBVIOUS
    <3>2. HW[m] \in Names /\ MAC[m] \in Names
      BY Constants
    <3>3. x \in Rows /\ x.here /\ x.hw = HW[m] /\ x.mac = MAC[m]
      BY <1>0, <3>1, <3>2 DEF Rows
    <3> QED
      BY <2>2, <2>4, <3>1, <3>3 DEF RowWritten, Origin
  <2> QED
    BY <1>3, <2>1, <2>2, <2>3, <2>4 DEF InsertDevice
<1>4. CASE ResolveRace(s)
  <2>1. PICK m \in Machines : m = req[s].m
    BY <1>0, <1>4 DEF ResolveRace, Fits
  <2>2. PICK d \in Devices : d = DeviceId(m)
    BY Constants
  <2>3. CASE dev' = dev
    BY <2>3
  <2>4. CASE dev[d].here /\ dev' = [dev EXCEPT ![d].key = generateAPIKey]
    <3>1. PICK r \in Rows : r = dev[d]
      BY <1>0 DEF RowsTyped
    <3>2. PICK x : x = [r EXCEPT !.key = generateAPIKey]
      OBVIOUS
    <3>3. x \in Rows /\ x.here /\ x.hw = r.hw /\ x.mac = r.mac
      BY <1>0, <2>4, <3>1, <3>2 DEF Rows
    <3>4. dev' = [dev EXCEPT ![d] = x]
      BY <2>4, <3>1, <3>2
    <3> QED
      BY <2>4, <3>1, <3>3, <3>4 DEF RowWritten, Origin
  <2> QED
    BY <1>4, <2>1, <2>2, <2>3, <2>4 DEF ResolveRace
<1> QED
  BY <1>1, <1>2, <1>3, <1>4 DEF Register

LEMMA IngestRows ==
    ASSUME TypeInv, NEW s \in Slots, Ingest(s)
    PROVE  dev' = dev \/ RowWritten
<1>0. RowsTyped /\ ReqTyped /\ Fits(req[s]) /\ 0 \in Keys
  BY Constants DEF TypeInv, ReqTyped
<1>1. CASE AuthIngest(s)
  <2>1. CASE dev' = dev
    BY <2>1
  <2>2. ASSUME NEW d \in resolveAPIKey(req[s].key),
               dev' = [dev EXCEPT ![d].key = req[s].key, ![d].old = 0]
        PROVE  RowWritten
    <3>1. PICK r \in Rows : r = dev[d] /\ d \in Devices /\ r.here
      BY <1>0, <2>2 DEF resolveAPIKey, RowsTyped
    <3>2. PICK k \in Keys : k = req[s].key
      BY <1>0 DEF ReqTyped, Requests
    <3>3. PICK x : x = [r EXCEPT !.key = k, !.old = 0]
      OBVIOUS
    <3>4. x \in Rows /\ x.here /\ x.hw = r.hw /\ x.mac = r.mac
      BY <1>0, <3>1, <3>2, <3>3 DEF Rows
    <3>5. dev' = [dev EXCEPT ![d] = x]
      BY <1>0, <2>2, <3>1, <3>2, <3>3 DEF RowsTyped
    <3> QED
      BY <3>1, <3>4, <3>5 DEF RowWritten, Origin
  <2> QED
    BY <1>1, <2>1, <2>2 DEF AuthIngest
<1>2. CASE CheckIngest(s)
  BY <1>2 DEF CheckIngest, storeVars
<1>3. CASE StoreIngest(s)
  <2>1. PICK d \in Devices : d = req[s].dev
    BY <1>0, <1>3 DEF StoreIngest, Fits
  <2>2. CASE dev' = dev
    BY <2>2
  <2>3. CASE dev' = [dev EXCEPT ![d].here = TRUE]
    <3>1. PICK r \in Rows : r = dev[d]
      BY <1>0 DEF RowsTyped
    <3>2. PICK x : x = [r EXCEPT !.here = TRUE]
      OBVIOUS
    <3>3. x \in Rows /\ x.here /\ x.hw = r.hw /\ x.mac = r.mac
      BY <3>1, <3>2 DEF Rows
    <3>4. dev' = [dev EXCEPT ![d] = x]
      BY <2>3, <3>1, <3>2
    <3>5. r.here \/ (r.hw = "" /\ r.mac = "")
      <4>1. NoRow.hw = "" /\ NoRow.mac = ""
        BY DEF NoRow
      <4>2. ~r.here => r = NoRow
        BY <1>0, <3>1 DEF RowsTyped
      <4> QED
        BY <4>1, <4>2
    <3> QED
      BY <3>1, <3>3, <3>4, <3>5 DEF RowWritten, Origin
  <2> QED
    BY <1>3, <2>1, <2>2, <2>3 DEF StoreIngest
<1> QED
  BY <1>1, <1>2, <1>3 DEF Ingest

\* The failures of the API's calls.
CallFails(s) == CheckFails(s) \/ HandlerFails(s) \/ FindFails(s)

\* The steps of the agent of machine m.
Machine(m) ==
    \/ AgentStep(m) \/ PersistFails(m) \/ Reinstall(m)
    \/ \E crash \in BOOLEAN : GiveUp(m, crash)

\* Rows are written, and removed by a deletion, and left alone otherwise.
LEMMA RowsChange ==
    ASSUME TypeInv, [Next]_vars
    PROVE  dev' = dev \/ RowWritten \/ \E s \in Slots : RemoveDevice(s)
<1>1. ASSUME NEW s \in Slots, Register(s) \/ Ingest(s) PROVE dev' = dev \/ RowWritten
  BY <1>1, RegisterRows, IngestRows
<1>2. ASSUME NEW s \in Slots, createDeviceRevocation(s) \/ PurgeDevice(s) PROVE dev' = dev
  BY <1>2 DEF createDeviceRevocation, PurgeDevice
<1>3. ASSUME NEW s \in Slots, CallFails(s) PROVE dev' = dev
  BY <1>3 DEF CallFails, CheckFails, HandlerFails, FindFails, storeVars
<1>4. ASSUME NEW s \in Slots, NEW d \in Devices, BeginDelete(d, s) PROVE dev' = dev
  BY <1>4 DEF BeginDelete, storeVars
<1>5. ASSUME NEW m \in Agents, Machine(m) PROVE dev' = dev
  <2>1. CASE AgentStep(m)
    BY <2>1 DEF AgentStep, Boot, Persist, SendRegister, SendUpload, storeVars
  <2>2. CASE PersistFails(m) \/ Reinstall(m)
    BY <2>2 DEF PersistFails, Reinstall, storeVars
  <2>3. ASSUME NEW crash \in BOOLEAN, GiveUp(m, crash) PROVE dev' = dev
    BY <2>3 DEF GiveUp, storeVars
  <2> QED
    BY <1>5, <2>1, <2>2, <2>3 DEF Machine
<1>6. ASSUME NEW d \in Devices, ClearRevocation(d) PROVE dev' = dev
  BY <1>6 DEF ClearRevocation
<1>7. ASSUME NEW d \in Devices, WipeRecorded(d) PROVE RowWritten
  <2>1. PICK r \in Rows : r = dev[d] /\ r.here
    BY <1>7 DEF TypeInv, RowsTyped, WipeRecorded
  <2>2. PICK x : x = [r EXCEPT !.wiped = TRUE]
    OBVIOUS
  <2>3. x \in Rows /\ x.here /\ x.hw = r.hw /\ x.mac = r.mac
    BY <2>1, <2>2 DEF Rows
  <2>4. dev' = [dev EXCEPT ![d] = x]
    BY <1>7, <2>1, <2>2 DEF WipeRecorded
  <2> QED
    BY <2>1, <2>3, <2>4 DEF RowWritten, Origin
<1>8. CASE UNCHANGED vars
  BY <1>8 DEF vars, storeVars
<1> QED
  BY <1>1, <1>2, <1>3, <1>4, <1>5, <1>6, <1>7, <1>8 DEF Next, Delete, CallFails, Machine

LEMMA RowsTypedStep == TypeInv /\ [Next]_vars => RowsTyped'
<1> SUFFICES ASSUME TypeInv, [Next]_vars PROVE RowsTyped'
  OBVIOUS
<1>0. RowsTyped
  BY DEF TypeInv
<1>1. CASE dev' = dev
  BY <1>0, <1>1 DEF RowsTyped
<1>2. CASE RowWritten
  BY <1>0, <1>2 DEF RowsTyped, RowWritten
<1>3. ASSUME NEW s \in Slots, RemoveDevice(s) PROVE RowsTyped'
  BY <1>0, <1>3, Constants DEF RowsTyped, RemoveDevice
<1> QED
  BY <1>1, <1>2, <1>3, RowsChange

(* The requests stay well formed. *)

LEMMA Frees ==
    ASSUME TypeInv, NEW s \in Slots, req' = [req EXCEPT ![s] = Free]
    PROVE  ReqTyped' /\ req'[s] = Free /\ \A t \in Slots : t # s => req'[t] = req[t]
BY Constants, FillTyped DEF TypeInv

LEMMA RegisterReqs ==
    ASSUME TypeInv, NEW s \in Slots, Register(s)
    PROVE  ReqTyped'
<1>0. ReqTyped /\ Fits(req[s])
  BY DEF TypeInv, ReqTyped
<1>1. CASE req' = [req EXCEPT ![s] = Free]
  BY <1>1, Frees
<1>2. ASSUME NEW pc \in {"find", "insert", "resolve"}, Go(s, pc), req[s].op = "register"
      PROVE  ReqTyped'
  <2>1. Moves(s, pc, req[s].dev, req[s].n, req[s].blocked)
    BY <1>0, <1>2, GoMoves DEF Steps
  <2> QED
    BY <1>0, <1>2, <2>1, MovesTyped
<1>3. ASSUME Go(s, "rotate"), req[s].op = "register", req[s].pc = "recheck"
      PROVE  ReqTyped'
  <2>1. Moves(s, "rotate", req[s].dev, req[s].n, req[s].blocked)
    BY <1>0, <1>3, GoMoves DEF Steps
  <2>2. req[s].dev \in Devices
    BY <1>0, <1>3 DEF Fits
  <2> QED
    BY <1>0, <1>3, <2>1, <2>2, MovesTyped
<1>4. ASSUME NEW d \in Devices, req' = [req EXCEPT ![s].pc = "recheck", ![s].dev = d],
             req[s].op = "register"
      PROVE  ReqTyped'
  <2>1. Moves(s, "recheck", d, req[s].n, req[s].blocked)
    BY <1>0, <1>4, DevMoves DEF Steps
  <2> QED
    BY <1>0, <1>4, <2>1, MovesTyped
<1>5. CASE CheckRegister(s)
  BY <1>1, <1>2, <1>5 DEF CheckRegister, Refuse, Tell
<1>6. CASE FindRegister(s)
  BY <1>2, <1>4, <1>6 DEF FindRegister, Recovery
<1>7. CASE RecheckRegister(s)
  BY <1>1, <1>3, <1>7 DEF RecheckRegister, Refuse, Tell
<1>8. CASE rotateDeviceKey(s) \/ ResolveRace(s)
  BY <1>1, <1>8 DEF rotateDeviceKey, ResolveRace, Refuse, Tell
<1>9. CASE InsertDevice(s)
  BY <1>1, <1>2, <1>9 DEF InsertDevice, Tell
<1> QED
  BY <1>5, <1>6, <1>7, <1>8, <1>9 DEF Register

\* An upload moves on, or its slot is freed.
LEMMA IngestMoves ==
    ASSUME TypeInv, NEW s \in Slots, Ingest(s)
    PROVE  \/ req' = [req EXCEPT ![s] = Free]
           \/ /\ AuthIngest(s)
              /\ \E d \in Devices, b \in BOOLEAN :
                    dev[d].here /\ Moves(s, "check", d, req[s].n, b)
           \/ CheckIngest(s) /\ Moves(s, "store", req[s].dev, 1, req[s].blocked)
           \/ /\ StoreIngest(s) /\ req[s].n < 4
              /\ Moves(s, "store", req[s].dev, req[s].n + 1, req[s].blocked)
<1>0. ReqTyped /\ Fits(req[s])
  BY DEF TypeInv, ReqTyped
<1>1. CASE AuthIngest(s)
  <2>1. ASSUME NEW d \in Devices, dev[d].here,
               req' = [req EXCEPT ![s].dev = d, ![s].pc = "check", ![s].blocked = d \in banned]
        PROVE  \E b \in BOOLEAN : Moves(s, "check", d, req[s].n, b)
    <3>0. (d \in banned) \in BOOLEAN
      OBVIOUS
    <3>1. PICK b \in BOOLEAN : b = (d \in banned)
      BY <3>0, Zenon
    <3>2. "check" \in Steps
      BY DEF Steps
    <3>3. req' = [req EXCEPT ![s].dev = d, ![s].pc = "check", ![s].blocked = b]
      BY <2>1, <3>1
    <3> QED
      BY <1>0, <3>2, <3>3, AuthMoves
  <2> QED
    BY <1>1, <2>1 DEF AuthIngest, Tell, resolveAPIKey
<1>2. CASE CheckIngest(s)
  <2>1. ASSUME req' = [req EXCEPT ![s].pc = "store", ![s].n = 1]
        PROVE  Moves(s, "store", req[s].dev, 1, req[s].blocked)
    <3>1. "store" \in Steps /\ 1 \in 0 .. 4
      BY DEF Steps
    <3> QED
      BY <1>0, <2>1, <3>1, CountMoves
  <2> QED
    BY <1>2, <2>1 DEF CheckIngest, Refuse, Tell
<1>3. CASE StoreIngest(s)
  <2>0. req[s].op = "ingest" /\ req[s].pc = "store" /\ req[s].n \in 1 .. 4
    BY <1>0, <1>3 DEF StoreIngest, Fits
  <2>1. ASSUME req[s].n < 4, req' = [req EXCEPT ![s].n = req[s].n + 1]
        PROVE  Moves(s, "store", req[s].dev, req[s].n + 1, req[s].blocked)
    <3>1. PICK n \in 1 .. 4 : n = req[s].n + 1
      BY <2>0, <2>1
    <3>2. "store" \in Steps /\ n \in 0 .. 4
      BY DEF Steps
    <3>3. req' = [req EXCEPT ![s].n = n] /\ "store" = req[s].pc
      BY <2>0, <2>1, <3>1
    <3>4. Moves(s, "store", req[s].dev, n, req[s].blocked)
      BY <1>0, <3>2, <3>3, CountMoves
    <3> QED
      BY <3>1, <3>4
  <2>2. Len(IngestOrder) = 4
    BY DEF IngestOrder
  <2> QED
    BY <1>3, <2>1, <2>2 DEF StoreIngest, Refuse, Tell
<1> QED
  BY <1>1, <1>2, <1>3 DEF Ingest

LEMMA IngestReqs ==
    ASSUME TypeInv, NEW s \in Slots, Ingest(s)
    PROVE  ReqTyped'
<1>0. ReqTyped /\ Fits(req[s])
  BY DEF TypeInv, ReqTyped
<1>1. CASE req' = [req EXCEPT ![s] = Free]
  BY <1>1, Frees
<1>2. ASSUME AuthIngest(s), NEW d \in Devices, NEW b \in BOOLEAN,
             Moves(s, "check", d, req[s].n, b)
      PROVE  ReqTyped'
  BY <1>0, <1>2, MovesTyped DEF AuthIngest
<1>3. ASSUME CheckIngest(s), Moves(s, "store", req[s].dev, 1, req[s].blocked)
      PROVE  ReqTyped'
  <2>1. req[s].op = "ingest" /\ req[s].dev \in Devices
    BY <1>0, <1>3 DEF CheckIngest, Fits
  <2> QED
    BY <1>0, <1>3, <2>1, MovesTyped
<1>4. ASSUME StoreIngest(s), req[s].n < 4,
             Moves(s, "store", req[s].dev, req[s].n + 1, req[s].blocked)
      PROVE  ReqTyped'
  <2>1. req[s].op = "ingest" /\ req[s].dev \in Devices /\ req[s].n + 1 \in 1 .. 4
    BY <1>0, <1>4 DEF StoreIngest, Fits
  <2> QED
    BY <1>0, <1>4, <2>1, MovesTyped
<1> QED
  BY <1>1, <1>2, <1>3, <1>4, IngestMoves

\* So does a deletion.
LEMMA DeleteMoves ==
    ASSUME TypeInv, NEW s \in Slots, Delete(s)
    PROVE  \/ req' = [req EXCEPT ![s] = Free]
           \/ /\ createDeviceRevocation(s)
              /\ Moves(s, "remove", req[s].dev, req[s].n, req[s].blocked)
           \/ /\ RemoveDevice(s) /\ dev[req[s].dev].here
              /\ Moves(s, "purge", req[s].dev, 1, req[s].blocked)
           \/ /\ PurgeDevice(s) /\ req[s].n < 3
              /\ Moves(s, "purge", req[s].dev, req[s].n + 1, req[s].blocked)
<1>0. ReqTyped /\ Fits(req[s])
  BY DEF TypeInv, ReqTyped
<1>1. CASE createDeviceRevocation(s)
  <2>1. Moves(s, "remove", req[s].dev, req[s].n, req[s].blocked)
    BY <1>0, <1>1, GoMoves DEF createDeviceRevocation, Steps
  <2> QED
    BY <1>1, <2>1
<1>2. CASE RemoveDevice(s)
  <2>1. ASSUME req' = [req EXCEPT ![s].pc = "purge", ![s].n = 1]
        PROVE  Moves(s, "purge", req[s].dev, 1, req[s].blocked)
    <3>1. "purge" \in Steps /\ 1 \in 0 .. 4
      BY DEF Steps
    <3> QED
      BY <1>0, <2>1, <3>1, CountMoves
  <2> QED
    BY <1>2, <2>1 DEF RemoveDevice
<1>3. CASE PurgeDevice(s)
  <2>0. req[s].op = "delete" /\ req[s].pc = "purge" /\ req[s].n \in 1 .. 3
    BY <1>0, <1>3 DEF PurgeDevice, Fits
  <2>1. ASSUME req[s].n < 3, req' = [req EXCEPT ![s].n = req[s].n + 1]
        PROVE  Moves(s, "purge", req[s].dev, req[s].n + 1, req[s].blocked)
    <3>1. PICK n \in 1 .. 3 : n = req[s].n + 1
      BY <2>0, <2>1
    <3>2. "purge" \in Steps /\ n \in 0 .. 4
      BY DEF Steps
    <3>3. req' = [req EXCEPT ![s].n = n] /\ "purge" = req[s].pc
      BY <2>0, <2>1, <3>1
    <3>4. Moves(s, "purge", req[s].dev, n, req[s].blocked)
      BY <1>0, <3>2, <3>3, CountMoves
    <3> QED
      BY <3>1, <3>4
  <2>2. Len(DeleteOrder) = 3
    BY DEF DeleteOrder
  <2> QED
    BY <1>3, <2>1, <2>2 DEF PurgeDevice
<1> QED
  BY <1>1, <1>2, <1>3 DEF Delete

LEMMA DeleteReqs ==
    ASSUME TypeInv, NEW s \in Slots, Delete(s)
    PROVE  ReqTyped'
<1>0. ReqTyped /\ Fits(req[s])
  BY DEF TypeInv, ReqTyped
<1>1. CASE req' = [req EXCEPT ![s] = Free]
  BY <1>1, Frees
<1>2. ASSUME createDeviceRevocation(s),
             Moves(s, "remove", req[s].dev, req[s].n, req[s].blocked)
      PROVE  ReqTyped'
  BY <1>0, <1>2, MovesTyped DEF createDeviceRevocation
<1>3. ASSUME RemoveDevice(s), Moves(s, "purge", req[s].dev, 1, req[s].blocked)
      PROVE  ReqTyped'
  BY <1>0, <1>3, MovesTyped DEF RemoveDevice
<1>4. ASSUME PurgeDevice(s), req[s].n < 3,
             Moves(s, "purge", req[s].dev, req[s].n + 1, req[s].blocked)
      PROVE  ReqTyped'
  <2>1. req[s].op = "delete" /\ req[s].n + 1 \in 1 .. 3
    BY <1>0, <1>4 DEF PurgeDevice, Fits
  <2> QED
    BY <1>0, <1>4, <2>1, MovesTyped
<1> QED
  BY <1>1, <1>2, <1>3, <1>4, DeleteMoves

\* A deletion starts with the identifiers of the row that was loaded.
LEMMA BeginFills ==
    ASSUME TypeInv, NEW s \in Slots, NEW d \in Devices, BeginDelete(d, s)
    PROVE  /\ ReqTyped'
           /\ \A t \in Slots : t # s => req'[t] = req[t]
           /\ req'[s].op = "delete" /\ req'[s].dev = d /\ req'[s].pc = "revoke"
<1>0. ReqTyped /\ RowsTyped
  BY DEF TypeInv
<1>1. PICK h \in Names, a \in Names : h = dev[d].hw /\ a = dev[d].mac
  BY <1>0 DEF RowsTyped, Rows
<1>2. PICK x : x = [Free EXCEPT !.op = "delete", !.dev = d, !.pc = "revoke",
                                !.hw = h, !.mac = a]
  OBVIOUS
<1>3. req' = [req EXCEPT ![s] = x]
  BY <1>1, <1>2 DEF BeginDelete
<1>4. x \in Requests /\ x.op = "delete" /\ x.dev = d /\ x.pc = "revoke"
  <2>1. Free \in Requests
    BY Constants
  <2>2. "revoke" \in Steps
    BY DEF Steps
  <2> HIDE DEF Free
  <2> QED
    BY <1>2, <2>1, <2>2 DEF Requests
<1>5. Fits(x)
  BY <1>4 DEF Fits
<1> QED
  BY <1>0, <1>3, <1>4, <1>5, FillTyped

\* A failing lookup of the block is taken for "not blocked".
LEMMA CheckFailsMoves ==
    ASSUME TypeInv, NEW s \in Slots, CheckFails(s)
    PROVE  \/ /\ req[s].op = "ingest" /\ req[s].dev \in Devices
              /\ Moves(s, "store", req[s].dev, 1, req[s].blocked)
           \/ /\ req[s].op = "register" /\ req[s].pc = "check"
              /\ Moves(s, "find", req[s].dev, 0, req[s].blocked)
           \/ /\ req[s].op = "register" /\ req[s].pc = "recheck" /\ req[s].dev \in Devices
              /\ Moves(s, "rotate", req[s].dev, 0, req[s].blocked)
<1>0. ReqTyped /\ Fits(req[s]) /\ req[s] \in Requests
  BY DEF TypeInv, ReqTyped
<1> DEFINE pc == IF req[s].op = "ingest" THEN "store"
                 ELSE IF req[s].pc = "check" THEN "find" ELSE "rotate"
           n == IF req[s].op = "ingest" THEN 1 ELSE 0
<1>1. req' = [req EXCEPT ![s].pc = pc, ![s].n = n] /\ req[s].pc \in {"check", "recheck"}
  BY DEF CheckFails
<1>2. pc \in Steps /\ n \in 0 .. 4
  BY DEF Steps
<1>3. /\ req[s].op \in {"register", "ingest"}
      /\ req[s].op = "ingest" \/ req[s].pc = "recheck" => req[s].dev \in Devices
  BY <1>0, <1>1 DEF Fits, Requests
<1>4. /\ req[s].op = "ingest" => pc = "store" /\ n = 1
      /\ req[s].op # "ingest" => n = 0
      /\ req[s].op # "ingest" /\ req[s].pc = "check" => pc = "find"
      /\ req[s].op # "ingest" /\ req[s].pc # "check" => pc = "rotate"
  OBVIOUS
<1> HIDE DEF pc, n
<1>5. Moves(s, pc, req[s].dev, n, req[s].blocked)
  BY <1>0, <1>1, <1>2, CountMoves
<1> QED
  BY <1>1, <1>3, <1>4, <1>5

LEMMA FailureReqs ==
    ASSUME TypeInv, NEW s \in Slots, CallFails(s)
    PROVE  ReqTyped'
<1>0. ReqTyped /\ Fits(req[s])
  BY DEF TypeInv, ReqTyped
<1>1. CASE req' = [req EXCEPT ![s] = Free]
  BY <1>1, Frees
<1>2. CASE CheckFails(s)
  BY <1>0, <1>2, CheckFailsMoves, MovesTyped
<1>3. CASE HandlerFails(s)
  BY <1>1, <1>3 DEF HandlerFails, Tell
<1>4. CASE FindFails(s)
  <2>1. Moves(s, "insert", req[s].dev, req[s].n, req[s].blocked)
    BY <1>0, <1>4, GoMoves DEF FindFails, Steps
  <2> QED
    BY <1>0, <1>4, <2>1, MovesTyped DEF FindFails
<1> QED
  BY <1>2, <1>3, <1>4 DEF CallFails

\* What the agents do to the requests: one is sent, or loses its client.
LEMMA MachineReqs ==
    ASSUME TypeInv, NEW m \in Agents, Machine(m)
    PROVE  ReqTyped'
<1>0. ReqTyped /\ m \in Machines /\ cred[m] \in Creds
  BY EnrollmentAssumption DEF TypeInv, AgentsTyped
<1>1. CASE req' = req
  BY <1>0, <1>1 DEF ReqTyped
<1>2. ASSUME NEW s \in Slots, SendRegister(m, s) PROVE ReqTyped'
  <2>1. PICK b : b = (DeviceId(m) \in banned)
    OBVIOUS
  <2>2. PICK x : x = [Free EXCEPT !.op = "register", !.m = m, !.pc = "check",
                                  !.client = TRUE, !.blocked = b]
    OBVIOUS
  <2>3. req' = [req EXCEPT ![s] = x]
    BY <1>2, <2>1, <2>2 DEF SendRegister
  <2>4. x \in Requests /\ x.op = "register" /\ x.m = m /\ x.pc = "check"
    <3>1. Free \in Requests
      BY Constants
    <3>2. "check" \in Steps
      BY DEF Steps
    <3>3. b \in BOOLEAN
      BY <2>1
    <3> HIDE DEF Free
    <3> QED
      BY <1>0, <2>2, <3>1, <3>2, <3>3 DEF Requests
  <2>5. Fits(x)
    BY <1>0, <2>4 DEF Fits
  <2> QED
    BY <1>0, <2>3, <2>4, <2>5, FillTyped
<1>3. ASSUME NEW s \in Slots, SendUpload(m, s) PROVE ReqTyped'
  <2>1. PICK k \in Keys : k = cred[m].key
    BY <1>0 DEF Creds
  <2>2. PICK x : x = [Free EXCEPT !.op = "ingest", !.m = m, !.pc = "auth",
                                  !.key = k, !.client = TRUE]
    OBVIOUS
  <2>3. req' = [req EXCEPT ![s] = x]
    BY <1>3, <2>1, <2>2 DEF SendUpload
  <2>4. x \in Requests /\ x.op = "ingest" /\ x.m = m /\ x.pc = "auth"
    <3>1. Free \in Requests
      BY Constants
    <3>2. "auth" \in Steps
      BY DEF Steps
    <3> HIDE DEF Free
    <3> QED
      BY <1>0, <2>2, <3>1, <3>2 DEF Requests
  <2>5. Fits(x)
    BY <1>0, <2>4 DEF Fits
  <2> QED
    BY <1>0, <2>3, <2>4, <2>5, FillTyped
<1>4. ASSUME NEW crash \in BOOLEAN, GiveUp(m, crash) PROVE ReqTyped'
  <2>1. req' = [s \in Slots |-> IF req[s].op # "free" /\ req[s].m = m
                                THEN [req[s] EXCEPT !.client = FALSE] ELSE req[s]]
    BY <1>4 DEF GiveUp
  <2>2. /\ DOMAIN req' = Slots /\ req' = [s \in Slots |-> req'[s]]
        /\ \A s \in Slots : \/ req'[s] = req[s]
                            \/ req'[s] = [req[s] EXCEPT !.client = FALSE]
    BY <2>1
  <2> QED
    BY <1>0, <2>2, MarkTyped
<1> QED
  BY <1>1, <1>2, <1>3, <1>4
  DEF Machine, AgentStep, Boot, Persist, PersistFails, Reinstall

LEMMA ReqTypedStep == TypeInv /\ [Next]_vars => ReqTyped'
<1> SUFFICES ASSUME TypeInv, [Next]_vars PROVE ReqTyped'
  OBVIOUS
<1>0. ReqTyped
  BY DEF TypeInv
<1>1. ASSUME NEW s \in Slots,
             Register(s) \/ Ingest(s) \/ Delete(s) \/ CallFails(s)
             \/ \E d \in Devices : BeginDelete(d, s)
      PROVE  ReqTyped'
  BY <1>1, RegisterReqs, IngestReqs, DeleteReqs, FailureReqs, BeginFills
<1>2. ASSUME NEW m \in Agents, Machine(m) PROVE ReqTyped'
  BY <1>2, MachineReqs
<1>3. ASSUME NEW d \in Devices, ClearRevocation(d) PROVE ReqTyped'
  <2>1. req' = [s \in Slots |-> [req[s] EXCEPT !.blocked = FALSE]]
    BY <1>3 DEF ClearRevocation
  <2>2. /\ DOMAIN req' = Slots /\ req' = [s \in Slots |-> req'[s]]
        /\ \A s \in Slots : req'[s] = [req[s] EXCEPT !.blocked = FALSE]
    BY <2>1
  <2> QED
    BY <1>0, <2>2, MarkTyped
<1>4. CASE UNCHANGED req
  BY <1>0, <1>4 DEF ReqTyped
<1>5. ASSUME NEW d \in Devices, WipeRecorded(d) PROVE UNCHANGED req
  BY <1>5 DEF WipeRecorded
<1>6. CASE UNCHANGED vars
  BY <1>4, <1>6 DEF vars
<1> QED
  BY <1>1, <1>2, <1>3, <1>4, <1>5, <1>6 DEF Next, CallFails, Machine

(* What a step does to the agents. *)

\* The credentials of a machine after a step come from its memory, from its
\* file, or from an answer that names its own device or the row that was found.
Known(m) == {NoDevice, DeviceId(m), cred[m].dev, cache[m].dev}
Told(m, d) ==
    \E s \in Slots : /\ req[s].op = "register" /\ req[s].pc = "rotate"
                     /\ req[s].m = m /\ req[s].dev = d
CredsKept ==
    /\ AgentsTyped'
    /\ \A m \in Machines : /\ cred'[m].dev \in Known(m) \/ Told(m, cred'[m].dev)
                           /\ cache'[m].dev \in Known(m)

LEMMA SameAgents ==
    ASSUME TypeInv, cred' = cred, cache' = cache, agent' = agent
    PROVE  CredsKept
BY DEF TypeInv, AgentsTyped, CredsKept, Known

LEMMA TellKeeps ==
    ASSUME TypeInv, NEW s \in Slots, NEW m \in Machines, m = req[s].m,
           NEW pc \in AgentStates, NEW c \in Creds, Tell(s, pc, c), cache' = cache,
           c.dev \in Known(m) \/ Told(m, c.dev)
    PROVE  CredsKept
<1>1. /\ agent' = agent \/ agent' = [agent EXCEPT ![m] = pc]
      /\ cred' = cred \/ cred' = [cred EXCEPT ![m] = c]
  BY DEF Tell
<1>2. AgentsTyped
  BY DEF TypeInv
<1>3. AgentsTyped'
  BY <1>1, <1>2 DEF AgentsTyped
<1>4. \A x \in Machines : cred'[x] = cred[x] \/ (x = m /\ cred'[x] = c)
  BY <1>1, <1>2 DEF AgentsTyped
<1> QED
  BY <1>3, <1>4 DEF CredsKept, Known

\* A request of an agent that is refused, or ends with an error.
LEMMA RefuseKeeps ==
    ASSUME TypeInv, NEW s \in Slots, req[s].m \in Machines, NEW pc \in AgentStates,
           Tell(s, pc, cred[req[s].m]), cache' = cache
    PROVE  CredsKept
<1>1. PICK m \in Machines : m = req[s].m
  OBVIOUS
<1>2. cred[m] \in Creds /\ cred[m].dev \in Known(m)
  BY DEF TypeInv, AgentsTyped, Known
<1>3. PICK c \in Creds : c = cred[m]
  BY <1>2
<1>4. Tell(s, pc, c)
  BY <1>1, <1>3 DEF Tell
<1> QED
  BY <1>1, <1>2, <1>3, <1>4, TellKeeps

LEMMA RegisterAgents ==
    ASSUME TypeInv, NEW s \in Slots, Register(s)
    PROVE  CredsKept
<1>0. /\ ReqTyped /\ Fits(req[s]) /\ generateAPIKey \in Keys
      /\ req[s].op = "register" /\ req[s].m \in Machines
  <2>1. req[s].op = "register"
    BY DEF Register, CheckRegister, FindRegister, RecheckRegister, rotateDeviceKey,
           InsertDevice, ResolveRace
  <2> QED
    BY <2>1, FreshKey DEF TypeInv, ReqTyped, Fits
<1>1. PICK m \in Machines : m = req[s].m
  BY <1>0
<1>2. cache' = cache
  BY DEF Register, CheckRegister, FindRegister, RecheckRegister, rotateDeviceKey,
         InsertDevice, ResolveRace, agentVars
<1>3. CASE Refuse(s)
  <2>1. "ready" \in AgentStates
    BY DEF AgentStates
  <2> QED
    BY <1>0, <1>2, <1>3, <2>1, RefuseKeeps DEF Refuse
<1>4. CASE UNCHANGED <<cred, agent>>
  BY <1>2, <1>4, SameAgents
<1>5. ASSUME NEW d \in Devices, d = DeviceId(m) \/ Told(m, d),
             Tell(s, "persist", [dev |-> d, key |-> generateAPIKey])
      PROVE  CredsKept
  <2>1. PICK c : c = [dev |-> d, key |-> generateAPIKey]
    OBVIOUS
  <2>2. c \in Creds /\ c.dev = d
    BY <1>0, <2>1 DEF Creds
  <2>3. "persist" \in AgentStates
    BY DEF AgentStates
  <2>4. c.dev \in Known(m) \/ Told(m, c.dev)
    BY <1>5, <2>2 DEF Known
  <2> QED
    BY <1>1, <1>2, <1>5, <2>1, <2>2, <2>3, <2>4, TellKeeps
<1>6. CASE CheckRegister(s) \/ FindRegister(s) \/ RecheckRegister(s)
  BY <1>3, <1>4, <1>6 DEF CheckRegister, FindRegister, RecheckRegister, agentVars
<1>7. CASE rotateDeviceKey(s)
  <2>1. PICK d \in Devices : d = req[s].dev
    BY <1>0, <1>7 DEF rotateDeviceKey, Fits
  <2>2. Told(m, d)
    BY <1>1, <1>7, <2>1 DEF rotateDeviceKey, Told
  <2> QED
    BY <1>3, <1>5, <1>7, <2>1, <2>2 DEF rotateDeviceKey
<1>8. CASE InsertDevice(s) \/ ResolveRace(s)
  <2>1. DeviceId(m) \in Devices
    BY Constants
  <2> QED
    BY <1>1, <1>3, <1>4, <1>5, <1>8, <2>1 DEF InsertDevice, ResolveRace
<1> QED
  BY <1>6, <1>7, <1>8 DEF Register

LEMMA ApiAgents ==
    ASSUME TypeInv, NEW s \in Slots, Ingest(s) \/ Delete(s) \/ CallFails(s)
    PROVE  CredsKept
<1>0. /\ Fits(req[s]) /\ req[s] \in Requests
      /\ "ready" \in AgentStates /\ "register" \in AgentStates
  BY DEF TypeInv, ReqTyped, AgentStates
<1>1. cache' = cache
  BY DEF Ingest, AuthIngest, CheckIngest, StoreIngest, Delete, createDeviceRevocation,
         RemoveDevice, PurgeDevice, CallFails, CheckFails, HandlerFails, FindFails, agentVars
<1>2. CASE UNCHANGED <<cred, agent>>
  BY <1>1, <1>2, SameAgents
<1>3. CASE Delete(s)
  BY <1>2, <1>3 DEF Delete, createDeviceRevocation, RemoveDevice, PurgeDevice, agentVars
<1>4. CASE Ingest(s)
  <2>1. req[s].m \in Machines
    BY <1>0, <1>4 DEF Ingest, AuthIngest, CheckIngest, StoreIngest, Fits
  <2>2. \/ UNCHANGED <<cred, agent>>
        \/ \E pc \in {"ready", "register"} : Tell(s, pc, cred[req[s].m])
    BY <1>4 DEF Ingest, AuthIngest, CheckIngest, StoreIngest, Refuse
  <2> QED
    BY <1>0, <1>1, <1>2, <2>1, <2>2, RefuseKeeps
<1>5. CASE CheckFails(s) \/ FindFails(s)
  BY <1>2, <1>5 DEF CheckFails, FindFails, agentVars
<1>6. CASE HandlerFails(s)
  <2>1. CASE req[s].op = "delete"
    BY <1>2, <1>6, <2>1 DEF HandlerFails
  <2>2. CASE req[s].op # "delete"
    <3>1. req[s].m \in Machines
      BY <1>0, <1>6, <2>2 DEF HandlerFails, Fits, Requests
    <3>2. \E pc \in {"ready", "register"} : Tell(s, pc, cred[req[s].m])
      BY <1>6, <2>2 DEF HandlerFails
    <3> QED
      BY <1>0, <1>1, <3>1, <3>2, RefuseKeeps
  <2> QED
    BY <2>1, <2>2
<1> QED
  BY <1>3, <1>4, <1>5, <1>6 DEF CallFails

LEMMA MachineAgents ==
    ASSUME TypeInv, NEW m \in Agents, Machine(m)
    PROVE  CredsKept
<1>0. AgentsTyped /\ m \in Machines /\ NoCred \in Creds /\ NoCred.dev = NoDevice
  BY EnrollmentAssumption, Constants DEF TypeInv, NoCred
<1>1. /\ agent' = agent \/ \E a \in AgentStates : agent' = [agent EXCEPT ![m] = a]
      /\ cred' = cred \/ \E c \in {cache[m], NoCred} : cred' = [cred EXCEPT ![m] = c]
      /\ cache' = cache \/ \E c \in {cred[m], NoCred} : cache' = [cache EXCEPT ![m] = c]
  <2>1. CASE Boot(m)
    BY <2>1 DEF Boot, AgentStates
  <2>2. CASE Persist(m) \/ PersistFails(m)
    BY <2>2 DEF Persist, PersistFails, AgentStates
  <2>3. CASE Reinstall(m)
    BY <2>3 DEF Reinstall, AgentStates
  <2>4. ASSUME NEW s \in Slots, SendRegister(m, s) \/ SendUpload(m, s)
        PROVE  /\ \E a \in AgentStates : agent' = [agent EXCEPT ![m] = a]
               /\ cred' = cred /\ cache' = cache
    BY <2>4 DEF SendRegister, SendUpload, AgentStates
  <2>5. ASSUME NEW crash \in BOOLEAN, GiveUp(m, crash)
        PROVE  /\ \E a \in AgentStates : agent' = [agent EXCEPT ![m] = a]
               /\ cred' = cred \/ cred' = [cred EXCEPT ![m] = NoCred]
               /\ cache' = cache
    BY <2>5 DEF GiveUp, AgentStates
  <2> QED
    BY <2>1, <2>2, <2>3, <2>4, <2>5 DEF Machine, AgentStep
<1>2. AgentsTyped'
  BY <1>0, <1>1 DEF AgentsTyped
<1>3. \A x \in Machines : /\ cred'[x] \in {cred[x], cache[x], NoCred}
                            /\ cache'[x] \in {cred[x], cache[x], NoCred}
  BY <1>0, <1>1 DEF AgentsTyped
<1> QED
  BY <1>0, <1>2, <1>3 DEF CredsKept, Known

LEMMA AgentsStep == TypeInv /\ [Next]_vars => CredsKept
<1> SUFFICES ASSUME TypeInv, [Next]_vars PROVE CredsKept
  OBVIOUS
<1>1. ASSUME NEW s \in Slots, Register(s) PROVE CredsKept
  BY <1>1, RegisterAgents
<1>2. ASSUME NEW s \in Slots, Ingest(s) \/ Delete(s) \/ CallFails(s) PROVE CredsKept
  BY <1>2, ApiAgents
<1>3. ASSUME NEW s \in Slots, NEW d \in Devices, BeginDelete(d, s) PROVE CredsKept
  BY <1>3, SameAgents DEF BeginDelete, agentVars
<1>4. ASSUME NEW m \in Agents, Machine(m) PROVE CredsKept
  BY <1>4, MachineAgents
<1>5. ASSUME NEW d \in Devices, ClearRevocation(d) \/ WipeRecorded(d) PROVE CredsKept
  BY <1>5, SameAgents DEF ClearRevocation, WipeRecorded, agentVars
<1>6. CASE UNCHANGED vars
  BY <1>6, SameAgents DEF vars, agentVars
<1> QED
  BY <1>1, <1>2, <1>3, <1>4, <1>5, <1>6 DEF Next, CallFails, Machine

(* The stores and the counters. *)

LEMMA StoresStep == TypeInv /\ [Next]_vars => StoresTyped'
<1> SUFFICES ASSUME TypeInv, [Next]_vars PROVE StoresTyped'
  OBVIOUS
<1>0. StoresTyped /\ ReqTyped
  BY DEF TypeInv
<1>1. CASE UNCHANGED <<revs, left>>
  BY <1>0, <1>1 DEF StoresTyped
<1>2. ASSUME NEW s \in Slots, Register(s) PROVE UNCHANGED <<revs, left>>
  BY <1>2 DEF Register, CheckRegister, FindRegister, RecheckRegister, rotateDeviceKey,
              InsertDevice, ResolveRace, storeVars
<1>3. ASSUME NEW s \in Slots, Ingest(s) PROVE StoresTyped'
  <2>1. CASE AuthIngest(s) \/ CheckIngest(s)
    BY <1>1, <2>1 DEF AuthIngest, CheckIngest, storeVars
  <2>2. CASE StoreIngest(s)
    <3>1. PICK d \in Devices, n \in 1 .. 4 : d = req[s].dev /\ n = req[s].n
      BY <1>0, <2>2 DEF StoreIngest, ReqTyped, Fits
    <3>2. IngestOrder[n] \in Stores \cup {"devices"}
      BY DEF IngestOrder, Stores
    <3>3. revs' = revs
      BY <2>2 DEF StoreIngest
    <3>4. left' = left \/ (IngestOrder[n] # "devices"
                           /\ left' = [left EXCEPT ![d] = @ \cup {IngestOrder[n]}])
      BY <2>2, <3>1 DEF StoreIngest
    <3> QED
      BY <1>0, <3>2, <3>3, <3>4 DEF StoresTyped
  <2> QED
    BY <1>3, <2>1, <2>2 DEF Ingest
<1>4. ASSUME NEW s \in Slots, Delete(s) PROVE StoresTyped'
  <2>1. CASE createDeviceRevocation(s)
    <3>1. PICK doc : doc = [dev |-> req[s].dev, hw |-> req[s].hw, mac |-> req[s].mac]
      OBVIOUS
    <3>2. doc \in Docs
      <4>1. req[s] \in Requests /\ Fits(req[s])
        BY <1>0 DEF ReqTyped
      <4>2. req[s].dev \in Devices /\ req[s].hw \in Names /\ req[s].mac \in Names
        BY <2>1, <4>1 DEF createDeviceRevocation, Fits, Requests
      <4> QED
        BY <3>1, <4>2 DEF Docs
    <3>3. revs' \subseteq revs \cup {doc} /\ left' = left
      BY <2>1, <3>1 DEF createDeviceRevocation
    <3> QED
      BY <1>0, <3>2, <3>3 DEF StoresTyped
  <2>2. CASE RemoveDevice(s)
    BY <1>1, <2>2 DEF RemoveDevice
  <2>3. CASE PurgeDevice(s)
    <3>1. PICK d \in Devices : d = req[s].dev
      BY <1>0, <2>3 DEF PurgeDevice, ReqTyped, Fits
    <3>2. revs' = revs /\ left' = [left EXCEPT ![d] = @ \ {DeleteOrder[req[s].n]}]
      BY <2>3, <3>1 DEF PurgeDevice
    <3> QED
      BY <1>0, <3>2 DEF StoresTyped
  <2> QED
    BY <1>4, <2>1, <2>2, <2>3 DEF Delete
<1>5. ASSUME NEW s \in Slots,
             CallFails(s) \/ \E d \in Devices : BeginDelete(d, s)
      PROVE  UNCHANGED <<revs, left>>
  BY <1>5 DEF CallFails, CheckFails, HandlerFails, FindFails, BeginDelete, storeVars
<1>6. ASSUME NEW m \in Agents, Machine(m) PROVE UNCHANGED <<revs, left>>
  BY <1>6 DEF Machine, AgentStep, Boot, Persist, SendRegister, SendUpload, PersistFails,
              Reinstall, GiveUp, storeVars
<1>7. ASSUME NEW d \in Devices, ClearRevocation(d) \/ WipeRecorded(d) PROVE StoresTyped'
  BY <1>0, <1>7 DEF ClearRevocation, WipeRecorded, StoresTyped
<1>8. CASE UNCHANGED vars
  BY <1>1, <1>8 DEF vars, storeVars
<1> QED
  BY <1>1, <1>2, <1>3, <1>4, <1>5, <1>6, <1>7, <1>8 DEF Next, CallFails, Machine

LEMMA CountsStep == TypeInv /\ [Next]_vars => CountsTyped'
<1> SUFFICES ASSUME TypeInv, [Next]_vars PROVE CountsTyped'
  OBVIOUS
<1>0. CountsTyped /\ ReqTyped
  BY DEF TypeInv
<1>1. /\ ops' \in 0 .. MaxOps /\ faults' \in 0 .. MaxFaults
  <2>1. ASSUME NEW s \in Slots, Register(s) \/ Ingest(s) \/ Delete(s)
        PROVE  ops' = ops /\ faults' = faults
    BY <2>1 DEF Register, CheckRegister, FindRegister, RecheckRegister, rotateDeviceKey,
                InsertDevice, ResolveRace, Ingest, AuthIngest, CheckIngest, StoreIngest,
                Delete, createDeviceRevocation, RemoveDevice, PurgeDevice
  <2>2. ASSUME NEW s \in Slots, CallFails(s) PROVE ops' = ops /\ Fault
    BY <2>2 DEF CallFails, CheckFails, HandlerFails, FindFails
  <2>3. ASSUME NEW s \in Slots, NEW d \in Devices, BeginDelete(d, s)
        PROVE  ops < MaxOps /\ ops' = ops + 1 /\ faults' = faults
    BY <2>3 DEF BeginDelete
  <2>4. ASSUME NEW m \in Agents, Machine(m)
        PROVE  /\ ops' = ops \/ (ops < MaxOps /\ ops' = ops + 1)
               /\ faults' = faults \/ Fault
    BY <2>4 DEF Machine, AgentStep, Boot, Persist, SendRegister, SendUpload, PersistFails,
                Reinstall, GiveUp
  <2>5. ASSUME NEW d \in Devices, ClearRevocation(d) \/ WipeRecorded(d)
        PROVE  ops < MaxOps /\ ops' = ops + 1 /\ faults' = faults
    BY <2>5 DEF ClearRevocation, WipeRecorded
  <2>6. CASE UNCHANGED vars
    BY <1>0, <2>6 DEF vars, CountsTyped
  <2>7. /\ ops' = ops \/ (ops < MaxOps /\ ops' = ops + 1)
        /\ faults' = faults \/ (faults < MaxFaults /\ faults' = faults + 1)
    BY <2>1, <2>2, <2>3, <2>4, <2>5, <2>6 DEF Next, CallFails, Machine, Fault, vars
  <2>8. MaxOps \in Nat /\ MaxFaults \in Nat /\ ops \in 0 .. MaxOps /\ faults \in 0 .. MaxFaults
    BY <1>0, EnrollmentAssumption DEF CountsTyped
  <2> QED
    BY <2>7, <2>8
<1>2. CASE UNCHANGED histVars
  BY <1>0, <1>1, <1>2 DEF CountsTyped, histVars
<1>3. ASSUME NEW s \in Slots, Register(s) \/ Ingest(s) PROVE UNCHANGED histVars
  BY <1>3 DEF Register, CheckRegister, FindRegister, RecheckRegister, rotateDeviceKey,
              InsertDevice, ResolveRace, Ingest, AuthIngest, CheckIngest, StoreIngest, histVars
<1>4. ASSUME NEW s \in Slots, Delete(s) PROVE CountsTyped'
  <2>1. req[s].dev \in Devices
    BY <1>0, <1>4 DEF Delete, createDeviceRevocation, RemoveDevice, PurgeDevice,
                      ReqTyped, Fits
  <2>2. /\ banned' = banned \/ banned' = banned \cup {req[s].dev}
        /\ mess' = mess \/ mess' = mess \cup {req[s].dev}
        /\ open' = open
    BY <1>4 DEF Delete, createDeviceRevocation, RemoveDevice, PurgeDevice, histVars
  <2> QED
    BY <1>0, <1>1, <2>1, <2>2 DEF CountsTyped
<1>5. ASSUME NEW s \in Slots, CallFails(s) PROVE CountsTyped'
  <2>0. req[s] \in Requests /\ Fits(req[s])
    BY <1>0 DEF ReqTyped
  <2>1. CASE CheckFails(s)
    <3>1. /\ req[s].op = "ingest" => req[s].dev \in Devices
          /\ req[s].op # "ingest" => DeviceId(req[s].m) \in Devices
      BY <2>0, <2>1, Constants DEF CheckFails, Fits, Requests
    <3>2. /\ banned' = banned /\ mess' = mess
          /\ open' = open \cup {IF req[s].op = "ingest" THEN req[s].dev
                                ELSE DeviceId(req[s].m)}
      BY <2>1 DEF CheckFails
    <3> QED
      BY <1>0, <1>1, <3>1, <3>2 DEF CountsTyped
  <2>2. CASE HandlerFails(s)
    <3>1. req[s].pc \in {"remove", "purge"} => req[s].dev \in Devices
      BY <2>0, <2>2 DEF HandlerFails, Fits, Requests
    <3>2. /\ banned' = banned /\ open' = open
          /\ mess' = IF req[s].pc \in {"remove", "purge"} THEN mess \cup {req[s].dev} ELSE mess
      BY <2>2 DEF HandlerFails
    <3> QED
      BY <1>0, <1>1, <3>1, <3>2 DEF CountsTyped
  <2>3. CASE FindFails(s)
    BY <1>2, <2>3 DEF FindFails
  <2> QED
    BY <1>5, <2>1, <2>2, <2>3 DEF CallFails
<1>6. ASSUME NEW s \in Slots, NEW d \in Devices, BeginDelete(d, s) PROVE UNCHANGED histVars
  BY <1>6 DEF BeginDelete
<1>7. ASSUME NEW m \in Agents, Machine(m) PROVE UNCHANGED histVars
  BY <1>7 DEF Machine, AgentStep, Boot, Persist, SendRegister, SendUpload, PersistFails,
              Reinstall, GiveUp
<1>8. ASSUME NEW d \in Devices, ClearRevocation(d) \/ WipeRecorded(d) PROVE CountsTyped'
  BY <1>0, <1>1, <1>8 DEF ClearRevocation, WipeRecorded, CountsTyped, histVars
<1>9. CASE UNCHANGED vars
  BY <1>2, <1>9 DEF vars
<1> QED
  BY <1>2, <1>3, <1>4, <1>5, <1>6, <1>7, <1>8, <1>9 DEF Next, CallFails, Machine

LEMMA TypeInit == Init => TypeInv
<1> SUFFICES ASSUME Init PROVE TypeInv
  OBVIOUS
<1>1. PICK legacy \in SUBSET Agents :
        /\ dev = [d \in Devices |->
                    LET m == CHOOSE x \in Machines : DeviceId(x) = d
                    IN  IF m \in legacy THEN Row(m, 0, 1)
                        ELSE IF m \in Agents THEN NoRow ELSE Row(m, 2, 0)]
        /\ cache = [m \in Machines |-> IF m \in legacy THEN [dev |-> DeviceId(m), key |-> 1]
                                       ELSE NoCred]
  BY DEF Init
<1>2. ASSUME NEW m \in Machines PROVE 2 \in Keys
  <2>1. /\ Cardinality(Devices) \in Nat /\ Cardinality(Machines) \in Nat
        /\ Cardinality(Slots) \in Nat
    BY DevicesFinite, EnrollmentAssumption, FS_CardinalityType
  <2>2. Cardinality(Machines) # 0
    BY EnrollmentAssumption, FS_EmptySet
  <2> QED
    BY <2>1, <2>2 DEF Keys
<1>3. ASSUME NEW m \in Machines, NEW k \in Keys, NEW o \in Keys
      PROVE  Row(m, k, o) \in Rows /\ Row(m, k, o).here
  <2>1. NoRow \in Rows /\ HW[m] \in Names /\ MAC[m] \in Names
    BY Constants
  <2> HIDE DEF NoRow
  <2> QED
    BY <2>1 DEF Row, Rows
<1>4. RowsTyped
  <2>1. ASSUME NEW d \in Devices PROVE dev[d] \in Rows /\ (~dev[d].here => dev[d] = NoRow)
    <3>1. PICK m \in Machines : m = CHOOSE x \in Machines : DeviceId(x) = d
      BY DEF Devices
    <3>2. dev[d] \in {Row(m, 0, 1), NoRow, Row(m, 2, 0)}
      BY <1>1, <3>1
    <3>3. NoRow \in Rows /\ 0 \in Keys /\ 1 \in Keys /\ 2 \in Keys
      BY <1>2, Constants
    <3> QED
      BY <1>3, <3>2, <3>3
  <2> QED
    BY <1>1, <2>1 DEF RowsTyped
<1>5. StoresTyped
  BY DEF Init, StoresTyped
<1>6. AgentsTyped
  <2>1. NoCred \in Creds /\ 1 \in Keys
    BY Constants
  <2>2. ASSUME NEW m \in Machines PROVE [dev |-> DeviceId(m), key |-> 1] \in Creds
    BY <2>1, Constants DEF Creds
  <2>3. cache \in [Machines -> Creds] /\ cred \in [Machines -> Creds]
    BY <1>1, <2>1, <2>2 DEF Init
  <2>4. agent \in [Machines -> AgentStates]
    BY DEF Init, AgentStates
  <2> QED
    BY <2>3, <2>4 DEF AgentsTyped
<1>7. ReqTyped
  BY Constants DEF Init, ReqTyped
<1>8. CountsTyped
  <2>1. MaxOps \in Nat /\ MaxFaults \in Nat
    BY EnrollmentAssumption
  <2> QED
    BY <2>1 DEF Init, CountsTyped
<1> QED
  BY <1>4, <1>5, <1>6, <1>7, <1>8 DEF TypeInv

LEMMA TypeStep == TypeInv /\ [Next]_vars => TypeInv'
<1> SUFFICES ASSUME TypeInv, [Next]_vars PROVE TypeInv'
  OBVIOUS
<1>1. AgentsTyped'
  BY AgentsStep DEF CredsKept
<1>2. RowsTyped' /\ ReqTyped' /\ StoresTyped' /\ CountsTyped'
  BY RowsTypedStep, ReqTypedStep, StoresStep, CountsStep
<1> QED
  BY <1>1, <1>2 DEF TypeInv

\* The state of the API and of the agents keeps its type: a new key always
\* exists, a request holds what its next step needs, and a device without a
\* row has neither key nor mark.
THEOREM TypeCorrect == Spec => []TypeOK
<1>1. Spec => []TypeInv
  BY TypeInit, TypeStep, PTL DEF Spec
<1> QED
  BY <1>1, TypeInvOK, PTL

-----------------------------------------------------------------------------
(* Identity.                                                               *)

\* The address of the network card that stands for a machine without a
\* hardware UUID is not the address of a machine that has one.
AddressIdentifies ==
    \A m, n \in Machines : HW[m] = "" /\ MAC[m] = MAC[n] => HW[n] = ""

\* A row with a fingerprint has that of a machine whose device it is.
OwnRow(d) ==
    dev[d].here => \/ dev[d].hw = "" /\ dev[d].mac = ""
                   \/ \E n \in Machines : /\ DeviceId(n) = d
                                          /\ dev[d].hw = HW[n] /\ dev[d].mac = MAC[n]

\* The row that a registration has found is that of its machine.
FoundOwn(x) ==
    x.op = "register" /\ x.pc \in {"recheck", "rotate"} => x.dev = DeviceId(x.m)

IdInv ==
    /\ \A m \in Machines : /\ cred[m].dev \in {NoDevice, DeviceId(m)}
                           /\ cache[m].dev \in {NoDevice, DeviceId(m)}
    /\ \A d \in Devices : OwnRow(d)
    /\ \A s \in Slots : FoundOwn(req[s])

\* The recovery filter of the registration matches at most the machine's own row.
LEMMA RecoveryIsOwn ==
    ASSUME AddressIdentifies, \A d \in Devices : OwnRow(d), NEW m \in Machines
    PROVE  Recovery(m) \subseteq {DeviceId(m)}
<1> SUFFICES ASSUME NEW d \in Recovery(m) PROVE d = DeviceId(m)
  OBVIOUS
<1>1. /\ d \in Devices /\ dev[d].here
      /\ HW[m] # "" => dev[d].hw = HW[m]
      /\ HW[m] = "" => MAC[m] # "" /\ dev[d].mac = MAC[m]
  BY DEF Recovery
<1>2. PICK n \in Machines : DeviceId(n) = d /\ dev[d].hw = HW[n] /\ dev[d].mac = MAC[n]
  BY <1>1 DEF OwnRow
<1> QED
  BY <1>1, <1>2 DEF DeviceId, AddressIdentifies

LEMMA OwnRowStep ==
    ASSUME TypeInv, AddressIdentifies, \A d \in Devices : OwnRow(d), [Next]_vars
    PROVE  \A d \in Devices : OwnRow(d)'
<1> SUFFICES ASSUME NEW d \in Devices, dev'[d].here
             PROVE  \/ dev'[d].hw = "" /\ dev'[d].mac = ""
                    \/ \E n \in Machines : /\ DeviceId(n) = d
                                           /\ dev'[d].hw = HW[n] /\ dev'[d].mac = MAC[n]
  BY DEF OwnRow
<1>0. DOMAIN dev = Devices /\ NoRow.here = FALSE
  BY Constants DEF TypeInv, RowsTyped
<1>1. CASE dev'[d] = dev[d]
  BY <1>1 DEF OwnRow
<1>2. ASSUME NEW x \in Rows, dev'[d] = x, Origin(d, x)
      PROVE  \/ x.hw = "" /\ x.mac = ""
             \/ \E n \in Machines : DeviceId(n) = d /\ x.hw = HW[n] /\ x.mac = MAC[n]
  BY <1>2, RecoveryIsOwn DEF Origin, OwnRow
<1>3. CASE RowWritten
  BY <1>0, <1>1, <1>2, <1>3 DEF RowWritten
<1>4. ASSUME NEW s \in Slots, RemoveDevice(s) PROVE dev'[d] = dev[d]
  BY <1>0, <1>4 DEF RemoveDevice
<1> QED
  BY <1>1, <1>3, <1>4, RowsChange

LEMMA MovesFound ==
    ASSUME NEW s \in Slots, NEW pc, NEW d, NEW n, NEW b, Moves(s, pc, d, n, b),
           \A t \in Slots : FoundOwn(req[t]),
           req[s].op = "register" /\ pc \in {"recheck", "rotate"} => d = DeviceId(req[s].m)
    PROVE  \A t \in Slots : FoundOwn(req'[t])
<1>1. FoundOwn(req'[s])
  BY DEF Moves, FoundOwn
<1> QED
  BY <1>1 DEF Moves

LEMMA FreesFound ==
    ASSUME TypeInv, NEW s \in Slots, req' = [req EXCEPT ![s] = Free],
           \A t \in Slots : FoundOwn(req[t])
    PROVE  \A t \in Slots : FoundOwn(req'[t])
<1>1. FoundOwn(Free)
  BY Constants DEF FoundOwn
<1> QED
  BY <1>1, Frees

LEMMA RegisterFinds ==
    ASSUME TypeInv, AddressIdentifies, IdInv, NEW s \in Slots, Register(s)
    PROVE  \A t \in Slots : FoundOwn(req'[t])
<1>0. ReqTyped /\ Fits(req[s]) /\ \A t \in Slots : FoundOwn(req[t])
  BY DEF TypeInv, ReqTyped, IdInv
<1>1. CASE req' = [req EXCEPT ![s] = Free]
  BY <1>0, <1>1, FreesFound
<1>2. ASSUME NEW pc \in {"find", "insert", "resolve", "rotate"}, Go(s, pc),
             req[s].op = "register", pc = "rotate" => req[s].pc = "recheck"
      PROVE  \A t \in Slots : FoundOwn(req'[t])
  <2>1. Moves(s, pc, req[s].dev, req[s].n, req[s].blocked)
    BY <1>0, <1>2, GoMoves DEF Steps
  <2>2. pc \in {"recheck", "rotate"} => req[s].dev = DeviceId(req[s].m)
    BY <1>0, <1>2 DEF FoundOwn
  <2> QED
    BY <1>0, <2>1, <2>2, MovesFound
<1>3. ASSUME NEW d \in Recovery(req[s].m),
             req' = [req EXCEPT ![s].pc = "recheck", ![s].dev = d], req[s].op = "register"
      PROVE  \A t \in Slots : FoundOwn(req'[t])
  <2>1. d \in Devices /\ d = DeviceId(req[s].m)
    BY <1>0, <1>3, RecoveryIsOwn DEF Recovery, Fits, IdInv
  <2>2. Moves(s, "recheck", d, req[s].n, req[s].blocked)
    BY <1>0, <1>3, <2>1, DevMoves DEF Steps
  <2> QED
    BY <1>0, <2>1, <2>2, MovesFound
<1>4. CASE CheckRegister(s)
  BY <1>1, <1>2, <1>4 DEF CheckRegister, Refuse, Tell
<1>5. CASE FindRegister(s)
  BY <1>2, <1>3, <1>5 DEF FindRegister
<1>6. CASE RecheckRegister(s)
  BY <1>1, <1>2, <1>6 DEF RecheckRegister, Refuse, Tell
<1>7. CASE rotateDeviceKey(s) \/ ResolveRace(s)
  BY <1>1, <1>7 DEF rotateDeviceKey, ResolveRace, Refuse, Tell
<1>8. CASE InsertDevice(s)
  BY <1>1, <1>2, <1>8 DEF InsertDevice, Tell
<1> QED
  BY <1>4, <1>5, <1>6, <1>7, <1>8 DEF Register

LEMMA OthersFind ==
    ASSUME TypeInv, IdInv, NEW s \in Slots,
           Ingest(s) \/ Delete(s) \/ \E d \in Devices : BeginDelete(d, s)
    PROVE  \A t \in Slots : FoundOwn(req'[t])
<1>0. \A t \in Slots : FoundOwn(req[t])
  BY DEF IdInv
<1>1. CASE req' = [req EXCEPT ![s] = Free]
  BY <1>0, <1>1, FreesFound
<1>2. CASE \E pc, d, n, b :
             Moves(s, pc, d, n, b) /\ pc \in {"check", "store", "remove", "purge"}
  <2>1. PICK pc, d, n, b :
          Moves(s, pc, d, n, b) /\ pc \in {"check", "store", "remove", "purge"}
    BY <1>2
  <2> QED
    BY <1>0, <2>1, MovesFound
<1>3. CASE Ingest(s)
  BY <1>1, <1>2, <1>3, IngestMoves
<1>4. CASE Delete(s)
  BY <1>1, <1>2, <1>4, DeleteMoves
<1>5. ASSUME NEW d \in Devices, BeginDelete(d, s)
      PROVE  \A t \in Slots : FoundOwn(req'[t])
  BY <1>0, <1>5, BeginFills DEF FoundOwn
<1> QED
  BY <1>3, <1>4, <1>5

LEMMA FailuresFind ==
    ASSUME TypeInv, IdInv, NEW s \in Slots, CallFails(s)
    PROVE  \A t \in Slots : FoundOwn(req'[t])
<1>0. ReqTyped /\ \A t \in Slots : FoundOwn(req[t])
  BY DEF TypeInv, IdInv
<1>1. CASE CheckFails(s)
  <2>1. req[s].op = "register" /\ req[s].pc = "recheck" => req[s].dev = DeviceId(req[s].m)
    BY <1>0 DEF FoundOwn
  <2> QED
    BY <1>0, <1>1, <2>1, CheckFailsMoves, MovesFound
<1>2. CASE HandlerFails(s)
  BY <1>0, <1>2, FreesFound DEF HandlerFails, Tell
<1>3. CASE FindFails(s)
  <2>1. Moves(s, "insert", req[s].dev, req[s].n, req[s].blocked)
    BY <1>0, <1>3, GoMoves DEF FindFails, Steps
  <2> QED
    BY <1>0, <2>1, MovesFound
<1> QED
  BY <1>1, <1>2, <1>3 DEF CallFails

LEMMA MachineFinds ==
    ASSUME TypeInv, IdInv, NEW m \in Agents, Machine(m)
    PROVE  \A t \in Slots : FoundOwn(req'[t])
<1>0. ReqTyped /\ \A t \in Slots : FoundOwn(req[t])
  BY DEF TypeInv, IdInv
<1>1. CASE req' = req
  BY <1>0, <1>1
<1>2. ASSUME NEW s \in Slots, SendRegister(m, s) \/ SendUpload(m, s)
      PROVE  \A t \in Slots : FoundOwn(req'[t])
  <2>1. PICK x : req' = [req EXCEPT ![s] = x] /\ x.pc \in {"check", "auth"}
    <3>1. CASE SendRegister(m, s)
      <4>1. PICK x : /\ req' = [req EXCEPT ![s] = x]
                     /\ x = [Free EXCEPT !.op = "register", !.m = m, !.pc = "check",
                                         !.client = TRUE, !.blocked = DeviceId(m) \in banned]
        BY <3>1 DEF SendRegister
      <4>2. x.pc = "check"
        BY <4>1 DEF Free
      <4> QED
        BY <4>1, <4>2
    <3>2. CASE SendUpload(m, s)
      <4>1. PICK x : /\ req' = [req EXCEPT ![s] = x]
                     /\ x = [Free EXCEPT !.op = "ingest", !.m = m, !.pc = "auth",
                                         !.key = cred[m].key, !.client = TRUE]
        BY <3>2 DEF SendUpload
      <4>2. x.pc = "auth"
        BY <4>1 DEF Free
      <4> QED
        BY <4>1, <4>2
    <3> QED
      BY <1>2, <3>1, <3>2
  <2> QED
    BY <1>0, <2>1 DEF ReqTyped, FoundOwn
<1>3. ASSUME NEW crash \in BOOLEAN, GiveUp(m, crash)
      PROVE  \A t \in Slots : FoundOwn(req'[t])
  <2>1. req' = [s \in Slots |-> IF req[s].op # "free" /\ req[s].m = m
                                THEN [req[s] EXCEPT !.client = FALSE] ELSE req[s]]
    BY <1>3 DEF GiveUp
  <2>2. /\ DOMAIN req' = Slots /\ req' = [s \in Slots |-> req'[s]]
        /\ \A s \in Slots : \/ req'[s] = req[s]
                            \/ req'[s] = [req[s] EXCEPT !.client = FALSE]
    BY <2>1
  <2> QED
    BY <1>0, <2>2, MarkTyped DEF FoundOwn
<1> QED
  BY <1>1, <1>2, <1>3
  DEF Machine, AgentStep, Boot, Persist, PersistFails, Reinstall

LEMMA IdStep == AddressIdentifies /\ TypeInv /\ IdInv /\ [Next]_vars => IdInv'
<1> SUFFICES ASSUME AddressIdentifies, TypeInv, IdInv, [Next]_vars PROVE IdInv'
  OBVIOUS
<1>0. ReqTyped /\ \A t \in Slots : FoundOwn(req[t])
  BY DEF TypeInv, IdInv
<1>1. \A d \in Devices : OwnRow(d)'
  BY OwnRowStep DEF IdInv
<1>2. ASSUME NEW m \in Machines
      PROVE  /\ cred'[m].dev \in {NoDevice, DeviceId(m)}
             /\ cache'[m].dev \in {NoDevice, DeviceId(m)}
  <2>1. Known(m) \subseteq {NoDevice, DeviceId(m)}
    BY DEF IdInv, Known
  <2>2. \A d : Told(m, d) => d = DeviceId(m)
    BY <1>0 DEF Told, FoundOwn
  <2> QED
    BY <2>1, <2>2, AgentsStep DEF CredsKept
<1>3. \A t \in Slots : FoundOwn(req'[t])
  <2>1. ASSUME NEW s \in Slots,
               Register(s) \/ Ingest(s) \/ Delete(s) \/ CallFails(s)
               \/ \E d \in Devices : BeginDelete(d, s)
        PROVE  \A t \in Slots : FoundOwn(req'[t])
    BY <2>1, RegisterFinds, OthersFind, FailuresFind
  <2>2. ASSUME NEW m \in Agents, Machine(m) PROVE \A t \in Slots : FoundOwn(req'[t])
    BY <2>2, MachineFinds
  <2>3. ASSUME NEW d \in Devices, ClearRevocation(d) PROVE \A t \in Slots : FoundOwn(req'[t])
    <3>1. req' = [s \in Slots |-> [req[s] EXCEPT !.blocked = FALSE]]
      BY <2>3 DEF ClearRevocation
    <3>2. /\ DOMAIN req' = Slots /\ req' = [s \in Slots |-> req'[s]]
          /\ \A s \in Slots : req'[s] = [req[s] EXCEPT !.blocked = FALSE]
      BY <3>1
    <3> QED
      BY <1>0, <3>2, MarkTyped DEF FoundOwn
  <2>4. CASE req' = req
    BY <1>0, <2>4
  <2>5. ASSUME NEW d \in Devices, WipeRecorded(d) PROVE req' = req
    BY <2>5 DEF WipeRecorded
  <2>6. CASE UNCHANGED vars
    BY <2>4, <2>6 DEF vars
  <2> QED
    BY <2>1, <2>2, <2>3, <2>4, <2>5, <2>6 DEF Next, CallFails, Machine
<1> QED
  BY <1>1, <1>2, <1>3 DEF IdInv, OwnRow

LEMMA IdInit == Init => IdInv
<1> SUFFICES ASSUME Init PROVE IdInv
  OBVIOUS
<1>1. PICK legacy \in SUBSET Agents :
        /\ dev = [d \in Devices |->
                    LET m == CHOOSE x \in Machines : DeviceId(x) = d
                    IN  IF m \in legacy THEN Row(m, 0, 1)
                        ELSE IF m \in Agents THEN NoRow ELSE Row(m, 2, 0)]
        /\ cache = [m \in Machines |-> IF m \in legacy THEN [dev |-> DeviceId(m), key |-> 1]
                                       ELSE NoCred]
  BY DEF Init
<1>2. ASSUME NEW m \in Machines
      PROVE  /\ cred[m].dev \in {NoDevice, DeviceId(m)}
             /\ cache[m].dev \in {NoDevice, DeviceId(m)}
  <2>1. cred[m] = NoCred /\ NoCred.dev = NoDevice
    BY DEF Init, NoCred
  <2>2. cache[m] = [dev |-> DeviceId(m), key |-> 1] \/ cache[m] = NoCred
    BY <1>1
  <2> QED
    BY <2>1, <2>2
<1>3. ASSUME NEW d \in Devices PROVE OwnRow(d)
  <2>1. PICK m \in Machines : m = (CHOOSE x \in Machines : DeviceId(x) = d) /\ DeviceId(m) = d
    BY DEF Devices
  <2>2. dev[d] \in {Row(m, 0, 1), NoRow, Row(m, 2, 0)}
    BY <1>1, <2>1
  <2>3. \A k, o : Row(m, k, o).hw = HW[m] /\ Row(m, k, o).mac = MAC[m]
    BY DEF Row, NoRow
  <2>4. NoRow.here = FALSE
    BY Constants
  <2>5. Row(m, 0, 1).hw = HW[m] /\ Row(m, 0, 1).mac = MAC[m]
    BY <2>3
  <2>6. Row(m, 2, 0).hw = HW[m] /\ Row(m, 2, 0).mac = MAC[m]
    BY <2>3
  <2> QED
    BY <2>1, <2>2, <2>4, <2>5, <2>6 DEF OwnRow
<1>4. \A s \in Slots : FoundOwn(req[s])
  BY Constants DEF Init, FoundOwn
<1> QED
  BY <1>2, <1>3, <1>4 DEF IdInv

\* Whatever interleaves, fails or is repeated, a machine answers for no
\* device but its own, provided that an address of a network card that has to
\* stand for a machine without UUID is not the address of one that has one.
THEOREM NoRegistrationChangesIdentity ==
    ASSUME AddressIdentifies
    PROVE  Spec => []IdentityInv
<1>1. TypeInv /\ IdInv /\ [Next]_vars => (TypeInv /\ IdInv)'
  BY IdStep, TypeStep
<1>2. TypeInv /\ IdInv => IdentityInv
  BY TypeInvOK DEF IdInv, IdentityInv, IdentityStable
<1>3. Spec => [](TypeInv /\ IdInv)
  BY <1>1, TypeInit, IdInit, PTL DEF Spec
<1> QED
  BY <1>2, <1>3, PTL

-----------------------------------------------------------------------------
(* Deletion.                                                               *)

Removing(d, s) == req[s].op = "delete" /\ req[s].dev = d /\ req[s].pc = "remove"
Purging(d, s) == req[s].op = "delete" /\ req[s].dev = d /\ req[s].pc = "purge"
Storing(d) == \E s \in Slots : req[s].op = "ingest" /\ req[s].dev = d /\ req[s].pc = "store"
Blocked(d) == \E r \in revs : r.dev = d

\* A deletion is about to remove everything, or what is left of d will be
\* removed by the deletions that are under way.
FreshPurge(d) == \E s \in Slots : Purging(d, s) /\ req[s].n = 1
Cleaned(d) ==
    \A x \in left[d] : \E s \in Slots, k \in 1 .. 3 :
        Purging(d, s) /\ req[s].n <= k /\ x = DeleteOrder[k]

\* A device without a row is being purged, or clean, with no upload that could
\* recreate it; a blocked one is being removed or purged, or clean, with no
\* upload that has passed the block.
Gone(d) ==
    d \notin mess \cup open =>
        /\ ~dev[d].here => FreshPurge(d) \/ (~InFlight(d) /\ Cleaned(d))
        /\ Blocked(d) => \/ \E s \in Slots : Removing(d, s)
                         \/ FreshPurge(d)
                         \/ ~Storing(d) /\ Cleaned(d)
GoneInv == \A d \in Devices : Gone(d)

LEMMA GoneIsGone == GoneInv => DeletedIsGone
<1> SUFFICES ASSUME GoneInv, NEW d \in Devices, d \notin mess \cup open, Blocked(d),
                    ~ \E s \in Slots : req[s].op = "delete" /\ req[s].dev = d
             PROVE  left[d] = {}
  BY DEF DeletedIsGone, Blocked
<1>1. Cleaned(d)
  BY DEF GoneInv, Gone, Removing, FreshPurge, Purging
<1> QED
  BY <1>1 DEF Cleaned, Purging

\* A step that leaves the deletions of d alone, removes no row of d, stores
\* nothing for it, blocks it no more than before, and lets no upload pass that
\* a missing row or the block should stop.
SameDeletions(d) ==
    \A t \in Slots :
        /\ Removing(d, t) <=> Removing(d, t)'
        /\ Purging(d, t) <=> Purging(d, t)'
        /\ Purging(d, t) => req'[t].n = req[t].n
Quiet(d) ==
    /\ mess \subseteq mess' /\ open \subseteq open'
    /\ dev[d].here => dev'[d].here
    /\ left'[d] \subseteq left[d]
    /\ Blocked(d)' => Blocked(d)
    /\ SameDeletions(d)
    /\ InFlight(d)' => InFlight(d) \/ dev[d].here
    /\ Storing(d)' => Storing(d) \/ ~Blocked(d)

LEMMA QuietGone ==
    ASSUME NEW d \in Devices, Gone(d), Quiet(d)
    PROVE  Gone(d)'
<1> SUFFICES ASSUME d \notin mess' \cup open'
             PROVE  /\ ~dev'[d].here => FreshPurge(d)' \/ (~InFlight(d)' /\ Cleaned(d)')
                    /\ Blocked(d)' => \/ \E s \in Slots : Removing(d, s)'
                                      \/ FreshPurge(d)'
                                      \/ ~Storing(d)' /\ Cleaned(d)'
  BY DEF Gone
<1>1. d \notin mess \cup open
  BY DEF Quiet
<1>2. FreshPurge(d) => FreshPurge(d)'
  BY DEF Quiet, SameDeletions, FreshPurge
<1>3. Cleaned(d) => Cleaned(d)'
  BY DEF Quiet, SameDeletions, Cleaned
<1>4. (\E s \in Slots : Removing(d, s)) => \E s \in Slots : Removing(d, s)'
  BY DEF Quiet, SameDeletions
<1> QED
  BY <1>1, <1>2, <1>3, <1>4 DEF Gone, Quiet

\* Only the request in slot s changes, and it is no deletion of d.
LEMMA NoDeletion ==
    ASSUME NEW d \in Devices, NEW s \in Slots, \A t \in Slots : t # s => req'[t] = req[t],
           req[s].op = "delete" => req[s].dev # d \/ req[s].pc = "revoke",
           req'[s].op = "delete" => req'[s].dev # d \/ req'[s].pc = "revoke"
    PROVE  SameDeletions(d)
BY DEF SameDeletions, Removing, Purging

LEMMA NoUpload ==
    ASSUME NEW d \in Devices, NEW s \in Slots, \A t \in Slots : t # s => req'[t] = req[t],
           req'[s].op = "ingest" => req'[s].dev # d
    PROVE  /\ InFlight(d)' => InFlight(d)
           /\ Storing(d)' => Storing(d)
BY DEF InFlight, Storing

\* What a registration does to its slot.
LEMMA RegisterSlot ==
    ASSUME TypeInv, NEW s \in Slots, Register(s)
    PROVE  /\ req[s].op = "register" /\ req'[s].op \in {"register", "free"}
           /\ \A t \in Slots : t # s => req'[t] = req[t]
<1>0. ReqTyped /\ Fits(req[s]) /\ Free.op = "free"
  BY Constants DEF TypeInv, ReqTyped
<1>1. req[s].op = "register"
  BY DEF Register, CheckRegister, FindRegister, RecheckRegister, rotateDeviceKey,
         InsertDevice, ResolveRace
<1>2. CASE req' = [req EXCEPT ![s] = Free]
  BY <1>0, <1>1, <1>2, Frees
<1>3. ASSUME NEW pc \in {"find", "insert", "resolve", "rotate"}, Go(s, pc)
      PROVE  /\ req'[s].op = "register"
             /\ \A t \in Slots : t # s => req'[t] = req[t]
  <2>1. Moves(s, pc, req[s].dev, req[s].n, req[s].blocked)
    BY <1>0, <1>3, GoMoves DEF Steps
  <2> QED
    BY <1>1, <2>1 DEF Moves
<1>4. ASSUME NEW d \in Devices, req' = [req EXCEPT ![s].pc = "recheck", ![s].dev = d]
      PROVE  /\ req'[s].op = "register"
             /\ \A t \in Slots : t # s => req'[t] = req[t]
  <2>1. Moves(s, "recheck", d, req[s].n, req[s].blocked)
    BY <1>0, <1>4, DevMoves DEF Steps
  <2> QED
    BY <1>1, <2>1 DEF Moves
<1>5. CASE CheckRegister(s) \/ RecheckRegister(s)
  BY <1>1, <1>2, <1>3, <1>5 DEF CheckRegister, RecheckRegister, Refuse, Tell
<1>6. CASE FindRegister(s)
  BY <1>1, <1>3, <1>4, <1>6 DEF FindRegister, Recovery
<1>7. CASE rotateDeviceKey(s) \/ ResolveRace(s)
  BY <1>2, <1>7 DEF rotateDeviceKey, ResolveRace, Refuse, Tell
<1>8. CASE InsertDevice(s)
  BY <1>1, <1>2, <1>3, <1>8 DEF InsertDevice, Tell
<1> QED
  BY <1>5, <1>6, <1>7, <1>8 DEF Register

\* Rows are not removed by a step that removes none.
LEMMA RowStays ==
    ASSUME TypeInv, NEW d \in Devices, dev' = dev \/ RowWritten
    PROVE  dev[d].here => dev'[d].here
BY DEF RowWritten, TypeInv, RowsTyped

LEMMA RegisterGone ==
    ASSUME TypeInv, NEW d \in Devices, Gone(d), NEW s \in Slots, Register(s)
    PROVE  Gone(d)'
<1>1. /\ req[s].op = "register" /\ req'[s].op \in {"register", "free"}
      /\ \A t \in Slots : t # s => req'[t] = req[t]
  BY RegisterSlot
<1>2. UNCHANGED <<revs, left, mess, open>>
  BY DEF Register, CheckRegister, FindRegister, RecheckRegister, rotateDeviceKey,
         InsertDevice, ResolveRace, storeVars, histVars
<1>3. SameDeletions(d) /\ (InFlight(d)' => InFlight(d)) /\ (Storing(d)' => Storing(d))
  BY <1>1, NoDeletion, NoUpload
<1>4. dev[d].here => dev'[d].here
  BY RegisterRows, RowStays
<1> QED
  BY <1>2, <1>3, <1>4, QuietGone DEF Quiet, Blocked

\* An upload is let pass only for a row, and past a block that is not there.
LEMMA AuthGone ==
    ASSUME TypeInv, NEW d \in Devices, Gone(d), NEW s \in Slots, AuthIngest(s) \/ CheckIngest(s)
    PROVE  Gone(d)'
<1>0. Ingest(s) /\ req[s].op = "ingest" /\ Fits(req[s]) /\ Free.op = "free"
  BY Constants DEF AuthIngest, CheckIngest, Ingest, TypeInv, ReqTyped
<1>1. UNCHANGED <<revs, left, mess, open>>
  BY DEF AuthIngest, CheckIngest, storeVars, histVars
<1>2. dev[d].here => dev'[d].here
  BY <1>0, IngestRows, RowStays
<1>3. CASE req' = [req EXCEPT ![s] = Free]
  <2>1. req'[s].op = "free" /\ \A t \in Slots : t # s => req'[t] = req[t]
    BY <1>0, <1>3, Frees
  <2>2. SameDeletions(d) /\ (InFlight(d)' => InFlight(d)) /\ (Storing(d)' => Storing(d))
    BY <1>0, <2>1, NoDeletion, NoUpload
  <2> QED
    BY <1>1, <1>2, <2>2, QuietGone DEF Quiet, Blocked
<1>4. ASSUME NEW c \in Devices, NEW b, dev[c].here, Moves(s, "check", c, req[s].n, b)
      PROVE  Gone(d)'
  <2>1. SameDeletions(d)
    BY <1>0, <1>4, NoDeletion DEF Moves
  <2>2. InFlight(d)' => InFlight(d) \/ dev[d].here
    BY <1>4 DEF Moves, InFlight
  <2>3. Storing(d)' => Storing(d)
    BY <1>4 DEF Moves, Storing
  <2> QED
    BY <1>1, <1>2, <2>1, <2>2, <2>3, QuietGone DEF Quiet, Blocked
<1>5. ASSUME CheckIngest(s), Moves(s, "store", req[s].dev, 1, req[s].blocked)
      PROVE  Gone(d)'
  <2>1. SameDeletions(d)
    BY <1>0, <1>5, NoDeletion DEF Moves
  <2>2. InFlight(d)' => InFlight(d)
    BY <1>0, <1>5 DEF Moves, InFlight
  <2>3. Storing(d)' => Storing(d) \/ ~Blocked(d)
    <3>1. ~isDeviceRevoked(req[s].dev, "", "")
      <4> SUFFICES ASSUME isDeviceRevoked(req[s].dev, "", "") PROVE FALSE
        OBVIOUS
      <4>1. req' = [req EXCEPT ![s] = Free]
        BY <1>5 DEF CheckIngest, Refuse, Tell
      <4>2. req'[s].op = "free"
        BY <1>0, <4>1, Frees
      <4> QED
        BY <1>0, <1>5, <4>2 DEF Moves
    <3>2. req[s].dev = d => ~Blocked(d)
      BY <3>1, Constants DEF isDeviceRevoked, revokedDeviceFilter, Blocked
    <3> QED
      BY <1>5, <3>2 DEF Moves, Storing
  <2> QED
    BY <1>1, <1>2, <2>1, <2>2, <2>3, QuietGone DEF Quiet, Blocked
<1>6. ASSUME StoreIngest(s) PROVE FALSE
  BY <1>6 DEF StoreIngest, AuthIngest, CheckIngest
<1> QED
  BY <1>0, <1>3, <1>4, <1>5, <1>6, IngestMoves

\* What an upload stores meanwhile is still to be removed.
LEMMA StoreGone ==
    ASSUME TypeInv, NEW d \in Devices, Gone(d), NEW s \in Slots, StoreIngest(s)
    PROVE  Gone(d)'
<1>0. /\ Ingest(s) /\ req[s].op = "ingest" /\ req[s].pc = "store" /\ Free.op = "free"
      /\ StoresTyped /\ RowsTyped
  BY Constants DEF StoreIngest, Ingest, TypeInv
<1>1. UNCHANGED <<revs, mess, open>>
  BY DEF StoreIngest, histVars
<1>2. dev[d].here => dev'[d].here
  BY <1>0, IngestRows, RowStays
<1>3. /\ \A t \in Slots : t # s => req'[t] = req[t]
      /\ req'[s].op \in {"free", "ingest"}
      /\ req'[s].op = "ingest" => req'[s].dev = req[s].dev /\ req'[s].pc = "store"
  <2>1. CASE req' = [req EXCEPT ![s] = Free]
    BY <1>0, <2>1, Frees
  <2>2. CASE Moves(s, "store", req[s].dev, req[s].n + 1, req[s].blocked)
    BY <1>0, <2>2 DEF Moves
  <2> QED
    BY <1>0, <2>1, <2>2, IngestMoves DEF AuthIngest, CheckIngest
<1>4. SameDeletions(d)
  BY <1>0, <1>3, NoDeletion
<1>5. CASE req[s].dev # d
  <2>1. left'[d] = left[d]
    BY <1>0, <1>5 DEF StoreIngest, StoresTyped
  <2>2. (InFlight(d)' => InFlight(d)) /\ (Storing(d)' => Storing(d))
    BY <1>3, <1>5, NoUpload
  <2> QED
    BY <1>1, <1>2, <1>4, <2>1, <2>2, QuietGone DEF Quiet, Blocked
<1>6. CASE req[s].dev = d
  <2>1. InFlight(d) /\ Storing(d)
    BY <1>0, <1>6 DEF InFlight, Storing
  <2>2. FreshPurge(d) => FreshPurge(d)'
    BY <1>4 DEF SameDeletions, FreshPurge
  <2>3. (\E t \in Slots : Removing(d, t)) => \E t \in Slots : Removing(d, t)'
    BY <1>4 DEF SameDeletions
  <2>4. Blocked(d)' => Blocked(d)
    BY <1>1 DEF Blocked
  <2> QED
    BY <1>1, <1>2, <2>1, <2>2, <2>3, <2>4 DEF Gone
<1> QED
  BY <1>5, <1>6

\* The slot of a deletion.
LEMMA DeleteSlot ==
    ASSUME TypeInv, NEW s \in Slots, Delete(s)
    PROVE  /\ req[s].op = "delete" /\ req'[s].op \in {"delete", "free"}
           /\ req'[s].op = "delete" => req'[s].dev = req[s].dev
           /\ \A t \in Slots : t # s => req'[t] = req[t]
<1>0. req[s].op = "delete" /\ Free.op = "free"
  BY Constants DEF Delete, createDeviceRevocation, RemoveDevice, PurgeDevice
<1>1. CASE req' = [req EXCEPT ![s] = Free]
  BY <1>0, <1>1, Frees
<1>2. CASE \E pc, n : Moves(s, pc, req[s].dev, n, req[s].blocked)
  BY <1>0, <1>2 DEF Moves
<1> QED
  BY <1>1, <1>2, DeleteMoves

\* The deletion of another device says nothing of d.
LEMMA OtherDeletion ==
    ASSUME TypeInv, NEW d \in Devices, Gone(d), NEW s \in Slots, Delete(s), req[s].dev # d
    PROVE  Gone(d)'
<1>0. RowsTyped /\ StoresTyped
  BY DEF TypeInv
<1>1. /\ req[s].op = "delete" /\ req'[s].op \in {"delete", "free"}
      /\ req'[s].op = "delete" => req'[s].dev = req[s].dev
      /\ \A t \in Slots : t # s => req'[t] = req[t]
  BY DeleteSlot
<1>2. SameDeletions(d) /\ (InFlight(d)' => InFlight(d)) /\ (Storing(d)' => Storing(d))
  BY <1>1, NoDeletion, NoUpload
<1>3. /\ mess \subseteq mess' /\ open \subseteq open'
      /\ dev'[d] = dev[d] /\ left'[d] = left[d]
  BY <1>0 DEF Delete, createDeviceRevocation, RemoveDevice, PurgeDevice, RowsTyped,
              StoresTyped, histVars
<1>4. Blocked(d)' => Blocked(d)
  <2>1. CASE createDeviceRevocation(s)
    <3>1. PICK doc : doc.dev = req[s].dev /\ revs' \subseteq revs \cup {doc}
      BY <2>1 DEF createDeviceRevocation
    <3> QED
      BY <3>1 DEF Blocked
  <2>2. CASE RemoveDevice(s) \/ PurgeDevice(s)
    BY <2>2 DEF RemoveDevice, PurgeDevice, Blocked
  <2> QED
    BY <2>1, <2>2 DEF Delete
<1> QED
  BY <1>2, <1>3, <1>4, QuietGone DEF Quiet

\* Writing the block: the device is about to be removed.
LEMMA RevokeGone ==
    ASSUME TypeInv, NEW d \in Devices, Gone(d), NEW s \in Slots, createDeviceRevocation(s),
           req[s].dev = d
    PROVE  Gone(d)'
<1>1. /\ Delete(s) /\ req[s].pc = "revoke" /\ UNCHANGED <<dev, left, mess, open>>
  BY DEF Delete, createDeviceRevocation, histVars
<1>2. Moves(s, "remove", req[s].dev, req[s].n, req[s].blocked) /\ req[s].op = "delete"
  <2>1. ReqTyped
    BY DEF TypeInv
  <2> QED
    BY <2>1, GoMoves DEF createDeviceRevocation, Steps
<1>3. \E t \in Slots : Removing(d, t)'
  BY <1>2 DEF Moves, Removing
<1>4. \A t \in Slots : Purging(d, t) => Purging(d, t)' /\ req'[t].n = req[t].n
  BY <1>1, <1>2 DEF Moves, Purging
<1>5. FreshPurge(d) => FreshPurge(d)'
  BY <1>4 DEF FreshPurge
<1>6. Cleaned(d) => Cleaned(d)'
  BY <1>1, <1>4 DEF Cleaned
<1>7. InFlight(d)' => InFlight(d)
  BY <1>2 DEF Moves, InFlight
<1> QED
  BY <1>1, <1>3, <1>5, <1>6, <1>7 DEF Gone

\* Removing the row: what is stored is purged, or was purged by the deletion
\* that removed the row before.
LEMMA RemoveGone ==
    ASSUME TypeInv, NEW d \in Devices, Gone(d), NEW s \in Slots, RemoveDevice(s),
           req[s].dev = d
    PROVE  Gone(d)'
<1>0. RowsTyped /\ NoRow.here = FALSE
  BY Constants DEF TypeInv
<1>1. /\ req[s].op = "delete" /\ req[s].pc = "remove" /\ Delete(s)
      /\ UNCHANGED <<revs, left, mess, open>>
  BY DEF Delete, RemoveDevice, histVars
<1>2. CASE dev[d].here
  <2>1. Moves(s, "purge", d, 1, req[s].blocked)
    <3>1. ReqTyped /\ req' = [req EXCEPT ![s].pc = "purge", ![s].n = 1]
      BY <1>2 DEF RemoveDevice, TypeInv
    <3>2. "purge" \in Steps /\ 1 \in 0 .. 4
      BY DEF Steps
    <3>3. Moves(s, "purge", req[s].dev, 1, req[s].blocked)
      BY <3>1, <3>2, CountMoves
    <3> QED
      BY <3>3
  <2>2. FreshPurge(d)'
    BY <1>1, <2>1 DEF Moves, FreshPurge, Purging
  <2> QED
    BY <2>2 DEF Gone
<1>3. CASE ~dev[d].here
  <2>1. req' = [req EXCEPT ![s] = Free] /\ dev'[d].here = FALSE
    BY <1>0, <1>3 DEF RemoveDevice, RowsTyped
  <2>2. req'[s].op = "free" /\ \A t \in Slots : t # s => req'[t] = req[t]
    BY <2>1, Frees, Constants
  <2>3. \A t \in Slots : Purging(d, t) => Purging(d, t)' /\ req'[t].n = req[t].n
    BY <1>1, <2>2 DEF Purging
  <2>4. FreshPurge(d) => FreshPurge(d)'
    BY <2>3 DEF FreshPurge
  <2>5. Cleaned(d) => Cleaned(d)'
    BY <1>1, <2>3 DEF Cleaned
  <2>6. InFlight(d)' => InFlight(d)
    BY <2>2 DEF InFlight
  <2>7. Storing(d)' => InFlight(d)'
    BY DEF Storing, InFlight
  <2> QED
    BY <1>1, <1>3, <2>4, <2>5, <2>6, <2>7 DEF Gone
<1> QED
  BY <1>2, <1>3

\* Purging one store after the other.
LEMMA PurgeGone ==
    ASSUME TypeInv, NEW d \in Devices, Gone(d), NEW s \in Slots, PurgeDevice(s),
           req[s].dev = d
    PROVE  Gone(d)'
<1>0. /\ StoresTyped /\ Delete(s) /\ req[s].op = "delete" /\ req[s].pc = "purge"
      /\ req[s].n \in 1 .. 3 /\ Free.op = "free"
  BY Constants DEF Delete, PurgeDevice, TypeInv, ReqTyped, Fits
<1>1. /\ UNCHANGED <<dev, revs, open>> /\ mess \subseteq mess'
      /\ InFlight(d) => d \in mess'
      /\ left'[d] = left[d] \ {DeleteOrder[req[s].n]}
  BY <1>0 DEF PurgeDevice, StoresTyped
<1>2. /\ \A t \in Slots : t # s => req'[t] = req[t]
      /\ req'[s].op \in {"free", "delete"}
      /\ req[s].n < 3 => Purging(d, s)' /\ req'[s].n = req[s].n + 1
  <2>1. CASE req[s].n < 3
    <3>1. PICK n \in 1 .. 3 : n = req[s].n + 1
      BY <1>0, <2>1
    <3>2. Len(DeleteOrder) = 3
      BY DEF DeleteOrder
    <3>3. ReqTyped /\ req' = [req EXCEPT ![s].n = n]
      BY <2>1, <3>1, <3>2 DEF PurgeDevice, TypeInv
    <3>4. "purge" \in Steps /\ n \in 0 .. 4
      BY DEF Steps
    <3>5. Moves(s, "purge", req[s].dev, n, req[s].blocked)
      BY <1>0, <3>3, <3>4, CountMoves
    <3> QED
      BY <1>0, <3>1, <3>5 DEF Moves, Purging
  <2>2. CASE ~(req[s].n < 3)
    BY <1>0, <2>2, DeleteSlot
  <2> QED
    BY <2>1, <2>2
<1>3. \A t \in Slots : Removing(d, t) => Removing(d, t)'
  BY <1>0, <1>2 DEF Removing
<1>4. SUFFICES ASSUME ~InFlight(d), d \notin mess' \cup open' PROVE Gone(d)'
  BY <1>1 DEF Gone
<1>5. ~InFlight(d)' /\ ~Storing(d)'
  BY <1>2, <1>4 DEF InFlight, Storing
\* What is left now, of a device that was clean, waits for the next steps.
<1>6. Cleaned(d) => Cleaned(d)'
  <2> SUFFICES ASSUME Cleaned(d), NEW x \in left'[d]
               PROVE  \E t \in Slots, k \in 1 .. 3 :
                        Purging(d, t)' /\ req'[t].n <= k /\ x = DeleteOrder[k]
    BY DEF Cleaned
  <2>1. PICK t \in Slots, k \in 1 .. 3 : Purging(d, t) /\ req[t].n <= k /\ x = DeleteOrder[k]
    BY <1>1 DEF Cleaned
  <2>2. CASE t # s
    BY <1>2, <2>1, <2>2 DEF Purging
  <2>3. CASE t = s
    <3>1. k # req[s].n
      BY <1>1, <2>1
    <3>2. req[s].n < 3 /\ req[s].n + 1 <= k
      BY <1>0, <2>1, <2>3, <3>1
    <3> QED
      BY <1>2, <2>1, <2>3, <3>2
  <2> QED
    BY <2>2, <2>3
\* The first step leaves what the others remove.
<1>7. req[s].n = 1 => Cleaned(d)'
  <2> SUFFICES ASSUME req[s].n = 1, NEW x \in left'[d]
               PROVE  \E k \in 1 .. 3 : Purging(d, s)' /\ req'[s].n <= k /\ x = DeleteOrder[k]
    BY DEF Cleaned
  <2>1. x \in Stores /\ x # "telemetry"
    BY <1>0, <1>1 DEF StoresTyped, DeleteOrder
  <2>2. x = DeleteOrder[2] \/ x = DeleteOrder[3]
    BY <2>1 DEF Stores, DeleteOrder
  <2>3. Purging(d, s)' /\ req'[s].n = 2
    BY <1>2
  <2>4. 2 \in 1 .. 3 /\ 3 \in 1 .. 3 /\ req'[s].n <= 2 /\ req'[s].n <= 3
    BY <2>3
  <2> QED
    BY <2>2, <2>3, <2>4
<1>8. FreshPurge(d) => FreshPurge(d)' \/ Cleaned(d)'
  <2>1. ASSUME NEW t \in Slots, t # s, Purging(d, t), req[t].n = 1 PROVE FreshPurge(d)'
    BY <1>2, <2>1 DEF Purging, FreshPurge
  <2> QED
    BY <1>7, <2>1 DEF FreshPurge
<1>9. Blocked(d)' => Blocked(d)
  BY <1>1 DEF Blocked
<1> QED
  BY <1>1, <1>3, <1>5, <1>6, <1>8, <1>9 DEF Gone

LEMMA FailureGone ==
    ASSUME TypeInv, NEW d \in Devices, Gone(d), NEW s \in Slots, CallFails(s)
    PROVE  Gone(d)'
<1>0. ReqTyped /\ Fits(req[s]) /\ req[s] \in Requests /\ Free.op = "free"
  BY Constants DEF TypeInv, ReqTyped
<1>1. /\ UNCHANGED <<dev, revs, left>> /\ mess \subseteq mess' /\ open \subseteq open'
  BY DEF CallFails, CheckFails, HandlerFails, FindFails, storeVars, histVars
<1>2. CASE CheckFails(s)
  <2>1. ASSUME req[s].op = "ingest", Moves(s, "store", req[s].dev, 1, req[s].blocked)
        PROVE  Gone(d)'
    <3>1. CASE req[s].dev = d
      BY <1>2, <2>1, <3>1 DEF CheckFails, Gone
    <3>2. CASE req[s].dev # d
      <4>1. /\ req'[s].op = "ingest" /\ req'[s].dev # d
            /\ \A t \in Slots : t # s => req'[t] = req[t]
        BY <2>1, <3>2 DEF Moves
      <4>2. SameDeletions(d) /\ (InFlight(d)' => InFlight(d)) /\ (Storing(d)' => Storing(d))
        BY <2>1, <4>1, NoDeletion, NoUpload
      <4> QED
        BY <1>1, <4>2, QuietGone DEF Quiet, Blocked
    <3> QED
      BY <3>1, <3>2
  <2>2. ASSUME req[s].op = "register", NEW pc, Moves(s, pc, req[s].dev, 0, req[s].blocked)
        PROVE  Gone(d)'
    <3>1. req'[s].op = "register" /\ \A t \in Slots : t # s => req'[t] = req[t]
      BY <2>2 DEF Moves
    <3>2. SameDeletions(d) /\ (InFlight(d)' => InFlight(d)) /\ (Storing(d)' => Storing(d))
      BY <2>2, <3>1, NoDeletion, NoUpload
    <3> QED
      BY <1>1, <3>2, QuietGone DEF Quiet, Blocked
  <2> QED
    BY <1>2, <2>1, <2>2, CheckFailsMoves
<1>3. CASE HandlerFails(s)
  <2>1. req' = [req EXCEPT ![s] = Free]
    BY <1>3 DEF HandlerFails, Tell
  <2>2. req'[s].op = "free" /\ \A t \in Slots : t # s => req'[t] = req[t]
    BY <1>0, <2>1, Frees
  <2>3. CASE req[s].op = "delete" /\ req[s].dev = d /\ req[s].pc # "revoke"
    <3>1. d \in mess'
      BY <1>0, <1>3, <2>3 DEF HandlerFails, Fits
    <3> QED
      BY <3>1 DEF Gone
  <2>4. CASE ~(req[s].op = "delete" /\ req[s].dev = d /\ req[s].pc # "revoke")
    <3>1. SameDeletions(d) /\ (InFlight(d)' => InFlight(d)) /\ (Storing(d)' => Storing(d))
      BY <2>2, <2>4, NoDeletion, NoUpload
    <3> QED
      BY <1>1, <3>1, QuietGone DEF Quiet, Blocked
  <2> QED
    BY <2>3, <2>4
<1>4. CASE FindFails(s)
  <2>1. Moves(s, "insert", req[s].dev, req[s].n, req[s].blocked) /\ req[s].op = "register"
    BY <1>0, <1>4, GoMoves DEF FindFails, Steps
  <2>2. req'[s].op = "register" /\ \A t \in Slots : t # s => req'[t] = req[t]
    BY <2>1 DEF Moves
  <2>3. SameDeletions(d) /\ (InFlight(d)' => InFlight(d)) /\ (Storing(d)' => Storing(d))
    BY <2>1, <2>2, NoDeletion, NoUpload
  <2> QED
    BY <1>1, <2>3, QuietGone DEF Quiet, Blocked
<1> QED
  BY <1>2, <1>3, <1>4 DEF CallFails

\* Requests that change nothing but their marks.
LEMMA MarksGone ==
    ASSUME NEW d \in Devices, Gone(d),
           \A t \in Slots : /\ req'[t].op = req[t].op /\ req'[t].dev = req[t].dev
                            /\ req'[t].pc = req[t].pc /\ req'[t].n = req[t].n,
           mess' = mess, open' = open, left' = left, dev[d].here => dev'[d].here,
           revs' \subseteq revs
    PROVE  Gone(d)'
<1>1. SameDeletions(d) /\ (InFlight(d)' => InFlight(d)) /\ (Storing(d)' => Storing(d))
  BY DEF SameDeletions, Removing, Purging, InFlight, Storing
<1> QED
  BY <1>1, QuietGone DEF Quiet, Blocked

LEMMA MachineGone ==
    ASSUME TypeInv, NEW d \in Devices, Gone(d), NEW m \in Agents, Machine(m)
    PROVE  Gone(d)'
<1>0. ReqTyped /\ NoDevice # d
  BY Constants DEF TypeInv
<1>1. UNCHANGED <<dev, revs, left, mess, open>>
  BY DEF Machine, AgentStep, Boot, Persist, SendRegister, SendUpload, PersistFails,
         Reinstall, GiveUp, storeVars, histVars
<1>2. CASE req' = req
  BY <1>1, <1>2, MarksGone
<1>3. ASSUME NEW s \in Slots, SendRegister(m, s) \/ SendUpload(m, s)
      PROVE  Gone(d)'
  <2>1. PICK x : /\ req' = [req EXCEPT ![s] = x]
                 /\ x.op \in {"register", "ingest"} /\ x.dev = NoDevice
    <3>1. CASE SendRegister(m, s)
      <4>1. PICK x : /\ req' = [req EXCEPT ![s] = x]
                     /\ x = [Free EXCEPT !.op = "register", !.m = m, !.pc = "check",
                                         !.client = TRUE, !.blocked = DeviceId(m) \in banned]
        BY <3>1 DEF SendRegister
      <4>2. x.op = "register" /\ x.dev = NoDevice
        BY <4>1 DEF Free
      <4> QED
        BY <4>1, <4>2
    <3>2. CASE SendUpload(m, s)
      <4>1. PICK x : /\ req' = [req EXCEPT ![s] = x]
                     /\ x = [Free EXCEPT !.op = "ingest", !.m = m, !.pc = "auth",
                                         !.key = cred[m].key, !.client = TRUE]
        BY <3>2 DEF SendUpload
      <4>2. x.op = "ingest" /\ x.dev = NoDevice
        BY <4>1 DEF Free
      <4> QED
        BY <4>1, <4>2
    <3> QED
      BY <1>3, <3>1, <3>2
  <2>2. req[s].op = "free"
    BY <1>3 DEF SendRegister, SendUpload
  <2>3. /\ req'[s].op \in {"register", "ingest"} /\ req'[s].dev = NoDevice
        /\ \A t \in Slots : t # s => req'[t] = req[t]
    BY <1>0, <2>1 DEF ReqTyped
  <2>4. SameDeletions(d) /\ (InFlight(d)' => InFlight(d)) /\ (Storing(d)' => Storing(d))
    BY <1>0, <2>2, <2>3, NoDeletion, NoUpload
  <2> QED
    BY <1>1, <2>4, QuietGone DEF Quiet, Blocked
<1>4. ASSUME NEW crash \in BOOLEAN, GiveUp(m, crash)
      PROVE  Gone(d)'
  <2>1. req' = [s \in Slots |-> IF req[s].op # "free" /\ req[s].m = m
                                THEN [req[s] EXCEPT !.client = FALSE] ELSE req[s]]
    BY <1>4 DEF GiveUp
  <2>2. /\ DOMAIN req' = Slots /\ req' = [s \in Slots |-> req'[s]]
        /\ \A s \in Slots : \/ req'[s] = req[s]
                            \/ req'[s] = [req[s] EXCEPT !.client = FALSE]
    BY <2>1
  <2>3. \A t \in Slots : /\ req'[t].op = req[t].op /\ req'[t].dev = req[t].dev
                         /\ req'[t].pc = req[t].pc /\ req'[t].n = req[t].n
    BY <1>0, <2>2, MarkTyped
  <2> QED
    BY <1>1, <2>3, MarksGone
<1> QED
  BY <1>2, <1>3, <1>4
  DEF Machine, AgentStep, Boot, Persist, PersistFails, Reinstall

LEMMA GoneStep == TypeInv /\ GoneInv /\ [Next]_vars => GoneInv'
<1> SUFFICES ASSUME TypeInv, GoneInv, [Next]_vars, NEW d \in Devices PROVE Gone(d)'
  BY DEF GoneInv
<1>0. Gone(d) /\ ReqTyped /\ RowsTyped
  BY DEF GoneInv, TypeInv
<1>1. ASSUME NEW s \in Slots, Register(s) PROVE Gone(d)'
  BY <1>0, <1>1, RegisterGone
<1>2. ASSUME NEW s \in Slots, Ingest(s) PROVE Gone(d)'
  BY <1>0, <1>2, AuthGone, StoreGone DEF Ingest
<1>3. ASSUME NEW s \in Slots, Delete(s) PROVE Gone(d)'
  BY <1>0, <1>3, OtherDeletion, RevokeGone, RemoveGone, PurgeGone DEF Delete
<1>4. ASSUME NEW s \in Slots, CallFails(s) PROVE Gone(d)'
  BY <1>0, <1>4, FailureGone
<1>5. ASSUME NEW s \in Slots, NEW c \in Devices, BeginDelete(c, s) PROVE Gone(d)'
  <2>1. req[s].op = "free" /\ UNCHANGED <<dev, revs, left, mess, open>>
    BY <1>5 DEF BeginDelete, storeVars, histVars
  <2>2. SameDeletions(d) /\ (InFlight(d)' => InFlight(d)) /\ (Storing(d)' => Storing(d))
    BY <1>5, <2>1, BeginFills, NoDeletion, NoUpload
  <2> QED
    BY <1>0, <2>1, <2>2, QuietGone DEF Quiet, Blocked
<1>6. ASSUME NEW m \in Agents, Machine(m) PROVE Gone(d)'
  BY <1>0, <1>6, MachineGone
<1>7. ASSUME NEW c \in Devices, ClearRevocation(c) PROVE Gone(d)'
  <2>1. req' = [s \in Slots |-> [req[s] EXCEPT !.blocked = FALSE]]
    BY <1>7 DEF ClearRevocation
  <2>2. /\ DOMAIN req' = Slots /\ req' = [s \in Slots |-> req'[s]]
        /\ \A s \in Slots : req'[s] = [req[s] EXCEPT !.blocked = FALSE]
    BY <2>1
  <2>3. \A t \in Slots : /\ req'[t].op = req[t].op /\ req'[t].dev = req[t].dev
                         /\ req'[t].pc = req[t].pc /\ req'[t].n = req[t].n
    BY <1>0, <2>2, MarkTyped
  <2>4. UNCHANGED <<dev, left, mess, open>> /\ revs' \subseteq revs
    BY <1>7 DEF ClearRevocation
  <2> QED
    BY <1>0, <2>3, <2>4, MarksGone
<1>8. ASSUME NEW c \in Devices, WipeRecorded(c) PROVE Gone(d)'
  <2>1. UNCHANGED <<revs, left, req, mess, open>>
    BY <1>8 DEF WipeRecorded, histVars
  <2>2. dev[d].here => dev'[d].here
    <3>1. PICK r \in Rows : r = dev[c]
      BY <1>0 DEF RowsTyped
    <3>2. PICK x : x = [r EXCEPT !.wiped = TRUE]
      OBVIOUS
    <3>3. x.here = r.here
      BY <3>1, <3>2 DEF Rows
    <3>4. dev' = [dev EXCEPT ![c] = x]
      BY <1>8, <3>1, <3>2 DEF WipeRecorded
    <3> QED
      BY <1>0, <3>1, <3>3, <3>4 DEF RowsTyped
  <2> QED
    BY <1>0, <2>1, <2>2, MarksGone
<1>9. CASE UNCHANGED vars
  <2>1. UNCHANGED <<dev, revs, left, req, mess, open>>
    BY <1>9 DEF vars, storeVars, histVars
  <2> QED
    BY <1>0, <2>1, MarksGone
<1> QED
  BY <1>1, <1>2, <1>3, <1>4, <1>5, <1>6, <1>7, <1>8, <1>9 DEF Next, CallFails, Machine

LEMMA GoneInit == Init => GoneInv
<1> SUFFICES ASSUME Init, NEW d \in Devices PROVE Gone(d)
  BY DEF GoneInv
<1>1. ~InFlight(d)
  <2>1. \A s \in Slots : req[s].op = "free"
    BY Constants DEF Init
  <2> QED
    BY <2>1 DEF InFlight
<1>2. Cleaned(d) /\ ~Blocked(d)
  BY DEF Init, Cleaned, Blocked
<1> QED
  BY <1>1, <1>2 DEF Gone

\* When a deletion is over and its block stands, nothing of the device is
\* left, and no upload that was authenticated before, no registration and no
\* second deletion brings anything back, whatever order the calls take.
THEOREM DeletionIsFinal == Spec => []DeletedIsGone
<1>1. TypeInv /\ GoneInv /\ [Next]_vars => (TypeInv /\ GoneInv)'
  BY GoneStep, TypeStep
<1>2. Spec => [](TypeInv /\ GoneInv)
  BY <1>1, TypeInit, GoneInit, PTL DEF Spec
<1> QED
  BY <1>2, GoneIsGone, PTL
=============================================================================
