-------------------------- MODULE TargetGuardProofs --------------------------
(***************************************************************************)
(* Proofs about the transactions taken apart into their statements.        *)
(***************************************************************************)
EXTENDS TargetGuard, ProposalSafetyProofs, FiniteOrders

-----------------------------------------------------------------------------
(***************************************************************************)
(* The order in which locks are taken.  Rows are locked upwards, keys are  *)
(* locked upwards, and who has a key has no row to come to any more.       *)
(***************************************************************************)
WellFormed(r) ==
  /\ r.op \in {"none", "create", "revise", "move", "claim", "expire"}
  /\ r.op \in {"create", "revise"} =>
       r.row \in Proposals /\ r.files \in FileMaps /\ ValidFiles(r.files)
  /\ r.op = "move" =>
       /\ r.row \in Proposals
       /\ \/ /\ r.from = "pending" /\ r.to \in {"approved", "rejected"}
             /\ r.actor = "reviewer" /\ r.sha = NULL
          \/ r.from = "failed" /\ r.to = "approved" /\ r.actor = "reviewer" /\ r.sha = NULL
          \/ r.from = "applying" /\ r.to = "applied" /\ r.actor \in Workers /\ r.sha \in Shas
          \/ r.from = "applying" /\ r.to = "failed" /\ r.actor \in Workers /\ r.sha = NULL
  /\ r.op = "claim" => r.worker \in Workers

LockTypes ==
  /\ DOMAIN request = Sessions
  /\ want \in [Sessions -> SUBSET Proposals]
  /\ taken \in [Sessions -> SUBSET Proposals]
  /\ pick \in [Sessions -> Proposals \cup {NULL}]
  /\ rowLock \in [Proposals -> Sessions \cup {NULL}]
  /\ keyLock \in [Hashes -> Sessions \cup {NULL}]

\* What a session has of rows and keys, and what it has still to come to.
InOrder(s) ==
  /\ WellFormed(request[s])
  /\ Does(s, "none") => want[s] = {} /\ taken[s] = {} /\ pick[s] = NULL
  /\ Does(s, "create") => want[s] = {} /\ taken[s] = {}
  /\ Does(s, "revise") \/ Does(s, "move") => want[s] \cup taken[s] \subseteq {request[s].row}
  /\ \A p \in taken[s] : rowLock[p] = s
  /\ \A p \in Proposals : rowLock[p] = s =>
       ~Does(s, "none") /\ \A q \in want[s] : p < q
  /\ \A k \in Hashes : keyLock[k] = s =>
       /\ Does(s, "create") \/ (Does(s, "revise") /\ taken[s] # {})
       /\ \A j \in Missing(s) : k < j

LockInv == LockTypes /\ \A s \in Sessions : InOrder(s)

LEMMA LockInit == GuardInit => LockInv
  BY GuardAssumption DEF GuardInit, LockInv, LockTypes, InOrder, WellFormed, Does, Idle, Hashes

LEMMA RequestsWellFormed ==
  ASSUME NEW r \in Requests
  PROVE  WellFormed(r) /\ r.op # "none"
<1>1. CASE r \in CreateRequests
  BY <1>1 DEF CreateRequests, WellFormed
<1>2. CASE r \in ReviseRequests
  BY <1>2 DEF ReviseRequests, WellFormed, InStatus
<1>3. CASE r \in MoveRequests
  <2>1. \/ \E p \in Proposals : \/ r = Move(p, "pending", "approved", "reviewer", NULL)
                               \/ r = Move(p, "pending", "rejected", "reviewer", NULL)
                               \/ r = Move(p, "failed", "approved", "reviewer", NULL)
        \/ \E p \in Proposals, w \in Workers, sha \in Shas : r = Move(p, "applying", "applied", w, sha)
        \/ \E p \in Proposals, w \in Workers : r = Move(p, "applying", "failed", w, NULL)
    BY <1>3 DEF MoveRequests
  <2>2. ASSUME NEW p \in Proposals,
               \/ r = Move(p, "pending", "approved", "reviewer", NULL)
               \/ r = Move(p, "pending", "rejected", "reviewer", NULL)
               \/ r = Move(p, "failed", "approved", "reviewer", NULL)
        PROVE  WellFormed(r) /\ r.op # "none"
    BY <2>2 DEF WellFormed, Move
  <2>3. ASSUME NEW p \in Proposals, NEW w \in Workers, NEW sha \in Shas,
               r = Move(p, "applying", "applied", w, sha)
        PROVE  WellFormed(r) /\ r.op # "none"
    BY <2>3 DEF WellFormed, Move
  <2>4. ASSUME NEW p \in Proposals, NEW w \in Workers, r = Move(p, "applying", "failed", w, NULL)
        PROVE  WellFormed(r) /\ r.op # "none"
    BY <2>4 DEF WellFormed, Move
  <2> QED
    BY <2>1, <2>2, <2>3, <2>4
<1>4. CASE \E w \in Workers : r = [op |-> "claim", worker |-> w]
  BY <1>4 DEF WellFormed
<1>5. CASE r = [op |-> "expire"]
  BY <1>5 DEF WellFormed
<1> QED
  BY <1>1, <1>2, <1>3, <1>4, <1>5 DEF Requests

LEMMA FoundRows ==
  ASSUME NEW r, WellFormed(r), r.op # "none"
  PROVE  /\ Found(r) \subseteq Proposals
         /\ r.op = "create" => Found(r) = {}
         /\ r.op \in {"revise", "move"} => Found(r) = {r.row}
  BY DEF Found, WellFormed, Lapsed, TooOld, InStatus

LEMMA NextRowIsLeast ==
  ASSUME LockInv, NEW s \in Sessions, want[s] # {}
  PROVE  NextRow(s) \in want[s] /\ \A q \in want[s] : NextRow(s) <= q
<1>1. want[s] \in SUBSET Nat /\ want[s] \in SUBSET Proposals
  BY GuardAssumption DEF LockInv, LockTypes
<1>2. IsFiniteSet(want[s])
  BY <1>1, FS_Subset, ConstantsAssumption
<1>3. \E m \in want[s] : \A n \in want[s] : m <= n
  BY <1>1, <1>2, Least
<1> QED
  BY <1>3 DEF NextRow

\* A session that does not move keeps its place when no lock of it is touched.
LEMMA OthersInOrder ==
  ASSUME LockInv, NEW s \in Sessions, NEW t \in Sessions, s # t,
         request'[t] = request[t], want'[t] = want[t], taken'[t] = taken[t], pick'[t] = pick[t],
         \A p \in Proposals : rowLock'[p] = t <=> rowLock[p] = t,
         \A k \in Hashes : keyLock'[k] = t <=> keyLock[k] = t
  PROVE  InOrder(t)'
<1>1. InOrder(t)
  BY DEF LockInv
<1>2. Does(t, "create") \/ Does(t, "revise") => request[t].files \in FileMaps
  BY <1>1 DEF InOrder, WellFormed, Does
<1>3. Does(t, "create") \/ Does(t, "revise") => Missing(t)' = Missing(t)
  <2>1. \A u \in Paths : Hash[u] \in Hashes
    BY DEF Hashes
  <2>2. Does(t, "create") \/ Does(t, "revise") =>
          \A u \in DOMAIN request[t].files : keyLock'[Hash[u]] = t <=> keyLock[Hash[u]] = t
    BY <1>2, <2>1 DEF FileMaps
  <2> QED
    BY <2>2 DEF Missing
<1>4. Does(t, "create")' = Does(t, "create") /\ Does(t, "revise")' = Does(t, "revise")
      /\ Does(t, "none")' = Does(t, "none") /\ Does(t, "move")' = Does(t, "move")
  BY DEF Does
<1>5. ASSUME NEW k \in Hashes, keyLock'[k] = t
      PROVE  /\ Does(t, "create")' \/ (Does(t, "revise")' /\ taken'[t] # {})
             /\ \A j \in Missing(t)' : k < j
  <2>1. /\ Does(t, "create") \/ (Does(t, "revise") /\ taken[t] # {})
        /\ \A j \in Missing(t) : k < j
    BY <1>1, <1>5 DEF InOrder
  <2> QED
    BY <1>3, <1>4, <2>1
<1>6. \A p \in Proposals : rowLock'[p] = t =>
        ~Does(t, "none")' /\ \A q \in want'[t] : p < q
  BY <1>1, <1>4 DEF InOrder
<1>7. \A p \in taken'[t] : rowLock'[p] = t
  BY <1>1 DEF InOrder, LockInv, LockTypes
<1> QED
  BY <1>1, <1>4, <1>5, <1>6, <1>7 DEF InOrder

LEMMA BeginOrder ==
  ASSUME LockInv, NEW s \in Sessions, NEW r \in Requests, Begin(s, r)
  PROVE  LockInv'
<1>1. WellFormed(r) /\ r.op # "none" /\ Found(r) \subseteq Proposals
      /\ (r.op = "create" => Found(r) = {}) /\ (r.op \in {"revise", "move"} => Found(r) = {r.row})
  BY RequestsWellFormed, FoundRows
<1>2. InOrder(s) /\ Does(s, "none")
  BY DEF LockInv, Begin, Does, Idle
<1>3. LockTypes'
  BY <1>1 DEF LockInv, LockTypes, Begin
<1>4. InOrder(s)'
  BY <1>1, <1>2 DEF LockInv, LockTypes, InOrder, Begin, Does
<1>5. ASSUME NEW t \in Sessions, t # s PROVE InOrder(t)'
  BY <1>5, OthersInOrder DEF LockInv, LockTypes, Begin
<1> QED
  BY <1>3, <1>4, <1>5 DEF LockInv

LEMMA LockRowOrder ==
  ASSUME LockInv, NEW s \in Sessions, LockRow(s)
  PROVE  LockInv'
<1>1. PICK p \in want[s] : p = NextRow(s) /\ \A q \in want[s] : p <= q
  BY NextRowIsLeast DEF LockRow
<1>2. /\ rowLock[p] = NULL /\ rowLock' = [rowLock EXCEPT ![p] = s]
      /\ want' = [want EXCEPT ![s] = want[s] \ {p}]
      /\ \E more \in SUBSET {p} : taken' = [taken EXCEPT ![s] = taken[s] \cup more]
      /\ UNCHANGED <<vars, request, pick, keyLock>>
  BY <1>1 DEF LockRow
<1>3. p \in Proposals /\ want[s] \subseteq Proposals /\ \A q \in Proposals : q \in Nat
  BY GuardAssumption DEF LockInv, LockTypes
<1>4. InOrder(s)
  BY DEF LockInv
<1>5. LockTypes'
  BY <1>2, <1>3 DEF LockInv, LockTypes
<1>6. InOrder(s)'
  <2>1. Missing(s)' = Missing(s)
    BY <1>2 DEF Missing
  <2>2. ~Does(s, "none") /\ ~Does(s, "create") /\ WellFormed(request[s])
        /\ request' = request
    BY <1>1, <1>2, <1>4 DEF InOrder
  <2>3. Does(s, "revise") \/ Does(s, "move") => want'[s] \cup taken'[s] \subseteq {request[s].row}
    BY <1>2, <1>4 DEF InOrder, LockInv, LockTypes
  <2>4. \A q \in taken'[s] : rowLock'[q] = s
    BY <1>2, <1>3, <1>4 DEF InOrder, LockInv, LockTypes
  <2>5. \A q \in Proposals : rowLock'[q] = s => \A o \in want'[s] : q < o
    <3>1. \A q \in Proposals : rowLock'[q] = s => q = p \/ rowLock[q] = s
      BY <1>2 DEF LockInv, LockTypes
    <3>2. \A o \in want'[s] : o \in want[s] /\ o # p
      BY <1>2 DEF LockInv, LockTypes
    <3>3. \A o \in want'[s] : p <= o /\ p \in Nat /\ o \in Nat
      BY <1>1, <1>3, <3>2
    <3>4. \A o \in want'[s] : p < o
      BY <3>2, <3>3
    <3> QED
      BY <1>4, <3>1, <3>2, <3>4 DEF InOrder
  <2>6. \A k \in Hashes : keyLock[k] = s => Does(s, "revise") /\ taken'[s] # {}
                                            /\ \A j \in Missing(s) : k < j
    BY <1>2, <1>4, <2>2 DEF InOrder, LockInv, LockTypes
  <2> QED
    BY <1>2, <2>1, <2>2, <2>3, <2>4, <2>5, <2>6 DEF InOrder, Does
<1>7. ASSUME NEW t \in Sessions, t # s PROVE InOrder(t)'
  <2>1. \A q \in Proposals : rowLock'[q] = t <=> rowLock[q] = t
    BY <1>2, <1>3, <1>7, GuardAssumption DEF LockInv, LockTypes
  <2> QED
    BY <1>2, <1>7, <2>1, OthersInOrder DEF LockInv, LockTypes
<1> QED
  BY <1>5, <1>6, <1>7 DEF LockInv

LEMMA LockKeyOrder ==
  ASSUME LockInv, NEW s \in Sessions, LockKey(s)
  PROVE  LockInv'
<1>1. PICK k \in NextKeys(s) : keyLock[k] = NULL /\ keyLock' = [keyLock EXCEPT ![k] = s]
  BY DEF LockKey
<1>2. UNCHANGED <<vars, request, want, taken, pick, rowLock>>
      /\ (Does(s, "create") \/ (Does(s, "revise") /\ taken[s] # {}))
  BY DEF LockKey, Guarded
<1>3. InOrder(s) /\ request[s].files \in FileMaps
  BY <1>2 DEF LockInv, InOrder, WellFormed, Does
<1>4. Missing(s) \subseteq Hashes /\ Hashes \subseteq Nat
  BY <1>3, GuardAssumption DEF Missing, Hashes, FileMaps
<1>5. k \in Missing(s) /\ (\A j \in Missing(s) : k <= j)
  BY <1>1 DEF NextKeys
<1>6. LockTypes'
  BY <1>1, <1>2, <1>4, <1>5 DEF LockInv, LockTypes
<1>7. Missing(s)' \subseteq Missing(s) \ {k}
  <2>1. \A u \in DOMAIN request[s].files : Hash[u] \in Hashes
    BY <1>3 DEF Hashes, FileMaps
  <2>2. \A u \in DOMAIN request[s].files :
          keyLock'[Hash[u]] # s => keyLock[Hash[u]] # s /\ Hash[u] # k
    BY <1>1, <1>4, <1>5, <2>1 DEF LockInv, LockTypes
  <2> QED
    BY <1>2, <2>2 DEF Missing
<1>8. InOrder(s)'
  <2>1. \A h \in Hashes : keyLock'[h] = s =>
          /\ Does(s, "create") \/ (Does(s, "revise") /\ taken[s] # {})
          /\ \A j \in Missing(s)' : h < j
    <3>1. \A j \in Missing(s)' : j \in Missing(s) /\ j # k /\ j \in Nat /\ k \in Nat
      BY <1>4, <1>5, <1>7
    <3>2. \A j \in Missing(s)' : k < j
      BY <1>5, <3>1
    <3>3. \A h \in Hashes : keyLock'[h] = s => h = k \/ keyLock[h] = s
      BY <1>1, <1>4, <1>5 DEF LockInv, LockTypes
    <3>4. \A h \in Hashes : keyLock[h] = s => \A j \in Missing(s) : h < j
      BY <1>3 DEF InOrder
    <3> QED
      BY <1>2, <3>1, <3>2, <3>3, <3>4
  <2> QED
    BY <1>2, <1>3, <2>1 DEF InOrder, Does
<1>9. ASSUME NEW t \in Sessions, t # s PROVE InOrder(t)'
  <2>1. \A h \in Hashes : keyLock'[h] = t <=> keyLock[h] = t
    BY <1>1, <1>4, <1>5, <1>9, GuardAssumption DEF LockInv, LockTypes
  <2> QED
    BY <1>2, <1>9, <2>1, OthersInOrder
<1> QED
  BY <1>6, <1>8, <1>9 DEF LockInv

LEMMA ReleaseOrder ==
  ASSUME LockInv, NEW s \in Sessions, Release(s)
  PROVE  LockInv'
<1>1. LockTypes'
  BY DEF LockInv, LockTypes, Release
<1>2. InOrder(s)'
  BY GuardAssumption DEF LockInv, LockTypes, InOrder, Release, Does, Idle, WellFormed
<1>3. ASSUME NEW t \in Sessions, t # s PROVE InOrder(t)'
  <2>1. \A p \in Proposals : rowLock'[p] = t <=> rowLock[p] = t
    BY <1>3, GuardAssumption DEF Release
  <2>2. \A k \in Hashes : keyLock'[k] = t <=> keyLock[k] = t
    BY <1>3, GuardAssumption DEF Release
  <2>3. /\ request'[t] = request[t] /\ want'[t] = want[t]
        /\ taken'[t] = taken[t] /\ pick'[t] = pick[t]
    BY <1>3 DEF LockInv, LockTypes, Release
  <2> QED
    BY <1>3, <2>1, <2>2, <2>3, OthersInOrder
<1> QED
  BY <1>1, <1>2, <1>3 DEF LockInv

LEMMA CheckOrder ==
  ASSUME LockInv, NEW s \in Sessions, Check(s)
  PROVE  LockInv'
<1>1. InOrder(s) /\ request[s].row \in Proposals /\ ~Does(s, "none")
  BY DEF LockInv, InOrder, WellFormed, Check, Guarded, Does
<1>2. LockTypes'
  BY <1>1 DEF LockInv, LockTypes, Check
<1>3. \A t \in Sessions : Missing(t)' = Missing(t)
  BY DEF Check, Missing
<1>4. ASSUME NEW t \in Sessions PROVE InOrder(t)'
  <2>1. InOrder(t)
    BY DEF LockInv
  <2>2. Does(t, "none") => pick'[t] = NULL
    BY <1>1, <2>1 DEF Check, InOrder, LockInv, LockTypes
  <2> QED
    BY <1>3, <2>1, <2>2 DEF InOrder, Check, Does
<1> QED
  BY <1>2, <1>4 DEF LockInv

LEMMA PickOrder ==
  ASSUME LockInv, NEW s \in Sessions, Pick(s)
  PROVE  LockInv'
<1>1. PICK p \in Claimable(s) : /\ pick' = [pick EXCEPT ![s] = p]
                                /\ rowLock' = [rowLock EXCEPT ![p] = s]
  BY DEF Pick
<1>2. /\ p \in Proposals /\ rowLock[p] \in {NULL, s}
      /\ UNCHANGED <<vars, request, want, taken, keyLock>>
      /\ Does(s, "claim") /\ want[s] = {}
  BY DEF Pick, Claimable, InStatus, LockInv, LockTypes
<1>3. LockTypes'
  BY <1>1, <1>2 DEF LockInv, LockTypes
<1>4. InOrder(s)'
  <2>1. InOrder(s) /\ Missing(s)' = Missing(s)
    BY <1>2 DEF LockInv, Missing
  <2>2. \A q \in Proposals : rowLock[q] = s => rowLock'[q] = s
    BY <1>1, <1>2 DEF LockInv, LockTypes
  <2>3. ~Does(s, "none") /\ ~Does(s, "create") /\ ~Does(s, "revise") /\ taken[s] \subseteq Proposals
    BY <1>2 DEF Does, LockInv, LockTypes
  <2> QED
    BY <1>2, <2>1, <2>2, <2>3 DEF InOrder, Does
<1>5. ASSUME NEW t \in Sessions, t # s PROVE InOrder(t)'
  <2>1. \A q \in Proposals : rowLock'[q] = t <=> rowLock[q] = t
    BY <1>1, <1>2, <1>5, GuardAssumption DEF LockInv, LockTypes
  <2>2. pick'[t] = pick[t]
    BY <1>1, <1>5 DEF LockInv, LockTypes
  <2> QED
    BY <1>2, <1>5, <2>1, <2>2, OthersInOrder
<1> QED
  BY <1>3, <1>4, <1>5 DEF LockInv

LEMMA LockNext ==
  ASSUME LockInv, [GuardNext]_<<vars, lockVars>>
  PROVE  LockInv'
<1>1. CASE UNCHANGED lockVars
  BY <1>1 DEF lockVars, LockInv, LockTypes, InOrder, Missing, Does
<1>2. ASSUME NEW s \in Sessions, Session(s)
      PROVE  LockInv'
  <2>1. CASE \E r \in Requests : Begin(s, r)
    BY <2>1, BeginOrder
  <2>2. CASE LockRow(s)
    BY <2>2, LockRowOrder
  <2>3. CASE LockKey(s)
    BY <2>3, LockKeyOrder
  <2>4. CASE Check(s)
    BY <2>4, CheckOrder
  <2>5. CASE Pick(s)
    BY <2>5, PickOrder
  <2>6. CASE Commit(s) \/ Rollback(s)
    BY <2>6, ReleaseOrder DEF Commit, Rollback
  <2> QED
    BY <1>2, <2>1, <2>2, <2>3, <2>4, <2>5, <2>6 DEF Session
<1> QED
  BY <1>1, <1>2 DEF GuardNext, Time, lockVars

\* Who creates, or revises and has its row, comes to no more rows.
LEMMA NoMoreRows ==
  ASSUME LockInv, NEW s \in Sessions,
         Does(s, "create") \/ (Does(s, "revise") /\ taken[s] # {})
  PROVE  want[s] = {}
<1>1. InOrder(s)
  BY DEF LockInv
<1>2. CASE Does(s, "create")
  BY <1>1, <1>2 DEF InOrder
<1>3. ASSUME Does(s, "revise"), taken[s] # {}, NEW q \in want[s] PROVE FALSE
  <2>1. q = request[s].row /\ request[s].row \in taken[s] /\ q \in Proposals
    BY <1>1, <1>3 DEF InOrder, LockInv, LockTypes
  <2>2. rowLock[q] = s /\ q < q /\ q \in Nat
    BY <1>1, <1>3, <2>1, GuardAssumption DEF InOrder
  <2> QED
    BY <2>2
<1> QED
  BY <1>2, <1>3

LEMMA NoCycle ==
  ASSUME LockInv
  PROVE  NoWaitCycle
<1> SUFFICES ASSUME NEW S \in SUBSET Sessions, S # {},
                    \A s \in S : \E t \in S : WaitsFor(s, t)
             PROVE  FALSE
  BY DEF NoWaitCycle
<1>1. \A T \in SUBSET S : IsFiniteSet(T)
  BY FS_Subset, GuardAssumption
<1>2. \A s \in Sessions : InOrder(s)
  BY DEF LockInv
<1> DEFINE keyed == {s \in S : Guarded(s)}
\* Who waits for a key waits for someone who is beyond its rows too.
<1>3. ASSUME keyed # {} PROVE FALSE
  <2> DEFINE key == [s \in keyed |-> CHOOSE k \in NextKeys(s) : TRUE]
  <2>1. ASSUME NEW s \in keyed
        PROVE  \E t \in keyed : key[s] \in Nat /\ key[t] \in Nat /\ key[s] < key[t]
    <3>1. ASSUME NEW u \in keyed
          PROVE  want[u] = {} /\ Missing(u) \subseteq Hashes /\ Missing(u) \subseteq Nat
      <4>1. InOrder(u) /\ Guarded(u) /\ u \in Sessions
        BY <1>2
      <4>2. request[u].files \in FileMaps
        BY <4>1 DEF Guarded, InOrder, WellFormed, Does
      <4>3. want[u] = {}
        BY <4>1, NoMoreRows DEF Guarded
      <4> QED
        BY <4>2, <4>3, GuardAssumption DEF Missing, Hashes, FileMaps
    <3>2. PICK t \in S, k \in NextKeys(s) : keyLock[k] = t /\ s # t
      BY <3>1 DEF WaitsFor
    <3>3. k \in Missing(s) /\ k \in Hashes /\ k \in Nat /\ t \in Sessions
      BY <3>1, <3>2 DEF NextKeys
    <3>4. key[s] = k
      <4>1. \A j \in NextKeys(s) : j = k
        BY <3>1, <3>2 DEF NextKeys
      <4>2. key[s] \in NextKeys(s)
        BY <3>2
      <4> QED
        BY <4>1, <4>2
    <3>5. want[t] = {} /\ \A j \in Missing(t) : k < j
      <4>1. Does(t, "create") \/ (Does(t, "revise") /\ taken[t] # {})
        BY <1>2, <3>2, <3>3 DEF InOrder
      <4>2. want[t] = {}
        BY <3>3, <4>1, NoMoreRows
      <4> QED
        BY <1>2, <3>2, <3>3, <4>2 DEF InOrder
    <3>6. t \in keyed /\ NextKeys(t) # {}
      BY <3>5 DEF WaitsFor
    <3>7. key[t] \in Missing(t) /\ key[t] \in Nat
      BY <3>1, <3>6 DEF NextKeys
    <3> QED
      BY <3>3, <3>4, <3>5, <3>6, <3>7
  <2>2. key \in [keyed -> Nat]
    BY <2>1
  <2>3. \E s \in keyed : \A t \in keyed : key[t] <= key[s]
    <3>1. IsFiniteSet(keyed)
      BY <1>1
    <3> HIDE DEF keyed, key
    <3> QED
      BY <1>3, <2>2, <3>1, NoAscent
  <2>4. PICK s \in keyed : \A t \in keyed : key[t] <= key[s]
    BY <2>3
  <2>5. PICK t \in keyed : key[s] \in Nat /\ key[t] \in Nat /\ key[s] < key[t]
    BY <2>1
  <2>6. key[t] <= key[s]
    BY <2>4
  <2> HIDE DEF key
  <2> QED
    BY <2>5, <2>6
\* Otherwise all wait for rows.
<1>4. ASSUME keyed = {} PROVE FALSE
  <2> DEFINE row == [s \in S |-> NextRow(s)]
  <2>1. ASSUME NEW s \in S
        PROVE  \E t \in S : row[s] \in Nat /\ row[t] \in Nat /\ row[s] < row[t]
    <3>1. PICK t \in S : want[s] # {} /\ rowLock[NextRow(s)] = t
      BY <1>4 DEF WaitsFor
    <3>2. want[t] # {}
      BY <1>4 DEF WaitsFor
    <3>3. NextRow(s) \in Proposals /\ NextRow(t) \in want[t] /\ NextRow(t) \in Proposals
      BY <3>1, <3>2, NextRowIsLeast DEF LockInv, LockTypes
    <3>4. NextRow(s) < NextRow(t)
      BY <1>2, <3>1, <3>3 DEF InOrder
    <3> QED
      BY <3>3, <3>4, GuardAssumption
  <2>2. row \in [S -> Nat]
    BY <2>1
  <2>3. \E s \in S : \A t \in S : row[t] <= row[s]
    <3> HIDE DEF row
    <3> QED
      BY <1>1, <2>2, NoAscent
  <2>4. PICK s \in S : \A t \in S : row[t] <= row[s]
    BY <2>3
  <2>5. PICK t \in S : row[s] \in Nat /\ row[t] \in Nat /\ row[s] < row[t]
    BY <2>1
  <2>6. row[t] <= row[s]
    BY <2>4
  <2> HIDE DEF row
  <2> QED
    BY <2>5, <2>6
<1> QED
  BY <1>3, <1>4

\* Whatever their requests have in common, however the paths hash and however
\* many connections there are, no transactions wait for each other in a circle.
THEOREM NeverDeadlocked == GuardSpec => []NoWaitCycle
  BY LockInit, LockNext, NoCycle, PTL DEF GuardSpec

-----------------------------------------------------------------------------
(***************************************************************************)
(* What a transaction has found stays true until it commits: its rows are  *)
(* locked and no one else writes them, the row of a create is its own, and *)
(* while it has the keys of its targets no one else puts a file there.     *)
(***************************************************************************)
Writes(s) == Does(s, "create") \/ Does(s, "revise")

Current(s) ==
  /\ Does(s, "create") => status[request[s].row] = Absent
  /\ Does(s, "revise") => /\ status[request[s].row] # Absent
                          /\ \A t \in DOMAIN request[s].files : GroupOf(t) = name[request[s].row]
  /\ \A p \in taken[s] : Matches(request[s], p)
  /\ Does(s, "claim") /\ pick[s] # NULL =>
       /\ rowLock[pick[s]] = s
       /\ pick[s] \in InStatus("approved") \cup taken[s]
  /\ Writes(s) /\ pick[s] # NULL =>
       /\ Does(s, "revise") => request[s].row \in taken[s]
       /\ \A t \in DOMAIN request[s].files : keyLock[Hash[t]] = s
       /\ FreeOrRetried(request[s].files, request[s].row)

\* No two creates are for the same row.
Reserved ==
  \A s, t \in Sessions :
    s # t /\ Does(s, "create") /\ Does(t, "create") => request[s].row # request[t].row

GuardInv == TypeInv /\ LockInv /\ Reserved /\ \A s \in Sessions : Current(s)

LEMMA GuardInitInv == GuardInit => GuardInv
<1> SUFFICES ASSUME GuardInit PROVE GuardInv
  OBVIOUS
<1>1. TypeInv /\ LockInv
  BY InitType, LockInit DEF GuardInit
<1>2. \A s \in Sessions : \A op : Does(s, op) => op = "none"
  BY DEF GuardInit, Does, Idle
<1>3. \A s \in Sessions : taken[s] = {} /\ pick[s] = NULL
  BY DEF GuardInit
<1> QED
  BY <1>1, <1>2, <1>3 DEF GuardInv, Reserved, Current, Writes

\* A row that matches is there.
LEMMA MatchesThere ==
  ASSUME NEW s \in Sessions, InOrder(s), NEW p \in Proposals, Matches(request[s], p),
         ~Does(s, "none"), ~Does(s, "create")
  PROVE  status[p] # Absent
  BY DEF InOrder, WellFormed, Matches, Does, Lapsed, TooOld, InStatus, Absent

LEMMA FreeStays ==
  ASSUME TypeInv, [StoreStep]_vars, NEW F, NEW self, FreeOrRetried(F, self),
         NEW q \in Proposals \ {self}, Open(q)', DOMAIN files'[q] \cap DOMAIN F # {},
         files'[q] = files[q], status[q] # Absent
  PROVE  Retried(q)'
<1>1. CASE Open(q)
  BY <1>1, RetriedNext DEF FreeOrRetried
<1>2. CASE ~Open(q)
  BY <1>2, OpensOnlyByRetry
<1> QED
  BY <1>1, <1>2

\* What a session has found stays so when none of its rows and keys is touched.
LEMMA StaysCurrent ==
  ASSUME GuardInv, NEW t \in Sessions,
         request'[t] = request[t], taken'[t] = taken[t], pick'[t] = pick[t],
         \A p \in Proposals : rowLock[p] = t => rowLock'[p] = t,
         \A k \in Hashes : keyLock[k] = t => keyLock'[k] = t,
         old \subseteq old',
         \A p \in Proposals : rowLock[p] = t /\ status[p] # Absent =>
           status'[p] = status[p] /\ (lease[p] = "over" => lease'[p] = "over"),
         Does(t, "create") => status'[request[t].row] = Absent,
         Does(t, "revise") => /\ status'[request[t].row] # Absent
                              /\ name'[request[t].row] = name[request[t].row],
         Writes(t) /\ pick[t] # NULL => FreeOrRetried(request[t].files, request[t].row)'
  PROVE  Current(t)'
<1>1. Current(t) /\ InOrder(t) /\ taken[t] \subseteq Proposals /\ pick[t] \in Proposals \cup {NULL}
  BY DEF GuardInv, LockInv, LockTypes
<1>2. /\ Does(t, "create")' <=> Does(t, "create")
      /\ Does(t, "revise")' <=> Does(t, "revise")
      /\ Does(t, "claim")' <=> Does(t, "claim")
      /\ Writes(t)' <=> Writes(t)
  BY DEF Does, Writes
<1>3. \A p \in taken[t] : Matches(request[t], p)'
  <2> SUFFICES ASSUME NEW p \in taken[t] PROVE Matches(request[t], p)'
    OBVIOUS
  <2>1. /\ p \in Proposals /\ rowLock[p] = t /\ ~Does(t, "none")
        /\ Matches(request[t], p) /\ WellFormed(request[t])
    BY <1>1 DEF InOrder, Current
  <2>2. CASE ~Does(t, "create")
    <3>1. status[p] # Absent
      BY <1>1, <2>1, <2>2, MatchesThere
    <3>2. status'[p] = status[p] /\ (lease[p] = "over" => lease'[p] = "over") /\ (p \in old => p \in old')
      BY <2>1, <3>1
    <3>3. request[t].op \in {"revise", "move", "claim", "expire"}
      BY <2>1, <2>2 DEF WellFormed, Does
    <3>4. CASE request[t].op = "revise"
      BY <2>1, <3>2, <3>4 DEF Matches
    <3>5. CASE request[t].op = "move"
      BY <2>1, <3>2, <3>5 DEF Matches
    <3>6. CASE request[t].op = "claim"
      BY <2>1, <3>2, <3>6 DEF Matches, Lapsed, InStatus
    <3>7. CASE request[t].op = "expire"
      BY <2>1, <3>2, <3>7 DEF Matches, TooOld, InStatus
    <3> QED
      BY <3>3, <3>4, <3>5, <3>6, <3>7
  <2>3. CASE Does(t, "create")
    BY <1>1, <2>3 DEF InOrder
  <2> QED
    BY <2>2, <2>3
<1>4. Does(t, "create")' => status'[request'[t].row] = Absent
  BY <1>2
<1>5. Does(t, "revise")' => /\ status'[request'[t].row] # Absent
                           /\ \A u \in DOMAIN request'[t].files : GroupOf(u) = name'[request'[t].row]
  BY <1>1, <1>2 DEF Current
<1>6. Does(t, "claim")' /\ pick'[t] # NULL =>
        rowLock'[pick'[t]] = t /\ pick'[t] \in InStatus("approved")' \cup taken'[t]
  <2> SUFFICES ASSUME Does(t, "claim"), pick[t] # NULL
               PROVE  rowLock'[pick[t]] = t /\ pick[t] \in InStatus("approved")' \cup taken[t]
    BY <1>2
  <2>1. pick[t] \in Proposals /\ rowLock[pick[t]] = t
        /\ pick[t] \in InStatus("approved") \cup taken[t]
    BY <1>1 DEF Current
  <2>2. CASE pick[t] \in taken[t]
    BY <2>1, <2>2
  <2>3. CASE status[pick[t]] = "approved"
    <3>1. status'[pick[t]] = "approved"
      BY <2>1, <2>3 DEF Absent
    <3> QED
      BY <2>1, <3>1 DEF InStatus
  <2> QED
    BY <2>1, <2>2, <2>3 DEF InStatus
<1>7. Writes(t)' /\ pick'[t] # NULL =>
        /\ Does(t, "revise")' => request'[t].row \in taken'[t]
        /\ \A u \in DOMAIN request'[t].files : keyLock'[Hash[u]] = t
        /\ FreeOrRetried(request[t].files, request[t].row)'
  <2> SUFFICES ASSUME Writes(t), pick[t] # NULL
               PROVE  /\ Does(t, "revise") => request[t].row \in taken[t]
                      /\ \A u \in DOMAIN request[t].files : keyLock'[Hash[u]] = t
    BY <1>2
  <2>1. request[t].files \in FileMaps
    BY <1>1 DEF InOrder, WellFormed, Writes, Does
  <2>2. \A u \in DOMAIN request[t].files : Hash[u] \in Hashes
    BY <2>1 DEF FileMaps, Hashes
  <2> QED
    BY <1>1, <2>2 DEF Current
<1> QED
  BY <1>3, <1>4, <1>5, <1>6, <1>7 DEF Current

-----------------------------------------------------------------------------
(***************************************************************************)
(* What a commit writes.                                                   *)
(***************************************************************************)
\* A commit is a step of the database, and one that writes files has its targets
\* for itself.
LEMMA CommitStores ==
  ASSUME GuardInv, NEW s \in Sessions, Commit(s)
  PROVE  \/ /\ Does(s, "create") /\ pick[s] # NULL
            /\ request[s].row \in Proposals /\ request[s].files \in FileMaps
            /\ \E first \in DOMAIN request[s].files : Creates(request[s].row, request[s].files, first)
         \/ /\ Does(s, "revise") /\ pick[s] # NULL
            /\ request[s].row \in Proposals /\ request[s].files \in FileMaps
            /\ Revises(request[s].row, request[s].files)
         \/ FilesStay
<1> DEFINE r == request[s]
<1>1. InOrder(s) /\ Current(s) /\ WellFormed(r)
      /\ taken[s] \in SUBSET Proposals /\ pick[s] \in Proposals \cup {NULL}
  BY DEF GuardInv, LockInv, LockTypes, InOrder
<1>2. ASSUME Does(s, "create"), pick[s] # NULL, NEW first \in DOMAIN r.files,
             InsertProposal(r.row, r.files, first)
      PROVE  r.row \in Proposals /\ r.files \in FileMaps /\ Creates(r.row, r.files, first)
  BY <1>1, <1>2 DEF WellFormed, Current, Creates, Does
<1>3. ASSUME Does(s, "revise"), pick[s] # NULL, ReplaceFiles(r.row, r.files)
      PROVE  r.row \in Proposals /\ r.files \in FileMaps /\ Revises(r.row, r.files)
  <2>1. r.row \in taken[s] /\ (\A t \in DOMAIN r.files : GroupOf(t) = name[r.row])
    BY <1>1, <1>3 DEF Current, Writes
  <2>2. status[r.row] = "pending"
    BY <1>1, <1>3, <2>1 DEF Current, Matches, Does
  <2>3. r.row \in Proposals /\ r.files \in FileMaps /\ ValidFiles(r.files)
    BY <1>1, <1>3 DEF WellFormed, Does
  <2> QED
    BY <1>3, <2>1, <2>2, <2>3 DEF Revises
<1>4. ASSUME Does(s, "move"), Transition(r.row, r.from, r.to, r.actor, r.sha)
      PROVE  Transits
  <2>1. r.row \in Proposals
    BY <1>1, <1>4 DEF WellFormed, Does
  <2>2. CASE r.from = "pending" /\ r.to = "approved" /\ r.actor = "reviewer" /\ r.sha = NULL
    BY <1>4, <2>1, <2>2 DEF Transits, Approve
  <2>3. CASE r.from = "pending" /\ r.to = "rejected" /\ r.actor = "reviewer" /\ r.sha = NULL
    BY <1>4, <2>1, <2>3 DEF Transits, Reject
  <2>4. CASE r.from = "failed" /\ r.to = "approved" /\ r.actor = "reviewer" /\ r.sha = NULL
    BY <1>4, <2>1, <2>4 DEF Transits, Retry
  <2>5. CASE r.from = "applying" /\ r.to = "applied" /\ r.actor \in Workers /\ r.sha \in Shas
    BY <1>4, <2>1, <2>5 DEF Transits, MarkApplied
  <2>6. CASE r.from = "applying" /\ r.to = "failed" /\ r.actor \in Workers /\ r.sha = NULL
    BY <1>4, <2>1, <2>6 DEF Transits, MarkFailed
  <2> QED
    BY <1>1, <1>4, <2>2, <2>3, <2>4, <2>5, <2>6 DEF WellFormed, Does
<1>5. ASSUME Does(s, "claim"), pick[s] # NULL, TakeClaim(r.worker, pick[s], taken[s])
      PROVE  pick[s] \in Proposals /\ r.worker \in Workers /\ Claims(r.worker, pick[s], taken[s])
  <2>1. \A p \in taken[s] : p \in Lapsed
    BY <1>1, <1>5 DEF Current, Matches, Does
  <2>2. pick[s] \in InStatus("approved") \cup taken[s]
    BY <1>1, <1>5 DEF Current
  <2>3. r.worker \in Workers
    BY <1>1, <1>5 DEF WellFormed, Does
  <2> QED
    BY <1>1, <1>5, <2>1, <2>2, <2>3 DEF Claims
<1>6. ASSUME Does(s, "expire"), ExpireRows(taken[s])
      PROVE  Expires(taken[s])
  <2>1. \A p \in taken[s] : p \in TooOld
    BY <1>1, <1>6 DEF Current, Matches, Does
  <2> QED
    BY <1>6, <2>1 DEF Expires
<1>7. CASE Does(s, "create") /\ pick[s] # NULL
           /\ \E first \in DOMAIN r.files : InsertProposal(r.row, r.files, first)
  BY <1>2, <1>7
<1>8. CASE Does(s, "revise") /\ pick[s] # NULL /\ ReplaceFiles(r.row, r.files)
  BY <1>3, <1>8
<1>9. CASE Does(s, "move") /\ Transition(r.row, r.from, r.to, r.actor, r.sha)
  BY <1>4, <1>9 DEF FilesStay
<1>10. CASE Does(s, "claim") /\ pick[s] # NULL /\ TakeClaim(r.worker, pick[s], taken[s])
  BY <1>1, <1>5, <1>10 DEF FilesStay
<1>11. CASE Does(s, "expire") /\ ExpireRows(taken[s])
  BY <1>1, <1>6, <1>11 DEF FilesStay
<1> QED
  BY <1>7, <1>8, <1>9, <1>10, <1>11 DEF Commit

LEMMA CommitIsStoreStep ==
  ASSUME GuardInv, NEW s \in Sessions, Commit(s)
  PROVE  StoreStep
  BY CommitStores DEF StoreStep

\* Rows that the session has not locked, but for the new row of a create, are left
\* as they are.
LEMMA CommitLeaves ==
  ASSUME GuardInv, NEW s \in Sessions, Commit(s), NEW q \in Proposals,
         rowLock[q] # s \/ status[q] = Absent,
         Does(s, "create") => q # request[s].row
  PROVE  /\ status'[q] = status[q] /\ lease'[q] = lease[q] /\ name'[q] = name[q]
         /\ files'[q] = files[q] /\ old' = old
<1> DEFINE r == request[s]
<1>1. InOrder(s) /\ Current(s) /\ WellFormed(r)
      /\ taken[s] \in SUBSET Proposals /\ pick[s] \in Proposals \cup {NULL}
  BY DEF GuardInv, LockInv, LockTypes, InOrder
<1>2. TypeOK
  BY DEF GuardInv, TypeInv
<1>3. q \in taken[s] => Does(s, "none") \/ Does(s, "create")
  <2>1. ASSUME q \in taken[s], ~Does(s, "none"), ~Does(s, "create") PROVE FALSE
    <3>1. rowLock[q] = s /\ Matches(request[s], q)
      BY <1>1, <2>1 DEF InOrder, Current
    <3> QED
      BY <1>1, <2>1, <3>1, MatchesThere
  <2> QED
    BY <2>1
<1>4. CASE Does(s, "create") /\ \E first \in DOMAIN r.files : InsertProposal(r.row, r.files, first)
  BY <1>2, <1>4 DEF InsertProposal, TypeOK
<1>5. CASE Does(s, "revise") /\ pick[s] # NULL /\ ReplaceFiles(r.row, r.files)
  <2>1. q # r.row
    BY <1>1, <1>3, <1>5 DEF Current, Writes, Does
  <2> QED
    BY <1>2, <1>5, <2>1 DEF ReplaceFiles, TypeOK
<1>6. CASE Does(s, "move") /\ taken[s] # {} /\ Transition(r.row, r.from, r.to, r.actor, r.sha)
  <2>1. status[r.row] = r.from /\ r.from # Absent
    BY <1>1, <1>6 DEF Transition, ErrorAfter, WellFormed, Does, Absent
  <2>2. rowLock[r.row] = s
    BY <1>1, <1>6 DEF InOrder
  <2>3. q # r.row
    BY <2>1, <2>2
  <2> QED
    BY <1>2, <1>6, <2>3 DEF Transition, ErrorAfter, TypeOK
<1>7. CASE Does(s, "claim") /\ pick[s] # NULL /\ TakeClaim(r.worker, pick[s], taken[s])
  <2>1. q \notin taken[s]
    BY <1>3, <1>7 DEF Does
  <2>2. q # pick[s]
    <3>1. rowLock[pick[s]] = s /\ pick[s] \in InStatus("approved") \cup taken[s]
      BY <1>1, <1>7 DEF Current
    <3> QED
      BY <2>1, <3>1 DEF InStatus, Absent
  <2> QED
    BY <1>2, <1>7, <2>1, <2>2 DEF TakeClaim, TypeOK
<1>8. CASE Does(s, "expire") /\ ExpireRows(taken[s])
  <2>1. q \notin taken[s]
    BY <1>3, <1>8 DEF Does
  <2> QED
    BY <1>2, <1>8, <2>1 DEF ExpireRows, TypeOK
<1> QED
  BY <1>4, <1>5, <1>6, <1>7, <1>8 DEF Commit

\* What other sessions have found stays true when s commits.
LEMMA CommitKeepsOthers ==
  ASSUME GuardInv, NEW s \in Sessions, Commit(s), NEW t \in Sessions, t # s
  PROVE  Current(t)'
<1>1. InOrder(s) /\ Current(s) /\ InOrder(t) /\ Current(t) /\ TypeInv /\ Reserved
  BY DEF GuardInv, LockInv
<1>2. /\ request'[t] = request[t] /\ taken'[t] = taken[t] /\ pick'[t] = pick[t]
      /\ \A p \in Proposals : rowLock[p] = t => rowLock'[p] = t
      /\ \A k \in Hashes : keyLock[k] = t => keyLock'[k] = t
  BY DEF GuardInv, LockInv, LockTypes, Commit, Release
<1>3. \A q \in Proposals :
        /\ rowLock[q] # s \/ status[q] = Absent
        /\ Does(s, "create") => q # request[s].row
        => /\ status'[q] = status[q] /\ lease'[q] = lease[q] /\ name'[q] = name[q]
           /\ files'[q] = files[q] /\ old' = old
  BY CommitLeaves
<1>4. Does(s, "create") => status[request[s].row] = Absent
  BY <1>1 DEF Current
<1>5. Does(t, "create") => status'[request[t].row] = Absent
  <2> SUFFICES ASSUME Does(t, "create") PROVE status'[request[t].row] = Absent
    OBVIOUS
  <2>1. request[t].row \in Proposals /\ status[request[t].row] = Absent
    BY <1>1 DEF InOrder, WellFormed, Current, Does
  <2>2. Does(s, "create") => request[t].row # request[s].row
    BY <1>1 DEF Reserved
  <2> QED
    BY <1>3, <2>1, <2>2
<1>6. [StoreStep]_vars
  BY CommitIsStoreStep
<1>7. \A p \in Proposals : rowLock[p] = t /\ status[p] # Absent =>
        status'[p] = status[p] /\ (lease[p] = "over" => lease'[p] = "over")
  BY <1>3, <1>4
<1>8. old' = old
  BY DEF Commit, InsertProposal, ReplaceFiles, Transition, TakeClaim, ExpireRows
<1>9. \A q \in Proposals : status[q] # Absent => status'[q] # Absent /\ name'[q] = name[q]
  <2> SUFFICES ASSUME NEW q \in Proposals, status[q] # Absent
               PROVE  status'[q] # Absent /\ name'[q] = name[q]
    OBVIOUS
  <2>1. ASSUME NEW first, Creates(request[s].row, request[s].files, first)
        PROVE  status'[q] # Absent /\ name'[q] = name[q]
    BY <1>1, <2>1 DEF Creates, InsertProposal, TypeInv, TypeOK
  <2>2. CASE Revises(request[s].row, request[s].files)
    BY <2>2 DEF Revises, ReplaceFiles
  <2>3. CASE FilesStay
    BY <1>1, <2>3, FilesWritten
  <2> QED
    BY <2>1, <2>2, <2>3, CommitStores
<1>10. Does(t, "revise") => /\ status'[request[t].row] # Absent
                            /\ name'[request[t].row] = name[request[t].row]
  BY <1>1, <1>9 DEF InOrder, WellFormed, Current, Does
<1>11. ASSUME Writes(t), pick[t] # NULL
       PROVE  FreeOrRetried(request[t].files, request[t].row)'
  <2> DEFINE F == request[t].files
             self == request[t].row
  <2>1. FreeOrRetried(F, self) /\ (\A u \in DOMAIN F : keyLock[Hash[u]] = t)
    BY <1>1, <1>11 DEF Current
  <2>2. ASSUME NEW q \in Proposals \ {self}, Open(q)', DOMAIN files'[q] \cap DOMAIN F # {}
        PROVE  Retried(q)'
    <3>1. ASSUME files'[q] = files[q], status[q] # Absent PROVE Retried(q)'
      BY <1>1, <1>6, <2>1, <2>2, <3>1, FreeStays
    <3>2. status'[q] # Absent
      BY <2>2 DEF Open, OpenStatuses, Absent
    <3>3. ASSUME Writes(s), pick[s] # NULL, files'[q] = request[s].files PROVE FALSE
      <4>1. PICK u \in DOMAIN F : u \in DOMAIN request[s].files
        BY <2>2, <3>3
      <4>2. keyLock[Hash[u]] = s
        BY <1>1, <3>3, <4>1 DEF Current
      <4> QED
        BY <2>1, <4>1, <4>2
    <3>4. ASSUME Does(s, "create"), pick[s] # NULL, request[s].row \in Proposals,
                 NEW first, Creates(request[s].row, request[s].files, first)
          PROVE  Retried(q)'
      <4>1. CASE q = request[s].row
        <5>1. files'[q] = request[s].files
          BY <1>1, <3>4, <4>1 DEF Creates, InsertProposal, TypeInv, TypeOK
        <5> QED
          BY <3>3, <3>4, <5>1 DEF Writes
      <4>2. CASE q # request[s].row
        <5>1. files'[q] = files[q] /\ status'[q] = status[q]
          BY <1>1, <3>4, <4>2 DEF Creates, InsertProposal, TypeInv, TypeOK
        <5> QED
          BY <3>1, <3>2, <5>1
      <4> QED
        BY <4>1, <4>2
    <3>5. ASSUME Does(s, "revise"), pick[s] # NULL, request[s].row \in Proposals,
                 Revises(request[s].row, request[s].files)
          PROVE  Retried(q)'
      <4>1. CASE q = request[s].row
        <5>1. files'[q] = request[s].files
          BY <1>1, <3>5, <4>1 DEF Revises, ReplaceFiles, TypeInv, TypeOK
        <5> QED
          BY <3>3, <3>5, <5>1 DEF Writes
      <4>2. CASE q # request[s].row
        <5>1. files'[q] = files[q] /\ status'[q] = status[q]
          BY <1>1, <3>5, <4>2 DEF Revises, ReplaceFiles, TypeInv, TypeOK
        <5> QED
          BY <3>1, <3>2, <5>1
      <4> QED
        BY <4>1, <4>2
    <3>6. CASE FilesStay
      <4>1. files'[q] = files[q] /\ status[q] # Absent
        BY <1>1, <3>2, <3>6, FilesWritten
      <4> QED
        BY <3>1, <4>1
    <3> QED
      BY <3>4, <3>5, <3>6, CommitStores
  <2> QED
    BY <1>2, <2>2 DEF FreeOrRetried
<1> QED
  BY <1>2, <1>5, <1>7, <1>8, <1>10, <1>11, StaysCurrent

\* Time touches nothing that a session has found.
LEMMA TimeKeeps ==
  ASSUME GuardInv, Time, NEW t \in Sessions
  PROVE  Current(t)'
<1>1. Current(t) /\ InOrder(t) /\ TypeInv
  BY DEF GuardInv, LockInv
<1>2. Quiet /\ UNCHANGED lockVars
  BY DEF Time, Quiet
<1>3. UNCHANGED <<status, name, files, log>>
  BY <1>2, QuietLeaves
<1>4. old \subseteq old' /\ \A p \in Proposals : lease[p] = "over" => lease'[p] = "over"
  BY <1>1 DEF Time, LeaseRunsOut, GrowsOld, TypeInv, TypeOK
<1>6. FreeOrRetried(request[t].files, request[t].row) => FreeOrRetried(request[t].files, request[t].row)'
  BY <1>2, <1>3 DEF FreeOrRetried, Open, Retried, lockVars
<1>7. Does(t, "create") => status[request[t].row] = Absent
  BY <1>1 DEF Current
<1>8. Does(t, "revise") => status[request[t].row] # Absent
  BY <1>1 DEF Current
<1>9. Writes(t) /\ pick[t] # NULL => FreeOrRetried(request[t].files, request[t].row)'
  BY <1>1, <1>6 DEF Current
<1> QED
  BY <1>2, <1>3, <1>4, <1>7, <1>8, <1>9, StaysCurrent DEF lockVars

\* Steps that do not touch the tables keep what the other sessions have found.
LEMMA OthersStill ==
  ASSUME GuardInv, NEW t \in Sessions, UNCHANGED vars,
         request'[t] = request[t], taken'[t] = taken[t], pick'[t] = pick[t],
         \A p \in Proposals : rowLock[p] = t => rowLock'[p] = t,
         \A k \in Hashes : keyLock[k] = t => keyLock'[k] = t
  PROVE  Current(t)'
<1>1. Current(t)
  BY DEF GuardInv
<1>2. UNCHANGED <<status, name, files, log, lease, old>>
  BY DEF vars
<1>3. FreeOrRetried(request[t].files, request[t].row) => FreeOrRetried(request[t].files, request[t].row)'
  BY <1>2 DEF FreeOrRetried, Open, Retried
<1>4. Does(t, "create") => status[request[t].row] = Absent
  BY <1>1 DEF Current
<1>5. Does(t, "revise") => status[request[t].row] # Absent
  BY <1>1 DEF Current
<1>6. Writes(t) /\ pick[t] # NULL => FreeOrRetried(request[t].files, request[t].row)'
  BY <1>1, <1>3 DEF Current
<1> QED
  BY <1>2, <1>4, <1>5, <1>6, StaysCurrent

LEMMA BeginCurrent ==
  ASSUME GuardInv, NEW s \in Sessions, NEW r \in Requests, Begin(s, r)
  PROVE  Reserved' /\ \A t \in Sessions : Current(t)'
<1>1. /\ request' = [request EXCEPT ![s] = r] /\ UNCHANGED <<vars, taken, pick, rowLock, keyLock>>
      /\ DOMAIN request = Sessions /\ request'[s] = r
  BY DEF Begin, GuardInv, LockInv, LockTypes
<1>2. taken[s] = {} /\ pick[s] = NULL
  BY DEF Begin, GuardInv, LockInv, InOrder, Does, Idle
<1>3. r.op = "create" =>
        /\ status[r.row] = Absent
        /\ \A t \in Sessions : Does(t, "create") => request[t].row # r.row
  <2>1. r.op = "create" => r \in CreateRequests
    BY DEF Requests, ReviseRequests, MoveRequests, Move
  <2> QED
    BY <2>1 DEF CreateRequests, InUse
<1>4. r.op = "revise" => /\ status[r.row] # Absent
                         /\ \A t \in DOMAIN r.files : GroupOf(t) = name[r.row]
  <2>1. r.op = "revise" => r \in ReviseRequests
    BY DEF Requests, CreateRequests, MoveRequests, Move
  <2> QED
    BY <2>1 DEF ReviseRequests, InStatus, Absent
<1>5. Current(s)'
  <2>1. status' = status /\ name' = name /\ taken'[s] = {} /\ pick'[s] = NULL
    BY <1>1, <1>2 DEF vars
  <2> QED
    BY <1>1, <1>3, <1>4, <2>1 DEF Current, Does
<1>6. ASSUME NEW t \in Sessions, t # s PROVE Current(t)'
  BY <1>1, <1>6, OthersStill
<1>7. Reserved'
  BY <1>1, <1>3 DEF Reserved, GuardInv, Does
<1> QED
  BY <1>5, <1>6, <1>7

LEMMA LockRowCurrent ==
  ASSUME GuardInv, NEW s \in Sessions, LockRow(s)
  PROVE  Reserved' /\ \A t \in Sessions : Current(t)'
<1>1. PICK p \in want[s] : p = NextRow(s)
  BY NextRowIsLeast DEF LockRow, GuardInv
<1>2. /\ rowLock[p] = NULL /\ rowLock' = [rowLock EXCEPT ![p] = s]
      /\ taken' = [taken EXCEPT ![s] = taken[s] \cup {q \in {p} : Matches(request[s], q)}]
      /\ UNCHANGED <<vars, request, pick, keyLock>>
  BY <1>1 DEF LockRow
<1>3. p \in Proposals /\ Current(s) /\ taken \in [Sessions -> SUBSET Proposals]
      /\ rowLock \in [Proposals -> Sessions \cup {NULL}]
  BY DEF GuardInv, LockInv, LockTypes
<1>4. UNCHANGED <<status, name, files, log, lease, old>>
  BY <1>2 DEF vars
<1>5. \A q \in taken'[s] : Matches(request[s], q)
  BY <1>2, <1>3 DEF Current
<1>6. taken[s] \subseteq taken'[s]
  BY <1>2, <1>3
<1>7. \A q \in Proposals : \A t \in Sessions : rowLock[q] = t => rowLock'[q] = t
  BY <1>2, <1>3, GuardAssumption
<1>8. Current(s)'
  <2>1. \A q \in taken'[s] : Matches(request[s], q)'
    BY <1>2, <1>4, <1>5 DEF Matches, Lapsed, TooOld, InStatus
  <2>2. FreeOrRetried(request[s].files, request[s].row) => FreeOrRetried(request[s].files, request[s].row)'
    BY <1>2, <1>4 DEF FreeOrRetried, Open, Retried
  <2>3. InStatus("approved")' = InStatus("approved") /\ (pick[s] = NULL \/ pick[s] \in Proposals)
    BY <1>4 DEF InStatus, GuardInv, LockInv, LockTypes
  <2>4. \A q \in Proposals : rowLock[q] = s => rowLock'[q] = s
    BY <1>7
  <2>5. /\ Does(s, "create")' <=> Does(s, "create")
        /\ Does(s, "revise")' <=> Does(s, "revise")
        /\ Does(s, "claim")' <=> Does(s, "claim")
        /\ Writes(s)' <=> Writes(s)
    BY <1>2 DEF Does, Writes
  <2>6. /\ Does(s, "create") => status'[request[s].row] = Absent
        /\ Does(s, "revise") => /\ status'[request[s].row] # Absent
                                /\ \A t \in DOMAIN request[s].files : GroupOf(t) = name'[request[s].row]
    BY <1>3, <1>4 DEF Current
  <2>7. Does(s, "claim") /\ pick[s] # NULL =>
          rowLock'[pick[s]] = s /\ pick[s] \in InStatus("approved")' \cup taken'[s]
    BY <1>3, <1>6, <2>3, <2>4 DEF Current
  <2>8. Writes(s) /\ pick[s] # NULL =>
          /\ Does(s, "revise") => request[s].row \in taken'[s]
          /\ \A t \in DOMAIN request[s].files : keyLock[Hash[t]] = s
          /\ FreeOrRetried(request[s].files, request[s].row)'
    BY <1>3, <1>6, <2>2 DEF Current
  <2> QED
    BY <1>2, <2>1, <2>5, <2>6, <2>7, <2>8 DEF Current
<1>9. ASSUME NEW t \in Sessions, t # s PROVE Current(t)'
  BY <1>2, <1>3, <1>7, <1>9, OthersStill
<1> QED
  BY <1>2, <1>8, <1>9 DEF GuardInv, Reserved, Does

LEMMA LockKeyCurrent ==
  ASSUME GuardInv, NEW s \in Sessions, LockKey(s)
  PROVE  Reserved' /\ \A t \in Sessions : Current(t)'
<1>1. PICK k \in NextKeys(s) : keyLock[k] = NULL /\ keyLock' = [keyLock EXCEPT ![k] = s]
  BY DEF LockKey
<1>2. UNCHANGED <<vars, request, want, taken, pick, rowLock>> /\ GuardInv
  BY DEF LockKey
<1>3. keyLock \in [Hashes -> Sessions \cup {NULL}]
  BY DEF GuardInv, LockInv, LockTypes
<1>4. \A t \in Sessions : \A h \in Hashes : keyLock[h] = t => keyLock'[h] = t
  BY <1>1, <1>3, GuardAssumption
<1>5. ASSUME NEW t \in Sessions PROVE Current(t)'
  BY <1>2, <1>4, OthersStill
<1> QED
  BY <1>2, <1>5 DEF GuardInv, Reserved, Does

LEMMA CheckCurrent ==
  ASSUME GuardInv, NEW s \in Sessions, Check(s)
  PROVE  Reserved' /\ \A t \in Sessions : Current(t)'
<1>1. /\ UNCHANGED <<vars, request, want, taken, rowLock, keyLock>>
      /\ pick' = [pick EXCEPT ![s] = request[s].row]
      /\ Missing(s) = {} /\ TargetsFree(request[s].files, request[s].row)
      /\ Writes(s) /\ (Does(s, "revise") => taken[s] # {})
  BY DEF Check, Guarded, Writes
<1>2. InOrder(s) /\ Current(s) /\ DOMAIN pick = Sessions
  BY DEF GuardInv, LockInv, LockTypes
<1>3. UNCHANGED <<status, name, files, log, lease, old>>
  BY <1>1 DEF vars
<1>4. Current(s)'
  <2>1. /\ Does(s, "create")' <=> Does(s, "create")
        /\ Does(s, "revise")' <=> Does(s, "revise")
        /\ Writes(s)' <=> Writes(s)
        /\ ~Does(s, "claim")'
    BY <1>1 DEF Does, Writes
  <2>2. \A p \in taken[s] : Matches(request[s], p)'
    BY <1>1, <1>2, <1>3 DEF Current, Matches, Lapsed, TooOld, InStatus
  <2>3. /\ Does(s, "create") => status'[request[s].row] = Absent
        /\ Does(s, "revise") => /\ status'[request[s].row] # Absent
                                /\ \A t \in DOMAIN request[s].files : GroupOf(t) = name'[request[s].row]
    BY <1>2, <1>3 DEF Current
  <2>4. Does(s, "revise") => request[s].row \in taken[s]
    BY <1>1, <1>2 DEF InOrder
  <2>5. \A t \in DOMAIN request[s].files : keyLock[Hash[t]] = s
    BY <1>1 DEF Missing
  <2>6. FreeOrRetried(request[s].files, request[s].row)'
    <3>1. FreeOrRetried(request[s].files, request[s].row)
      BY <1>1, FreeTargets
    <3> QED
      BY <1>1, <1>3, <3>1 DEF FreeOrRetried, Open, Retried
  <2> QED
    BY <1>1, <2>1, <2>2, <2>3, <2>4, <2>5, <2>6 DEF Current
<1>5. ASSUME NEW t \in Sessions, t # s PROVE Current(t)'
  <2>1. pick'[t] = pick[t]
    BY <1>1, <1>2, <1>5
  <2> QED
    BY <1>1, <2>1, OthersStill
<1> QED
  BY <1>1, <1>4, <1>5 DEF GuardInv, Reserved, Does

LEMMA PickCurrent ==
  ASSUME GuardInv, NEW s \in Sessions, Pick(s)
  PROVE  Reserved' /\ \A t \in Sessions : Current(t)'
<1>1. PICK p \in Claimable(s) : /\ pick' = [pick EXCEPT ![s] = p]
                                /\ rowLock' = [rowLock EXCEPT ![p] = s]
  BY DEF Pick
<1>2. /\ UNCHANGED <<vars, request, want, taken, keyLock>>
      /\ Does(s, "claim") /\ p \in InStatus("approved") \cup taken[s] /\ rowLock[p] \in {NULL, s}
  BY <1>1 DEF Pick, Claimable
<1>3. /\ Current(s) /\ DOMAIN pick = Sessions /\ taken[s] \subseteq Proposals
      /\ rowLock \in [Proposals -> Sessions \cup {NULL}]
  BY DEF GuardInv, LockInv, LockTypes
<1>4. p \in Proposals
  BY <1>2, <1>3 DEF InStatus
<1>5. UNCHANGED <<status, name, files, log, lease, old>>
  BY <1>2 DEF vars
<1>6. Current(s)'
  <2>1. Does(s, "claim")' /\ ~Does(s, "create")' /\ ~Does(s, "revise")' /\ ~Writes(s)'
    BY <1>2 DEF Does, Writes
  <2>2. \A q \in taken[s] : Matches(request[s], q)'
    BY <1>2, <1>3, <1>5 DEF Current, Matches, Lapsed, TooOld, InStatus
  <2>3. pick'[s] = p /\ rowLock'[p] = s /\ p \in InStatus("approved")' \cup taken[s]
    BY <1>1, <1>2, <1>3, <1>4, <1>5 DEF InStatus
  <2> QED
    BY <1>2, <2>1, <2>2, <2>3 DEF Current
<1>7. ASSUME NEW t \in Sessions, t # s PROVE Current(t)'
  <2>1. pick'[t] = pick[t] /\ \A q \in Proposals : rowLock[q] = t => rowLock'[q] = t
    BY <1>1, <1>2, <1>3, <1>7, GuardAssumption
  <2> QED
    BY <1>2, <2>1, OthersStill
<1> QED
  BY <1>2, <1>6, <1>7 DEF GuardInv, Reserved, Does

\* A session without a transaction has found nothing.
LEMMA ReleaseCurrent ==
  ASSUME GuardInv, NEW s \in Sessions, Release(s)
  PROVE  Reserved' /\ Current(s)'
<1>1. request' = [request EXCEPT ![s] = Idle] /\ taken'[s] = {} /\ pick'[s] = NULL
      /\ DOMAIN request = Sessions
  BY DEF Release, GuardInv, LockInv, LockTypes
<1>2. Current(s)'
  BY <1>1 DEF Current, Does, Idle
<1>3. Reserved'
  BY <1>1 DEF GuardInv, Reserved, Does, Idle
<1> QED
  BY <1>2, <1>3

LEMMA RollbackCurrent ==
  ASSUME GuardInv, NEW s \in Sessions, Rollback(s)
  PROVE  Reserved' /\ \A t \in Sessions : Current(t)'
<1>1. UNCHANGED vars /\ Release(s)
  BY DEF Rollback
<1>2. ASSUME NEW t \in Sessions, t # s PROVE Current(t)'
  <2>1. /\ request'[t] = request[t] /\ taken'[t] = taken[t] /\ pick'[t] = pick[t]
        /\ \A p \in Proposals : rowLock[p] = t => rowLock'[p] = t
        /\ \A k \in Hashes : keyLock[k] = t => keyLock'[k] = t
    BY <1>1, <1>2 DEF GuardInv, LockInv, LockTypes, Release
  <2> QED
    BY <1>1, <2>1, OthersStill
<1> QED
  BY <1>1, <1>2, ReleaseCurrent

\* Steps of the guarded transactions are steps of the database or leave it alone.
LEMMA GuardStores ==
  ASSUME GuardInv, [GuardNext]_<<vars, lockVars>>
  PROVE  [StoreStep]_vars
<1>1. Time => StoreStep
  BY DEF Time, StoreStep, FilesStay, Quiet
<1>2. ASSUME NEW s \in Sessions, Session(s) PROVE [StoreStep]_vars
  BY <1>2, CommitIsStoreStep DEF Session, Begin, LockRow, LockKey, Check, Pick, Rollback
<1> QED
  BY <1>1, <1>2 DEF GuardNext

LEMMA GuardInvNext == GuardInv /\ [GuardNext]_<<vars, lockVars>> => GuardInv'
<1> SUFFICES ASSUME GuardInv, [GuardNext]_<<vars, lockVars>> PROVE GuardInv'
  OBVIOUS
<1>1. TypeInv' /\ LockInv'
  BY GuardStores, StoreType, LockNext DEF GuardInv
<1>2. CASE UNCHANGED <<vars, lockVars>>
  <2>1. \A t \in Sessions : Current(t)'
    BY <1>2, OthersStill DEF lockVars
  <2> QED
    BY <1>1, <1>2, <2>1 DEF GuardInv, Reserved, Does, lockVars
<1>3. CASE Time
  <2>1. \A t \in Sessions : Current(t)'
    BY <1>3, TimeKeeps
  <2> QED
    BY <1>1, <1>3, <2>1 DEF GuardInv, Reserved, Does, Time, lockVars
<1>4. ASSUME NEW s \in Sessions, Session(s)
      PROVE  Reserved' /\ \A t \in Sessions : Current(t)'
  <2>1. CASE \E r \in Requests : Begin(s, r)
    BY <2>1, BeginCurrent
  <2>2. CASE LockRow(s)
    BY <2>2, LockRowCurrent
  <2>3. CASE LockKey(s)
    BY <2>3, LockKeyCurrent
  <2>4. CASE Check(s)
    BY <2>4, CheckCurrent
  <2>5. CASE Pick(s)
    BY <2>5, PickCurrent
  <2>6. CASE Commit(s)
    BY <2>6, CommitKeepsOthers, ReleaseCurrent DEF Commit
  <2>7. CASE Rollback(s)
    BY <2>7, RollbackCurrent
  <2> QED
    BY <1>4, <2>1, <2>2, <2>3, <2>4, <2>5, <2>6, <2>7 DEF Session
<1> QED
  BY <1>1, <1>2, <1>3, <1>4 DEF GuardNext, GuardInv

-----------------------------------------------------------------------------
(***************************************************************************)
(* The properties of ProposalStore under the interleaved transactions.     *)
(***************************************************************************)
LEMMA SharedTargetGuarded ==
  ASSUME GuardInv, SharedTargetOnlyByRetry, [GuardNext]_<<vars, lockVars>>
  PROVE  SharedTargetOnlyByRetry'
<1>1. TypeInv
  BY DEF GuardInv
<1>2. CASE FilesStay
  BY <1>1, <1>2, SharedTargetOther
<1>3. CASE UNCHANGED vars
  BY <1>2, <1>3 DEF FilesStay, Quiet
<1>4. ASSUME NEW s \in Sessions, Commit(s) PROVE SharedTargetOnlyByRetry'
  <2>1. Writes(s) /\ pick[s] # NULL => FreeOrRetried(request[s].files, request[s].row)
    BY DEF GuardInv, Current
  <2> QED
    BY <1>1, <1>2, <1>4, <2>1, CommitStores, SharedTargetCreate, SharedTargetRevise DEF Writes
<1>5. CASE Time
  BY <1>2, <1>5 DEF Time, FilesStay, Quiet
<1> QED
  BY <1>3, <1>4, <1>5 DEF GuardNext, Session, Begin, LockRow, LockKey, Check, Pick, Rollback

\* However the statements of several transactions interleave, two open proposals
\* share a target only if one of them was retried: the advisory locks make the check
\* of create and revise hold until they commit.
THEOREM GuardedTargets == GuardSpec => []SharedTargetOnlyByRetry
<1>1. GuardInit => SharedTargetOnlyByRetry
  BY DEF GuardInit, Init, SharedTargetOnlyByRetry, Open, OpenStatuses, Absent
<1> QED
  BY <1>1, GuardInitInv, GuardInvNext, SharedTargetGuarded, PTL DEF GuardSpec

\* The events of a proposal are its complete history along the allowed moves, though
\* a transaction decides on a row it has read before others wrote it: it looks again
\* once it has the lock.
THEOREM GuardedHistory == GuardSpec => []LogIsHistory
<1>1. GuardInit => LogIsHistory
  BY DEF GuardInit, Init, LogIsHistory, History
<1>2. GuardInv => TypeInv
  BY DEF GuardInv
<1> QED
  BY <1>1, <1>2, GuardInitInv, GuardInvNext, GuardStores, HistoryNext, PTL DEF GuardSpec

\* No interleaving of transactions changes the files of a decided proposal, or the
\* status, the commit, the time of the decision or the events of one that is applied,
\* rejected or expired.
THEOREM GuardedFrozen == GuardSpec => DecidedIsFrozen
<1>1. TypeInv /\ [StoreStep]_vars =>
        [\A p \in Proposals :
           /\ status[p] \notin {Absent, "pending"} => files'[p] = files[p]
           /\ status[p] \in FinalStatuses =>
                /\ status'[p] = status[p]
                /\ appliedSha'[p] = appliedSha[p]
                /\ decidedAt'[p] = decidedAt[p]
                /\ log'[p] = log[p]]_vars
  BY FrozenStep
<1>2. GuardInv => TypeInv
  BY DEF GuardInv
<1> QED
  BY <1>1, <1>2, GuardInitInv, GuardInvNext, GuardStores, PTL DEF GuardSpec, DecidedIsFrozen

\* Claimer, lease, error, commit and rejection of a proposal agree with its status at
\* every commit, though a transaction's first statement saw the row before it was locked.
THEOREM GuardedColumns == GuardSpec => []ColumnsMatchStatus
<1>1. GuardInit => ColumnsMatchStatus
  BY DEF GuardInit, Init, ColumnsMatchStatus, Absent
<1>2. TypeInv /\ ColumnsMatchStatus /\ [StoreStep]_vars => ColumnsMatchStatus'
  <2> SUFFICES ASSUME TypeInv, ColumnsMatchStatus, [StoreStep]_vars, NEW q \in Proposals
               PROVE  RowMatches(q)'
    BY DEF ColumnsMatchStatus, RowMatches
  <2> QED
    BY ColumnsNext
<1>3. GuardInv => TypeInv
  BY DEF GuardInv
<1> QED
  BY <1>1, <1>2, <1>3, GuardInitInv, GuardInvNext, GuardStores, PTL DEF GuardSpec

\* Claims of several connections at once leave a running lease alone.
THEOREM GuardedLeases == GuardSpec => LeaseProtectsClaim
<1>1. TypeInv /\ ColumnsMatchStatus /\ [StoreStep]_vars =>
        [\A p \in Proposals :
           lease[p] = "running" /\ claimedBy'[p] # claimedBy[p] =>
             status'[p] \in {"applied", "failed"}]_vars
  BY ProtectStep
<1>2. GuardInv => TypeInv
  BY DEF GuardInv
<1> QED
  BY <1>1, <1>2, GuardInitInv, GuardInvNext, GuardStores, GuardedColumns, PTL
     DEF GuardSpec, LeaseProtectsClaim

\* The interleaved transactions implement the documented status machine.
THEOREM GuardedRefinement == GuardSpec => ImplementsStatusMachine
<1>1. GuardInit => Machine!Init
  BY DEF GuardInit, Init, Machine!Init, Machine!Absent, Absent
<1>2. TypeInv /\ TypeInv' /\ [StoreStep]_vars => [Machine!Next]_status
  <2> SUFFICES ASSUME TypeInv, TypeInv', [StoreStep]_vars
               PROVE  [Machine!Next]_status
    OBVIOUS
  <2>1. DOMAIN status' = Proposals
    BY DEF TypeInv, TypeOK
  <2> QED
    BY <2>1, MoveStep DEF Machine!Next
<1>3. GuardInv => TypeInv
  BY DEF GuardInv
<1> QED
  BY <1>1, <1>2, <1>3, GuardInitInv, GuardInvNext, GuardStores, PTL
     DEF GuardSpec, ImplementsStatusMachine, Machine!Spec
=============================================================================
