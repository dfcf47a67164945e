----------------------------- MODULE TargetGuard -----------------------------
(***************************************************************************)
(* The transactions of ProposalStore taken apart into their statements     *)
(* (internal/pipeline/postgres/repository.go), with the locks that keep    *)
(* several of them apart when connections run them at the same time:       *)
(* PostgreSQL's row locks and, for create and revise, an advisory lock per *)
(* target path (guardTargets).                                             *)
(*                                                                         *)
(* Under READ COMMITTED a statement sees what is committed when it begins  *)
(* and, where it had to wait for the lock on a row, looks at that row      *)
(* again.  What a transaction writes shows to the others when it commits,  *)
(* which is when its effect, that of ProposalStore, is applied here.  A    *)
(* statement takes its locks one by one, those on rows in an order that is *)
(* the same for all.  The rejection key of a reject is taken last and by   *)
(* no one who waits for anything more; it is left out.                     *)
(***************************************************************************)
EXTENDS ProposalStore, FiniteSetsExt

CONSTANTS
  Sessions, \* database connections
  Hash,     \* [Paths -> hash of the path, which is the key of its advisory lock]
  MaxLogged \* bound: events in all, those that transactions are about to add included

ASSUME GuardAssumption ==
  /\ IsFiniteSet(Sessions)
  /\ Proposals \subseteq Nat
  /\ Hash \in [Paths -> Nat]
  /\ MaxLogged \in Nat
  /\ NULL \notin Sessions \cup Proposals

VARIABLES
  request, \* [Sessions -> what its transaction has to do, or Idle]
  want,    \* [Sessions -> rows its statement has found and not come to yet]
  taken,   \* [Sessions -> rows it has locked and found as they should be]
  pick,    \* [Sessions -> the row it is free to write after its last check, or NULL]
  rowLock, \* [Proposals -> session that has the row's lock, or NULL]
  keyLock  \* [hashes -> session that has the advisory lock, or NULL]

lockVars == <<request, want, taken, pick, rowLock, keyLock>>

Hashes == {Hash[t] : t \in Paths}

\* No transaction.
Idle == [op |-> "none"]

GuardInit ==
  /\ Init
  /\ request = [s \in Sessions |-> Idle]
  /\ want = [s \in Sessions |-> {}]
  /\ taken = [s \in Sessions |-> {}]
  /\ pick = [s \in Sessions |-> NULL]
  /\ rowLock = [p \in Proposals |-> NULL]
  /\ keyLock = [k \in Hashes |-> NULL]

Does(s, op) == request[s].op = op

-----------------------------------------------------------------------------
\* The service has looked at the files, and for a revision at the row's name, before
\* the transaction begins.  Ids stand for places in the table: a row is new and
\* comes after those that are there.
InUse(p) == status[p] # Absent \/ \E s \in Sessions : Does(s, "create") /\ request[s].row = p

CreateRequests ==
  {[op |-> "create", row |-> p, files |-> F] :
     p \in {q \in Proposals : ~InUse(q) /\ \A r \in Proposals : r < q => InUse(r)},
     F \in {G \in FileMaps : ValidFiles(G)}}

ReviseRequests ==
  UNION {{[op |-> "revise", row |-> p, files |-> F] :
            F \in {G \in FileMaps : ValidFiles(G) /\ \A t \in DOMAIN G : GroupOf(t) = name[p]}} :
           p \in {q \in InStatus("pending") : RevisionRoom(q)}}

Move(p, from, to, actor, sha) ==
  [op |-> "move", row |-> p, from |-> from, to |-> to, actor |-> actor, sha |-> sha]

MoveRequests ==
  {r \in {Move(p, from, "approved", "reviewer", NULL) :
            p \in {q \in Proposals : Room(q)}, from \in {"pending", "failed"}}
         \cup {Move(p, "pending", "rejected", "reviewer", NULL) : p \in {q \in Proposals : Room(q)}}
         \cup {Move(p, "applying", "applied", w, sha) :
                 p \in Proposals, w \in Workers, sha \in Shas}
         \cup {Move(p, "applying", "failed", w, NULL) : p \in Proposals, w \in Workers} :
     status[r.row] = r.from}

Requests ==
  CreateRequests \cup ReviseRequests \cup MoveRequests
    \cup {[op |-> "claim", worker |-> w] : w \in Workers} \cup {[op |-> "expire"]}

\* The rows its first statement finds.
Found(r) ==
  CASE r.op = "create" -> {}
    [] r.op \in {"revise", "move"} -> {r.row}
    [] r.op = "claim" -> Lapsed
    [] r.op = "expire" -> TooOld

\* Mutant of Matches: the row is not looked at again.
MatchesStill(r, p) == TRUE

\* Whether a row still is what the statement looks for once it has the lock.
Matches(r, p) ==
  CASE r.op = "revise" -> status[p] = "pending"
    [] r.op = "move" -> status[p] = r.from
    [] r.op = "claim" -> p \in Lapsed
    [] r.op = "expire" -> p \in TooOld

Running == {s \in Sessions : request[s] # Idle}
Logged  == FoldSet(LAMBDA p, n : n + Len(log[p]), 0, Proposals)

Begin(s, r) ==
  /\ Logged + Cardinality(Running) < MaxLogged
  /\ request[s] = Idle
  /\ request' = [request EXCEPT ![s] = r]
  /\ want' = [want EXCEPT ![s] = Found(r)]
  /\ UNCHANGED <<vars, taken, pick, rowLock, keyLock>>

NextRow(s) == CHOOSE p \in want[s] : \A q \in want[s] : p <= q

\* A row that does not match any more stays locked but is passed over.
LockRow(s) ==
  /\ want[s] # {}
  /\ rowLock[NextRow(s)] = NULL
  /\ rowLock' = [rowLock EXCEPT ![NextRow(s)] = s]
  /\ want' = [want EXCEPT ![s] = @ \ {NextRow(s)}]
  /\ taken' = [taken EXCEPT ![s] = @ \cup {p \in {NextRow(s)} : Matches(request[s], p)}]
  /\ UNCHANGED <<vars, request, pick, keyLock>>

\* Mutant of Guarded: a revision reads the status of its row without FOR UPDATE.
GuardedUnlocked(s) == Does(s, "create") \/ Does(s, "revise")

\* In guardTargets: a revision has its row by then, and it is pending (lockPending).
Guarded(s) ==
  /\ pick[s] = NULL
  /\ Does(s, "create") \/ Does(s, "revise")
  /\ Does(s, "revise") => taken[s] # {}

\* Mutant of Missing: the advisory locks are not taken.
MissingNone(s) == {}

\* Advisory locks a guarded session has yet to take.
Missing(s) == {Hash[t] : t \in {u \in DOMAIN request[s].files : keyLock[Hash[u]] # s}}

\* Mutant of NextKeys: the query takes them in the order of the request.
NextKeysAnyOrder(s) == Missing(s)

\* lockTargetsQuery takes them in the order of their hashes.
NextKeys(s) == {k \in Missing(s) : \A j \in Missing(s) : k <= j}

LockKey(s) ==
  /\ Guarded(s)
  /\ \E k \in NextKeys(s) :
       keyLock[k] = NULL /\ keyLock' = [keyLock EXCEPT ![k] = s]
  /\ UNCHANGED <<vars, request, want, taken, pick, rowLock>>

\* openTargetsQuery finds no open proposal with one of the targets.
Check(s) ==
  /\ Guarded(s) /\ Missing(s) = {}
  /\ TargetsFree(request[s].files, request[s].row)
  /\ pick' = [pick EXCEPT ![s] = request[s].row]
  /\ UNCHANGED <<vars, request, want, taken, rowLock, keyLock>>

\* Mutant of Claimable: without FOR UPDATE SKIP LOCKED.
ClaimableLocked(s) == InStatus("approved") \cup taken[s]

\* SKIP LOCKED: approved rows that no one else has locked, and the lapsed ones.
Claimable(s) ==
  {p \in InStatus("approved") \cup taken[s] : rowLock[p] \in {NULL, s}}

Pick(s) ==
  /\ Does(s, "claim") /\ want[s] = {} /\ pick[s] = NULL
  /\ \E p \in Claimable(s) :
       /\ FirstDecided(p, Claimable(s))
       /\ pick' = [pick EXCEPT ![s] = p]
       /\ rowLock' = [rowLock EXCEPT ![p] = s]
  /\ UNCHANGED <<vars, request, want, taken, keyLock>>

\* The end of a transaction frees its locks.
Release(s) ==
  /\ request' = [request EXCEPT ![s] = Idle]
  /\ want' = [want EXCEPT ![s] = {}]
  /\ taken' = [taken EXCEPT ![s] = {}]
  /\ pick' = [pick EXCEPT ![s] = NULL]
  /\ rowLock' = [p \in Proposals |-> IF rowLock[p] = s THEN NULL ELSE rowLock[p]]
  /\ keyLock' = [k \in Hashes |-> IF keyLock[k] = s THEN NULL ELSE keyLock[k]]

Commit(s) ==
  /\ want[s] = {} \/ pick[s] # NULL
  /\ LET r == request[s]
     IN \/ /\ Does(s, "create") /\ pick[s] # NULL
           /\ \E first \in DOMAIN r.files : InsertProposal(r.row, r.files, first)
        \/ Does(s, "revise") /\ pick[s] # NULL /\ ReplaceFiles(r.row, r.files)
        \/ /\ Does(s, "move") /\ taken[s] # {}
           /\ Transition(r.row, r.from, r.to, r.actor, r.sha)
        \/ Does(s, "claim") /\ pick[s] # NULL /\ TakeClaim(r.worker, pick[s], taken[s])
        \/ Does(s, "expire") /\ ExpireRows(taken[s])
  /\ Release(s)

\* The row is not what it should be, a target is taken, there is nothing to claim, a
\* statement fails or the connection is lost.
Rollback(s) == request[s] # Idle /\ Release(s) /\ UNCHANGED vars

Session(s) ==
  \/ \E r \in Requests : Begin(s, r)
  \/ LockRow(s)
  \/ LockKey(s)
  \/ Check(s)
  \/ Pick(s)
  \/ Commit(s)
  \/ Rollback(s)

Time ==
  /\ \E p \in Proposals : (Room(p) /\ LeaseRunsOut(p)) \/ GrowsOld(p)
  /\ UNCHANGED lockVars

GuardNext == Time \/ \E s \in Sessions : Session(s)

GuardSpec == GuardInit /\ [][GuardNext]_<<vars, lockVars>>

-----------------------------------------------------------------------------
WaitsFor(s, t) ==
  /\ s # t
  /\ \/ want[s] # {} /\ rowLock[NextRow(s)] = t
     \/ Guarded(s) /\ \E k \in NextKeys(s) : keyLock[k] = t

\* No transactions wait for each other in a circle, whatever targets they have in
\* common and however these hash (ORDER BY hashtext in lockTargetsQuery; a revision
\* takes its row before the keys).
NoWaitCycle ==
  ~ \E S \in (SUBSET Sessions) \ {{}} : \A s \in S : \E t \in S : WaitsFor(s, t)
=============================================================================
