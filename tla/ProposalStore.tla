---------------------------- MODULE ProposalStore ----------------------------
(***************************************************************************)
(* The pipeline's state database: the tables proposal, proposal_file,      *)
(* proposal_event and rejection, and one action per operation of the       *)
(* pipeline service that changes them (internal/pipeline/service.go over   *)
(* internal/pipeline/postgres/repository.go).  An action is one committed  *)
(* database transaction; a request that the code turns down leaves the     *)
(* tables as they were and is no step.                                     *)
(*                                                                         *)
(* Time appears as its two effects: a running lease may run out and a      *)
(* pending proposal may grow old enough to be expired.                     *)
(***************************************************************************)
EXTENDS Targets, ProposalStatus, Integers, FiniteSets

CONSTANTS
  Proposals,   \* ids of the proposal rows
  Paths,       \* target paths a request may name, allowed or not
  Contents,    \* contents a request may carry
  Secrets,     \* those the secret scan refuses
  Workers,     \* names of the workers that claim
  Shas,        \* commit ids a worker may report
  Rejectable,  \* kind and name of the rejections added by hand
  MaxRevisions,\* bound: how often a pending proposal is revised
  MaxEvents,   \* bound: the environment leaves a proposal with this many events alone
  NULL         \* SQL NULL

ASSUME ConstantsAssumption ==
  /\ Secrets \subseteq Contents
  /\ Rejectable \subseteq Kinds \X {GroupOf(t) : t \in Paths}
  /\ MaxEvents \in Nat
  /\ MaxRevisions \in Nat
  /\ NULL \notin Workers \cup Shas
  /\ IsFiniteSet(Workers) /\ IsFiniteSet(Proposals)

VARIABLES
  status,      \* [Proposals -> status of the row, Absent if there is none]
  kind, name,  \* [Proposals -> kind and name of the row, set when it is created]
  files,       \* [Proposals -> its files, a map from target path to content]
  decidedAt,   \* [Proposals -> time of its last decision or retry]
  claimedBy,   \* [Proposals -> worker that holds it, or NULL]
  lease,       \* [Proposals -> claimed_until: "none", "running" or already "over"]
  appliedSha,  \* [Proposals -> the commit reported for it, or NULL]
  error,       \* [Proposals -> whether the error column is set]
  old,         \* the proposals created longer ago than the expiry age
  log,         \* [Proposals -> its proposal_event rows in order]
  rejections,  \* the (kind, name) keys of the rejection table
  now          \* counts the decisions: the clock decidedAt is read from

vars == <<status, kind, name, files, decidedAt, claimedBy, lease, appliedSha,
          error, old, log, rejections, now>>

\* Mutant of Event: the two status columns are swapped.
EventSwapped(from, to, actor) == [from |-> to, to |-> from, actor |-> actor]

Event(from, to, actor) == [from |-> from, to |-> to, actor |-> actor]

Actors == Workers \cup {"flow", "reviewer", "expirer", "lease-expired"}

Events == [from : Statuses \cup {Absent}, to : Statuses, actor : Actors]

FileMaps == UNION {[S -> Contents] : S \in SUBSET Paths}

TypeOK ==
  /\ status \in [Proposals -> Statuses \cup {Absent}]
  /\ kind \in [Proposals -> Kinds \cup {NULL}]
  /\ name \in [Proposals -> {GroupOf(t) : t \in Paths} \cup {NULL}]
  /\ files \in [Proposals -> FileMaps]
  /\ decidedAt \in [Proposals -> Nat]
  /\ claimedBy \in [Proposals -> Workers \cup {NULL}]
  /\ lease \in [Proposals -> {"none", "running", "over"}]
  /\ appliedSha \in [Proposals -> Shas \cup {NULL}]
  /\ error \in [Proposals -> BOOLEAN]
  /\ old \subseteq Proposals
  /\ log \in [Proposals -> Seq(Events)]
  /\ rejections \subseteq Kinds \X {GroupOf(t) : t \in Paths}
  /\ now \in Nat

NoFiles == [t \in {} |-> NULL]

Init ==
  /\ status = [p \in Proposals |-> Absent]
  /\ kind = [p \in Proposals |-> NULL]
  /\ name = [p \in Proposals |-> NULL]
  /\ files = [p \in Proposals |-> NoFiles]
  /\ decidedAt = [p \in Proposals |-> 0]
  /\ claimedBy = [p \in Proposals |-> NULL]
  /\ lease = [p \in Proposals |-> "none"]
  /\ appliedSha = [p \in Proposals |-> NULL]
  /\ error = [p \in Proposals |-> FALSE]
  /\ old = {}
  /\ log = [p \in Proposals |-> <<>>]
  /\ rejections = {}
  /\ now = 0

-----------------------------------------------------------------------------
\* Mutant of InStatus: a query for approved rows that takes undecided ones too.
InStatusOrPending(s) ==
  {p \in Proposals : status[p] = s \/ (s = "approved" /\ status[p] = "pending")}

InStatus(s) == {p \in Proposals : status[p] = s}

\* The service's validation of the files of a request.
ValidFiles(F) ==
  /\ DOMAIN F # {}
  /\ \A t \in DOMAIN F : ValidateTarget(t) /\ F[t] \notin Secrets
  /\ \A s, t \in DOMAIN F : GroupOf(s) = GroupOf(t)

\* Mutant of TargetsFree: only pending proposals are looked at.
TargetsFreeOfPending(F, self) ==
  \A q \in Proposals \ {self} :
    status[q] = "pending" => DOMAIN files[q] \cap DOMAIN F = {}

\* No other open proposal targets one of the paths.
TargetsFree(F, self) ==
  \A q \in Proposals \ {self} :
    status[q] \in OpenStatuses => DOMAIN files[q] \cap DOMAIN F = {}

\* Mutants of Revisable: the new files are not validated; the status is not asked.
RevisableUnchecked(p, F) ==
  /\ status[p] = "pending"
  /\ TargetsFree(F, p)

RevisableDecided(p, F) ==
  /\ ValidFiles(F)
  /\ status[p] # Absent
  /\ \A t \in DOMAIN F : GroupOf(t) = name[p]
  /\ TargetsFree(F, p)

\* A revision needs valid files, a proposal that is still pending, the group the
\* proposal was created for, and free targets.
Revisable(p, F) ==
  /\ ValidFiles(F)
  /\ status[p] = "pending"
  /\ \A t \in DOMAIN F : GroupOf(t) = name[p]
  /\ TargetsFree(F, p)

\* Mutant of ErrorAfter: a retry keeps the error of the failed attempt.
ErrorKept(p, from, to) == to = "failed" \/ error[p]

\* The error column after a transition: a failure sets it, a retry clears it.
ErrorAfter(p, from, to) ==
  to = "failed" \/ (error[p] /\ ~(from = "failed" /\ to = "approved"))

\* Mutant of Lapsed: no row is taken back.
LapsedNever == {}

\* The rows a claim takes back because claimed_until has passed.
Lapsed == {p \in InStatus("applying") : lease[p] = "over"}

\* No row among these was decided before p.
FirstDecided(p, rows) == \A q \in rows : decidedAt[p] <= decidedAt[q]

\* Mutant of TooOld: whatever is still open expires.
TooOldAndOpen == {p \in old : status[p] \in OpenStatuses}

\* The rows the expiry takes.
TooOld == InStatus("pending") \cap old

\* Insert the proposal, its files and its first event.  Kind and name come from
\* the first file of the request.
InsertProposal(p, F, first) ==
  /\ status' = [status EXCEPT ![p] = "pending"]
  /\ kind' = [kind EXCEPT ![p] = KindOf(first)]
  /\ name' = [name EXCEPT ![p] = GroupOf(first)]
  /\ files' = [files EXCEPT ![p] = F]
  /\ log' = [log EXCEPT ![p] = Append(@, Event(Absent, "pending", "flow"))]
  /\ UNCHANGED <<decidedAt, claimedBy, lease, appliedSha, error, old, rejections, now>>

Create(p, F, first) ==
  /\ status[p] = Absent
  /\ ValidFiles(F)
  /\ first \in DOMAIN F
  /\ TargetsFree(F, p)
  /\ InsertProposal(p, F, first)

\* The name must stay, the kind is not looked at.
ReplaceFiles(p, F) ==
  /\ files' = [files EXCEPT ![p] = F]
  /\ log' = [log EXCEPT ![p] = Append(@, Event("pending", "pending", "reviewer"))]
  /\ UNCHANGED <<status, kind, name, decidedAt, claimedBy, lease, appliedSha,
                 error, old, rejections, now>>

Revise(p, F) ==
  /\ Revisable(p, F)
  /\ ReplaceFiles(p, F)

\* The guarded UPDATE every decision, retry and mark goes through: the row must
\* be in status from, and the columns that belong to status to are set.
Transition(p, from, to, actor, sha) ==
  /\ CanTransition(from, to)
  /\ status[p] = from
  /\ status' = [status EXCEPT ![p] = to]
  /\ IF to \in {"approved", "rejected"}
       THEN decidedAt' = [decidedAt EXCEPT ![p] = now + 1] /\ now' = now + 1
       ELSE UNCHANGED <<decidedAt, now>>
  /\ claimedBy' = [claimedBy EXCEPT ![p] = IF to = "applying" THEN actor ELSE NULL]
  /\ lease' = [lease EXCEPT ![p] = IF to = "applying" THEN "running" ELSE "none"]
  /\ appliedSha' = [appliedSha EXCEPT ![p] = IF to = "applied" THEN sha ELSE @]
  /\ error' = [error EXCEPT ![p] = ErrorAfter(p, from, to)]
  /\ log' = [log EXCEPT ![p] = Append(@, Event(from, to, actor))]
  /\ rejections' = IF to = "rejected" THEN rejections \cup {<<kind[p], name[p]>>}
                                      ELSE rejections
  /\ UNCHANGED <<kind, name, files, old>>

Approve(p) == Transition(p, "pending", "approved", "reviewer", NULL)
Reject(p)  == Transition(p, "pending", "rejected", "reviewer", NULL)
Retry(p)   == Transition(p, "failed", "approved", "reviewer", NULL)

\* The API takes a mark from any worker: whether it is the one that holds the
\* claim is not asked.
MarkApplied(p, w, sha) == Transition(p, "applying", "applied", w, sha)
MarkFailed(p, w)       == Transition(p, "applying", "failed", w, NULL)

\* The rows in taken go back to approved because their lease is over, and p
\* becomes w's.
TakeClaim(w, p, taken) ==
  LET reset(f, value) == [q \in Proposals |-> IF q \in taken THEN value ELSE f[q]]
      resetLog == [q \in Proposals |->
                     IF q \in taken
                     THEN Append(log[q], Event("applying", "approved", "lease-expired"))
                     ELSE log[q]]
  IN /\ status' = [reset(status, "approved") EXCEPT ![p] = "applying"]
     /\ claimedBy' = [reset(claimedBy, NULL) EXCEPT ![p] = w]
     /\ lease' = [reset(lease, "none") EXCEPT ![p] = "running"]
     /\ log' = [resetLog EXCEPT ![p] = Append(@, Event("approved", "applying", w))]
     /\ UNCHANGED <<kind, name, files, decidedAt, appliedSha, error, old, rejections, now>>

\* One transaction: of the approved rows and those taken back, the one decided
\* first is claimed.  Rows in held are locked by other transactions in flight and
\* are skipped: another claim locks one, and so does a revision, which looks at the
\* status only when it has the row.  Ids that tie are in no particular order.
Claim(w, p, held) ==
  LET approved == InStatus("approved") \cup Lapsed
  IN /\ held \subseteq InStatus("approved") \ {p}
     /\ p \in approved
     /\ FirstDecided(p, approved \ held)
     /\ TakeClaim(w, p, Lapsed)

ExpireRows(rows) ==
  /\ status' = [q \in Proposals |-> IF q \in rows THEN "expired" ELSE status[q]]
  /\ log' = [q \in Proposals |->
               IF q \in rows
               THEN Append(log[q], Event("pending", "expired", "expirer"))
               ELSE log[q]]
  /\ UNCHANGED <<kind, name, files, decidedAt, claimedBy, lease, appliedSha,
                 error, old, rejections, now>>

\* One statement: every pending proposal that is old enough becomes expired.
Expire == TooOld # {} /\ ExpireRows(TooOld)

AddRejection(key) ==
  /\ rejections' = rejections \cup {key}
  /\ UNCHANGED <<status, kind, name, files, decidedAt, claimedBy, lease,
                 appliedSha, error, old, log, now>>

\* claimed_until passes.
LeaseRunsOut(p) ==
  /\ lease[p] = "running"
  /\ lease' = [lease EXCEPT ![p] = "over"]
  /\ UNCHANGED <<status, kind, name, files, decidedAt, claimedBy, appliedSha,
                 error, old, log, rejections, now>>

\* created_at falls behind the expiry age.
GrowsOld(p) ==
  /\ status[p] = "pending" /\ p \notin old
  /\ old' = old \cup {p}
  /\ UNCHANGED <<status, kind, name, files, decidedAt, claimedBy, lease,
                 appliedSha, error, log, rejections, now>>

\* Bounds of the environment: a decision, a retry and the end of a lease happen
\* only while the proposal's log has room for them, a revision only near its
\* beginning.  What the workers and the expiry do never waits.
Room(p) == Len(log[p]) < MaxEvents
RevisionRoom(p) == Len(log[p]) <= MaxRevisions

Next ==
  \/ \E p \in Proposals, F \in FileMaps : \E first \in DOMAIN F : Create(p, F, first)
  \/ \E p \in Proposals, F \in FileMaps : RevisionRoom(p) /\ Revise(p, F)
  \/ \E p \in Proposals : Room(p) /\ Approve(p)
  \/ \E p \in Proposals : Room(p) /\ Reject(p)
  \/ \E p \in Proposals : Room(p) /\ Retry(p)
  \/ \E p \in Proposals, w \in Workers, sha \in Shas : MarkApplied(p, w, sha)
  \/ \E p \in Proposals, w \in Workers : MarkFailed(p, w)
  \/ \E p \in Proposals, w \in Workers, held \in SUBSET Proposals : Claim(w, p, held)
  \/ Expire
  \/ \E key \in Rejectable : AddRejection(key)
  \/ \E p \in Proposals : Room(p) /\ LeaseRunsOut(p)
  \/ \E p \in Proposals : GrowsOld(p)

Spec == Init /\ [][Next]_vars

-----------------------------------------------------------------------------
Open(p) == status[p] \in OpenStatuses

Retried(p) == \E i \in DOMAIN log[p] : log[p][i].from = "failed"

\* The events begin with the creation, each continues where the one before
\* ended, and every one is an allowed move or a revision; the last ends in last.
History(events, last) ==
  /\ events = <<>> <=> last = Absent
  /\ events # <<>> => events[Len(events)].to = last
  /\ \A i \in DOMAIN events :
       LET e == events[i]
       IN IF i = 1 THEN e.from = Absent /\ e.to = "pending"
          ELSE /\ e.from = events[i - 1].to
               /\ \/ CanTransition(e.from, e.to)
                  \/ e.from = "pending" /\ e.to = "pending"

\* The events of a proposal tell its whole history up to its present status.
\* Claim, lease reset and expiry write status and events by SQL of their own
\* that never asks CanTransition.
LogIsHistory == \A p \in Proposals : History(log[p], status[p])

\* The columns of a row agree with its status and its history: it has a claimer
\* and a lease exactly while it is applying and the claimer is the worker the
\* last event names, an error exactly while it has failed, a commit exactly when
\* it is applied, and a rejected proposal's kind and name are in the rejections.
ColumnsMatchStatus ==
  \A p \in Proposals :
    /\ status[p] = "applying" <=> claimedBy[p] # NULL
    /\ status[p] = "applying" <=> lease[p] # "none"
    /\ status[p] = "applying" => claimedBy[p] = log[p][Len(log[p])].actor
    /\ error[p] <=> status[p] = "failed"
    /\ appliedSha[p] # NULL <=> status[p] = "applied"
    /\ status[p] = "rejected" => <<kind[p], name[p]>> \in rejections

\* Every stored proposal can be applied: it has files, all in its group and all
\* in places the pipeline may write, whatever revisions it went through.
StoredFilesValid ==
  \A p \in Proposals : status[p] # Absent =>
    /\ ValidFiles(files[p])
    /\ \A t \in DOMAIN files[p] : GroupOf(t) = name[p]

\* Two open proposals never target the same path unless one of them was retried
\* after a failure: create and revise check all open proposals, retry does not.
SharedTargetOnlyByRetry ==
  \A p, q \in Proposals :
    /\ p # q /\ Open(p) /\ Open(q)
    /\ DOMAIN files[p] \cap DOMAIN files[q] # {}
    => Retried(p) \/ Retried(q)

\* "At most one open proposal per target path."
OneOpenPerTarget ==
  \A p, q \in Proposals :
    p # q /\ Open(p) /\ Open(q) => DOMAIN files[p] \cap DOMAIN files[q] = {}

\* Once a proposal has been decided or expired its files never change, and one
\* that is applied, rejected or expired keeps its status, the time of its decision,
\* its commit and its events.
DecidedIsFrozen ==
  [][\A p \in Proposals :
       /\ status[p] \notin {Absent, "pending"} => files'[p] = files[p]
       /\ status[p] \in FinalStatuses =>
            /\ status'[p] = status[p]
            /\ appliedSha'[p] = appliedSha[p]
            /\ decidedAt'[p] = decidedAt[p]
            /\ log'[p] = log[p]]_vars

\* While its lease runs a claimed proposal is not claimed again: it leaves its
\* claimer only by a mark.
LeaseProtectsClaim ==
  [][\A p \in Proposals :
       lease[p] = "running" /\ claimedBy'[p] # claimedBy[p] =>
         status'[p] \in {"applied", "failed"}]_vars

\* The store implements the documented status machine.
Machine == INSTANCE StatusMachine
ImplementsStatusMachine == Machine!Spec
=============================================================================
