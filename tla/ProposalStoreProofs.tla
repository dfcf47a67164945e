------------------------- MODULE ProposalStoreProofs -------------------------
(***************************************************************************)
(* Proofs about the state database, for any sets of proposals, paths,      *)
(* contents and workers and any bounds.                                    *)
(*                                                                         *)
(* The lemmas are about StoreStep, which says what a committed transaction *)
(* does to the rows it writes and to no others, and leaves out the bounds, *)
(* the order of claims and every look at other rows.  Each step of Next is *)
(* one; so are the commits of TargetGuard and the steps of ApplyApproved,  *)
(* so that one set of lemmas serves the three specifications.              *)
(***************************************************************************)
EXTENDS ProposalStore, FiniteSetTheorems, TLAPS

Creates(p, F, first) ==
  /\ status[p] = Absent /\ ValidFiles(F) /\ first \in DOMAIN F
  /\ InsertProposal(p, F, first)

Revises(p, F) ==
  /\ status[p] = "pending" /\ ValidFiles(F)
  /\ \A t \in DOMAIN F : GroupOf(t) = name[p]
  /\ ReplaceFiles(p, F)

Claims(w, p, taken) ==
  /\ taken \subseteq Lapsed
  /\ p \in InStatus("approved") \cup taken
  /\ TakeClaim(w, p, taken)

Expires(rows) == rows \subseteq TooOld /\ ExpireRows(rows)

\* The five operations that are guarded updates.
Transits ==
  \/ \E p \in Proposals : Approve(p)
  \/ \E p \in Proposals : Reject(p)
  \/ \E p \in Proposals : Retry(p)
  \/ \E p \in Proposals, w \in Workers, sha \in Shas : MarkApplied(p, w, sha)
  \/ \E p \in Proposals, w \in Workers : MarkFailed(p, w)

\* The steps that write neither status nor files nor the log.
Quiet ==
  \/ \E key \in Rejectable : AddRejection(key)
  \/ \E p \in Proposals : LeaseRunsOut(p)
  \/ \E p \in Proposals : GrowsOld(p)
  \/ UNCHANGED vars

\* The steps that write no files.
FilesStay ==
  \/ Transits
  \/ \E p \in Proposals, w \in Workers, taken \in SUBSET Proposals : Claims(w, p, taken)
  \/ \E rows \in SUBSET Proposals : Expires(rows)
  \/ Quiet

StoreStep ==
  \/ \E p \in Proposals, F \in FileMaps : \E first \in DOMAIN F : Creates(p, F, first)
  \/ \E p \in Proposals, F \in FileMaps : Revises(p, F)
  \/ FilesStay

\* Every step of the database is a StoreStep, and one that is a create or a revise
\* has found its targets free.
LEMMA NextIsStoreStep ==
  ASSUME [Next]_vars
  PROVE  \/ \E p \in Proposals, F \in FileMaps : \E first \in DOMAIN F :
              Creates(p, F, first) /\ TargetsFree(F, p)
         \/ \E p \in Proposals, F \in FileMaps : Revises(p, F) /\ TargetsFree(F, p)
         \/ FilesStay
<1>1. ASSUME NEW p \in Proposals, NEW F \in FileMaps, NEW first \in DOMAIN F, Create(p, F, first)
      PROVE  Creates(p, F, first) /\ TargetsFree(F, p)
  BY <1>1 DEF Create, Creates
<1>2. ASSUME NEW p \in Proposals, NEW F \in FileMaps, Revise(p, F)
      PROVE  Revises(p, F) /\ TargetsFree(F, p)
  BY <1>2 DEF Revise, Revisable, Revises
<1>3. ASSUME NEW p \in Proposals, NEW w \in Workers, NEW held \in SUBSET Proposals, Claim(w, p, held)
      PROVE  Lapsed \in SUBSET Proposals /\ Claims(w, p, Lapsed)
  BY <1>3 DEF Claim, Claims, Lapsed, InStatus
<1>4. ASSUME Expire PROVE TooOld \in SUBSET Proposals /\ Expires(TooOld)
  BY <1>4 DEF Expire, Expires, TooOld, InStatus
<1>5. CASE \E p \in Proposals, w \in Workers, held \in SUBSET Proposals : Claim(w, p, held)
  BY <1>3, <1>5 DEF FilesStay
<1>6. CASE Expire
  BY <1>4, <1>6 DEF FilesStay
<1>7. CASE \E p \in Proposals, F \in FileMaps : \E first \in DOMAIN F : Create(p, F, first)
  BY <1>1, <1>7
<1>8. CASE \E p \in Proposals, F \in FileMaps : Revise(p, F)
  BY <1>2, <1>8
<1>9. CASE Transits \/ Quiet
  BY <1>9 DEF FilesStay
<1> QED
  BY <1>5, <1>6, <1>7, <1>8, <1>9 DEF Next, Transits, Quiet

LEMMA NextStores == [Next]_vars => [StoreStep]_vars
  BY NextIsStoreStep DEF StoreStep

\* KindOf yields a kind.
LEMMA KindOfType == \A t : KindOf(t) \in Kinds
  BY DEF KindOf, GlobalKind, ProjectKind, Kinds

\* The paths of a file map are paths, so their groups are names.
LEMMA FileMapPaths ==
  ASSUME NEW F \in FileMaps, NEW t \in DOMAIN F
  PROVE  t \in Paths /\ GroupOf(t) \in {GroupOf(s) : s \in Paths}
  BY DEF FileMaps

\* Every row that exists has a kind and a name.
RowsNamed ==
  \A p \in Proposals : status[p] # Absent =>
    kind[p] \in Kinds /\ name[p] \in {GroupOf(t) : t \in Paths}

TypeInv == TypeOK /\ RowsNamed

LEMMA InitType == Init => TypeInv
<1> SUFFICES ASSUME Init PROVE TypeInv
  OBVIOUS
<1>1. NoFiles \in FileMaps
  <2>1. NoFiles \in [{} -> Contents] /\ {} \in SUBSET Paths
    BY DEF NoFiles
  <2> QED
    BY <2>1 DEF FileMaps
<1> QED
  BY <1>1 DEF Init, TypeInv, TypeOK, RowsNamed, Statuses, Absent

\* The log stays a sequence of events when one is appended.
LEMMA AppendType ==
  ASSUME NEW s \in Seq(Events), NEW from \in Statuses \cup {Absent},
         NEW to \in Statuses, NEW actor \in Actors
  PROVE  Append(s, Event(from, to, actor)) \in Seq(Events)
<1>1. Event(from, to, actor) \in Events
  BY DEF Event, Events
<1> QED
  BY <1>1

LEMMA CreateType ==
  ASSUME TypeInv, NEW p \in Proposals, NEW F \in FileMaps, NEW first \in DOMAIN F,
         Creates(p, F, first)
  PROVE  TypeInv'
<1>1. KindOf(first) \in Kinds /\ GroupOf(first) \in {GroupOf(t) : t \in Paths}
  BY KindOfType, FileMapPaths
<1>2. log' \in [Proposals -> Seq(Events)]
  <2>1. Append(log[p], Event(Absent, "pending", "flow")) \in Seq(Events)
    BY AppendType DEF TypeInv, TypeOK, Statuses, Actors
  <2> QED
    BY <2>1 DEF TypeInv, TypeOK, Creates, InsertProposal
<1> QED
  BY <1>1, <1>2 DEF TypeInv, TypeOK, RowsNamed, Creates, InsertProposal, Statuses

LEMMA ReviseType ==
  ASSUME TypeInv, NEW p \in Proposals, NEW F \in FileMaps, Revises(p, F)
  PROVE  TypeInv'
<1>1. log' \in [Proposals -> Seq(Events)]
  <2>1. Append(log[p], Event("pending", "pending", "reviewer")) \in Seq(Events)
    BY AppendType DEF TypeInv, TypeOK, Statuses, Actors
  <2> QED
    BY <2>1 DEF TypeInv, TypeOK, Revises, ReplaceFiles
<1> QED
  BY <1>1 DEF TypeInv, TypeOK, RowsNamed, Revises, ReplaceFiles

LEMMA TransitionType ==
  ASSUME TypeInv, NEW p \in Proposals, NEW from \in Statuses, NEW to \in Statuses,
         NEW actor \in Actors, NEW sha \in Shas \cup {NULL},
         to # "applying" \/ actor \in Workers,
         to = "applied" => sha \in Shas,
         Transition(p, from, to, actor, sha)
  PROVE  TypeInv'
<1>1. log' \in [Proposals -> Seq(Events)]
  <2>1. Append(log[p], Event(from, to, actor)) \in Seq(Events)
    BY AppendType DEF TypeInv, TypeOK
  <2> QED
    BY <2>1 DEF TypeInv, TypeOK, Transition, ErrorAfter
<1>2. status[p] # Absent
  BY DEF Transition, ErrorAfter, Statuses, Absent
<1>3. rejections' \subseteq Kinds \X {GroupOf(t) : t \in Paths}
  BY <1>2 DEF TypeInv, TypeOK, RowsNamed, Transition, ErrorAfter
<1>4. error' \in [Proposals -> BOOLEAN]
  BY DEF TypeInv, TypeOK, Transition, ErrorAfter
<1>5. decidedAt' \in [Proposals -> Nat] /\ now' \in Nat
  BY DEF TypeInv, TypeOK, Transition, ErrorAfter
<1>6. /\ status' \in [Proposals -> Statuses \cup {Absent}]
      /\ claimedBy' \in [Proposals -> Workers \cup {NULL}]
      /\ lease' \in [Proposals -> {"none", "running", "over"}]
      /\ appliedSha' \in [Proposals -> Shas \cup {NULL}]
  BY DEF TypeInv, TypeOK, Transition, ErrorAfter
<1>7. RowsNamed'
  BY <1>2 DEF TypeInv, TypeOK, RowsNamed, Transition, ErrorAfter
<1> QED
  BY <1>1, <1>3, <1>4, <1>5, <1>6, <1>7 DEF TypeInv, TypeOK, Transition, ErrorAfter

LEMMA ClaimType ==
  ASSUME TypeInv, NEW w \in Workers, NEW p \in Proposals, NEW taken \in SUBSET Proposals,
         Claims(w, p, taken)
  PROVE  TypeInv'
<1> DEFINE resetLog == [q \in Proposals |->
                          IF q \in taken
                          THEN Append(log[q], Event("applying", "approved", "lease-expired"))
                          ELSE log[q]]
<1>1. resetLog \in [Proposals -> Seq(Events)]
  <2>1. ASSUME NEW q \in Proposals
        PROVE  Append(log[q], Event("applying", "approved", "lease-expired")) \in Seq(Events)
    BY AppendType DEF TypeInv, TypeOK, Statuses, Actors
  <2>2. ASSUME NEW q \in Proposals PROVE log[q] \in Seq(Events)
    BY DEF TypeInv, TypeOK
  <2> QED
    BY <2>1, <2>2
<1>2. log' \in [Proposals -> Seq(Events)]
  <2>1. log' = [resetLog EXCEPT ![p] = Append(@, Event("approved", "applying", w))]
    BY DEF Claims, TakeClaim, Lapsed
  <2>2. Append(resetLog[p], Event("approved", "applying", w)) \in Seq(Events)
    BY <1>1, AppendType DEF Statuses, Actors
  <2> HIDE DEF resetLog
  <2> QED
    BY <1>1, <2>1, <2>2
<1>3. status' \in [Proposals -> Statuses \cup {Absent}]
  BY DEF TypeInv, TypeOK, Claims, TakeClaim, Lapsed, Statuses
<1>4. claimedBy' \in [Proposals -> Workers \cup {NULL}]
  BY DEF TypeInv, TypeOK, Claims, TakeClaim, Lapsed
<1>5. lease' \in [Proposals -> {"none", "running", "over"}]
  BY DEF TypeInv, TypeOK, Claims, TakeClaim, Lapsed
<1>6. RowsNamed'
  <2>1. \A q \in Proposals : status'[q] # Absent => status[q] # Absent
    BY DEF TypeInv, TypeOK, Claims, TakeClaim, Lapsed, InStatus, Absent, Statuses
  <2> QED
    BY <2>1 DEF TypeInv, RowsNamed, Claims, TakeClaim, Lapsed
<1> QED
  BY <1>2, <1>3, <1>4, <1>5, <1>6 DEF TypeInv, TypeOK, Claims, TakeClaim, Lapsed

LEMMA ExpireType ==
  ASSUME TypeInv, NEW rows \in SUBSET Proposals, Expires(rows)
  PROVE  TypeInv'
<1>1. log' \in [Proposals -> Seq(Events)]
  <2>1. ASSUME NEW q \in Proposals
        PROVE  Append(log[q], Event("pending", "expired", "expirer")) \in Seq(Events)
    BY AppendType DEF TypeInv, TypeOK, Statuses, Actors
  <2>2. ASSUME NEW q \in Proposals PROVE log[q] \in Seq(Events)
    BY DEF TypeInv, TypeOK
  <2> QED
    BY <2>1, <2>2 DEF Expires, ExpireRows, TooOld
<1>2. status' \in [Proposals -> Statuses \cup {Absent}]
  BY DEF TypeInv, TypeOK, Expires, ExpireRows, TooOld, Statuses
<1>3. RowsNamed'
  BY DEF TypeInv, RowsNamed, Expires, ExpireRows, TooOld, InStatus, Absent
<1> QED
  BY <1>1, <1>2, <1>3 DEF TypeInv, TypeOK, Expires, ExpireRows, TooOld

\* The remaining actions touch one variable each.
LEMMA QuietType == TypeInv /\ Quiet => TypeInv'
<1> SUFFICES ASSUME TypeInv, Quiet PROVE TypeInv'
  OBVIOUS
<1>1. CASE \E key \in Rejectable : AddRejection(key)
  BY <1>1, ConstantsAssumption DEF TypeInv, TypeOK, RowsNamed, AddRejection
<1>2. CASE \E p \in Proposals : LeaseRunsOut(p)
  BY <1>2 DEF TypeInv, TypeOK, RowsNamed, LeaseRunsOut
<1>3. CASE \E p \in Proposals : GrowsOld(p)
  BY <1>3 DEF TypeInv, TypeOK, RowsNamed, GrowsOld
<1>4. CASE UNCHANGED vars
  BY <1>4 DEF vars, TypeInv, TypeOK, RowsNamed
<1> QED
  BY <1>1, <1>2, <1>3, <1>4 DEF Quiet

\* Every step of the five operations that are guarded updates is a Transition.
TransitOf(p, from, to, actor, sha) ==
  /\ Transition(p, from, to, actor, sha)
  /\ to # "applying"
  /\ to = "applied" => sha \in Shas
  /\ from = "failed" => Retry(p)
  /\ from = "applying" => to \in {"applied", "failed"}

LEMMA TransitsShape ==
  ASSUME Transits
  PROVE  \E p \in Proposals, from, to \in Statuses, actor \in Actors, sha \in Shas \cup {NULL} :
           TransitOf(p, from, to, actor, sha)
<1> USE DEF Statuses, Actors
<1>1. ASSUME NEW p \in Proposals, Approve(p)
      PROVE  TransitOf(p, "pending", "approved", "reviewer", NULL)
  BY <1>1 DEF Approve, TransitOf
<1>2. ASSUME NEW p \in Proposals, Reject(p)
      PROVE  TransitOf(p, "pending", "rejected", "reviewer", NULL)
  BY <1>2 DEF Reject, TransitOf
<1>3. ASSUME NEW p \in Proposals, Retry(p)
      PROVE  TransitOf(p, "failed", "approved", "reviewer", NULL)
  BY <1>3 DEF Retry, TransitOf
<1>4. ASSUME NEW p \in Proposals, NEW w \in Workers, NEW sha \in Shas,
             MarkApplied(p, w, sha)
      PROVE  TransitOf(p, "applying", "applied", w, sha)
  BY <1>4 DEF MarkApplied, TransitOf
<1>5. ASSUME NEW p \in Proposals, NEW w \in Workers, MarkFailed(p, w)
      PROVE  TransitOf(p, "applying", "failed", w, NULL)
  BY <1>5 DEF MarkFailed, TransitOf
<1>6. CASE \E p \in Proposals : Approve(p)
  BY <1>1, <1>6
<1>7. CASE \E p \in Proposals : Reject(p)
  BY <1>2, <1>7
<1>8. CASE \E p \in Proposals : Retry(p)
  BY <1>3, <1>8
<1>9. CASE \E p \in Proposals, w \in Workers, sha \in Shas : MarkApplied(p, w, sha)
  BY <1>4, <1>9
<1>10. CASE \E p \in Proposals, w \in Workers : MarkFailed(p, w)
  BY <1>5, <1>10
<1> QED
  BY <1>6, <1>7, <1>8, <1>9, <1>10 DEF Transits

LEMMA StoreType == TypeInv /\ [StoreStep]_vars => TypeInv'
<1> SUFFICES ASSUME TypeInv, [StoreStep]_vars PROVE TypeInv'
  OBVIOUS
<1>1. CASE UNCHANGED vars
  BY <1>1, QuietType DEF Quiet
<1>2. CASE Transits
  BY <1>2, TransitsShape, TransitionType DEF TransitOf
<1> QED
  BY <1>1, <1>2, CreateType, ReviseType, ClaimType, ExpireType, QuietType DEF StoreStep, FilesStay

\* The state database is type correct: each column of each table holds a value of
\* its type in every reachable state.
THEOREM TypeCorrect == Spec => []TypeOK
<1>1. TypeInv => TypeOK
  BY DEF TypeInv
<1> QED
  BY <1>1, InitType, NextStores, StoreType, PTL DEF Spec

-----------------------------------------------------------------------------
(***************************************************************************)
(* The log is the history of the row.                                      *)
(***************************************************************************)
LEMMA HistoryAppend ==
  ASSUME NEW events \in Seq(Events), NEW last \in Statuses, NEW to \in Statuses,
         NEW actor, History(events, last),
         CanTransition(last, to) \/ (last = "pending" /\ to = "pending")
  PROVE  History(Append(events, Event(last, to, actor)), to)
<1> DEFINE longer == Append(events, Event(last, to, actor))
<1>1. last # Absent /\ to # Absent
  BY DEF Statuses, Absent
<1>2. /\ events # <<>> /\ Len(events) \in Nat \ {0}
      /\ Len(longer) = Len(events) + 1
      /\ longer # <<>>
      /\ longer[Len(longer)] = Event(last, to, actor)
      /\ \A i \in 1..Len(events) : longer[i] = events[i]
      /\ DOMAIN events = 1..Len(events) /\ DOMAIN longer = 1..(Len(events) + 1)
  BY <1>1 DEF History
<1>3. ASSUME NEW i \in DOMAIN longer
      PROVE  LET e == longer[i]
             IN IF i = 1 THEN e.from = Absent /\ e.to = "pending"
                ELSE /\ e.from = longer[i - 1].to
                     /\ \/ CanTransition(e.from, e.to)
                        \/ e.from = "pending" /\ e.to = "pending"
  <2>1. CASE i \in 1..Len(events)
    <3>1. i = 1 \/ i - 1 \in 1..Len(events)
      BY <1>2, <2>1
    <3> QED
      BY <1>2, <2>1, <3>1 DEF History
  <2>2. CASE i = Len(events) + 1
    <3>1. longer[i - 1] = events[Len(events)] /\ i # 1
      <4>1. i - 1 = Len(events) /\ Len(events) \in 1..Len(events) /\ i # 1
        BY <1>2, <2>2
      <4> HIDE DEF longer
      <4> QED
        BY <1>2, <4>1
    <3>2. longer[i].from = last /\ longer[i].to = to
      BY <1>2, <2>2 DEF Event
    <3>3. events[Len(events)].to = last
      BY <1>2 DEF History
    <3> QED
      BY <3>1, <3>2, <3>3
  <2> QED
    BY <1>2, <2>1, <2>2
<1>4. longer[Len(longer)].to = to
  BY <1>2 DEF Event
<1> HIDE DEF longer
<1>5. History(longer, to)
  BY <1>1, <1>2, <1>3, <1>4 DEF History
<1> QED
  BY <1>5 DEF longer

LEMMA HistoryFirst ==
  ASSUME NEW actor
  PROVE  History(Append(<<>>, Event(Absent, "pending", actor)), "pending")
<1>1. Append(<<>>, Event(Absent, "pending", actor)) = <<Event(Absent, "pending", actor)>>
  OBVIOUS
<1>2. Event(Absent, "pending", actor).from = Absent /\ Event(Absent, "pending", actor).to = "pending"
  BY DEF Event
<1>3. "pending" # Absent
  BY DEF Absent
<1> QED
  BY <1>1, <1>2, <1>3 DEF History

LEMMA HistoryCreate ==
  ASSUME TypeInv, LogIsHistory, NEW p \in Proposals, NEW F \in FileMaps,
         NEW first \in DOMAIN F, Creates(p, F, first)
  PROVE  LogIsHistory'
<1>1. log[p] = <<>>
  BY DEF LogIsHistory, History, Creates, InsertProposal
<1>2. History(log'[p], status'[p])
  BY <1>1, HistoryFirst DEF TypeInv, TypeOK, Creates, InsertProposal
<1>3. \A q \in Proposals \ {p} : log'[q] = log[q] /\ status'[q] = status[q]
  BY DEF TypeInv, TypeOK, Creates, InsertProposal
<1> QED
  BY <1>2, <1>3 DEF LogIsHistory

LEMMA HistoryRevise ==
  ASSUME TypeInv, LogIsHistory, NEW p \in Proposals, NEW F \in FileMaps, Revises(p, F)
  PROVE  LogIsHistory'
<1>1. History(log[p], "pending") /\ log[p] \in Seq(Events) /\ "pending" \in Statuses
  BY DEF LogIsHistory, Revises, ReplaceFiles, TypeInv, TypeOK, Statuses
<1>2. History(Append(log[p], Event("pending", "pending", "reviewer")), "pending")
  BY <1>1, HistoryAppend
<1>3. History(log'[p], status'[p])
  BY <1>2 DEF TypeInv, TypeOK, Revises, ReplaceFiles
<1>4. \A q \in Proposals \ {p} : log'[q] = log[q] /\ status'[q] = status[q]
  BY DEF TypeInv, TypeOK, Revises, ReplaceFiles
<1> QED
  BY <1>3, <1>4 DEF LogIsHistory

LEMMA HistoryTransition ==
  ASSUME TypeInv, LogIsHistory, NEW p \in Proposals, NEW from \in Statuses,
         NEW to \in Statuses, NEW actor, NEW sha, Transition(p, from, to, actor, sha)
  PROVE  LogIsHistory'
<1>1. History(log[p], from) /\ log[p] \in Seq(Events) /\ CanTransition(from, to)
  BY DEF LogIsHistory, Transition, ErrorAfter, TypeInv, TypeOK
<1>2. History(Append(log[p], Event(from, to, actor)), to)
  BY <1>1, HistoryAppend
<1>3. History(log'[p], status'[p])
  BY <1>2 DEF TypeInv, TypeOK, Transition, ErrorAfter
<1>4. \A q \in Proposals \ {p} : log'[q] = log[q] /\ status'[q] = status[q]
  BY DEF TypeInv, TypeOK, Transition, ErrorAfter
<1> QED
  BY <1>3, <1>4 DEF LogIsHistory

LEMMA HistoryClaim ==
  ASSUME TypeInv, LogIsHistory, NEW w \in Workers, NEW p \in Proposals,
         NEW taken \in SUBSET Proposals, Claims(w, p, taken)
  PROVE  LogIsHistory'
<1> DEFINE resetEvent == Event("applying", "approved", "lease-expired")
           resetLog == [q \in Proposals |->
                          IF q \in taken THEN Append(log[q], resetEvent) ELSE log[q]]
           resetStatus == [q \in Proposals |->
                             IF q \in taken THEN "approved" ELSE status[q]]
<1>1. /\ CanTransition("applying", "approved") /\ CanTransition("approved", "applying")
      /\ {"applying", "approved"} \subseteq Statuses
  BY DEF CanTransition, NextStatuses, Statuses
<1>2. ASSUME NEW q \in Proposals
      PROVE  History(resetLog[q], resetStatus[q]) /\ resetLog[q] \in Seq(Events)
  <2>1. History(log[q], status[q]) /\ log[q] \in Seq(Events)
    BY DEF LogIsHistory, TypeInv, TypeOK
  <2>2. CASE q \in taken
    <3>1. status[q] = "applying"
      BY <2>2 DEF Claims, Lapsed, InStatus
    <3>2. History(Append(log[q], resetEvent), "approved")
      BY <1>1, <2>1, <3>1, HistoryAppend
    <3>3. Append(log[q], resetEvent) \in Seq(Events)
      BY <2>1, AppendType DEF Statuses, Actors
    <3> QED
      BY <2>2, <3>2, <3>3
  <2>3. CASE q \notin taken
    BY <2>1, <2>3
  <2> QED
    BY <2>2, <2>3
<1>3. resetStatus[p] = "approved"
  BY DEF Claims, TakeClaim, Lapsed, InStatus
<1>4. History(Append(resetLog[p], Event("approved", "applying", w)), "applying")
  <2> HIDE DEF resetLog, resetStatus
  <2> QED
    BY <1>1, <1>2, <1>3, HistoryAppend
<1>5. /\ log' = [resetLog EXCEPT ![p] = Append(@, Event("approved", "applying", w))]
      /\ status' = [resetStatus EXCEPT ![p] = "applying"]
  BY DEF Claims, TakeClaim, Lapsed
<1>6. /\ log'[p] = Append(resetLog[p], Event("approved", "applying", w))
      /\ status'[p] = "applying"
      /\ \A q \in Proposals \ {p} : log'[q] = resetLog[q] /\ status'[q] = resetStatus[q]
  BY <1>5
<1> HIDE DEF resetLog, resetStatus
<1> QED
  BY <1>2, <1>4, <1>6 DEF LogIsHistory

LEMMA HistoryExpire ==
  ASSUME TypeInv, LogIsHistory, NEW rows \in SUBSET Proposals, Expires(rows)
  PROVE  LogIsHistory'
<1> SUFFICES ASSUME NEW q \in Proposals
             PROVE  History(log'[q], status'[q])
  BY DEF LogIsHistory
<1>1. History(log[q], status[q]) /\ log[q] \in Seq(Events)
  BY DEF LogIsHistory, TypeInv, TypeOK
<1>2. CASE q \in rows
  <2>1. status[q] = "pending" /\ CanTransition("pending", "expired")
        /\ {"pending", "expired"} \subseteq Statuses
    BY <1>2 DEF Expires, TooOld, InStatus, CanTransition, NextStatuses, Statuses
  <2>2. History(Append(log[q], Event("pending", "expired", "expirer")), "expired")
    BY <1>1, <2>1, HistoryAppend
  <2> QED
    BY <1>2, <2>2 DEF Expires, ExpireRows, TooOld
<1>3. CASE q \notin rows
  BY <1>1, <1>3 DEF Expires, ExpireRows, TooOld
<1> QED
  BY <1>2, <1>3

LEMMA QuietLeaves ==
  Quiet => UNCHANGED <<status, kind, name, files, claimedBy, log, error, appliedSha, decidedAt>>
  BY DEF Quiet, AddRejection, LeaseRunsOut, GrowsOld, vars

LEMMA HistoryNext == TypeInv /\ LogIsHistory /\ [StoreStep]_vars => LogIsHistory'
<1> SUFFICES ASSUME TypeInv, LogIsHistory, [StoreStep]_vars PROVE LogIsHistory'
  OBVIOUS
<1>1. CASE Quiet \/ UNCHANGED vars
  <2>1. UNCHANGED <<status, log>>
    BY <1>1, QuietLeaves DEF vars
  <2> QED
    BY <2>1 DEF LogIsHistory
<1>2. CASE Transits
  BY <1>2, TransitsShape, HistoryTransition DEF TransitOf
<1> QED
  BY <1>1, <1>2, HistoryCreate, HistoryRevise, HistoryClaim, HistoryExpire DEF StoreStep, FilesStay

\* The events of every proposal are its complete history along the allowed moves.
THEOREM HistoryComplete == Spec => []LogIsHistory
<1>1. Init => LogIsHistory
  BY DEF Init, LogIsHistory, History
<1> QED
  BY <1>1, InitType, NextStores, StoreType, HistoryNext, PTL DEF Spec
=============================================================================
