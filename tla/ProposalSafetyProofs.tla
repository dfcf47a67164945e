------------------------ MODULE ProposalSafetyProofs -------------------------
(***************************************************************************)
(* What the state database guarantees beyond its types and its history:    *)
(* columns that agree with the status, files that can be applied, targets  *)
(* shared only through a retry, rows that are frozen once decided, and     *)
(* the documented status machine.  Each proof follows the disjuncts of     *)
(* StoreStep; TransitsShape reduces five operations to one.                *)
(***************************************************************************)
EXTENDS ProposalStoreProofs

\* A step is quiet or one of the others.
LEMMA StepCases ==
  ASSUME [StoreStep]_vars
  PROVE  \/ \E p \in Proposals, F \in FileMaps : \E first \in DOMAIN F : Creates(p, F, first)
         \/ \E p \in Proposals, F \in FileMaps : Revises(p, F)
         \/ Transits
         \/ \E p \in Proposals, w \in Workers, taken \in SUBSET Proposals : Claims(w, p, taken)
         \/ \E rows \in SUBSET Proposals : Expires(rows)
         \/ Quiet
  BY DEF StoreStep, FilesStay, Quiet

-----------------------------------------------------------------------------
(***************************************************************************)
(* The files of a stored proposal stay valid.                              *)
(***************************************************************************)
\* Only create and revise write files, and no step but create makes a row.
LEMMA FilesWritten ==
  ASSUME TypeInv, FilesStay
  PROVE  UNCHANGED <<files, name>> /\ \A q \in Proposals : status'[q] = Absent <=> status[q] = Absent
<1>1. CASE Transits
  <2>1. PICK p \in Proposals, from, to \in Statuses, actor \in Actors, sha \in Shas \cup {NULL} :
               TransitOf(p, from, to, actor, sha)
    BY <1>1, TransitsShape
  <2>2. from # Absent /\ to # Absent
    BY DEF Statuses, Absent
  <2> QED
    BY <2>1, <2>2 DEF TransitOf, Transition, ErrorAfter, TypeInv, TypeOK
<1>2. CASE \E p \in Proposals, w \in Workers, taken \in SUBSET Proposals : Claims(w, p, taken)
  BY <1>2 DEF Claims, TakeClaim, Lapsed, InStatus, Absent, TypeInv, TypeOK
<1>3. CASE \E rows \in SUBSET Proposals : Expires(rows)
  BY <1>3 DEF Expires, ExpireRows, TooOld, InStatus, Absent, TypeInv, TypeOK
<1>4. CASE Quiet
  BY <1>4, QuietLeaves
<1> QED
  BY <1>1, <1>2, <1>3, <1>4 DEF FilesStay

\* One group: the group of the first file is the group of all.
LEMMA CreatedGroup ==
  ASSUME NEW F \in FileMaps, ValidFiles(F), NEW first \in DOMAIN F
  PROVE  \A t \in DOMAIN F : GroupOf(t) = GroupOf(first)
  BY DEF ValidFiles

LEMMA StoredFilesNext ==
  ASSUME TypeInv, StoredFilesValid, [StoreStep]_vars
  PROVE  StoredFilesValid'
<1>1. ASSUME NEW p \in Proposals, NEW F \in FileMaps, NEW first \in DOMAIN F, Creates(p, F, first)
      PROVE  StoredFilesValid'
  <2>1. files'[p] = F /\ name'[p] = GroupOf(first) /\ ValidFiles(F)
    BY <1>1 DEF Creates, InsertProposal, TypeInv, TypeOK
  <2>2. \A q \in Proposals \ {p} :
          files'[q] = files[q] /\ name'[q] = name[q] /\ status'[q] = status[q]
    BY <1>1 DEF Creates, InsertProposal, TypeInv, TypeOK
  <2>3. \A t \in DOMAIN F : GroupOf(t) = GroupOf(first)
    BY <2>1, CreatedGroup
  <2> QED
    BY <2>1, <2>2, <2>3 DEF StoredFilesValid
<1>2. ASSUME NEW p \in Proposals, NEW F \in FileMaps, Revises(p, F)
      PROVE  StoredFilesValid'
  <2>1. /\ files'[p] = F /\ ValidFiles(F)
        /\ \A t \in DOMAIN F : GroupOf(t) = name[p]
        /\ UNCHANGED <<name, status>>
    BY <1>2 DEF Revises, ReplaceFiles, TypeInv, TypeOK
  <2>2. \A q \in Proposals \ {p} : files'[q] = files[q]
    BY <1>2 DEF Revises, ReplaceFiles, TypeInv, TypeOK
  <2> QED
    BY <2>1, <2>2 DEF StoredFilesValid
<1>3. ASSUME FilesStay PROVE StoredFilesValid'
  BY <1>3, FilesWritten DEF StoredFilesValid
<1>4. ASSUME UNCHANGED vars PROVE StoredFilesValid'
  BY <1>4 DEF StoredFilesValid, vars
<1> QED
  BY <1>1, <1>2, <1>3, <1>4 DEF StoreStep

\* Every stored proposal can be applied: its files are valid and of its group.
THEOREM StoredFilesAlwaysValid == Spec => []StoredFilesValid
<1>1. Init => StoredFilesValid
  BY DEF Init, StoredFilesValid
<1> QED
  BY <1>1, InitType, NextStores, StoreType, StoredFilesNext, PTL DEF Spec

-----------------------------------------------------------------------------
(***************************************************************************)
(* Open proposals share a target only through a retry.                     *)
(***************************************************************************)
\* Events are never taken away.
LEMMA RetriedStays ==
  ASSUME NEW s \in Seq(Events), NEW e, NEW i \in DOMAIN s
  PROVE  i \in DOMAIN Append(s, e) /\ Append(s, e)[i] = s[i]
  OBVIOUS

LEMMA RetriedNext ==
  ASSUME TypeInv, [StoreStep]_vars, NEW q \in Proposals, Retried(q)
  PROVE  Retried(q)'
<1>1. PICK i \in DOMAIN log[q] : log[q][i].from = "failed"
  BY DEF Retried
<1>2. log[q] \in Seq(Events)
  BY DEF TypeInv, TypeOK
<1>3. ASSUME NEW e PROVE i \in DOMAIN Append(log[q], e) /\ Append(log[q], e)[i].from = "failed"
  BY <1>1, <1>2, RetriedStays
<1>4. i \in DOMAIN log'[q] /\ log'[q][i].from = "failed"
  <2>1. ASSUME NEW p \in Proposals, NEW F \in FileMaps, NEW first \in DOMAIN F, Creates(p, F, first)
        PROVE  i \in DOMAIN log'[q] /\ log'[q][i].from = "failed"
    BY <1>1, <1>3, <2>1 DEF Creates, InsertProposal, TypeInv, TypeOK
  <2>2. ASSUME NEW p \in Proposals, NEW F \in FileMaps, Revises(p, F)
        PROVE  i \in DOMAIN log'[q] /\ log'[q][i].from = "failed"
    BY <1>1, <1>3, <2>2 DEF Revises, ReplaceFiles, TypeInv, TypeOK
  <2>3. CASE Transits
    <3>1. PICK p \in Proposals, from, to \in Statuses, actor \in Actors, sha \in Shas \cup {NULL} :
                 TransitOf(p, from, to, actor, sha)
      BY <2>3, TransitsShape
    <3>2. log' = [log EXCEPT ![p] = Append(@, Event(from, to, actor))]
      BY <3>1 DEF TransitOf, Transition, ErrorAfter
    <3> QED
      BY <1>1, <1>3, <3>2 DEF TypeInv, TypeOK
  <2>4. ASSUME NEW p \in Proposals, NEW w \in Workers, NEW taken \in SUBSET Proposals, Claims(w, p, taken)
        PROVE  i \in DOMAIN log'[q] /\ log'[q][i].from = "failed"
    <3>1. PICK lapsed \in SUBSET Proposals :
            log' = [[r \in Proposals |->
                       IF r \in lapsed
                       THEN Append(log[r], Event("applying", "approved", "lease-expired"))
                       ELSE log[r]]
                    EXCEPT ![p] = Append(@, Event("approved", "applying", w))]
      BY <2>4 DEF Claims, TakeClaim
    <3>2. \A r \in Proposals : log[r] \in Seq(Events)
      BY DEF TypeInv, TypeOK
    <3>3. Append(log[q], Event("applying", "approved", "lease-expired")) \in Seq(Events)
      BY <3>2, AppendType DEF Statuses, Actors
    <3>4. CASE q # p
      BY <1>1, <1>3, <3>1, <3>4
    <3>5. CASE q = p /\ q \notin lapsed
      BY <1>1, <1>3, <3>1, <3>5
    <3>6. CASE q = p /\ q \in lapsed
      <4>1. log'[q] = Append(Append(log[q], Event("applying", "approved", "lease-expired")),
                             Event("approved", "applying", w))
        BY <3>1, <3>6
      <4> QED
        BY <1>3, <3>3, <4>1, RetriedStays
    <3> QED
      BY <3>4, <3>5, <3>6
  <2>5. CASE \E rows \in SUBSET Proposals : Expires(rows)
    BY <1>1, <1>3, <2>5 DEF Expires, ExpireRows, TooOld, TypeInv, TypeOK
  <2>6. CASE Quiet
    BY <1>1, <2>6, QuietLeaves
  <2> QED
    BY <2>1, <2>2, <2>3, <2>4, <2>5, <2>6, StepCases
<1> QED
  BY <1>4 DEF Retried

\* Besides create, only a retry makes a closed proposal open.
LEMMA OpensOnlyByRetry ==
  ASSUME TypeInv, [StoreStep]_vars, NEW q \in Proposals, Open(q)', ~Open(q), status[q] # Absent
  PROVE  Retried(q)'
<1> USE DEF Open, OpenStatuses
<1>1. ASSUME NEW p \in Proposals, NEW F \in FileMaps, NEW first \in DOMAIN F, Creates(p, F, first)
      PROVE  FALSE
  BY <1>1 DEF Creates, InsertProposal, TypeInv, TypeOK
<1>2. ASSUME NEW p \in Proposals, NEW F \in FileMaps, Revises(p, F)
      PROVE  FALSE
  BY <1>2 DEF Revises, ReplaceFiles
<1>3. CASE Transits
  <2>1. PICK p \in Proposals, from, to \in Statuses, actor \in Actors, sha \in Shas \cup {NULL} :
               TransitOf(p, from, to, actor, sha)
    BY <1>3, TransitsShape
  <2>2. p = q /\ from = status[q] /\ to = status'[q]
    BY <2>1 DEF TransitOf, Transition, ErrorAfter, TypeInv, TypeOK
  <2>3. from = "failed"
    <3>1. from \in Statuses \ OpenStatuses /\ to \in OpenStatuses /\ to # "applying"
      BY <2>1, <2>2 DEF TransitOf
    <3>2. to \in NextStatuses(from)
      BY <2>1 DEF TransitOf, Transition, ErrorAfter, CanTransition
    <3>3. from \in {"applied", "rejected", "expired"} => NextStatuses(from) = {}
      BY DEF NextStatuses
    <3> QED
      BY <3>1, <3>2, <3>3 DEF Statuses
  <2>4. log'[q] = Append(log[q], Event("failed", to, actor)) /\ log[q] \in Seq(Events)
    BY <2>1, <2>2, <2>3 DEF TransitOf, Transition, ErrorAfter, TypeInv, TypeOK
  <2>5. Len(log[q]) + 1 \in DOMAIN log'[q] /\ log'[q][Len(log[q]) + 1] = Event("failed", to, actor)
    BY <2>4
  <2> QED
    BY <2>5 DEF Retried, Event
<1>4. ASSUME NEW p \in Proposals, NEW w \in Workers, NEW taken \in SUBSET Proposals, Claims(w, p, taken)
      PROVE  FALSE
  BY <1>4 DEF Claims, TakeClaim, Lapsed, InStatus, TypeInv, TypeOK
<1>5. CASE \E rows \in SUBSET Proposals : Expires(rows)
  BY <1>5 DEF Expires, ExpireRows, TooOld, InStatus, TypeInv, TypeOK
<1>6. CASE Quiet
  BY <1>6, QuietLeaves
<1> QED
  BY <1>1, <1>2, <1>3, <1>4, <1>5, <1>6, StepCases

\* The targets of F are free but for proposals that were retried.
FreeOrRetried(F, self) ==
  \A q \in Proposals \ {self} :
    Open(q) /\ DOMAIN files[q] \cap DOMAIN F # {} => Retried(q)

LEMMA FreeTargets == \A F, self : TargetsFree(F, self) => FreeOrRetried(F, self)
  BY DEF TargetsFree, FreeOrRetried, Open

\* The cases of a step that writes the files of r: two open proposals that shared
\* targets before still have a retry, and r shares only with retried ones.
LEMMA SharedTargetWrite ==
  ASSUME TypeInv, SharedTargetOnlyByRetry, [StoreStep]_vars, NEW r \in Proposals,
         NEW F \in FileMaps, FreeOrRetried(F, r),
         files' = [files EXCEPT ![r] = F],
         \A q \in Proposals \ {r} : status'[q] = status[q]
  PROVE  SharedTargetOnlyByRetry'
<1> SUFFICES ASSUME NEW p \in Proposals, NEW q \in Proposals, p # q, Open(p)', Open(q)',
                    DOMAIN files'[p] \cap DOMAIN files'[q] # {},
                    ~ Retried(p)', ~ Retried(q)'
             PROVE  FALSE
  BY DEF SharedTargetOnlyByRetry
<1>1. ~Retried(p) /\ ~Retried(q)
  BY RetriedNext
<1>2. files'[r] = F /\ \A o \in Proposals \ {r} : files'[o] = files[o] /\ (Open(o)' => Open(o))
  BY DEF TypeInv, TypeOK, Open
<1>3. CASE r \notin {p, q}
  BY <1>1, <1>2, <1>3 DEF SharedTargetOnlyByRetry
<1>4. CASE r = p
  BY <1>1, <1>2, <1>4 DEF FreeOrRetried
<1>5. CASE r = q
  BY <1>1, <1>2, <1>5 DEF FreeOrRetried
<1> QED
  BY <1>3, <1>4, <1>5

LEMMA SharedTargetCreate ==
  ASSUME TypeInv, SharedTargetOnlyByRetry, NEW p \in Proposals, NEW F \in FileMaps,
         NEW first \in DOMAIN F, Creates(p, F, first), FreeOrRetried(F, p)
  PROVE  SharedTargetOnlyByRetry'
<1>1. /\ files' = [files EXCEPT ![p] = F]
      /\ \A q \in Proposals \ {p} : status'[q] = status[q]
  BY DEF Creates, InsertProposal, TypeInv, TypeOK
<1>2. StoreStep
  BY DEF StoreStep
<1> QED
  BY <1>1, <1>2, SharedTargetWrite

LEMMA SharedTargetRevise ==
  ASSUME TypeInv, SharedTargetOnlyByRetry, NEW p \in Proposals, NEW F \in FileMaps,
         Revises(p, F), FreeOrRetried(F, p)
  PROVE  SharedTargetOnlyByRetry'
<1>1. files' = [files EXCEPT ![p] = F] /\ status' = status
  BY DEF Revises, ReplaceFiles
<1>2. StoreStep
  BY DEF StoreStep
<1> QED
  BY <1>1, <1>2, SharedTargetWrite

LEMMA SharedTargetOther ==
  ASSUME TypeInv, SharedTargetOnlyByRetry, FilesStay
  PROVE  SharedTargetOnlyByRetry'
<1>1. StoreStep
  BY DEF StoreStep
<1> SUFFICES ASSUME NEW p \in Proposals, NEW q \in Proposals, p # q, Open(p)', Open(q)',
                    DOMAIN files'[p] \cap DOMAIN files'[q] # {},
                    ~ Retried(p)', ~ Retried(q)'
             PROVE  FALSE
  BY DEF SharedTargetOnlyByRetry
<1>2. ~Retried(p) /\ ~Retried(q)
  BY <1>1, RetriedNext
<1>3. (Open(p) \/ status[p] = Absent) /\ (Open(q) \/ status[q] = Absent)
  BY <1>1, OpensOnlyByRetry
<1>4. files' = files /\ (status'[p] = Absent <=> status[p] = Absent)
                     /\ (status'[q] = Absent <=> status[q] = Absent)
  BY FilesWritten
<1>5. Open(p) /\ Open(q)
  BY <1>3, <1>4 DEF Open, OpenStatuses, Absent
<1> QED
  BY <1>2, <1>4, <1>5 DEF SharedTargetOnlyByRetry

LEMMA SharedTargetNext ==
  ASSUME TypeInv, SharedTargetOnlyByRetry, [Next]_vars
  PROVE  SharedTargetOnlyByRetry'
  BY NextIsStoreStep, FreeTargets, SharedTargetCreate, SharedTargetRevise, SharedTargetOther

\* Two open proposals share a target path only if one of them was retried.
THEOREM SharedTargetsOnlyByRetry == Spec => []SharedTargetOnlyByRetry
<1>1. Init => SharedTargetOnlyByRetry
  BY DEF Init, SharedTargetOnlyByRetry, Open, OpenStatuses, Absent
<1> QED
  BY <1>1, InitType, NextStores, StoreType, SharedTargetNext, PTL DEF Spec

-----------------------------------------------------------------------------
(***************************************************************************)
(* The columns agree with the status.                                      *)
(***************************************************************************)
\* ColumnsMatchStatus for one row.
RowMatches(p) ==
  /\ status[p] = "applying" <=> claimedBy[p] # NULL
  /\ status[p] = "applying" <=> lease[p] # "none"
  /\ status[p] = "applying" => claimedBy[p] = log[p][Len(log[p])].actor
  /\ error[p] <=> status[p] = "failed"
  /\ appliedSha[p] # NULL <=> status[p] = "applied"
  /\ status[p] = "rejected" => <<kind[p], name[p]>> \in rejections

LEMMA ColumnsNext ==
  ASSUME TypeInv, ColumnsMatchStatus, [StoreStep]_vars, NEW q \in Proposals
  PROVE  RowMatches(q)'
<1>1. RowMatches(q)
  BY DEF ColumnsMatchStatus, RowMatches
<1>2. \A w \in Workers : w # NULL
  BY ConstantsAssumption
<1>3. ASSUME NEW p \in Proposals, NEW F \in FileMaps, NEW first \in DOMAIN F, Creates(p, F, first)
      PROVE  RowMatches(q)'
  BY <1>1, <1>3 DEF RowMatches, Creates, InsertProposal, TypeInv, TypeOK, Absent
<1>4. ASSUME NEW p \in Proposals, NEW F \in FileMaps, Revises(p, F)
      PROVE  RowMatches(q)'
  BY <1>1, <1>4 DEF RowMatches, Revises, ReplaceFiles, TypeInv, TypeOK
<1>5. CASE Transits
  <2>1. PICK p \in Proposals, from, to \in Statuses, actor \in Actors, sha \in Shas \cup {NULL} :
               TransitOf(p, from, to, actor, sha)
    BY <1>5, TransitsShape
  <2>2. CASE p # q
    BY <1>1, <2>1, <2>2 DEF RowMatches, TransitOf, Transition, ErrorAfter, TypeInv, TypeOK
  <2>3. CASE p = q
    <3>1. /\ status[q] = from /\ status'[q] = to /\ to # "applying"
          /\ claimedBy'[q] = NULL /\ lease'[q] = "none"
          /\ to \in NextStatuses(from)
      BY <2>1, <2>3 DEF TransitOf, Transition, ErrorAfter, CanTransition, TypeInv, TypeOK
    <3>2. from # "applied"
      BY <3>1 DEF NextStatuses
    <3>3. error'[q] <=> to = "failed"
      <4>1. from = "failed" => to = "approved"
        BY <3>1 DEF NextStatuses
      <4>2. error'[q] = IF to = "failed" THEN TRUE
                        ELSE error[q] /\ ~(from = "failed" /\ to = "approved")
        BY <2>1, <2>3 DEF TransitOf, Transition, ErrorAfter, TypeInv, TypeOK
      <4>3. error[q] <=> from = "failed"
        BY <1>1, <3>1 DEF RowMatches
      <4> QED
        BY <4>1, <4>2, <4>3
    <3>4. appliedSha'[q] # NULL <=> to = "applied"
      <4>1. appliedSha'[q] = IF to = "applied" THEN sha ELSE appliedSha[q]
        BY <2>1, <2>3 DEF TransitOf, Transition, ErrorAfter, TypeInv, TypeOK
      <4> QED
        BY <1>1, <2>1, <3>1, <3>2, <4>1, ConstantsAssumption DEF RowMatches, TransitOf
    <3>5. to = "rejected" => <<kind'[q], name'[q]>> \in rejections'
      BY <2>1, <2>3 DEF TransitOf, Transition, ErrorAfter
    <3> QED
      BY <3>1, <3>3, <3>4, <3>5 DEF RowMatches
  <2> QED
    BY <2>2, <2>3
<1>6. ASSUME NEW p \in Proposals, NEW w \in Workers, NEW taken \in SUBSET Proposals, Claims(w, p, taken)
      PROVE  RowMatches(q)'
  <2>0. status[p] \in {"approved", "applying"}
    BY <1>6 DEF Claims, TakeClaim, Lapsed, InStatus
  <2>1. CASE q = p
    <3>1. status'[q] = "applying" /\ claimedBy'[q] = w /\ lease'[q] = "running"
      BY <1>6, <2>1 DEF Claims, TakeClaim, Lapsed, TypeInv, TypeOK
    <3>2. log'[q][Len(log'[q])].actor = w
      <4>1. PICK s \in Seq(Events) : log'[q] = Append(s, Event("approved", "applying", w))
        <5>1. \A r \in Proposals : log[r] \in Seq(Events)
          BY DEF TypeInv, TypeOK
        <5>2. Append(log[p], Event("applying", "approved", "lease-expired")) \in Seq(Events)
          BY <5>1, AppendType DEF Statuses, Actors
        <5> QED
          BY <1>6, <2>1, <5>1, <5>2 DEF Claims, TakeClaim, Lapsed
      <4>2. log'[q][Len(log'[q])] = Event("approved", "applying", w)
        BY <4>1
      <4> QED
        BY <4>2 DEF Event
    <3> QED
      BY <1>1, <1>2, <1>6, <2>0, <2>1, <3>1, <3>2 DEF RowMatches, Claims, TakeClaim, Lapsed
  <2>2. CASE q # p /\ q \in taken
    <3>1. status'[q] = "approved" /\ claimedBy'[q] = NULL /\ lease'[q] = "none"
      BY <1>6, <2>2 DEF Claims, TakeClaim, Lapsed, TypeInv, TypeOK
    <3> QED
      BY <1>1, <1>6, <2>2, <3>1 DEF RowMatches, Claims, TakeClaim, Lapsed, InStatus
  <2>3. CASE q # p /\ q \notin taken
    <3>1. /\ status'[q] = status[q] /\ claimedBy'[q] = claimedBy[q] /\ lease'[q] = lease[q]
          /\ log'[q] = log[q]
      BY <1>6, <2>3 DEF Claims, TakeClaim, Lapsed, TypeInv, TypeOK
    <3> QED
      BY <1>1, <1>6, <3>1 DEF RowMatches, Claims, TakeClaim, Lapsed
  <2> QED
    BY <2>1, <2>2, <2>3
<1>7. CASE \E rows \in SUBSET Proposals : Expires(rows)
  BY <1>1, <1>7 DEF RowMatches, Expires, ExpireRows, TooOld, InStatus, TypeInv, TypeOK
<1>8. ASSUME NEW key \in Rejectable, AddRejection(key) PROVE RowMatches(q)'
  BY <1>1, <1>8 DEF RowMatches, AddRejection
<1>9. ASSUME NEW p \in Proposals, LeaseRunsOut(p) PROVE RowMatches(q)'
  BY <1>1, <1>9 DEF RowMatches, LeaseRunsOut, TypeInv, TypeOK
<1>10. ASSUME NEW p \in Proposals, GrowsOld(p) PROVE RowMatches(q)'
  BY <1>1, <1>10 DEF RowMatches, GrowsOld
<1>11. CASE UNCHANGED vars
  BY <1>1, <1>11 DEF RowMatches, vars
<1> QED
  BY <1>3, <1>4, <1>5, <1>6, <1>7, <1>8, <1>9, <1>10, <1>11, StepCases DEF Quiet

\* Claimer, lease, error, commit and rejection of a proposal always agree with
\* its status.
THEOREM ColumnsAlwaysMatch == Spec => []ColumnsMatchStatus
<1>1. Init => ColumnsMatchStatus
  BY DEF Init, ColumnsMatchStatus, Absent
<1>2. TypeInv /\ ColumnsMatchStatus /\ [StoreStep]_vars => ColumnsMatchStatus'
  <2> SUFFICES ASSUME TypeInv, ColumnsMatchStatus, [StoreStep]_vars, NEW q \in Proposals
               PROVE  RowMatches(q)'
    BY DEF ColumnsMatchStatus, RowMatches
  <2> QED
    BY ColumnsNext
<1> QED
  BY <1>1, <1>2, InitType, NextStores, StoreType, PTL DEF Spec

-----------------------------------------------------------------------------
(***************************************************************************)
(* What a step may not do.                                                 *)
(***************************************************************************)
LEMMA FrozenStep ==
  ASSUME TypeInv, [StoreStep]_vars, NEW q \in Proposals
  PROVE  /\ status[q] \notin {Absent, "pending"} => files'[q] = files[q]
         /\ status[q] \in FinalStatuses =>
              /\ status'[q] = status[q] /\ appliedSha'[q] = appliedSha[q]
              /\ decidedAt'[q] = decidedAt[q] /\ log'[q] = log[q]
<1>1. \A s \in FinalStatuses : NextStatuses(s) = {}
                               /\ s \notin {Absent, "pending", "approved", "applying"}
  BY DEF FinalStatuses, NextStatuses, Statuses, Absent
<1>2. ASSUME NEW p \in Proposals, NEW F \in FileMaps, NEW first \in DOMAIN F, Creates(p, F, first)
      PROVE  status[p] = Absent /\ \A r \in Proposals \ {p} :
               /\ status'[r] = status[r] /\ files'[r] = files[r] /\ log'[r] = log[r]
               /\ appliedSha' = appliedSha /\ decidedAt' = decidedAt
  BY <1>2 DEF Creates, InsertProposal, TypeInv, TypeOK
<1>3. ASSUME NEW p \in Proposals, NEW F \in FileMaps, Revises(p, F)
      PROVE  status[p] = "pending" /\ \A r \in Proposals \ {p} :
               /\ status'[r] = status[r] /\ files'[r] = files[r] /\ log'[r] = log[r]
               /\ appliedSha' = appliedSha /\ decidedAt' = decidedAt
  BY <1>3 DEF Revises, ReplaceFiles, TypeInv, TypeOK
<1>4. CASE Transits
  <2>1. PICK p \in Proposals, from, to \in Statuses, actor \in Actors, sha \in Shas \cup {NULL} :
               TransitOf(p, from, to, actor, sha)
    BY <1>4, TransitsShape
  <2>2. status[p] = from /\ NextStatuses(from) # {} /\ files' = files
    BY <2>1 DEF TransitOf, Transition, ErrorAfter, CanTransition
  <2>3. p # q => /\ status'[q] = status[q] /\ appliedSha'[q] = appliedSha[q]
                 /\ decidedAt'[q] = decidedAt[q] /\ log'[q] = log[q]
    BY <2>1 DEF TransitOf, Transition, ErrorAfter, TypeInv, TypeOK
  <2> QED
    BY <1>1, <2>2, <2>3
<1>5. ASSUME NEW p \in Proposals, NEW w \in Workers, NEW taken \in SUBSET Proposals, Claims(w, p, taken)
      PROVE  /\ files' = files /\ appliedSha' = appliedSha /\ decidedAt' = decidedAt
             /\ status[q] \notin {"approved", "applying"} =>
                  status'[q] = status[q] /\ log'[q] = log[q]
  BY <1>5 DEF Claims, TakeClaim, Lapsed, InStatus, TypeInv, TypeOK
<1>6. CASE \E rows \in SUBSET Proposals : Expires(rows)
  BY <1>1, <1>6 DEF Expires, ExpireRows, TooOld, InStatus, TypeInv, TypeOK
<1>7. CASE Quiet
  BY <1>7, QuietLeaves
<1> QED
  BY <1>1, <1>2, <1>3, <1>4, <1>5, <1>6, <1>7, StepCases

\* Files are frozen once a proposal is decided; status, decision, commit and events
\* once it is applied, rejected or expired.
THEOREM DecidedFrozen == Spec => DecidedIsFrozen
<1>1. TypeInv /\ [StoreStep]_vars =>
        [\A p \in Proposals :
           /\ status[p] \notin {Absent, "pending"} => files'[p] = files[p]
           /\ status[p] \in FinalStatuses =>
                /\ status'[p] = status[p]
                /\ appliedSha'[p] = appliedSha[p]
                /\ decidedAt'[p] = decidedAt[p]
                /\ log'[p] = log[p]]_vars
  BY FrozenStep
<1> QED
  BY <1>1, InitType, NextStores, StoreType, PTL DEF Spec, DecidedIsFrozen

LEMMA ProtectStep ==
  ASSUME TypeInv, ColumnsMatchStatus, [StoreStep]_vars, NEW q \in Proposals,
         lease[q] = "running", claimedBy'[q] # claimedBy[q]
  PROVE  status'[q] \in {"applied", "failed"}
<1>1. status[q] = "applying"
  BY DEF ColumnsMatchStatus
<1>2. CASE Transits
  <2>1. PICK p \in Proposals, from, to \in Statuses, actor \in Actors, sha \in Shas \cup {NULL} :
               TransitOf(p, from, to, actor, sha)
    BY <1>2, TransitsShape
  <2>2. p = q /\ from = "applying" /\ status'[q] = to
    BY <1>1, <2>1 DEF TransitOf, Transition, ErrorAfter, TypeInv, TypeOK
  <2> QED
    BY <2>1, <2>2 DEF TransitOf
<1>3. ASSUME NEW p \in Proposals, NEW w \in Workers, NEW taken \in SUBSET Proposals, Claims(w, p, taken)
      PROVE  FALSE
  BY <1>1, <1>3 DEF Claims, TakeClaim, Lapsed, InStatus, TypeInv, TypeOK
<1>4. CASE Quiet
  BY <1>4, QuietLeaves
<1> QED
  BY <1>2, <1>3, <1>4, StepCases DEF Creates, InsertProposal, Revises, ReplaceFiles, Expires, ExpireRows, TooOld

\* A claim whose lease runs is only given up by a mark.
THEOREM LeaseProtects == Spec => LeaseProtectsClaim
<1>1. TypeInv /\ ColumnsMatchStatus /\ [StoreStep]_vars =>
        [\A p \in Proposals :
           lease[p] = "running" /\ claimedBy'[p] # claimedBy[p] =>
             status'[p] \in {"applied", "failed"}]_vars
  BY ProtectStep
<1> QED
  BY <1>1, InitType, NextStores, StoreType, ColumnsAlwaysMatch, PTL DEF Spec, LeaseProtectsClaim

-----------------------------------------------------------------------------
(***************************************************************************)
(* The store implements the status machine.                                *)
(***************************************************************************)
LEMMA MoveStep ==
  ASSUME TypeInv, [StoreStep]_vars, NEW q \in Proposals, status'[q] # status[q]
  PROVE  Machine!Move(status[q], status'[q])
<1> USE DEF Machine!Move, Machine!Absent, Absent
<1>1. ASSUME NEW p \in Proposals, NEW F \in FileMaps, NEW first \in DOMAIN F, Creates(p, F, first)
      PROVE  status[q] = Absent /\ status'[q] = "pending"
  BY <1>1 DEF Creates, InsertProposal, TypeInv, TypeOK
<1>2. CASE Transits
  <2>1. PICK p \in Proposals, from, to \in Statuses, actor \in Actors, sha \in Shas \cup {NULL} :
               TransitOf(p, from, to, actor, sha)
    BY <1>2, TransitsShape
  <2>2. p = q /\ status[q] = from /\ status'[q] = to /\ to \in NextStatuses(from)
    BY <2>1 DEF TransitOf, Transition, ErrorAfter, CanTransition, TypeInv, TypeOK
  <2> QED
    BY <2>2 DEF NextStatuses, Machine!CanTransition, Machine!NextStatuses
<1>3. ASSUME NEW p \in Proposals, NEW w \in Workers, NEW taken \in SUBSET Proposals, Claims(w, p, taken)
      PROVE  \/ status[q] = "approved" /\ status'[q] = "applying"
             \/ status[q] = "applying" /\ status'[q] = "approved"
  BY <1>3 DEF Claims, TakeClaim, Lapsed, InStatus, TypeInv, TypeOK
<1>4. CASE \E rows \in SUBSET Proposals : Expires(rows)
  <2>1. status[q] = "pending" /\ status'[q] = "expired"
    BY <1>4 DEF Expires, ExpireRows, TooOld, InStatus, TypeInv, TypeOK
  <2> QED
    BY <2>1 DEF Machine!CanTransition, Machine!NextStatuses
<1>5. CASE Quiet
  BY <1>5, QuietLeaves
<1>6. CASE \E p \in Proposals, w \in Workers, taken \in SUBSET Proposals : Claims(w, p, taken)
  BY <1>3, <1>6 DEF Machine!CanTransition, Machine!NextStatuses
<1>7. CASE \E p \in Proposals, F \in FileMaps : \E first \in DOMAIN F : Creates(p, F, first)
  BY <1>1, <1>7
<1> QED
  BY <1>2, <1>4, <1>5, <1>6, <1>7, StepCases DEF Revises, ReplaceFiles

\* Every behaviour of the state database is one of the documented status machine:
\* also claim, lease reset and expiry, whose SQL does not ask CanTransition.
THEOREM Refinement == Spec => ImplementsStatusMachine
<1>1. Init => Machine!Init
  BY DEF Init, Machine!Init, Machine!Absent, Absent
<1>2. TypeInv /\ TypeInv' /\ [StoreStep]_vars => [Machine!Next]_status
  <2> SUFFICES ASSUME TypeInv, TypeInv', [StoreStep]_vars
               PROVE  Machine!Next
    OBVIOUS
  <2>1. DOMAIN status' = Proposals
    BY DEF TypeInv, TypeOK
  <2> QED
    BY <2>1, MoveStep DEF Machine!Next
<1> QED
  BY <1>1, <1>2, InitType, NextStores, StoreType, PTL DEF Spec, ImplementsStatusMachine, Machine!Spec
=============================================================================
