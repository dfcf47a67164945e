----------------------------- MODULE ApplyProofs ------------------------------
(***************************************************************************)
(* Proofs about the proposal-apply flow, for any numbers of proposals and  *)
(* jobs, any paths and contents, any faults and any bounds.  The one       *)
(* hypothesis some theorems need is that a commit id, which is a position  *)
(* in the history, is something a worker may report.                       *)
(***************************************************************************)
EXTENDS ApplyApproved, ProposalSafetyProofs

-----------------------------------------------------------------------------
(***************************************************************************)
(* The work directory.                                                     *)
(***************************************************************************)
\* An ancestor is a prefix.
LEMMA AncestorPoints ==
  ASSUME NEW S, NEW h \in Seq(S), NEW k \in Seq(S)
  PROVE  Git!IsAncestor(h, k) <=> Len(h) <= Len(k) /\ \A i \in 1..Len(h) : k[i] = h[i]
<1>1. ASSUME Len(h) <= Len(k)
      PROVE  /\ SubSeq(k, 1, Len(h)) \in Seq(S) /\ Len(SubSeq(k, 1, Len(h))) = Len(h)
             /\ \A i \in 1..Len(h) : SubSeq(k, 1, Len(h))[i] = k[i]
  BY <1>1
<1>2. ASSUME NEW s \in Seq(S), Len(s) = Len(h), \A i \in 1..Len(h) : s[i] = h[i]
      PROVE  s = h
  BY <1>2
<1> QED
  BY <1>1, <1>2 DEF Git!IsAncestor

LEMMA AncestorOfItself ==
  ASSUME NEW S, NEW h \in Seq(S) PROVE Git!IsAncestor(h, h)
  BY AncestorPoints

LEMMA AncestorOfLonger ==
  ASSUME NEW S, NEW h \in Seq(S), NEW e \in S, NEW k \in Seq(S), Git!IsAncestor(k, h)
  PROVE  Git!IsAncestor(k, Append(h, e))
<1> DEFINE longer == Append(h, e)
<1>1. longer \in Seq(S) /\ Len(longer) = Len(h) + 1 /\ \A i \in 1..Len(h) : longer[i] = h[i]
  OBVIOUS
<1>2. Len(k) <= Len(h) /\ \A i \in 1..Len(k) : h[i] = k[i]
  BY AncestorPoints
<1>3. Len(k) \in Nat /\ Len(h) \in Nat
  OBVIOUS
<1> HIDE DEF longer
<1>4. Len(k) <= Len(longer) /\ \A i \in 1..Len(k) : longer[i] = k[i]
  BY <1>1, <1>2, <1>3
<1>5. Git!IsAncestor(k, longer)
  BY <1>1, <1>4, AncestorPoints
<1> QED
  BY <1>5 DEF longer

LEMMA AncestorsOfEachOther ==
  ASSUME NEW S, NEW h \in Seq(S), NEW k \in Seq(S), Git!IsAncestor(h, k), Git!IsAncestor(k, h)
  PROVE  h = k
<1>1. Len(h) = Len(k) /\ \A i \in 1..Len(h) : k[i] = h[i]
  BY AncestorPoints
<1> QED
  BY <1>1

\* The content a path of a tree may have.
GitContents == (Contents \cup FlowContents \cup {Truncated}) \cup {NoFile}

LEMMA TreesAre == Git!Trees = [Paths -> GitContents]
  BY DEF Git!Trees, GitContents

LEMMA TreeOfType ==
  ASSUME NEW h \in Seq(Git!Commits), h # <<>>
  PROVE  Len(h) \in DOMAIN h /\ Git!TreeOf(h) \in Git!Trees
<1>1. Len(h) \in DOMAIN h /\ h[Len(h)] \in Git!Commits
  OBVIOUS
<1> QED
  BY <1>1 DEF Git!TreeOf, Git!Commits

LEMMA PartType ==
  ASSUME NEW from \in Git!Trees, NEW base \in Git!Trees, NEW ps
  PROVE  Git!Part(from, base, ps) \in Git!Trees
  BY DEF Git!Part, Git!Trees

\* The commit of canonical is one of the work directory: the clone is the only one
\* that pushes.
GitInv == Git!TypeOK /\ Git!IsAncestor(canonical, head)

\* What the program does in the work directory, seen from its two histories.
GitCommits ==
  \E work \in Git!Trees, by \in Proposals \cup {"flow"} : \E pathspec :
    Git!CommitPathspec(work, pathspec, by)
GitChanges == tree' \in Git!Trees /\ index' \in Git!Trees /\ UNCHANGED <<head, canonical>>
GitStep == GitCommits \/ GitChanges \/ Git!EnsureWork \/ Git!Push

LEMMA CommitEffect ==
  ASSUME Git!TypeOK, NEW work \in Git!Trees, NEW ps, NEW by \in Proposals \cup {"flow"},
         Git!CommitPathspec(work, ps, by)
  PROVE  /\ tree' = work /\ index' = Git!Part(work, index, ps) /\ canonical' = canonical
         /\ \/ head' = head /\ Git!Part(work, index, ps) = Git!TreeOf(head)
            \/ head' = Append(head, [tree |-> Git!Part(work, Git!TreeOf(head), ps), by |-> by])
         /\ [tree |-> Git!Part(work, Git!TreeOf(head), ps), by |-> by] \in Git!Commits
         /\ index' \in Git!Trees
<1>1. Git!TreeOf(head) \in Git!Trees
  BY TreeOfType DEF Git!TypeOK
<1>2. Git!Part(work, Git!TreeOf(head), ps) \in Git!Trees /\ Git!Part(work, index, ps) \in Git!Trees
  BY <1>1, PartType DEF Git!TypeOK
<1>3. [tree |-> Git!Part(work, Git!TreeOf(head), ps), by |-> by] \in Git!Commits
  BY <1>2 DEF Git!Commits
<1> QED
  BY <1>2, <1>3 DEF Git!CommitPathspec, Git!HasStagedChanges, Git!Added

\* Reset to canonical or not, ensure-work leaves both histories as they are: the work
\* directory is never behind.
LEMMA EnsureEffect ==
  ASSUME GitInv, Git!EnsureWork
  PROVE  /\ head' = head /\ canonical' = canonical
         /\ index' = Git!TreeOf(head)
         /\ tree' \in Git!Trees
         /\ \A t \in Paths : tree'[t] \in {tree[t], Git!TreeOf(head)[t]}
<1> DEFINE C == Git!Commits
<1>1. canonical \in Seq(C) /\ head \in Seq(C) /\ head # <<>>
  BY DEF GitInv, Git!TypeOK
<1>2. Git!TreeOf(head) \in Git!Trees /\ tree \in Git!Trees
  BY <1>1, TreeOfType DEF GitInv, Git!TypeOK
<1>3. CASE Git!IsAncestor(head, canonical)
  <2>1. head = canonical
    BY <1>1, <1>3, AncestorsOfEachOther DEF GitInv
  <2>2. Git!ResetHard(canonical)
    BY <1>3 DEF Git!EnsureWork
  <2>3. tree' = [t \in Paths |->
                   IF NoFile = index[t] /\ NoFile = Git!TreeOf(head)[t] /\ NoFile = Git!TreeOf(canonical)[t]
                   THEN tree[t] ELSE Git!TreeOf(canonical)[t]]
    BY <2>2 DEF Git!ResetHard
  <2>4. tree' \in Git!Trees /\ \A t \in Paths : tree'[t] \in {tree[t], Git!TreeOf(head)[t]}
    BY <1>2, <2>1, <2>3 DEF Git!Trees
  <2> QED
    BY <2>1, <2>2, <2>4 DEF Git!ResetHard
<1>4. CASE ~Git!IsAncestor(head, canonical)
  BY <1>2, <1>4 DEF Git!EnsureWork
<1> QED
  BY <1>3, <1>4

LEMMA GitTypes ==
  ASSUME Git!TypeOK PROVE canonical \in Seq(Git!Commits) /\ head \in Seq(Git!Commits)
  BY DEF Git!TypeOK

LEMMA GitStepGrows ==
  ASSUME GitInv, GitStep \/ UNCHANGED gitVars
  PROVE  /\ GitInv'
         /\ Git!IsAncestor(head, head') /\ Git!IsAncestor(canonical, canonical')
<1>1. /\ canonical \in Seq(Git!Commits) /\ head \in Seq(Git!Commits)
      /\ Git!IsAncestor(head, head) /\ Git!IsAncestor(canonical, canonical)
      /\ Git!IsAncestor(canonical, head)
  <2>1. canonical \in Seq(Git!Commits) /\ head \in Seq(Git!Commits)
    BY GitTypes DEF GitInv
  <2> QED
    BY <2>1, AncestorOfItself DEF GitInv
<1>2. CASE GitCommits
  <2>1. PICK work \in Git!Trees, by \in Proposals \cup {"flow"} :
          \E pathspec : Git!CommitPathspec(work, pathspec, by)
    BY <1>2 DEF GitCommits
  <2>2. /\ tree' \in Git!Trees /\ index' \in Git!Trees /\ canonical' = canonical
        /\ \/ head' = head
           \/ \E c \in Git!Commits : head' = Append(head, c)
    BY <2>1, CommitEffect DEF GitInv
  <2>3. CASE head' = head
    BY <1>1, <2>2, <2>3 DEF GitInv, Git!TypeOK
  <2>4. CASE \E c \in Git!Commits : head' = Append(head, c)
    <3>1. PICK c \in Git!Commits : head' = Append(head, c)
      BY <2>4
    <3>2. /\ Git!IsAncestor(head, head') /\ Git!IsAncestor(canonical, head')
          /\ head' \in Seq(Git!Commits) /\ head' # <<>>
      BY <1>1, <3>1, AncestorOfLonger
    <3> QED
      BY <1>1, <2>2, <3>2 DEF GitInv, Git!TypeOK
  <2> QED
    BY <2>2, <2>3, <2>4
<1>3. CASE GitChanges \/ UNCHANGED gitVars
  BY <1>1, <1>3 DEF GitChanges, gitVars, GitInv, Git!TypeOK
<1>4. CASE Git!EnsureWork
  <2>1. index' \in Git!Trees
    BY <1>1, <1>4, EnsureEffect, TreeOfType DEF GitInv, Git!TypeOK
  <2> QED
    BY <1>1, <1>4, <2>1, EnsureEffect DEF GitInv, Git!TypeOK
<1>5. CASE Git!Push
  BY <1>1, <1>5 DEF Git!Push, GitInv, Git!TypeOK
<1> QED
  BY <1>2, <1>3, <1>4, <1>5 DEF GitStep

-----------------------------------------------------------------------------
(***************************************************************************)
(* The state database under the flow.                                      *)
(***************************************************************************)
\* The statuses of a proposal that has been approved at some time.
EverApproved == {"approved", "applying", "applied", "failed"}

\* The log shows an approval for the proposals in these statuses and no others.
ApprovalLogged == \A p \in Proposals : WasApproved(p) <=> status[p] \in EverApproved

Approvals(events) == \E i \in DOMAIN events : events[i].to = "approved"

LEMMA ApprovalsAppend ==
  ASSUME NEW events \in Seq(Events), NEW from, NEW to, NEW actor
  PROVE  Approvals(Append(events, Event(from, to, actor))) <=> Approvals(events) \/ to = "approved"
<1> DEFINE e == Event(from, to, actor)
<1>1. /\ DOMAIN Append(events, e) = DOMAIN events \cup {Len(events) + 1}
      /\ \A i \in DOMAIN events : Append(events, e)[i] = events[i]
      /\ Append(events, e)[Len(events) + 1] = e
  OBVIOUS
<1>2. e.to = to
  BY DEF Event
<1> HIDE DEF e
<1>3. Approvals(Append(events, e)) <=> Approvals(events) \/ to = "approved"
  BY <1>1, <1>2 DEF Approvals
<1> QED
  BY <1>3 DEF e

\* What one step does to the status and the log of a row: nothing, an event, or the
\* two events of a claim that takes the row back first.
RowMoves(q, to, actor) ==
  /\ status'[q] = to /\ log'[q] = Append(log[q], Event(status[q], to, actor))
  /\ \/ to \in NextStatuses(status[q])
     \/ status[q] \in {Absent, "pending"} /\ to = "pending"

RowStep(q) ==
  \/ status'[q] = status[q] /\ log'[q] = log[q]
  \/ \E to \in Statuses, actor \in Actors : RowMoves(q, to, actor)
  \/ /\ status[q] = "applying" /\ status'[q] = "applying"
     /\ \E w \in Workers :
          log'[q] = Append(Append(log[q], Event("applying", "approved", "lease-expired")),
                           Event("approved", "applying", w))

LEMMA RowSteps ==
  ASSUME TypeInv, [StoreStep]_vars, NEW q \in Proposals
  PROVE  RowStep(q)
<1>1. ASSUME NEW p \in Proposals, NEW F \in FileMaps, NEW first \in DOMAIN F, Creates(p, F, first)
      PROVE  RowStep(q)
  <2>1. CASE p = q
    <3>1. RowMoves(q, "pending", "flow") /\ "pending" \in Statuses /\ "flow" \in Actors
      BY <1>1, <2>1 DEF Creates, InsertProposal, TypeInv, TypeOK, RowMoves, Statuses, Actors
    <3> QED
      BY <3>1 DEF RowStep
  <2> QED
    BY <1>1, <2>1 DEF Creates, InsertProposal, TypeInv, TypeOK, RowStep
<1>2. ASSUME NEW p \in Proposals, NEW F \in FileMaps, Revises(p, F)
      PROVE  RowStep(q)
  <2>1. CASE p = q
    <3>1. RowMoves(q, "pending", "reviewer") /\ "pending" \in Statuses /\ "reviewer" \in Actors
      BY <1>2, <2>1 DEF Revises, ReplaceFiles, TypeInv, TypeOK, RowMoves, Statuses, Actors
    <3> QED
      BY <3>1 DEF RowStep
  <2> QED
    BY <1>2, <2>1 DEF Revises, ReplaceFiles, TypeInv, TypeOK, RowStep
<1>3. CASE Transits
  <2>1. PICK p \in Proposals, from, to \in Statuses, actor \in Actors, sha \in Shas \cup {NULL} :
               TransitOf(p, from, to, actor, sha)
    BY <1>3, TransitsShape
  <2>2. CASE p = q
    <3>1. RowMoves(q, to, actor)
      BY <2>1, <2>2 DEF TransitOf, Transition, ErrorAfter, CanTransition, TypeInv, TypeOK, RowMoves
    <3> QED
      BY <3>1 DEF RowStep
  <2> QED
    BY <2>1, <2>2 DEF TransitOf, Transition, ErrorAfter, TypeInv, TypeOK, RowStep
<1>4. ASSUME NEW p \in Proposals, NEW w \in Workers, NEW taken \in SUBSET Proposals, Claims(w, p, taken)
      PROVE  RowStep(q)
  <2> DEFINE back == Event("applying", "approved", "lease-expired")
             mine == Event("approved", "applying", w)
  <2>1. /\ status' = [[r \in Proposals |-> IF r \in taken THEN "approved" ELSE status[r]]
                      EXCEPT ![p] = "applying"]
        /\ log' = [[r \in Proposals |-> IF r \in taken THEN Append(log[r], back) ELSE log[r]]
                   EXCEPT ![p] = Append(@, mine)]
    BY <1>4 DEF Claims, TakeClaim
  <2>2. \A r \in taken : status[r] = "applying"
    BY <1>4 DEF Claims, Lapsed, InStatus
  <2>3. p \notin taken => status[p] = "approved"
    BY <1>4 DEF Claims, InStatus
  <2>4. /\ {"approved", "applying"} \subseteq Statuses /\ "lease-expired" \in Actors /\ w \in Actors
        /\ "approved" \in NextStatuses("applying") /\ "applying" \in NextStatuses("approved")
    BY DEF Statuses, Actors, NextStatuses
  <2> HIDE DEF back, mine
  <2>5. CASE q = p /\ q \in taken
    <3>1. status'[q] = "applying" /\ log'[q] = Append(Append(log[q], back), mine)
      BY <2>1, <2>5
    <3> QED
      BY <2>2, <2>5, <3>1 DEF RowStep, back, mine
  <2>6. CASE q = p /\ q \notin taken
    <3>1. status'[q] = "applying" /\ log'[q] = Append(log[q], mine)
      BY <2>1, <2>6
    <3>2. RowMoves(q, "applying", w)
      BY <2>3, <2>4, <2>6, <3>1 DEF RowMoves, mine
    <3> QED
      BY <2>4, <3>2 DEF RowStep
  <2>7. CASE q # p /\ q \in taken
    <3>1. status'[q] = "approved" /\ log'[q] = Append(log[q], back)
      BY <2>1, <2>7
    <3>2. RowMoves(q, "approved", "lease-expired")
      BY <2>2, <2>4, <2>7, <3>1 DEF RowMoves, back
    <3> QED
      BY <2>4, <3>2 DEF RowStep
  <2>8. CASE q # p /\ q \notin taken
    <3>1. status'[q] = status[q] /\ log'[q] = log[q]
      BY <2>1, <2>8
    <3> QED
      BY <3>1 DEF RowStep
  <2> QED
    BY <2>5, <2>6, <2>7, <2>8
<1>5. CASE \E rows \in SUBSET Proposals : Expires(rows)
  <2>1. PICK rows \in SUBSET Proposals : Expires(rows)
    BY <1>5
  <2>2. CASE q \in rows
    <3>1. status[q] = "pending" /\ "expired" \in NextStatuses("pending")
          /\ "expired" \in Statuses /\ "expirer" \in Actors
      BY <2>1, <2>2 DEF Expires, TooOld, InStatus, NextStatuses, Statuses, Actors
    <3>2. RowMoves(q, "expired", "expirer")
      BY <2>1, <2>2, <3>1 DEF Expires, ExpireRows, RowMoves
    <3> QED
      BY <3>1, <3>2 DEF RowStep
  <2> QED
    BY <2>1, <2>2 DEF Expires, ExpireRows, RowStep
<1>6. CASE Quiet
  BY <1>6, QuietLeaves DEF RowStep
<1> QED
  BY <1>1, <1>2, <1>3, <1>4, <1>5, <1>6, StepCases

LEMMA ApprovalNext ==
  ASSUME TypeInv, ApprovalLogged, [StoreStep]_vars
  PROVE  ApprovalLogged'
<1> SUFFICES ASSUME NEW q \in Proposals
             PROVE  Approvals(log'[q]) <=> status'[q] \in EverApproved
  BY DEF ApprovalLogged, WasApproved, Approvals
<1>1. log[q] \in Seq(Events) /\ status[q] \in Statuses \cup {Absent}
  BY DEF TypeInv, TypeOK
<1>2. Approvals(log[q]) <=> status[q] \in EverApproved
  BY DEF ApprovalLogged, WasApproved, Approvals
<1>3. ASSUME NEW to \in Statuses, NEW actor \in Actors, RowMoves(q, to, actor)
      PROVE  Approvals(log'[q]) <=> status'[q] \in EverApproved
  <2>1. Approvals(log'[q]) <=> Approvals(log[q]) \/ to = "approved"
    BY <1>1, <1>3, ApprovalsAppend DEF RowMoves
  <2>2. status[q] \in EverApproved => to \in EverApproved
    BY <1>1, <1>3 DEF RowMoves, EverApproved, NextStatuses, Statuses, Absent
  <2>3. status[q] \notin EverApproved /\ to \in EverApproved => to = "approved"
    BY <1>1, <1>3 DEF RowMoves, EverApproved, NextStatuses, Statuses, Absent
  <2> QED
    BY <1>2, <1>3, <2>1, <2>2, <2>3 DEF RowMoves, EverApproved
<1>4. ASSUME NEW w \in Workers, status[q] = "applying", status'[q] = "applying",
             log'[q] = Append(Append(log[q], Event("applying", "approved", "lease-expired")),
                              Event("approved", "applying", w))
      PROVE  Approvals(log'[q]) <=> status'[q] \in EverApproved
  <2>1. Append(log[q], Event("applying", "approved", "lease-expired")) \in Seq(Events)
    BY <1>1, AppendType DEF Statuses, Actors
  <2>2. Approvals(Append(log[q], Event("applying", "approved", "lease-expired")))
    BY <1>1, ApprovalsAppend
  <2>3. Approvals(log'[q])
    <3> DEFINE once == Append(log[q], Event("applying", "approved", "lease-expired"))
    <3>1. once \in Seq(Events) /\ Approvals(once)
      BY <2>1, <2>2
    <3> HIDE DEF once
    <3>2. Approvals(Append(once, Event("approved", "applying", w)))
      BY <3>1, ApprovalsAppend
    <3> QED
      BY <1>4, <3>2 DEF once
  <2> QED
    BY <1>4, <2>3 DEF EverApproved
<1>5. RowStep(q)
  BY RowSteps
<1> QED
  BY <1>2, <1>3, <1>4, <1>5 DEF RowStep

\* A proposal that was approved stays so, and its files never change.
LEMMA ApprovedStays ==
  ASSUME TypeInv, [StoreStep]_vars, NEW q \in Proposals, status[q] \in EverApproved
  PROVE  status'[q] \in EverApproved /\ files'[q] = files[q]
<1>1. files'[q] = files[q]
  BY FrozenStep DEF EverApproved, Absent
<1>2. status'[q] \in EverApproved
  BY RowSteps DEF RowStep, RowMoves, EverApproved, NextStatuses, Absent
<1> QED
  BY <1>1, <1>2

-----------------------------------------------------------------------------
(***************************************************************************)
(* The inductive invariant of the flow: what a job has committed stays in  *)
(* the history and holds the files of an approved proposal, which cannot   *)
(* change any more; a job marks proposals as applied only when canonical   *)
(* has their commits.                                                      *)
(***************************************************************************)
Recorded(d) ==
  /\ status[d.id] \in EverApproved
  /\ d.sha \in DOMAIN head
  /\ \A t \in CommittedTargets(d.id) : head[d.sha].tree[t] = files[d.id][t]

StageInv(w) ==
  /\ job[w].at \in {"apply", "fail"} =>
       job[w].claimed \in Proposals /\ status[job[w].claimed] \in EverApproved
  /\ job[w].at \in {"push", "mark", "markfailed"} => job[w].done # <<>>

DoneInv(w) == \A i \in DOMAIN job[w].done : Recorded(job[w].done[i])

MarkInv(w) ==
  job[w].at = "mark" => \A i \in DOMAIN job[w].done : job[w].done[i].sha \in DOMAIN canonical

JobInv(w) == StageInv(w) /\ DoneInv(w) /\ MarkInv(w)

ApplyInv ==
  /\ TypeInv /\ GitInv
  /\ job \in [Workers -> Jobs] /\ faults \in 0..MaxFaults
  /\ \A w \in Workers : JobInv(w)

LEMMA WrittenType ==
  ASSUME Git!TypeOK, NEW F, \A t \in DOMAIN F : F[t] \in GitContents
  PROVE  Git!Written(F) \in Git!Trees
<1>1. tree \in [Paths -> GitContents]
  BY TreesAre DEF Git!TypeOK
<1>2. Git!Written(F) \in [Paths -> GitContents]
  BY <1>1 DEF Git!Written
<1> QED
  BY <1>2, TreesAre

LEMMA WrittenFiles ==
  ASSUME TypeInv, Git!TypeOK, NEW p \in Proposals
  PROVE  Git!Written(files[p]) \in Git!Trees
<1>1. \A t \in DOMAIN files[p] : files[p][t] \in GitContents
  BY DEF TypeInv, TypeOK, FileMaps, GitContents
<1> QED
  BY <1>1, WrittenType

\* The commits a job has made are of proposals, at positions in the history.
LEMMA DoneType ==
  ASSUME ApplyInv, NEW w \in Workers
  PROVE  /\ job[w] \in Jobs
         /\ \A i \in DOMAIN job[w].done :
              /\ job[w].done[i] \in Committed /\ job[w].done[i].id \in Proposals
              /\ job[w].done[i].sha \in Nat \ {0}
<1>1. job[w] \in Jobs /\ job[w].done \in Seq(Committed) /\ DoneInv(w)
  BY DEF ApplyInv, JobInv, Jobs
<1>2. head \in Seq(Git!Commits)
  BY GitTypes DEF ApplyInv, GitInv
<1>3. DOMAIN head \subseteq Nat \ {0}
  BY <1>2
<1>4. \A i \in DOMAIN job[w].done : job[w].done[i] \in Committed
  BY <1>1
<1> QED
  BY <1>1, <1>3, <1>4 DEF DoneInv, Recorded, Committed

\* The first of the commits a job has yet to report.
LEMMA FirstDone ==
  ASSUME ApplyInv, NEW w \in Workers, job[w].at \in {"push", "mark", "markfailed"}
  PROVE  /\ 1 \in DOMAIN job[w].done /\ Head(job[w].done) = job[w].done[1]
         /\ Tail(job[w].done) \in Seq(Committed)
         /\ \A i \in DOMAIN Tail(job[w].done) :
              i + 1 \in DOMAIN job[w].done /\ Tail(job[w].done)[i] = job[w].done[i + 1]
<1>1. job[w].done \in Seq(Committed) /\ job[w].done # <<>>
  BY DEF ApplyInv, JobInv, StageInv, Jobs
<1> QED
  BY <1>1

-----------------------------------------------------------------------------
(***************************************************************************)
(* What a step of the flow is to the state database and to git.            *)
(***************************************************************************)
\* The steps of the flow write the files of new proposals only, and those find their
\* targets free.
FlowStores ==
  \/ \E p \in Proposals, F \in FileMaps : \E first \in DOMAIN F :
       Creates(p, F, first) /\ TargetsFree(F, p)
  \/ FilesStay

LEMMA EnvironmentStores == Environment => FlowStores /\ UNCHANGED gitVars
<1>1. ASSUME NEW p \in Proposals, NEW F \in FileMaps, NEW first \in DOMAIN F, Create(p, F, first)
      PROVE  FlowStores
  BY <1>1 DEF Create, Creates, FlowStores
<1>2. ASSUME NEW p \in Proposals, Approve(p) \/ Retry(p) PROVE FlowStores
  BY <1>2 DEF FlowStores, FilesStay, Transits
<1> QED
  BY <1>1, <1>2 DEF Environment

\* A step of a job either leaves the database alone, or is one of its operations.
LEMMA ApplyOnStore ==
  ASSUME Nat \ {0} \subseteq Shas, ApplyInv, [ApplyNext]_allVars
  PROVE  FlowStores
<1>1. ASSUME NEW w \in Workers, NEW p \in Proposals, NEW held \in SUBSET Proposals, ClaimNext(w, p, held)
      PROVE  FlowStores
  <2>1. Lapsed \in SUBSET Proposals /\ Claims(w, p, Lapsed)
    BY <1>1 DEF ClaimNext, Claim, Claims, Lapsed, InStatus
  <2> QED
    BY <2>1 DEF FlowStores, FilesStay
<1>2. ASSUME UNCHANGED vars PROVE FlowStores
  BY <1>2 DEF FlowStores, FilesStay, Quiet
<1>3. ASSUME NEW w \in Workers, ReportFailure(w) PROVE FlowStores
  <2>1. job[w].claimed \in Proposals
    BY <1>3 DEF ReportFailure, ApplyInv, JobInv, StageInv
  <2> QED
    BY <1>2, <1>3, <2>1 DEF ReportFailure, FlowStores, FilesStay, Transits
<1>4. ASSUME NEW w \in Workers, Report(w) PROVE FlowStores
  <2>1. Head(job[w].done).id \in Proposals /\ Head(job[w].done).sha \in Shas
    BY <1>4, FirstDone, DoneType DEF Report
  <2> QED
    BY <1>4, <2>1 DEF Report, FlowStores, FilesStay, Transits
<1>5. ASSUME NEW w \in Workers, JobStep(w) PROVE FlowStores
  <2>1. CASE StartJob(w) \/ NothingToClaim(w) \/ Apply(w) \/ ApplyCannotCommit(w) \/ Push(w)
             \/ ReportRefused(w)
    BY <1>2, <2>1 DEF StartJob, NothingToClaim, Apply, ApplyCannotCommit, Push, ReportRefused
  <2> QED
    BY <1>1, <1>3, <1>4, <1>5, <2>1 DEF JobStep
<1>6. ASSUME NEW w \in Workers, FaultStep(w) PROVE UNCHANGED vars
  BY <1>6 DEF FaultStep, WriteFails, CommitFails, PushFails, Crash
<1>7. ASSUME NEW p \in Proposals, OrphanLeaseEnds(p) \/ LeaseEndsEarly(p) PROVE FlowStores
  BY <1>7 DEF OrphanLeaseEnds, LeaseEndsEarly, FlowStores, FilesStay, Quiet
<1>8. ASSUME NEW t \in Paths, NEW c \in FlowContents, FlowWrites(t, c) PROVE UNCHANGED vars
  BY <1>8 DEF FlowWrites
<1>9. ASSUME NEW ps, FlowCommits(ps) PROVE UNCHANGED vars
  BY <1>9 DEF FlowCommits
<1>10. CASE FlowEnsures \/ FlowPushes \/ UNCHANGED allVars
  BY <1>2, <1>10 DEF FlowEnsures, FlowPushes, allVars
<1> QED
  BY <1>2, <1>5, <1>6, <1>7, <1>8, <1>9, <1>10, EnvironmentStores DEF ApplyNext

LEMMA ApplyStores ==
  ASSUME Nat \ {0} \subseteq Shas, ApplyInv, [ApplyNext]_allVars
  PROVE  [StoreStep]_vars
  BY ApplyOnStore DEF FlowStores, StoreStep

LEMMA FlowGit ==
  ASSUME ApplyInv, [ApplyNext]_allVars,
         ~ (\E w \in Workers : JobStep(w) \/ FaultStep(w))
  PROVE  GitStep \/ UNCHANGED gitVars
<1>1. ASSUME NEW t \in Paths, NEW c \in FlowContents, FlowWrites(t, c) PROVE GitStep
  <2>1. Git!Written([u \in {t} |-> c]) \in Git!Trees
    <3>1. \A s \in DOMAIN [u \in {t} |-> c] : [u \in {t} |-> c][s] \in GitContents
      BY DEF GitContents
    <3> QED
      BY <3>1, WrittenType DEF ApplyInv, GitInv
  <2> QED
    BY <1>1, <2>1 DEF FlowWrites, Git!Write, GitStep, GitChanges, ApplyInv, GitInv, Git!TypeOK
<1>2. ASSUME NEW ps, FlowCommits(ps) PROVE GitStep
  <2>1. tree \in Git!Trees
    BY DEF ApplyInv, GitInv, Git!TypeOK
  <2> QED
    BY <1>2, <2>1 DEF FlowCommits, GitStep, GitCommits
<1>3. CASE FlowEnsures \/ FlowPushes
  BY <1>3 DEF FlowEnsures, FlowPushes, GitStep
<1>4. ASSUME NEW p \in Proposals, OrphanLeaseEnds(p) \/ LeaseEndsEarly(p) PROVE UNCHANGED gitVars
  BY <1>4 DEF OrphanLeaseEnds, LeaseEndsEarly
<1>5. CASE UNCHANGED allVars
  BY <1>5 DEF allVars
<1> QED
  BY <1>1, <1>2, <1>3, <1>4, <1>5, EnvironmentStores DEF ApplyNext

LEMMA JobGit ==
  ASSUME ApplyInv, NEW w \in Workers, JobStep(w) \/ FaultStep(w)
  PROVE  GitStep \/ UNCHANGED gitVars
<1> DEFINE p == job[w].claimed
           written == Git!Written(files[p])
<1>1. job[w].at \in {"apply", "fail"} => p \in Proposals
  BY DEF ApplyInv, JobInv, StageInv
<1>2. Git!TypeOK /\ TypeInv
  BY DEF ApplyInv, GitInv
<1>3. job[w].at = "apply" => written \in Git!Trees
  BY <1>1, <1>2, WrittenFiles
<1>4. \A ps : job[w].at = "apply" => Git!Part(written, index, ps) \in Git!Trees
  BY <1>2, <1>3, PartType DEF Git!TypeOK
<1>5. index \in Git!Trees
  BY <1>2 DEF Git!TypeOK
<1>6. CASE Apply(w)
  BY <1>1, <1>3, <1>6 DEF Apply, GitStep, GitCommits
<1>7. CASE ApplyCannotCommit(w)
  BY <1>3, <1>4, <1>7 DEF ApplyCannotCommit, GitStep, GitChanges, Git!Added
<1>8. CASE CommitFails(w)
  <2>1. job[w].at = "apply"
    BY <1>8 DEF CommitFails
  <2>2. CASE Git!CommitFails(written, CommitSpec(p))
    BY <1>3, <1>4, <1>5, <2>1, <2>2 DEF Git!CommitFails, GitStep, GitChanges, Git!Added
  <2>3. CASE Git!CommitPathspec(written, CommitSpec(p), p)
    BY <1>1, <1>3, <2>1, <2>3 DEF GitStep, GitCommits
  <2> QED
    BY <1>8, <2>2, <2>3 DEF CommitFails
<1>9. CASE WriteFails(w)
  <2>1. p \in Proposals
    BY <1>1, <1>9 DEF WriteFails
  <2>2. files[p] \in FileMaps
    BY <1>2, <2>1 DEF TypeInv, TypeOK
  <2>3. \A t \in DOMAIN files[p] : files[p][t] \in Contents
    BY <2>2 DEF FileMaps
  <2>4. PICK t \in DOMAIN files[p], cut \in BOOLEAN :
          LET before == {s \in DOMAIN files[p] \ {t} : FirstTarget({s, t}) = s}
          IN Git!Write([s \in before \cup (IF cut THEN {t} ELSE {}) |->
                          IF s = t THEN Truncated ELSE files[p][s]])
    BY <1>9 DEF WriteFails
  <2> DEFINE before == {s \in DOMAIN files[p] \ {t} : FirstTarget({s, t}) = s}
             part == [s \in before \cup (IF cut THEN {t} ELSE {}) |->
                        IF s = t THEN Truncated ELSE files[p][s]]
  <2>5. \A s \in DOMAIN part : part[s] \in GitContents
    BY <2>3 DEF GitContents
  <2>6. Git!Write(part)
    BY <2>4
  <2> HIDE DEF part
  <2>7. Git!Written(part) \in Git!Trees
    BY <1>2, <2>5, WrittenType
  <2> QED
    BY <1>5, <2>6, <2>7 DEF Git!Write, GitStep, GitChanges
<1>10. CASE StartJob(w) \/ Push(w) \/ PushFails(w)
  BY <1>10 DEF StartJob, Push, PushFails, GitStep
<1>11. CASE \/ \E q \in Proposals, held \in SUBSET Proposals : ClaimNext(w, q, held)
            \/ NothingToClaim(w) \/ ReportFailure(w) \/ Report(w) \/ ReportRefused(w) \/ Crash(w)
  BY <1>11 DEF ClaimNext, NothingToClaim, ReportFailure, Report, ReportRefused, Crash
<1> QED
  BY <1>6, <1>7, <1>8, <1>9, <1>10, <1>11 DEF JobStep, FaultStep

LEMMA ApplyGit ==
  ASSUME ApplyInv, [ApplyNext]_allVars
  PROVE  GitStep \/ UNCHANGED gitVars
  BY FlowGit, JobGit

-----------------------------------------------------------------------------
(***************************************************************************)
(* The invariant is preserved.                                             *)
(***************************************************************************)
LEMMA HistoriesGrow ==
  ASSUME ApplyInv, [ApplyNext]_allVars
  PROVE  /\ GitInv'
         /\ DOMAIN head \subseteq DOMAIN head' /\ \A i \in DOMAIN head : head'[i] = head[i]
         /\ DOMAIN canonical \subseteq DOMAIN canonical'
         /\ \A i \in DOMAIN canonical : canonical'[i] = canonical[i]
         /\ DOMAIN canonical \subseteq DOMAIN head
         /\ \A i \in DOMAIN canonical : head[i] = canonical[i]
<1>1. /\ GitInv' /\ Git!IsAncestor(head, head') /\ Git!IsAncestor(canonical, canonical')
      /\ Git!IsAncestor(canonical, head)
  BY ApplyGit, GitStepGrows DEF ApplyInv, GitInv
<1>2. /\ canonical \in Seq(Git!Commits) /\ head \in Seq(Git!Commits)
      /\ canonical' \in Seq(Git!Commits) /\ head' \in Seq(Git!Commits)
  BY <1>1 DEF ApplyInv, GitInv, Git!TypeOK
<1>3. /\ Len(head) <= Len(head') /\ \A i \in 1..Len(head) : head'[i] = head[i]
      /\ Len(canonical) <= Len(canonical') /\ \A i \in 1..Len(canonical) : canonical'[i] = canonical[i]
      /\ Len(canonical) <= Len(head) /\ \A i \in 1..Len(canonical) : head[i] = canonical[i]
  BY <1>1, <1>2, AncestorPoints
<1>4. /\ DOMAIN head = 1..Len(head) /\ DOMAIN head' = 1..Len(head')
      /\ DOMAIN canonical = 1..Len(canonical) /\ DOMAIN canonical' = 1..Len(canonical')
      /\ {Len(head), Len(head'), Len(canonical), Len(canonical')} \subseteq Nat
  BY <1>2
<1> QED
  BY <1>1, <1>3, <1>4

\* What a job has recorded stays recorded.
LEMMA RecordedStays ==
  ASSUME ApplyInv, [ApplyNext]_allVars, [StoreStep]_vars, NEW d, d.id \in Proposals, Recorded(d)
  PROVE  Recorded(d)'
<1>1. status'[d.id] \in EverApproved /\ files'[d.id] = files[d.id]
  BY ApprovedStays DEF Recorded, ApplyInv
<1>2. CommittedTargets(d.id)' = CommittedTargets(d.id)
  BY <1>1 DEF CommittedTargets, CommitSpec
<1>3. d.sha \in DOMAIN head' /\ head'[d.sha] = head[d.sha]
  BY HistoriesGrow DEF Recorded
<1> QED
  BY <1>1, <1>2, <1>3 DEF Recorded

\* A job whose record is the one before the step, or a part of it, keeps its
\* invariant, when it is not one that has just been told to mark.
LEMMA KeepsDone ==
  ASSUME ApplyInv, [ApplyNext]_allVars, [StoreStep]_vars, NEW w \in Workers,
         \A i \in DOMAIN job'[w].done : \E j \in DOMAIN job[w].done : job'[w].done[i] = job[w].done[j]
  PROVE  /\ DoneInv(w)'
         /\ job[w].at = "mark" \/ job'[w].at # "mark" => MarkInv(w)'
<1>1. ASSUME NEW d, NEW j \in DOMAIN job[w].done, d = job[w].done[j]
      PROVE  Recorded(d)'
  <2>1. d.id \in Proposals /\ Recorded(d)
    BY <1>1, DoneType DEF ApplyInv, JobInv, DoneInv
  <2> QED
    BY <2>1, RecordedStays
<1>2. ASSUME NEW d, NEW i \in DOMAIN job'[w].done, d = job'[w].done[i]
      PROVE  Recorded(d)'
  BY <1>1, <1>2
<1>3. DoneInv(w)'
  BY <1>2 DEF DoneInv, Recorded
<1>4. ASSUME job[w].at = "mark" PROVE MarkInv(w)'
  BY <1>4, HistoriesGrow DEF ApplyInv, JobInv, MarkInv
<1> QED
  BY <1>3, <1>4 DEF MarkInv

\* A job that does nothing in a step.
LEMMA OtherJob ==
  ASSUME ApplyInv, [ApplyNext]_allVars, [StoreStep]_vars, NEW w \in Workers, job'[w] = job[w]
  PROVE  JobInv(w)'
<1>1. DoneInv(w)' /\ MarkInv(w)'
  BY KeepsDone DEF MarkInv
<1>2. StageInv(w)'
  <2>1. ASSUME job[w].at \in {"apply", "fail"}
        PROVE  job[w].claimed \in Proposals /\ status'[job[w].claimed] \in EverApproved
    BY <2>1, ApprovedStays DEF ApplyInv, JobInv, StageInv
  <2> QED
    BY <2>1 DEF ApplyInv, JobInv, StageInv
<1> QED
  BY <1>1, <1>2 DEF JobInv

\* A job that goes to another stage and records nothing.
LEMMA JobMoves ==
  ASSUME ApplyInv, [ApplyNext]_allVars, [StoreStep]_vars, NEW w \in Workers, NEW stage \in Stages,
         job'[w] = [job[w] EXCEPT !.at = stage],
         stage \in {"claim", "push", "markfailed"}
           \/ (stage = "fail" /\ job[w].at = "apply"),
         stage \in {"push", "markfailed"} => job[w].done # <<>>
  PROVE  JobInv(w)'
<1>1. job'[w].at = stage /\ job'[w].done = job[w].done /\ job'[w].claimed = job[w].claimed
  BY DoneType DEF Jobs
<1>2. DoneInv(w)' /\ MarkInv(w)'
  BY <1>1, KeepsDone
<1>3. job[w].at = "apply" => job[w].claimed \in Proposals /\ status'[job[w].claimed] \in EverApproved
  BY ApprovedStays DEF ApplyInv, JobInv, StageInv
<1> QED
  BY <1>1, <1>2, <1>3 DEF JobInv, StageInv

LEMMA JobIsOver ==
  ASSUME NEW w \in Workers, job'[w] = Idle
  PROVE  JobInv(w)'
<1>1. DOMAIN job'[w].done = {}
  BY DEF Idle
<1> QED
  BY <1>1 DEF JobInv, StageInv, DoneInv, MarkInv, Idle

\* The commit of a proposal holds its files, whether one had to be made or the
\* history ended in one that holds them already.
LEMMA ApplyRecords ==
  ASSUME ApplyInv, NEW p \in Proposals, status[p] \in EverApproved, UNCHANGED vars,
         Git!CommitPathspec(Git!Written(files[p]), CommitSpec(p), p),
         NEW d, d = [id |-> p, sha |-> Len(head')]
  PROVE  Recorded(d)'
<1> DEFINE work == Git!Written(files[p])
           ps == CommitSpec(p)
<1>1. work \in Git!Trees /\ Git!TypeOK /\ Git!TreeOf(head) \in Git!Trees
  BY WrittenFiles, TreeOfType DEF ApplyInv, GitInv, Git!TypeOK
<1>2. \A t \in CommittedTargets(p) : t \in Paths /\ work[t] = files[p][t] /\ Git!PathspecOf(t) = ps
  <2>1. \A t \in DOMAIN files[p] : t \in Paths
    BY DEF ApplyInv, TypeInv, TypeOK, FileMaps
  <2>2. \A t : Git!PathspecOf(t) = PathspecOf(t)
    BY DEF Git!PathspecOf, PathspecOf, Git!Projects, Projects, Git!GlobalDir, GlobalDir
  <2> QED
    BY <2>1, <2>2 DEF CommittedTargets, Git!Written
<1>3. head \in Seq(Git!Commits) /\ head # <<>>
  BY <1>1 DEF Git!TypeOK
<1>4. /\ CommittedTargets(p)' = CommittedTargets(p) /\ files' = files /\ status' = status
  BY DEF vars, CommittedTargets, CommitSpec
<1>5. CASE head' = head /\ Git!Part(work, index, ps) = Git!TreeOf(head)
  <2>1. \A t \in CommittedTargets(p) : Git!TreeOf(head)[t] = files[p][t]
    <3>1. \A t \in CommittedTargets(p) : Git!Part(work, index, ps)[t] = work[t]
      BY <1>2 DEF Git!Part
    <3> QED
      BY <1>2, <1>5, <3>1
  <2>2. Len(head) \in DOMAIN head
    BY <1>3, TreeOfType
  <2> QED
    BY <1>4, <1>5, <2>1, <2>2 DEF Recorded, Git!TreeOf
<1>6. CASE head' = Append(head, [tree |-> Git!Part(work, Git!TreeOf(head), ps), by |-> p])
  <2> DEFINE c == [tree |-> Git!Part(work, Git!TreeOf(head), ps), by |-> p]
  <2>1. Len(head') \in DOMAIN head' /\ head'[Len(head')] = c
    <3>1. Len(Append(head, c)) \in DOMAIN Append(head, c) /\ Append(head, c)[Len(Append(head, c))] = c
      <4> HIDE DEF c
      <4> QED
        BY <1>3
    <3> QED
      BY <1>6, <3>1
  <2>2. \A t \in CommittedTargets(p) : c.tree[t] = files[p][t]
    BY <1>2 DEF Git!Part
  <2> QED
    BY <1>4, <2>1, <2>2 DEF Recorded
<1>7. p \in Proposals \cup {"flow"}
  OBVIOUS
<1> QED
  BY <1>1, <1>5, <1>6, <1>7, CommitEffect

LEMMA ApplyKeeps ==
  ASSUME ApplyInv, [ApplyNext]_allVars, [StoreStep]_vars, NEW w \in Workers, Apply(w)
  PROVE  JobInv(w)' /\ job'[w] \in Jobs
<1> DEFINE p == job[w].claimed
<1>1. /\ p \in Proposals /\ status[p] \in EverApproved
      /\ job[w] \in Jobs /\ job[w].done \in Seq(Committed)
  BY DoneType DEF Apply, ApplyInv, JobInv, StageInv, Jobs
<1>2. PICK d : d = [id |-> p, sha |-> Len(head')]
  OBVIOUS
<1>3. /\ job'[w].at = "claim" /\ job'[w].done = Append(job[w].done, d)
      /\ job'[w] = [at |-> "claim", claimed |-> NULL, done |-> Append(job[w].done, d)]
  BY <1>2 DEF Apply, ApplyInv
<1>4. Recorded(d)'
  <2>1. PICK q : q = p
    OBVIOUS
  <2> QED
    BY <1>1, <1>2, <2>1, ApplyRecords DEF Apply
<1>5. d \in Committed
  <2>1. head' \in Seq(Git!Commits)
    BY HistoriesGrow DEF GitInv, Git!TypeOK
  <2> QED
    BY <1>1, <1>2, <2>1 DEF Committed
<1>6. ASSUME NEW e, NEW j \in DOMAIN job[w].done, e = job[w].done[j]
      PROVE  Recorded(e)'
  <2>1. e.id \in Proposals /\ Recorded(e)
    BY <1>6, DoneType DEF ApplyInv, JobInv, DoneInv
  <2> QED
    BY <2>1, RecordedStays
<1>7. Append(job[w].done, d) \in Seq(Committed)
      /\ \A i \in DOMAIN Append(job[w].done, d) :
           \/ Append(job[w].done, d)[i] = d
           \/ i \in DOMAIN job[w].done /\ Append(job[w].done, d)[i] = job[w].done[i]
  BY <1>1, <1>5
<1>8. ASSUME NEW e, NEW i \in DOMAIN job'[w].done, e = job'[w].done[i]
      PROVE  Recorded(e)'
  <2>1. e = d \/ (i \in DOMAIN job[w].done /\ e = job[w].done[i])
    BY <1>3, <1>7, <1>8
  <2> QED
    BY <1>4, <1>6, <2>1
<1>9. DoneInv(w)'
  BY <1>8 DEF DoneInv, Recorded
<1>10. job'[w] \in Jobs
  BY <1>3, <1>7 DEF Jobs, Stages
<1> QED
  BY <1>3, <1>9, <1>10 DEF JobInv, StageInv, MarkInv

LEMMA JobKeeps ==
  ASSUME ApplyInv, [ApplyNext]_allVars, [StoreStep]_vars, NEW w \in Workers,
         JobStep(w) \/ FaultStep(w)
  PROVE  JobInv(w)' /\ job'[w] \in Jobs
<1> DEFINE Changed(stage) == job'[w] = [job[w] EXCEPT !.at = stage]
<1>1. job[w] \in Jobs /\ job \in [Workers -> Jobs] /\ Idle \in Jobs /\ StageInv(w)
  BY DoneType DEF ApplyInv, JobInv, Jobs, Idle, Stages
<1>2. \A stage \in Stages : Changed(stage) => job'[w] \in Jobs
  BY <1>1 DEF Jobs
<1>3. CASE StartJob(w)
  <2>1. Changed("claim") /\ "claim" \in Stages
    BY <1>1, <1>3 DEF StartJob, Goto, Stages
  <2> QED
    BY <1>2, <2>1, JobMoves
<1>4. ASSUME NEW p \in Proposals, NEW held \in SUBSET Proposals, ClaimNext(w, p, held)
      PROVE  JobInv(w)' /\ job'[w] \in Jobs
  <2>1. job'[w] = [job[w] EXCEPT !.at = "apply", !.claimed = p]
    BY <1>1, <1>4 DEF ClaimNext
  <2>2. job'[w].at = "apply" /\ job'[w].claimed = p /\ job'[w].done = job[w].done /\ job'[w] \in Jobs
    BY <1>1, <2>1 DEF Jobs, Stages
  <2>3. DoneInv(w)' /\ MarkInv(w)'
    BY <2>2, KeepsDone
  <2>4. status'[p] \in EverApproved
    BY <1>4 DEF ClaimNext, Claim, TakeClaim, ApplyInv, TypeInv, TypeOK, EverApproved
  <2> QED
    BY <2>2, <2>3, <2>4 DEF JobInv, StageInv
<1>5. CASE NothingToClaim(w)
  <2>1. CASE job'[w] = Idle
    BY <1>1, <2>1, JobIsOver
  <2>2. CASE job'[w] # Idle
    <3>1. job[w].done # <<>> /\ Changed("push") /\ "push" \in Stages
      BY <1>1, <1>5, <2>2 DEF NothingToClaim, Stages
    <3> QED
      BY <1>2, <3>1, JobMoves
  <2> QED
    BY <2>1, <2>2
<1>6. CASE Apply(w)
  BY <1>6, ApplyKeeps
<1>7. CASE ApplyCannotCommit(w) \/ WriteFails(w) \/ CommitFails(w)
  <2>1. Changed("fail") /\ "fail" \in Stages /\ job[w].at = "apply"
    BY <1>1, <1>7 DEF ApplyCannotCommit, WriteFails, CommitFails, Goto, Stages
  <2> QED
    BY <1>2, <2>1, JobMoves
<1>8. CASE ReportFailure(w)
  <2>1. CASE job'[w] = Idle
    BY <1>1, <2>1, JobIsOver
  <2>2. CASE job'[w] # Idle
    <3>1. job'[w] = [job[w] EXCEPT !.at = "claim", !.claimed = NULL]
      BY <1>1, <1>8, <2>2 DEF ReportFailure
    <3>2. job'[w].at = "claim" /\ job'[w].done = job[w].done /\ job'[w] \in Jobs
      BY <1>1, <3>1 DEF Jobs, Stages
    <3>3. DoneInv(w)' /\ MarkInv(w)'
      BY <3>2, KeepsDone
    <3> QED
      BY <3>2, <3>3 DEF JobInv, StageInv
  <2> QED
    BY <2>1, <2>2
<1>9. CASE Push(w)
  <2>1. Changed("mark") /\ "mark" \in Stages /\ job[w].done # <<>> /\ canonical' = head
    BY <1>1, <1>9 DEF Push, Goto, Stages, Git!Push, StageInv
  <2>2. job'[w].at = "mark" /\ job'[w].done = job[w].done
    BY <1>1, <2>1 DEF Jobs
  <2>3. DoneInv(w)'
    BY <2>2, KeepsDone
  <2>4. \A i \in DOMAIN job[w].done : job[w].done[i].sha \in DOMAIN head
    BY DEF ApplyInv, JobInv, DoneInv, Recorded
  <2> QED
    BY <1>2, <2>1, <2>2, <2>3, <2>4 DEF JobInv, StageInv, MarkInv
<1>10. CASE PushFails(w)
  <2>1. Changed("markfailed") /\ "markfailed" \in Stages /\ job[w].done # <<>>
    BY <1>1, <1>10 DEF PushFails, Goto, Stages, StageInv
  <2> QED
    BY <1>2, <2>1, JobMoves
<1>11. CASE Report(w)
  <2>1. CASE job'[w] = Idle
    BY <1>1, <2>1, JobIsOver
  <2>2. CASE job'[w] # Idle
    <3>1. /\ job'[w] = [job[w] EXCEPT !.done = Tail(job[w].done)]
          /\ job[w].at \in {"mark", "markfailed"} /\ Tail(job[w].done) # <<>>
      BY <1>1, <1>11, <2>2 DEF Report
    <3>2. /\ Tail(job[w].done) \in Seq(Committed)
          /\ \A i \in DOMAIN Tail(job[w].done) :
              i + 1 \in DOMAIN job[w].done /\ Tail(job[w].done)[i] = job[w].done[i + 1]
      BY <3>1, FirstDone
    <3>3. job'[w].at = job[w].at /\ job'[w].done = Tail(job[w].done) /\ job'[w] \in Jobs
      BY <1>1, <3>1, <3>2 DEF Jobs
    <3>4. DoneInv(w)' /\ MarkInv(w)'
      BY <3>2, <3>3, KeepsDone DEF MarkInv
    <3> QED
      BY <3>1, <3>3, <3>4 DEF JobInv, StageInv
  <2> QED
    BY <2>1, <2>2
<1>12. CASE ReportRefused(w) \/ Crash(w)
  <2>1. job'[w] = Idle
    BY <1>1, <1>12 DEF ReportRefused, Crash
  <2> QED
    BY <1>1, <2>1, JobIsOver
<1> QED
  BY <1>3, <1>4, <1>5, <1>6, <1>7, <1>8, <1>9, <1>10, <1>11, <1>12 DEF JobStep, FaultStep

\* The steps of job w touch no other job.
LEMMA JobFrame ==
  ASSUME ApplyInv, NEW w \in Workers, JobStep(w) \/ FaultStep(w)
  PROVE  /\ job' = [job EXCEPT ![w] = job'[w]]
         /\ faults' \in 0..MaxFaults
<1>1. job \in [Workers -> Jobs] /\ faults \in 0..MaxFaults
  BY DEF ApplyInv
<1>2. CASE JobStep(w)
  <2>1. faults' = faults
    BY <1>2 DEF JobStep, StartJob, ClaimNext, NothingToClaim, Apply, ApplyCannotCommit, ReportFailure,
                Push, Report, ReportRefused
  <2>2. \E j : job' = [job EXCEPT ![w] = j]
    BY <1>2 DEF JobStep, StartJob, ClaimNext, NothingToClaim, Apply, ApplyCannotCommit, ReportFailure,
                Push, Report, ReportRefused, Goto
  <2> QED
    BY <1>1, <2>1, <2>2
<1>3. CASE FaultStep(w)
  <2>1. faults < MaxFaults /\ faults' = faults + 1
    BY <1>3 DEF FaultStep, WriteFails, CommitFails, PushFails, Crash, Fault
  <2>2. \E j : job' = [job EXCEPT ![w] = j]
    BY <1>3 DEF FaultStep, WriteFails, CommitFails, PushFails, Crash, Goto
  <2> QED
    BY <1>1, <2>1, <2>2, ApplyAssumption
<1> QED
  BY <1>2, <1>3

LEMMA OthersFrame ==
  ASSUME ApplyInv, [ApplyNext]_allVars, ~ (\E w \in Workers : JobStep(w) \/ FaultStep(w))
  PROVE  job' = job /\ faults' \in 0..MaxFaults
<1>1. faults \in 0..MaxFaults
  BY DEF ApplyInv
<1>2. ASSUME NEW p \in Proposals, LeaseEndsEarly(p) PROVE job' = job /\ faults' \in 0..MaxFaults
  BY <1>1, <1>2, ApplyAssumption DEF LeaseEndsEarly, Fault
<1>3. CASE ~ (\E p \in Proposals : LeaseEndsEarly(p))
  BY <1>1, <1>3 DEF ApplyNext, Environment, FlowWrites, FlowCommits, FlowEnsures, FlowPushes,
                    OrphanLeaseEnds, allVars
<1> QED
  BY <1>2, <1>3

LEMMA ApplyInvNext ==
  ASSUME Nat \ {0} \subseteq Shas, ApplyInv, [ApplyNext]_allVars
  PROVE  ApplyInv'
<1>1. [StoreStep]_vars /\ TypeInv' /\ GitInv'
  BY ApplyStores, StoreType, HistoriesGrow DEF ApplyInv
<1>2. CASE \E w \in Workers : JobStep(w) \/ FaultStep(w)
  <2>1. PICK w \in Workers : JobStep(w) \/ FaultStep(w)
    BY <1>2
  <2>2. job' = [job EXCEPT ![w] = job'[w]] /\ faults' \in 0..MaxFaults
    BY <2>1, JobFrame
  <2>3. JobInv(w)' /\ job'[w] \in Jobs
    BY <1>1, <2>1, JobKeeps
  <2>4. ASSUME NEW v \in Workers \ {w} PROVE JobInv(v)'
    <3>1. job'[v] = job[v]
      <4>1. PICK j : job' = [job EXCEPT ![w] = j]
        BY <2>2
      <4> QED
        BY <4>1 DEF ApplyInv
    <3> QED
      BY <1>1, <3>1, OtherJob
  <2>5. job' \in [Workers -> Jobs]
    BY <2>2, <2>3 DEF ApplyInv
  <2> QED
    BY <1>1, <2>2, <2>3, <2>4, <2>5 DEF ApplyInv
<1>3. CASE ~ (\E w \in Workers : JobStep(w) \/ FaultStep(w))
  <2>1. job' = job /\ faults' \in 0..MaxFaults
    BY <1>3, OthersFrame
  <2>2. \A v \in Workers : JobInv(v)'
    BY <1>1, <2>1, OtherJob
  <2> QED
    BY <1>1, <2>1, <2>2 DEF ApplyInv
<1> QED
  BY <1>2, <1>3

LEMMA ApplyInvInit == ApplyInit => ApplyInv
<1> SUFFICES ASSUME ApplyInit PROVE ApplyInv
  OBVIOUS
<1>1. TypeInv
  BY InitType DEF ApplyInit
<1>2. GitInv
  <2> DEFINE seed == [tree |-> [t \in Paths |-> NoFile], by |-> "seed"]
  <2>1. [t \in Paths |-> NoFile] \in Git!Trees
    BY DEF Git!Trees
  <2>2. seed \in Git!Commits
    BY <2>1 DEF Git!Commits
  <2>3. canonical = <<seed>> /\ head = <<seed>>
    BY DEF ApplyInit, Git!Init
  <2>4. tree = Git!TreeOf(head) /\ index = Git!TreeOf(head)
    BY DEF ApplyInit, Git!Init
  <2>5. <<seed>> \in Seq(Git!Commits) /\ <<seed>> # <<>>
    <3> HIDE DEF seed
    <3> QED
      BY <2>2
  <2>6. Git!TreeOf(head) \in Git!Trees
    BY <2>3, <2>5, TreeOfType
  <2> HIDE DEF seed
  <2> QED
    BY <2>3, <2>4, <2>5, <2>6, AncestorOfItself DEF GitInv, Git!TypeOK
<1>3. /\ job \in [Workers -> Jobs] /\ faults \in 0..MaxFaults
      /\ \A w \in Workers : job[w] = Idle
  BY ApplyAssumption DEF ApplyInit, Jobs, Idle, Stages
<1>4. \A w \in Workers : JobInv(w)
  BY <1>3 DEF JobInv, StageInv, DoneInv, MarkInv, Idle
<1> QED
  BY <1>1, <1>2, <1>3, <1>4 DEF ApplyInv

\* The flow keeps the types of the database, of the work directory and of its jobs,
\* and the commits a job has yet to report stay in the work directory's history.
THEOREM ApplyTypeCorrect ==
  ASSUME Nat \ {0} \subseteq Shas
  PROVE  ApplySpec => []ApplyTypeOK
<1>1. ApplyInv => ApplyTypeOK
  BY DEF ApplyInv, ApplyTypeOK, TypeInv, GitInv, JobInv, DoneInv, Recorded
<1> QED
  BY <1>1, ApplyInvInit, ApplyInvNext, PTL DEF ApplySpec

\* Whatever jobs and other flows do, crash or repeat, no commit leaves the history of
\* the work directory or of canonical.
THEOREM NoWorkIsLost ==
  ASSUME Nat \ {0} \subseteq Shas
  PROVE  ApplySpec => WorkIsKept
<1>1. ApplyInv /\ [ApplyNext]_allVars =>
        [Git!IsAncestor(head, head') /\ Git!IsAncestor(canonical, canonical')]_Git!workVars
  BY ApplyGit, GitStepGrows DEF ApplyInv
<1> QED
  BY <1>1, ApplyInvInit, ApplyInvNext, PTL DEF ApplySpec, WorkIsKept, Git!NoCommitIsLost

-----------------------------------------------------------------------------
(***************************************************************************)
(* Applied means published.                                                *)
(***************************************************************************)
\* Only a job that is told to mark makes a proposal applied, for the first commit it
\* has to report.
LEMMA OnlyMarksApply ==
  ASSUME ApplyInv, [ApplyNext]_allVars, NEW p \in Proposals,
         status[p] # "applied", status'[p] = "applied"
  PROVE  \E w \in Workers : /\ job[w].at = "mark" /\ 1 \in DOMAIN job[w].done
                            /\ p = job[w].done[1].id /\ status[p] = "applying"
                            /\ appliedSha'[p] = job[w].done[1].sha
                            /\ UNCHANGED <<files, canonical>>
<1>1. status \in [Proposals -> Statuses \cup {Absent}]
      /\ appliedSha \in [Proposals -> Shas \cup {NULL}]
  BY DEF ApplyInv, TypeInv, TypeOK
<1>2. ASSUME NEW w \in Workers, Report(w)
      PROVE  /\ job[w].at = "mark" /\ 1 \in DOMAIN job[w].done
             /\ p = job[w].done[1].id /\ status[p] = "applying"
             /\ appliedSha'[p] = job[w].done[1].sha
             /\ UNCHANGED <<files, canonical>>
  <2>1. 1 \in DOMAIN job[w].done /\ Head(job[w].done) = job[w].done[1]
    BY <1>2, FirstDone DEF Report
  <2>2. job[w].at = "mark" /\ MarkApplied(Head(job[w].done).id, w, Head(job[w].done).sha)
    BY <1>1, <1>2 DEF Report, MarkFailed, Transition
  <2>3. p = job[w].done[1].id /\ status[p] = "applying"
        /\ appliedSha'[p] = job[w].done[1].sha /\ files' = files
    BY <1>1, <2>1, <2>2 DEF MarkApplied, Transition
  <2> QED
    BY <1>2, <2>1, <2>2, <2>3 DEF Report, gitVars
<1>3. ASSUME NEW w \in Workers, JobStep(w), ~Report(w) PROVE FALSE
  <2>1. ASSUME NEW q \in Proposals, NEW held \in SUBSET Proposals, ClaimNext(w, q, held) PROVE FALSE
    BY <1>1, <2>1 DEF ClaimNext, Claim, TakeClaim
  <2>2. ~ReportFailure(w)
    BY <1>1 DEF ReportFailure, MarkFailed, Transition, vars
  <2> QED
    BY <1>3, <2>1, <2>2 DEF JobStep, StartJob, NothingToClaim, Apply, ApplyCannotCommit, Push,
                            ReportRefused, vars
<1>4. ASSUME NEW w \in Workers, FaultStep(w) PROVE FALSE
  BY <1>4 DEF FaultStep, WriteFails, CommitFails, PushFails, Crash, vars
<1>5. CASE Environment
  BY <1>1, <1>5 DEF Environment, Create, InsertProposal, Approve, Retry, Transition
<1> QED
  BY <1>2, <1>3, <1>4, <1>5 DEF ApplyNext, FlowWrites, FlowCommits, FlowEnsures, FlowPushes,
       OrphanLeaseEnds, LeaseEndsEarly, LeaseRunsOut, allVars, vars

LEMMA PublishedNext ==
  ASSUME ApplyInv, [ApplyNext]_allVars, [StoreStep]_vars, AppliedIsPublished
  PROVE  AppliedIsPublished'
<1> SUFFICES ASSUME NEW p \in Proposals, status'[p] = "applied"
             PROVE  /\ appliedSha'[p] \in DOMAIN canonical'
                    /\ \A t \in CommittedTargets(p)' : canonical'[appliedSha'[p]].tree[t] = files'[p][t]
  BY DEF AppliedIsPublished
<1>1. CASE status[p] = "applied"
  <2>1. files'[p] = files[p] /\ appliedSha'[p] = appliedSha[p]
    BY <1>1, FrozenStep DEF ApplyInv, FinalStatuses, Statuses, NextStatuses, Absent
  <2>2. CommittedTargets(p)' = CommittedTargets(p)
    BY <2>1 DEF CommittedTargets, CommitSpec
  <2> QED
    BY <1>1, <2>1, <2>2, HistoriesGrow DEF AppliedIsPublished
<1>2. CASE status[p] # "applied"
  <2>1. PICK w \in Workers : /\ job[w].at = "mark" /\ 1 \in DOMAIN job[w].done
                             /\ p = job[w].done[1].id /\ appliedSha'[p] = job[w].done[1].sha
                             /\ UNCHANGED <<files, canonical>>
    BY <1>2, OnlyMarksApply
  <2>2. Recorded(job[w].done[1]) /\ job[w].done[1].sha \in DOMAIN canonical
    BY <2>1 DEF ApplyInv, JobInv, DoneInv, MarkInv
  <2>3. CommittedTargets(p)' = CommittedTargets(p)
    BY <2>1 DEF CommittedTargets, CommitSpec
  <2> DEFINE sha == job[w].done[1].sha
  <2>4. sha \in DOMAIN canonical /\ head[sha] = canonical[sha]
    BY <2>2, HistoriesGrow
  <2>5. \A t \in CommittedTargets(p) : head[sha].tree[t] = files[p][t]
    BY <2>1, <2>2 DEF Recorded
  <2> QED
    BY <2>1, <2>3, <2>4, <2>5
<1> QED
  BY <1>1, <1>2

\* A proposal marked applied has its commit in canonical, with the approved content,
\* whatever happened to the jobs that handled it.
THEOREM AppliedAlwaysPublished ==
  ASSUME Nat \ {0} \subseteq Shas
  PROVE  ApplySpec => []AppliedIsPublished
<1>1. ApplyInit => AppliedIsPublished
  BY DEF ApplyInit, Init, AppliedIsPublished, Absent
<1> QED
  BY <1>1, ApplyInvInit, ApplyInvNext, ApplyStores, PublishedNext, PTL DEF ApplySpec

\* The flow uses the database as the store allows: the history of every proposal is
\* complete and follows the documented status machine under jobs that crash and repeat.
THEOREM FlowHistoryComplete ==
  ASSUME Nat \ {0} \subseteq Shas
  PROVE  ApplySpec => []LogIsHistory
<1>1. ApplyInit => LogIsHistory
  BY DEF ApplyInit, Init, LogIsHistory, History
<1>2. ApplyInv => TypeInv
  BY DEF ApplyInv
<1> QED
  BY <1>1, <1>2, ApplyInvInit, ApplyInvNext, ApplyStores, HistoryNext, PTL DEF ApplySpec

\* Jobs that crash, repeat or are too slow keep to the documented status machine.
THEOREM FlowRefinement ==
  ASSUME Nat \ {0} \subseteq Shas
  PROVE  ApplySpec => ImplementsStatusMachine
<1>1. ApplyInit => Machine!Init
  BY DEF ApplyInit, Init, Machine!Init, Machine!Absent, Absent
<1>2. TypeInv /\ TypeInv' /\ [StoreStep]_vars => [Machine!Next]_status
  <2> SUFFICES ASSUME TypeInv, TypeInv', [StoreStep]_vars
               PROVE  [Machine!Next]_status
    OBVIOUS
  <2>1. DOMAIN status' = Proposals
    BY DEF TypeInv, TypeOK
  <2> QED
    BY <2>1, MoveStep DEF Machine!Next
<1>3. ApplyInv => TypeInv
  BY DEF ApplyInv
<1> QED
  BY <1>1, <1>2, <1>3, ApplyInvInit, ApplyInvNext, ApplyStores, PTL
     DEF ApplySpec, ImplementsStatusMachine, Machine!Spec

LEMMA FlowColumns ==
  ASSUME Nat \ {0} \subseteq Shas
  PROVE  ApplySpec => []ColumnsMatchStatus
<1>1. ApplyInit => ColumnsMatchStatus
  BY DEF ApplyInit, Init, ColumnsMatchStatus, Absent
<1>2. TypeInv /\ ColumnsMatchStatus /\ [StoreStep]_vars => ColumnsMatchStatus'
  <2> SUFFICES ASSUME TypeInv, ColumnsMatchStatus, [StoreStep]_vars, NEW q \in Proposals
               PROVE  RowMatches(q)'
    BY DEF ColumnsMatchStatus, RowMatches
  <2> QED
    BY ColumnsNext
<1>3. ApplyInv => TypeInv
  BY DEF ApplyInv
<1> QED
  BY <1>1, <1>2, <1>3, ApplyInvInit, ApplyInvNext, ApplyStores, PTL DEF ApplySpec

\* While the lease of a job runs, no other job takes its proposal away: the claim of
\* a job that crashed is given up only after its lease, or by a mark that comes late.
THEOREM FlowLeases ==
  ASSUME Nat \ {0} \subseteq Shas
  PROVE  ApplySpec => LeaseProtectsClaim
<1>1. TypeInv /\ ColumnsMatchStatus /\ [StoreStep]_vars =>
        [\A p \in Proposals :
           lease[p] = "running" /\ claimedBy'[p] # claimedBy[p] =>
             status'[p] \in {"applied", "failed"}]_vars
  BY ProtectStep
<1>2. ApplyInv => TypeInv
  BY DEF ApplyInv
<1> QED
  BY <1>1, <1>2, ApplyInvInit, ApplyInvNext, ApplyStores, FlowColumns, PTL
     DEF ApplySpec, LeaseProtectsClaim

\* Every file is in the pathspec of the first one, when a group has one pathspec.
LEMMA WholeCommit ==
  ASSUME \A s, t \in Paths : GroupOf(s) = GroupOf(t) => PathspecOf(s) = PathspecOf(t),
         TypeInv, StoredFilesValid, NEW p \in Proposals, status[p] # Absent
  PROVE  CommittedTargets(p) = DOMAIN files[p]
<1> DEFINE T == DOMAIN files[p]
<1>1. T # {} /\ \A s, t \in T : GroupOf(s) = GroupOf(t)
  BY DEF StoredFilesValid, ValidFiles
<1>2. T \subseteq Paths
  BY DEF TypeInv, TypeOK, FileMaps
<1>3. FirstTarget(T) \in T
  <2>1. \E t \in T : Under(t, GlobalDir) \/ \A s \in T : ~Under(s, GlobalDir)
    BY <1>1
  <2> QED
    BY <2>1 DEF FirstTarget
<1>4. \A t \in T : PathspecOf(t) = PathspecOf(FirstTarget(T))
  BY <1>1, <1>2, <1>3
<1> QED
  BY <1>4 DEF CommittedTargets, CommitSpec

\* "write files, commit, mark applied with HEAD sha": where all paths of a group have
\* one pathspec, as those of a skill have, the commit holds every file of the proposal.
THEOREM AppliedWhole ==
  ASSUME Nat \ {0} \subseteq Shas,
         \A s, t \in Paths : GroupOf(s) = GroupOf(t) => PathspecOf(s) = PathspecOf(t)
  PROVE  ApplySpec => []AppliedIsWhole
<1>1. ApplyInit => StoredFilesValid
  BY DEF ApplyInit, Init, StoredFilesValid
<1>2. ApplyInv => TypeInv
  BY DEF ApplyInv
<1>3. TypeInv /\ StoredFilesValid /\ AppliedIsPublished => AppliedIsWhole
  <2> SUFFICES ASSUME TypeInv, StoredFilesValid, AppliedIsPublished,
                      NEW p \in Proposals, status[p] = "applied"
               PROVE  \A t \in DOMAIN files[p] : canonical[appliedSha[p]].tree[t] = files[p][t]
    BY DEF AppliedIsWhole
  <2>1. CommittedTargets(p) = DOMAIN files[p]
    BY WholeCommit DEF Absent
  <2> QED
    BY <2>1 DEF AppliedIsPublished
<1> QED
  BY <1>1, <1>2, <1>3, ApplyInvInit, ApplyInvNext, ApplyStores, StoredFilesNext,
     AppliedAlwaysPublished, PTL DEF ApplySpec

-----------------------------------------------------------------------------
(***************************************************************************)
(* Published means approved.                                               *)
(***************************************************************************)
\* Content another flow wrote, or of a proposal that was approved.
Fit(t, content) ==
  \/ content \in FlowContents \cup {NoFile}
  \/ \E p \in Proposals : WasApproved(p) /\ t \in DOMAIN files[p] /\ content = files[p][t]

FitTree(contents) == \A t \in Paths : Fit(t, contents[t])

FitInv ==
  /\ ApprovalLogged
  /\ FitTree(tree) /\ FitTree(index)
  /\ \A i \in DOMAIN head : FitTree(head[i].tree)

\* What a step makes of the work directory holds only content that was fit before it.
FitStep ==
  /\ FitTree(tree') /\ FitTree(index')
  /\ head' = head \/ \E c : head' = Append(head, c) /\ FitTree(c.tree)

LEMMA FitStays ==
  ASSUME ApplyInv, [StoreStep]_vars, ApprovalLogged, NEW t, NEW content, Fit(t, content)
  PROVE  Fit(t, content)'
<1>1. CASE content \in FlowContents \cup {NoFile}
  BY <1>1 DEF Fit
<1>2. ASSUME NEW p \in Proposals, WasApproved(p), t \in DOMAIN files[p], content = files[p][t]
      PROVE  Fit(t, content)'
  <2>1. status[p] \in EverApproved
    BY <1>2 DEF ApprovalLogged
  <2>2. status'[p] \in EverApproved /\ files'[p] = files[p]
    BY <2>1, ApprovedStays DEF ApplyInv
  <2>3. WasApproved(p)'
    BY <2>2, ApprovalNext DEF ApprovalLogged, ApplyInv
  <2> QED
    BY <1>2, <2>2, <2>3 DEF Fit
<1> QED
  BY <1>1, <1>2 DEF Fit

LEMMA FitPart ==
  ASSUME NEW a, NEW b, FitTree(a), FitTree(b), NEW pathspec
  PROVE  FitTree(Git!Part(a, b, pathspec))
  BY DEF FitTree, Git!Part

LEMMA FitHead ==
  ASSUME GitInv, FitInv PROVE FitTree(Git!TreeOf(head))
  BY TreeOfType DEF GitInv, Git!TypeOK, FitInv, Git!TreeOf

LEMMA FitWritten ==
  ASSUME FitInv, NEW F, \A t \in DOMAIN F : Fit(t, F[t])
  PROVE  FitTree(Git!Written(F))
  BY DEF FitInv, FitTree, Git!Written

LEMMA FitCommit ==
  ASSUME GitInv, FitInv, NEW work \in Git!Trees, FitTree(work), NEW pathspec,
         NEW by \in Proposals \cup {"flow"}, Git!CommitPathspec(work, pathspec, by)
  PROVE  FitStep
<1>1. FitTree(Git!Part(work, index, pathspec)) /\ FitTree(Git!Part(work, Git!TreeOf(head), pathspec))
  BY FitPart, FitHead DEF FitInv
<1>2. /\ tree' = work /\ index' = Git!Part(work, index, pathspec)
      /\ \/ head' = head
         \/ head' = Append(head, [tree |-> Git!Part(work, Git!TreeOf(head), pathspec), by |-> by])
  BY CommitEffect DEF GitInv
<1>3. CASE head' = head
  BY <1>1, <1>2, <1>3 DEF FitStep
<1>4. CASE head' = Append(head, [tree |-> Git!Part(work, Git!TreeOf(head), pathspec), by |-> by])
  <2>1. PICK c : c = [tree |-> Git!Part(work, Git!TreeOf(head), pathspec), by |-> by]
    OBVIOUS
  <2>2. c.tree = Git!Part(work, Git!TreeOf(head), pathspec)
    BY <2>1
  <2> QED
    BY <1>1, <1>2, <1>4, <2>1, <2>2 DEF FitStep
<1> QED
  BY <1>2, <1>3, <1>4

LEMMA FitEnsure ==
  ASSUME GitInv, FitInv, Git!EnsureWork PROVE FitStep
<1>1. FitTree(Git!TreeOf(head))
  BY FitHead
<1>2. head' = head /\ index' = Git!TreeOf(head)
      /\ \A t \in Paths : tree'[t] \in {tree[t], Git!TreeOf(head)[t]}
  BY EnsureEffect
<1>3. FitTree(tree')
  BY <1>1, <1>2 DEF FitTree, FitInv
<1> QED
  BY <1>1, <1>2, <1>3 DEF FitStep

LEMMA FitUnchanged == FitInv /\ UNCHANGED <<tree, index, head>> => FitStep
  BY DEF FitInv, FitStep

\* No step brings anything else in, as long as no write of a file fails half way.
LEMMA JobFit ==
  ASSUME "write" \notin Faults, ApplyInv, FitInv, NEW w \in Workers, JobStep(w) \/ FaultStep(w)
  PROVE  FitStep
<1> DEFINE p == job[w].claimed
           written == Git!Written(files[p])
<1>1. ASSUME job[w].at = "apply"
      PROVE  p \in Proposals /\ written \in Git!Trees /\ FitTree(written)
  <2>1. p \in Proposals /\ WasApproved(p)
    BY <1>1 DEF ApplyInv, JobInv, StageInv, FitInv, ApprovalLogged
  <2>2. \A t \in DOMAIN files[p] : Fit(t, files[p][t])
    BY <2>1 DEF Fit
  <2> QED
    BY <2>1, <2>2, FitWritten, WrittenFiles DEF ApplyInv, GitInv
<1>2. \A ps : job[w].at = "apply" => FitTree(Git!Part(written, index, ps))
  BY <1>1, FitPart DEF FitInv
<1>3. GitInv
  BY DEF ApplyInv
<1> HIDE DEF written
<1>4. CASE Apply(w)
  <2>1. Git!CommitPathspec(written, CommitSpec(p), p) /\ job[w].at = "apply"
    BY <1>4 DEF Apply, written
  <2> QED
    BY <1>1, <1>3, <2>1, FitCommit
<1>5. CASE ApplyCannotCommit(w)
  BY <1>1, <1>2, <1>5 DEF ApplyCannotCommit, Git!Added, FitStep, written
<1>6. CASE CommitFails(w)
  <2>1. job[w].at = "apply"
    BY <1>6 DEF CommitFails
  <2>2. CASE Git!CommitFails(written, CommitSpec(p))
    BY <1>1, <1>2, <2>1, <2>2 DEF Git!CommitFails, Git!Added, FitStep, FitInv
  <2>3. CASE Git!CommitPathspec(written, CommitSpec(p), p)
    BY <1>1, <1>3, <2>1, <2>3, FitCommit
  <2> QED
    BY <1>6, <2>2, <2>3 DEF CommitFails, written
<1>7. ~WriteFails(w)
  BY DEF WriteFails, Fault
<1>8. CASE StartJob(w)
  BY <1>3, <1>8, FitEnsure DEF StartJob
<1>9. CASE Push(w) \/ PushFails(w)
  BY <1>9, FitUnchanged DEF Push, PushFails, Git!Push, gitVars
<1>10. CASE \/ \E q \in Proposals, held \in SUBSET Proposals : ClaimNext(w, q, held)
            \/ NothingToClaim(w) \/ ReportFailure(w) \/ Report(w) \/ ReportRefused(w) \/ Crash(w)
  BY <1>10, FitUnchanged DEF ClaimNext, NothingToClaim, ReportFailure, Report, ReportRefused, Crash, gitVars
<1> QED
  BY <1>4, <1>5, <1>6, <1>7, <1>8, <1>9, <1>10 DEF JobStep, FaultStep

LEMMA FlowFit ==
  ASSUME ApplyInv, FitInv, [ApplyNext]_allVars, ~ (\E w \in Workers : JobStep(w) \/ FaultStep(w))
  PROVE  FitStep
<1>1. GitInv /\ tree \in Git!Trees /\ FitTree(tree)
  BY DEF ApplyInv, GitInv, Git!TypeOK, FitInv
<1>2. ASSUME NEW t \in Paths, NEW c \in FlowContents, FlowWrites(t, c) PROVE FitStep
  <2>1. \A s \in DOMAIN [u \in {t} |-> c] : Fit(s, [u \in {t} |-> c][s])
    BY DEF Fit
  <2>2. FitTree(Git!Written([u \in {t} |-> c]))
    BY <2>1, FitWritten
  <2> QED
    BY <1>2, <2>2 DEF FlowWrites, Git!Write, FitStep, FitInv
<1>3. ASSUME NEW ps, FlowCommits(ps) PROVE FitStep
  <2>1. Git!CommitPathspec(tree, ps, "flow")
    BY <1>3 DEF FlowCommits
  <2> QED
    BY <1>1, <2>1, FitCommit
<1>4. CASE FlowEnsures
  BY <1>1, <1>4, FitEnsure DEF FlowEnsures
<1>5. CASE FlowPushes
  BY <1>5, FitUnchanged DEF FlowPushes, Git!Push
<1>6. CASE UNCHANGED gitVars
  BY <1>6, FitUnchanged DEF gitVars
<1>7. ASSUME NEW p \in Proposals, OrphanLeaseEnds(p) \/ LeaseEndsEarly(p) PROVE UNCHANGED gitVars
  BY <1>7 DEF OrphanLeaseEnds, LeaseEndsEarly
<1>8. CASE UNCHANGED allVars
  BY <1>6, <1>8 DEF allVars
<1> QED
  BY <1>2, <1>3, <1>4, <1>5, <1>6, <1>7, <1>8, EnvironmentStores DEF ApplyNext

LEMMA FitNext ==
  ASSUME "write" \notin Faults, ApplyInv, FitInv, [ApplyNext]_allVars, [StoreStep]_vars
  PROVE  FitInv'
<1>1. FitStep
  BY JobFit, FlowFit
<1>2. ApprovalLogged'
  BY ApprovalNext DEF FitInv, ApplyInv
<1>3. ASSUME NEW t, NEW content, Fit(t, content) PROVE Fit(t, content)'
  BY <1>3, FitStays DEF FitInv
<1>4. ASSUME NEW t \in Paths, NEW content, content = tree'[t] \/ content = index'[t]
      PROVE  Fit(t, content)'
  BY <1>1, <1>3, <1>4 DEF FitStep, FitTree
<1>5. ASSUME NEW i \in DOMAIN head', NEW t \in Paths, NEW content, content = head'[i].tree[t]
      PROVE  Fit(t, content)'
  <2>1. CASE i \in DOMAIN head
    <3>1. head'[i] = head[i]
      BY <2>1, HistoriesGrow
    <3> QED
      BY <1>3, <1>5, <2>1, <3>1 DEF FitInv, FitTree
  <2>2. CASE i \notin DOMAIN head
    <3>1. PICK c : head' = Append(head, c) /\ FitTree(c.tree)
      BY <1>1, <2>2 DEF FitStep
    <3>2. head \in Seq(Git!Commits)
      BY GitTypes DEF ApplyInv, GitInv
    <3>3. head'[i] = c
      BY <2>2, <3>1, <3>2
    <3> QED
      BY <1>3, <1>5, <3>1, <3>3 DEF FitTree
  <2> QED
    BY <2>1, <2>2
<1>6. FitTree(tree)' /\ FitTree(index)'
  BY <1>4 DEF FitTree, Fit
<1>7. (\A i \in DOMAIN head : FitTree(head[i].tree))'
  BY <1>5 DEF FitTree, Fit
<1> QED
  BY <1>2, <1>6, <1>7 DEF FitInv

LEMMA FitInit == ApplyInit => FitInv
<1> SUFFICES ASSUME ApplyInit PROVE FitInv
  OBVIOUS
<1>1. ApprovalLogged
  BY DEF ApplyInit, Init, ApprovalLogged, WasApproved, EverApproved, Absent
<1>2. /\ \A i \in DOMAIN head : head[i].tree = [t \in Paths |-> NoFile]
      /\ tree = [t \in Paths |-> NoFile] /\ index = [t \in Paths |-> NoFile]
  BY DEF ApplyInit, Git!Init, Git!TreeOf
<1> QED
  BY <1>1, <1>2 DEF FitInv, FitTree, Fit

\* As long as no write of a file fails half way, canonical holds nothing but what other
\* flows wrote and the files of approved proposals.
THEOREM PublishedAlwaysApproved ==
  ASSUME Nat \ {0} \subseteq Shas, "write" \notin Faults
  PROVE  ApplySpec => []PublishedWasApproved
<1>1. ApplyInv /\ FitInv => PublishedWasApproved
  <2> SUFFICES ASSUME ApplyInv, FitInv, NEW i \in DOMAIN canonical, NEW t \in Paths
               PROVE  Fit(t, canonical[i].tree[t])
    BY DEF PublishedWasApproved, Fit
  <2>1. i \in DOMAIN head /\ head[i] = canonical[i]
    <3>1. /\ canonical \in Seq(Git!Commits) /\ head \in Seq(Git!Commits)
          /\ Git!IsAncestor(canonical, head)
      BY GitTypes DEF ApplyInv, GitInv
    <3>2. Len(canonical) <= Len(head) /\ \A k \in 1..Len(canonical) : head[k] = canonical[k]
      BY <3>1, AncestorPoints
    <3> QED
      BY <3>1, <3>2
  <2> QED
    BY <2>1 DEF FitInv, FitTree
<1> QED
  BY <1>1, FitInit, FitNext, ApplyInvInit, ApplyInvNext, ApplyStores, PTL DEF ApplySpec

-----------------------------------------------------------------------------
(***************************************************************************)
(* With one job at a time, what is marked is current.  The schedule and    *)
(* the single worker of the deployment see to it that jobs do not overlap; *)
(* with two, one that outlives its lease writes its files over those of a  *)
(* later proposal.                                                         *)
(***************************************************************************)
\* Another proposal for the target was approved, and one of the two was retried.
Spoiled(p, t) ==
  \E q \in Proposals \ {p} :
    status[q] \in EverApproved /\ t \in DOMAIN files[q] /\ (Retried(p) \/ Retried(q))

\* From its commit on, every tree has the proposal's file at the path.
Current(d, t) ==
  /\ tree[t] = files[d.id][t]
  /\ \A k \in d.sha..Len(head) : head[k].tree[t] = files[d.id][t]

HeldBy(w, p) == job[w].at \in {"apply", "fail"} /\ job[w].claimed = p

CommitStands(d) == \A t \in CommittedTargets(d.id) : Spoiled(d.id, t) \/ Current(d, t)

\* While a proposal is applying, one of the commits made for it stands, unless it is
\* being applied anew.
Stands(w, p) ==
  status[p] = "applying" /\ ~HeldBy(w, p) /\ (\E i \in DOMAIN job[w].done : job[w].done[i].id = p)
    => \E i \in DOMAIN job[w].done : job[w].done[i].id = p /\ CommitStands(job[w].done[i])

SoloJob(w) ==
  /\ job[w].at = "idle" => job[w].done = <<>>
  /\ job[w].at \in {"apply", "fail"} => status[job[w].claimed] = "applying"
  /\ \A p \in Proposals : Stands(w, p)

SoloInv == SharedTargetOnlyByRetry /\ \A w \in Workers : SoloJob(w)

\* What a step of its own does to a job.
JobToIdle(w) == job'[w] = Idle

JobToFail(w) ==
  /\ job[w].at = "apply" /\ job'[w].at = "fail"
  /\ job'[w].claimed = job[w].claimed /\ job'[w].done = job[w].done
  /\ UNCHANGED vars

JobClaims(w) ==
  /\ job'[w].at = "apply" /\ job[w].at = "claim" /\ job'[w].done = job[w].done
  /\ status'[job'[w].claimed] = "applying"

JobGivesUp(w) ==
  /\ job[w].at = "fail" /\ status'[job[w].claimed] = "failed"
  /\ job'[w].at = "claim" /\ job'[w].done = job[w].done

JobReports(w) ==
  /\ job[w].at \in {"mark", "markfailed"} /\ job'[w].at = job[w].at
  /\ job'[w].done = Tail(job[w].done)
  /\ 1 \in DOMAIN job[w].done /\ status'[job[w].done[1].id] \in {"applied", "failed"}

JobGoesOn(w) ==
  /\ job[w].at \notin {"apply", "fail"}
  /\ job'[w].at \notin {"idle", "apply", "fail"}
  /\ job'[w].done = job[w].done
  /\ UNCHANGED vars

LEMMA JobShape ==
  ASSUME ApplyInv, NEW w \in Workers, JobStep(w) \/ FaultStep(w)
  PROVE  \/ JobToIdle(w) \/ JobToFail(w) \/ JobClaims(w) \/ JobGivesUp(w) \/ JobReports(w)
         \/ JobGoesOn(w) \/ Apply(w)
<1>1. job[w] \in Jobs /\ job \in [Workers -> Jobs] /\ status \in [Proposals -> Statuses \cup {Absent}]
  BY DoneType DEF ApplyInv, TypeInv, TypeOK
<1>2. ASSUME NEW p \in Proposals, NEW held \in SUBSET Proposals, ClaimNext(w, p, held)
      PROVE  JobClaims(w)
  <2>1. job'[w] = [job[w] EXCEPT !.at = "apply", !.claimed = p] /\ status'[p] = "applying"
    BY <1>1, <1>2 DEF ClaimNext, Claim, TakeClaim
  <2> QED
    BY <1>1, <1>2, <2>1 DEF JobClaims, ClaimNext, Jobs
<1>3. CASE StartJob(w) \/ Push(w) \/ PushFails(w)
  <2>1. PICK stage \in {"claim", "mark", "markfailed"} : job'[w] = [job[w] EXCEPT !.at = stage]
    BY <1>1, <1>3 DEF StartJob, Push, PushFails, Goto
  <2> QED
    BY <1>1, <1>3, <2>1 DEF JobGoesOn, StartJob, Push, PushFails, Jobs
<1>4. CASE NothingToClaim(w)
  <2>1. job'[w] = Idle \/ job'[w] = [job[w] EXCEPT !.at = "push"]
    BY <1>1, <1>4 DEF NothingToClaim
  <2> QED
    BY <1>1, <1>4, <2>1 DEF JobGoesOn, JobToIdle, NothingToClaim, Jobs
<1>5. CASE ApplyCannotCommit(w) \/ WriteFails(w) \/ CommitFails(w)
  <2>1. job'[w] = [job[w] EXCEPT !.at = "fail"]
    BY <1>1, <1>5 DEF ApplyCannotCommit, WriteFails, CommitFails, Goto
  <2> QED
    BY <1>1, <1>5, <2>1 DEF JobToFail, ApplyCannotCommit, WriteFails, CommitFails, Jobs
<1>6. CASE ReportFailure(w)
  <2>1. CASE JobToIdle(w)
    BY <2>1
  <2>2. CASE ~JobToIdle(w)
    <3>1. /\ MarkFailed(job[w].claimed, w) /\ job[w].at = "fail"
          /\ job'[w] = [job[w] EXCEPT !.at = "claim", !.claimed = NULL]
      BY <1>1, <1>6, <2>2 DEF ReportFailure, JobToIdle
    <3>2. job[w].claimed \in Proposals
      BY <3>1 DEF ApplyInv, JobInv, StageInv
    <3>3. status'[job[w].claimed] = "failed"
      BY <1>1, <3>1, <3>2 DEF MarkFailed, Transition
    <3> QED
      BY <1>1, <3>1, <3>3 DEF JobGivesUp, Jobs
  <2> QED
    BY <2>1, <2>2
<1>7. CASE Report(w)
  <2>1. CASE JobToIdle(w)
    BY <2>1
  <2>2. CASE ~JobToIdle(w)
    <3>1. /\ job[w].at \in {"mark", "markfailed"}
          /\ job'[w] = [job[w] EXCEPT !.done = Tail(job[w].done)]
          /\ MarkApplied(Head(job[w].done).id, w, Head(job[w].done).sha)
             \/ MarkFailed(Head(job[w].done).id, w)
      BY <1>1, <1>7, <2>2 DEF Report, JobToIdle
    <3>2. 1 \in DOMAIN job[w].done /\ Head(job[w].done) = job[w].done[1]
          /\ job[w].done[1].id \in Proposals
      BY <3>1, FirstDone, DoneType
    <3>3. status'[job[w].done[1].id] \in {"applied", "failed"}
      BY <1>1, <3>1, <3>2 DEF MarkApplied, MarkFailed, Transition
    <3> QED
      BY <1>1, <3>1, <3>2, <3>3 DEF JobReports, Jobs
  <2> QED
    BY <2>1, <2>2
<1>8. CASE ReportRefused(w) \/ Crash(w)
  BY <1>1, <1>8 DEF ReportRefused, Crash, JobToIdle
<1> QED
  BY <1>2, <1>3, <1>4, <1>5, <1>6, <1>7, <1>8 DEF JobStep, FaultStep

\* A row comes to be applying only in the hands of the job that claims it, and one that
\* is applying stays so in every step but a job's.
LEMMA OnlyClaims ==
  ASSUME ApplyInv, [ApplyNext]_allVars, NEW p \in Proposals,
         status[p] # "applying", status'[p] = "applying"
  PROVE  \E w \in Workers : HeldBy(w, p)'
<1>1. status \in [Proposals -> Statuses \cup {Absent}] /\ job \in [Workers -> Jobs]
  BY DEF ApplyInv, TypeInv, TypeOK
<1>2. ASSUME NEW w \in Workers, NEW q \in Proposals, NEW held \in SUBSET Proposals, ClaimNext(w, q, held)
      PROVE  HeldBy(w, p)'
  <2>1. p = q
    BY <1>1, <1>2 DEF ClaimNext, Claim, TakeClaim
  <2>2. job'[w] = [job[w] EXCEPT !.at = "apply", !.claimed = p]
    BY <1>1, <1>2, <2>1 DEF ClaimNext
  <2>3. job'[w].at = "apply" /\ job'[w].claimed = p
    BY <1>1, <2>2 DEF Jobs
  <2> QED
    BY <2>3 DEF HeldBy
<1>3. ASSUME NEW w \in Workers, JobStep(w),
             ~ \E q \in Proposals, held \in SUBSET Proposals : ClaimNext(w, q, held)
      PROVE  FALSE
  BY <1>1, <1>3 DEF JobStep, StartJob, NothingToClaim, Apply, ApplyCannotCommit, Push,
       ReportRefused, ReportFailure, Report, MarkFailed, MarkApplied, Transition, vars
<1>4. ASSUME NEW w \in Workers, FaultStep(w) PROVE FALSE
  BY <1>4 DEF FaultStep, WriteFails, CommitFails, PushFails, Crash, vars
<1>5. CASE Environment
  BY <1>1, <1>5 DEF Environment, Create, InsertProposal, Approve, Retry, Transition
<1> QED
  BY <1>2, <1>3, <1>4, <1>5 DEF ApplyNext, FlowWrites, FlowCommits, FlowEnsures, FlowPushes,
       OrphanLeaseEnds, LeaseEndsEarly, LeaseRunsOut, allVars, vars

LEMMA ApplyingStays ==
  ASSUME ApplyInv, [ApplyNext]_allVars, ~ (\E w \in Workers : JobStep(w) \/ FaultStep(w)),
         NEW p \in Proposals, status[p] = "applying"
  PROVE  status'[p] = "applying"
<1>1. status \in [Proposals -> Statuses \cup {Absent}]
  BY DEF ApplyInv, TypeInv, TypeOK
<1>2. CASE Environment
  BY <1>1, <1>2 DEF Environment, Create, InsertProposal, Approve, Retry, Transition, Absent
<1> QED
  BY <1>2 DEF ApplyNext, FlowWrites, FlowCommits, FlowEnsures, FlowPushes,
       OrphanLeaseEnds, LeaseEndsEarly, LeaseRunsOut, allVars, vars

LEMMA SpoiledStays ==
  ASSUME ApplyInv, [StoreStep]_vars, NEW p \in Proposals, NEW t, Spoiled(p, t)
  PROVE  Spoiled(p, t)'
<1>1. PICK q \in Proposals \ {p} :
        status[q] \in EverApproved /\ t \in DOMAIN files[q] /\ (Retried(p) \/ Retried(q))
  BY DEF Spoiled
<1>2. status'[q] \in EverApproved /\ files'[q] = files[q]
  BY <1>1, ApprovedStays DEF ApplyInv
<1>3. Retried(p)' \/ Retried(q)'
  BY <1>1, RetriedNext DEF ApplyInv
<1> QED
  BY <1>1, <1>2, <1>3 DEF Spoiled

\* A file the work tree and HEAD agree on stays, and every new commit has it, in a step
\* that writes no other content to its path.
SamePath(t) ==
  /\ tree'[t] = tree[t]
  /\ head' = head \/ \E c : head' = Append(head, c) /\ c.tree[t] = tree[t]

LEMMA CommitSamePath ==
  ASSUME GitInv, NEW work \in Git!Trees, NEW pathspec, NEW by \in Proposals \cup {"flow"},
         Git!CommitPathspec(work, pathspec, by), NEW t \in Paths,
         work[t] = tree[t], Git!TreeOf(head)[t] = tree[t]
  PROVE  SamePath(t)
<1>1. /\ tree' = work
      /\ \/ head' = head
         \/ head' = Append(head, [tree |-> Git!Part(work, Git!TreeOf(head), pathspec), by |-> by])
  BY CommitEffect DEF GitInv
<1>2. Git!Part(work, Git!TreeOf(head), pathspec)[t] = tree[t]
  BY DEF Git!Part
<1>3. CASE head' = head
  BY <1>1, <1>3 DEF SamePath
<1>4. CASE head' = Append(head, [tree |-> Git!Part(work, Git!TreeOf(head), pathspec), by |-> by])
  <2>1. PICK c : c = [tree |-> Git!Part(work, Git!TreeOf(head), pathspec), by |-> by]
    OBVIOUS
  <2>2. c.tree = Git!Part(work, Git!TreeOf(head), pathspec)
    BY <2>1
  <2> QED
    BY <1>1, <1>2, <1>4, <2>1, <2>2 DEF SamePath
<1> QED
  BY <1>1, <1>3, <1>4

LEMMA JobSamePath ==
  ASSUME ApplyInv, NEW w \in Workers, JobStep(w) \/ FaultStep(w), NEW t \in Paths,
         Git!TreeOf(head)[t] = tree[t],
         job[w].at = "apply" => t \notin DOMAIN files[job[w].claimed]
  PROVE  SamePath(t)
<1> DEFINE p == job[w].claimed
           written == Git!Written(files[p])
<1>1. GitInv
  BY DEF ApplyInv
<1>2. ASSUME job[w].at = "apply"
      PROVE  p \in Proposals /\ written \in Git!Trees /\ written[t] = tree[t]
  <2>1. p \in Proposals
    BY <1>2 DEF ApplyInv, JobInv, StageInv
  <2>2. written[t] = tree[t]
    BY <1>2 DEF Git!Written
  <2> QED
    BY <2>1, <2>2, WrittenFiles DEF ApplyInv, GitInv
<1> HIDE DEF written
<1>3. CASE Apply(w)
  <2>1. Git!CommitPathspec(written, CommitSpec(p), p) /\ job[w].at = "apply"
    BY <1>3 DEF Apply, written
  <2> QED
    BY <1>1, <1>2, <2>1, CommitSamePath
<1>4. CASE ApplyCannotCommit(w) \/ CommitFails(w)
  <2>1. job[w].at = "apply"
    BY <1>4 DEF ApplyCannotCommit, CommitFails
  <2>2. CASE tree' = written /\ head' = head
    BY <1>2, <2>1, <2>2 DEF SamePath
  <2>3. CASE Git!CommitPathspec(written, CommitSpec(p), p)
    BY <1>1, <1>2, <2>1, <2>3, CommitSamePath
  <2> QED
    BY <1>4, <2>2, <2>3 DEF ApplyCannotCommit, CommitFails, Git!CommitFails, written
<1>5. CASE WriteFails(w)
  <2>1. PICK S \in SUBSET DOMAIN files[p] : \E f : DOMAIN f = S /\ Git!Write(f)
    <3>1. PICK u \in DOMAIN files[p], cut \in BOOLEAN :
            LET before == {s \in DOMAIN files[p] \ {u} : FirstTarget({s, u}) = s}
            IN Git!Write([s \in before \cup (IF cut THEN {u} ELSE {}) |->
                            IF s = u THEN Truncated ELSE files[p][s]])
      BY <1>5 DEF WriteFails
    <3> DEFINE S == {s \in DOMAIN files[p] \ {u} : FirstTarget({s, u}) = s}
                      \cup (IF cut THEN {u} ELSE {})
    <3>2. S \in SUBSET DOMAIN files[p]
      OBVIOUS
    <3> QED
      BY <3>1, <3>2
  <2>2. t \notin S
    BY <1>5, <2>1 DEF WriteFails
  <2> QED
    BY <2>1, <2>2 DEF Git!Write, Git!Written, SamePath
<1>6. CASE StartJob(w)
  BY <1>1, <1>6, EnsureEffect DEF StartJob, SamePath
<1>7. CASE Push(w) \/ PushFails(w)
  BY <1>7 DEF Push, PushFails, Git!Push, gitVars, SamePath
<1>8. CASE \/ \E q \in Proposals, held \in SUBSET Proposals : ClaimNext(w, q, held)
           \/ NothingToClaim(w) \/ ReportFailure(w) \/ Report(w) \/ ReportRefused(w) \/ Crash(w)
  BY <1>8 DEF ClaimNext, NothingToClaim, ReportFailure, Report, ReportRefused, Crash, gitVars, SamePath
<1> QED
  BY <1>3, <1>4, <1>5, <1>6, <1>7, <1>8 DEF JobStep, FaultStep

LEMMA FlowSamePath ==
  ASSUME ApplyInv, [ApplyNext]_allVars, ~ (\E w \in Workers : JobStep(w) \/ FaultStep(w)),
         \E w \in Workers : job[w].at # "idle", NEW t \in Paths, Git!TreeOf(head)[t] = tree[t]
  PROVE  SamePath(t)
<1>1. GitInv /\ tree \in Git!Trees
  BY DEF ApplyInv, GitInv, Git!TypeOK
<1>2. ~ (\E u \in Paths, c \in FlowContents : FlowWrites(u, c))
  BY DEF FlowWrites
<1>3. ASSUME NEW ps, FlowCommits(ps) PROVE SamePath(t)
  <2>1. Git!CommitPathspec(tree, ps, "flow")
    BY <1>3 DEF FlowCommits
  <2> QED
    BY <1>1, <2>1, CommitSamePath
<1>4. CASE FlowEnsures
  BY <1>1, <1>4, EnsureEffect DEF FlowEnsures, SamePath
<1>5. CASE FlowPushes
  BY <1>5 DEF FlowPushes, Git!Push, SamePath
<1>6. CASE UNCHANGED gitVars
  BY <1>6 DEF gitVars, SamePath
<1>7. ASSUME NEW p \in Proposals, OrphanLeaseEnds(p) \/ LeaseEndsEarly(p) PROVE UNCHANGED gitVars
  BY <1>7 DEF OrphanLeaseEnds, LeaseEndsEarly
<1>8. CASE UNCHANGED allVars
  BY <1>6, <1>8 DEF allVars
<1> QED
  BY <1>2, <1>3, <1>4, <1>5, <1>6, <1>7, <1>8, EnvironmentStores DEF ApplyNext

\* A commit that stands still does after the step, unless its proposal is being applied
\* anew.
LEMMA CommitKeepsStanding ==
  ASSUME \A v, w \in Workers : v = w,
         ApplyInv, SoloInv, [ApplyNext]_allVars, [StoreStep]_vars, NEW w \in Workers, NEW d,
         d \in Committed, \E i \in DOMAIN job[w].done : d = job[w].done[i],
         status[d.id] = "applying", ~HeldBy(w, d.id), CommitStands(d)
  PROVE  CommitStands(d)'
<1>1. d.id \in Proposals /\ Recorded(d) /\ head \in Seq(Git!Commits)
  BY GitTypes DEF Committed, ApplyInv, GitInv, JobInv, DoneInv
<1>2. files'[d.id] = files[d.id] /\ CommittedTargets(d.id)' = CommittedTargets(d.id)
  <2>1. files'[d.id] = files[d.id]
    BY <1>1, ApprovedStays DEF ApplyInv, Recorded
  <2> QED
    BY <2>1 DEF CommittedTargets, CommitSpec
<1>3. ASSUME NEW t \in CommittedTargets(d.id)
      PROVE  Spoiled(d.id, t)' \/ Current(d, t)'
  <2>1. t \in Paths /\ t \in DOMAIN files[d.id]
    BY <1>1 DEF CommittedTargets, ApplyInv, TypeInv, TypeOK, FileMaps
  <2>2. CASE Spoiled(d.id, t)
    BY <1>1, <2>2, SpoiledStays
  <2>3. CASE ~Spoiled(d.id, t)
    <3>1. Current(d, t) /\ d.sha \in 1..Len(head)
      BY <1>1, <1>3, <2>3 DEF CommitStands, Recorded
    <3>2. Git!TreeOf(head)[t] = tree[t]
      BY <1>1, <3>1 DEF Current, Git!TreeOf
    <3>3. SamePath(t)
      <4>1. CASE JobStep(w) \/ FaultStep(w)
        <5>1. ASSUME job[w].at = "apply" PROVE t \notin DOMAIN files[job[w].claimed]
          <6> DEFINE q == job[w].claimed
          <6>1. q \in Proposals /\ status[q] = "applying" /\ q # d.id
            BY <5>1 DEF ApplyInv, JobInv, StageInv, SoloInv, SoloJob, HeldBy
          <6>2. Retried(q) \/ Retried(d.id) \/ t \notin DOMAIN files[q]
            BY <1>1, <2>1, <6>1 DEF SoloInv, SharedTargetOnlyByRetry, Open, OpenStatuses
          <6> QED
            BY <2>3, <6>1, <6>2 DEF Spoiled, EverApproved
        <5> QED
          BY <2>1, <3>2, <4>1, <5>1, JobSamePath
      <4>2. CASE ~ (JobStep(w) \/ FaultStep(w))
        <5>1. ~ (\E v \in Workers : JobStep(v) \/ FaultStep(v))
          BY <4>2
        <5>2. job[w].at # "idle"
          BY DEF SoloInv, SoloJob
        <5> QED
          BY <2>1, <3>2, <5>1, <5>2, FlowSamePath
      <4> QED
        BY <4>1, <4>2
    <3>4. tree'[t] = files'[d.id][t]
      BY <1>2, <3>1, <3>3 DEF Current, SamePath
    <3>5. ASSUME NEW k \in d.sha..Len(head') PROVE head'[k].tree[t] = files'[d.id][t]
      <4>1. CASE head' = head
        BY <1>2, <3>1, <3>5, <4>1 DEF Current
      <4>2. ASSUME NEW c, head' = Append(head, c), c.tree[t] = tree[t]
            PROVE  head'[k].tree[t] = files'[d.id][t]
        <5>1. (k \in d.sha..Len(head) /\ head'[k] = head[k]) \/ head'[k] = c
          BY <1>1, <3>1, <3>5, <4>2
        <5> QED
          BY <1>2, <3>1, <4>2, <5>1 DEF Current
      <4> QED
        BY <3>3, <4>1, <4>2 DEF SamePath
    <3> QED
      BY <3>4, <3>5 DEF Current
  <2> QED
    BY <2>2, <2>3
<1> QED
  BY <1>2, <1>3 DEF CommitStands

\* The commit just made for a proposal stands.
LEMMA NewCommitStands ==
  ASSUME ApplyInv, [ApplyNext]_allVars, [StoreStep]_vars, NEW w \in Workers, Apply(w), NEW d,
         d = [id |-> job[w].claimed, sha |-> Len(head')]
  PROVE  CommitStands(d)'
<1> DEFINE p == job[w].claimed
<1>1. p \in Proposals /\ status[p] \in EverApproved /\ d.id = p /\ UNCHANGED vars
  BY DEF Apply, ApplyInv, JobInv, StageInv
<1>2. Git!CommitPathspec(Git!Written(files[p]), CommitSpec(p), p)
  BY DEF Apply
<1>3. Recorded(d)'
  <2>1. PICK q : q = p
    OBVIOUS
  <2> QED
    BY <1>1, <1>2, <2>1, ApplyRecords
<1>4. tree' = Git!Written(files[p])
  BY <1>2 DEF Git!CommitPathspec
<1>5. \A t \in CommittedTargets(d.id)' : t \in Paths /\ t \in DOMAIN files'[d.id]
  BY <1>1, ApplyStores, StoreType DEF CommittedTargets, ApplyInv, TypeInv, TypeOK, FileMaps, vars
<1>6. \A t \in CommittedTargets(d.id)' : tree'[t] = files'[d.id][t]
  BY <1>1, <1>4, <1>5 DEF Git!Written, vars
<1>7. d.sha..Len(head') = {Len(head')} /\ d.sha = Len(head')
  <2>1. head' \in Seq(Git!Commits)
    BY HistoriesGrow DEF GitInv, Git!TypeOK
  <2>2. d.sha = Len(head') /\ Len(head') \in Nat
    BY <2>1
  <2> QED
    BY <2>2
<1> QED
  BY <1>3, <1>6, <1>7 DEF CommitStands, Current, Recorded

\* A job keeps the commits it has yet to report, all of them while it does not report.
LEMMA StandsNext ==
  ASSUME \A v, w \in Workers : v = w,
         ApplyInv, SoloInv, [ApplyNext]_allVars, [StoreStep]_vars, NEW w \in Workers,
         NEW p \in Proposals
  PROVE  Stands(w, p)'
<1> SUFFICES ASSUME status'[p] = "applying", ~HeldBy(w, p)',
                    NEW i \in DOMAIN job'[w].done, job'[w].done[i].id = p
             PROVE  \E j \in DOMAIN job'[w].done : \E d :
                      d = job'[w].done[j] /\ d.id = p /\ CommitStands(d)'
  BY DEF Stands, CommitStands, Spoiled, Current
<1>1. job[w].done \in Seq(Committed)
  BY DoneType DEF Jobs
<1>2. status[p] = "applying"
  BY OnlyClaims
<1>3. CASE Apply(w)
  <2>1. PICK d : d = [id |-> job[w].claimed, sha |-> Len(head')]
    OBVIOUS
  <2>2. CommitStands(d)'
    BY <1>3, <2>1, NewCommitStands
  <2>3. job'[w].done = Append(job[w].done, d)
    BY <1>3, <2>1 DEF Apply, ApplyInv
  <2>4. /\ Len(job[w].done) + 1 \in DOMAIN job'[w].done /\ job'[w].done[Len(job[w].done) + 1] = d
        /\ \A k \in DOMAIN job[w].done : k \in DOMAIN job'[w].done /\ job'[w].done[k] = job[w].done[k]
        /\ i \in DOMAIN job[w].done \/ job'[w].done[i] = d
    BY <1>1, <2>3
  <2>5. CASE d.id = p
    BY <2>2, <2>4, <2>5
  <2>6. CASE d.id # p
    <3>1. ~HeldBy(w, p) /\ i \in DOMAIN job[w].done /\ job[w].done[i].id = p
      BY <2>1, <2>4, <2>6 DEF HeldBy
    <3>2. PICK j \in DOMAIN job[w].done : job[w].done[j].id = p /\ CommitStands(job[w].done[j])
      BY <1>2, <3>1 DEF SoloInv, SoloJob, Stands
    <3>3. PICK e : e = job[w].done[j]
      OBVIOUS
    <3>4. CommitStands(e)'
      BY <1>1, <1>2, <3>1, <3>2, <3>3, CommitKeepsStanding
    <3> QED
      BY <2>4, <3>2, <3>3, <3>4
  <2> QED
    BY <2>5, <2>6
<1>4. CASE ~Apply(w)
  <2>1. \/ job'[w].done = job[w].done
        \/ JobReports(w)
    <3>1. CASE JobStep(w) \/ FaultStep(w)
      <4>1. ~JobToIdle(w)
        BY DEF JobToIdle, Idle
      <4> QED
        BY <1>4, <3>1, <4>1, JobShape DEF JobToFail, JobClaims, JobGivesUp, JobGoesOn
    <3>2. CASE ~ (JobStep(w) \/ FaultStep(w))
      BY <3>2, OthersFrame
    <3> QED
      BY <3>1, <3>2
  <2>2. ~HeldBy(w, p)
    <3>1. CASE JobStep(w) \/ FaultStep(w)
      <4>1. ~JobToIdle(w)
        BY DEF JobToIdle, Idle
      <4> QED
        BY <1>4, <3>1, <4>1, JobShape DEF JobToFail, JobClaims, JobGivesUp, JobReports, JobGoesOn, HeldBy
    <3>2. CASE ~ (JobStep(w) \/ FaultStep(w))
      <4>1. job' = job
        BY <3>2, OthersFrame
      <4> QED
        BY <4>1 DEF HeldBy
    <3> QED
      BY <3>1, <3>2
  <2>3. \E k \in DOMAIN job[w].done : job[w].done[k].id = p
    <3>1. CASE job'[w].done = job[w].done
      BY <3>1
    <3>2. CASE JobReports(w)
      BY <3>2, FirstDone DEF JobReports
    <3> QED
      BY <2>1, <3>1, <3>2
  <2>4. PICK j \in DOMAIN job[w].done : job[w].done[j].id = p /\ CommitStands(job[w].done[j])
    BY <1>2, <2>2, <2>3 DEF SoloInv, SoloJob, Stands
  <2>5. PICK e : e = job[w].done[j]
    OBVIOUS
  <2>6. CommitStands(e)' /\ e.id = p
    BY <1>1, <1>2, <2>2, <2>4, <2>5, CommitKeepsStanding
  <2>7. CASE job'[w].done = job[w].done
    BY <2>4, <2>5, <2>6, <2>7
  <2>8. CASE JobReports(w)
    <3>1. j # 1
      BY <2>4, <2>8 DEF JobReports
    <3>2. j - 1 \in DOMAIN job'[w].done /\ job'[w].done[j - 1] = e
      BY <1>1, <2>4, <2>5, <2>8, <3>1 DEF JobReports
    <3> QED
      BY <2>6, <3>2
  <2> QED
    BY <2>1, <2>7, <2>8
<1> QED
  BY <1>3, <1>4

LEMMA SoloNext ==
  ASSUME \A v, w \in Workers : v = w, Nat \ {0} \subseteq Shas,
         ApplyInv, SoloInv, [ApplyNext]_allVars
  PROVE  SoloInv'
<1>1. [StoreStep]_vars
  BY ApplyStores
<1>2. SharedTargetOnlyByRetry'
  BY ApplyOnStore, FreeTargets, SharedTargetCreate, SharedTargetOther DEF FlowStores, SoloInv, ApplyInv
<1>3. ASSUME NEW w \in Workers
      PROVE  /\ job'[w].at = "idle" => job'[w].done = <<>>
             /\ job'[w].at \in {"apply", "fail"} => status'[job'[w].claimed] = "applying"
  <2>1. /\ job[w].at = "idle" => job[w].done = <<>>
        /\ job[w].at \in {"apply", "fail"} =>
             job[w].claimed \in Proposals /\ status[job[w].claimed] = "applying"
    BY DEF SoloInv, SoloJob, ApplyInv, JobInv, StageInv
  <2>2. CASE JobStep(w) \/ FaultStep(w)
    <3>1. CASE Apply(w)
      BY <3>1, ApplyKeeps, <1>1 DEF Apply, ApplyInv
    <3>2. CASE JobReports(w)
      BY <3>2 DEF JobReports
    <3>3. CASE JobToIdle(w) \/ JobClaims(w) \/ JobGivesUp(w) \/ JobGoesOn(w)
      BY <3>3 DEF JobToIdle, JobClaims, JobGivesUp, JobGoesOn, Idle
    <3>4. CASE JobToFail(w)
      BY <2>1, <3>4 DEF JobToFail, vars
    <3> QED
      BY <2>2, <3>1, <3>2, <3>3, <3>4, JobShape
  <2>3. CASE ~ (JobStep(w) \/ FaultStep(w))
    <3>1. ~ (\E v \in Workers : JobStep(v) \/ FaultStep(v))
      BY <2>3
    <3> QED
      BY <2>1, <3>1, OthersFrame, ApplyingStays
  <2> QED
    BY <2>2, <2>3
<1>4. \A w \in Workers, p \in Proposals : Stands(w, p)'
  BY <1>1, StandsNext
<1> QED
  BY <1>2, <1>3, <1>4 DEF SoloInv, SoloJob

LEMMA MarkedStep ==
  ASSUME \A v, w \in Workers : v = w, ApplyInv, SoloInv, [ApplyNext]_allVars,
         NEW p \in Proposals, status[p] # "applied", status'[p] = "applied",
         NEW t \in CommittedTargets(p)
  PROVE  \/ Git!TreeOf(canonical)[t] = files[p][t]
         \/ \E q \in Proposals \ {p} : t \in DOMAIN files[q] /\ (Retried(p) \/ Retried(q))
<1>1. PICK w \in Workers : /\ job[w].at = "mark" /\ 1 \in DOMAIN job[w].done
                           /\ p = job[w].done[1].id /\ status[p] = "applying"
  BY OnlyMarksApply
<1>2. PICK i \in DOMAIN job[w].done : job[w].done[i].id = p /\ CommitStands(job[w].done[i])
  BY <1>1 DEF SoloInv, SoloJob, Stands, HeldBy
<1>3. CASE Spoiled(p, t)
  BY <1>3 DEF Spoiled
<1>4. CASE Current(job[w].done[i], t)
  <2>1. job[w].done[i].sha \in DOMAIN canonical
    BY <1>1, <1>2 DEF ApplyInv, JobInv, MarkInv
  <2>2. canonical \in Seq(Git!Commits) /\ head \in Seq(Git!Commits) /\ Git!IsAncestor(canonical, head)
    BY GitTypes DEF ApplyInv, GitInv
  <2>3. Len(canonical) <= Len(head) /\ \A k \in 1..Len(canonical) : head[k] = canonical[k]
    BY <2>2, AncestorPoints
  <2>4. /\ Len(canonical) \in job[w].done[i].sha..Len(head)
        /\ head[Len(canonical)] = canonical[Len(canonical)]
    BY <2>1, <2>2, <2>3
  <2> QED
    BY <1>2, <1>4, <2>4 DEF Current, Git!TreeOf
<1> QED
  BY <1>2, <1>3, <1>4 DEF CommitStands

\* With one job at a time, a proposal is marked applied only while canonical's latest
\* commit has its files, whatever other flows commit and push and however often a
\* proposal is taken up again; only a retry can put another proposal's file there.
THEOREM MarkedAlwaysCurrent ==
  ASSUME \A v, w \in Workers : v = w, Nat \ {0} \subseteq Shas
  PROVE  ApplySpec => MarkedIsCurrent
<1>1. ApplyInit => SoloInv
  BY DEF ApplyInit, Init, SoloInv, SoloJob, Stands, Idle, SharedTargetOnlyByRetry, Open,
         OpenStatuses, Absent
<1>2. ApplyInv /\ SoloInv /\ [ApplyNext]_allVars =>
        [\A p \in Proposals :
           status[p] # "applied" /\ status'[p] = "applied" =>
             \A t \in CommittedTargets(p) :
               \/ Git!TreeOf(canonical)[t] = files[p][t]
               \/ \E q \in Proposals \ {p} :
                    t \in DOMAIN files[q] /\ (Retried(p) \/ Retried(q))]_allVars
  BY MarkedStep
<1> QED
  BY <1>1, <1>2, ApplyInvInit, ApplyInvNext, SoloNext, PTL DEF ApplySpec, MarkedIsCurrent
=============================================================================
