---------------------------- MODULE ApplyApproved ----------------------------
(***************************************************************************)
(* The proposal-apply flow: jobs that claim approved proposals, write and  *)
(* commit their files in the work directory, push once and report back     *)
(* (cmd/memoryctl/pipeline.go), over the state database of ProposalStore   *)
(* and the work directory of WorkDir.  Beside them run the people who      *)
(* decide, the other flows, which write, commit and push in the same work  *)
(* directory, and the clock, which ends leases.                            *)
(*                                                                         *)
(* A job may end at any step: killed, or on an error of a call to the API  *)
(* whether or not the call took effect.  Both are Crash.                   *)
(***************************************************************************)
EXTENDS ProposalStore

CONSTANTS
  FlowContents, \* contents the other flows write
  Truncated,    \* content of a file whose write failed half way
  Faults,       \* the faults that may happen, of those of FaultKinds
  MaxFaults,    \* bound: how many
  MaxCommits,   \* bound: other flows commit while the history is shorter
  NoFile        \* no file at a path

FaultKinds == {"crash", "write", "commit", "push", "slow"}

ASSUME ApplyAssumption ==
  /\ Faults \subseteq FaultKinds
  /\ NoFile \notin Contents \cup FlowContents \cup {Truncated}
  /\ MaxFaults \in Nat
  /\ MaxCommits \in Nat \ {0}

VARIABLES
  tree, index, head, canonical,  \* the work directory and canonical.git
  job,                           \* [Workers -> the job that runs under that name]
  faults                         \* number of faults so far

Git == INSTANCE WorkDir WITH
         Contents  <- Contents \cup FlowContents \cup {Truncated},
         Authors   <- Proposals \cup {"flow"},
         Elsewhere <- "seed"

gitVars == <<tree, index, head, canonical>>

allVars == <<vars, gitVars, job, faults>>

\* Where a job is: no job; about to claim; holding a claimed proposal; about to
\* mark it failed; about to push; the push done or failed and the committed
\* proposals to be marked.
Stages == {"idle", "claim", "apply", "fail", "push", "mark", "markfailed"}

Committed == [id : Proposals, sha : Nat]

Jobs == [at : Stages, claimed : Proposals \cup {NULL}, done : Seq(Committed)]

Idle == [at |-> "idle", claimed |-> NULL, done |-> <<>>]

\* The commits a job has made and not yet reported are in the work directory's
\* history, whatever other flows do there in the meantime.
ApplyTypeOK ==
  /\ TypeOK
  /\ Git!TypeOK
  /\ job \in [Workers -> Jobs]
  /\ \A w \in Workers : \A i \in DOMAIN job[w].done : job[w].done[i].sha \in DOMAIN head
  /\ faults \in 0..MaxFaults

ApplyInit ==
  /\ Init
  /\ Git!Init
  /\ job = [w \in Workers |-> Idle]
  /\ faults = 0

-----------------------------------------------------------------------------
Fault(f) ==
  /\ f \in Faults /\ faults < MaxFaults
  /\ faults' = faults + 1

Goto(w, stage) == job' = [job EXCEPT ![w].at = stage]

\* The first step of the flow puts the work directory in order.
StartJob(w) ==
  /\ job[w].at = "idle"
  /\ Git!EnsureWork
  /\ Goto(w, "claim")
  /\ UNCHANGED <<vars, faults>>

ClaimNext(w, p, held) ==
  /\ job[w].at = "claim"
  /\ Claim(w, p, held)
  /\ job' = [job EXCEPT ![w].at = "apply", ![w].claimed = p]
  /\ UNCHANGED <<gitVars, faults>>

\* Nothing is left to claim, or every approved row is locked at that moment, by other
\* claims or by revisions that are turned down: with nothing committed the job is
\* over, otherwise it pushes.
NothingToClaim(w) ==
  /\ job[w].at = "claim"
  /\ Lapsed = {}
  /\ job' = [job EXCEPT ![w] = IF @.done = <<>> THEN Idle ELSE [@ EXCEPT !.at = "push"]]
  /\ UNCHANGED <<vars, gitVars, faults>>

\* The pathspec of a proposal's commit is that of its first file.
CommitSpec(p) == PathspecOf(FirstTarget(DOMAIN files[p]))

\* Mutant of Apply: the id of HEAD is read before the commit.
ApplyReadsHeadFirst(w) ==
  LET p == job[w].claimed
  IN /\ job[w].at = "apply"
     /\ Git!CommitPathspec(Git!Written(files[p]), CommitSpec(p), p)
     /\ job' = [job EXCEPT ![w] = [at |-> "claim", claimed |-> NULL,
                                   done |-> Append(@.done, [id |-> p, sha |-> Len(head)])]]
     /\ UNCHANGED <<vars, faults>>

\* Under the lock: write every file, commit, read the id of HEAD.
Apply(w) ==
  LET p == job[w].claimed
  IN /\ job[w].at = "apply"
     /\ Git!CommitPathspec(Git!Written(files[p]), CommitSpec(p), p)
     /\ job' = [job EXCEPT ![w] = [at |-> "claim", claimed |-> NULL,
                                   done |-> Append(@.done, [id |-> p, sha |-> Len(head')])]]
     /\ UNCHANGED <<vars, faults>>

\* Something else is staged and nothing of the proposal's pathspec has changed:
\* git commit has nothing to commit and fails.
ApplyCannotCommit(w) ==
  LET p       == job[w].claimed
      written == Git!Written(files[p])
  IN /\ job[w].at = "apply"
     /\ Git!HasStagedChanges(written, CommitSpec(p)) /\ ~Git!CanCommit(written, CommitSpec(p))
     /\ tree' = written
     /\ index' = Git!Added(written, CommitSpec(p))
     /\ Goto(w, "fail")
     /\ UNCHANGED <<vars, head, canonical, faults>>

\* The write of a file fails: those before it in the order of paths are written,
\* it is left as it was or cut off.
WriteFails(w) ==
  LET F == files[job[w].claimed]
  IN /\ job[w].at = "apply"
     /\ Fault("write")
     /\ \E t \in DOMAIN F, cut \in BOOLEAN :
          LET before == {s \in DOMAIN F \ {t} : FirstTarget({s, t}) = s}
          IN Git!Write([s \in before \cup (IF cut THEN {t} ELSE {}) |->
                          IF s = t THEN Truncated ELSE F[s]])
     /\ Goto(w, "fail")
     /\ UNCHANGED vars

\* The commit fails, or it is made and reported as failed: git commit moves the branch
\* before it ends, or the id of HEAD cannot be read after it.
CommitFails(w) ==
  LET p       == job[w].claimed
      written == Git!Written(files[p])
  IN /\ job[w].at = "apply"
     /\ Fault("commit")
     /\ Git!CommitFails(written, CommitSpec(p)) \/ Git!CommitPathspec(written, CommitSpec(p), p)
     /\ Goto(w, "fail")
     /\ UNCHANGED vars

\* The claimed proposal is reported as failed and the loop goes on; when the API
\* refuses, because the proposal is no longer applying, the job ends there and
\* pushes nothing.
ReportFailure(w) ==
  LET p == job[w].claimed
  IN /\ job[w].at = "fail"
     /\ \/ /\ MarkFailed(p, w)
           /\ job' = [job EXCEPT ![w].at = "claim", ![w].claimed = NULL]
        \/ /\ status[p] # "applying"
           /\ job' = [job EXCEPT ![w] = Idle]
           /\ UNCHANGED vars
     /\ UNCHANGED <<gitVars, faults>>

Push(w) ==
  /\ job[w].at = "push"
  /\ Git!Push
  /\ Goto(w, "mark")
  /\ UNCHANGED <<vars, faults>>

\* Mutant of PushFails: the error is not looked at.
PushFailsUnseen(w) ==
  /\ job[w].at = "push"
  /\ Fault("push")
  /\ Git!Push \/ UNCHANGED gitVars
  /\ Goto(w, "mark")
  /\ UNCHANGED vars

\* The push reports an error; canonical may have moved all the same.
PushFails(w) ==
  /\ job[w].at = "push"
  /\ Fault("push")
  /\ Git!Push \/ UNCHANGED gitVars
  /\ Goto(w, "markfailed")
  /\ UNCHANGED vars

\* After the push the committed proposals are marked one by one, with the result
\* of the push; the first refusal ends the job.
Report(w) ==
  LET first == Head(job[w].done)
      rest  == Tail(job[w].done)
  IN /\ \/ job[w].at = "mark" /\ MarkApplied(first.id, w, first.sha)
        \/ job[w].at = "markfailed" /\ MarkFailed(first.id, w)
     /\ job' = [job EXCEPT ![w] = IF rest = <<>> THEN Idle ELSE [@ EXCEPT !.done = rest]]
     /\ UNCHANGED <<gitVars, faults>>

ReportRefused(w) ==
  /\ job[w].at \in {"mark", "markfailed"}
  /\ status[Head(job[w].done).id] # "applying"
  /\ job' = [job EXCEPT ![w] = Idle]
  /\ UNCHANGED <<vars, gitVars, faults>>

Crash(w) ==
  /\ job[w].at # "idle"
  /\ Fault("crash")
  /\ job' = [job EXCEPT ![w] = Idle]
  /\ UNCHANGED <<vars, gitVars>>

JobStep(w) ==
  \/ StartJob(w)
  \/ \E p \in Proposals, held \in SUBSET Proposals : ClaimNext(w, p, held)
  \/ NothingToClaim(w)
  \/ Apply(w)
  \/ ApplyCannotCommit(w)
  \/ ReportFailure(w)
  \/ Push(w)
  \/ Report(w)
  \/ ReportRefused(w)
FaultStep(w) == WriteFails(w) \/ CommitFails(w) \/ PushFails(w) \/ Crash(w)

-----------------------------------------------------------------------------
\* The steps of other flows.  All flow steps run one after the other on a single
\* worker, so that files are written only while no job runs; ensure-work, commit and
\* push take the lock.
FlowWrites(t, c) ==
  /\ \A w \in Workers : job[w].at = "idle"
  /\ Git!Write([s \in {t} |-> c])
  /\ UNCHANGED <<vars, job, faults>>

FlowCommits(ps) ==
  /\ Git!CommitPathspec(tree, ps, "flow")
  /\ UNCHANGED <<vars, job, faults>>

FlowEnsures ==
  /\ Git!EnsureWork
  /\ UNCHANGED <<vars, job, faults>>

FlowPushes ==
  /\ Git!Push
  /\ UNCHANGED <<vars, job, faults>>

\* The job w has claimed p and is not done with it.
Holds(w, p) ==
  job[w].claimed = p \/ \E i \in DOMAIN job[w].done : job[w].done[i].id = p

\* The lease of a proposal that no job holds any more runs out.
OrphanLeaseEnds(p) ==
  /\ \A w \in Workers : ~Holds(w, p)
  /\ LeaseRunsOut(p)
  /\ UNCHANGED <<gitVars, job, faults>>

\* A job is slower than its lease.
LeaseEndsEarly(p) ==
  /\ \E w \in Workers : Holds(w, p)
  /\ LeaseRunsOut(p)
  /\ Fault("slow")
  /\ UNCHANGED <<gitVars, job>>

Environment ==
  /\ \/ \E p \in Proposals, F \in FileMaps : \E first \in DOMAIN F : Create(p, F, first)
     \/ \E p \in Proposals : Approve(p)
     \/ \E p \in Proposals : Room(p) /\ Retry(p)
  /\ UNCHANGED <<gitVars, job, faults>>

ApplyNext ==
  \/ \E w \in Workers : JobStep(w)
  \/ \E w \in Workers : FaultStep(w)
  \/ Environment
  \/ \E t \in Paths, c \in FlowContents : FlowWrites(t, c)
  \/ \E ps \in Git!Pathspecs : Len(head) < MaxCommits /\ FlowCommits(ps)
  \/ FlowEnsures
  \/ FlowPushes
  \/ \E p \in Proposals : OrphanLeaseEnds(p)
  \/ \E p \in Proposals : LeaseEndsEarly(p)

\* The schedule starts a job every ten minutes, a started job goes on, a lease that
\* nobody holds runs out, and a row is not locked at every claim: a revision that is
\* turned down lets it go at once.
Fairness ==
  /\ \A w \in Workers : WF_allVars(JobStep(w))
  /\ \A w \in Workers : SF_allVars(\E p \in Proposals : ClaimNext(w, p, {}))
  /\ \A p \in Proposals : WF_allVars(OrphanLeaseEnds(p))

ApplySpec == ApplyInit /\ [][ApplyNext]_allVars

FairSpec == ApplySpec /\ Fairness

-----------------------------------------------------------------------------
WasApproved(p) == \E i \in DOMAIN log[p] : log[p][i].to = "approved"

\* The files of p that its commit takes.
CommittedTargets(p) == {t \in DOMAIN files[p] : PathspecOf(t) = CommitSpec(p)}

\* A proposal is marked applied only for a commit that canonical has and that
\* holds what the reviewer approved, whatever jobs crashed, lost their lease or
\* failed to push on the way, and whichever job reports it.
AppliedIsPublished ==
  \A p \in Proposals : status[p] = "applied" =>
    /\ appliedSha[p] \in DOMAIN canonical
    /\ \A t \in CommittedTargets(p) : canonical[appliedSha[p]].tree[t] = files[p][t]

\* "write files, commit, mark applied with HEAD sha": the commit holds every file.
AppliedIsWhole ==
  \A p \in Proposals : status[p] = "applied" =>
    \A t \in DOMAIN files[p] : canonical[appliedSha[p]].tree[t] = files[p][t]

\* Nothing comes into canonical but what other flows wrote and the files of
\* proposals that were approved.
PublishedWasApproved ==
  \A i \in DOMAIN canonical, t \in Paths :
    LET content == canonical[i].tree[t]
    IN \/ content \in FlowContents \cup {NoFile}
       \/ \E p \in Proposals :
            WasApproved(p) /\ t \in DOMAIN files[p] /\ content = files[p][t]

\* When a proposal is marked applied canonical's latest commit still has its
\* files, unless a proposal for the same target was retried after a failure and
\* so applied beside it.
MarkedIsCurrent ==
  [][\A p \in Proposals :
       status[p] # "applied" /\ status'[p] = "applied" =>
         \A t \in CommittedTargets(p) :
           \/ Git!TreeOf(canonical)[t] = files[p][t]
           \/ \E q \in Proposals \ {p} :
                t \in DOMAIN files[q] /\ (Retried(p) \/ Retried(q))]_allVars

\* The steps of jobs and of other flows, failed and repeated ones included, never take
\* a commit out of the history of the work directory or of canonical: ensure-work
\* "ahead: unpushed commits kept" (cmd/memoryctl/main.go).
WorkIsKept == Git!NoCommitIsLost

\* Every approved proposal is settled: applied, or failed for the reviewer to see.
ApprovedIsSettled ==
  \A p \in Proposals :
    status[p] \in {"approved", "applying"} ~> status[p] \in {"applied", "failed"}
=============================================================================
