# claude-memory-sync: TLA+ models and proofs

## 1. The system

Memory and configuration of Claude on many machines are kept in one git
repository, `canonical.git`. An agent on each machine pushes its files to a
repository of its own on the server and pulls canonical; scheduled flows on the
server merge the clients' files into canonical, let a model draft changes and
apply the ones a person approved. Everything the flows do in git happens in one
clone, the *work directory*.

### Components

| component | state | operations | talks to |
| --- | --- | --- | --- |
| pipeline service and postgres repository (`internal/pipeline`) | tables `proposal`, `proposal_file`, `proposal_event`, `rejection` | create, revise, decide, retry, claim, mark applied, mark failed, expire, add rejection | one database transaction per operation |
| HTTP API and client (`httpapi`, `client`) | none | one endpoint per operation, two roles | the service |
| apply-approved (`cmd/memoryctl/pipeline.go`) | the proposals it has claimed and committed | claim loop, write and commit, push once, mark | the API, the work directory |
| work directory (`main.go`, `commitpush.go`, `gitutil`) | tree, index, branch; `canonical.git` | ensure-work, commit of a pathspec, push | the canonical file lock |
| intake (`scan.go`, `merge.go`, `markers.go`) | markers: last commit merged per client | scan, last-writer-wins merge, judge, push, marker advance | clients' repositories, work directory |
| ops and guardrails (`apply.go`, `internal/ops`, `internal/guardrails`) | memory files, index, hot block | parse an op stream, write, delete, rebuild index | work directory, API (proposals) |
| git server and hook (`internal/gitserver`, `internal/githook`) | bare repositories | create on first use, policy, pre-receive | agents |
| sync agent and manifest (`internal/syncer`, `internal/manifest`) | staging repository, mirror, base manifest | up-sync, down-sync, three-way diff | git server, local files |
| Windmill flows (`deploy/windmill/flows`) | none of their own | intake, daily-synth, taskmine, proposal-apply: sequences of the steps above | one `default` worker runs all steps, one at a time |
| approval app (`deploy/windmill/app`) | what the page shows | list, decide, revise, retry | the API |

### What is hard

* *Concurrency.* Reviewers, flows and workers use the database at the same time;
  claims overlap and skip each other's rows; a mark is accepted from any worker;
  create and revise guard targets with advisory locks over several statements.
* *Time.* Leases end while their worker still runs; pending proposals expire.
* *Failure between steps.* apply-approved commits, pushes and marks in three
  systems with no common transaction; an agent's cycle and an intake run are
  sequences of writes, each of which may fail or be killed.
* *Leftovers.* The work directory outlives every job: uncommitted files, a staged
  index and unpushed commits are found by whoever comes next. So does a staging
  repository, a base manifest, a bare repository without its hook.
* *Order.* Commits of one pathspec ask the whole index whether there is anything
  to commit; winners of a merge are chosen by commit times, which replicas renew;
  the index is written by two programs, each keeping the other's part.
* *Sync.* People edit while files come down, clients push while intake runs.

`PROJECT.json` lists each with its line under "hazards".

### What makes each component correct

* state database: rows, files and events agree; every status change is one of the
  status machine; what is decided is frozen; a running lease protects its claim;
  targets are exclusive but for retries; its transactions never wait for each
  other in a circle;
* apply-approved: applied means published, nothing unapproved is published, the
  newest content is there when the mark is made, every approved proposal settles;
* work directory: ensure-work drops no commit that is not in canonical;
* agent: nothing people wrote is overwritten unless it is in the client's
  repository; whatever is on the machine gets there; untouched files follow
  canonical;
* hook and intake: no secret in canonical; no pushed version is passed over;
* project memory: the index lists the entries, an entry is whole, the digest that
  sessions read is the latest.

## 2. Modules

| module | models |
| --- | --- |
| `Targets` | `target.go`, `kind.go`: allowed paths, kind, group, pathspec. Pure. |
| `ProposalStatus` | `status.go`: statuses and allowed moves. Pure. |
| `StatusMachine` | abstract specification: each proposal walks the status machine |
| `ProposalStore` | the state database; one action per operation of the service |
| `TargetGuard` | extends `ProposalStore`: the same transactions statement by statement, with their locks |
| `WorkDir` | the git work directory and the commands the flows run in it |
| `ApplyApproved` | composes `ProposalStore` and `WorkDir` (by `INSTANCE`) with jobs that crash |
| `SyncPaths` | which paths the agent scans, can place, the hook admits, intake reads. Pure. |
| `ManifestDiff` | `manifest/diff.go`: the three-way comparison. Pure. |
| `Repositories` | staging repositories, clients' repositories with the hook, markers, canonical |
| `AgentSync` | extends `Repositories`: the agents' cycles, step by step |
| `Intake` | extends `Repositories`: the intake flow, step by step |
| `SyncLoop` | composes `AgentSync` and `Intake` with people, other flows and faults |
| `MemoryFiles` | op stream parser, guardrails, index and hot block. Pure, on lines. |
| `MemoryDir` | composes `MemoryFiles` and `WorkDir`: the steps that write a project's memory |
| `MCProposalStore`, `MCTargetGuard`, `MCApplyApproved`, `MCSyncLoop`, `MCMemoryDir` | values for TLC |
| `ProposalStoreProofs`, `ProposalSafetyProofs` | theorems about `ProposalStore` |
| `TargetGuardProofs` | theorems about `TargetGuard` |
| `ApplyProofs` | theorems about `ApplyApproved` and the work directory under it |
| `SyncLoopProofs` | theorems about `SyncLoop` |
| `MemoryProofs` | theorems about `MemoryDir` and `MemoryFiles` |
| `FiniteOrders` | lemmas on least and greatest elements of finite sets |

### ProposalStore

A variable per column, a function from proposal ids to values; `log` is
`proposal_event`, `files` is `proposal_file`. `Transition` is the guarded UPDATE
of `transitionTx` with everything it sets, and Approve, Reject, Retry,
MarkApplied and MarkFailed are its uses. `Claim` is the whole transaction: lapsed
leases reset (with their events), the first decided row that no other claim has
locked, the new lease and event. The rows that other transactions in flight have
locked are the set `held`, any approved rows but the claimed one: `SKIP LOCKED` skips
those of another claim and those of a revision too, which looks at the status only when
it has the row. No order of claims follows from that, not even for one worker. `Create`
takes kind and name from the first file of the request, `Revise` leaves the kind. Time is reduced to what the code asks of it: a
lease is `"none"`, `"running"` or `"over"`, a proposal is `old` or not, and `now`
counts decisions.

A path is a sequence of segments of tokens, so that prefix and suffix tests stay
tests. A transaction is one step here; `TargetGuard` takes it apart.

### TargetGuard

A session (`request`) begins a transaction, locks the rows its first statement
finds (`want`, `taken`), looks at each of them again as READ COMMITTED does, for
create and revise takes the advisory keys of its targets in the order of their
hashes (`keyLock`), checks for open proposals, and commits. Claims pick with
`SKIP LOCKED`. What a transaction writes becomes visible when it commits, so that
its effect is that of the action of `ProposalStore`, whose parts
(`InsertProposal`, `ReplaceFiles`, `TakeClaim`, `ExpireRows`, `Transition`) are
shared. Any transaction may be rolled back at any point.

Simplified: several rows are locked in the same order by every statement (the
table's, which is what scans of one table give unless the planner changes its
mind), `decided_at` is the time of the commit though it is that of the
transaction's start (no property is about the order of decisions), and the unique key of
`rejection`, taken last by a reject, is left out.

Retry takes no advisory lock and makes no check, so that `one open proposal per
target` is no promise the statements could implement; `SharedTargetOnlyByRetry`
is what is kept, here under all interleavings.

### WorkDir

`tree`, `index`, `head` and `canonical`; a history is the sequence of its
commits. The three outcomes of ensure-work, `git add` of a pathspec against the
check of the whole index, `git commit -- pathspec`, and a fast-forward push are
as in the code. Git itself is external and modelled from how the code calls it:
`reset --hard` leaves untracked files, `clean -fd` removes them, a commit with a
pathspec takes nothing else that is staged and fails when it has nothing to take.

Nobody but the flows can push to canonical (the server's policy turns clients away),
and all flows share this clone, so that HEAD is never behind canonical and never
diverged. Of ensure-work's branches the runs reach the equal and the unpushed one;
the others are in the model and in the theorems, but no step leads to them.

### ApplyApproved

A job walks `idle`, `claim`, `apply`, (`fail`), `push`, `mark` or `markfailed`.
`Apply` is the section under the file lock. Faults are counted (`MaxFaults`) and
chosen by a run (`Faults`): `crash` (the job ends anywhere: killed, or the API
did not answer, before or after its effect), `write` (a file cut off), `commit`
(before `git add`, after it, or with the commit made and reported as failed, as when
`rev-parse` fails after it), `push` (with or without effect), `slow` (a lease
ends while its job still works). A mark the API refuses ends the job, as in the
code. The other flows write files while no job runs, because the deployment has
one worker that runs flow steps one at a time (`.docs/11`, "flow steps run one at
a time on the single `default` worker"); their ensure-work, commit and push take the lock
and may come at any time, which is more than the deployment does.

### Repositories, AgentSync, Intake, SyncLoop

Of a branch the tree of its tip is kept and, for each path, when it was last
touched: the program asks a history for nothing else. A commit has the time of its
machine's clock, which may be any of `CommitTimes`: clocks of two machines need not
agree, and one may be set back. With one machine times are never compared.

*Agent.* `RunCycle` is `ScanLocal`, `UpSync` (staging repository, work tree,
commit), `Push`, `Fetch` (mirror and comparison), one `ApplyChange` per file, in any order,
and `SaveBase`. What the cycle has read is in `scan`, `mirror` and `todo`,
and people (`Edit`) may write at any moment. Push runs the hook's judgement of
the net change (`HookAccepts`), with the path as the hook reads it from
`git diff --raw`, and the secret scan, which leaves out large blobs. A first push
creates the repository.

*Intake.* `Scan` (with ensure-work, the status lines with git's renames, and the
winners the heads and times of that moment decide), `MergeConfig`, `Judge` per
project, `PushCanonical`, `AdvanceMarker` per client. `committed` is the tree of HEAD in
the work directory and `loose` what no commit has yet. The model's judgement is
a choice among `Judged`. A path that a rename took away is read from the head that has
it no more: `MergeStops` ends the run at the first such winner, with the winners before it
written and uncommitted, `JudgeStops` at the project of such a candidate, when global and
projects judged before are committed. The marker stays, and what is committed goes to
canonical with the next push, of whatever flow.

*Faults* (at most `MaxFaults`): a call fails, or takes effect without its answer;
the server dies between `git init` and the hook's installation; the agent is killed
between steps, between `git init` and `git remote add`, or in the middle of
writing a file or the base manifest; a step of intake fails before, in the middle of or
after its work.

### MemoryFiles, MemoryDir

A file is the sequence of its lines, a line a tuple of what the code looks for in
it. A file that a failed write has left may end in the middle of a line, or with a whole
line that has no newline (`CutOff`); what comes after such a header stands on its last
line (`Joined`, `Glued`). The parser is a recursive function over the lines (`After`), as in `ops.Parse`. `MemoryDir` has the
steps of intake's judge, condense, distill and the hot cache: `OpsStep` is
ops-apply with its commit, `HotStep` hotcache-write with its commit; ensure-work
and push come from `WorkDir`. A fault cuts the model's output at any line, fails
the commit, the proposal's submission, an entry's write (which leaves the old file or part
of the new one, and is only reported: the commit takes it), or the rebuild of the index,
before its write or in it. `partial` remembers what failed writes of entries have left.

## 3. What TLC checks

| run | shows | bounds |
| --- | --- | --- |
| targets | StoredFilesValid, SharedTargetOnlyByRetry, LogIsHistory, DecidedIsFrozen | two proposals, a rule, an entry of the same group and a refused path, a secret; one worker, two revisions, 6 events |
| guard | SharedTargetOnlyByRetry, LogIsHistory, NoWaitCycle, ColumnsMatchStatus, DecidedIsFrozen, LeaseProtectsClaim, ImplementsStatusMachine between statements | two sessions, two workers, two proposals of one or both files of a skill, one revision, 6 events in all |
| publish | AppliedIsPublished, PublishedWasApproved, MarkedIsCurrent, WorkIsKept | one worker, two proposals for one rule, two contents, two faults |
| scaled | AppliedIsWhole | two workers, a skill of two files, four faults |
| settled | ApprovedIsSettled (liveness) | one worker, a rule and an entry, two faults; an index left dirty in one pathspec meets a commit of the other |
| loop | NoSecretPublished, SecretOnlyWithoutHook, NothingIsLost; EditsReachServer, UncontestedIsPublished, FollowsCanonical (liveness) | one machine, a rule and an entry, five contents, any two of five edits, one change by another flow, one fault |
| memory | IndexListsEntries, EntriesAreWhole, DigestIsLatest | two entries, five outputs, four digests, one fault, steps until the history has four commits |
| one_open, whole, cut, echo, revert | the five findings, see below | |

Type invariants are listed in one run of each component; those of `TargetGuard`
and `MemoryDir` are not checked apart.

*Bounds.* Two proposals are enough for every property about pairs, and let a claim
overtake an earlier decision whose row is locked. Two workers give every race between a
claim and a stale mark. `MaxEvents` stops only the environment (decisions, retries, ends
of leases), never a worker, so that no state is stuck because of a bound: five events are
a whole life up to a failure and the retry, and with those a worker adds a proposal
fails, is retried and settles a second time. Two faults in `publish` allow a crash or a
failed commit or push, and then a lost lease or a second failure in the recovery.

`MaxLogged` bounds the events of all proposals together in `guard`, counting
those that open transactions are about to add: six are a proposal's way to failed
and retried while another is created for its target. Two sessions make every
circle of two; a longer circle would need a key or row taken out of the order,
which two sessions show.

In `loop` people make `MaxEdits` edits, any of `Edits` as often as they like, so that a
file may go back to an earlier version; other flows make `MaxFlows` changes. Among the
contents are a secret, one too large for the hook to scan, one with a newline at its end
(which intake cuts off) and what a cut-off write leaves. An entry that goes as a rule of
the same content comes is a rename. A fault and an edit in every step of a cycle and of
an intake run meet. Between two runs of which the first fails a file may be written and
taken back; what canonical then keeps is the finding `revert`. Two machines only matter to who wins a merge; that is `echo`.
`MaxCommits` in `memory` bounds the history: a change, a digest and a rebuild fit with a
step that fails between any two; five commits were checked once, without an error.

`CHECK_DEADLOCK FALSE` is set where the environment is bounded: with no requests
left the database really rests.

*Fairness.* `settled`: the schedule starts a job every ten minutes and a started
job goes on (weak fairness of each worker's next step); a lease that no job
holds runs out. Other transactions let go of the rows they have locked, so that a
worker that asks again and again finds an approved row unlocked in the end (strong
fairness of the claim that finds nothing locked). `loop`: the agent's ticker starts a cycle every interval whatever
became of the last one, and a schedule starts intake (weak fairness of each
agent's steps and of intake's). Nothing is assumed of reviewers, people or other
flows. Faults are finite.

*Findings.*

* `one_open`: retry makes no target check, so two open proposals may have one
  target. What does hold is SharedTargetOnlyByRetry.
* `whole`: a proposal with files under two pathspecs (same file name in
  `global/rules` and in a project) has only the first committed and is marked
  applied. AppliedIsPublished says what holds: the files of the first pathspec.
* `cut`: a file cut off by a failed write is published by the next commit.
* `echo`: what an agent brings down it commits again with the present time, so
  that an old version a slow machine still holds is newer than the one that
  replaced it, and takes its place in canonical.
* `revert`: a run commits a version and fails before its push; the writer goes back to the
  version of the marker; the next scan finds no difference, pushes what is committed and
  moves the marker over it. Canonical has the withdrawn version and hands it back to its
  writer. UncontestedIsPublished leaves such a path out (`left`), until a run merges it.

*What the properties leave out*, because nothing in the code provides it (each is
a hazard with a note):

* sync: an edit made after the scan of the same cycle is overwritten; a base manifest cut
  off by a crash, or a staging repository without its remote, stops the machine for good;
  a file cut off while it is written down is pushed as an edit; a file the hook refuses
  blocks all the others of its machine; a file that ends with a newline differs from
  canonical's for ever, so that its author's agent takes it for changed and no longer
  follows canonical; a rename in a client's repository stops intake. NothingIsLost speaks
  of the files an agent scans: one that it places but never scans
  (`global/rules/sub/x.md`) is overwritten whatever is on the machine. SecretOnlyWithoutHook
  speaks of the paths the hook reads as they are: where a path has a blank, it scans
  another file.
* secrets: digests are scanned by no one (`MEMORY.md` is left out of NoSecretPublished).
  Of other flows the model lets none but a digest bring a secret (`LoopAssumption`): they
  write what ops-apply or apply-approved has scanned.
* memory: what a failed write leaves of an entry is committed (`partial` in
  EntriesAreWhole). After a write of the index that stopped in a line above the bullets
  the next rebuild puts its first bullet at that line's end, where it is no bullet; the
  rebuild after that lists the entry, but keeps the line (IndexListsEntries). A digest
  with a line like a bullet or a marker is cut by the next rebuild, one that stayed uncommitted may
  be read, and the write of an index with a digest may be cut off, in a rebuild by
  ops-apply just as in a hot step (`spoiled` in DigestIsLatest).
* proposals: a revision may move a proposal to another kind of target while the stored
  kind stays.

MarkedIsCurrent is checked for one worker only. With two it does not hold: a
worker that lost its lease may rewrite older content between another job's commit
and mark, as the design says ("scaling that worker group beyond one would need
per-step write locking"). Settled is for one worker too.

## 4. What TLAPS proves

Every safety property of the passing runs is also a theorem, for every value of the
constants under the assumptions their modules name. What a theorem needs beyond
them is a hypothesis of its own, listed here.

**State database** (`ProposalStoreProofs`, `ProposalSafetyProofs`), about
`ProposalStore!Spec`; finite sets of workers and proposals, NULL is no worker or commit.

* `TypeCorrect`. The invariant is `TypeInv`: TypeOK and that rows with a status
  have a kind and name of their types.
* `HistoryComplete`. `LogIsHistory` is inductive given `TypeInv`; the work is in
  `HistoryAppend` (one allowed event extends a history) and in the claim, which
  appends two events to one log and one to others.
* `StoredFilesAlwaysValid`, `SharedTargetsOnlyByRetry`, `ColumnsAlwaysMatch`:
  inductive given the above; the second needs that a proposal that leaves
  `failed` has the retry in its log from then on.
* `DecidedFrozen`, `LeaseProtects`: action properties from the invariants.
* `Refinement`: every step is a step of `StatusMachine` or a stutter.

The lemmas are about `StoreStep`, which is what a committed transaction does to the
rows it writes, without bounds, order or looks at other rows. Every step of
`ProposalStore`, of `TargetGuard` and of `ApplyApproved` is one, so that the three
specifications share them. `TransitsShape` reduces the five uses of the guarded
update to one.

**Transactions taken apart** (`TargetGuardProofs`), about `GuardSpec`; finitely many
sessions.

* `NeverDeadlocked`: no circle of waiting sessions, of any length. `LockInv` says
  that rows are locked upwards, keys are locked upwards, and who has a key has no
  row to come to any more. In a circle (a finite set in which everyone waits for
  someone) the session whose last lock is greatest would wait for a smaller one.
  That there is a greatest one is `NoAscent` of `FiniteOrders`.
* `GuardedTargets`: `GuardInv` says that what a session has found by the time it holds its locks
  (the row's state, targets free of other open proposals) is still so at its commit,
  because who could change it needs one of the locks.
* `GuardedHistory`, `GuardedColumns`, `GuardedFrozen`, `GuardedLeases`,
  `GuardedRefinement`: a commit is a `StoreStep`, and `GuardInv` gives its guards.

`TargetGuard` is not shown to implement `ProposalStore!Spec`: the rows a claim found
lapsed, and the order it picks by, may be stale when it commits, so that its commit is
a `StoreStep` and no `Claim`.

**Apply flow** (`ApplyProofs`), about `ApplySpec`. All assume that a position in the
history is a commit id one may report (`Nat \ {0} \subseteq Shas`).

* `ApplyTypeCorrect`, `NoWorkIsLost`, `AppliedAlwaysPublished`. The invariant is
  `ApplyInv`: types; canonical is a prefix of HEAD; every commit a job has on its list
  is in the history and holds the files of a proposal that was approved (so that they
  cannot change any more); a job that marks has pushed them all.
* `FlowHistoryComplete`, `FlowRefinement`, `FlowLeases`: the flow, faults included, uses
  the database only by `StoreStep`s.
* `AppliedWhole`, where paths of one group are under one pathspec. The run `whole`
  shows that without it the property is false.
* `PublishedAlwaysApproved`, where no file is half written (`"write" \notin Faults`).
  The run `cut` shows that without it the property is false. The invariant
  `FitInv` says of the tree, the index and every commit of HEAD what the property says
  of canonical, since any of them may be in the next commit, and that who was ever
  approved has the approval in its log.
* `MarkedAlwaysCurrent`, for one worker. `SoloInv` says that while a proposal is
  applying and the job is past it, one of the job's commits for it still stands: every
  tree since has its files, but where a retried proposal has written.

**Sync** (`SyncLoopProofs`), about `SyncLoop!Spec`; any machines, paths and
contents. NULL is no tree.

* `LoopTypeCorrect`. Besides the types LoopTypeOK says that a merge reads only heads that
  its run has scanned, that an agent pushes only a branch that exists, and that a branch it
  takes for pushed is at its client's head. It is inductive with one fact more: a branch
  that is ahead of the server exists (`Known`).
* `NoSecretEverPublished`. `SecretFree` says it of the loose files as well: a run that
  fails leaves them to the next.
* `SecretsStopAtHook`. The property is itself inductive: the hook sees only the net
  change, and what does not change was at the head before.
* `NothingEverLost`. `CycleInv` says at every step of a cycle how its scan, the staging
  repository, the client's head, the fetched mirror, the base manifest and the files still
  to be placed relate; an edit in between is in `edited`.

**Project memory** (`MemoryProofs`), about `MemoryDir!Spec`; any outputs, digests and
names that are legal.

* `MemoryShape`: entries and index have their form in the directory and in every commit.
* `IndexAlwaysListsEntries`, from `RebuiltLists`: a rebuilt index is a header without
  a bullet and one bullet for each entry, whatever file was there, whole or cut off at
  any byte; where the header ends in the middle of a line, the first bullet is joined to
  it (`JoinedIndex`).
* `EntriesAlwaysWhole`. What the recursive parser has read after k lines is
  `HasRead` (`ParserReadsAll`): finished files stand between their markers, the open
  block is what came since its marker. `AllWhole` says it of uncommitted
  entries too, but for those in `partial`.
* `DigestAlwaysLatest`, where a missing file is no file of lines
  (`~IsSequence(NoFile)`). Unless spoiled, `DigestInv` says, the index is in the directory and in every
  commit `Tidy`: absent, without a digest and perhaps cut off at its end (`Plain`), or whole
  with one framed digest (`Digested`); and the directory's digest is that of HEAD. What
  a rebuild, a cut-off write and a hot step make of a tidy index is tidy again.

The invariants speak of HEAD and of canonical, because ensure-work may reset the one to the
other. All were checked by TLC on the runs' instances before they were proved.

`Moves` reduces the steps of `MemoryDir` to two, one that writes files and commits or
fails, and one of git. Facts about recursive functions (`ParserRuns`) and about
minimal elements are proved by a least counterexample, for which the library's
well-foundedness facts suffice: its induction theorems take an operator.

*Only model-checked.* The liveness properties (ApprovedIsSettled, EditsReachServer,
UncontestedIsPublished, FollowsCanonical), which with ENABLED are out of the prover's
reach, and the five findings. MarkedIsCurrent beyond one worker is false, not
unproved.

## 5. Not modelled

See "components" in `PROJECT.json`. Read-only commands, formatting, logging,
HTTP details, roles, tokens, prompts, the app's pages, builds and deployment carry no
state of their own. Corpus search and listing only read. How daily-synth chooses
projects and clusters, and taskmine, end in creates of proposals. The legacy
`proposal-apply` subcommand with its sidecar file is superseded by
apply-approved. `proposal import` and `import-rejections` call create and add-rejection
in a loop and list what is turned down.

## 6. Plan

1. The facts the liveness properties rest on, as invariants that can be proved: a
   marker names a head whose files a run had in hand; what a machine's base manifest
   names has come down from canonical or went up from the machine; a job that stops
   leaves nothing in the index that the next ensure-work keeps.
2. The composition of `MemoryDir` with `ProposalStore`, where distill hands proposals
   to the API.
