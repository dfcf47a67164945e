-------------------------------- MODULE Intake --------------------------------
(***************************************************************************)
(* The intake flow (deploy/windmill/flows/intake.flow.yaml over            *)
(* cmd/memoryctl scan.go, merge.go, context.go, markers.go): it looks at   *)
(* what every client has pushed since its marker, merges the config files  *)
(* by the newest commit, lets a model judge the memory files project by    *)
(* project, pushes to canonical and only then advances the markers.        *)
(*                                                                         *)
(* Each step of the flow is one step here; merge and commit are one script.*)
(* Any failure ends the run, and the next one starts again from the scan.  *)
(* Of the work directory the tree of HEAD is kept, and the files that no   *)
(* commit has yet: a step that fails after writing them leaves them there, *)
(* and ensure-work, with which every run begins, drops them only when it   *)
(* has unpushed commits to keep.                                           *)
(***************************************************************************)
EXTENDS Repositories

CONSTANTS
  Trimmed,  \* [Contents -> what is left when trailing newlines are cut off]
  Judged    \* contents the judge may leave in a project's memory: what the model wrote,
            \* or part of it, when the write failed and was only reported

ASSUME IntakeAssumption ==
  /\ Trimmed \in [Contents -> Contents]
  /\ \A v \in Contents : /\ Trimmed[Trimmed[v]] = Trimmed[v]
                         /\ v \in Secrets <=> Trimmed[v] \in Secrets
  /\ Judged \subseteq Contents

VARIABLES
  flow,      \* the step the run is at
  scanned,   \* [Clients -> head of the client when it was scanned, or NULL]
  winners,   \* the config paths to merge, each with the client that wins it
  projects,  \* project keys still to be judged
  committed, \* tree of HEAD in the work directory
  loose      \* untracked files of the work directory

workVars   == <<committed, loose>>
intakeVars == <<flow, scanned, winners, projects, workVars>>

FlowSteps == {"idle", "merge", "judge", "push", "mark"}

Keys == {p[2] : p \in {q \in Paths : MemoryPath(q)}}

NoWinners == [p \in {} |-> NULL]

NotScanned == [c \in Clients |-> NULL]

IntakeTypeOK ==
  /\ flow \in FlowSteps
  /\ scanned \in [Clients -> Trees \cup {NULL}]
  /\ winners \in UNION {[S -> Clients] : S \in SUBSET Paths}
  /\ projects \subseteq Keys
  /\ committed \in Trees
  /\ loose \in Trees

IntakeInit ==
  /\ flow = "idle"
  /\ scanned = NotScanned
  /\ winners = NoWinners
  /\ projects = {}
  /\ committed = canonical
  /\ loose = EmptyTree

RunEnds ==
  /\ flow' = "idle"
  /\ scanned' = NotScanned
  /\ winners' = NoWinners
  /\ projects' = {}

-----------------------------------------------------------------------------
\* git diff --name-status finds renames: a file that has gone and one that has come
\* with the same content make one line, of which the old path is read.
Renamed(before, after) ==
  {p \in Touched(before, after) :
     after[p] = NoFile /\ \E q \in Paths : before[q] = NoFile /\ after[q] = before[p]}
RenamedTo(before, after) ==
  {q \in Touched(before, after) :
     before[q] = NoFile /\ \E p \in Paths : after[p] = NoFile /\ before[p] = after[q]}

\* The paths the scan reads from the diff of a client.
Lines(c) ==
  Touched(TreeAt(marker[c]), TreeAt(head[c])) \ RenamedTo(TreeAt(marker[c]), TreeAt(head[c]))

ConfigLines(c) == {p \in Lines(c) : ConfigPath(p)}

\* Deleted memory files are no candidates, a rename is not a deletion.
MemoryLines(c) ==
  {p \in Lines(c) : /\ MemoryPath(p)
                    /\ head[c][p] # NoFile \/ p \in Renamed(TreeAt(marker[c]), head[c])}

\* The newest of the candidates of this scan, and of equally new ones the first client.
Wins(c, p) ==
  /\ p \in ConfigLines(c)
  /\ \A d \in Clients :
       head[d] # NULL /\ p \in ConfigLines(d) =>
         headAt[d][p] < headAt[c][p] \/ (headAt[d][p] = headAt[c][p] /\ c <= d)

\* What ensure-work leaves of the untracked files: all of them, or with something
\* unpushed none.  (Unpushed commits that undo each other count as none.)
Kept == IF committed = canonical THEN loose ELSE EmptyTree

\* ensure-work and clients-scan, with the choice of the winners, which the heads and
\* times of this moment already decide.
Scan ==
  /\ flow = "idle"
  /\ flow' = "merge"
  /\ scanned' = head
  /\ LET present == {c \in Clients : head[c] # NULL}
     IN /\ winners' = [p \in {q \in Paths : \E c \in present : Wins(c, q)} |->
                         CHOOSE c \in present : Wins(c, p)]
        /\ projects' = {p[2] : p \in UNION {MemoryLines(c) : c \in present}}
  /\ loose' = Kept
  /\ UNCHANGED <<committed, stagingVars, serverVars, marker, canonical>>

\* The file at p in the work directory.
InTree(p) == IF committed[p] = NoFile THEN loose[p] ELSE committed[p]

\* Mutant of Merged: the content is not scanned for secrets.
MergedUnscanned(p, content) == IF content = NoFile THEN NoFile ELSE Trimmed[content]

\* What config-merge makes of a path its winner has: reading it cuts off trailing
\* newlines, a secret is skipped, a deletion deletes.
Merged(p, content) ==
  CASE content = NoFile -> NoFile
    [] content # NoFile /\ content \in Secrets -> InTree(p)
    [] OTHER -> Trimmed[content]

\* git add -A and the commit of the paths of a pathspec, which has come to be tree
\* there.
Commit(pathspec, tree) ==
  /\ committed' = [p \in Paths |-> IF p \in pathspec THEN tree[p] ELSE committed[p]]
  /\ loose' = [p \in Paths |-> IF p \in pathspec THEN NoFile ELSE loose[p]]

\* The work directory when config-merge is through with some of the winners.
MergedOf(done) ==
  [p \in Paths |-> IF p \in done THEN Merged(p, scanned[winners[p]][p]) ELSE InTree(p)]

\* A path that a rename took away is read from the head that no longer has it.
Lost(c) == IF scanned[c] = NULL THEN {} ELSE Renamed(TreeAt(marker[c]), scanned[c])

LostWinners == {p \in DOMAIN winners : p \in Lost(winners[p])}

\* The winners up to t, and those before the first that cannot be read, in their order.
UpTo(t) == {p \in DOMAIN winners : FirstTarget({p, t}) = p}
Readable == {p \in DOMAIN winners : UpTo(p) \cap LostWinners = {}}

\* config-merge, and the commit of global.
MergeConfig ==
  /\ flow = "merge" /\ LostWinners = {}
  /\ Commit({p \in Paths : ConfigPath(p)}, MergedOf(DOMAIN winners))
  /\ flow' = IF projects = {} THEN "push" ELSE "judge"
  /\ UNCHANGED <<scanned, winners, projects, stagingVars, serverVars, marker, canonical>>

\* Of a tree that no commit has, only the untracked files stay behind: the tracked are
\* put back when the next flow begins, here at once.
LeftBehind(tree) == [p \in Paths |-> IF committed[p] = NoFile THEN tree[p] ELSE NoFile]

\* config-merge comes to a winner it cannot read.
MergeStops ==
  /\ flow = "merge" /\ LostWinners # {}
  /\ loose' = LeftBehind(MergedOf(Readable))
  /\ RunEnds
  /\ UNCHANGED <<committed, stagingVars, serverVars, marker, canonical>>

\* A candidate of the project cannot be read.
Unreadable(key) == \E c \in Clients : \E p \in Lost(c) : MemoryPath(p) /\ p[2] = key

\* What may be in the work directory when the model has written some files of a
\* project; ops-apply refuses secrets.
Judgements(key) ==
  UNION {{[p \in Paths |-> IF p \in written THEN F[p] ELSE InTree(p)] : F \in [written -> Judged \ Secrets]} :
           written \in SUBSET {p \in Paths : MemoryPath(p) /\ p[2] = key}}

\* One project: the model writes any of its files, and its memory is committed.
Judge(key) ==
  /\ flow = "judge" /\ key \in projects /\ ~Unreadable(key)
  /\ \E tree \in Judgements(key) : Commit({p \in Paths : InProjectMemory(p) /\ p[2] = key}, tree)
  /\ projects' = projects \ {key}
  /\ flow' = IF projects' = {} THEN "push" ELSE "judge"
  /\ UNCHANGED <<scanned, winners, stagingVars, serverVars, marker, canonical>>

\* The context of a project cannot be put together; what was committed before, for
\* global and for other projects, waits in the work directory for anybody's push.
JudgeStops(key) ==
  /\ flow = "judge" /\ key \in projects /\ Unreadable(key)
  /\ RunEnds
  /\ UNCHANGED <<workVars, stagingVars, serverVars, marker, canonical>>

PushCanonical ==
  /\ flow = "push"
  /\ canonical' = committed
  /\ flow' = "mark"
  /\ UNCHANGED <<scanned, winners, projects, workVars, stagingVars, serverVars, marker>>

\* Mutant of AdvanceMarker: the marker is set to where the client is by now.
AdvanceToHead(c) ==
  /\ flow = "mark" /\ scanned[c] # NULL
  /\ marker' = [marker EXCEPT ![c] = head[c]]
  /\ scanned' = [scanned EXCEPT ![c] = NULL]
  /\ UNCHANGED <<flow, winners, projects, workVars, stagingVars, serverVars, canonical>>

\* The marker of a client that was scanned is set to the head that was scanned.
AdvanceMarker(c) ==
  /\ flow = "mark" /\ scanned[c] # NULL
  /\ marker' = [marker EXCEPT ![c] = scanned[c]]
  /\ scanned' = [scanned EXCEPT ![c] = NULL]
  /\ UNCHANGED <<flow, winners, projects, workVars, stagingVars, serverVars, canonical>>

RunDone ==
  /\ flow = "mark" /\ scanned = NotScanned
  /\ RunEnds
  /\ UNCHANGED <<workVars, stagingVars, serverVars, marker, canonical>>

IntakeStep ==
  \/ Scan
  \/ MergeConfig
  \/ MergeStops
  \/ \E key \in Keys : Judge(key)
  \/ \E key \in Keys : JudgeStops(key)
  \/ PushCanonical
  \/ \E c \in Clients : AdvanceMarker(c)
  \/ RunDone

\* The work directory when a step was cut off after it wrote, or as it wrote, and before
\* it committed.
Abandoned ==
  CASE flow = "merge" -> {MergedOf(UpTo(t)) : t \in Readable}
                           \cup {[MergedOf(UpTo(t)) EXCEPT ![t] = Truncated] : t \in Readable}
    [] flow = "judge" -> UNION {Judgements(key) : key \in projects}
    [] OTHER -> {}

\* A step fails or the worker is killed: before the step, in the middle of it, or
\* after it, the push having taken effect.
RunFails ==
  /\ flow # "idle"
  /\ canonical' \in {canonical} \cup (IF flow = "push" THEN {committed} ELSE {})
  /\ \/ loose' = loose
     \/ \E tree \in Abandoned : loose' = LeftBehind(tree)
  /\ RunEnds
  /\ UNCHANGED <<committed, stagingVars, serverVars, marker>>

\* Any other flow, from ensure-work to push: it writes or deletes a file of the work
\* directory and commits its pathspec; what intake has not pushed goes along.
OtherFlow(p, content) ==
  LET pathspec == {q \in Paths : PathspecOf(q) = PathspecOf(p)}
  IN /\ committed' = [q \in Paths |-> CASE q = p -> content
                                       [] q # p /\ q \in pathspec /\ committed[q] = NoFile -> Kept[q]
                                       [] OTHER -> committed[q]]
     /\ loose' = [q \in Paths |-> IF q \in pathspec THEN NoFile ELSE Kept[q]]
     /\ canonical' = committed'
     /\ UNCHANGED <<flow, scanned, winners, projects, stagingVars, serverVars, marker>>
=============================================================================
