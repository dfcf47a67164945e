------------------------------ MODULE MemoryDir ------------------------------
(***************************************************************************)
(* One project's memory in the work directory of the flows: steps of       *)
(* intake, condense and distill that hand a model's output to ops-apply,   *)
(* and of the hot cache, which hand a digest to hotcache-write, each with  *)
(* the commit that follows it (cmd/memoryctl/apply.go, hotcache.go,        *)
(* deploy/windmill/flows).                                                 *)
(*                                                                         *)
(* One worker runs the steps, so that they do not overlap, but the steps   *)
(* of different flows come in any order, ensure-work and push among them.  *)
(* A step that fails leaves what it has written; whether the next commit   *)
(* takes it depends on whether ensure-work comes first.                    *)
(***************************************************************************)
EXTENDS MemoryFiles, Targets

CONSTANTS
  Project,    \* the segment of the project's key
  Names,      \* names of its entries
  Outputs,    \* what the model may put out, as sequences of lines
  Digests,    \* the digests it may write
  TooLarge,   \* those over the limit
  MaxFaults,  \* bound: steps that fail
  MaxCommits  \* bound: steps run while the history is shorter

\* A sequence of anything.
IsSequence(s) == s \in Seq({s[i] : i \in DOMAIN s})

ASSUME MemoryAssumption ==
  /\ \A n \in Names : ValidName(n)
  /\ IsFiniteSet(Names)
  /\ "MEMORY" \notin Words
  /\ \A out \in Outputs : IsSequence(out)
  /\ \A digest \in Digests :
       IsSequence(digest) /\ \A i \in DOMAIN digest : digest[i] # NoNewline
  /\ \A mark \in {"applied", "nothing", "seed"} : mark \notin Digests
  /\ MaxFaults \in Nat /\ MaxCommits \in Nat

VARIABLES
  tree, index, head, canonical, \* the work directory and canonical.git
  faults,                       \* number of steps that failed
  spoiled,                      \* a digest broke the index, was left in it uncommitted, or
                                \* was in an index whose write was cut off
  partial                       \* entries as writes that failed have left them

PathOf(name) == <<Projects, Project, Memory, name>>

IndexPath  == PathOf(MemoryIndex)
EntryPaths == {PathOf(n) : n \in Names}
Pathspec   == PathspecOf(IndexPath)

Git == INSTANCE WorkDir WITH
         Paths     <- EntryPaths \cup {IndexPath},
         Contents  <- Seq(UNION {{out[i] : i \in DOMAIN out} : out \in Outputs}),
         Authors   <- {"applied", "nothing"} \cup Digests,
         Elsewhere <- "seed"

vars == <<tree, index, head, canonical, faults, spoiled, partial>>

Init ==
  /\ Git!Init
  /\ faults = 0
  /\ spoiled = FALSE
  /\ partial = {}

-----------------------------------------------------------------------------
EntriesIn(files) == [n \in Names |-> files[PathOf(n)]]

IndexIn(files) == files[IndexPath]

\* applyFileOps: every operation that is acceptable writes its file, the last one of
\* a name after the others.  Those in the domain of left fail, and leave what left
\* says: part of the file, or with NoFile the file as it was, which was not opened.
FilesApplied(entries, ops, left) ==
  [n \in Names |->
     LET writes == {i \in DOMAIN ops : /\ Normalized(ops[i].name) = n /\ Acceptable(ops[i])
                                       /\ i \in DOMAIN left => left[i] # NoFile}
     IN CASE writes = {} -> entries[n]
          [] writes # {} /\ Max(writes) \in DOMAIN left -> left[Max(writes)]
          [] OTHER -> ops[Max(writes)].content]

Changed(ops, left) ==
  {n \in Names : \E i \in DOMAIN ops \ DOMAIN left :
                   Normalized(ops[i].name) = n /\ Acceptable(ops[i])}

\* applyDeleteOps: all deletions come after all files, wherever they stood.
Deleted(entries, names) ==
  {n \in Names : entries[n] # NoFile /\ \E i \in DOMAIN names : Normalized(names[i]) = n}

\* Mutant of NeedsIndex: only files that were written count.
NeedsIndexForFiles(changed, gone) == changed \ gone # {}

\* Something was applied or deleted.
NeedsIndex(changed, gone) == changed \cup gone # {}

WithFiles(entries, file) ==
  [t \in EntryPaths \cup {IndexPath} |-> IF t = IndexPath THEN file ELSE entries[Base(t)]]

\* The entries after ops-apply, which deletes only when it may.
Applied(ops, mayDelete, left) ==
  LET written == FilesApplied(EntriesIn(tree), ops.files, left)
      gone    == IF mayDelete THEN Deleted(written, ops.deletes) ELSE {}
  IN [entries |-> [n \in Names |-> IF n \in gone THEN NoFile ELSE written[n]],
      changed |-> Changed(ops.files, left),
      gone    |-> gone]

\* The tree after ops-apply, the index rebuilt.
Result(applied) ==
  WithFiles(applied.entries,
            IF NeedsIndex(applied.changed, applied.gone)
            THEN Rebuilt(IndexIn(tree), applied.entries) ELSE IndexIn(tree))

Mark(applied) == IF applied.changed \cup applied.gone # {} THEN "applied" ELSE "nothing"

\* The outputs as operations, and those of outputs that are cut off at some line; one
\* that cannot be parsed changes nothing and fails the step.
Operations == {ops \in {Parse(out) : out \in Outputs} : ~ops.failed}
CutOperations ==
  {ops \in UNION {{Parse(SubSeq(out, 1, k)) : k \in DOMAIN out} : out \in Outputs} : ~ops.failed}

\* A step of intake, condense or distill.  An operation that is turned down, or whose
\* file cannot be written, does not make it fail.
OpsStep(ops, mayDelete, left) ==
  \E applied \in {Applied(ops, mayDelete, left)} :
    /\ Git!CommitPathspec(Result(applied), Pathspec, Mark(applied))
    /\ partial' = partial \cup ({left[i] : i \in DOMAIN left} \ {NoFile})
    /\ UNCHANGED spoiled

\* The write of a file fails.
OpsWriteFails(ops, mayDelete) ==
  \E i \in {j \in DOMAIN ops.files : Acceptable(ops.files[j])} :
    \E file \in {NoFile} \cup CutOff(ops.files[i].content) : OpsStep(ops, mayDelete, [j \in {i} |-> file])

\* The model is cut off, which ops-apply does not see: it takes the lines that came,
\* and the step fails after it.  Or git commit fails.
OpsUncommitted(ops, mayDelete) ==
  /\ Git!CommitFails(Result(Applied(ops, mayDelete, <<>>)), Pathspec)
  /\ UNCHANGED <<spoiled, partial>>

\* The pipeline API cannot be reached for the proposals, which only distill hands to
\* it: ops-apply ends there, its files written and the index as it was.
SubmitFails(ops) ==
  /\ ops.proposals # <<>>
  /\ tree' = WithFiles(Applied(ops, TRUE, <<>>).entries, IndexIn(tree))
  /\ UNCHANGED <<index, head, canonical, spoiled, partial>>

\* The rebuild of the index fails: before it writes, or the write is cut off.
IndexFails(ops, mayDelete) ==
  \E applied \in {Applied(ops, mayDelete, <<>>)} :
    /\ NeedsIndex(applied.changed, applied.gone)
    /\ \/ tree' = WithFiles(applied.entries, IndexIn(tree)) /\ UNCHANGED spoiled
       \/ /\ \E file \in CutOff(IndexIn(Result(applied))) : tree' = WithFiles(applied.entries, file)
          /\ spoiled' = (spoiled \/ Hot(IndexIn(tree)) # <<>>)
    /\ UNCHANGED <<index, head, canonical, partial>>

\* A digest with a line that looks like a bullet, or a marker.
Clean(digest) ==
  \A i \in DOMAIN digest : ~IsBullet(digest[i]) /\ digest[i] \notin {HotBegin, HotEnd}

WithDigest(digest) == WithFiles(EntriesIn(tree), WithHotBlock(IndexIn(tree), digest))

\* A step of the hot cache.  A digest that is empty or too large is not written, the
\* commit is made all the same.
HotStep(digest) ==
  LET written == digest # <<>> /\ digest \notin TooLarge
  IN /\ Git!CommitPathspec(IF written THEN WithDigest(digest) ELSE tree, Pathspec,
                           IF written THEN digest ELSE "nothing")
     /\ spoiled' = (spoiled \/ (written /\ ~Clean(digest)))
     /\ UNCHANGED partial

\* The model is cut off in the middle of a digest, or git commit fails.
HotUncommitted(digest) ==
  /\ \E k \in 1 .. Len(digest) :
       /\ SubSeq(digest, 1, k) \notin TooLarge
       /\ Git!CommitFails(WithDigest(SubSeq(digest, 1, k)), Pathspec)
  /\ spoiled' = TRUE
  /\ UNCHANGED partial

\* The index with the digest is cut off when it is written.
HotFails(digest) ==
  /\ digest \notin TooLarge
  /\ \E file \in CutOff(IndexIn(WithDigest(digest))) : tree' = WithFiles(EntriesIn(tree), file)
  /\ spoiled' = TRUE
  /\ UNCHANGED <<index, head, canonical, partial>>

Step ==
  /\ \/ \E ops \in Operations, mayDelete \in BOOLEAN : OpsStep(ops, mayDelete, <<>>)
     \/ \E digest \in Digests : HotStep(digest)
     \/ Git!EnsureWork /\ UNCHANGED <<spoiled, partial>>
     \/ Git!Push /\ UNCHANGED <<spoiled, partial>>
  /\ UNCHANGED faults

Fault ==
  /\ faults < MaxFaults
  /\ faults' = faults + 1
  /\ \/ \E ops \in Operations, mayDelete \in BOOLEAN :
          OpsWriteFails(ops, mayDelete) \/ IndexFails(ops, mayDelete)
     \/ \E ops \in CutOperations, mayDelete \in BOOLEAN : OpsUncommitted(ops, mayDelete)
     \/ \E ops \in Operations : SubmitFails(ops)
     \/ \E digest \in Digests \ {<<>>} : HotUncommitted(digest) \/ HotFails(digest)

Next == Len(head) < MaxCommits /\ (Step \/ Fault)

Spec == Init /\ [][Next]_vars

-----------------------------------------------------------------------------
Listed(file) == {file[i] : i \in {j \in DOMAIN file : IsBullet(file[j])}}

\* An ops-apply that has changed anything leaves an index that lists the entries that
\* are there, all of them and as they are now, whatever the steps that failed before
\* it have left in the directory or in earlier commits: an index of any length, ended
\* at any byte.  There is one exception, after the write of an index was cut off in a
\* line above the bullets: the bullet of one entry is then at the end of that line,
\* where nothing takes it for a bullet, and the next rebuild lists the entry again
\* (guardrails.RebuildIndex).
IndexListsEntries ==
  \A i \in DOMAIN head :
    head[i].by = "applied" =>
      LET entries == EntriesIn(head[i].tree)
          file    == IndexIn(head[i].tree)
          bullets == {Bullet(n, entries[n]) : n \in {m \in Names : entries[m] # NoFile}}
      IN /\ Listed(file) \subseteq bullets
         /\ \A bullet \in bullets \ Listed(file) :
              /\ bullets \ Listed(file) = {bullet}
              /\ \E j \in DOMAIN file : file[j] = Glued(bullet)

\* The model has put out all of the file, from its marker to its end.
PutOut(file) ==
  \E out \in Outputs : \E i \in DOMAIN out :
    /\ out[i][1] = "===FILE:"
    /\ \E j \in DOMAIN out : out[j] = End /\ file = SubSeq(out, i + 1, j - 1)

\* The file of every entry in a commit is one the model put out in full and the
\* guardrails accept, wherever its output was cut off, or what the write of one that
\* failed has left: that is only reported, and the commit of the same step, or of a
\* later one, takes it (apply.go).
EntriesAreWhole ==
  \A i \in DOMAIN head, n \in Names :
    LET entry == EntriesIn(head[i].tree)[n]
    IN entry \notin {NoFile} \cup partial =>
         PutOut(entry) /\ ValidFrontmatter(entry) /\ ~HasSecret(entry)

\* The digest that sessions are given is the last one that the hot cache committed,
\* through every rebuild of the index by the other flows, until a digest with a line
\* that starts like a bullet or is a marker is written, or one that is not committed, or
\* the write of an index that has a digest is cut off, by whichever step
\* (guardrails/index.go, hotcache.go, corpus.go).
DigestIsLatest ==
  ~spoiled =>
    \A i \in DOMAIN head :
      head[i].by \in Digests =>
        \A j \in i .. Len(head) :
          (\A k \in i + 1 .. j : head[k].by \notin Digests) =>
            HotDigest(IndexIn(head[j].tree)) = head[i].by
=============================================================================
