------------------------------- MODULE WorkDir -------------------------------
(***************************************************************************)
(* The work directory of the flows, a git clone of canonical.git, and what *)
(* memoryctl does to it: ensure-work, commit and push (cmd/memoryctl       *)
(* main.go, commitpush.go, internal/gitutil).  Commit and push each run    *)
(* under the canonical file lock, ensure-work as well, so each is one      *)
(* step; files are written into the tree without a lock.                   *)
(*                                                                         *)
(* A commit is its tree and a mark that says who made it, a history the    *)
(* sequence of its commits.                                                *)
(***************************************************************************)
EXTENDS Targets

CONSTANTS
  Paths,      \* paths of the files in the repository
  Contents,   \* contents they may have
  Authors,    \* marks of the commits made in the work directory
  Elsewhere,  \* mark of the commit the clone started from
  NoFile      \* there is no file at a path

VARIABLES
  tree,       \* [Paths -> content of the file in the work tree, or NoFile]
  index,      \* [Paths -> content staged for the next commit, or NoFile]
  head,       \* history of the branch checked out in the work directory
  canonical   \* history of main in canonical.git

workVars == <<tree, index, head, canonical>>

Trees == [Paths -> Contents \cup {NoFile}]

Commits == [tree : Trees, by : Authors \cup {Elsewhere}]

TypeOK ==
  /\ tree \in Trees
  /\ index \in Trees
  /\ head \in Seq(Commits) /\ head # <<>>
  /\ canonical \in Seq(Commits) /\ canonical # <<>>

TreeOf(history) == history[Len(history)].tree

\* The work directory has just been cloned.
Init ==
  /\ canonical = << [tree |-> [t \in Paths |-> NoFile], by |-> Elsewhere] >>
  /\ head = canonical
  /\ tree = TreeOf(head)
  /\ index = TreeOf(head)

-----------------------------------------------------------------------------
\* git merge-base --is-ancestor.
IsAncestor(ancestor, descendant) ==
  /\ Len(ancestor) <= Len(descendant)
  /\ SubSeq(descendant, 1, Len(ancestor)) = ancestor

\* git reset --hard: files that are neither tracked in HEAD nor in the index stay.
ResetHard(history) ==
  /\ head' = history
  /\ index' = TreeOf(history)
  /\ tree' = [t \in Paths |->
                IF NoFile = index[t] /\ NoFile = TreeOf(head)[t] /\ NoFile = TreeOf(history)[t]
                THEN tree[t] ELSE TreeOf(history)[t]]
  /\ UNCHANGED canonical

\* Mutant of EnsureWork: always reset to canonical.
EnsureWorkResets == ResetHard(canonical)

\* Behind canonical or equal to it: reset to it.  Ahead of it: keep the unpushed
\* commits, drop everything uncommitted.  Diverged: an error, and no step.
EnsureWork ==
  IF IsAncestor(head, canonical)
  THEN ResetHard(canonical)
  ELSE /\ IsAncestor(canonical, head)
       /\ tree' = TreeOf(head)
       /\ index' = TreeOf(head)
       /\ UNCHANGED <<head, canonical>>

\* Mutant of Written: only the first file is written.
WrittenFirst(files) ==
  [t \in Paths |-> IF t \in DOMAIN files /\ t = FirstTarget(DOMAIN files) THEN files[t] ELSE tree[t]]

\* The files of files are written, the others stay.
Written(files) == [t \in Paths |-> IF t \in DOMAIN files THEN files[t] ELSE tree[t]]

Write(files) ==
  /\ tree' = Written(files)
  /\ UNCHANGED <<index, head, canonical>>

\* Of the tree, the part a pathspec names; the rest of base.
Part(from, base, pathspec) ==
  [t \in Paths |-> IF PathspecOf(t) = pathspec THEN from[t] ELSE base[t]]

\* git add -A -- pathspec in the tree now, and git diff --cached over the whole
\* index after it.
Added(now, pathspec) == Part(now, index, pathspec)
HasStagedChanges(now, pathspec) == Added(now, pathspec) # TreeOf(head)

\* git commit -- pathspec takes the pathspec's files and nothing else that is
\* staged; when they do not differ from HEAD it fails.
CanCommit(now, pathspec) == Part(now, TreeOf(head), pathspec) # TreeOf(head)

\* commitPathspec over the tree now: no commit when nothing is staged.
CommitPathspec(now, pathspec, by) ==
  /\ HasStagedChanges(now, pathspec) => CanCommit(now, pathspec)
  /\ index' = Added(now, pathspec)
  /\ head' = IF HasStagedChanges(now, pathspec)
             THEN Append(head, [tree |-> Part(now, TreeOf(head), pathspec), by |-> by])
             ELSE head
  /\ tree' = now
  /\ UNCHANGED canonical

\* commitPathspec fails: before git add, or after it, with nothing committed.
CommitFails(now, pathspec) ==
  /\ index' \in {index, Added(now, pathspec)}
  /\ tree' = now
  /\ UNCHANGED <<head, canonical>>

\* git push: canonical moves forward only.
CanPush == IsAncestor(canonical, head)

Push ==
  /\ CanPush
  /\ canonical' = head
  /\ UNCHANGED <<tree, index, head>>

Pathspecs == {PathspecOf(t) : t \in Paths}

-----------------------------------------------------------------------------
\* "ahead: unpushed commits kept; diverged: no reset": no step takes a commit out of
\* the work directory's history, and none out of canonical.
NoCommitIsLost ==
  [][IsAncestor(head, head') /\ IsAncestor(canonical, canonical')]_workVars
=============================================================================
