----------------------------- MODULE Repositories -----------------------------
(***************************************************************************)
(* The git repositories of the sync chain and what may be done to them: on *)
(* each machine the staging repository an agent commits to                 *)
(* (internal/syncer/staging.go), on the server a bare repository per       *)
(* client, created by its first push and guarded by the pre-receive hook   *)
(* (internal/gitserver, internal/githook), and canonical.git, which        *)
(* clients can only fetch.                                                 *)
(*                                                                         *)
(* Of a branch the tree of its tip is kept, and for every path the time of *)
(* the last commit that touched it: that is all the program asks of a      *)
(* history.  A commit has the time of the machine's clock, which may be    *)
(* wrong and may be set back, so that its time is any of CommitTimes.      *)
(***************************************************************************)
EXTENDS SyncPaths, FiniteSets

CONSTANTS
  Clients,   \* the machines, by numbers in the order of their ids
  Paths,     \* paths of the files that are synced
  Contents,  \* contents they may have
  Secrets,   \* those with a secret in them
  Large,     \* those too large for the hook to scan
  Truncated, \* content of a file whose write was cut off
  NoFile,    \* there is no file at a path
  NULL,      \* the branch or the ref does not exist
  CommitTimes \* what the clocks of the machines may show at a commit

ASSUME RepositoriesAssumption ==
  /\ Clients \subseteq Nat /\ IsFiniteSet(Clients)
  /\ Secrets \subseteq Contents /\ Large \subseteq Contents
  /\ Truncated \in Contents \ Secrets
  /\ CommitTimes \subseteq Nat \ {0}
  /\ NoFile \notin Contents
  /\ IsFiniteSet(Paths)
  /\ NULL \notin [Paths -> Contents \cup {NoFile}]

VARIABLES
  staging,  \* [Clients -> "none", "init" (without a remote) or "ready"]
  tip,      \* [Clients -> tree of main in the staging repository, or NULL]
  tipAt,    \* [Clients -> for each path when it was last touched there]
  ahead,    \* [Clients -> main is not known to be on the server]
  repo,     \* [Clients -> "absent", "bare" (without a hook) or "hooked"]
  head,     \* [Clients -> tree of main in the client's repository, or NULL]
  headAt,   \* [Clients -> for each path when it was last touched there]
  marker,   \* [Clients -> tree of refs/intake/last-processed, or NULL]
  canonical \* tree of main in canonical.git

stagingVars == <<staging, tip, tipAt, ahead>>
serverVars  == <<repo, head, headAt>>

Trees     == [Paths -> Contents \cup {NoFile}]
EmptyTree == [p \in Paths |-> NoFile]
Times     == [Clients -> [Paths -> Nat]]

RepositoriesTypeOK ==
  /\ staging \in [Clients -> {"none", "init", "ready"}]
  /\ tip \in [Clients -> Trees \cup {NULL}]
  /\ tipAt \in Times
  /\ ahead \in [Clients -> BOOLEAN]
  /\ repo \in [Clients -> {"absent", "bare", "hooked"}]
  /\ head \in [Clients -> Trees \cup {NULL}]
  /\ headAt \in Times
  /\ marker \in [Clients -> Trees \cup {NULL}]
  /\ canonical \in Trees

RepositoriesInit ==
  /\ staging = [c \in Clients |-> "none"]
  /\ tip = [c \in Clients |-> NULL]
  /\ tipAt = [c \in Clients |-> [p \in Paths |-> 0]]
  /\ ahead = [c \in Clients |-> FALSE]
  /\ repo = [c \in Clients |-> "absent"]
  /\ head = [c \in Clients |-> NULL]
  /\ headAt = [c \in Clients |-> [p \in Paths |-> 0]]
  /\ marker = [c \in Clients |-> NULL]
  /\ canonical = EmptyTree

\* A branch that does not exist is compared as the empty tree.
TreeAt(ref) == IF ref = NULL THEN EmptyTree ELSE ref

Touched(before, after) == {p \in Paths : before[p] # after[p]}

-----------------------------------------------------------------------------
\* The times in the staging repositories when c commits a tree.  Only config paths
\* are ever asked for their time.
Stamped(c, tree, now) ==
  LET config == {p \in Touched(TreeAt(tip[c]), tree) : ConfigPath(p)}
  IN [tipAt EXCEPT ![c] = [p \in Paths |-> IF p \in config THEN now ELSE @[p]]]

\* git commit in the staging repository, at whatever time its machine has; the time of
\* a path never touched is 0.
CommitLocal(c, tree) ==
  /\ tip' = [tip EXCEPT ![c] = tree]
  /\ ahead' = [ahead EXCEPT ![c] = TRUE]
  /\ \E now \in CommitTimes : tipAt' = Stamped(c, tree, now)

\* Mutant of HookAccepts: only files that are new are scanned for secrets.
HookScansNew(before, after) ==
  \A p \in Touched(before, after) :
    /\ Whitelisted(HookSees(p))
    /\ after[p] # NoFile /\ before[p] = NoFile => after[p] \notin Secrets \ Large

\* scanSecrets: a file that cannot be read is an error, a large one is not looked into.
Scans(content) ==
  /\ content \in Contents
  /\ content \in Secrets => content \in Large

\* The pre-receive hook on an update of main: every touched path, as the hook reads
\* it, is whitelisted, and what is there now can be read and has no secret.
HookAccepts(before, after) ==
  \A p \in Touched(before, after) :
    LET seen == HookSees(p)
    IN /\ Whitelisted(seen)
       /\ after[p] # NoFile => seen \in Paths /\ Scans(after[seen])

\* A push finds the client's repository or creates it, with its hook.  A repository
\* that exists is taken as it is.
Opened(c) == IF repo[c] = "absent" THEN "hooked" ELSE repo[c]

\* The hook, where there is one, decides.  The staging branch only grows and nobody
\* else pushes to the repository, so that every update is a fast-forward.
Accepts(c) ==
  Opened(c) = "hooked" => HookAccepts(TreeAt(head[c]), tip[c])

\* git receive-pack.
Receive(c) ==
  /\ head' = [head EXCEPT ![c] = tip[c]]
  /\ headAt' = [headAt EXCEPT ![c] = tipAt[c]]
=============================================================================
