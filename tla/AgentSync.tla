------------------------------ MODULE AgentSync ------------------------------
(***************************************************************************)
(* The sync agents, one per machine (internal/syncer, cmd/agent).  A cycle *)
(* scans the machine's files, commits them to the staging repository,      *)
(* pushes, fetches canonical, applies what has changed there to the files  *)
(* that have not changed here, and remembers the canonical state it saw.   *)
(* People edit the files at any time; an agent may be killed at any step.  *)
(*                                                                         *)
(* A cycle starts again from a scan, so that what an agent has read is     *)
(* kept only while its cycle runs.                                         *)
(***************************************************************************)
EXTENDS Repositories

CONSTANT Corrupt  \* the base manifest was cut off and cannot be read

VARIABLES
  disk,   \* [Clients -> the files under the machine's claude directory]
  base,   \* [Clients -> canonical.json: the canonical tree of the last cycle]
  at,     \* [Clients -> the next step of the agent's cycle]
  scan,   \* [Clients -> the files as this cycle's scan found them]
  mirror, \* [Clients -> canonical as this cycle fetched it]
  todo,   \* [Clients -> paths this cycle has still to write or delete]
  edited  \* [Clients -> paths edited by people since the scan]

Manifest == INSTANCE ManifestDiff

cycleVars == <<at, scan, mirror, todo, edited>>
agentVars == <<disk, base, cycleVars>>

Steps == {"idle", "stage", "push", "fetch", "apply"}

AgentTypeOK ==
  /\ disk \in [Clients -> Trees]
  /\ base \in [Clients -> Trees \cup {Corrupt}]
  /\ at \in [Clients -> Steps]
  /\ scan \in [Clients -> Trees]
  /\ mirror \in [Clients -> Trees]
  /\ todo \in [Clients -> SUBSET Paths]
  /\ edited \in [Clients -> SUBSET Paths]

AgentInit ==
  /\ disk = [c \in Clients |-> EmptyTree]
  /\ base = [c \in Clients |-> EmptyTree]
  /\ at = [c \in Clients |-> "idle"]
  /\ scan = [c \in Clients |-> EmptyTree]
  /\ mirror = [c \in Clients |-> EmptyTree]
  /\ todo = [c \in Clients |-> {}]
  /\ edited = [c \in Clients |-> {}]

-----------------------------------------------------------------------------
Goto(c, step) ==
  /\ at' = [at EXCEPT ![c] = step]
  /\ UNCHANGED <<scan, mirror, todo, edited>>

\* RunCycle returns, with or without an error.
CycleEnds(c) ==
  /\ at' = [at EXCEPT ![c] = "idle"]
  /\ scan' = [scan EXCEPT ![c] = EmptyTree]
  /\ mirror' = [mirror EXCEPT ![c] = EmptyTree]
  /\ todo' = [todo EXCEPT ![c] = {}]
  /\ edited' = [edited EXCEPT ![c] = {}]

ScanLocal(c) ==
  /\ at[c] = "idle"
  /\ at' = [at EXCEPT ![c] = "stage"]
  /\ scan' = [scan EXCEPT ![c] = [p \in Paths |-> IF Scanned(p) THEN disk[c][p] ELSE NoFile]]
  /\ UNCHANGED <<disk, base, mirror, todo, edited, stagingVars, serverVars, marker, canonical>>

\* Mutant of MustPush: every cycle pushes, with nothing ever committed too.
PushesAlways(c, tree) == TRUE

\* Mutant of MustPush: when nothing is staged there is nothing to push.
PushesWhenStaged(c, tree) == tree # TreeAt(tip[c])

\* Something new to commit, or commits that are not known to have been pushed.
MustPush(c, tree) == tree # TreeAt(tip[c]) \/ ahead[c]

\* ensureStagingRepo, syncWorktree, git add and commit.  A repository that was left
\* without its remote is an error; so is a scanned file that has gone.  What is
\* staged is read again, and may be newer than the scan.
UpSync(c) ==
  LET tree == [p \in Paths |-> IF scan[c][p] = NoFile THEN NoFile ELSE disk[c][p]]
      gone == \E p \in Paths : scan[c][p] # NoFile /\ disk[c][p] = NoFile
  IN /\ at[c] = "stage"
     /\ staging' = [staging EXCEPT ![c] = IF @ = "none" THEN "ready" ELSE @]
     /\ IF staging[c] = "init" \/ gone
          THEN CycleEnds(c) /\ UNCHANGED <<tip, tipAt, ahead>>
          ELSE /\ Goto(c, IF MustPush(c, tree) THEN "push" ELSE "fetch")
               /\ IF tree # TreeAt(tip[c])
                    THEN CommitLocal(c, tree)
                    ELSE UNCHANGED <<tip, tipAt, ahead>>
     /\ UNCHANGED <<disk, base, serverVars, marker, canonical>>

\* A push the hook rejects ends the cycle: nothing comes down either.
Push(c) ==
  /\ at[c] = "push"
  /\ repo' = [repo EXCEPT ![c] = Opened(c)]
  /\ IF Accepts(c)
       THEN Goto(c, "fetch") /\ Receive(c) /\ ahead' = [ahead EXCEPT ![c] = FALSE]
       ELSE CycleEnds(c) /\ UNCHANGED <<ahead, head, headAt>>
  /\ UNCHANGED <<disk, base, staging, tip, tipAt, marker, canonical>>

\* Mutant of Incoming: canonical wins over a file that has changed on both sides.
IncomingWins(c, current) ==
  LET change == Manifest!Diff(scan[c], base[c], current)
  IN {p \in Paths : Mappable(p) /\ change[p] \in {"remoteOnlyChange", "remoteDelete", "bothChanged"}}

\* The paths Diff tells to take over from canonical, those the machine has a place for.
Incoming(c, current) ==
  LET change == Manifest!Diff(scan[c], base[c], current)
  IN {p \in Paths : Mappable(p) /\ change[p] \in {"remoteOnlyChange", "remoteDelete"}}

\* ensureCanonicalMirror, the manifest of the mirror, and the comparison.
Fetch(c) ==
  /\ at[c] = "fetch"
  /\ IF base[c] = Corrupt
       THEN CycleEnds(c)
       ELSE /\ at' = [at EXCEPT ![c] = "apply"]
            /\ mirror' = [mirror EXCEPT ![c] = canonical]
            /\ todo' = [todo EXCEPT ![c] = Incoming(c, canonical)]
            /\ UNCHANGED <<scan, edited>>
  /\ UNCHANGED <<disk, base, stagingVars, serverVars, marker, canonical>>

\* applyRemoteFile and applyRemoteDelete, in no particular order of paths, whatever
\* is on the disk by now.
ApplyChange(c, p) ==
  /\ at[c] = "apply" /\ p \in todo[c]
  /\ disk' = [disk EXCEPT ![c][p] = mirror[c][p]]
  /\ todo' = [todo EXCEPT ![c] = @ \ {p}]
  /\ UNCHANGED <<base, at, scan, mirror, edited, stagingVars, serverVars, marker, canonical>>

SaveBase(c) ==
  /\ at[c] = "apply" /\ todo[c] = {}
  /\ base' = [base EXCEPT ![c] = mirror[c]]
  /\ CycleEnds(c)
  /\ UNCHANGED <<disk, stagingVars, serverVars, marker, canonical>>

AgentStep(c) ==
  \/ ScanLocal(c)
  \/ UpSync(c)
  \/ Push(c)
  \/ Fetch(c)
  \/ \E p \in Paths : ApplyChange(c, p)
  \/ SaveBase(c)

-----------------------------------------------------------------------------
\* A call over the network fails: the fetch, or the push, which may have taken
\* effect all the same.
NetworkFails(c) ==
  /\ \/ at[c] = "fetch" /\ UNCHANGED serverVars
     \/ at[c] = "push" /\ UNCHANGED serverVars
     \/ at[c] = "push" /\ Accepts(c) /\ repo' = [repo EXCEPT ![c] = Opened(c)] /\ Receive(c)
  /\ CycleEnds(c)
  /\ UNCHANGED <<disk, base, stagingVars, marker, canonical>>

\* The server is killed between git init and the installation of the hook.
ServerDies(c) ==
  /\ at[c] = "push" /\ repo[c] = "absent"
  /\ repo' = [repo EXCEPT ![c] = "bare"]
  /\ CycleEnds(c)
  /\ UNCHANGED <<disk, base, stagingVars, head, headAt, marker, canonical>>

\* The agent is killed: between two steps, between git init and git remote add, in
\* the middle of a file's write, or in the middle of the base manifest's.
Crash(c) ==
  /\ at[c] # "idle"
  /\ \/ UNCHANGED <<disk, base, staging>>
     \/ /\ at[c] = "stage" /\ staging[c] = "none"
        /\ staging' = [staging EXCEPT ![c] = "init"]
        /\ UNCHANGED <<disk, base>>
     \/ /\ \E p \in todo[c] : /\ mirror[c][p] # NoFile
                              /\ disk' = [disk EXCEPT ![c][p] = Truncated]
        /\ UNCHANGED <<base, staging>>
     \/ /\ at[c] = "apply" /\ todo[c] = {}
        /\ base' = [base EXCEPT ![c] = Corrupt]
        /\ UNCHANGED <<disk, staging>>
  /\ CycleEnds(c)
  /\ UNCHANGED <<tip, tipAt, ahead, serverVars, marker, canonical>>

AgentFault(c) == NetworkFails(c) \/ ServerDies(c) \/ Crash(c)

\* Somebody on the machine writes a file or deletes it.
Edit(c, p, content) ==
  /\ disk[c][p] # content
  /\ disk' = [disk EXCEPT ![c][p] = content]
  /\ edited' = IF at[c] = "idle" THEN edited ELSE [edited EXCEPT ![c] = @ \cup {p}]
  /\ UNCHANGED <<base, at, scan, mirror, todo, stagingVars, serverVars, marker, canonical>>
=============================================================================
