------------------------------ MODULE SyncLoop -------------------------------
(***************************************************************************)
(* The whole loop (.docs/08-git-native-sync.md): people edit files on      *)
(* their machines, agents push them up, intake merges what has been pushed *)
(* into canonical, and the agents bring canonical down to every machine,   *)
(* where it is committed and pushed again.                                 *)
(*                                                                         *)
(* Agents, intake and the other flows that write to canonical interleave at*)
(* the grain of their modules.  People make at most MaxEdits edits, any of *)
(* Edits again and again, and at most MaxFaults things go wrong.           *)
(***************************************************************************)
EXTENDS AgentSync, Intake

CONSTANTS
  Edits,      \* what people may do: <<client, path, content or NoFile>>
  MaxEdits,   \* bound on how often they do it
  FlowEdits,  \* what other flows may do: <<path, content or NoFile>>
  MaxFlows,   \* bound on how much of it they do, each once
  MaxFaults   \* bound on failures and crashes

ASSUME LoopAssumption ==
  /\ Edits \subseteq Clients \X Paths \X (Contents \cup {NoFile})
  /\ FlowEdits \subseteq Paths \X (Contents \cup {NoFile})
  /\ \A e \in FlowEdits : e[2] \in Secrets => Base(e[1]) = MemoryIndex
  /\ MaxEdits \in Nat /\ MaxFlows \in Nat /\ MaxFaults \in Nat

VARIABLES
  edits,     \* how many edits there have been
  flowEdits, \* edits of other flows that have not happened yet
  faults,    \* how many things have gone wrong
  left       \* history: the config paths a run that ended early had to merge, and no later
             \* run has merged

budgetVars == <<edits, flowEdits, faults>>

vars == <<stagingVars, serverVars, marker, canonical, agentVars, intakeVars, budgetVars, left>>

\* All variables have their types, a run merges only from heads that it has scanned, an
\* agent pushes only a branch that exists, and a branch it takes for pushed is at the
\* head of its client's repository (branchAheadOfRemote in staging.go, clientHeads in
\* merge.go).
LoopTypeOK ==
  /\ RepositoriesTypeOK
  /\ AgentTypeOK
  /\ IntakeTypeOK
  /\ edits \in 0 .. MaxEdits
  /\ flowEdits \subseteq FlowEdits
  /\ faults \in 0 .. MaxFaults
  /\ left \subseteq Paths
  /\ flow = "merge" => \A p \in DOMAIN winners : scanned[winners[p]] # NULL
  /\ \A c \in Clients : at[c] = "push" => tip[c] # NULL
  /\ \A c \in Clients : ~ahead[c] => head[c] = tip[c]

Init ==
  /\ RepositoriesInit
  /\ AgentInit
  /\ IntakeInit
  /\ edits = 0
  /\ flowEdits = FlowEdits
  /\ faults = 0
  /\ left = {}

Agent(c) == AgentStep(c) /\ UNCHANGED <<intakeVars, budgetVars, left>>

IntakeRun ==
  /\ IntakeStep
  /\ left' = CASE flow' = "idle" /\ flow # "mark" -> left \cup DOMAIN winners
               [] flow = "merge" /\ flow' # "idle" -> left \ DOMAIN winners
               [] OTHER -> left
  /\ UNCHANGED <<agentVars, budgetVars>>

Person ==
  /\ edits < MaxEdits
  /\ edits' = edits + 1
  /\ \E e \in Edits : Edit(e[1], e[2], e[3])
  /\ UNCHANGED <<intakeVars, flowEdits, faults, left>>

Flow ==
  /\ Cardinality(FlowEdits \ flowEdits) < MaxFlows
  /\ \E e \in flowEdits : OtherFlow(e[1], e[2]) /\ flowEdits' = flowEdits \ {e}
  /\ UNCHANGED <<agentVars, edits, faults, left>>

Fault ==
  /\ faults < MaxFaults
  /\ faults' = faults + 1
  /\ \/ \E c \in Clients : AgentFault(c) /\ UNCHANGED <<intakeVars, left>>
     \/ RunFails /\ left' = left \cup DOMAIN winners /\ UNCHANGED agentVars
  /\ UNCHANGED <<edits, flowEdits>>

Next ==
  \/ \E c \in Clients : Agent(c)
  \/ IntakeRun
  \/ Person
  \/ Flow
  \/ Fault

\* The agent's ticker starts a cycle every interval whatever became of the last one,
\* and a schedule starts the flow.  Nobody has to edit anything and nothing has to
\* go wrong.
Spec ==
  /\ Init /\ [][Next]_vars
  /\ \A c \in Clients : WF_cycleVars(Agent(c))
  /\ WF_intakeVars(IntakeRun)

-----------------------------------------------------------------------------
\* No secret gets into canonical, or into a commit of the work directory, though
\* heads of client repositories may have one (merge.go scans what it merges).  Only
\* the digests in the MEMORY.md files are scanned by no one.
NoSecretPublished ==
  \A p \in {q \in Paths : Base(q) # MemoryIndex} : canonical[p] \notin Secrets /\ committed[p] \notin Secrets

\* A client's repository has a secret at its head only in a file too large to scan, or
\* when the server died between creating it and installing its hook: the hook judges
\* the net change of a push, and over any sequence of pushes that is enough
\* (githook/hook.go, secrets.go).  Where a path has a blank the hook scans another
\* file, or none.
SecretOnlyWithoutHook ==
  \A c \in Clients, p \in {q \in Paths : HookSees(q) = q} :
    TreeAt(head[c])[p] \in Secrets \ Large => repo[c] = "bare"

\* What people do not do to a scanned file themselves, the agent and its crashes
\* included, overwrites or deletes only what came down before and is in the client's
\* repository as well: a version that people wrote here since is safe, unless they
\* wrote it after the scan of the same cycle (syncer.go: the push comes before the
\* fetch and its failure ends the cycle; manifest/diff.go).  Files that an agent
\* places but never scans have no such protection.
NothingIsLost ==
  [][\A c \in Clients, p \in {q \in Paths : Scanned(q)} :
       disk'[c][p] # disk[c][p] /\ edits' = edits /\ p \notin edited[c]
         => /\ base[c] # Corrupt
            /\ disk[c][p] = base[c][p]
            /\ TreeAt(head[c])[p] = disk[c][p]]_vars

\* What can keep an agent from pushing for ever: git init without git remote add, or
\* a file the hook rejects, which blocks all the others.
Blocked(c) ==
  \/ staging[c] = "init"
  \/ repo[c] = "hooked" /\ \E p \in Paths :
       Scanned(p) /\ disk[c][p] # NoFile /\ (disk[c][p] \in Secrets \ Large \/ ~Whitelisted(HookSees(p)))

\* Again and again all that is on a machine is in the client's repository, after
\* failed pushes and restarts too, unless the machine is blocked (Repo.HasChanges
\* and branchAheadOfRemote in staging.go).
EditsReachServer ==
  \A c \in Clients :
    []<>(\/ \A p \in {q \in Paths : Scanned(q)} : TreeAt(head[c])[p] = disk[c][p]
         \/ Blocked(c))

\* Two clients have versions of a path, or another flow has written it.
Contested(c, p) ==
  \/ \E d \in Clients \ {c} : headAt[d][p] > 0 /\ TreeAt(head[d])[p] # TreeAt(head[c])[p]
  \/ \E e \in FlowEdits \ flowEdits : e[1] = p

\* A rename since a client's marker stops every run (context.go, merge.go).
Renames(c) ==
  head[c] # NULL /\ \E p \in Renamed(TreeAt(marker[c]), head[c]) : MemoryPath(p) \/ Wins(c, p)

\* Again and again the config files that a client has pushed, and no other client has
\* in another version, are in canonical: a run that fails, at any step, or a push in
\* the middle of a run, must not let a version go unseen behind the marker (scan.go,
\* markers.go).  A secret is left out, a rename stops every run, and what a run that
\* ended early has merged stays, and is pushed, if people go back to the marker's version
\* before the next run: LastWriterWins is about that.
UncontestedIsPublished ==
  \A c \in Clients :
    []<>(\/ \A p \in {q \in Paths : ConfigPath(q) /\ ~Contested(c, q)} :
              LET pushed == TreeAt(head[c])[p]
              IN \/ pushed \in Secrets
                 \/ p \in left
                 \/ canonical[p] = IF pushed = NoFile THEN NoFile ELSE Trimmed[pushed]
         \/ \E d \in Clients : Renames(d))

\* Once people leave the files alone, a file that a machine has not changed follows
\* canonical, deletions included (manifest/diff.go), unless the agent is blocked or
\* its base manifest or the file was cut off by a crash.  A file that its author has
\* ended with a newline is none of these: canonical gets it without, and the agent
\* takes it for changed ever after (gitutil.RunOutput).
FollowsCanonical ==
  \A c \in Clients, p \in {q \in Paths : Scanned(q)} :
    (/\ edits = MaxEdits /\ at[c] = "idle"
     /\ base[c] # Corrupt /\ disk[c][p] = base[c][p]) ~>
      \/ disk[c][p] = canonical[p]
      \/ Blocked(c) \/ base[c] = Corrupt \/ disk[c][p] = Truncated

\* The last version of a config file that is only ever written on one machine, once it
\* is in canonical, is not replaced by a run that has seen it: "Config trees: mechanical
\* last-writer-wins across clients" (.docs/08-git-native-sync.md:91), and what a run
\* that fails leaves undone is retried (101-103).
LastWriterWins ==
  [][\A p \in Paths, c \in Clients :
       /\ edits = MaxEdits /\ flowEdits = FlowEdits
       /\ \A e \in Edits : e[2] = p => e[1] = c
       /\ ConfigPath(p) /\ scanned[c] = head[c]
       /\ canonical[p] = disk[c][p] /\ canonical[p] = TreeAt(head[c])[p]
       => canonical'[p] = canonical[p]]_vars
=============================================================================
