--------------------------- MODULE SyncLoopProofs ---------------------------
(***************************************************************************)
(* Proofs about the whole loop, for any number of machines, paths and      *)
(* contents.                                                               *)
(***************************************************************************)
EXTENDS SyncLoop, FiniteSetTheorems, TLAPS

-----------------------------------------------------------------------------
(***************************************************************************)
(* Every variable keeps its type, the winners of a merge are clients that  *)
(* this run has scanned, and what a machine takes for pushed is on the     *)
(* server.                                                                 *)
(***************************************************************************)
WinnersScanned == flow = "merge" => \A p \in DOMAIN winners : scanned[winners[p]] # NULL

\* A branch that is ahead of the server exists.
Known(c) ==
  /\ at[c] = "push" => tip[c] # NULL
  /\ ~ahead[c] => head[c] = tip[c]
  /\ ahead[c] => tip[c] # NULL

LoopTypeInv == LoopTypeOK /\ WinnersScanned /\ \A c \in Clients : Known(c)

\* The variables that belong to no machine and to no run.
BudgetTypeOK ==
  /\ edits \in 0 .. MaxEdits
  /\ flowEdits \subseteq FlowEdits
  /\ faults \in 0 .. MaxFaults
  /\ left \subseteq Paths

LEMMA LoopTypeParts ==
  /\ LoopTypeInv <=> /\ RepositoriesTypeOK /\ AgentTypeOK /\ IntakeTypeOK /\ BudgetTypeOK
                     /\ WinnersScanned /\ \A c \in Clients : Known(c)
  /\ LoopTypeInv' <=> /\ RepositoriesTypeOK' /\ AgentTypeOK' /\ IntakeTypeOK' /\ BudgetTypeOK'
                      /\ WinnersScanned' /\ \A c \in Clients : Known(c)'
<1>1. LoopTypeInv => /\ RepositoriesTypeOK /\ AgentTypeOK /\ IntakeTypeOK /\ BudgetTypeOK
                     /\ WinnersScanned /\ \A c \in Clients : Known(c)
  BY DEF LoopTypeInv, LoopTypeOK, BudgetTypeOK
<1>2. ASSUME RepositoriesTypeOK, AgentTypeOK, IntakeTypeOK, BudgetTypeOK,
             WinnersScanned, \A c \in Clients : Known(c)
      PROVE  LoopTypeInv
  BY <1>2 DEF LoopTypeInv, LoopTypeOK, BudgetTypeOK, WinnersScanned, Known
<1>3. LoopTypeInv' => /\ RepositoriesTypeOK' /\ AgentTypeOK' /\ IntakeTypeOK' /\ BudgetTypeOK'
                      /\ WinnersScanned' /\ \A c \in Clients : Known(c)'
  BY DEF LoopTypeInv, LoopTypeOK, BudgetTypeOK
<1>4. ASSUME RepositoriesTypeOK', AgentTypeOK', IntakeTypeOK', BudgetTypeOK',
             WinnersScanned', \A c \in Clients : Known(c)'
      PROVE  LoopTypeInv'
  BY <1>4 DEF LoopTypeInv, LoopTypeOK, BudgetTypeOK, WinnersScanned, Known
<1> QED
  BY <1>1, <1>2, <1>3, <1>4

LEMMA LoopTypeInit == Init => LoopTypeInv
<1> SUFFICES ASSUME Init PROVE LoopTypeInv
  OBVIOUS
<1> USE DEF Init, RepositoriesInit, AgentInit, IntakeInit
<1>1. EmptyTree \in Trees
  BY DEF EmptyTree, Trees
<1>2. RepositoriesTypeOK
  BY <1>1 DEF RepositoriesTypeOK, Times
<1>3. AgentTypeOK
  BY <1>1 DEF AgentTypeOK, Steps
<1>4. NoWinners \in UNION {[S -> Clients] : S \in SUBSET Paths}
  <2>1. NoWinners \in [{} -> Clients] /\ {} \in SUBSET Paths
    BY DEF NoWinners
  <2> QED
    BY <2>1
<1>5. IntakeTypeOK
  BY <1>1, <1>4 DEF IntakeTypeOK, FlowSteps, NotScanned
<1>6. BudgetTypeOK
  BY LoopAssumption DEF BudgetTypeOK
<1>7. WinnersScanned /\ \A c \in Clients : Known(c)
  BY DEF WinnersScanned, Known
<1> QED
  BY <1>2, <1>3, <1>5, <1>6, <1>7, LoopTypeParts

LEMMA TreeAtType ==
  ASSUME NEW ref \in Trees \cup {NULL}
  PROVE  TreeAt(ref) \in Trees
  BY DEF TreeAt, EmptyTree, Trees

\* A commit in a staging repository changes what it is to change.
LEMMA CommitLocalType ==
  ASSUME RepositoriesTypeOK, NEW c \in Clients, NEW tree \in Trees, CommitLocal(c, tree)
  PROVE  /\ tip' = [tip EXCEPT ![c] = tree]
         /\ ahead' = [ahead EXCEPT ![c] = TRUE]
         /\ tipAt' \in Times
<1>1. PICK now \in CommitTimes : tipAt' = Stamped(c, tree, now)
  BY DEF CommitLocal
<1>2. now \in Nat
  BY RepositoriesAssumption
<1>3. Stamped(c, tree, now) \in Times
  BY <1>2 DEF Stamped, Times, RepositoriesTypeOK
<1> QED
  BY <1>1, <1>3 DEF CommitLocal

\* What a push that the hook accepts does to the client's repository.
LEMMA ReceiveType ==
  ASSUME RepositoriesTypeOK, NEW c \in Clients
  PROVE  /\ [repo EXCEPT ![c] = Opened(c)] \in [Clients -> {"absent", "bare", "hooked"}]
         /\ Receive(c) => head' \in [Clients -> Trees \cup {NULL}] /\ headAt' \in Times
<1>1. Opened(c) \in {"absent", "bare", "hooked"}
  BY DEF Opened, RepositoriesTypeOK
<1>2. [repo EXCEPT ![c] = Opened(c)] \in [Clients -> {"absent", "bare", "hooked"}]
  BY <1>1 DEF RepositoriesTypeOK
<1>3. ASSUME Receive(c) PROVE head' \in [Clients -> Trees \cup {NULL}]
  BY <1>3 DEF Receive, RepositoriesTypeOK
<1>4. ASSUME Receive(c) PROVE headAt' \in Times
  BY <1>4 DEF Receive, RepositoriesTypeOK, Times
<1> QED
  BY <1>2, <1>3, <1>4

LEMMA CycleEndsType ==
  ASSUME AgentTypeOK, NEW c \in Clients, CycleEnds(c)
  PROVE  /\ at' \in [Clients -> Steps]
         /\ scan' \in [Clients -> Trees]
         /\ mirror' \in [Clients -> Trees]
         /\ todo' \in [Clients -> SUBSET Paths]
         /\ edited' \in [Clients -> SUBSET Paths]
<1>1. EmptyTree \in Trees
  BY DEF EmptyTree, Trees
<1> QED
  BY <1>1 DEF AgentTypeOK, CycleEnds, Steps

LEMMA AgentStepType ==
  ASSUME RepositoriesTypeOK, AgentTypeOK, NEW c \in Clients, AgentStep(c)
  PROVE  RepositoriesTypeOK' /\ AgentTypeOK'
<1> USE DEF stagingVars, serverVars
<1>1. CASE ScanLocal(c)
  <2>1. [p \in Paths |-> IF Scanned(p) THEN disk[c][p] ELSE NoFile] \in Trees
    BY DEF AgentTypeOK, Trees
  <2> QED
    BY <1>1, <2>1 DEF ScanLocal, RepositoriesTypeOK, AgentTypeOK, Steps
<1>2. CASE UpSync(c)
  <2> DEFINE tree == [p \in Paths |-> IF scan[c][p] = NoFile THEN NoFile ELSE disk[c][p]]
  <2> DEFINE gone == \E p \in Paths : scan[c][p] # NoFile /\ disk[c][p] = NoFile
  <2>1. tree \in Trees
    BY DEF AgentTypeOK, Trees
  <2>2. /\ staging' \in [Clients -> {"none", "init", "ready"}]
        /\ repo' = repo /\ head' = head /\ headAt' = headAt
        /\ marker' = marker /\ canonical' = canonical
        /\ disk' = disk /\ base' = base
    BY <1>2 DEF UpSync, RepositoriesTypeOK
  <2>3. \/ CycleEnds(c) /\ UNCHANGED <<tip, tipAt, ahead>>
        \/ /\ Goto(c, IF MustPush(c, tree) THEN "push" ELSE "fetch")
           /\ CommitLocal(c, tree) \/ UNCHANGED <<tip, tipAt, ahead>>
    BY <1>2 DEF UpSync
  <2> HIDE DEF tree, gone
  <2>4. tip' \in [Clients -> Trees \cup {NULL}] /\ ahead' \in [Clients -> BOOLEAN]
        /\ tipAt' \in Times
    <3>1. CASE CommitLocal(c, tree)
      <4>1. /\ tip' = [tip EXCEPT ![c] = tree]
            /\ ahead' = [ahead EXCEPT ![c] = TRUE]
            /\ tipAt' \in Times
        BY <2>1, <3>1, CommitLocalType
      <4> QED
        BY <2>1, <4>1 DEF RepositoriesTypeOK
    <3>2. CASE UNCHANGED <<tip, tipAt, ahead>>
      BY <3>2 DEF RepositoriesTypeOK
    <3> QED
      BY <2>3, <3>1, <3>2
  <2>5. AgentTypeOK'
    <3>1. CASE CycleEnds(c)
      BY <2>2, <3>1, CycleEndsType DEF AgentTypeOK
    <3>2. CASE Goto(c, IF MustPush(c, tree) THEN "push" ELSE "fetch")
      BY <2>2, <3>2 DEF Goto, AgentTypeOK, Steps
    <3> QED
      BY <2>3, <3>1, <3>2
  <2> QED
    BY <2>2, <2>4, <2>5 DEF RepositoriesTypeOK
<1>3. CASE Push(c)
  <2>1. RepositoriesTypeOK'
    <3>1. UNCHANGED <<staging, tip, tipAt, marker, canonical>> /\ repo' = [repo EXCEPT ![c] = Opened(c)]
      BY <1>3 DEF Push
    <3>2. /\ head' \in [Clients -> Trees \cup {NULL}] /\ headAt' \in Times
          /\ ahead' \in [Clients -> BOOLEAN]
      BY <1>3, ReceiveType DEF Push, RepositoriesTypeOK
    <3> QED
      BY <3>1, <3>2, ReceiveType DEF RepositoriesTypeOK
  <2>2. AgentTypeOK'
    BY <1>3, CycleEndsType DEF Push, Goto, AgentTypeOK, Steps
  <2> QED
    BY <2>1, <2>2
<1>4. CASE Fetch(c)
  <2>1. Incoming(c, canonical) \subseteq Paths
    BY DEF Incoming
  <2>2. CASE CycleEnds(c)
    BY <1>4, <2>2, CycleEndsType DEF Fetch, AgentTypeOK, RepositoriesTypeOK
  <2>3. CASE base[c] # Corrupt
    BY <1>4, <2>1, <2>3 DEF Fetch, AgentTypeOK, RepositoriesTypeOK, Steps
  <2> QED
    BY <1>4, <2>2, <2>3 DEF Fetch
<1>5. ASSUME NEW p \in Paths, ApplyChange(c, p)
      PROVE  RepositoriesTypeOK' /\ AgentTypeOK'
  <2>1. disk' \in [Clients -> Trees]
    BY <1>5 DEF ApplyChange, AgentTypeOK, Trees
  <2> QED
    BY <1>5, <2>1 DEF ApplyChange, AgentTypeOK, RepositoriesTypeOK
<1>6. CASE SaveBase(c)
  BY <1>6, CycleEndsType DEF SaveBase, AgentTypeOK, RepositoriesTypeOK
<1> QED
  BY <1>1, <1>2, <1>3, <1>4, <1>5, <1>6 DEF AgentStep

LEMMA AgentFaultType ==
  ASSUME RepositoriesTypeOK, AgentTypeOK, NEW c \in Clients, AgentFault(c)
  PROVE  RepositoriesTypeOK' /\ AgentTypeOK'
<1> USE DEF stagingVars, serverVars
<1>1. CASE NetworkFails(c)
  <2>1. RepositoriesTypeOK'
    <3>1. UNCHANGED <<staging, tip, tipAt, ahead, marker, canonical>>
      BY <1>1 DEF NetworkFails
    <3>2. \/ UNCHANGED <<repo, head, headAt>>
          \/ repo' = [repo EXCEPT ![c] = Opened(c)] /\ Receive(c)
      BY <1>1 DEF NetworkFails
    <3> QED
      BY <3>1, <3>2, ReceiveType DEF RepositoriesTypeOK
  <2> QED
    BY <1>1, <2>1, CycleEndsType DEF NetworkFails, AgentTypeOK
<1>2. CASE ServerDies(c)
  BY <1>2, CycleEndsType DEF ServerDies, AgentTypeOK, RepositoriesTypeOK
<1>3. CASE Crash(c)
  <2>1. staging' \in [Clients -> {"none", "init", "ready"}]
    BY <1>3 DEF Crash, RepositoriesTypeOK
  <2>2. disk' \in [Clients -> Trees]
    <3>1. CASE \E p \in todo[c] : disk' = [disk EXCEPT ![c][p] = Truncated]
      BY <3>1, RepositoriesAssumption DEF AgentTypeOK, Trees
    <3> QED
      BY <1>3, <3>1 DEF Crash, AgentTypeOK
  <2>3. base' \in [Clients -> Trees \cup {Corrupt}]
    BY <1>3 DEF Crash, AgentTypeOK
  <2>4. UNCHANGED <<tip, tipAt, ahead, serverVars, marker, canonical>> /\ CycleEnds(c)
    BY <1>3 DEF Crash
  <2> QED
    BY <2>1, <2>2, <2>3, <2>4, CycleEndsType DEF AgentTypeOK, RepositoriesTypeOK
<1> QED
  BY <1>1, <1>2, <1>3 DEF AgentFault

LEMMA RunEndsType ==
  ASSUME RunEnds
  PROVE  /\ flow' = "idle"
         /\ scanned' \in [Clients -> Trees \cup {NULL}]
         /\ winners' \in UNION {[S -> Clients] : S \in SUBSET Paths}
         /\ projects' \subseteq Keys
<1>1. NoWinners \in [{} -> Clients] /\ {} \in SUBSET Paths
  BY DEF NoWinners
<1> QED
  BY <1>1 DEF RunEnds, NotScanned

LEMMA InTreeType ==
  ASSUME IntakeTypeOK, NEW p \in Paths
  PROVE  InTree(p) \in Contents \cup {NoFile}
  BY DEF InTree, IntakeTypeOK, Trees

\* What a merge or a judgement leaves in the work directory is a tree.
LEMMA MergedType ==
  ASSUME IntakeTypeOK, WinnersScanned, flow = "merge", NEW p \in DOMAIN winners
  PROVE  /\ p \in Paths
         /\ scanned[winners[p]][p] \in Contents \cup {NoFile}
         /\ Merged(p, scanned[winners[p]][p]) \in Contents \cup {NoFile}
<1>1. PICK S \in SUBSET Paths : winners \in [S -> Clients]
  BY DEF IntakeTypeOK
<1>2. p \in Paths /\ winners[p] \in Clients
  BY <1>1
<1>3. scanned[winners[p]] \in Trees
  BY <1>2 DEF IntakeTypeOK, WinnersScanned
<1>4. scanned[winners[p]][p] \in Contents \cup {NoFile}
  BY <1>2, <1>3 DEF Trees
<1>5. Merged(p, scanned[winners[p]][p]) \in Contents \cup {NoFile}
  BY <1>2, <1>4, InTreeType, IntakeAssumption DEF Merged
<1> QED
  BY <1>2, <1>4, <1>5

\* A merge that is through with some of the winners leaves a tree.
LEMMA MergedOfType ==
  ASSUME IntakeTypeOK, WinnersScanned, flow = "merge", NEW done \in SUBSET DOMAIN winners
  PROVE  /\ MergedOf(done) \in Trees
         /\ \A p \in Paths :
              \/ MergedOf(done)[p] = InTree(p)
              \/ /\ p \in DOMAIN winners
                 /\ MergedOf(done)[p] = Merged(p, scanned[winners[p]][p])
<1>1. \A p \in Paths : \/ MergedOf(done)[p] = InTree(p)
                       \/ /\ p \in DOMAIN winners
                          /\ MergedOf(done)[p] = Merged(p, scanned[winners[p]][p])
  BY DEF MergedOf
<1>2. \A p \in Paths : MergedOf(done)[p] \in Contents \cup {NoFile}
  BY <1>1, InTreeType, MergedType
<1> QED
  BY <1>1, <1>2 DEF MergedOf, Trees

\* Only part of a tree stays behind when nothing is committed.
LEMMA LeftBehindType ==
  ASSUME NEW tree \in Trees
  PROVE  /\ LeftBehind(tree) \in Trees
         /\ \A p \in Paths : LeftBehind(tree)[p] = tree[p] \/ LeftBehind(tree)[p] = NoFile
  BY DEF LeftBehind, Trees

LEMMA JudgementsType ==
  ASSUME IntakeTypeOK, NEW key \in Keys, NEW tree \in Judgements(key)
  PROVE  /\ tree \in Trees
         /\ \A p \in Paths : tree[p] = InTree(p) \/ tree[p] \in Judged \ Secrets
<1>1. PICK written \in SUBSET {p \in Paths : MemoryPath(p) /\ p[2] = key} :
        \E F \in [written -> Judged \ Secrets] :
          tree = [p \in Paths |-> IF p \in written THEN F[p] ELSE InTree(p)]
  BY DEF Judgements
<1>2. \A p \in Paths : tree[p] = InTree(p) \/ tree[p] \in Judged \ Secrets
  BY <1>1
<1>3. \A p \in Paths : tree[p] \in Contents \cup {NoFile}
  BY <1>2, InTreeType, IntakeAssumption
<1> QED
  BY <1>1, <1>2, <1>3 DEF Trees

LEMMA CommitType ==
  ASSUME IntakeTypeOK, NEW pathspec, NEW tree \in Trees, Commit(pathspec, tree)
  PROVE  committed' \in Trees /\ loose' \in Trees
  BY DEF Commit, IntakeTypeOK, Trees

LEMMA KeptType ==
  ASSUME IntakeTypeOK
  PROVE  Kept \in Trees /\ \A p \in Paths : Kept[p] = loose[p] \/ Kept[p] = NoFile
  BY DEF Kept, EmptyTree, IntakeTypeOK, Trees

LEMMA IntakeStepType ==
  ASSUME RepositoriesTypeOK, IntakeTypeOK, WinnersScanned, IntakeStep
  PROVE  RepositoriesTypeOK' /\ IntakeTypeOK' /\ WinnersScanned'
<1> USE DEF stagingVars, serverVars, workVars
<1>1. CASE Scan
  <2> DEFINE present == {c \in Clients : head[c] # NULL}
  <2> DEFINE won == {q \in Paths : \E c \in present : Wins(c, q)}
  <2>1. loose' \in Trees /\ UNCHANGED <<committed, stagingVars, serverVars, marker, canonical>>
    BY <1>1, KeptType DEF Scan
  <2>2. /\ flow' = "merge"
        /\ scanned' = head
        /\ winners' = [p \in won |-> CHOOSE c \in present : Wins(c, p)]
        /\ projects' = {p[2] : p \in UNION {MemoryLines(c) : c \in present}}
    BY <1>1 DEF Scan
  <2>3. \A p \in won : winners'[p] \in present
    BY <2>2
  <2>4. \A p \in won : /\ winners'[p] \in Clients
                       /\ scanned'[winners'[p]] # NULL
    BY <2>2, <2>3
  <2>5. winners' \in [won -> Clients] /\ won \in SUBSET Paths
    BY <2>2, <2>4
  <2>6. winners' \in UNION {[S -> Clients] : S \in SUBSET Paths}
    <3> HIDE DEF won
    <3> QED
      BY <2>5
  <2>7. projects' \subseteq Keys
    BY <2>2 DEF MemoryLines, Lines, Touched, Keys
  <2>8. WinnersScanned'
    BY <2>4, <2>5 DEF WinnersScanned
  <2> QED
    BY <2>1, <2>2, <2>6, <2>7, <2>8 DEF RepositoriesTypeOK, IntakeTypeOK, FlowSteps
<1>2. CASE MergeConfig
  <2>1. MergedOf(DOMAIN winners) \in Trees
    BY <1>2, MergedOfType DEF MergeConfig
  <2>2. committed' \in Trees /\ loose' \in Trees
    BY <1>2, <2>1, CommitType DEF MergeConfig
  <2> QED
    BY <1>2, <2>2 DEF MergeConfig, RepositoriesTypeOK, IntakeTypeOK, FlowSteps, WinnersScanned
<1>3. ASSUME NEW key \in Keys, Judge(key)
      PROVE  RepositoriesTypeOK' /\ IntakeTypeOK' /\ WinnersScanned'
  <2>1. committed' \in Trees /\ loose' \in Trees
    <3>1. PICK tree \in Judgements(key) :
            Commit({p \in Paths : InProjectMemory(p) /\ p[2] = key}, tree)
      BY <1>3 DEF Judge
    <3> QED
      BY <3>1, JudgementsType, CommitType
  <2> QED
    BY <1>3, <2>1 DEF Judge, RepositoriesTypeOK, IntakeTypeOK, FlowSteps, WinnersScanned
<1>4. CASE PushCanonical
  BY <1>4 DEF PushCanonical, RepositoriesTypeOK, IntakeTypeOK, FlowSteps, WinnersScanned
<1>5. ASSUME NEW c \in Clients, AdvanceMarker(c)
      PROVE  RepositoriesTypeOK' /\ IntakeTypeOK' /\ WinnersScanned'
  BY <1>5 DEF AdvanceMarker, RepositoriesTypeOK, IntakeTypeOK, WinnersScanned
<1>6. CASE RunDone
  BY <1>6, RunEndsType
     DEF RunDone, RepositoriesTypeOK, IntakeTypeOK, FlowSteps, WinnersScanned
<1>7. CASE MergeStops
  <2>1. Readable \in SUBSET DOMAIN winners
    BY DEF Readable
  <2>2. loose' \in Trees
    BY <1>7, <2>1, MergedOfType, LeftBehindType DEF MergeStops
  <2> QED
    BY <1>7, <2>2, RunEndsType
       DEF MergeStops, RepositoriesTypeOK, IntakeTypeOK, FlowSteps, WinnersScanned
<1>8. ASSUME NEW key \in Keys, JudgeStops(key)
      PROVE  RepositoriesTypeOK' /\ IntakeTypeOK' /\ WinnersScanned'
  BY <1>8, RunEndsType
     DEF JudgeStops, RepositoriesTypeOK, IntakeTypeOK, FlowSteps, WinnersScanned
<1> QED
  BY <1>1, <1>2, <1>3, <1>4, <1>5, <1>6, <1>7, <1>8 DEF IntakeStep

\* What a step that was cut off leaves in the work directory is a tree, too, and has
\* nothing in it that the step would not have written, or had not begun to write.
LEMMA AbandonedType ==
  ASSUME IntakeTypeOK, WinnersScanned, NEW tree \in Abandoned
  PROVE  /\ tree \in Trees
         /\ \A p \in Paths :
              \/ tree[p] = InTree(p) \/ tree[p] = Truncated
              \/ tree[p] \in Judged \ Secrets
              \/ /\ flow = "merge" /\ p \in DOMAIN winners
                 /\ tree[p] = Merged(p, scanned[winners[p]][p])
<1>1. CASE flow = "merge"
  <2>1. PICK t \in Readable : \/ tree = MergedOf(UpTo(t))
                              \/ tree = [MergedOf(UpTo(t)) EXCEPT ![t] = Truncated]
    BY <1>1 DEF Abandoned
  <2> DEFINE whole == MergedOf(UpTo(t))
  <2>2. UpTo(t) \in SUBSET DOMAIN winners
    BY DEF UpTo
  <2>3. /\ whole \in Trees
        /\ \A p \in Paths : \/ whole[p] = InTree(p)
                            \/ p \in DOMAIN winners /\ whole[p] = Merged(p, scanned[winners[p]][p])
    BY <1>1, <2>2, MergedOfType
  <2> HIDE DEF whole
  <2>4. CASE tree = whole
    BY <1>1, <2>3, <2>4
  <2>5. CASE tree = [whole EXCEPT ![t] = Truncated]
    <3>1. \A p \in Paths : tree[p] = Truncated \/ tree[p] = whole[p]
      BY <2>3, <2>5 DEF Trees
    <3>2. tree \in Trees
      BY <2>3, <2>5, RepositoriesAssumption DEF Trees
    <3> QED
      BY <1>1, <2>3, <3>1, <3>2
  <2> QED
    BY <2>1, <2>4, <2>5 DEF whole
<1>2. CASE flow = "judge"
  <2>1. PICK key \in projects : tree \in Judgements(key)
    BY <1>2 DEF Abandoned
  <2>2. key \in Keys
    BY DEF IntakeTypeOK
  <2> QED
    BY <2>1, <2>2, JudgementsType
<1> QED
  BY <1>1, <1>2 DEF Abandoned

LEMMA RunFailsType ==
  ASSUME RepositoriesTypeOK, IntakeTypeOK, WinnersScanned, RunFails
  PROVE  RepositoriesTypeOK' /\ IntakeTypeOK' /\ WinnersScanned'
<1>1. canonical' \in Trees
  BY DEF RunFails, RepositoriesTypeOK, IntakeTypeOK
<1>2. loose' \in Trees
  <2>1. CASE loose' = loose
    BY <2>1 DEF IntakeTypeOK
  <2>2. ASSUME NEW tree \in Abandoned, loose' = LeftBehind(tree)
        PROVE  loose' \in Trees
    BY <2>2, AbandonedType, LeftBehindType
  <2> QED
    BY <2>1, <2>2 DEF RunFails
<1> QED
  BY <1>1, <1>2, RunEndsType
     DEF RunFails, stagingVars, serverVars, RepositoriesTypeOK, IntakeTypeOK, FlowSteps, WinnersScanned

LEMMA OtherFlowType ==
  ASSUME RepositoriesTypeOK, IntakeTypeOK, WinnersScanned,
         NEW p \in Paths, NEW content \in Contents \cup {NoFile}, OtherFlow(p, content)
  PROVE  RepositoriesTypeOK' /\ IntakeTypeOK' /\ WinnersScanned'
<1> DEFINE pathspec == {q \in Paths : PathspecOf(q) = PathspecOf(p)}
<1>1. /\ committed' = [q \in Paths |-> CASE q = p -> content
                                         [] q # p /\ q \in pathspec /\ committed[q] = NoFile -> Kept[q]
                                         [] OTHER -> committed[q]]
      /\ loose' = [q \in Paths |-> IF q \in pathspec THEN NoFile ELSE Kept[q]]
      /\ canonical' = committed'
      /\ UNCHANGED <<flow, scanned, winners, projects, stagingVars, serverVars, marker>>
  BY DEF OtherFlow
<1> HIDE DEF pathspec
<1>2. \A q \in Paths : Kept[q] \in Contents \cup {NoFile} /\ committed[q] \in Contents \cup {NoFile}
  BY KeptType DEF IntakeTypeOK, Trees
<1>3. committed' \in Trees /\ loose' \in Trees
  BY <1>1, <1>2 DEF Trees
<1> QED
  BY <1>1, <1>3 DEF stagingVars, serverVars, RepositoriesTypeOK, IntakeTypeOK, WinnersScanned

\* What a machine knows of its branch stays true through its own steps and faults.
LEMMA KnownNext ==
  ASSUME RepositoriesTypeOK, AgentTypeOK, NEW c \in Clients, NEW d \in Clients, Known(d),
         AgentStep(c) \/ AgentFault(c)
  PROVE  Known(d)'
<1> USE DEF stagingVars, serverVars
<1>1. /\ at \in [Clients -> Steps] /\ ahead \in [Clients -> BOOLEAN]
      /\ tip \in [Clients -> Trees \cup {NULL}] /\ head \in [Clients -> Trees \cup {NULL}]
  BY DEF RepositoriesTypeOK, AgentTypeOK
<1>2. ASSUME at'[d] # "push" \/ at'[d] = at[d], UNCHANGED <<tip, ahead, head>> PROVE Known(d)'
  BY <1>2 DEF Known
<1>3. ASSUME CycleEnds(c) PROVE at'[d] # "push" \/ at'[d] = at[d]
  BY <1>1, <1>3 DEF CycleEnds
<1>4. CASE ScanLocal(c)
  BY <1>1, <1>2, <1>4 DEF ScanLocal
<1>5. CASE UpSync(c)
  <2> DEFINE tree == [p \in Paths |-> IF scan[c][p] = NoFile THEN NoFile ELSE disk[c][p]]
  <2> DEFINE gone == \E p \in Paths : scan[c][p] # NoFile /\ disk[c][p] = NoFile
  <2>1. tree \in Trees /\ tree # NULL
    BY RepositoriesAssumption DEF AgentTypeOK, Trees
  <2>2. head' = head
    BY <1>5 DEF UpSync
  <2>3. \/ CycleEnds(c) /\ UNCHANGED <<tip, tipAt, ahead>>
        \/ /\ Goto(c, IF MustPush(c, tree) THEN "push" ELSE "fetch")
           /\ IF tree # TreeAt(tip[c])
                THEN CommitLocal(c, tree)
                ELSE UNCHANGED <<tip, tipAt, ahead>>
    BY <1>5 DEF UpSync
  <2> HIDE DEF tree, gone
  <2>4. CASE CycleEnds(c) /\ UNCHANGED <<tip, tipAt, ahead>>
    BY <1>2, <1>3, <2>2, <2>4
  <2>5. CASE Goto(c, IF MustPush(c, tree) THEN "push" ELSE "fetch") /\ CommitLocal(c, tree)
    <3>1. tip' = [tip EXCEPT ![c] = tree] /\ ahead' = [ahead EXCEPT ![c] = TRUE]
      BY <2>5 DEF CommitLocal
    <3>2. CASE d = c
      <4>1. tip'[d] = tree /\ ahead'[d] = TRUE
        BY <1>1, <3>1, <3>2
      <4> QED
        BY <2>1, <4>1 DEF Known
    <3>3. CASE d # c
      <4>1. tip'[d] = tip[d] /\ ahead'[d] = ahead[d] /\ at'[d] = at[d]
        BY <1>1, <2>5, <3>1, <3>3 DEF Goto
      <4> QED
        BY <2>2, <4>1 DEF Known
    <3> QED
      BY <3>2, <3>3
  <2>6. CASE /\ Goto(c, IF MustPush(c, tree) THEN "push" ELSE "fetch")
             /\ tree = TreeAt(tip[c]) /\ UNCHANGED <<tip, tipAt, ahead>>
    <3>1. at'[d] = "push" => at[d] = "push" \/ ahead[d]
      <4>1. MustPush(c, tree) => ahead[c]
        BY <2>6 DEF MustPush
      <4> QED
        BY <1>1, <2>6, <4>1 DEF Goto
    <3> QED
      BY <2>2, <2>6, <3>1 DEF Known
  <2> QED
    BY <2>3, <2>4, <2>5, <2>6
<1>6. CASE Push(c)
  <2>1. CASE Goto(c, "fetch") /\ Receive(c) /\ ahead' = [ahead EXCEPT ![c] = FALSE]
    <3>1. tip' = tip /\ head' = [head EXCEPT ![c] = tip[c]] /\ at' = [at EXCEPT ![c] = "fetch"]
      BY <1>6, <2>1 DEF Push, Receive, Goto
    <3> QED
      BY <1>1, <2>1, <3>1 DEF Known
  <2>2. CASE CycleEnds(c) /\ UNCHANGED <<ahead, head, headAt>>
    BY <1>2, <1>3, <1>6, <2>2 DEF Push
  <2> QED
    BY <1>6, <2>1, <2>2 DEF Push
<1>7. CASE Fetch(c)
  <2>1. at'[d] # "push" \/ at'[d] = at[d]
    BY <1>1, <1>3, <1>7 DEF Fetch
  <2> QED
    BY <1>2, <1>7, <2>1 DEF Fetch
<1>8. ASSUME NEW p \in Paths, ApplyChange(c, p) PROVE Known(d)'
  BY <1>2, <1>8 DEF ApplyChange
<1>9. CASE SaveBase(c)
  BY <1>2, <1>3, <1>9 DEF SaveBase
<1>10. CASE NetworkFails(c)
  <2>1. CycleEnds(c) /\ tip' = tip /\ ahead' = ahead
    BY <1>10 DEF NetworkFails
  <2>2. head' = head \/ head' = [head EXCEPT ![c] = tip[c]]
    BY <1>10 DEF NetworkFails, Receive
  <2>3. head'[d] = head[d] \/ head'[d] = tip[d]
    BY <1>1, <2>2
  <2> QED
    BY <1>3, <2>1, <2>3 DEF Known
<1>11. CASE ServerDies(c)
  BY <1>2, <1>3, <1>11 DEF ServerDies
<1>12. CASE Crash(c)
  BY <1>2, <1>3, <1>12 DEF Crash
<1> QED
  BY <1>4, <1>5, <1>6, <1>7, <1>8, <1>9, <1>10, <1>11, <1>12 DEF AgentStep, AgentFault

\* The other steps leave the branches alone.
LEMMA KnownStays ==
  ASSUME \A c \in Clients : Known(c), UNCHANGED <<at, tip, ahead, head>>
  PROVE  \A c \in Clients : Known(c)'
  BY DEF Known

\* The parts of the state that a step may change, by who takes it.
LEMMA LoopTypeNext == LoopTypeInv /\ [Next]_vars => LoopTypeInv'
<1> SUFFICES ASSUME LoopTypeInv, [Next]_vars PROVE LoopTypeInv'
  OBVIOUS
<1>0. /\ RepositoriesTypeOK /\ AgentTypeOK /\ IntakeTypeOK /\ BudgetTypeOK
      /\ WinnersScanned /\ \A c \in Clients : Known(c)
  BY LoopTypeParts
<1> SUFFICES /\ RepositoriesTypeOK' /\ AgentTypeOK' /\ IntakeTypeOK' /\ BudgetTypeOK'
             /\ WinnersScanned' /\ \A c \in Clients : Known(c)'
  BY LoopTypeParts
<1>1. ASSUME UNCHANGED intakeVars PROVE IntakeTypeOK' /\ WinnersScanned'
  BY <1>0, <1>1 DEF intakeVars, workVars, IntakeTypeOK, WinnersScanned
<1>2. ASSUME UNCHANGED agentVars PROVE AgentTypeOK' /\ UNCHANGED at
  BY <1>0, <1>2 DEF agentVars, cycleVars, AgentTypeOK
<1>3. ASSUME UNCHANGED <<budgetVars, left>> PROVE BudgetTypeOK'
  BY <1>0, <1>3 DEF budgetVars, BudgetTypeOK
<1>4. CASE UNCHANGED vars
  <2>1. UNCHANGED <<intakeVars, agentVars, budgetVars, left, stagingVars, serverVars, marker, canonical>>
    BY <1>4 DEF vars
  <2>2. RepositoriesTypeOK' /\ UNCHANGED <<tip, ahead, head>>
    BY <1>0, <2>1 DEF stagingVars, serverVars, RepositoriesTypeOK
  <2> QED
    BY <1>0, <1>1, <1>2, <1>3, <2>1, <2>2, KnownStays
<1>5. ASSUME NEW c \in Clients, Agent(c)
      PROVE  /\ RepositoriesTypeOK' /\ AgentTypeOK' /\ IntakeTypeOK' /\ BudgetTypeOK'
             /\ WinnersScanned' /\ \A d \in Clients : Known(d)'
  <2>1. AgentStep(c) /\ UNCHANGED <<intakeVars, budgetVars, left>>
    BY <1>5 DEF Agent
  <2>2. RepositoriesTypeOK' /\ AgentTypeOK'
    BY <1>0, <2>1, AgentStepType
  <2>3. \A d \in Clients : Known(d)'
    BY <1>0, <2>1, KnownNext
  <2> QED
    BY <1>1, <1>3, <2>1, <2>2, <2>3
<1>6. CASE IntakeRun
  <2>1. IntakeStep /\ UNCHANGED <<agentVars, budgetVars>>
    BY <1>6 DEF IntakeRun
  <2>2. RepositoriesTypeOK' /\ IntakeTypeOK' /\ WinnersScanned'
    BY <1>0, <2>1, IntakeStepType
  <2>3. left' \subseteq Paths
    <3>1. DOMAIN winners \subseteq Paths
      BY <1>0 DEF IntakeTypeOK
    <3> QED
      BY <1>0, <1>6, <3>1 DEF IntakeRun, BudgetTypeOK
  <2>4. BudgetTypeOK'
    BY <1>0, <2>1, <2>3 DEF budgetVars, BudgetTypeOK
  <2>5. UNCHANGED <<tip, ahead, head>>
    BY <2>1 DEF IntakeStep, Scan, MergeConfig, MergeStops, Judge, JudgeStops, PushCanonical,
                AdvanceMarker, RunDone, stagingVars, serverVars
  <2> QED
    BY <1>0, <1>2, <2>1, <2>2, <2>4, <2>5, KnownStays
<1>7. CASE Person
  <2>1. PICK e \in Edits : Edit(e[1], e[2], e[3])
    BY <1>7 DEF Person
  <2>2. e[1] \in Clients /\ e[2] \in Paths /\ e[3] \in Contents \cup {NoFile}
    BY LoopAssumption
  <2>3. AgentTypeOK'
    BY <1>0, <2>1, <2>2 DEF Edit, AgentTypeOK, Trees
  <2>4. /\ UNCHANGED <<at, stagingVars, serverVars, marker, canonical>>
        /\ UNCHANGED <<intakeVars, flowEdits, faults, left>>
    BY <1>7, <2>1 DEF Person, Edit
  <2>5. edits' \in 0 .. MaxEdits
    BY <1>0, <1>7, LoopAssumption DEF Person, BudgetTypeOK
  <2>6. BudgetTypeOK'
    BY <1>0, <2>4, <2>5 DEF BudgetTypeOK
  <2>7. RepositoriesTypeOK' /\ UNCHANGED <<tip, ahead, head>>
    BY <1>0, <2>4 DEF stagingVars, serverVars, RepositoriesTypeOK
  <2> QED
    BY <1>0, <1>1, <2>3, <2>4, <2>6, <2>7, KnownStays
<1>8. CASE Flow
  <2>1. PICK e \in flowEdits : OtherFlow(e[1], e[2]) /\ flowEdits' = flowEdits \ {e}
    BY <1>8 DEF Flow
  <2>2. e[1] \in Paths /\ e[2] \in Contents \cup {NoFile}
    BY <1>0, LoopAssumption DEF BudgetTypeOK
  <2>3. RepositoriesTypeOK' /\ IntakeTypeOK' /\ WinnersScanned'
    BY <1>0, <2>1, <2>2, OtherFlowType
  <2>4. UNCHANGED <<agentVars, edits, faults, left>>
    BY <1>8 DEF Flow
  <2>5. BudgetTypeOK'
    BY <1>0, <2>1, <2>4 DEF BudgetTypeOK
  <2>6. UNCHANGED <<tip, ahead, head>>
    BY <2>1 DEF OtherFlow, stagingVars, serverVars
  <2> QED
    BY <1>0, <1>2, <2>3, <2>4, <2>5, <2>6, KnownStays
<1>9. CASE Fault
  <2>1. faults' \in 0 .. MaxFaults /\ UNCHANGED <<edits, flowEdits>>
    BY <1>0, <1>9, LoopAssumption DEF Fault, BudgetTypeOK
  <2>2. ASSUME NEW c \in Clients, AgentFault(c), UNCHANGED <<intakeVars, left>>
        PROVE  /\ RepositoriesTypeOK' /\ AgentTypeOK' /\ IntakeTypeOK' /\ BudgetTypeOK'
               /\ WinnersScanned' /\ \A d \in Clients : Known(d)'
    <3>1. RepositoriesTypeOK' /\ AgentTypeOK'
      BY <1>0, <2>2, AgentFaultType
    <3>2. \A d \in Clients : Known(d)'
      BY <1>0, <2>2, KnownNext
    <3>3. BudgetTypeOK'
      BY <1>0, <2>1, <2>2 DEF BudgetTypeOK
    <3> QED
      BY <1>1, <2>2, <3>1, <3>2, <3>3
  <2>3. CASE RunFails /\ left' = left \cup DOMAIN winners /\ UNCHANGED agentVars
    <3>1. RepositoriesTypeOK' /\ IntakeTypeOK' /\ WinnersScanned'
      BY <1>0, <2>3, RunFailsType
    <3>2. left' \subseteq Paths
      BY <1>0, <2>3 DEF IntakeTypeOK, BudgetTypeOK
    <3>3. BudgetTypeOK'
      BY <1>0, <2>1, <3>2 DEF BudgetTypeOK
    <3>4. UNCHANGED <<tip, ahead, head>>
      BY <2>3 DEF RunFails, stagingVars, serverVars
    <3> QED
      BY <1>0, <1>2, <2>3, <3>1, <3>3, <3>4, KnownStays
  <2> QED
    BY <1>9, <2>2, <2>3 DEF Fault
<1> QED
  BY <1>4, <1>5, <1>6, <1>7, <1>8, <1>9 DEF Next

LEMMA LoopTypeInvariant == Spec => []LoopTypeInv
<1>1. Init => LoopTypeInv
  BY LoopTypeInit
<1>2. LoopTypeInv /\ [Next]_vars => LoopTypeInv'
  BY LoopTypeNext
<1> QED
  BY <1>1, <1>2, PTL DEF Spec

\* LoopTypeOK always holds: all variables have their types, a merge reads only heads
\* that its run has scanned, an agent pushes only a branch that exists, and a branch that
\* is taken for pushed is the head of its client's repository, after lost answers, crashes
\* and restarts.
THEOREM LoopTypeCorrect == Spec => []LoopTypeOK
<1>1. LoopTypeInv => LoopTypeOK
  BY DEF LoopTypeInv
<1> QED
  BY <1>1, LoopTypeInvariant, PTL

-----------------------------------------------------------------------------
(***************************************************************************)
(* No secret in canonical.  What a merge reads it scans, and what is in the*)
(* work directory came out of a merge, of a judgement or of another flow;  *)
(* so that no step that commits what an earlier one has left there brings a*)
(* secret in either.                                                       *)
(***************************************************************************)
SecretFree ==
  \A p \in {q \in Paths : Base(q) # MemoryIndex} :
    canonical[p] \notin Secrets /\ committed[p] \notin Secrets /\ loose[p] \notin Secrets

LEMMA NoFileNoSecret == NoFile \notin Secrets
  BY RepositoriesAssumption

LEMMA MergedSecretFree ==
  ASSUME LoopTypeInv, SecretFree, flow = "merge", NEW p \in DOMAIN winners, Base(p) # MemoryIndex
  PROVE  Merged(p, scanned[winners[p]][p]) \notin Secrets
<1>1. p \in Paths /\ scanned[winners[p]][p] \in Contents \cup {NoFile}
  BY MergedType DEF LoopTypeInv, LoopTypeOK
<1>2. InTree(p) \notin Secrets
  BY <1>1 DEF InTree, SecretFree
<1> QED
  BY <1>1, <1>2, NoFileNoSecret, IntakeAssumption DEF Merged

LEMMA AbandonedSecretFree ==
  ASSUME LoopTypeInv, SecretFree, NEW tree \in Abandoned,
         NEW p \in Paths, Base(p) # MemoryIndex
  PROVE  tree[p] \notin Secrets
<1>1. InTree(p) \notin Secrets /\ Truncated \notin Secrets
  BY RepositoriesAssumption DEF InTree, SecretFree
<1>2. \/ tree[p] = InTree(p) \/ tree[p] = Truncated
      \/ tree[p] \in Judged \ Secrets
      \/ /\ flow = "merge" /\ p \in DOMAIN winners
         /\ tree[p] = Merged(p, scanned[winners[p]][p])
  BY AbandonedType DEF LoopTypeInv, LoopTypeOK
<1> QED
  BY <1>1, <1>2, MergedSecretFree

LEMMA IntakeSecretFree ==
  ASSUME LoopTypeInv, SecretFree, IntakeStep
  PROVE  SecretFree'
<1> SUFFICES ASSUME NEW p \in Paths, Base(p) # MemoryIndex
             PROVE  canonical'[p] \notin Secrets /\ committed'[p] \notin Secrets /\ loose'[p] \notin Secrets
  BY DEF SecretFree
<1>1. canonical[p] \notin Secrets /\ committed[p] \notin Secrets /\ loose[p] \notin Secrets
      /\ InTree(p) \notin Secrets /\ NoFile \notin Secrets
  BY NoFileNoSecret DEF SecretFree, InTree
<1>2. CASE Scan
  BY <1>1, <1>2 DEF Scan, Kept, EmptyTree
<1>3. CASE MergeConfig
  <2>1. MergedOf(DOMAIN winners)[p] \notin Secrets
    BY <1>1, <1>3, MergedSecretFree DEF MergedOf, MergeConfig
  <2> QED
    BY <1>1, <1>3, <2>1 DEF MergeConfig, Commit
<1>4. ASSUME NEW key \in Keys, Judge(key)
      PROVE  canonical'[p] \notin Secrets /\ committed'[p] \notin Secrets /\ loose'[p] \notin Secrets
  <2>1. PICK tree \in Judgements(key) :
          Commit({q \in Paths : InProjectMemory(q) /\ q[2] = key}, tree)
    BY <1>4 DEF Judge
  <2>2. tree[p] \notin Secrets
    BY <1>1, JudgementsType DEF LoopTypeInv, LoopTypeOK
  <2> QED
    BY <1>1, <1>4, <2>1, <2>2 DEF Judge, Commit
<1>5. CASE PushCanonical
  BY <1>1, <1>5 DEF PushCanonical, workVars
<1>6. ASSUME NEW c \in Clients, AdvanceMarker(c)
      PROVE  canonical'[p] \notin Secrets /\ committed'[p] \notin Secrets /\ loose'[p] \notin Secrets
  BY <1>1, <1>6 DEF AdvanceMarker, workVars
<1>7. CASE RunDone
  BY <1>1, <1>7 DEF RunDone, workVars
<1>8. CASE MergeStops
  <2>1. MergedOf(Readable)[p] \notin Secrets
    BY <1>1, <1>8, MergedSecretFree DEF MergedOf, MergeStops, Readable
  <2>2. loose'[p] \in {MergedOf(Readable)[p], NoFile}
    BY <1>8 DEF MergeStops, LeftBehind
  <2> QED
    BY <1>1, <1>8, <2>1, <2>2 DEF MergeStops
<1>9. ASSUME NEW key \in Keys, JudgeStops(key)
      PROVE  canonical'[p] \notin Secrets /\ committed'[p] \notin Secrets /\ loose'[p] \notin Secrets
  BY <1>1, <1>9 DEF JudgeStops, workVars
<1> QED
  BY <1>2, <1>3, <1>4, <1>5, <1>6, <1>7, <1>8, <1>9 DEF IntakeStep

LEMMA RunFailsSecretFree ==
  ASSUME LoopTypeInv, SecretFree, RunFails
  PROVE  SecretFree'
<1> SUFFICES ASSUME NEW p \in Paths, Base(p) # MemoryIndex
             PROVE  canonical'[p] \notin Secrets /\ committed'[p] \notin Secrets /\ loose'[p] \notin Secrets
  BY DEF SecretFree
<1>1. canonical[p] \notin Secrets /\ committed[p] \notin Secrets /\ loose[p] \notin Secrets
      /\ NoFile \notin Secrets
  BY NoFileNoSecret DEF SecretFree
<1>2. canonical' \in {canonical, committed} /\ committed' = committed
  BY DEF RunFails
<1>3. \A tree \in Abandoned : tree[p] \notin Secrets
  BY AbandonedSecretFree
<1>4. loose'[p] \notin Secrets
  BY <1>1, <1>3 DEF RunFails, LeftBehind
<1> QED
  BY <1>1, <1>2, <1>4

LEMMA OtherFlowSecretFree ==
  ASSUME SecretFree, NEW q \in Paths, NEW content \in Contents \cup {NoFile},
         content \in Secrets => Base(q) = MemoryIndex, OtherFlow(q, content)
  PROVE  SecretFree'
<1> SUFFICES ASSUME NEW p \in Paths, Base(p) # MemoryIndex
             PROVE  canonical'[p] \notin Secrets /\ committed'[p] \notin Secrets /\ loose'[p] \notin Secrets
  BY DEF SecretFree
<1>1. /\ canonical[p] \notin Secrets /\ committed[p] \notin Secrets
      /\ NoFile \notin Secrets /\ Kept[p] \notin Secrets
  BY NoFileNoSecret DEF SecretFree, Kept, EmptyTree
<1>2. committed'[p] \in {content, Kept[p], committed[p]} /\ (committed'[p] = content => p = q \/ content = Kept[p] \/ content = committed[p])
  BY DEF OtherFlow
<1>3. loose'[p] \in {NoFile, Kept[p]} /\ canonical' = committed'
  BY DEF OtherFlow
<1> QED
  BY <1>1, <1>2, <1>3

LEMMA SecretFreeNext == LoopTypeInv /\ SecretFree /\ [Next]_vars => SecretFree'
<1> SUFFICES ASSUME LoopTypeInv, SecretFree, [Next]_vars PROVE SecretFree'
  OBVIOUS
<1>1. CASE UNCHANGED <<canonical, workVars>>
  BY <1>1 DEF SecretFree, workVars
<1>2. CASE UNCHANGED vars
  BY <1>1, <1>2 DEF vars, intakeVars
<1>3. ASSUME NEW c \in Clients, Agent(c) PROVE UNCHANGED <<canonical, workVars>>
  BY <1>3 DEF Agent, intakeVars, AgentStep, ScanLocal, UpSync, Push, Fetch, ApplyChange, SaveBase
<1>4. CASE IntakeRun
  BY <1>4, IntakeSecretFree DEF IntakeRun
<1>5. CASE Person
  BY <1>1, <1>5 DEF Person, Edit, intakeVars
<1>6. CASE Flow
  <2>1. PICK e \in flowEdits : OtherFlow(e[1], e[2])
    BY <1>6 DEF Flow
  <2>2. /\ e[1] \in Paths /\ e[2] \in Contents \cup {NoFile}
        /\ e[2] \in Secrets => Base(e[1]) = MemoryIndex
    BY LoopAssumption DEF LoopTypeInv, LoopTypeOK
  <2> QED
    BY <2>1, <2>2, OtherFlowSecretFree
<1>7. CASE Fault
  <2>1. ASSUME NEW c \in Clients, AgentFault(c), UNCHANGED intakeVars
        PROVE  UNCHANGED <<canonical, workVars>>
    BY <2>1 DEF intakeVars, AgentFault, NetworkFails, ServerDies, Crash
  <2> QED
    BY <1>1, <1>7, <2>1, RunFailsSecretFree DEF Fault
<1> QED
  BY <1>1, <1>2, <1>3, <1>4, <1>5, <1>6, <1>7 DEF Next

\* NoSecretPublished: whatever the clients' repositories have at their heads, and
\* wherever runs are cut off, no secret is in canonical or in a commit of the work
\* directory, but for the digests in the MEMORY.md files (merge.go:154, guardrails).
THEOREM NoSecretEverPublished == Spec => []NoSecretPublished
<1>1. Init => SecretFree
  BY NoFileNoSecret DEF Init, RepositoriesInit, IntakeInit, EmptyTree, SecretFree
<1>2. LoopTypeInv /\ SecretFree /\ [Next]_vars => SecretFree'
  BY SecretFreeNext
<1>3. SecretFree => NoSecretPublished
  BY DEF SecretFree, NoSecretPublished
<1> QED
  BY <1>1, <1>2, <1>3, LoopTypeInvariant, PTL DEF Spec

-----------------------------------------------------------------------------
(***************************************************************************)
(* What the hook keeps out.  It judges only what a push changes: that is   *)
(* enough because what was there before it has judged as well.             *)
(***************************************************************************)
\* A push that gets through leaves no secret where the hook has looked.
LEMMA ReceivedIsJudged ==
  ASSUME LoopTypeInv, SecretOnlyWithoutHook, NEW c \in Clients, Accepts(c), Opened(c) # "bare",
         NEW p \in Paths, HookSees(p) = p
  PROVE  TreeAt(tip[c])[p] \notin Secrets \ Large
<1>1. Opened(c) = "hooked" /\ repo[c] # "bare"
  BY DEF Opened, LoopTypeInv, LoopTypeOK, RepositoriesTypeOK
<1>2. HookAccepts(TreeAt(head[c]), tip[c])
  BY <1>1 DEF Accepts
<1>3. CASE tip[c] = NULL
  BY <1>3, NoFileNoSecret DEF TreeAt, EmptyTree
<1>4. CASE tip[c] # NULL /\ p \in Touched(TreeAt(head[c]), tip[c])
  <2>1. tip[c][p] # NoFile => Scans(tip[c][p])
    BY <1>2, <1>4 DEF HookAccepts
  <2> QED
    BY <1>4, <2>1, NoFileNoSecret DEF Scans, TreeAt
<1>5. CASE tip[c] # NULL /\ TreeAt(head[c])[p] = tip[c][p]
  BY <1>1, <1>5 DEF SecretOnlyWithoutHook, TreeAt
<1> QED
  BY <1>3, <1>4, <1>5 DEF Touched

\* The client's repository gets the tip of the staging repository, or stays.
LEMMA HookReceive ==
  ASSUME LoopTypeInv, SecretOnlyWithoutHook, NEW c \in Clients,
         repo' = [repo EXCEPT ![c] = Opened(c)],
         \/ head' = head
         \/ Accepts(c) /\ head' = [head EXCEPT ![c] = tip[c]]
  PROVE  SecretOnlyWithoutHook'
<1>1. repo \in [Clients -> {"absent", "bare", "hooked"}] /\ head \in [Clients -> Trees \cup {NULL}]
  BY DEF LoopTypeInv, LoopTypeOK, RepositoriesTypeOK
<1> SUFFICES ASSUME NEW d \in Clients, NEW p \in Paths, HookSees(p) = p,
                    TreeAt(head'[d])[p] \in Secrets \ Large
             PROVE  repo'[d] = "bare"
  BY DEF SecretOnlyWithoutHook, TreeAt, EmptyTree
<1>2. TreeAt(head[d])[p] \in Secrets \ Large => repo[d] = "bare"
  BY DEF SecretOnlyWithoutHook
<1>3. repo[d] = "bare" => repo'[d] = "bare"
  BY <1>1 DEF Opened
<1>4. CASE head'[d] = head[d]
  BY <1>2, <1>3, <1>4
<1>5. CASE d = c /\ Accepts(c) /\ head'[c] = tip[c]
  <2>1. Opened(c) = "bare"
    BY <1>5, ReceivedIsJudged
  <2> QED
    BY <1>1, <1>5, <2>1
<1> QED
  BY <1>1, <1>4, <1>5

LEMMA HookNext == LoopTypeInv /\ SecretOnlyWithoutHook /\ [Next]_vars => SecretOnlyWithoutHook'
<1> SUFFICES ASSUME LoopTypeInv, SecretOnlyWithoutHook, [Next]_vars PROVE SecretOnlyWithoutHook'
  OBVIOUS
<1> USE DEF stagingVars, serverVars
<1>1. CASE UNCHANGED <<repo, head>>
  BY <1>1 DEF SecretOnlyWithoutHook, TreeAt, EmptyTree
<1>2. CASE UNCHANGED vars
  BY <1>1, <1>2 DEF vars
<1>3. ASSUME NEW c \in Clients, Agent(c) PROVE SecretOnlyWithoutHook'
  <2>1. CASE Push(c)
    <3>1. /\ repo' = [repo EXCEPT ![c] = Opened(c)]
          /\ \/ head' = head
             \/ Accepts(c) /\ head' = [head EXCEPT ![c] = tip[c]]
      BY <2>1 DEF Push, Receive
    <3> QED
      BY <3>1, HookReceive
  <2>2. CASE ~Push(c)
    BY <1>1, <1>3, <2>2
       DEF Agent, AgentStep, ScanLocal, UpSync, Fetch, ApplyChange, SaveBase
  <2> QED
    BY <2>1, <2>2
<1>4. CASE IntakeRun
  BY <1>1, <1>4
     DEF IntakeRun, IntakeStep, Scan, MergeConfig, MergeStops, Judge, JudgeStops, PushCanonical,
         AdvanceMarker, RunDone
<1>5. CASE Person
  BY <1>1, <1>5 DEF Person, Edit
<1>6. CASE Flow
  BY <1>1, <1>6 DEF Flow, OtherFlow
<1>7. CASE Fault
  <2>1. ASSUME NEW c \in Clients, NetworkFails(c) PROVE SecretOnlyWithoutHook'
    <3>1. CASE UNCHANGED serverVars
      BY <1>1, <3>1
    <3>2. CASE /\ Accepts(c) /\ repo' = [repo EXCEPT ![c] = Opened(c)]
               /\ head' = [head EXCEPT ![c] = tip[c]]
      BY <3>2, HookReceive
    <3> QED
      BY <2>1, <3>1, <3>2 DEF NetworkFails, Receive
  <2>2. ASSUME NEW c \in Clients, ServerDies(c) PROVE SecretOnlyWithoutHook'
    <3>1. /\ repo' = [repo EXCEPT ![c] = "bare"] /\ head' = head
          /\ repo \in [Clients -> {"absent", "bare", "hooked"}]
      BY <2>2 DEF ServerDies, LoopTypeInv, LoopTypeOK, RepositoriesTypeOK
    <3> QED
      BY <3>1 DEF SecretOnlyWithoutHook, TreeAt, EmptyTree
  <2>3. ASSUME NEW c \in Clients, Crash(c) PROVE SecretOnlyWithoutHook'
    BY <1>1, <2>3 DEF Crash
  <2>4. CASE RunFails
    BY <1>1, <2>4 DEF RunFails
  <2> QED
    BY <1>7, <2>1, <2>2, <2>3, <2>4 DEF Fault, AgentFault
<1> QED
  BY <1>2, <1>3, <1>4, <1>5, <1>6, <1>7 DEF Next

\* SecretOnlyWithoutHook: a secret that the hook could have seen is at the head of a
\* client's repository only if that repository was left without a hook, after any
\* sequence of pushes, some of them with lost answers (hook.go, secrets.go).
THEOREM SecretsStopAtHook == Spec => []SecretOnlyWithoutHook
<1>1. Init => SecretOnlyWithoutHook
  BY NoFileNoSecret DEF Init, RepositoriesInit, SecretOnlyWithoutHook, TreeAt, EmptyTree
<1>2. LoopTypeInv /\ SecretOnlyWithoutHook /\ [Next]_vars => SecretOnlyWithoutHook'
  BY HookNext
<1> QED
  BY <1>1, <1>2, LoopTypeInvariant, PTL DEF Spec

-----------------------------------------------------------------------------
(***************************************************************************)
(* A cycle overwrites nothing that is not in the client's repository.      *)
(***************************************************************************)

\* The files the agent scans, has still to do with in this cycle, and nobody has
\* written since the scan.
Followed(c) == {p \in Paths : Scanned(p) /\ p \notin edited[c] /\ (at[c] = "apply" => p \in todo[c])}

\* A step of the cycle begins with the files as they were scanned; once the commit is
\* made they are in the staging repository, and once it is pushed, or did not have to
\* be, in the client's; and what there is to apply had not changed since it came down.
CycleKeeps(c) ==
  /\ at[c] = "idle" => edited[c] = {}
  /\ todo[c] # {} => at[c] = "apply"
  /\ ~ahead[c] => TreeAt(head[c]) = TreeAt(tip[c])
  /\ at[c] # "idle" => \A p \in Followed(c) : scan[c][p] = disk[c][p]
  /\ at[c] = "push" => \A p \in Followed(c) : TreeAt(tip[c])[p] = disk[c][p]
  /\ at[c] \in {"fetch", "apply"} => \A p \in Followed(c) : TreeAt(head[c])[p] = disk[c][p]
  /\ at[c] = "apply" => base[c] # Corrupt /\ \A p \in todo[c] : scan[c][p] = base[c][p]

CycleInv == \A c \in Clients : CycleKeeps(c)

LEMMA CycleInit == Init => CycleInv
  BY DEF Init, RepositoriesInit, AgentInit, CycleInv, CycleKeeps, TreeAt

\* A step that is none of this machine's.
LEMMA CycleUntouched ==
  ASSUME NEW c \in Clients, CycleKeeps(c),
         at'[c] = at[c], scan'[c] = scan[c], todo'[c] = todo[c], edited'[c] = edited[c],
         disk'[c] = disk[c], base'[c] = base[c],
         tip'[c] = tip[c], ahead'[c] = ahead[c], head'[c] = head[c]
  PROVE  CycleKeeps(c)'
  BY DEF CycleKeeps, Followed, TreeAt, EmptyTree

\* The end of a cycle, if the client's repository has what it is known to have.
LEMMA CycleOver ==
  ASSUME LoopTypeInv, NEW c \in Clients, CycleEnds(c),
         ~ahead'[c] => (TreeAt(head[c]) = TreeAt(tip[c]))'
  PROVE  CycleKeeps(c)'
<1>1. at'[c] = "idle" /\ todo'[c] = {} /\ edited'[c] = {}
  BY DEF CycleEnds, LoopTypeInv, LoopTypeOK, AgentTypeOK
<1> QED
  BY <1>1 DEF CycleKeeps

LEMMA ScanCycle ==
  ASSUME LoopTypeInv, NEW c \in Clients, CycleKeeps(c), ScanLocal(c)
  PROVE  CycleKeeps(c)'
<1>1. /\ at[c] = "idle" /\ at'[c] = "stage"
      /\ scan'[c] = [p \in Paths |-> IF Scanned(p) THEN disk[c][p] ELSE NoFile]
      /\ todo' = todo /\ ahead' = ahead /\ head' = head /\ tip' = tip /\ disk' = disk
  BY DEF ScanLocal, stagingVars, serverVars, LoopTypeInv, LoopTypeOK, AgentTypeOK
<1>2. todo'[c] = {}
  BY <1>1 DEF CycleKeeps
<1>3. \A p \in Followed(c)' : scan'[c][p] = disk'[c][p]
  BY <1>1 DEF Followed
<1>4. ~ahead'[c] => (TreeAt(head[c]) = TreeAt(tip[c]))'
  BY <1>1 DEF CycleKeeps, TreeAt, EmptyTree
<1> QED
  BY <1>1, <1>2, <1>3, <1>4 DEF CycleKeeps

\* What is staged is what is on the disk now, where that was scanned.
LEMMA UpSyncCycle ==
  ASSUME LoopTypeInv, NEW c \in Clients, CycleKeeps(c), UpSync(c)
  PROVE  CycleKeeps(c)'
<1> DEFINE tree == [p \in Paths |-> IF scan[c][p] = NoFile THEN NoFile ELSE disk[c][p]]
<1>1. tree \in Trees /\ tree # NULL
  BY RepositoriesAssumption DEF LoopTypeInv, LoopTypeOK, AgentTypeOK, Trees
<1>2. at[c] = "stage" /\ disk' = disk /\ base' = base /\ head' = head
  BY DEF UpSync, serverVars, stagingVars
<1>3. ASSUME CycleEnds(c), UNCHANGED <<tip, tipAt, ahead>>
      PROVE  CycleKeeps(c)'
  BY <1>2, <1>3, CycleOver DEF CycleKeeps, TreeAt, EmptyTree
<1>4. ASSUME Goto(c, IF MustPush(c, tree) THEN "push" ELSE "fetch"),
             IF tree # TreeAt(tip[c])
               THEN CommitLocal(c, tree)
               ELSE UNCHANGED <<tip, tipAt, ahead>>
      PROVE  CycleKeeps(c)'
  <2>1. /\ at'[c] = IF MustPush(c, tree) THEN "push" ELSE "fetch"
        /\ scan' = scan /\ todo' = todo /\ edited' = edited
    BY <1>4 DEF Goto, LoopTypeInv, LoopTypeOK, AgentTypeOK
  <2>2. todo[c] = {}
    BY <1>2 DEF CycleKeeps
  <2>3. \A p \in Followed(c)' : /\ scan[c][p] = disk[c][p]
                                /\ tree[p] = disk[c][p]
    <3>1. \A p \in Followed(c)' : p \in Followed(c) /\ p \in Paths
      BY <1>2, <2>1 DEF Followed
    <3>2. \A p \in Followed(c) : scan[c][p] = disk[c][p]
      BY <1>2 DEF CycleKeeps
    <3> QED
      BY <3>1, <3>2
  <2>4. TreeAt(tip[c])' = tree
    <3>1. CASE tree # TreeAt(tip[c])
      <4>1. tip' = [tip EXCEPT ![c] = tree]
        BY <1>1, <1>4, <3>1, CommitLocalType DEF LoopTypeInv, LoopTypeOK
      <4>2. tip'[c] = tree
        BY <4>1 DEF LoopTypeInv, LoopTypeOK, RepositoriesTypeOK
      <4> HIDE DEF tree
      <4> QED
        BY <1>1, <4>2 DEF TreeAt
    <3>2. CASE tree = TreeAt(tip[c])
      <4> HIDE DEF tree
      <4> QED
        BY <1>4, <3>2 DEF TreeAt, EmptyTree
    <3> QED
      BY <3>1, <3>2
  <2>5. ~ahead'[c] => TreeAt(head[c])' = tree /\ ~MustPush(c, tree)
    <3> HIDE DEF tree
    <3>1. CASE tree # TreeAt(tip[c])
      <4>1. ahead' = [ahead EXCEPT ![c] = TRUE]
        BY <1>1, <1>4, <3>1, CommitLocalType DEF LoopTypeInv, LoopTypeOK
      <4> QED
        BY <4>1 DEF LoopTypeInv, LoopTypeOK, RepositoriesTypeOK
    <3>2. CASE tree = TreeAt(tip[c])
      <4>1. ahead' = ahead
        BY <1>4, <3>2
      <4> QED
        BY <1>2, <3>2, <4>1 DEF CycleKeeps, MustPush, TreeAt, EmptyTree
    <3> QED
      BY <3>1, <3>2
  <2>6. ~MustPush(c, tree) => ~ahead'[c]
    <3> HIDE DEF tree
    <3> QED
      BY <1>4 DEF MustPush
  <2> HIDE DEF tree
  <2> QED
    BY <1>2, <2>1, <2>2, <2>3, <2>4, <2>5, <2>6 DEF CycleKeeps
<1> QED
  BY <1>3, <1>4 DEF UpSync

\* What has been received is what was staged.
LEMMA PushCycle ==
  ASSUME LoopTypeInv, NEW c \in Clients, CycleKeeps(c), Push(c)
  PROVE  CycleKeeps(c)'
<1>1. at[c] = "push" /\ disk' = disk /\ base' = base /\ tip' = tip
  BY DEF Push
<1>2. CASE Goto(c, "fetch") /\ Receive(c) /\ ahead' = [ahead EXCEPT ![c] = FALSE]
  <2>1. /\ at'[c] = "fetch" /\ head'[c] = tip[c]
        /\ scan' = scan /\ todo' = todo /\ edited' = edited
    BY <1>2 DEF Goto, Receive, LoopTypeInv, LoopTypeOK, AgentTypeOK, RepositoriesTypeOK
  <2>2. TreeAt(head[c])' = TreeAt(tip[c]) /\ TreeAt(tip[c])' = TreeAt(tip[c])
    BY <1>1, <2>1 DEF TreeAt, EmptyTree
  <2>3. \A p \in Followed(c)' : p \in Followed(c)
    BY <1>1, <2>1 DEF Followed
  <2> QED
    BY <1>1, <2>1, <2>2, <2>3 DEF CycleKeeps
<1>3. CASE CycleEnds(c) /\ UNCHANGED <<ahead, head, headAt>>
  BY <1>1, <1>3, CycleOver DEF CycleKeeps, TreeAt, EmptyTree
<1> QED
  BY <1>2, <1>3 DEF Push

\* What is to come down has not changed on the machine.
LEMMA FetchCycle ==
  ASSUME LoopTypeInv, NEW c \in Clients, CycleKeeps(c), Fetch(c)
  PROVE  CycleKeeps(c)'
<1>1. /\ at[c] = "fetch"
      /\ UNCHANGED <<disk, base, tip, ahead, head>>
  BY DEF Fetch, stagingVars, serverVars
<1>2. CASE CycleEnds(c)
  BY <1>1, <1>2, CycleOver DEF CycleKeeps, TreeAt, EmptyTree
<1>3. CASE /\ base[c] # Corrupt
           /\ at' = [at EXCEPT ![c] = "apply"]
           /\ todo' = [todo EXCEPT ![c] = Incoming(c, canonical)]
           /\ UNCHANGED <<scan, edited>>
  <2>1. at'[c] = "apply" /\ todo'[c] = Incoming(c, canonical)
    BY <1>3 DEF LoopTypeInv, LoopTypeOK, AgentTypeOK
  <2>2. \A p \in Incoming(c, canonical) : scan[c][p] = base[c][p]
    <3>1. DOMAIN scan[c] = Paths
      BY DEF LoopTypeInv, LoopTypeOK, AgentTypeOK, Trees
    <3>2. ASSUME NEW p \in Incoming(c, canonical)
          PROVE  Manifest!Classify(scan[c][p], base[c][p], canonical[p]) \in {"remoteOnlyChange", "remoteDelete"}
      BY <3>1 DEF Incoming, Manifest!Diff
    <3>3. ASSUME NEW local, NEW before, NEW now,
                 Manifest!Classify(local, before, now) \in {"remoteOnlyChange", "remoteDelete"}
          PROVE  local = before
      BY <3>3 DEF Manifest!Classify, Manifest!Differs
    <3> QED
      BY <3>2, <3>3
  <2>3. \A p \in Followed(c)' : p \in Followed(c)
    BY <1>1, <1>3 DEF Followed
  <2>4. TreeAt(head[c])' = TreeAt(head[c]) /\ TreeAt(tip[c])' = TreeAt(tip[c])
    BY <1>1 DEF TreeAt, EmptyTree
  <2> QED
    BY <1>1, <1>3, <2>1, <2>2, <2>3, <2>4 DEF CycleKeeps
<1> QED
  BY <1>2, <1>3 DEF Fetch

LEMMA ApplyCycle ==
  ASSUME LoopTypeInv, NEW c \in Clients, CycleKeeps(c), NEW p \in Paths, ApplyChange(c, p)
  PROVE  CycleKeeps(c)'
<1>1. /\ at[c] = "apply" /\ at' = at
      /\ disk'[c] = [disk[c] EXCEPT ![p] = mirror[c][p]]
      /\ todo'[c] = todo[c] \ {p}
      /\ UNCHANGED <<base, scan, edited, tip, ahead, head>>
  BY DEF ApplyChange, stagingVars, serverVars, LoopTypeInv, LoopTypeOK, AgentTypeOK
<1>2. \A q \in Followed(c)' : q \in Followed(c) /\ disk'[c][q] = disk[c][q]
  BY <1>1 DEF Followed, LoopTypeInv, LoopTypeOK, AgentTypeOK, Trees
<1>3. TreeAt(head[c])' = TreeAt(head[c]) /\ TreeAt(tip[c])' = TreeAt(tip[c])
  BY <1>1 DEF TreeAt, EmptyTree
<1> QED
  BY <1>1, <1>2, <1>3 DEF CycleKeeps

LEMMA EditCycle ==
  ASSUME LoopTypeInv, NEW c \in Clients, CycleKeeps(c),
         NEW p \in Paths, NEW content \in Contents \cup {NoFile}, Edit(c, p, content)
  PROVE  CycleKeeps(c)'
<1>1. UNCHANGED <<base, at, scan, todo, tip, ahead, head>>
  BY DEF Edit, stagingVars, serverVars
<1>2. TreeAt(head[c])' = TreeAt(head[c]) /\ TreeAt(tip[c])' = TreeAt(tip[c])
  BY <1>1 DEF TreeAt, EmptyTree
<1>3. CASE at[c] = "idle"
  BY <1>1, <1>2, <1>3 DEF Edit, CycleKeeps
<1>4. CASE at[c] # "idle"
  <2>1. /\ edited'[c] = edited[c] \cup {p}
        /\ disk'[c] = [disk[c] EXCEPT ![p] = content]
    BY <1>4 DEF Edit, LoopTypeInv, LoopTypeOK, AgentTypeOK
  <2>2. \A q \in Followed(c)' : q \in Followed(c) /\ disk'[c][q] = disk[c][q]
    BY <1>1, <2>1 DEF Followed, LoopTypeInv, LoopTypeOK, AgentTypeOK, Trees
  <2> QED
    BY <1>1, <1>2, <1>4, <2>1, <2>2 DEF CycleKeeps
<1> QED
  BY <1>3, <1>4

\* Faults end the cycle, and leave it open whether a push has taken effect.
LEMMA FaultCycle ==
  ASSUME LoopTypeInv, NEW c \in Clients, CycleKeeps(c), AgentFault(c)
  PROVE  CycleKeeps(c)'
<1>1. CASE NetworkFails(c)
  <2>1. /\ CycleEnds(c) /\ tip' = tip /\ ahead' = ahead
        /\ head'[c] = head[c] \/ head'[c] = tip[c]
    BY <1>1 DEF NetworkFails, Receive, stagingVars, serverVars, LoopTypeInv, LoopTypeOK,
                RepositoriesTypeOK
  <2> QED
    BY <2>1, CycleOver DEF CycleKeeps, TreeAt, EmptyTree
<1>2. CASE ServerDies(c)
  BY <1>2, CycleOver DEF ServerDies, stagingVars, CycleKeeps, TreeAt, EmptyTree
<1>3. CASE Crash(c)
  BY <1>3, CycleOver DEF Crash, serverVars, CycleKeeps, TreeAt, EmptyTree
<1> QED
  BY <1>1, <1>2, <1>3 DEF AgentFault

\* What an agent does, and what goes wrong with it, leaves the others alone.
LEMMA OtherMachines ==
  ASSUME LoopTypeInv, NEW c \in Clients, NEW d \in Clients, d # c, CycleKeeps(d),
         AgentStep(c) \/ AgentFault(c)
  PROVE  CycleKeeps(d)'
<1> USE DEF stagingVars, serverVars
<1>1. ASSUME AgentTypeOK, CycleEnds(c)
      PROVE  at'[d] = at[d] /\ scan'[d] = scan[d] /\ todo'[d] = todo[d] /\ edited'[d] = edited[d]
  BY <1>1 DEF CycleEnds, AgentTypeOK
<1>2. ASSUME AgentTypeOK, NEW step, Goto(c, step)
      PROVE  at'[d] = at[d] /\ scan'[d] = scan[d] /\ todo'[d] = todo[d] /\ edited'[d] = edited[d]
  BY <1>2 DEF Goto, AgentTypeOK
<1>3. AgentTypeOK /\ RepositoriesTypeOK
  BY DEF LoopTypeInv, LoopTypeOK
<1>4. CASE ScanLocal(c)
  BY <1>3, <1>4, CycleUntouched DEF ScanLocal, AgentTypeOK
<1>5. CASE UpSync(c)
  <2> DEFINE tree == [p \in Paths |-> IF scan[c][p] = NoFile THEN NoFile ELSE disk[c][p]]
  <2>1. tree \in Trees
    BY <1>3 DEF AgentTypeOK, Trees
  <2>2. /\ disk' = disk /\ base' = base /\ head' = head
        /\ CycleEnds(c) \/ Goto(c, IF MustPush(c, tree) THEN "push" ELSE "fetch")
        /\ CommitLocal(c, tree) \/ UNCHANGED <<tip, tipAt, ahead>>
    BY <1>5 DEF UpSync
  <2> HIDE DEF tree
  <2>3. tip'[d] = tip[d] /\ ahead'[d] = ahead[d]
    <3>1. CASE CommitLocal(c, tree)
      <4>1. /\ tip' = [tip EXCEPT ![c] = tree]
            /\ ahead' = [ahead EXCEPT ![c] = TRUE]
        BY <1>3, <2>1, <3>1, CommitLocalType
      <4> QED
        BY <1>3, <4>1 DEF RepositoriesTypeOK
    <3> QED
      BY <2>2, <3>1
  <2>4. at'[d] = at[d] /\ scan'[d] = scan[d] /\ todo'[d] = todo[d] /\ edited'[d] = edited[d]
    BY <1>1, <1>2, <1>3, <2>2
  <2> QED
    BY <2>2, <2>3, <2>4, CycleUntouched
<1>6. CASE Push(c)
  <2>1. at'[d] = at[d] /\ scan'[d] = scan[d] /\ todo'[d] = todo[d] /\ edited'[d] = edited[d]
    BY <1>1, <1>2, <1>3, <1>6 DEF Push
  <2>2. head'[d] = head[d] /\ ahead'[d] = ahead[d] /\ tip' = tip /\ disk' = disk /\ base' = base
    BY <1>3, <1>6 DEF Push, Receive, RepositoriesTypeOK
  <2> QED
    BY <2>1, <2>2, CycleUntouched
<1>7. CASE Fetch(c)
  <2>1. at'[d] = at[d] /\ scan'[d] = scan[d] /\ todo'[d] = todo[d] /\ edited'[d] = edited[d]
    <3>1. CASE CycleEnds(c)
      BY <1>1, <1>3, <3>1
    <3>2. CASE ~CycleEnds(c)
      BY <1>3, <1>7, <3>2 DEF Fetch, AgentTypeOK
    <3> QED
      BY <3>1, <3>2
  <2> QED
    BY <1>7, <2>1, CycleUntouched DEF Fetch
<1>8. ASSUME NEW p \in Paths, ApplyChange(c, p) PROVE CycleKeeps(d)'
  BY <1>3, <1>8, CycleUntouched DEF ApplyChange, AgentTypeOK
<1>9. CASE SaveBase(c)
  <2>1. at'[d] = at[d] /\ scan'[d] = scan[d] /\ todo'[d] = todo[d] /\ edited'[d] = edited[d]
    BY <1>1, <1>3, <1>9 DEF SaveBase
  <2> QED
    BY <1>3, <1>9, <2>1, CycleUntouched DEF SaveBase, AgentTypeOK
<1>10. CASE AgentFault(c)
  <2>1. at'[d] = at[d] /\ scan'[d] = scan[d] /\ todo'[d] = todo[d] /\ edited'[d] = edited[d]
    BY <1>1, <1>3, <1>10 DEF AgentFault, NetworkFails, ServerDies, Crash
  <2>2. tip' = tip /\ ahead' = ahead
    BY <1>10 DEF AgentFault, NetworkFails, ServerDies, Crash
  <2>3. head'[d] = head[d]
    BY <1>3, <1>10 DEF AgentFault, NetworkFails, Receive, ServerDies, Crash, RepositoriesTypeOK
  <2>4. disk'[d] = disk[d] /\ base'[d] = base[d]
    BY <1>3, <1>10 DEF AgentFault, NetworkFails, ServerDies, Crash, AgentTypeOK
  <2> QED
    BY <2>1, <2>2, <2>3, <2>4, CycleUntouched
<1> QED
  BY <1>4, <1>5, <1>6, <1>7, <1>8, <1>9, <1>10 DEF AgentStep

LEMMA AgentCycle ==
  ASSUME LoopTypeInv, NEW c \in Clients, CycleKeeps(c), AgentStep(c)
  PROVE  CycleKeeps(c)'
<1>1. CASE SaveBase(c)
  BY <1>1, CycleOver DEF SaveBase, stagingVars, serverVars, CycleKeeps, TreeAt, EmptyTree
<1> QED
  BY <1>1, ScanCycle, UpSyncCycle, PushCycle, FetchCycle, ApplyCycle DEF AgentStep

LEMMA CycleNext == LoopTypeInv /\ CycleInv /\ [Next]_vars => CycleInv'
<1> SUFFICES ASSUME LoopTypeInv, CycleInv, [Next]_vars, NEW d \in Clients PROVE CycleKeeps(d)'
  BY DEF CycleInv
<1>1. CycleKeeps(d)
  BY DEF CycleInv
<1>2. CASE UNCHANGED <<agentVars, tip, ahead, head>>
  BY <1>1, <1>2, CycleUntouched DEF agentVars, cycleVars
<1>3. CASE UNCHANGED vars
  BY <1>2, <1>3 DEF vars, stagingVars, serverVars
<1>4. ASSUME NEW c \in Clients, AgentStep(c) \/ AgentFault(c) PROVE CycleKeeps(d)'
  BY <1>1, <1>4, OtherMachines, AgentCycle, FaultCycle
<1>5. CASE IntakeRun
  BY <1>2, <1>5
     DEF IntakeRun, IntakeStep, Scan, MergeConfig, MergeStops, Judge, JudgeStops, PushCanonical,
         AdvanceMarker, RunDone, stagingVars, serverVars
<1>6. CASE Person
  <2>1. PICK e \in Edits : Edit(e[1], e[2], e[3])
    BY <1>6 DEF Person
  <2>2. e[1] \in Clients /\ e[2] \in Paths /\ e[3] \in Contents \cup {NoFile}
    BY LoopAssumption
  <2>3. CASE e[1] = d
    BY <1>1, <2>1, <2>2, <2>3, EditCycle
  <2>4. CASE e[1] # d
    BY <1>1, <2>1, <2>2, <2>4, CycleUntouched
       DEF Edit, stagingVars, serverVars, LoopTypeInv, LoopTypeOK, AgentTypeOK
  <2> QED
    BY <2>3, <2>4
<1>7. CASE Flow
  BY <1>2, <1>7 DEF Flow, OtherFlow, stagingVars, serverVars
<1>8. CASE Fault
  <2>1. CASE RunFails /\ UNCHANGED agentVars
    BY <1>2, <2>1 DEF RunFails, stagingVars, serverVars
  <2> QED
    BY <1>4, <1>8, <2>1 DEF Fault
<1> QED
  BY <1>3, <1>4, <1>5, <1>6, <1>7, <1>8 DEF Next, Agent

\* Only a file that is to come down, or people, change a file.
LEMMA OnlyIncomingOverwrites ==
  ASSUME LoopTypeInv, CycleInv, [Next]_vars, edits' = edits,
         NEW c \in Clients, NEW p \in Paths, disk'[c][p] # disk[c][p]
  PROVE  at[c] = "apply" /\ p \in todo[c]
<1>1. CASE disk' = disk
  BY <1>1
<1>2. ASSUME NEW d \in Clients, NEW q \in Paths, NEW content,
             disk' = [disk EXCEPT ![d][q] = content], q \in todo[d]
      PROVE  at[c] = "apply" /\ p \in todo[c]
  <2>1. d = c /\ q = p
    BY <1>2 DEF LoopTypeInv, LoopTypeOK, AgentTypeOK, Trees
  <2> QED
    BY <1>2, <2>1 DEF CycleInv, CycleKeeps
<1>3. CASE UNCHANGED vars
  BY <1>1, <1>3 DEF vars, agentVars
<1>4. ASSUME NEW d \in Clients, AgentStep(d)
      PROVE  at[c] = "apply" /\ p \in todo[c]
  BY <1>1, <1>2, <1>4 DEF AgentStep, ScanLocal, UpSync, Push, Fetch, ApplyChange, SaveBase
<1>5. ASSUME NEW d \in Clients, AgentFault(d)
      PROVE  at[c] = "apply" /\ p \in todo[c]
  <2>1. CASE \E q \in todo[d] : disk' = [disk EXCEPT ![d][q] = Truncated]
    <3>1. todo[d] \subseteq Paths
      BY DEF LoopTypeInv, LoopTypeOK, AgentTypeOK
    <3> QED
      BY <1>2, <2>1, <3>1
  <2> QED
    BY <1>1, <1>5, <2>1 DEF AgentFault, NetworkFails, ServerDies, Crash
<1>6. CASE IntakeRun
  BY <1>1, <1>6 DEF IntakeRun, agentVars
<1>7. CASE Person
  <2>1. edits \in Nat
    BY LoopAssumption DEF LoopTypeInv, LoopTypeOK
  <2> QED
    BY <1>7, <2>1 DEF Person
<1>8. CASE Flow
  BY <1>1, <1>8 DEF Flow, agentVars
<1>9. CASE Fault
  BY <1>1, <1>5, <1>9 DEF Fault, agentVars
<1> QED
  BY <1>3, <1>4, <1>6, <1>7, <1>8, <1>9 DEF Next, Agent

\* NothingIsLost: on no machine, and with any number of others, of flows and of
\* faults, is a version of a scanned file overwritten that has not come down before
\* and got to the server, unless it was written after the scan (syncer.go:53-116).
THEOREM NothingEverLost == Spec => NothingIsLost
<1> DEFINE Protected(c, p) ==
      disk'[c][p] # disk[c][p] /\ edits' = edits /\ p \notin edited[c]
        => /\ base[c] # Corrupt
           /\ disk[c][p] = base[c][p]
           /\ TreeAt(head[c])[p] = disk[c][p]
<1>1. Init => CycleInv
  BY CycleInit
<1>2. LoopTypeInv /\ CycleInv /\ [Next]_vars => CycleInv'
  BY CycleNext
<1>3. LoopTypeInv /\ CycleInv /\ [Next]_vars
        => [\A c \in Clients, p \in {q \in Paths : Scanned(q)} : Protected(c, p)]_vars
  <2> SUFFICES ASSUME LoopTypeInv, CycleInv, [Next]_vars,
                      NEW c \in Clients, NEW p \in Paths, Scanned(p),
                      disk'[c][p] # disk[c][p], edits' = edits, p \notin edited[c]
               PROVE  /\ base[c] # Corrupt
                      /\ disk[c][p] = base[c][p]
                      /\ TreeAt(head[c])[p] = disk[c][p]
    OBVIOUS
  <2>1. at[c] = "apply" /\ p \in todo[c]
    BY OnlyIncomingOverwrites
  <2>2. p \in Followed(c)
    BY <2>1 DEF Followed
  <2> QED
    BY <2>1, <2>2 DEF CycleInv, CycleKeeps
<1> QED
  BY <1>1, <1>2, <1>3, LoopTypeInvariant, PTL DEF Spec, NothingIsLost
=============================================================================
