------------------------------ MODULE SyncPaths ------------------------------
(***************************************************************************)
(* The parts of the sync chain that decide from a path alone: which files  *)
(* an agent scans (internal/syncer/scan.go, slug.go), which paths of       *)
(* canonical it can place on the machine (localpath.go), which paths the   *)
(* pre-receive hook lets through (internal/githook/whitelist.go) and which *)
(* of them intake merges or hands to the judge (cmd/memoryctl/scan.go).    *)
(* Each has a rule of its own.  Paths are those of Targets; a name with a  *)
(* blank in it has the token " ".                                          *)
(***************************************************************************)
EXTENDS Targets

\* canonicalKey yields these keys, reverseSlug takes them back.
HomeKey(key) == key = <<"HOME">> \/ key[1] = "HOME-"

InProjectMemory(p) ==
  /\ Len(p) >= 4
  /\ p[1] = Projects
  /\ p[3] = Memory

\* Rules are scanned in their directory only, skills, agents and project memory
\* in whole trees, projects only under the machine's slug prefix.
Scanned(p) ==
  \/ p = ClaudeMD
  \/ Under(p, RulesDir) /\ Len(p) = 3 /\ Markdown(Base(p))
  \/ Under(p, SkillsDir)
  \/ Under(p, AgentsDir)
  \/ InProjectMemory(p) /\ HomeKey(p[2])

\* localPath: here rules may be in directories of their own, and so may memory.
Mappable(p) ==
  \/ p = ClaudeMD
  \/ Under(p, RulesDir)
  \/ Under(p, SkillsDir)
  \/ Under(p, AgentsDir)
  \/ /\ p[1] = Projects
     /\ \E i \in 3 .. Len(p) - 1 : p[i] = Memory /\ (i = 3 \/ p[2][1] = "HOME-")
     /\ HomeKey(p[2])

Whitelisted(p) ==
  \/ p = ClaudeMD
  \/ Under(p, RulesDir) /\ Len(p) = 3 /\ Markdown(Base(p)) /\ Len(Base(p)) > 1
  \/ Under(p, SkillsDir)
  \/ Under(p, AgentsDir)
  \/ InProjectMemory(p)

HasBlank(segment) == \E i \in DOMAIN segment : segment[i] = " "

\* The hook takes the last blank-separated field of a line of git diff --raw for
\* the path: what follows the last blank of the path, if there is one.
HookSees(p) ==
  IF \A i \in DOMAIN p : ~HasBlank(p[i]) THEN p
  ELSE LET i == CHOOSE i \in DOMAIN p :
                  HasBlank(p[i]) /\ \A j \in DOMAIN p : j > i => ~HasBlank(p[j])
           k == CHOOSE k \in DOMAIN p[i] :
                  p[i][k] = " " /\ \A j \in DOMAIN p[i] : j > k => p[i][j] # " "
       IN <<SubSeq(p[i], k + 1, Len(p[i]))>> \o SubSeq(p, i + 1, Len(p))

\* What the scan of the client repositories makes of a path: config is merged
\* mechanically, memory is for the judge, the rest is left alone.
ConfigPath(p) == Under(p, GlobalDir)
MemoryPath(p) == IsProjectMemoryTarget(p)
=============================================================================
