------------------------------- MODULE Targets -------------------------------
(***************************************************************************)
(* The canonical paths a proposal may write, and what is derived from a    *)
(* path: whether it is allowed at all, the kind and the group of the       *)
(* proposal that carries it, and the pathspec its commit is limited to     *)
(* (internal/pipeline/target.go, kind.go).                                 *)
(*                                                                         *)
(* A path is a sequence of segments and a segment a sequence of tokens, so *)
(* that the prefix and suffix tests of the code become tests of the first  *)
(* or the last token: "projects/p/memory/bug-x.md" is                      *)
(*   << <<"projects">>, <<"p">>, <<"memory">>, <<"bug-", "x", ".md">> >>.  *)
(***************************************************************************)
EXTENDS Naturals, Sequences

GlobalDir   == << <<"global">> >>
RulesDir    == << <<"global">>, <<"rules">> >>
SkillsDir   == << <<"global">>, <<"skills">> >>
AgentsDir   == << <<"global">>, <<"agents">> >>
ClaudeMD    == << <<"global">>, <<"CLAUDE", ".md">> >>
Projects    == <<"projects">>
Memory      == <<"memory">>
MemoryIndex == <<"MEMORY", ".md">>

\* strings.HasPrefix(target, "<dir>/").
Under(target, dir) ==
  /\ Len(target) > Len(dir)
  /\ SubSeq(target, 1, Len(dir)) = dir

Base(target) == target[Len(target)]

Markdown(name) == name # <<>> /\ name[Len(name)] = ".md"

\* Not empty, relative, already clean and without "..".
SafePath(target) ==
  /\ target # <<>>
  /\ \A i \in DOMAIN target :
       /\ target[i] \notin {<<>>, <<".">>}
       /\ \A j \in DOMAIN target[i] : target[i][j] # ".."

IsProjectMemoryTarget(target) ==
  /\ Len(target) = 4
  /\ target[1] = Projects
  /\ target[3] = Memory
  /\ target[4] # MemoryIndex
  /\ Markdown(target[4])

ValidateTarget(target) ==
  /\ SafePath(target)
  /\ \/ target = ClaudeMD
     \/ Under(target, RulesDir) /\ Markdown(Base(target))
     \/ Under(target, SkillsDir)
     \/ Under(target, AgentsDir)
     \/ IsProjectMemoryTarget(target)

Kinds == {"skill", "rule", "agent", "global", "project-entry", "bug",
          "one-time-task", "code-change"}

GlobalKind(target) ==
  CASE Under(target, SkillsDir) -> "skill"
    [] Under(target, RulesDir)  -> "rule"
    [] Under(target, AgentsDir) -> "agent"
    [] OTHER                    -> "global"

ProjectKind(name) ==
  CASE name[1] = "bug-"  -> "bug"
    [] name[1] = "task-" -> "one-time-task"
    [] name[1] = "todo-" -> "code-change"
    [] OTHER             -> "project-entry"

KindOf(target) ==
  IF Under(target, GlobalDir) THEN GlobalKind(target) ELSE ProjectKind(Base(target))

\* All files of a skill form one group; any other file is a group by its name,
\* whichever directory it is in.
GroupOf(target) == IF Under(target, SkillsDir) THEN target[3] ELSE Base(target)

\* The directory a commit of the target is limited to.
PathspecOf(target) ==
  IF target[1] = Projects /\ Len(target) > 1 THEN SubSeq(target, 1, 2) ELSE GlobalDir

\* The first file of a stored proposal: files are loaded in the order of their
\* paths, so a global one comes before any project's.
FirstTarget(targets) ==
  CHOOSE t \in targets : Under(t, GlobalDir) \/ \A s \in targets : ~Under(s, GlobalDir)
=============================================================================
