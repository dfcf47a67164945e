----------------------------- MODULE ManifestDiff -----------------------------
(***************************************************************************)
(* The three-way comparison an agent makes between its files, the canonical*)
(* state it saw last and the canonical state it sees now                   *)
(* (internal/manifest/diff.go).  A manifest maps every path to what is     *)
(* there, or to NoFile; the hash of a file stands for its content.         *)
(***************************************************************************)
CONSTANT NoFile   \* there is no file at a path

\* changed: present on one side only, or with another hash.
Differs(now, before) == now # before

\* Mutant of Classify: a file that has gone from canonical is not told from one
\* that was never there.
ClassifyKeeps(local, base, remote) ==
  LET here  == Differs(local, base)
      there == Differs(remote, base)
  IN IF local # NoFile /\ local = remote THEN "unchanged"
     ELSE CASE here /\ there   -> "bothChanged"
            [] here /\ ~there  -> IF local = NoFile THEN "localDelete" ELSE "localOnlyChange"
            [] ~here /\ there  -> IF remote = NoFile THEN "unchanged" ELSE "remoteOnlyChange"
            [] ~here /\ ~there -> "unchanged"

\* One path of Diff, with classify: two equal files are unchanged whatever the
\* base says; a change on both sides is a conflict, even when both have deleted.
Classify(local, base, remote) ==
  LET here  == Differs(local, base)
      there == Differs(remote, base)
  IN IF local # NoFile /\ local = remote THEN "unchanged"
     ELSE CASE here /\ there   -> "bothChanged"
            [] here /\ ~there  -> IF local = NoFile THEN "localDelete" ELSE "localOnlyChange"
            [] ~here /\ there  -> IF remote = NoFile THEN "remoteDelete" ELSE "remoteOnlyChange"
            [] ~here /\ ~there -> "unchanged"

\* Diff over all paths.
Diff(local, base, remote) ==
  [p \in DOMAIN local |-> Classify(local[p], base[p], remote[p])]
=============================================================================
