--------------------------- MODULE MCProposalStore ---------------------------
(***************************************************************************)
(* Instances of ProposalStore for TLC.                                     *)
(***************************************************************************)
EXTENDS ProposalStore, TLC

Rule    == << <<"global">>, <<"rules">>, <<"go", ".md">> >>
Entry   == << <<"projects">>, <<"p">>, <<"memory">>, <<"go", ".md">> >>
Outside == << <<"global">>, <<"rules">>, <<"..">>, <<"go", ".md">> >>

\* A rule and a project entry of the same file name: one group, two kinds and two
\* pathspecs, so that a proposal may carry both or move from one to the other.
PairPaths == {Rule, Entry}

\* The same, and a path that is refused.
MixedPaths == {Rule, Entry, Outside}

NoRejections  == {}
RuleRejection == {<<"rule", <<"go", ".md">> >>}

Symmetry == Permutations(Proposals) \cup Permutations(Workers)
=============================================================================
