---------------------------- MODULE MCTargetGuard ----------------------------
(***************************************************************************)
(* Instances of TargetGuard for TLC.                                       *)
(***************************************************************************)
EXTENDS TargetGuard, TLC

Skill     == << <<"global">>, <<"skills">>, <<"s">>, <<"SKILL", ".md">> >>
Reference == << <<"global">>, <<"skills">>, <<"s">>, <<"ref", ".md">> >>

\* Two files of one skill: proposals have one of them or both.
SkillFiles == {Skill, Reference}

TwoProposals == {1, 2}

NoRejections == {}

\* The hashes are in some order.
Hashed == (Skill :> 1) @@ (Reference :> 2)

Symmetry == Permutations(Sessions) \cup Permutations(Workers)
=============================================================================
