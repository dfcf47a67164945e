--------------------------- MODULE MCApplyApproved ---------------------------
(***************************************************************************)
(* Instances of ApplyApproved for TLC.                                     *)
(***************************************************************************)
EXTENDS ApplyApproved

Rule   == << <<"global">>, <<"rules">>, <<"go", ".md">> >>
Other  == << <<"global">>, <<"rules">>, <<"sql", ".md">> >>
Entry  == << <<"projects">>, <<"p">>, <<"memory">>, <<"go", ".md">> >>
Skill  == << <<"global">>, <<"skills">>, <<"s">>, <<"SKILL", ".md">> >>
Script == << <<"global">>, <<"skills">>, <<"s">>, <<"run", ".sh">> >>

OneRule     == {Rule}
RuleAndEntry == {Rule, Entry}
WholeSkill  == {Skill, Script}
TwoRules    == {Rule, Other}

NoRejections == {}
CommitIds    == Nat \ {0}
=============================================================================
