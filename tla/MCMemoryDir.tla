----------------------------- MODULE MCMemoryDir -----------------------------
(***************************************************************************)
(* Instances of MemoryDir for TLC.                                         *)
(***************************************************************************)
EXTENDS MemoryDir

One == <<"one", ".md">>
Two == <<"two", "-", "b", ".md">>

Key      == <<"k">>
TwoNames == {One, Two}

Tokens == {"one", "One", "two", "b", "-", "_", ".md", "MEMORY", "memory"}
LowerToken ==
  [t \in Tokens |-> CASE t = "One"    -> "one"
                      [] t = "_"      -> "-"
                      [] t = "MEMORY" -> "memory"
                      [] OTHER        -> t]
WordTokens == {"one", "two", "b", "memory"}

Written(name, description) ==
  << Delimiter, <<"name:", name>>, <<"description:", description>>,
     <<"metadata:">>, <<"  type:", "fact">>, Delimiter >>
SecretLine == <<"token">>

Rule == << <<"global">>, <<"rules">>, <<"go", ".md">> >>

\* An entry under a name that is not normal, with prose around it.
AddOne == << <<"text">>, FileOp(<<"One", ".md">>) >> \o Written("1", "old") \o <<End>>
\* A merge: one entry is rewritten, the other goes, and a proposal is made of both.
Merge ==
  <<FileOp(<<"two", "_", "b", ".md">>)>> \o Written("2", "new")
    \o <<End, DeleteOp(One), ProposalOp(Rule), <<"text">>, End>>
\* One file that is rejected for a secret and one for its name.
Rejected ==
  <<FileOp(One)>> \o Written("1", "new") \o <<SecretLine, End, FileOp(<<"MEMORY", ".md">>)>>
    \o Written("i", "index") \o <<End>>
DropTwo == <<DeleteOp(Two)>>

AllOutputs == {AddOne, Merge, Rejected, DropTwo, <<Nothing>>}
Secret     == {SecretLine}

Heading  == <<"## Hot cache">>
Plain    == <<Heading, <<"- fact", "1">> >>
Bulleted == <<Heading, <<"- [", "link">> >>
Big      == <<Heading, <<"- fact", "2">> >>

AllDigests == {Plain, <<Heading>>, Bulleted, Big}
BigDigests == {Big}
=============================================================================
