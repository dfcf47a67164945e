------------------------------ MODULE MCSyncLoop ------------------------------
(***************************************************************************)
(* Instances of SyncLoop for TLC.                                          *)
(***************************************************************************)
EXTENDS SyncLoop

Rule  == << <<"global">>, <<"rules">>, <<"go", ".md">> >>
Entry == << <<"projects">>, <<"HOME-", "k">>, <<"memory">>, <<"go", ".md">> >>

OneMachine  == {1}
TwoMachines == {1, 2}

OneRule    == {Rule}
RuleAndEntry == {Rule, Entry}

\* One machine: a rule is written, with a newline at its end, with secrets in it too, one
\* of them too large for the hook to see, deleted and put back; an entry is deleted.  An
\* entry that goes as a rule of the same content comes is a rename.
ManyEdits == {<<1, Rule, "a+nl">>, <<1, Rule, "s">>, <<1, Rule, "big">>, <<1, Rule, NoFile>>,
              <<1, Entry, NoFile>>}

\* A rule is written on machine 1 only.
OneWriter == {<<1, Rule, "a">>, <<1, Rule, "b">>}

NoFlowEdits == {}
\* Other flows drop the rule and write the entry.
RuleForEntry == {<<Rule, NoFile>>, <<Entry, "a+nl">>}

\* A final newline is all that is cut off.
Cut == [v \in Contents |-> IF v = "a+nl" THEN "a" ELSE v]
=============================================================================
