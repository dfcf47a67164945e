----------------------------- MODULE MemoryFiles -----------------------------
(***************************************************************************)
(* What memoryctl makes of the files of a project's memory: the output of  *)
(* a model as operations (internal/ops), the names and the frontmatter of  *)
(* entries, and the index MEMORY.md with its bullets and its hot block     *)
(* (internal/guardrails, cmd/memoryctl/corpus.go).                         *)
(*                                                                         *)
(* A file is the sequence of its lines, and a line a tuple whose first     *)
(* component is what the code looks for: a marker, a field, the start of a *)
(* bullet, or none of them.  A file whose last line has no newline, as a   *)
(* write that fails may leave it, ends with NoNewline, which is no line.   *)
(* A file name is a sequence of tokens: words, hyphens and at the end      *)
(* ".md".                                                                  *)
(***************************************************************************)
EXTENDS SequencesExt

CONSTANTS
  Lower,       \* lower-case forms of the tokens of names: a function
  Words,       \* the tokens made of lower-case letters and digits
  SecretLines, \* lines with a secret in them
  NoFile       \* there is no file

HasSecret(file) == \E i \in DOMAIN file : file[i] \in SecretLines

Blank     == <<"">>
NoNewline == <<"no newline">>

Torn(file)  == file # <<>> /\ file[Len(file)] = NoNewline
Lines(file) == IF Torn(file) THEN Front(file) ELSE file

\* What can be left of a line: what the code looks for in it, or not even that.
Pieces(line) ==
  IF line = Blank THEN {}
  ELSE {<<"part">>} \cup {<<line[1], "part">> : i \in {j \in DOMAIN line : j > 1}}

\* What os.WriteFile leaves when it fails part way: the file emptied and the bytes of
\* some first lines, up to a newline, up to just before one, or to the middle of a line.
CutOff(file) ==
  LET lines == Lines(file)
  IN {SubSeq(lines, 1, k) : k \in 0 .. Len(lines) - 1}
       \cup {Append(SubSeq(lines, 1, k), NoNewline) : k \in {j \in DOMAIN lines : lines[j] # Blank}}
       \cup UNION {{SubSeq(lines, 1, k - 1) \o <<piece, NoNewline>> : piece \in Pieces(lines[k])} :
                     k \in DOMAIN lines}

-----------------------------------------------------------------------------
\* Lines of a model's output.
End     == <<"===END===">>
Nothing == <<"NOTHING">>
FileOp(name)       == <<"===FILE:", name>>
DeleteOp(name)     == <<"===DELETE:", name>>
ProposalOp(target) == <<"===PROPOSAL:", target>>

Parser == [block |-> "none", name |-> <<>>, lines |-> <<>>,
           files |-> <<>>, deletes |-> <<>>, proposals |-> <<>>, failed |-> FALSE]

InBlock(parser, line) ==
  LET op == [name |-> parser.name, content |-> parser.lines]
  IN CASE line # End -> [parser EXCEPT !.lines = Append(@, line)]
       [] line = End /\ parser.block = "file" ->
            [parser EXCEPT !.block = "none", !.files = Append(@, op)]
       [] OTHER ->
            [parser EXCEPT !.block = "none", !.proposals = Append(@, op)]

Open(parser, block, name) == [parser EXCEPT !.block = block, !.name = name, !.lines = <<>>]

\* Lines outside a block that are no marker are skipped, a marker without a name is
\* an error.
TopLevel(parser, line) ==
  LET marker == line[1] \in {"===FILE:", "===PROPOSAL:", "===DELETE:"}
  IN IF marker /\ line[2] = <<>> THEN [parser EXCEPT !.failed = TRUE]
     ELSE CASE line[1] = "===FILE:"     -> Open(parser, "file", line[2])
            [] line[1] = "===PROPOSAL:" -> Open(parser, "proposal", line[2])
            [] line[1] = "===DELETE:"   -> [parser EXCEPT !.deletes = Append(@, line[2])]
            [] OTHER                    -> parser

HandleLine(parser, line) ==
  CASE parser.failed -> parser
    [] ~parser.failed /\ parser.block # "none" -> InBlock(parser, line)
    [] OTHER -> TopLevel(parser, line)

\* The parser after so many lines of an output.
After(output) ==
  LET after[k \in 0 .. Len(output)] ==
        IF k = 0 THEN Parser ELSE HandleLine(after[k - 1], output[k])
  IN after

\* Mutant of Parse: what was read of a block that does not end is taken for all of it.
ParseUnterminated(output) ==
  LET read == After(output)[Len(output)]
  IN IF read.block = "none" THEN read ELSE InBlock(read, End)

\* A block that does not end is an error, and then nothing is done.
Parse(output) ==
  LET read == After(output)[Len(output)]
  IN [read EXCEPT !.failed = @ \/ read.block # "none"]

-----------------------------------------------------------------------------
\* NormalizeFilename: in lower case, with hyphens for underscores.
Normalized(name) == [i \in DOMAIN name |-> Lower[name[i]]]

\* The pattern of names: words with single hyphens between them, then ".md".
ValidName(name) ==
  /\ Len(name) % 2 = 0 /\ name # <<>>
  /\ \A i \in DOMAIN name : CASE i % 2 = 1    -> name[i] \in Words
                              [] i = Len(name) -> name[i] = ".md"
                              [] OTHER         -> name[i] = "-"
  /\ name # <<"memory", ".md">>

\* Lines of an entry.
Delimiter == <<"---">>

FirstWith(lines, field) == SelectInSeq(lines, LAMBDA line : line[1] = field)

\* The value of a field of a block, empty when it is not there.
Value(block, field) ==
  LET i == FirstWith(block, field) IN IF i = 0 THEN "" ELSE block[i][2]

\* The lines between the two delimiters, all the rest when there is no second one.
Block(file) ==
  LET rest  == Tail(file)
      close == FirstWith(rest, "---")
  IN IF close = 0 THEN rest ELSE SubSeq(rest, 1, close - 1)

\* ValidateFrontmatter: a name, a description and, indented after metadata, a type.
ValidFrontmatter(file) ==
  /\ file # <<>> /\ file[1] = Delimiter
  /\ FirstWith(Tail(file), "---") # 0
  /\ LET block    == Block(file)
         metadata == FirstWith(block, "metadata:")
     IN /\ Value(block, "name:") # "" /\ Value(block, "description:") # ""
        /\ metadata # 0 /\ Value(SubSeq(block, metadata + 1, Len(block)), "  type:") # ""

\* What a file operation must be not to be rejected.
Acceptable(op) ==
  /\ ValidName(Normalized(op.name))
  /\ ValidFrontmatter(op.content)
  /\ ~HasSecret(op.content)

-----------------------------------------------------------------------------
\* Lines of the index.
HotBegin == <<"<!-- HOT:BEGIN -->">>
HotEnd   == <<"<!-- HOT:END -->">>
DefaultHeader == << <<"# Memory index">>, Blank >>

IsBullet(line) == line[1] = "- ["

\* extractFrontmatterField, which asks for no second delimiter.
Field(file, field) ==
  IF file = <<>> \/ file[1] # Delimiter THEN "" ELSE Value(Block(file), field)

\* buildIndexLine.
Bullet(name, file) == <<"- [", Field(file, "name:"), name, Field(file, "description:")>>

\* Mutant of Header: the index is written anew.
HeaderDefault(index) == DefaultHeader

\* buildIndexHeader: the lines before the first bullet.
Header(index) ==
  LET first == SelectInSeq(index, IsBullet)
  IN CASE index = <<>> -> DefaultHeader
       [] index # <<>> /\ first = 0 -> index
       [] OTHER -> SubSeq(index, 1, first - 1)

\* A bullet that stands at the end of a line that was cut off.
Glued(bullet) == <<"glued", bullet[2], bullet[3], bullet[4]>>

\* The lines after a header: the first of them becomes part of the last line of a
\* header that has no newline there.
Joined(header, bullets) ==
  IF Torn(header) /\ bullets # <<>>
  THEN Append(Front(Front(header)), Glued(bullets[1])) \o Tail(bullets)
  ELSE header \o bullets

\* RebuildIndex; what matters of the order of the entries is that they have one.
Rebuilt(index, entries) ==
  LET names   == SetToSeq({n \in DOMAIN entries : entries[n] # NoFile})
      bullets == [i \in DOMAIN names |-> Bullet(names[i], entries[names[i]])]
  IN Joined(IF index = NoFile THEN DefaultHeader ELSE Header(index), bullets)

LastOf(index, marker) == SelectLastInSeq(index, LAMBDA line : line = marker)

\* ReplaceHotBlock: between the last two markers, wherever they are, or in a block
\* after the first line.
WithHotBlock(old, digest) ==
  LET index == IF old \in {NoFile, <<>>} THEN DefaultHeader ELSE Lines(old)
      begin == LastOf(index, HotBegin)
      end   == LastOf(index, HotEnd)
  IN IF begin = 0 \/ end = 0
     THEN <<index[1], HotBegin>> \o digest \o <<HotEnd, Blank>> \o Tail(index)
     ELSE SubSeq(index, 1, begin) \o digest \o SubSeq(index, end, Len(index))

\* extractHotDigest, what a session is given of the index.
HotDigest(index) ==
  LET begin == LastOf(index, HotBegin)
      end   == LastOf(index, HotEnd)
  IN IF begin = 0 \/ end <= begin THEN <<>> ELSE SubSeq(index, begin + 1, end - 1)

\* The digest of an index that may not be there.
Hot(index) == IF index = NoFile THEN <<>> ELSE HotDigest(index)
=============================================================================
